---------------------------- MODULE TelnetStream ----------------------------
(***************************************************************************)
(* The bytes of a Telnet connection (src/app/dal/device/telnet_client.py). *)
(*                                                                         *)
(* A byte is one of the command bytes, or any other value, which stands    *)
(* for itself.  The first half is the negotiator, which is fed chunks; the *)
(* second is what a peer means to send, item by item, and what a client    *)
(* that supports no option makes of it.                                    *)
(***************************************************************************)
EXTENDS Naturals, Sequences, SequencesExt

Verbs == {"DO", "DONT", "WILL", "WONT"}

-----------------------------------------------------------------------------
(* _TelnetNegotiator *)

NewNegotiator == [state |-> "normal", verb |-> "DO", text |-> <<>>, sent |-> <<>>]

\* A request is refused; DONT and WONT need no reply.
Reply(n, option) ==
    CASE n.verb = "DO"   -> [n EXCEPT !.sent = Append(@, <<"WONT", option>>)]
      [] n.verb = "WILL" -> [n EXCEPT !.sent = Append(@, <<"DONT", option>>)]
      [] OTHER           -> n

Keep(n, byte) == [n EXCEPT !.state = "normal", !.text = Append(@, byte)]
To(n, state) == [n EXCEPT !.state = state]

\* One byte.  Inside a subnegotiation only IAC SE ends it, and a doubled IAC
\* is data.
Take(n, byte) ==
    CASE n.state = "normal" -> IF byte = "IAC" THEN To(n, "iac") ELSE Keep(n, byte)
      [] n.state = "iac" /\ byte = "IAC" -> Keep(n, byte)
      [] n.state = "iac" /\ byte \in Verbs -> [To(n, "verb") EXCEPT !.verb = byte]
      [] n.state = "iac" /\ byte \notin Verbs \cup {"IAC"} ->
            To(n, IF byte = "SB" THEN "sb" ELSE "normal")
      [] n.state = "verb" -> To(Reply(n, byte), "normal")
      [] n.state = "sb" -> To(n, IF byte = "IAC" THEN "sb_iac" ELSE "sb")
      [] n.state = "sb_iac" -> To(n, IF byte = "SE" THEN "normal" ELSE "sb")

\* The negotiator after a chunk.
Run(n, chunk) ==
    LET after[i \in 0..Len(chunk)] == IF i = 0 THEN n ELSE Take(after[i - 1], chunk[i])
    IN after[Len(chunk)]

\* feed(): the state is kept from one chunk to the next.  text and sent are
\* the cleaned bytes and the refusals since the connection was opened.
BadFeed(n, chunk) == Run(To(n, "normal"), chunk)
Feed(n, chunk) == Run(n, chunk)

-----------------------------------------------------------------------------
(* What the peer means *)

Text(byte) == [kind |-> "text", byte |-> byte]
Option(verb, option) == [kind |-> "option", verb |-> verb, option |-> option]
Sub(payload) == [kind |-> "sub", payload |-> payload]
Nop == [kind |-> "nop"]

\* What a peer may send, where Bytes are the values of a byte.
Items(Bytes) ==
    [kind : {"text"}, byte : Bytes] \cup [kind : {"option"}, verb : Verbs, option : Bytes]
    \cup [kind : {"sub"}, payload : Seq(Bytes)] \cup {Nop}

\* The commands are bytes, too.
Commands(Bytes) == {"IAC", "SB", "SE", "NOP"} \cup Verbs \subseteq Bytes

Escaped(byte) == IF byte = "IAC" THEN <<"IAC", "IAC">> ELSE <<byte>>
Doubled(s) == FlattenSeq([i \in DOMAIN s |-> Escaped(s[i])])

Encoded(item) ==
    CASE item.kind = "text" -> Escaped(item.byte)
      [] item.kind = "option" -> <<"IAC", item.verb, item.option>>
      [] item.kind = "sub" -> <<"IAC", "SB">> \o Doubled(item.payload) \o <<"IAC", "SE">>
      [] item.kind = "nop" -> <<"IAC", "NOP">>

Wire(items) == FlattenSeq([i \in DOMAIN items |-> Encoded(items[i])])

\* The items that have arrived completely with the first n bytes.
Arrived(items, n) ==
    SubSeq(items, 1, Max({k \in 0..Len(items) : Len(Wire(SubSeq(items, 1, k))) <= n}))

Shown(item) == IF item.kind = "text" THEN <<item.byte>> ELSE <<>>
MeantText(items) == FlattenSeq([i \in DOMAIN items |-> Shown(items[i])])

\* RFC 854: a request for an option is refused, an answer is not answered.
Refused(item) ==
    IF item.kind # "option" THEN <<>>
    ELSE CASE item.verb = "DO" -> <<<<"WONT", item.option>>>>
           [] item.verb = "WILL" -> <<<<"DONT", item.option>>>>
           [] OTHER -> <<>>
MeantRefusals(items) == FlattenSeq([i \in DOMAIN items |-> Refused(items[i])])
=============================================================================
