--------------------------- MODULE LegacyRequests ---------------------------
(***************************************************************************)
(* The legacy endpoints: one request is one thread of the server, from the *)
(* role check through the device lookup, the factories and the device      *)
(* client to the clean-up.  Requests share the three stored mappings,      *)
(* which administrators replace at any time, and the lazily built database *)
(* engine of dal/db/db_client.py.                                          *)
(*                                                                         *)
(* The metadata database, the devices and the proxies are external: any    *)
(* call to them may fail.                                                  *)
(***************************************************************************)
EXTENDS TelnetStream, Functions

CONSTANTS
    Requests,    \* the requests of the run
    Roles,       \* the identities that are tried
    Loads,       \* what is asked: [saved, the mappings stored at the start;
                 \*   calls[q], the calls request q may be, [path, device, op];
                 \*   edits, a bound on the payloads saved]
    Payloads,    \* Payloads[name]: the payloads an administrator may send
    Tables,      \* Tables[t][d]: the metadata row of device d, or None
    Bursts,      \* Bursts[step]: what a Telnet device may send at that step
    Bytes,       \* the values of a byte
    MaxBytes,    \* max_bytes of one Telnet reply
    None

Names == {"device_lookup", "client_mapping", "proxy_mapping"}
Classes == {"netconf", "telnet"}     \* the six vendor classes differ in wording
Codes == {200, 400, 401, 403, 404, 500, 501, 502}
Steps == <<"username", "password", "prompt", "output">>
Marker == [username |-> <<"U", ":">>, password |-> <<"P", ":">>,
           prompt |-> <<">", " ">>, output |-> <<">", " ">>]

VARIABLES
    load,        \* the load of this behaviour
    saved,       \* saved[name]: the payloads stored under name, oldest first
    engine,      \* _engine: None, or the request that created it
    factory,     \* _session_factory: None, or the engine it is bound to
    pools,       \* the requests whose create_engine() made a connection pool
    request      \* request[q]: the locals of request q

vars == <<load, saved, engine, factory, pools, request>>

\* stage: what the request does next.  bound: the sessionmaker it has built.
\* open: its connections that the code has not closed.  heard: the items the
\* device sent on the Telnet connection; unread: their bytes still to be read.
\* neg: the negotiator.  from: how long the text was before this _recv_until.
\* For the properties: began, how many payloads were stored, and ready,
\* whether a factory existed, when the request began.
NewRequest ==
    [stage |-> "idle", call |-> None, began |-> None, ready |-> FALSE,
     table |-> None, bound |-> None, row |-> None, class |-> None, host |-> None,
     open |-> {}, answer |-> None, step |-> 1, heard |-> <<>>, unread |-> <<>>,
     neg |-> NewNegotiator, from |-> 0, output |-> <<>>]

Init ==
    /\ load \in Loads /\ saved = load.saved
    /\ engine = None /\ factory = None /\ pools = {}
    /\ request = [q \in Requests |-> NewRequest]

At(q, stage) == request[q].stage = stage
With(r, changes) ==
    [f \in DOMAIN r |-> IF f \in DOMAIN changes THEN changes[f] ELSE r[f]]
Put(q, r) == request' = [request EXCEPT ![q] = r]
Step(q, changes) == Put(q, With(request[q], changes))
Shared == <<load, saved, engine, factory, pools>>

\* The routers routes have no finally clause.
CleansUp(c) == c.path = "devices"

\* The answer is decided; a client that was made is cleaned up.
Answer(q, code, changes) ==
    LET r == With(request[q], changes) IN
    Put(q, [r EXCEPT !.answer = code,
                     !.stage = IF r.class # None /\ CleansUp(r.call) THEN "cleanup" ELSE "done"])

-----------------------------------------------------------------------------
(* Mappings *)

BadValid(n, p) == TRUE
Valid(n, p) ==
    n # "device_lookup" =>
        /\ Len(p.columns) \in 1..8 /\ IsInjective(p.columns)
        /\ n = "client_mapping" => Range(p.map) \subseteq Classes /\ DOMAIN p.map # {}

\* Every stored payload has been validated.
ASSUME LegacyAssumption ==
    /\ None \notin Requests /\ None \notin Classes /\ None \notin Codes
    /\ \A l \in Loads :
        /\ DOMAIN l.saved = Names
        /\ \A n \in Names :
            /\ l.saved[n] \in Seq(Payloads[n])
            /\ \A v \in DOMAIN l.saved[n] : Valid(n, l.saved[n][v])

\* PUT /mappings/{name}: one statement replaces the whole payload.
SaveConfig(role, n, p) ==
    /\ role = "Administrator" /\ Valid(n, p)
    /\ SumFunction([m \in Names |-> Len(saved[m]) - Len(load.saved[m])]) < load.edits
    /\ saved' = [saved EXCEPT ![n] = Append(@, p)]
    /\ UNCHANGED <<load, engine, factory, pools, request>>

Missing(n) == saved[n] = <<>>
BadCurrent(n) == Head(saved[n])
Current(n) == Last(saved[n])

\* The key of a row, then its less specific forms.
Candidates(p, row) ==
    LET part(c) == IF c \in DOMAIN row.cols THEN row.cols[c] ELSE "*"
        key == [i \in DOMAIN p.columns |-> part(p.columns[i])]
    IN <<key>> \o (IF Len(key) > 1 THEN <<Append(Front(key), "*")>> ELSE <<>>)
               \o <<<<Head(key)>>, <<"default">>>>

Named(p, keys) ==
    LET hits == {i \in DOMAIN keys : keys[i] \in DOMAIN p.map}
    IN IF hits = {} THEN None ELSE p.map[keys[Min(hits)]]

ClientOf(p, row) == Named(p, Candidates(p, row))
ProxyOf(p, row) == Named(p, Append(Candidates(p, row), <<"*", "*">>))

-----------------------------------------------------------------------------
(* The request and the lookup of its device *)

Refusal(c, role) ==
    CASE role = "anonymous" -> 401
      [] role = "none" -> 403
      [] c.path = "mutation" -> IF role = "Administrator" THEN 501 ELSE 403
      [] OTHER -> None

Begin(q, role, c) ==
    /\ At(q, "idle")
    /\ LET start == [stage |-> "lookup", call |-> c, ready |-> factory # None,
                     began |-> [n \in Names |-> Len(saved[n])]]
       IN IF Refusal(c, role) # None THEN Answer(q, Refusal(c, role), start)
          ELSE IF c.path = "stub" THEN Answer(q, 200, start)
          ELSE Step(q, start)
    /\ UNCHANGED Shared

ReadLookup(q) ==
    /\ At(q, "lookup")
    /\ IF Missing("device_lookup") THEN Answer(q, 400, <<>>)
       ELSE Step(q, [stage |-> "session", table |-> Current("device_lookup").table])
    /\ UNCHANGED Shared

\* _ensure_session_factory, without a lock: test, create, bind, assign.
BadHasFactory == FALSE
HasFactory == factory # None

CheckFactory(q) ==
    /\ At(q, "session")
    /\ Step(q, [stage |-> IF HasFactory THEN "query" ELSE "create"])
    /\ UNCHANGED Shared

CreateEngine(q) ==
    /\ At(q, "create")
    /\ engine' = q /\ pools' = pools \cup {q}
    /\ Step(q, [stage |-> "bind"])
    /\ UNCHANGED <<load, saved, factory>>

BindFactory(q) ==
    /\ At(q, "bind")
    /\ Step(q, [stage |-> "assign", bound |-> engine])
    /\ UNCHANGED Shared

AssignFactory(q) ==
    /\ At(q, "assign")
    /\ factory' = request[q].bound
    /\ Step(q, [stage |-> "query"])
    /\ UNCHANGED <<load, saved, engine, pools>>

\* The engine is not configured, or the database does not answer the query.
LookupFails(q) ==
    /\ request[q].stage \in {"create", "query"}
    /\ Answer(q, 400, <<>>)
    /\ UNCHANGED Shared

Query(q) ==
    /\ At(q, "query") /\ request[q].table \in DOMAIN Tables
    /\ LET row == Tables[request[q].table][request[q].call.device] IN
       IF row = None THEN Answer(q, 404, <<>>)
       ELSE Step(q, [stage |-> "client", row |-> row])
    /\ UNCHANGED Shared

\* A bad telnet_port stops the constructor of the Telnet client; the others
\* replace a bad port by the default.
Constructs(class, row) == class = "telnet" => row.port

\* The Telnet client refuses every operation but show, without connecting.
Supports(class, op) == class = "telnet" => op = "show"

MakeClient(q) ==
    /\ At(q, "client")
    /\ LET class == ClientOf(Current("client_mapping"), request[q].row) IN
       IF Missing("client_mapping") \/ class = None \/ ~Constructs(class, request[q].row)
       THEN Answer(q, 400, <<>>)
       ELSE IF ~Supports(class, request[q].call.op) THEN Answer(q, 502, [class |-> class])
       ELSE Step(q, [class |-> class, stage |-> IF class = "telnet" THEN "dial" ELSE "proxy"])
    /\ UNCHANGED Shared

-----------------------------------------------------------------------------
(* NETCONF and SSH *)

ReadProxies(q) ==
    /\ At(q, "proxy")
    /\ IF Missing("proxy_mapping") THEN Answer(q, 502, <<>>)
       ELSE LET host == ProxyOf(Current("proxy_mapping"), request[q].row) IN
            Step(q, [host |-> host, stage |-> IF host = None THEN "connect" ELSE "hop"])
    /\ UNCHANGED Shared

\* The SSH connection to the proxy; nothing closes it.
Hop(q) ==
    /\ At(q, "hop")
    /\ Step(q, [stage |-> "connect", open |-> {"proxy"}])
    /\ UNCHANGED Shared

Connect(q) ==
    /\ At(q, "connect")
    /\ LET kind == IF request[q].call.op = "show" THEN "ssh" ELSE "session" IN
       Step(q, [stage |-> "exchange", open |-> request[q].open \cup {kind}])
    /\ UNCHANGED Shared

ConnectFails(q) ==
    /\ request[q].stage \in {"hop", "connect", "dial"}
    /\ Answer(q, 502, <<>>)
    /\ UNCHANGED Shared

\* An error of ncclient or paramiko is no GatewayError; a transport found
\* inactive is.
Exchange(q, code) ==
    /\ At(q, "exchange")
    /\ code = 502 => "ssh" \in request[q].open
    /\ Answer(q, code, <<>>)
    /\ UNCHANGED Shared

-----------------------------------------------------------------------------
(* Telnet *)

\* The device sends what it has to say at this step.
Await(q, step, changes) ==
    LET r == With(request[q], changes) IN
    \E burst \in Bursts[Steps[step]] :
        Put(q, [r EXCEPT !.stage = "read", !.step = step, !.heard = @ \o burst,
                         !.unread = @ \o Wire(burst), !.from = Len(r.neg.text)])

Dial(q) ==
    /\ At(q, "dial")
    /\ Await(q, 1, [open |-> {"socket"}])
    /\ UNCHANGED Shared

\* resolve_credentials() runs before the try block of _login().
NoCredentials(q) ==
    /\ At(q, "dial")
    /\ Answer(q, 500, [open |-> {"socket"}])
    /\ UNCHANGED Shared

Holds(text, marker) ==
    \E i \in 0..(Len(text) - Len(marker)) : SubSeq(text, i + 1, i + Len(marker)) = marker

\* A device speaks in items, and what it says up to its first prompt, and up to
\* the prompt after a command, has a prompt nowhere but at the end: the code
\* knows no other end of a reply.
Only(text, marker) == \A i \in 0..Len(text) : Holds(SubSeq(text, 1, i), marker) => i = Len(text)

ASSUME DeviceAssumption ==
    /\ Commands(Bytes)
    /\ \A step \in DOMAIN Steps : Bursts[Steps[step]] \subseteq Seq(Items(Bytes))
    /\ \A u \in Bursts["username"], p \in Bursts["password"], r \in Bursts["prompt"] :
            Only(MeantText(u \o p \o r), Marker["prompt"])
    /\ \A o \in Bursts["output"] : Only(MeantText(o), Marker["output"])

\* 0xFF is never UTF-8 and is ignored.
Decode(text) == SelectSeq(text, LAMBDA b : b # "IAC")

\* One round of _recv_until with the next n bytes; on a marker the next line
\* is sent, or the output is complete.
Recv(q, n) ==
    LET r == request[q]
        neg == Feed(r.neg, SubSeq(r.unread, 1, n))
        text == SubSeq(neg.text, r.from + 1, Len(neg.text))
        rest == SubSeq(r.unread, n + 1, Len(r.unread))
        read == [neg |-> neg, unread |-> rest]
    IN /\ At(q, "read")
       /\ IF Len(text) > MaxBytes THEN Answer(q, 502, [open |-> {}, neg |-> neg, unread |-> rest])
          ELSE IF ~Holds(text, Marker[Steps[r.step]]) THEN Step(q, read)
          ELSE IF r.step < Len(Steps) THEN Await(q, r.step + 1, read)
          ELSE Answer(q, 200, [output |-> Decode(text), neg |-> neg, unread |-> rest])
       /\ UNCHANGED Shared

\* The deadline passes, the device hangs up, or the next line cannot be sent.
BadBreakOff(q) ==
    /\ At(q, "read")
    /\ LET r == request[q] IN
       IF r.step = Len(Steps)
       THEN Answer(q, 200, [output |-> Decode(SubSeq(r.neg.text, r.from + 1, Len(r.neg.text)))])
       ELSE Answer(q, 502, [open |-> {}])
    /\ UNCHANGED Shared
BreakOff(q) ==
    /\ At(q, "read")
    /\ Answer(q, 502, [open |-> {}])
    /\ UNCHANGED Shared

-----------------------------------------------------------------------------
(* finally: client.cleanup() *)

BadCleanup(q) ==
    /\ At(q, "cleanup")
    /\ Step(q, [stage |-> "done",
                open |-> IF request[q].answer = 200 THEN request[q].open \cap {"proxy"}
                         ELSE request[q].open])
    /\ UNCHANGED Shared
Cleanup(q) ==
    /\ At(q, "cleanup")
    /\ Step(q, [stage |-> "done", open |-> request[q].open \cap {"proxy"}])
    /\ UNCHANGED Shared

\* close_session() raises: the session stays and the error is the answer.
CleanupFails(q) ==
    /\ At(q, "cleanup") /\ "session" \in request[q].open
    /\ Step(q, [stage |-> "done", answer |-> 500])
    /\ UNCHANGED Shared

Serve(q) ==
    \/ \E role \in Roles, c \in load.calls[q] : Begin(q, role, c)
    \/ ReadLookup(q)
    \/ CheckFactory(q) \/ CreateEngine(q) \/ BindFactory(q) \/ AssignFactory(q)
    \/ LookupFails(q) \/ Query(q)
    \/ MakeClient(q)
    \/ ReadProxies(q) \/ Hop(q) \/ Connect(q) \/ ConnectFails(q)
    \/ \E code \in {200, 500, 502} : Exchange(q, code)
    \/ Dial(q) \/ NoCredentials(q)
    \/ \E n \in DOMAIN request[q].unread : Recv(q, n)
    \/ BreakOff(q)
    \/ Cleanup(q) \/ CleanupFails(q)

Next ==
    \/ \E q \in Requests : Serve(q)
    \/ \E role \in Roles, n \in Names : \E p \in Payloads[n] : SaveConfig(role, n, p)

Spec == Init /\ [][Next]_vars

-----------------------------------------------------------------------------
(* Properties *)

Stages == {"idle", "lookup", "session", "create", "bind", "assign", "query", "client",
           "proxy", "hop", "connect", "exchange", "dial", "read", "cleanup", "done"}

\* Every variable has its type, and no stored client mapping can select
\* something that is not a client (validate_config runs before each write).
TypeOK ==
    /\ load \in Loads
    /\ \A n \in Names : Range(saved[n]) \subseteq Payloads[n]
    /\ \A p \in Range(saved["client_mapping"]) : {} # Range(p.map) /\ Range(p.map) \subseteq Classes
    /\ engine \in Requests \cup {None} /\ factory \in pools \cup {None}
    /\ pools \subseteq Requests
    /\ \A q \in Requests : LET r == request[q] IN
          /\ r.stage \in Stages /\ r.class \in Classes \cup {None}
          /\ r.open \subseteq {"proxy", "session", "ssh", "socket"}
          /\ r.answer \in Codes \cup {None}
          /\ r.stage = "done" => r.answer # None
          /\ r.step \in DOMAIN Steps

\* "Mappings are read afresh" (README): the row, the class and the proxy of a
\* request are those that a payload gives which was current at some moment of
\* the request, however long other requests have been running.
DispatchIsFresh ==
    \A q \in Requests :
        LET r == request[q]
            seen(n) == {saved[n][v] : v \in {v \in DOMAIN saved[n] : v >= r.began[n]}}
        IN /\ r.row # None =>
                 \E p \in seen("device_lookup") : r.row = Tables[p.table][r.call.device]
           /\ r.class # None =>
                 \E p \in seen("client_mapping") : r.class = ClientOf(p, r.row)
           /\ r.open \cap {"session", "ssh"} # {} =>
                 \E p \in seen("proxy_mapping") : r.host = ProxyOf(p, r.row)

\* However the other requests fail, and wherever this one does, the devices
\* routes end with the device connection closed; only close_session() raising
\* leaves one, and that is never answered as a success.
SessionsAreClosed ==
    \A q \in Requests : LET r == request[q] IN
        r.stage = "done" /\ r.call.path = "devices" =>
            /\ r.open \cap {"ssh", "socket"} = {}
            /\ "session" \in r.open => r.answer = 500

\* Whatever the cuts of the stream into reads, within a command or between
\* the reads of two prompts, the text is the device's text and each request
\* for an option that has arrived is refused once, in order.
RepliesIgnoreCuts ==
    \A q \in Requests :
        LET r == request[q]
            come == Arrived(r.heard, Len(Wire(r.heard)) - Len(r.unread))
        IN r.neg.text = MeantText(come) /\ r.neg.sent = MeantRefusals(come)

\* A Telnet command that is answered with success is answered with all that
\* the device sent up to the prompt: "never returns a partial/truncated
\* buffer" (_recv_until).
OutputIsWhole ==
    \A q \in Requests : LET r == request[q] IN
        r.answer = 200 /\ r.class = "telnet" =>
            /\ r.step = Len(Steps)
            /\ LET meant == MeantText(r.heard)
               IN r.output = Decode(SubSeq(meant, r.from + 1, Len(meant)))

\* The lazy engine is built without a lock, yet only requests that began
\* before the first factory was assigned make a pool, and the sessions of
\* the later ones come from a pool that was made.
EnginesAreFew ==
    \A q \in Requests :
        /\ q \in pools => ~request[q].ready
        /\ request[q].ready => factory \in pools
=============================================================================
