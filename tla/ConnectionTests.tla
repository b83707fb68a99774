--------------------------- MODULE ConnectionTests ---------------------------
(***************************************************************************)
(* Device tests against their deadline: run_connection_test                *)
(* (app/bl/services/connection_tests.py) with Deadline, the DNS slots and  *)
(* the connectors of app/dal/proxy/connectors.py.                          *)
(*                                                                         *)
(* A test is a thread that opens one resource after another and talks to   *)
(* its peer over each.  Its timer is a second thread that closes what the  *)
(* test has handed to the deadline; a lookup of a host name is a third one *)
(* that nobody can cancel.  A peer may answer, refuse or stay silent.  The *)
(* tests share the process's DNS slots.                                    *)
(***************************************************************************)
EXTENDS Naturals, Sequences, FiniteSets

CONSTANTS
    Tests,         \* the tests of a run (each is performed once)
    Profiles,      \* what each may test: protocol, connector type, host by name?
    Slots,         \* _DNS_SLOTS (8 in the code)
    MaxAddresses,  \* bound: addresses a name resolves to
    MaxFaults      \* bound: threads that cannot be started

Profile ==
    [protocol : {"ssh", "netconf", "telnet"},
     connector : {"direct", "socks5", "http_connect", "ssh_tunnel", "ssh_shell"},
     named : BOOLEAN]

ASSUME TestsAssumption ==
    /\ IsFiniteSet(Tests)
    /\ Profiles \in [Tests -> SUBSET Profile]
    /\ Slots \in Nat \ {0}
    /\ MaxAddresses \in Nat \ {0}
    /\ MaxFaults \in Nat

VARIABLES
    \* The thread of each test.
    pc,        \* where it is
    path,      \* kinds of the resources its profile needs, in order
    step,      \* the resource it works on
    address,   \* the address it tries, for the first resource
    last,      \* the last address it has
    success,   \* has the body of the with statement completed?
    result,    \* what run_connection_test returned
    \* Deadline.
    past,      \* has time.monotonic() reached end?
    expired,   \* the event
    closed,    \* _closed
    owned,     \* _resources
    timer,     \* the timer thread
    toClose,   \* what close() took over, by the thread that runs it
    \* Outside.
    open,      \* resources made and not closed
    resolver,  \* the lookup thread
    slots,     \* free DNS slots
    \* Bookkeeping that the code does not have.
    late,      \* did an exchange succeed after the end of the deadline?
    faults     \* thread starts that failed so far

control == <<pc, path, step, address, last, success, result>>
deadline == <<past, expired, closed, owned, timer, toClose>>
outside == <<open, resolver, slots>>
vars == <<pc, path, step, address, last, success, result, past, expired, closed,
          owned, timer, toClose, open, resolver, slots, late, faults>>

Closers == {"test", "timer"}
\* A resource is a step of the path and, for the socket, the address tried.
Resource == (1 .. 5) \X (1 .. MaxAddresses)
Held(t) == <<step[t], address[t]>>
Kind(t, r) == path[t][r[1]]

\* open_stream and run_connection_test: a socket, the connector's SSH login and
\* channel, the device's SSH login, the NETCONF channel.
Path(p) ==
    <<"socket">>
    \o (IF p.connector \in {"ssh_tunnel", "ssh_shell"}
        THEN <<"client", "channel">> ELSE <<>>)
    \o (IF p.protocol # "telnet" THEN <<"client">> ELSE <<>>)
    \o (IF p.protocol = "netconf" THEN <<"channel">> ELSE <<>>)

\* validate_profile, the rule that relates the two types.
Valid(p) == p.connector = "ssh_shell" => p.protocol = "telnet"

\* Deadline.remaining raises.
BadOverdue(t) == expired[t]
Overdue(t) == past[t] \/ expired[t]

\* The test goes on at a label, or leaves the with statement.
Goto(t, label) == pc' = [pc EXCEPT ![t] = label]
Leave(t) == Goto(t, "cancel")

-----------------------------------------------------------------------------
\* Names: _resolve.

\* validate_profile, Deadline.__init__ and __enter__.
Begin(t, p, starts) ==
    /\ pc[t] = "new"
    /\ starts \/ faults < MaxFaults
    /\ path' = [path EXCEPT ![t] = Path(p)]
    /\ IF Valid(p) /\ starts
       THEN /\ timer' = [timer EXCEPT ![t] = "armed"]
            /\ Goto(t, IF p.named THEN "acquire" ELSE "make")
            /\ UNCHANGED result
       ELSE /\ result' = [result EXCEPT ![t] = "failed"]
            /\ Goto(t, "done")
            /\ UNCHANGED timer
    /\ faults' = IF starts THEN faults ELSE faults + 1
    /\ UNCHANGED <<step, address, last, success, past, expired, closed, owned,
                   toClose, outside, late>>

Acquire(t) ==
    /\ pc[t] = "acquire"
    /\ slots > 0
    /\ slots' = slots - 1
    /\ Goto(t, "spawn")
    /\ UNCHANGED <<path, step, address, last, success, result, deadline, open,
                   resolver, late, faults>>

\* The lookup thread starts, or cannot be started: then its slot stays taken.
Spawn(t, starts) ==
    /\ pc[t] = "spawn"
    /\ starts \/ faults < MaxFaults
    /\ IF starts
       THEN resolver' = [resolver EXCEPT ![t] = "running"] /\ Goto(t, "await")
       ELSE Leave(t) /\ UNCHANGED resolver
    /\ faults' = IF starts THEN faults ELSE faults + 1
    /\ UNCHANGED <<path, step, address, last, success, result, deadline, open,
                   slots, late>>

\* The answer: the number of addresses, 0 for none.
Await(t) ==
    /\ pc[t] = "await"
    /\ resolver[t] \in {"answered", "ended"}
    /\ \E n \in 0 .. MaxAddresses :
        /\ last' = [last EXCEPT ![t] = n]
        /\ Goto(t, IF n = 0 THEN "cancel" ELSE "make")
    /\ UNCHANGED <<path, step, address, success, result, deadline, outside, late,
                   faults>>

\* A wait for a slot or for the answer ends with the deadline.
BadGiveUp(t) ==
    /\ pc[t] \in {"acquire", "await"}
    /\ Overdue(t)
    /\ slots' = IF pc[t] = "await" THEN slots + 1 ELSE slots
    /\ Leave(t)
    /\ UNCHANGED <<path, step, address, last, success, result, deadline, open,
                   resolver, late, faults>>

GiveUp(t) ==
    /\ pc[t] \in {"acquire", "await"}
    /\ Overdue(t)
    /\ Leave(t)
    /\ UNCHANGED <<path, step, address, last, success, result, deadline, outside,
                   late, faults>>

\* The lookup thread: put the answer, then release the slot.
ResolverAnswers(t) ==
    /\ resolver[t] = "running"
    /\ resolver' = [resolver EXCEPT ![t] = "answered"]
    /\ UNCHANGED <<control, deadline, open, slots, late, faults>>

ResolverReleases(t) ==
    /\ resolver[t] = "answered"
    /\ resolver' = [resolver EXCEPT ![t] = "ended"]
    /\ slots' = slots + 1
    /\ UNCHANGED <<control, deadline, open, late, faults>>

-----------------------------------------------------------------------------
\* Resources and exchanges: connect_tcp, connect_ssh, the channels, the logins.

\* Nothing is said over a resource whose transports have been closed.
Reachable(t) == \A i \in 1 .. step[t] - 1 : \E r \in open[t] : r[1] = i

\* Make the next resource; a channel is made by an exchange with the peer.
Make(t) ==
    /\ pc[t] = "make"
    /\ ~Overdue(t)
    /\ path[t][step[t]] = "channel" => Reachable(t)
    /\ open' = [open EXCEPT ![t] = @ \cup {Held(t)}]
    /\ Goto(t, "own")
    /\ UNCHANGED <<path, step, address, last, success, result, deadline, resolver,
                   slots, late, faults>>

\* The deadline is over, or the peer refuses the channel.
MakeFails(t) ==
    /\ pc[t] = "make"
    /\ Overdue(t) \/ path[t][step[t]] = "channel"
    /\ Leave(t)
    /\ UNCHANGED <<path, step, address, last, success, result, deadline, outside,
                   late, faults>>

\* Deadline.own, then remaining().
Own(t) ==
    /\ pc[t] = "own"
    /\ IF closed[t]
       THEN Goto(t, "drop") /\ UNCHANGED owned
       ELSE /\ owned' = [owned EXCEPT ![t] = @ \cup {Held(t)}]
            /\ Goto(t, IF Overdue(t) THEN "cancel" ELSE "exchange")
    /\ UNCHANGED <<path, step, address, last, success, result, past, expired,
                   closed, timer, toClose, outside, late, faults>>

\* own() closes what came too late, and raises.
BadDrop(t) ==
    /\ pc[t] = "drop"
    /\ Leave(t)
    /\ UNCHANGED <<path, step, address, last, success, result, deadline, outside,
                   late, faults>>

Drop(t) ==
    /\ pc[t] = "drop"
    /\ open' = [open EXCEPT ![t] = @ \ {Held(t)}]
    /\ Leave(t)
    /\ UNCHANGED <<path, step, address, last, success, result, deadline, resolver,
                   slots, late, faults>>

\* connect, negotiate, log in, read a prompt: everything said over a resource
\* before the next one is made.
ExchangeSucceeds(t) ==
    /\ pc[t] = "exchange"
    /\ Held(t) \in open[t] /\ Reachable(t)
    /\ IF step[t] = Len(path[t])
       THEN Goto(t, "verdict") /\ UNCHANGED <<step, address>>
       ELSE /\ step' = [step EXCEPT ![t] = @ + 1]
            /\ address' = [address EXCEPT ![t] = 1]
            /\ Goto(t, "make")
    /\ late' = [late EXCEPT ![t] = @ \/ past[t]]
    /\ UNCHANGED <<path, last, success, result, deadline, outside, faults>>

\* A socket that cannot connect is closed and the next address is tried.
ConnectFails(t) ==
    /\ pc[t] = "exchange"
    /\ path[t][step[t]] = "socket"
    /\ open' = [open EXCEPT ![t] = @ \ {Held(t)}]
    /\ IF address[t] < last[t] /\ ~Overdue(t)
       THEN address' = [address EXCEPT ![t] = @ + 1] /\ Goto(t, "make")
       ELSE Leave(t) /\ UNCHANGED address
    /\ UNCHANGED <<path, step, last, success, result, deadline, resolver, slots,
                   late, faults>>

\* Every other failure ends the test; its resources are left to the deadline.
ExchangeFails(t) ==
    /\ pc[t] = "exchange"
    /\ Leave(t)
    /\ UNCHANGED <<path, step, address, last, success, result, deadline, outside,
                   late, faults>>

\* The last remaining() of the body.
Verdict(t) ==
    /\ pc[t] = "verdict"
    /\ success' = [success EXCEPT ![t] = ~Overdue(t)]
    /\ Leave(t)
    /\ UNCHANGED <<path, step, address, last, result, deadline, outside, late,
                   faults>>

-----------------------------------------------------------------------------
\* Deadline.close, run by __exit__ and by the timer.

\* Under the lock: take the resources over and refuse new ones.
TakeOver(t, c) ==
    /\ closed' = [closed EXCEPT ![t] = TRUE]
    /\ toClose' = [toClose EXCEPT ![t][c] = owned[t]]
    /\ owned' = [owned EXCEPT ![t] = {}]

\* The order of closing: SSH clients before everything else, and otherwise the
\* order in which they were handed over.
HandedOver(r, s) == r[1] < s[1] \/ (r[1] = s[1] /\ r[2] <= s[2])

BadFirst(t, R) == CHOOSE r \in R : \A s \in R : HandedOver(s, r)

First(t, R) ==
    LET clients == {r \in R : Kind(t, r) = "client"}
        group == IF clients # {} THEN clients ELSE R
    IN  CHOOSE r \in group : \A s \in group : HandedOver(r, s)

CloseOne(t, c) ==
    /\ toClose[t][c] # {}
    /\ LET r == First(t, toClose[t][c])
       IN  /\ open' = [open EXCEPT ![t] = @ \ {r}]
           /\ toClose' = [toClose EXCEPT ![t][c] = @ \ {r}]
    /\ UNCHANGED <<control, past, expired, closed, owned, timer, resolver, slots,
                   late, faults>>

\* __exit__: cancel the timer, unless it already runs.
Cancel(t) ==
    /\ pc[t] = "cancel"
    /\ timer' = [timer EXCEPT ![t] = IF @ = "armed" THEN "ended" ELSE @]
    /\ Goto(t, "close")
    /\ UNCHANGED <<path, step, address, last, success, result, past, expired,
                   closed, owned, toClose, outside, late, faults>>

ExitClose(t) ==
    /\ pc[t] = "close"
    /\ TakeOver(t, "test")
    /\ Goto(t, "closing")
    /\ UNCHANGED <<path, step, address, last, success, result, past, expired, timer,
                   outside, late, faults>>

\* __exit__ waits a quarter of a second for the timer, not for its end; then the
\* exception of a failed body is classified (a failure in time may be a timeout of
\* the peer's network).
Return(t) ==
    /\ pc[t] = "closing"
    /\ toClose[t]["test"] = {}
    /\ \E stage \in {"failed", "timeout"} :
        /\ Overdue(t) => stage = "timeout"
        /\ result' = [result EXCEPT ![t] = IF success[t] THEN "complete" ELSE stage]
    /\ Goto(t, "done")
    /\ UNCHANGED <<path, step, address, last, success, deadline, outside, late,
                   faults>>

Tick(t) ==
    /\ timer[t] # "none" /\ pc[t] # "done"
    /\ ~past[t]
    /\ past' = [past EXCEPT ![t] = TRUE]
    /\ UNCHANGED <<control, expired, closed, owned, timer, toClose, outside, late,
                   faults>>

\* The timer thread: _expire sets the event, then closes.
TimerFires(t) ==
    /\ timer[t] = "armed" /\ past[t]
    /\ timer' = [timer EXCEPT ![t] = "fired"]
    /\ expired' = [expired EXCEPT ![t] = TRUE]
    /\ UNCHANGED <<control, past, closed, owned, toClose, outside, late, faults>>

TimerCloses(t) ==
    /\ timer[t] = "fired"
    /\ TakeOver(t, "timer")
    /\ timer' = [timer EXCEPT ![t] = "closing"]
    /\ UNCHANGED <<control, past, expired, outside, late, faults>>

TimerEnds(t) ==
    /\ timer[t] = "closing"
    /\ toClose[t]["timer"] = {}
    /\ timer' = [timer EXCEPT ![t] = "ended"]
    /\ UNCHANGED <<control, past, expired, closed, owned, toClose, outside, late,
                   faults>>

-----------------------------------------------------------------------------
Init ==
    /\ pc = [t \in Tests |-> "new"]
    /\ path = [t \in Tests |-> <<>>]
    /\ step = [t \in Tests |-> 1]
    /\ address = [t \in Tests |-> 1]
    /\ last = [t \in Tests |-> 1]
    /\ success = [t \in Tests |-> FALSE]
    /\ result = [t \in Tests |-> "none"]
    /\ past = [t \in Tests |-> FALSE]
    /\ expired = [t \in Tests |-> FALSE]
    /\ closed = [t \in Tests |-> FALSE]
    /\ owned = [t \in Tests |-> {}]
    /\ timer = [t \in Tests |-> "none"]
    /\ toClose = [t \in Tests |-> [c \in Closers |-> {}]]
    /\ open = [t \in Tests |-> {}]
    /\ resolver = [t \in Tests |-> "none"]
    /\ slots = Slots
    /\ late = [t \in Tests |-> FALSE]
    /\ faults = 0

\* Steps of the test thread that wait for nobody.
OwnStep(t) ==
    \/ Acquire(t) \/ Await(t) \/ GiveUp(t) \/ Spawn(t, TRUE)
    \/ Own(t) \/ Verdict(t) \/ Cancel(t) \/ ExitClose(t) \/ Return(t)

Exchange(t) == ExchangeSucceeds(t) \/ ConnectFails(t) \/ ExchangeFails(t)

PeerStep(t) == Make(t) \/ MakeFails(t) \/ Drop(t) \/ Exchange(t)

TimerStep(t) == TimerFires(t) \/ TimerCloses(t) \/ TimerEnds(t)

Next ==
    \E t \in Tests :
        \/ \E p \in Profiles[t], starts \in BOOLEAN : Begin(t, p, starts)
        \/ OwnStep(t)
        \/ Spawn(t, FALSE)
        \/ PeerStep(t)
        \/ TimerStep(t)
        \/ \E c \in Closers : CloseOne(t, c)
        \/ Tick(t)
        \/ ResolverAnswers(t)
        \/ ResolverReleases(t)

Spec == Init /\ [][Next]_vars

\* When a silent peer cannot hold the test up.  A socket has a timeout for what is
\* left of the deadline.  Everything over SSH is taken to wait until a transport
\* it runs over is closed, and closing a channel, or a client over a channel, too.
Cut(t, r) == \E s \in Resource : s[1] <= r[1] /\ s[2] = 1 /\ Kind(t, s) = "client"
                                /\ s \notin open[t]
CutOff(t) == IF path[t][step[t]] = "socket" THEN past[t] ELSE Cut(t, Held(t))
Closable(t, r) ==
    \A s \in open[t] : s[1] < r[1] => Kind(t, s) # "client"

\* The steps of the two threads that no peer holds up.
TestThread(t) ==
    \/ OwnStep(t)
    \/ Make(t) /\ path[t][step[t]] # "channel"
    \/ MakeFails(t) /\ (Overdue(t) \/ CutOff(t))
    \/ Exchange(t) /\ CutOff(t)
    \/ Drop(t) /\ Closable(t, Held(t))
    \/ CloseOne(t, "test") /\ Closable(t, First(t, toClose[t]["test"]))

TimerThread(t) ==
    \/ TimerStep(t)
    \/ CloseOne(t, "timer") /\ Closable(t, First(t, toClose[t]["timer"]))

\* Threads are scheduled and time passes; no peer and no lookup ever has to answer.
Fairness ==
    \A t \in Tests :
        /\ WF_vars(TestThread(t))
        /\ WF_vars(TimerThread(t))
        /\ WF_vars(Tick(t))
        /\ WF_vars(ResolverReleases(t))

FairSpec == Spec /\ Fairness

-----------------------------------------------------------------------------
\* Properties.

Labels == {"new", "acquire", "spawn", "await", "make", "own", "drop", "exchange",
           "verdict", "cancel", "close", "closing", "done"}

\* Every variable has its type; the slots are never over- or underrun
\* (BoundedSemaphore(8)).
TypeOK ==
    /\ pc \in [Tests -> Labels]
    /\ path \in [Tests -> {Path(p) : p \in Profile} \cup {<<>>}]
    /\ step \in [Tests -> 1 .. 5]
    /\ address \in [Tests -> 1 .. MaxAddresses]
    /\ last \in [Tests -> 0 .. MaxAddresses]
    /\ success \in [Tests -> BOOLEAN]
    /\ result \in [Tests -> {"none", "complete", "timeout", "failed"}]
    /\ past \in [Tests -> BOOLEAN]
    /\ expired \in [Tests -> BOOLEAN]
    /\ closed \in [Tests -> BOOLEAN]
    /\ owned \in [Tests -> SUBSET Resource]
    /\ timer \in [Tests -> {"none", "armed", "fired", "closing", "ended"}]
    /\ toClose \in [Tests -> [Closers -> SUBSET Resource]]
    /\ open \in [Tests -> SUBSET Resource]
    /\ resolver \in [Tests -> {"none", "running", "answered", "ended"}]
    /\ slots \in 0 .. Slots
    /\ late \in [Tests -> BOOLEAN]
    /\ faults \in 0 .. MaxFaults

\* What a test opened is closed when it returns, up to what the timer thread is
\* still closing: nothing slips between own() and close(), whichever of the two
\* threads closes first (Deadline.own, close, __exit__).
NothingOutlivesTest ==
    \A t \in Tests : pc[t] = "done" => open[t] \subseteq toClose[t]["timer"]

\* A test is reported as passed only if its last exchange ended in time, even when
\* the timer thread is late (remaining() looks at the clock as well as the event).
SuccessIsTimely ==
    \A t \in Tests : result[t] = "complete" => ~late[t]

\* Lookups that nobody waits for any more are still counted: never more of them
\* than slots (the comment in _resolve: "Bound callers and outstanding resolver
\* threads").
ResolversBounded ==
    Cardinality({t \in Tests : resolver[t] \in {"running", "answered"}}) <= Slots

\* The same comment, read the other way: a slot that is taken is taken by a caller
\* or by an outstanding resolver thread.
SlotsAreHeld ==
    Slots - slots = Cardinality({t \in Tests : pc[t] = "spawn" \/
                                    resolver[t] \in {"running", "answered"}})

\* Every test ends, whatever its peers and the resolver do (Deadline: "One deadline
\* including negotiation, authentication and channel requests").
TestEnds == \A t \in Tests : (pc[t] # "new") ~> (pc[t] = "done")
=============================================================================
