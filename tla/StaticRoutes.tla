---------------------------- MODULE StaticRoutes ----------------------------
(***************************************************************************)
(* Simulated static routes and their audit trail: DeviceDataService        *)
(* (app/bl/services/device_data.py) over FakeDeviceClient                  *)
(* (app/dal/device/fake_client.py) and the route, initialization and       *)
(* transaction tables of GatewayStore (app/dal/db/store.py).               *)
(*                                                                         *)
(* A request runs up to four database transactions: the access check of    *)
(* _client, the path check of _validate_fake_path, the operation with its  *)
(* audit record, and, if one of them refuses, a separate record of the     *)
(* failed attempt.  Each transaction is atomic; other requests, edits of   *)
(* the connection and a crash come between them.                           *)
(***************************************************************************)
EXTENDS Naturals, Sequences, FiniteSets

CONSTANTS
    Requests,        \* the requests of a run (each is served once)
    Conns,           \* connection ids that appear in request paths
    Loads,           \* what is asked: [requests, how many; conns, of which ids]
    Malformed,       \* those that are not UUIDs (no connection has one)
    Dests,           \* destination prefixes
    NoDest,          \* a payload that _validate_static_route refuses
    Seeds,           \* destinations of the two seed routes, in order
    ProviderIsFake,  \* is app.state.device_data_provider "fake"?
    MaxFaults        \* bound: transactions that fail

ASSUME RoutesAssumption ==
    /\ Conns # {}
    /\ Malformed \subseteq Conns
    /\ Loads \subseteq [requests : Nat, conns : SUBSET Conns]
    /\ NoDest \notin Dests
    /\ Seeds \in Seq(Dests)
    /\ \A i, k \in 1 .. Len(Seeds) : Seeds[i] = Seeds[k] => i = k
    /\ ProviderIsFake \in BOOLEAN
    /\ MaxFaults \in Nat

VARIABLES
    load,         \* the load of this behaviour
    \* The database.
    access,       \* what the stored connection, roles and proxy allow
    initialized,  \* table gateway_static_route_initializations
    routes,       \* table gateway_static_routes
    audit,        \* table gateway_transactions, in commit order
    \* The requests in the application's thread pool.
    req,
    \* Bookkeeping that the code does not have.
    nextRoute,    \* the next fresh route id (uuid4 never repeats)
    faults,       \* failures injected so far
    unsure        \* requests that lost a record or the acknowledgement of one

vars == <<load, access, initialized, routes, audit, req, nextRoute, faults, unsure>>

\* "open": a fake connection whose stored credentials and proxy pass
\* _validate_fake_path; "shut": a fake connection that does not.
Fake == {"open", "shut"}
Access == Fake \cup {"network", "absent"}

Route == [id : Nat, conn : Conns, dest : Dests]
Record == [request : Requests, conn : Conns, route : Nat,
           outcome : {"succeeded", "failed"},
           before : SUBSET Route, after : SUBSET Route]
Ops == {"list", "create", "update", "delete"}
Request == [pc : {"new", "path", "apply", "refused", "done", "error", "dropped"},
            op : Ops, conn : Conns, target : Nat, dest : Dests \cup {NoDest}]

RoutesOf(c) == {r \in routes : r.conn = c}

Happens(outcome) ==
    /\ outcome # "ok" => faults < MaxFaults
    /\ faults' = IF outcome = "ok" THEN faults ELSE faults + 1

\* The next label of request q.
Goto(q, label) == req' = [req EXCEPT ![q].pc = label]

\* A refused change is recorded before the caller hears of it; a refused read
\* is not.
Refuse(op) == IF op = "list" THEN "error" ELSE "refused"

-----------------------------------------------------------------------------
\* GatewayStore: seeding and the three route operations.

BadHasSeeds(c) == \E r \in routes : r.conn = c
HasSeeds(c) == c \in initialized

\* _initialize_static_routes: the table once the connection has its seeds, and
\* the first id that is free then.
SeedRows(c) == {[id |-> nextRoute + i - 1, conn |-> c, dest |-> Seeds[i]] :
                   i \in 1 .. Len(Seeds)}
Table(c) == IF HasSeeds(c) THEN routes ELSE routes \cup SeedRows(c)
FreeId(c) == IF HasSeeds(c) THEN nextRoute ELSE nextRoute + Len(Seeds)

\* _owned_static_route: the row an update or a delete is about.
BadBefore(x) == {r \in Table(x.conn) : x.op # "create" /\ r.id = x.target}
Before(x) == {r \in Table(x.conn) :
                 x.op # "create" /\ r.id = x.target /\ r.conn = x.conn}

After(x) ==
    IF x.op = "delete" THEN {}
    ELSE {[id |-> IF x.op = "create" THEN FreeId(x.conn) ELSE x.target,
           conn |-> x.conn, dest |-> x.dest]}

\* _initialize_static_routes repeats the check of the client type.
BadStillFake(c) == access[c] # "absent"
StillFake(c) == access[c] \in Fake

\* A written destination must be valid and unique on the device.
BadFits(x) == x.dest # NoDest
Fits(x) ==
    /\ x.dest # NoDest
    /\ \A r \in Table(x.conn) \ Before(x) : r.conn = x.conn => r.dest # x.dest

Allowed(x) ==
    /\ StillFake(x.conn)
    /\ x.op \in {"update", "delete"} => Before(x) # {}
    /\ x.op \in {"create", "update"} => Fits(x)

\* The route a record of success names (0 is NULL).
BadResource(x) == x.target
Resource(x) == IF x.op = "create" THEN FreeId(x.conn) ELSE x.target

BadSucceeded(q, x) ==
    [request |-> q, conn |-> x.conn, route |-> Resource(x),
     outcome |-> "succeeded", before |-> After(x), after |-> Before(x)]

Succeeded(q, x) ==
    [request |-> q, conn |-> x.conn, route |-> Resource(x),
     outcome |-> "succeeded", before |-> Before(x), after |-> After(x)]

Failed(q, x) ==
    [request |-> q, conn |-> x.conn, route |-> x.target,
     outcome |-> "failed", before |-> {}, after |-> {}]

-----------------------------------------------------------------------------
\* A request.

\* _client: the provider, then the stored client type.  A failing read refuses.
CheckAccess(q, x) ==
    /\ req[q].pc = "new"
    /\ Cardinality({r \in Requests : req[r].pc # "new"}) < load.requests
    /\ \E outcome \in {"ok", "lost"} :
        /\ Happens(outcome)
        /\ LET passes == outcome = "ok" /\ ProviderIsFake /\ access[x.conn] \in Fake
           IN  req' = [req EXCEPT ![q] =
                          [x EXCEPT !.pc = IF passes THEN "path"
                                           ELSE Refuse(x.op)]]
    /\ UNCHANGED <<load, access, initialized, routes, audit, nextRoute, unsure>>

\* FakeDeviceClient._profile: resolve the stored path and validate it.
CheckPath(q) ==
    /\ req[q].pc = "path"
    /\ \E outcome \in {"ok", "lost"} :
        /\ Happens(outcome)
        /\ Goto(q, IF outcome = "ok" /\ access[req[q].conn] = "open"
                   THEN "apply" ELSE Refuse(req[q].op))
    /\ UNCHANGED <<load, access, initialized, routes, audit, nextRoute, unsure>>

\* GatewayStore.list_static_routes: a read that seeds.
ListRoutes(q) ==
    /\ req[q].pc = "apply"
    /\ req[q].op = "list"
    /\ \E outcome \in {"ok", "lost", "unknown"} :
        LET c == req[q].conn
            allowed == StillFake(c)
        IN  /\ Happens(outcome)
            /\ IF allowed /\ outcome # "lost"
               THEN /\ initialized' = initialized \cup {c}
                    /\ routes' = Table(c)
                    /\ nextRoute' = FreeId(c)
               ELSE UNCHANGED <<initialized, routes, nextRoute>>
            /\ Goto(q, IF allowed /\ outcome = "ok" THEN "done" ELSE "error")
    /\ UNCHANGED <<load, access, audit, unsure>>

\* The *_static_route_audited methods: seeding, change and record commit together
\* or not at all.
Change(q) ==
    /\ req[q].pc = "apply"
    /\ req[q].op # "list"
    /\ \E outcome \in {"ok", "lost", "unknown"} :
        LET x == req[q]
            allowed == Allowed(x)
        IN  /\ Happens(outcome)
            /\ IF allowed /\ outcome # "lost"
               THEN /\ initialized' = initialized \cup {x.conn}
                    /\ routes' = (Table(x.conn) \ Before(x)) \cup After(x)
                    /\ nextRoute' = IF x.op = "create" THEN FreeId(x.conn) + 1
                                    ELSE FreeId(x.conn)
                    /\ audit' = Append(audit, Succeeded(q, x))
               ELSE UNCHANGED <<initialized, routes, nextRoute, audit>>
            /\ Goto(q, IF allowed /\ outcome = "ok" THEN "done" ELSE "refused")
            /\ unsure' = IF allowed /\ outcome = "unknown"
                         THEN unsure \cup {q} ELSE unsure
    /\ UNCHANGED <<load, access>>

\* _record_failure: best effort.  append_transaction refuses a connection id
\* that is not a UUID, and that error is swallowed like any other.
Recordable(x) == x.conn \notin Malformed

BadRecordFailure(q) ==
    /\ req[q].pc = "refused"
    /\ Goto(q, "error")
    /\ UNCHANGED <<load, access, initialized, routes, audit, nextRoute, faults, unsure>>

RecordFailure(q) ==
    /\ req[q].pc = "refused"
    /\ \E outcome \in {"ok", "lost", "unknown"} :
        /\ Happens(outcome)
        /\ audit' = IF Recordable(req[q]) /\ outcome # "lost"
                    THEN Append(audit, Failed(q, req[q])) ELSE audit
        /\ unsure' = IF outcome = "ok" THEN unsure ELSE unsure \cup {q}
    /\ Goto(q, "error")
    /\ UNCHANGED <<load, access, initialized, routes, nextRoute>>

-----------------------------------------------------------------------------
\* What happens beside the requests.

\* An administrator edits the connection, its role accounts or its proxy.
Edit(c, kind) ==
    /\ access[c] # "absent"
    /\ kind # access[c]
    /\ access' = [access EXCEPT ![c] = kind]
    /\ UNCHANGED <<load, initialized, routes, audit, req, nextRoute, faults, unsure>>

\* Deleting a connection cascades to its routes and its seed marker; its audit
\* records stay.
Delete(c) ==
    /\ access[c] # "absent"
    /\ access' = [access EXCEPT ![c] = "absent"]
    /\ routes' = routes \ RoutesOf(c)
    /\ initialized' = initialized \ {c}
    /\ UNCHANGED <<load, audit, req, nextRoute, faults, unsure>>

\* The process dies: no request in progress is answered or recorded.
Crash ==
    /\ \E q \in Requests : req[q].pc \in {"path", "apply", "refused"}
    /\ req' = [q \in Requests |->
                  IF req[q].pc \in {"path", "apply", "refused"}
                  THEN [req[q] EXCEPT !.pc = "dropped"] ELSE req[q]]
    /\ UNCHANGED <<load, access, initialized, routes, audit, nextRoute, faults, unsure>>

-----------------------------------------------------------------------------
\* What a caller may ask for.  Targets are the ids handed out so far and 0, which
\* no route has.
Input(op) ==
    [pc : {"new"}, op : {op}, conn : load.conns,
     target : IF op \in {"update", "delete"} THEN 0 .. nextRoute - 1 ELSE {0},
     dest : IF op \in {"create", "update"} THEN Dests \cup {NoDest} ELSE {NoDest}]

NewRequest == [pc |-> "new", op |-> "list", conn |-> CHOOSE c \in Conns : TRUE,
               target |-> 0, dest |-> NoDest]

Init ==
    /\ load \in Loads
    /\ access \in [Conns -> Access]
    /\ \A c \in Conns : c \in Malformed \/ c \notin load.conns => access[c] = "absent"
    /\ initialized = {}
    /\ routes = {}
    /\ audit = <<>>
    /\ req = [q \in Requests |-> NewRequest]
    /\ nextRoute = 1
    /\ faults = 0
    /\ unsure = {}

Serve(q) ==
    \/ \E op \in Ops : \E x \in Input(op) : CheckAccess(q, x)
    \/ CheckPath(q)
    \/ ListRoutes(q)
    \/ Change(q)
    \/ RecordFailure(q)

Next ==
    \/ \E q \in Requests : Serve(q)
    \/ \E c \in Conns, kind \in Fake \cup {"network"} : Edit(c, kind)
    \/ \E c \in Conns : Delete(c)
    \/ Crash

Spec == Init /\ [][Next]_vars

-----------------------------------------------------------------------------
\* Properties.

\* Types, and the constraints of the tables: destinations are unique per device,
\* and routes and seed markers belong to stored connections.
TypeOK ==
    /\ load \in Loads
    /\ access \in [Conns -> Access]
    /\ initialized \subseteq {c \in Conns : access[c] # "absent"}
    /\ routes \subseteq Route
    /\ \A r \in routes : r.conn \in initialized /\ r.id < nextRoute
    /\ \A r, s \in routes : r.id = s.id \/ (r.conn = s.conn /\ r.dest = s.dest) => r = s
    /\ audit \in Seq(Record)
    /\ req \in [Requests -> Request]
    /\ nextRoute \in Nat
    /\ faults \in 0 .. MaxFaults
    /\ unsure \subseteq Requests

\* Records i < k are consecutive records of changes to one route.
Changes(i, id) == audit[i].outcome = "succeeded" /\ audit[i].route = id
Follows(k, i) ==
    /\ Changes(i, audit[k].route)
    /\ Changes(k, audit[k].route)
    /\ \A j \in i + 1 .. k - 1 : ~Changes(j, audit[k].route)

\* The records of a route are its gapless history: each starts from the state the
\* one before it left, whatever requests ran side by side, and all are about one
\* device (update and delete record the row they read in their own transaction).
HistoryIsGapless ==
    \A i, k \in DOMAIN audit : i < k /\ Follows(k, i) =>
        audit[k].before = audit[i].after /\ audit[k].conn = audit[i].conn

\* The last record of a route of a stored device tells what the table holds: no
\* change is committed without its record, and no record without its change
\* (create_static_route_audited: "a successful change is never left unaudited").
RecordsMatchRoutes ==
    \A k \in DOMAIN audit :
        /\ audit[k].outcome = "succeeded"
        /\ audit[k].conn \in initialized
        /\ \A j \in k + 1 .. Len(audit) : ~Changes(j, audit[k].route)
        => {r \in routes : r.id = audit[k].route} = audit[k].after

\* A route without a record of its creation is a seed; a device gets each seed at
\* most once, so that no refresh brings back a deleted one (README: "Seed routes
\* are initialized only once").  After seeding, every change of a device's table
\* adds exactly the record of that change.
ChangesAreRecorded ==
    [][\A c \in Conns :
        c \in initialized /\ c \in initialized' /\ RoutesOf(c)' # RoutesOf(c) =>
            /\ Len(audit') = Len(audit) + 1
            /\ LET last == audit'[Len(audit')]
               IN  /\ last.conn = c
                   /\ RoutesOf(c)' = (RoutesOf(c) \ last.before) \cup last.after]_vars

\* A device that is no longer a simulated one when the change commits is not
\* changed, although it passed the checks before (_initialize_static_routes
\* repeats the check of _client inside the transaction).
OnlyFakeDevicesChange ==
    [][\A c \in Conns :
        c \in initialized' /\ RoutesOf(c)' # RoutesOf(c) => access[c] \in Fake]_vars

\* A caller told of success finds one succeeded record of the request, and a
\* caller told of an error finds one failed record and no change; only a
\* record or acknowledgement lost by the database, or an id that the records
\* cannot hold, makes an exception.
AnswersMatchRecords ==
    \A q \in Requests \ unsure :
        LET outcomes == {k \in DOMAIN audit : audit[k].request = q}
        IN  /\ \A k \in outcomes : audit[k].outcome = "succeeded" <=> req[q].pc = "done"
            /\ \/ req[q].pc = "done" /\ req[q].op # "list"
               \/ req[q].pc = "error" /\ req[q].op # "list" /\ Recordable(req[q])
               => Cardinality(outcomes) = 1

\* IMPROVEMENT_PLAN.md: "durable failed-attempt records that preserve the original
\* API error": while the database works, every refused change leaves a record.
FailedAttemptsAreRecorded ==
    faults = 0 => \A q \in Requests :
        req[q].pc = "error" /\ req[q].op # "list" =>
            \E k \in DOMAIN audit : audit[k].request = q /\ audit[k].outcome = "failed"
=============================================================================
