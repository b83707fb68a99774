------------------------- MODULE StaticRoutesProofs -------------------------
(***************************************************************************)
(* Proofs about StaticRoutes, for any requests, devices, destinations,     *)
(* loads and number of failures.                                           *)
(***************************************************************************)
EXTENDS StaticRoutes, FiniteSetTheorems, TLAPS

-----------------------------------------------------------------------------
\* The operators.

\* What a device's table is once it has its seeds: old rows keep their place, new
\* ones have fresh ids, and ids and destinations are unique.
LEMMA TableFacts ==
    ASSUME TypeOK, NEW c \in Conns
    PROVE  /\ FreeId(c) \in Nat /\ nextRoute <= FreeId(c)
           /\ routes \subseteq Table(c)
           /\ Table(c) \subseteq Route
           /\ \A r \in Table(c) : r.id < FreeId(c) /\ r.conn \in initialized \cup {c}
           /\ \A r \in Table(c) \ routes :
                 r.id >= nextRoute /\ r.conn = c /\ c \notin initialized
           /\ \A r, s \in Table(c) :
                 r.id = s.id \/ (r.conn = s.conn /\ r.dest = s.dest) => r = s
<1>0. /\ Seeds \in Seq(Dests)
      /\ \A i, k \in 1 .. Len(Seeds) : Seeds[i] = Seeds[k] => i = k
  BY RoutesAssumption DEF RoutesAssumption
<1>1. /\ Len(Seeds) \in Nat
      /\ \A i \in 1 .. Len(Seeds) : Seeds[i] \in Dests
  BY <1>0
<1>2. /\ nextRoute \in Nat /\ routes \subseteq Route
      /\ \A r \in routes : r.conn \in initialized /\ r.id < nextRoute /\ r.id \in Nat
      /\ \A r, s \in routes :
            r.id = s.id \/ (r.conn = s.conn /\ r.dest = s.dest) => r = s
  BY DEF TypeOK, Route
<1>3. CASE HasSeeds(c)
  BY <1>2, <1>3 DEF Table, FreeId, HasSeeds
<1>4. CASE ~HasSeeds(c)
  <2>1. /\ Table(c) = routes \cup SeedRows(c)
        /\ FreeId(c) = nextRoute + Len(Seeds)
        /\ c \notin initialized
    BY <1>4 DEF Table, FreeId, HasSeeds
  <2>2. \A r \in SeedRows(c) : \E i \in 1 .. Len(Seeds) :
            r = [id |-> nextRoute + i - 1, conn |-> c, dest |-> Seeds[i]]
    BY DEF SeedRows
  <2>3. \A r \in SeedRows(c) :
            /\ r \in Route /\ r.conn = c
            /\ r.id \in Nat /\ r.id >= nextRoute /\ r.id < nextRoute + Len(Seeds)
    <3>1. \A i \in 1 .. Len(Seeds) :
              nextRoute + i - 1 \in Nat /\ nextRoute + i - 1 >= nextRoute
              /\ nextRoute + i - 1 < nextRoute + Len(Seeds)
      BY <1>1, <1>2
    <3>. QED
      BY <1>1, <2>2, <3>1 DEF Route
  <2>4. \A r, s \in SeedRows(c) : r.id = s.id \/ r.dest = s.dest => r = s
    <3>. SUFFICES ASSUME NEW r \in SeedRows(c), NEW s \in SeedRows(c),
                         r.id = s.id \/ r.dest = s.dest
                  PROVE  r = s
      OBVIOUS
    <3>1. PICK i \in 1 .. Len(Seeds) :
              r = [id |-> nextRoute + i - 1, conn |-> c, dest |-> Seeds[i]]
      BY <2>2
    <3>2. PICK k \in 1 .. Len(Seeds) :
              s = [id |-> nextRoute + k - 1, conn |-> c, dest |-> Seeds[k]]
      BY <2>2
    <3>3. nextRoute + i - 1 = nextRoute + k - 1 => i = k
      BY <1>1, <1>2
    <3>4. i = k
      BY <1>0, <3>1, <3>2, <3>3
    <3>. QED
      BY <3>1, <3>2, <3>4
  <2>5. \A r \in routes, s \in SeedRows(c) : r.id # s.id /\ r.conn # s.conn
    BY <1>2, <2>1, <2>3
  <2>6. nextRoute + Len(Seeds) \in Nat /\ nextRoute <= nextRoute + Len(Seeds)
    BY <1>1, <1>2
  <2>7. \A r \in Table(c) : r.id < FreeId(c) /\ r.conn \in initialized \cup {c}
    <3>1. \A n \in Nat : n < nextRoute => n < nextRoute + Len(Seeds)
      BY <1>1, <1>2
    <3>. QED
      BY <1>2, <2>1, <2>3, <3>1
  <2>8. \A r, s \in Table(c) :
            r.id = s.id \/ (r.conn = s.conn /\ r.dest = s.dest) => r = s
    BY <1>2, <2>1, <2>4, <2>5
  <2>. QED
    BY <1>2, <2>1, <2>3, <2>6, <2>7, <2>8
<1>. QED
  BY <1>3, <1>4

\* What an allowed change reads and writes: rows of one id on one device, and
\* nothing else in the table has that id or, on the device, that destination.
LEMMA ChangeFacts ==
    ASSUME TypeOK, NEW x \in Request, x.op # "list", Allowed(x)
    PROVE  /\ Before(x) \subseteq Table(x.conn) /\ After(x) \subseteq Route
           /\ Resource(x) \in Nat
           /\ Resource(x) < IF x.op = "create" THEN FreeId(x.conn) + 1 ELSE FreeId(x.conn)
           /\ \A r \in Before(x) \cup After(x) : r.id = Resource(x) /\ r.conn = x.conn
           /\ \A r, s \in After(x) : r = s
           /\ \A r \in Table(x.conn) \ Before(x) :
                 /\ r.id # Resource(x)
                 /\ \A s \in After(x) : r.conn = s.conn => r.dest # s.dest
           /\ IF x.op = "create" THEN Before(x) = {} /\ Resource(x) >= nextRoute
              ELSE Before(x) # {}
<1>0. /\ x.conn \in Conns /\ x.op \in Ops /\ x.target \in Nat
      /\ x.dest \in Dests \cup {NoDest}
  BY DEF Request
<1>. DEFINE T == Table(x.conn)
            F == FreeId(x.conn)
<1>1. /\ F \in Nat /\ nextRoute <= F
      /\ T \subseteq Route
      /\ \A r \in T : r.id < F
      /\ \A r, s \in T : r.id = s.id => r = s
  BY <1>0, TableFacts
<1>2. nextRoute \in Nat /\ \A r \in T : r.id \in Nat
  BY <1>1 DEF TypeOK, Route
<1>3. x.op \in {"create", "update"} => x.dest \in Dests
  BY <1>0 DEF Allowed, Fits
<1>4. /\ Before(x) \subseteq T
      /\ \A r \in Before(x) : r.id = x.target /\ r.conn = x.conn /\ x.op # "create"
  BY DEF Before
<1>5. \A r \in T \ Before(x), s \in After(x) : r.conn = s.conn => r.dest # s.dest
  BY <1>0 DEF Allowed, Fits, After, Ops
<1>6. CASE x.op = "create"
  <2>1. /\ Resource(x) = F /\ Before(x) = {}
        /\ After(x) = {[id |-> F, conn |-> x.conn, dest |-> x.dest]}
    BY <1>6, <1>4 DEF Resource, After
  <2>2. /\ F < F + 1 /\ F >= nextRoute
        /\ \A r \in T : r.id # F
    BY <1>1, <1>2
  <2>3. After(x) \subseteq Route
    BY <1>0, <1>1, <1>3, <1>6, <2>1 DEF Route
  <2>. HIDE DEF T, F
  <2>. QED
    BY <1>1, <1>4, <1>5, <1>6, <2>1, <2>2, <2>3 DEF T, F
<1>7. CASE x.op # "create"
  <2>1. x.op \in {"update", "delete"} /\ Before(x) # {} /\ Resource(x) = x.target
    BY <1>0, <1>7 DEF Allowed, Ops, Resource
  <2>2. \A s \in After(x) : s = [id |-> x.target, conn |-> x.conn, dest |-> x.dest]
    BY <1>7 DEF After
  <2>3. After(x) \subseteq Route
    BY <1>0, <1>3, <1>7, <2>1 DEF Route, After
  <2>4. \A r \in T \ Before(x) : r.id # x.target
    BY <1>1, <1>4, <2>1
  <2>5. x.target < F
    BY <1>1, <1>4, <2>1
  <2>6. \A s \in After(x) : s.id = x.target /\ s.conn = x.conn
    BY <2>2
  <2>. HIDE DEF T, F
  <2>. QED
    BY <1>0, <1>4, <1>5, <1>7, <2>1, <2>2, <2>3, <2>4, <2>5, <2>6 DEF T, F
<1>. QED
  BY <1>6, <1>7

-----------------------------------------------------------------------------
\* Type correctness.

LEMMA TypesAtFirst == Init => TypeOK
<1>. SUFFICES ASSUME Init PROVE TypeOK
  OBVIOUS
<1>1. MaxFaults \in Nat /\ Conns # {}
  BY RoutesAssumption DEF RoutesAssumption
<1>2. NewRequest \in Request
  BY <1>1 DEF NewRequest, Request, Ops
<1>. QED
  BY <1>1, <1>2 DEF Init, TypeOK

\* A failure keeps its counter within the bound.
LEMMA FaultsTyped ==
    ASSUME TypeOK, NEW outcome, Happens(outcome)
    PROVE  faults' \in 0 .. MaxFaults
<1>1. MaxFaults \in Nat
  BY RoutesAssumption DEF RoutesAssumption
<1>. QED
  BY <1>1 DEF TypeOK, Happens

\* A request that moves on stays a request.
LEMMA RequestTyped ==
    ASSUME TypeOK, NEW q \in Requests,
           NEW label \in {"new", "path", "apply", "refused", "done", "error", "dropped"},
           Goto(q, label)
    PROVE  req' \in [Requests -> Request]
BY ZenonT(60) DEF TypeOK, Request, Goto

\* A committed change leaves a sound table.
LEMMA ChangedTable ==
    ASSUME TypeOK, NEW x \in Request, x.op # "list", Allowed(x),
           initialized' = initialized \cup {x.conn},
           routes' = (Table(x.conn) \ Before(x)) \cup After(x),
           nextRoute' = IF x.op = "create" THEN FreeId(x.conn) + 1 ELSE FreeId(x.conn),
           access' = access
    PROVE  /\ initialized' \subseteq {c \in Conns : access'[c] # "absent"}
           /\ routes' \subseteq Route
           /\ \A r \in routes' : r.conn \in initialized' /\ r.id < nextRoute'
           /\ \A r, s \in routes' :
                 r.id = s.id \/ (r.conn = s.conn /\ r.dest = s.dest) => r = s
           /\ nextRoute' \in Nat
<1>0. x.conn \in Conns
  BY DEF Request
<1>1. /\ FreeId(x.conn) \in Nat
      /\ Table(x.conn) \subseteq Route
      /\ \A r \in Table(x.conn) : r.id < FreeId(x.conn) /\ r.conn \in initialized \cup {x.conn}
      /\ \A r, s \in Table(x.conn) :
            r.id = s.id \/ (r.conn = s.conn /\ r.dest = s.dest) => r = s
  BY <1>0, TableFacts
<1>2. /\ After(x) \subseteq Route
      /\ Resource(x) < nextRoute'
      /\ \A r \in After(x) : r.id = Resource(x) /\ r.conn = x.conn
      /\ \A r, s \in After(x) : r = s
      /\ \A r \in Table(x.conn) \ Before(x) :
            /\ r.id # Resource(x)
            /\ \A s \in After(x) : r.conn = s.conn => r.dest # s.dest
  BY ChangeFacts
<1>3. nextRoute' \in Nat /\ FreeId(x.conn) <= nextRoute'
  BY <1>1
<1>4. \A r \in Table(x.conn) : r.id < nextRoute'
  <2>1. \A n \in Nat : n < FreeId(x.conn) => n < nextRoute'
    BY <1>1, <1>3
  <2>. QED
    BY <1>1, <2>1 DEF Route
<1>5. access[x.conn] # "absent"
  BY DEF Allowed, StillFake, Fake
<1>6. initialized' \subseteq {c \in Conns : access'[c] # "absent"}
  BY <1>0, <1>5 DEF TypeOK
<1>7. \A r \in routes' : r.conn \in initialized' /\ r.id < nextRoute'
  BY <1>1, <1>2, <1>4
<1>8. \A r, s \in routes' :
          r.id = s.id \/ (r.conn = s.conn /\ r.dest = s.dest) => r = s
  BY <1>1, <1>2
<1>. QED
  BY <1>1, <1>2, <1>3, <1>6, <1>7, <1>8

\* The records of a change and of a failed attempt are records.
LEMMA RecordsTyped ==
    ASSUME TypeOK, NEW q \in Requests, NEW x \in Request, x.op # "list"
    PROVE  /\ Failed(q, x) \in Record
           /\ Allowed(x) => Succeeded(q, x) \in Record
<1>0. x.conn \in Conns /\ x.target \in Nat
  BY DEF Request
<1>1. Failed(q, x) \in Record
  BY <1>0 DEF Failed, Record
<1>2. ASSUME Allowed(x) PROVE Succeeded(q, x) \in Record
  <2>1. Table(x.conn) \subseteq Route
    BY <1>0, TableFacts
  <2>2. Before(x) \subseteq Route /\ After(x) \subseteq Route /\ Resource(x) \in Nat
    BY <1>2, <2>1, ChangeFacts
  <2>. QED
    BY <1>0, <2>2 DEF Succeeded, Record
<1>. QED
  BY <1>1, <1>2

LEMMA TypesStay == TypeOK /\ [Next]_vars => TypeOK'
<1>. SUFFICES ASSUME TypeOK, [Next]_vars PROVE TypeOK'
  OBVIOUS
<1>1. ASSUME NEW q \in Requests, NEW op \in Ops, NEW x \in Input(op), CheckAccess(q, x)
      PROVE  TypeOK'
  <2>1. PICK outcome : Happens(outcome)
    BY <1>1 DEF CheckAccess
  <2>2. load.conns \subseteq Conns
    BY RoutesAssumption DEF RoutesAssumption, TypeOK
  <2>3. x \in Request
    BY <2>2 DEF Input, Request, TypeOK
  <2>4. PICK label \in {"path", "error", "refused"} :
            req' = [req EXCEPT ![q] = [x EXCEPT !.pc = label]]
    BY <1>1 DEF CheckAccess, Refuse
  <2>5. req' \in [Requests -> Request]
    BY <2>3, <2>4 DEF Request, TypeOK
  <2>. QED
    BY <1>1, <2>1, <2>5, FaultsTyped DEF CheckAccess, TypeOK
<1>2. ASSUME NEW q \in Requests, CheckPath(q) PROVE TypeOK'
  <2>1. req' \in [Requests -> Request]
    BY <1>2, RequestTyped DEF CheckPath, Refuse
  <2>2. faults' \in 0 .. MaxFaults
    BY <1>2, FaultsTyped DEF CheckPath
  <2>. QED
    BY <1>2, <2>1, <2>2 DEF CheckPath, TypeOK
<1>3. ASSUME NEW q \in Requests, ListRoutes(q) PROVE TypeOK'
  <2>. DEFINE c == req[q].conn
  <2>1. c \in Conns
    BY DEF TypeOK, Request
  <2>2. req' \in [Requests -> Request]
    BY <1>3, RequestTyped DEF ListRoutes
  <2>3. faults' \in 0 .. MaxFaults
    BY <1>3, FaultsTyped DEF ListRoutes
  <2>4. CASE UNCHANGED <<initialized, routes, nextRoute>>
    BY <1>3, <2>2, <2>3, <2>4 DEF ListRoutes, TypeOK
  <2>5. CASE /\ StillFake(c)
             /\ initialized' = initialized \cup {c}
             /\ routes' = Table(c)
             /\ nextRoute' = FreeId(c)
    <3>1. access[c] # "absent"
      BY <2>5 DEF StillFake, Fake
    <3>2. /\ nextRoute' \in Nat
          /\ routes' \subseteq Route
          /\ \A r \in routes' : r.conn \in initialized' /\ r.id < nextRoute'
          /\ \A r, s \in routes' :
                r.id = s.id \/ (r.conn = s.conn /\ r.dest = s.dest) => r = s
      BY <2>1, <2>5, TableFacts
    <3>3. initialized' \subseteq {d \in Conns : access[d] # "absent"}
      BY <2>1, <2>5, <3>1 DEF TypeOK
    <3>. QED
      BY <1>3, <2>2, <2>3, <3>2, <3>3 DEF ListRoutes, TypeOK
  <2>. QED
    BY <1>3, <2>4, <2>5 DEF ListRoutes
<1>4. ASSUME NEW q \in Requests, Change(q) PROVE TypeOK'
  <2>. DEFINE x == req[q]
  <2>1. x \in Request /\ x.op # "list"
    BY <1>4 DEF TypeOK, Change
  <2>2. req' \in [Requests -> Request]
    BY <1>4, RequestTyped DEF Change
  <2>3. faults' \in 0 .. MaxFaults
    BY <1>4, FaultsTyped DEF Change
  <2>4. unsure' \subseteq Requests
    BY <1>4 DEF Change, TypeOK
  <2>5. CASE UNCHANGED <<initialized, routes, nextRoute, audit>>
    BY <1>4, <2>2, <2>3, <2>4, <2>5 DEF Change, TypeOK
  <2>6. CASE /\ Allowed(x)
             /\ initialized' = initialized \cup {x.conn}
             /\ routes' = (Table(x.conn) \ Before(x)) \cup After(x)
             /\ nextRoute' = IF x.op = "create" THEN FreeId(x.conn) + 1 ELSE FreeId(x.conn)
             /\ audit' = Append(audit, Succeeded(q, x))
    <3>1. access' = access /\ load' = load
      BY <1>4 DEF Change
    <3>2. /\ initialized' \subseteq {c \in Conns : access'[c] # "absent"}
          /\ routes' \subseteq Route
          /\ \A r \in routes' : r.conn \in initialized' /\ r.id < nextRoute'
          /\ \A r, s \in routes' :
                r.id = s.id \/ (r.conn = s.conn /\ r.dest = s.dest) => r = s
          /\ nextRoute' \in Nat
      BY <2>1, <2>6, <3>1, ChangedTable
    <3>3. audit' \in Seq(Record)
      <4>1. Succeeded(q, x) \in Record
        BY <2>1, <2>6, RecordsTyped
      <4>. QED
        BY <2>6, <4>1 DEF TypeOK
    <3>. QED
      BY <2>2, <2>3, <2>4, <3>1, <3>2, <3>3 DEF TypeOK
  <2>. QED
    BY <1>4, <2>5, <2>6 DEF Change
<1>5. ASSUME NEW q \in Requests, RecordFailure(q) PROVE TypeOK'
  <2>1. req' \in [Requests -> Request]
    BY <1>5, RequestTyped DEF RecordFailure
  <2>2. faults' \in 0 .. MaxFaults
    BY <1>5, FaultsTyped DEF RecordFailure
  <2>3. Failed(q, req[q]) \in Record
    BY DEF TypeOK, Request, Failed, Record
  <2>4. audit' \in Seq(Record)
    BY <1>5, <2>3 DEF RecordFailure, TypeOK
  <2>5. unsure' \subseteq Requests
    BY <1>5 DEF RecordFailure, TypeOK
  <2>. QED
    BY <1>5, <2>1, <2>2, <2>4, <2>5 DEF RecordFailure, TypeOK
<1>6. ASSUME NEW c \in Conns, NEW kind \in Fake \cup {"network"}, Edit(c, kind)
      PROVE  TypeOK'
  <2>1. access' \in [Conns -> Access]
    BY <1>6 DEF Edit, TypeOK, Access
  <2>2. \A d \in Conns : access[d] # "absent" => access'[d] # "absent"
    BY <1>6 DEF Edit, TypeOK, Fake
  <2>3. initialized' \subseteq {d \in Conns : access'[d] # "absent"}
    BY <1>6, <2>2 DEF Edit, TypeOK
  <2>. QED
    BY <1>6, <2>1, <2>3 DEF Edit, TypeOK
<1>7. ASSUME NEW c \in Conns, Delete(c) PROVE TypeOK'
  <2>1. access' \in [Conns -> Access]
    BY <1>7 DEF Delete, TypeOK, Access
  <2>2. initialized' \subseteq {d \in Conns : access'[d] # "absent"}
    BY <1>7 DEF Delete, TypeOK
  <2>3. routes' \subseteq routes /\ \A r \in routes' : r.conn # c
    BY <1>7 DEF Delete, RoutesOf
  <2>4. \A r \in routes' : r.conn \in initialized' /\ r.id < nextRoute'
    BY <1>7, <2>3 DEF Delete, TypeOK
  <2>. QED
    BY <1>7, <2>1, <2>2, <2>3, <2>4 DEF Delete, TypeOK
<1>8. ASSUME Crash PROVE TypeOK'
  <2>1. \A q \in Requests :
            req[q] \in Request /\ [req[q] EXCEPT !.pc = "dropped"] \in Request
    BY ZenonT(60) DEF TypeOK, Request
  <2>2. req' \in [Requests -> Request]
    BY <1>8, <2>1 DEF Crash
  <2>. QED
    BY <1>8, <2>2 DEF Crash, TypeOK
<1>9. CASE UNCHANGED vars
  BY <1>9 DEF vars, TypeOK
<1>. QED
  BY <1>1, <1>2, <1>3, <1>4, <1>5, <1>6, <1>7, <1>8, <1>9 DEF Next, Serve

\* TypeOK: besides the types, the constraints of the route table (destinations are
\* unique per device, routes belong to stored devices) hold at every step.
THEOREM TypeCorrect == Spec => []TypeOK
BY TypesAtFirst, TypesStay, PTL DEF Spec

-----------------------------------------------------------------------------
\* The history of a route.

Succ(k) == audit[k].outcome = "succeeded"
IsLast(k) == Succ(k) /\ \A j \in k + 1 .. Len(audit) : ~Changes(j, audit[k].route)
RowsWith(id) == {r \in routes : r.id = id}

\* What makes the two history properties inductive: no record names an id that is
\* still to be handed out; the row a record names is on its device; and a device
\* that has records has its seeds or is gone for good, so it is never seeded twice.
KnownIds == \A k \in DOMAIN audit : Succ(k) => audit[k].route < nextRoute
OneDevice ==
    \A k \in DOMAIN audit, r \in routes :
        Succ(k) /\ r.id = audit[k].route => r.conn = audit[k].conn
Devices ==
    \A k \in DOMAIN audit :
        Succ(k) => audit[k].conn \in initialized \/ access[audit[k].conn] = "absent"

LastTells ==
    \A k \in DOMAIN audit :
        IsLast(k) /\ audit[k].conn \in initialized => RowsWith(audit[k].route) = audit[k].after

History == TypeOK /\ KnownIds /\ OneDevice /\ Devices /\ LastTells /\ HistoryIsGapless

LEMMA LastTellsMatch == LastTells <=> RecordsMatchRoutes
BY DEF LastTells, RecordsMatchRoutes, IsLast, Succ, RowsWith

LEMMA RecordAt ==
    ASSUME TypeOK, NEW k \in DOMAIN audit
    PROVE  audit[k] \in Record /\ audit[k].conn \in Conns /\ audit[k].route \in Nat
<1>1. audit[k] \in Record
  BY DEF TypeOK
<1>. QED
  BY <1>1 DEF Record

\* One more record.
LEMMA Appended ==
    ASSUME TypeOK, NEW rec \in Record, audit' = Append(audit, rec)
    PROVE  /\ Len(audit) \in Nat /\ DOMAIN audit = 1 .. Len(audit)
           /\ DOMAIN audit' = 1 .. Len(audit) + 1
           /\ Len(audit') = Len(audit) + 1
           /\ audit'[Len(audit) + 1] = rec
           /\ \A k \in DOMAIN audit : audit'[k] = audit[k]
           /\ \A k \in DOMAIN audit' : k \in DOMAIN audit \/ k = Len(audit) + 1
BY DEF TypeOK

\* A step that touches neither the tables nor the records.
LEMMA QuietHistory ==
    ASSUME History, TypeOK', UNCHANGED <<initialized, routes, audit, nextRoute>>,
           \A c \in Conns : access[c] = "absent" => access'[c] = "absent"
    PROVE  History'
<1>1. \A k \in DOMAIN audit : audit[k].conn \in Conns
  BY RecordAt DEF History
<1>2. KnownIds' /\ OneDevice' /\ LastTells' /\ HistoryIsGapless'
  BY DEF History, KnownIds, OneDevice, LastTells, HistoryIsGapless, Succ, IsLast,
         RowsWith, Follows, Changes
<1>3. Devices'
  BY <1>1 DEF History, Devices, Succ
<1>. QED
  BY <1>2, <1>3 DEF History

\* A list that seeds the table of device c.
LEMMA SeededHistory ==
    ASSUME History, TypeOK', NEW c \in Conns, StillFake(c),
           initialized' = initialized \cup {c}, routes' = Table(c),
           nextRoute' = FreeId(c), UNCHANGED <<access, audit>>
    PROVE  History'
<1>0. /\ TypeOK /\ nextRoute \in Nat
      /\ \A k \in DOMAIN audit : audit[k].route \in Nat /\ audit[k].conn \in Conns
  <2>1. TypeOK /\ nextRoute \in Nat
    BY DEF History, TypeOK
  <2>. QED
    BY <2>1, RecordAt
<1>1. /\ FreeId(c) \in Nat /\ nextRoute <= FreeId(c)
      /\ routes \subseteq Table(c)
      /\ \A r \in Table(c) \ routes : r.id >= nextRoute
      /\ Table(c) \subseteq Route
  BY <1>0, TableFacts
<1>2. \A k \in DOMAIN audit : Succ(k) => RowsWith(audit[k].route)' = RowsWith(audit[k].route)
  <2>. SUFFICES ASSUME NEW k \in DOMAIN audit, Succ(k), NEW r \in Table(c),
                       r.id = audit[k].route
                PROVE  r \in routes
    BY <1>1 DEF RowsWith
  <2>1. audit[k].route < nextRoute
    BY DEF History, KnownIds
  <2>. QED
    BY <1>0, <1>1, <2>1
<1>3. KnownIds'
  BY <1>0, <1>1 DEF History, KnownIds, Succ
<1>4. OneDevice'
  <2>1. \A k \in DOMAIN audit, r \in routes' :
            Succ(k) /\ r.id = audit[k].route => r \in routes
    BY <1>2 DEF RowsWith
  <2>. QED
    BY <2>1 DEF History, OneDevice, Succ
<1>5. Devices'
  BY DEF History, Devices, Succ
<1>6. LastTells'
  <2>. SUFFICES ASSUME NEW k \in DOMAIN audit, IsLast(k), audit[k].conn \in initialized'
                PROVE  RowsWith(audit[k].route)' = audit[k].after
    BY DEF LastTells, IsLast, Succ, Changes, RowsWith
  <2>1. Succ(k)
    BY DEF IsLast
  <2>2. audit[k].conn \in initialized
    BY <2>1 DEF History, Devices, StillFake, Fake
  <2>. QED
    BY <1>2, <2>1, <2>2 DEF History, LastTells
<1>7. HistoryIsGapless'
  BY DEF History, HistoryIsGapless, Follows, Changes
<1>. QED
  BY <1>3, <1>4, <1>5, <1>6, <1>7 DEF History

\* The record of a failed attempt.
LEMMA FailedHistory ==
    ASSUME History, TypeOK', NEW rec \in Record, rec.outcome = "failed",
           audit' = Append(audit, rec), UNCHANGED <<access, initialized, routes, nextRoute>>
    PROVE  History'
<1>0. TypeOK
  BY DEF History
<1>. DEFINE m == Len(audit) + 1
<1>1. /\ Len(audit) \in Nat /\ DOMAIN audit = 1 .. Len(audit)
      /\ Len(audit') = m
      /\ audit'[m] = rec
      /\ \A k \in DOMAIN audit : audit'[k] = audit[k]
      /\ \A k \in DOMAIN audit' : k \in DOMAIN audit \/ k = m
  BY <1>0, Appended
<1>2. \A k \in DOMAIN audit : Succ(k)' <=> Succ(k)
  BY <1>1 DEF Succ
<1>3. \A k \in DOMAIN audit' : Succ(k)' => k \in DOMAIN audit
  BY <1>1 DEF Succ
<1>4. KnownIds' /\ OneDevice' /\ Devices'
  BY <1>1, <1>2, <1>3 DEF History, KnownIds, OneDevice, Devices
<1>5. \A k \in DOMAIN audit, id \in Nat : Changes(k, id)' <=> Changes(k, id)
  BY <1>1 DEF Changes
<1>6. \A k \in DOMAIN audit : audit[k].route \in Nat
  BY <1>0, RecordAt
<1>7. LastTells'
  <2>. SUFFICES ASSUME NEW k \in DOMAIN audit', IsLast(k)', audit'[k].conn \in initialized
                PROVE  {r \in routes : r.id = audit'[k].route} = audit'[k].after
    BY DEF LastTells, RowsWith
  <2>1. k \in DOMAIN audit /\ audit'[k] = audit[k] /\ Succ(k)
    BY <1>1, <1>2, <1>3 DEF IsLast
  <2>2. \A j \in k + 1 .. Len(audit) : j \in DOMAIN audit /\ j \in k + 1 .. m
    BY <1>1, <2>1
  <2>3. \A j \in k + 1 .. Len(audit) : ~Changes(j, audit[k].route)
    BY <1>1, <1>5, <1>6, <2>1, <2>2 DEF IsLast
  <2>. QED
    BY <2>1, <2>3 DEF History, LastTells, IsLast, RowsWith
<1>8. HistoryIsGapless'
  <2>. SUFFICES ASSUME NEW i \in DOMAIN audit', NEW k \in DOMAIN audit', i < k,
                       Follows(k, i)'
                PROVE  /\ audit'[k].before = audit'[i].after
                       /\ audit'[k].conn = audit'[i].conn
    BY DEF HistoryIsGapless
  <2>1. Succ(i)' /\ Succ(k)'
    BY DEF Follows, Changes, Succ
  <2>2. i \in DOMAIN audit /\ k \in DOMAIN audit
    BY <1>3, <2>1
  <2>3. \A j \in i + 1 .. k - 1 : j \in DOMAIN audit
    BY <1>1, <2>2
  <2>4. Follows(k, i)
    BY <1>1, <1>5, <1>6, <2>2, <2>3 DEF Follows
  <2>. QED
    BY <1>1, <2>2, <2>4 DEF History, HistoryIsGapless
<1>. QED
  BY <1>4, <1>7, <1>8 DEF History

\* A device is deleted.
LEMMA DeletedHistory ==
    ASSUME History, TypeOK', NEW c \in Conns, Delete(c)
    PROVE  History'
<1>0. /\ access' = [access EXCEPT ![c] = "absent"]
      /\ routes' = {r \in routes : r.conn # c}
      /\ initialized' = initialized \ {c}
      /\ UNCHANGED <<audit, nextRoute>>
  BY DEF Delete, RoutesOf
<1>1. \A k \in DOMAIN audit : audit[k].conn \in Conns
  BY RecordAt DEF History
<1>2. access \in [Conns -> Access]
  BY DEF History, TypeOK
<1>3. KnownIds' /\ OneDevice' /\ HistoryIsGapless'
  BY <1>0 DEF History, KnownIds, OneDevice, HistoryIsGapless, Succ, Follows, Changes
<1>4. Devices'
  BY <1>0, <1>1, <1>2 DEF History, Devices, Succ
<1>5. LastTells'
  <2>. SUFFICES ASSUME NEW k \in DOMAIN audit, IsLast(k), audit[k].conn \in initialized'
                PROVE  RowsWith(audit[k].route)' = audit[k].after
    BY <1>0 DEF LastTells, IsLast, Succ, Changes, RowsWith
  <2>1. \A r \in RowsWith(audit[k].route) : r.conn # c
    BY <1>0 DEF History, OneDevice, IsLast, RowsWith
  <2>. QED
    BY <1>0, <2>1 DEF History, LastTells, RowsWith
<1>. QED
  BY <1>3, <1>4, <1>5 DEF History

\* A change commits with its record.
LEMMA ChangedHistory ==
    ASSUME History, TypeOK', NEW q \in Requests, NEW x \in Request, x.op # "list",
           Allowed(x),
           initialized' = initialized \cup {x.conn},
           routes' = (Table(x.conn) \ Before(x)) \cup After(x),
           nextRoute' = IF x.op = "create" THEN FreeId(x.conn) + 1 ELSE FreeId(x.conn),
           audit' = Append(audit, Succeeded(q, x)),
           access' = access
    PROVE  History'
<1>. DEFINE m == Len(audit) + 1
            c == x.conn
            id == Resource(x)
<1>0. TypeOK /\ c \in Conns /\ nextRoute \in Nat /\ StillFake(c)
  BY DEF History, TypeOK, Request, Allowed
<1>1. Succeeded(q, x) \in Record
  BY <1>0, RecordsTyped
<1>2. /\ Len(audit) \in Nat /\ DOMAIN audit = 1 .. Len(audit)
      /\ Len(audit') = m
      /\ audit'[m] = Succeeded(q, x)
      /\ \A k \in DOMAIN audit : audit'[k] = audit[k]
      /\ \A k \in DOMAIN audit' : k \in DOMAIN audit \/ k = m
      /\ m \in DOMAIN audit'
  BY <1>0, <1>1, Appended
<1>3. /\ audit'[m].outcome = "succeeded" /\ audit'[m].conn = c /\ audit'[m].route = id
      /\ audit'[m].before = Before(x) /\ audit'[m].after = After(x)
  BY <1>2 DEF Succeeded
<1>4. /\ FreeId(c) \in Nat /\ nextRoute <= FreeId(c)
      /\ routes \subseteq Table(c)
      /\ Table(c) \subseteq Route
      /\ \A r \in Table(c) \ routes : r.id >= nextRoute
  BY <1>0, TableFacts
<1>5. /\ Before(x) \subseteq Table(c)
      /\ id \in Nat /\ id < nextRoute'
      /\ \A r \in Before(x) \cup After(x) : r.id = id /\ r.conn = c
      /\ \A r \in Table(c) \ Before(x) : r.id # id
      /\ id < nextRoute => Before(x) # {}
  <2>1. /\ Before(x) \subseteq Table(c)
        /\ id \in Nat /\ id < nextRoute'
        /\ \A r \in Before(x) \cup After(x) : r.id = id /\ r.conn = c
        /\ \A r \in Table(c) \ Before(x) : r.id # id
        /\ IF x.op = "create" THEN id >= nextRoute ELSE Before(x) # {}
    BY <1>0, ChangeFacts
  <2>2. id >= nextRoute => ~(id < nextRoute)
    BY <1>0, <2>1
  <2>. QED
    BY <2>1, <2>2
<1>6. nextRoute' \in Nat /\ nextRoute <= nextRoute'
  BY <1>0, <1>4
<1>7. \A k \in DOMAIN audit :
          /\ audit[k].conn \in Conns /\ audit[k].route \in Nat
          /\ Succ(k) => audit[k].route < nextRoute
          /\ Succ(k)' <=> Succ(k)
  BY <1>0, <1>2, RecordAt DEF History, KnownIds, Succ
\* A row that a record names was there before.
<1>8. \A r \in Table(c) : r.id < nextRoute => r \in routes
  <2>1. \A r \in Table(c) : r.id \in Nat
    BY <1>4 DEF Route
  <2>. QED
    BY <1>0, <1>4, <2>1
\* If the change is to a route with a record, the row it read is the one the
\* records are about.
<1>9. \A k \in DOMAIN audit :
          Succ(k) /\ audit[k].route = id =>
              /\ audit[k].conn = c /\ c \in initialized
              /\ RowsWith(id) = Before(x)
  <2>. SUFFICES ASSUME NEW k \in DOMAIN audit, Succ(k), audit[k].route = id
                PROVE  /\ audit[k].conn = c /\ c \in initialized
                       /\ RowsWith(id) = Before(x)
    OBVIOUS
  <2>1. id < nextRoute /\ Before(x) # {}
    BY <1>5, <1>7
  <2>2. Before(x) \subseteq routes
    BY <1>5, <1>8, <2>1
  <2>3. RowsWith(id) = Before(x)
    BY <1>4, <1>5, <2>2 DEF RowsWith
  <2>4. PICK b \in Before(x) : b.id = id /\ b.conn = c
    BY <1>5, <2>1
  <2>5. audit[k].conn = c
    BY <2>2, <2>4 DEF History, OneDevice
  <2>6. c \in initialized
    BY <1>0, <2>2, <2>4 DEF TypeOK
  <2>. QED
    BY <2>3, <2>5, <2>6
<1>10. KnownIds'
  <2>. SUFFICES ASSUME NEW k \in DOMAIN audit', Succ(k)' PROVE audit'[k].route < nextRoute'
    BY DEF KnownIds
  <2>1. CASE k = m
    BY <1>3, <1>5, <2>1
  <2>2. CASE k \in DOMAIN audit
    BY <1>0, <1>2, <1>6, <1>7, <2>2
  <2>. QED
    BY <1>2, <2>1, <2>2
<1>11. OneDevice'
  <2>. SUFFICES ASSUME NEW k \in DOMAIN audit', NEW r \in routes', Succ(k)',
                       r.id = audit'[k].route
                PROVE  r.conn = audit'[k].conn
    BY DEF OneDevice
  <2>1. CASE k = m
    BY <1>3, <1>5, <2>1
  <2>2. CASE k \in DOMAIN audit /\ r \in After(x)
    BY <1>2, <1>5, <1>7, <1>9, <2>2
  <2>3. CASE k \in DOMAIN audit /\ r \in Table(c)
    BY <1>2, <1>7, <1>8, <2>3 DEF History, OneDevice
  <2>. QED
    BY <1>2, <2>1, <2>2, <2>3
<1>12. Devices'
  <2>. SUFFICES ASSUME NEW k \in DOMAIN audit', Succ(k)'
                PROVE  audit'[k].conn \in initialized' \/ access[audit'[k].conn] = "absent"
    BY DEF Devices
  <2>1. CASE k = m
    BY <1>3, <2>1
  <2>2. CASE k \in DOMAIN audit
    BY <1>2, <1>7, <2>2 DEF History, Devices
  <2>. QED
    BY <1>2, <2>1, <2>2
<1>13. \A k \in DOMAIN audit, n \in Nat : Changes(k, n)' <=> Changes(k, n)
  BY <1>2 DEF Changes
<1>14. LastTells'
  <2>. SUFFICES ASSUME NEW k \in DOMAIN audit', IsLast(k)', audit'[k].conn \in initialized'
                PROVE  {r \in routes' : r.id = audit'[k].route} = audit'[k].after
    BY DEF LastTells, RowsWith
  <2>1. CASE k = m
    BY <1>3, <1>5, <2>1
  <2>2. CASE k \in DOMAIN audit
    <3>1. audit'[k] = audit[k] /\ Succ(k)
      BY <1>2, <1>7, <2>2 DEF IsLast
    <3>2. \A j \in k + 1 .. m : ~(audit'[j].outcome = "succeeded"
                                  /\ audit'[j].route = audit[k].route)
      BY <1>2, <3>1 DEF IsLast, Changes
    <3>3. m \in k + 1 .. m /\ \A j \in k + 1 .. Len(audit) :
              j \in DOMAIN audit /\ j \in k + 1 .. m
      BY <1>2, <2>2
    <3>4. audit[k].route # id
      BY <1>3, <3>2, <3>3
    <3>5. IsLast(k)
      BY <1>2, <3>1, <3>2, <3>3 DEF IsLast, Changes
    <3>6. audit[k].conn \in initialized
      BY <1>0, <2>2, <3>1 DEF History, Devices, StillFake, Fake
    <3>7. RowsWith(audit[k].route) = audit[k].after
      BY <2>2, <3>5, <3>6 DEF History, LastTells
    <3>8. audit[k].route < nextRoute
      BY <1>7, <2>2, <3>1
    <3>9. {r \in routes' : r.id = audit[k].route} = RowsWith(audit[k].route)
      BY <1>4, <1>5, <1>8, <3>4, <3>8 DEF RowsWith
    <3>. QED
      BY <3>1, <3>7, <3>9
  <2>. QED
    BY <1>2, <2>1, <2>2
<1>15. HistoryIsGapless'
  <2>. SUFFICES ASSUME NEW i \in DOMAIN audit', NEW k \in DOMAIN audit', i < k,
                       Follows(k, i)'
                PROVE  /\ audit'[k].before = audit'[i].after
                       /\ audit'[k].conn = audit'[i].conn
    BY DEF HistoryIsGapless
  <2>0. i \in DOMAIN audit
    BY <1>2
  <2>1. \A j \in i + 1 .. k - 1 : j \in DOMAIN audit
    BY <1>2, <2>0
  <2>2. audit'[k].route \in Nat
    BY <1>2, <1>3, <1>5, <1>7
  <2>3. /\ Changes(i, audit'[k].route)
        /\ \A j \in i + 1 .. k - 1 : ~Changes(j, audit'[k].route)
    BY <1>13, <2>0, <2>1, <2>2 DEF Follows
  <2>4. CASE k = m
    <3>1. Succ(i) /\ audit[i].route = id /\ IsLast(i)
      BY <1>2, <1>3, <2>3, <2>4 DEF Changes, Succ, IsLast
    <3>2. audit[i].conn = c /\ c \in initialized /\ RowsWith(id) = Before(x)
      BY <1>9, <2>0, <3>1
    <3>3. RowsWith(id) = audit[i].after
      BY <2>0, <3>1, <3>2 DEF History, LastTells
    <3>. QED
      BY <1>2, <1>3, <2>0, <2>4, <3>2, <3>3
  <2>5. CASE k \in DOMAIN audit
    <3>1. audit'[k] = audit[k] /\ audit'[i] = audit[i]
      BY <1>2, <2>0, <2>5
    <3>2. Follows(k, i)
      <4>1. Changes(k, audit'[k].route)
        BY <1>13, <2>2, <2>5 DEF Follows
      <4>. QED
        BY <2>3, <3>1, <4>1 DEF Follows
    <3>. QED
      BY <2>0, <2>5, <3>1, <3>2 DEF History, HistoryIsGapless
  <2>. QED
    BY <1>2, <2>4, <2>5
<1>. QED
  BY <1>10, <1>11, <1>12, <1>14, <1>15 DEF History

LEMMA HistoryAtFirst == Init => History
<1>. SUFFICES ASSUME Init PROVE History
  OBVIOUS
<1>1. DOMAIN audit = {}
  BY DEF Init
<1>. QED
  BY <1>1, TypesAtFirst DEF History, KnownIds, OneDevice, Devices, LastTells,
                             HistoryIsGapless

LEMMA HistoryStays == History /\ [Next]_vars => History'
<1>. SUFFICES ASSUME History, [Next]_vars PROVE History'
  OBVIOUS
<1>0. TypeOK /\ TypeOK'
  BY TypesStay DEF History
<1>1. ASSUME NEW q \in Requests, NEW op \in Ops, NEW x \in Input(op), CheckAccess(q, x)
      PROVE  History'
  BY <1>0, <1>1, QuietHistory DEF CheckAccess
<1>2. ASSUME NEW q \in Requests, CheckPath(q) PROVE History'
  BY <1>0, <1>2, QuietHistory DEF CheckPath
<1>3. ASSUME NEW q \in Requests, ListRoutes(q) PROVE History'
  <2>1. req[q].conn \in Conns
    BY <1>0 DEF TypeOK, Request
  <2>2. UNCHANGED <<access, audit>>
    BY <1>3 DEF ListRoutes
  <2>3. CASE UNCHANGED <<initialized, routes, nextRoute>>
    BY <1>0, <2>2, <2>3, QuietHistory
  <2>4. CASE /\ StillFake(req[q].conn)
             /\ initialized' = initialized \cup {req[q].conn}
             /\ routes' = Table(req[q].conn)
             /\ nextRoute' = FreeId(req[q].conn)
    BY <1>0, <2>1, <2>2, <2>4, SeededHistory
  <2>. QED
    BY <1>3, <2>3, <2>4 DEF ListRoutes
<1>4. ASSUME NEW q \in Requests, Change(q) PROVE History'
  <2>1. req[q] \in Request /\ req[q].op # "list" /\ access' = access
    BY <1>0, <1>4 DEF TypeOK, Change
  <2>2. CASE UNCHANGED <<initialized, routes, nextRoute, audit>>
    BY <1>0, <2>1, <2>2, QuietHistory
  <2>3. CASE /\ Allowed(req[q])
             /\ initialized' = initialized \cup {req[q].conn}
             /\ routes' = (Table(req[q].conn) \ Before(req[q])) \cup After(req[q])
             /\ nextRoute' = IF req[q].op = "create" THEN FreeId(req[q].conn) + 1
                             ELSE FreeId(req[q].conn)
             /\ audit' = Append(audit, Succeeded(q, req[q]))
    BY <1>0, <2>1, <2>3, ChangedHistory
  <2>. QED
    BY <1>4, <2>2, <2>3 DEF Change
<1>5. ASSUME NEW q \in Requests, RecordFailure(q) PROVE History'
  <2>1. UNCHANGED <<access, initialized, routes, nextRoute>>
    BY <1>5 DEF RecordFailure
  <2>2. CASE audit' = audit
    BY <1>0, <2>1, <2>2, QuietHistory
  <2>3. CASE audit' = Append(audit, Failed(q, req[q]))
    <3>1. Failed(q, req[q]) \in Record /\ Failed(q, req[q]).outcome = "failed"
      BY <1>0 DEF TypeOK, Request, Failed, Record
    <3>. QED
      BY <1>0, <2>1, <2>3, <3>1, FailedHistory
  <2>. QED
    BY <1>5, <2>2, <2>3 DEF RecordFailure
<1>6. ASSUME NEW c \in Conns, NEW kind \in Fake \cup {"network"}, Edit(c, kind)
      PROVE  History'
  <2>1. \A d \in Conns : access[d] = "absent" => access'[d] = "absent"
    BY <1>0, <1>6 DEF Edit, TypeOK
  <2>. QED
    BY <1>0, <1>6, <2>1, QuietHistory DEF Edit
<1>7. ASSUME NEW c \in Conns, Delete(c) PROVE History'
  BY <1>0, <1>7, DeletedHistory
<1>8. ASSUME Crash PROVE History'
  BY <1>0, <1>8, QuietHistory DEF Crash
<1>9. CASE UNCHANGED vars
  BY <1>0, <1>9, QuietHistory DEF vars
<1>. QED
  BY <1>1, <1>2, <1>3, <1>4, <1>5, <1>6, <1>7, <1>8, <1>9 DEF Next, Serve

\* The records of a route are its gapless history, whatever requests, edits,
\* failures and crashes come between the check of a request and its commit.
THEOREM GaplessHistory == Spec => []HistoryIsGapless
<1>1. History => HistoryIsGapless
  BY DEF History
<1>. QED
  BY <1>1, HistoryAtFirst, HistoryStays, PTL DEF Spec

\* The last record of a route tells what the table of a stored device holds: a
\* change and its record commit together.
THEOREM RecordsTellTables == Spec => []RecordsMatchRoutes
<1>1. History => RecordsMatchRoutes
  BY LastTellsMatch DEF History
<1>. QED
  BY <1>1, HistoryAtFirst, HistoryStays, PTL DEF Spec

-----------------------------------------------------------------------------
\* What a step may do to a device's table.

RowsChange(c) == c \in initialized' /\ RoutesOf(c)' # RoutesOf(c)
RowsRecorded(c) ==
    /\ Len(audit') = Len(audit) + 1
    /\ audit'[Len(audit')].conn = c
    /\ RoutesOf(c)' = (RoutesOf(c) \ audit'[Len(audit')].before)
                      \cup audit'[Len(audit')].after

LEMMA TableSteps ==
    ASSUME TypeOK, [Next]_vars, NEW d \in Conns, RowsChange(d)
    PROVE  access[d] \in Fake /\ (d \in initialized => RowsRecorded(d))
<1>1. ASSUME UNCHANGED routes PROVE FALSE
  BY <1>1 DEF RowsChange, RoutesOf
<1>2. ASSUME NEW q \in Requests, ListRoutes(q)
      PROVE  access[d] \in Fake /\ (d \in initialized => RowsRecorded(d))
  <2>. DEFINE c == req[q].conn
  <2>1. c \in Conns
    BY DEF TypeOK, Request
  <2>2. routes' = Table(c) /\ StillFake(c)
    BY <1>1, <1>2 DEF ListRoutes
  <2>3. /\ routes \subseteq Table(c)
        /\ \A r \in Table(c) \ routes : r.conn = c /\ c \notin initialized
    BY <2>1, TableFacts
  <2>4. d = c /\ c \notin initialized
    BY <2>2, <2>3 DEF RowsChange, RoutesOf
  <2>. QED
    BY <2>2, <2>4 DEF StillFake
<1>3. ASSUME NEW q \in Requests, Change(q)
      PROVE  access[d] \in Fake /\ (d \in initialized => RowsRecorded(d))
  <2>. DEFINE x == req[q]
  <2>1. x \in Request /\ x.conn \in Conns /\ x.op # "list"
    BY <1>3 DEF TypeOK, Request, Change
  <2>2. /\ Allowed(x)
        /\ routes' = (Table(x.conn) \ Before(x)) \cup After(x)
        /\ audit' = Append(audit, Succeeded(q, x))
    BY <1>1, <1>3 DEF Change
  <2>3. /\ routes \subseteq Table(x.conn)
        /\ \A r \in Table(x.conn) \ routes : r.conn = x.conn /\ x.conn \notin initialized
    BY <2>1, TableFacts
  <2>4. \A r \in Before(x) \cup After(x) : r.conn = x.conn
    BY <2>1, <2>2, ChangeFacts
  <2>5. d = x.conn
    BY <2>2, <2>3, <2>4 DEF RowsChange, RoutesOf
  <2>6. access[d] \in Fake
    BY <2>2, <2>5 DEF Allowed, StillFake
  <2>7. ASSUME d \in initialized PROVE RowsRecorded(d)
    <3>1. Succeeded(q, x) \in Record
      BY <2>1, <2>2, RecordsTyped
    <3>2. Len(audit') = Len(audit) + 1 /\ audit'[Len(audit')] = Succeeded(q, x)
      BY <2>2, <3>1, Appended
    <3>3. Table(x.conn) = routes
      BY <2>3, <2>5, <2>7
    <3>4. RoutesOf(d)' = (RoutesOf(d) \ Before(x)) \cup After(x)
      BY <2>2, <2>4, <2>5, <3>3 DEF RoutesOf
    <3>. QED
      BY <2>5, <3>2, <3>4 DEF RowsRecorded, Succeeded
  <2>. QED
    BY <2>6, <2>7
<1>4. ASSUME NEW c \in Conns, Delete(c) PROVE FALSE
  <2>1. d # c
    BY <1>4 DEF Delete, RowsChange
  <2>. QED
    BY <1>4, <2>1 DEF Delete, RowsChange, RoutesOf
<1>5. CASE UNCHANGED vars
  BY <1>1, <1>5 DEF vars
<1>6. ASSUME NEW q \in Requests, NEW op \in Ops, NEW x \in Input(op), CheckAccess(q, x)
      PROVE  FALSE
  BY <1>1, <1>6 DEF CheckAccess
<1>7. ASSUME NEW q \in Requests, CheckPath(q) \/ RecordFailure(q) PROVE FALSE
  BY <1>1, <1>7 DEF CheckPath, RecordFailure
<1>8. ASSUME NEW c \in Conns, NEW kind \in Fake \cup {"network"}, Edit(c, kind) PROVE FALSE
  BY <1>1, <1>8 DEF Edit
<1>9. ASSUME Crash PROVE FALSE
  BY <1>1, <1>9 DEF Crash
<1>. QED
  BY <1>2, <1>3, <1>4, <1>5, <1>6, <1>7, <1>8, <1>9 DEF Next, Serve

\* After its seeding every change of a device's table adds exactly the record of
\* that change, so no later refresh seeds it again.
THEOREM EveryChangeRecorded == Spec => ChangesAreRecorded
<1>1. TypeOK /\ [Next]_vars =>
          [\A c \in Conns :
              c \in initialized /\ c \in initialized' /\ RoutesOf(c)' # RoutesOf(c) =>
                  /\ Len(audit') = Len(audit) + 1
                  /\ LET last == audit'[Len(audit')]
                     IN  /\ last.conn = c
                         /\ RoutesOf(c)' = (RoutesOf(c) \ last.before) \cup last.after]_vars
  BY TableSteps DEF RowsChange, RowsRecorded
<1>. QED
  BY <1>1, TypeCorrect, PTL DEF Spec, ChangesAreRecorded

\* The table of a device that is no simulated one when the change commits stays as
\* it is: the transaction repeats the check made before it.
THEOREM OnlySimulatedDevices == Spec => OnlyFakeDevicesChange
<1>1. TypeOK /\ [Next]_vars =>
          [\A c \in Conns :
              c \in initialized' /\ RoutesOf(c)' # RoutesOf(c) => access[c] \in Fake]_vars
  BY TableSteps DEF RowsChange
<1>. QED
  BY <1>1, TypeCorrect, PTL DEF Spec, OnlyFakeDevicesChange

-----------------------------------------------------------------------------
\* What a caller is told.

Mine(q) == {k \in DOMAIN audit : audit[k].request = q}
Outcomes(q) == {audit[k].outcome : k \in Mine(q)}

\* A request that is not over has left no record yet; one that is over has left
\* the record of its answer, and only that one.
Told(q) ==
    /\ req[q].pc \notin {"done", "error"} => Mine(q) = {}
    /\ req[q].pc = "done" =>
          /\ Outcomes(q) \subseteq {"succeeded"}
          /\ req[q].op # "list" => \E k \in DOMAIN audit : Mine(q) = {k}
    /\ req[q].pc = "error" =>
          /\ Outcomes(q) \subseteq {"failed"}
          /\ req[q].op # "list" /\ Recordable(req[q]) => \E k \in DOMAIN audit : Mine(q) = {k}

Answered == \A q \in Requests \ unsure : Told(q)

LEMMA ToldMatches == Answered => AnswersMatchRecords
<1>. SUFFICES ASSUME Answered, NEW q \in Requests \ unsure
     PROVE  /\ \A k \in Mine(q) : audit[k].outcome = "succeeded" <=> req[q].pc = "done"
            /\ \/ req[q].pc = "done" /\ req[q].op # "list"
               \/ req[q].pc = "error" /\ req[q].op # "list" /\ Recordable(req[q])
               => Cardinality(Mine(q)) = 1
  BY DEF AnswersMatchRecords, Mine
<1>1. Told(q)
  BY DEF Answered
<1>2. \A k \in Mine(q) : audit[k].outcome \in Outcomes(q)
  BY DEF Outcomes
<1>3. \A k \in Mine(q) : audit[k].outcome = "succeeded" <=> req[q].pc = "done"
  BY <1>1, <1>2 DEF Told
<1>4. \A k \in DOMAIN audit : Cardinality({k}) = 1
  BY FS_Singleton
<1>. QED
  BY <1>1, <1>3, <1>4 DEF Told

\* One more record is a record of one request.
LEMMA MineAppended ==
    ASSUME TypeOK, NEW rec \in Record, audit' = Append(audit, rec), NEW q \in Requests
    PROVE  /\ rec.request # q => Mine(q)' = Mine(q) /\ Outcomes(q)' = Outcomes(q)
           /\ rec.request = q /\ Mine(q) = {} =>
                 /\ \E k \in DOMAIN audit' : Mine(q)' = {k}
                 /\ Outcomes(q)' = {rec.outcome}
<1>. DEFINE m == Len(audit) + 1
<1>1. /\ Len(audit) \in Nat /\ DOMAIN audit = 1 .. Len(audit)
      /\ DOMAIN audit' = 1 .. m
      /\ audit'[m] = rec
      /\ \A k \in DOMAIN audit : audit'[k] = audit[k]
      /\ \A k \in DOMAIN audit' : k \in DOMAIN audit \/ k = m
  BY Appended
<1>2. m \in DOMAIN audit' /\ DOMAIN audit \subseteq DOMAIN audit'
  BY <1>1
<1>3. ASSUME rec.request # q PROVE Mine(q)' = Mine(q) /\ Outcomes(q)' = Outcomes(q)
  <2>1. \A k \in DOMAIN audit' : audit'[k].request = q <=> k \in Mine(q)
    BY <1>1, <1>2, <1>3 DEF Mine
  <2>2. Mine(q)' = Mine(q)
    BY <1>2, <2>1 DEF Mine
  <2>. QED
    BY <1>1, <2>2 DEF Outcomes, Mine
<1>4. ASSUME rec.request = q, Mine(q) = {}
      PROVE  (\E k \in DOMAIN audit' : Mine(q)' = {k}) /\ Outcomes(q)' = {rec.outcome}
  <2>1. \A k \in DOMAIN audit' : audit'[k].request = q <=> k = m
    BY <1>1, <1>4 DEF Mine
  <2>2. {k \in DOMAIN audit' : audit'[k].request = q} = {m}
    BY <1>2, <2>1
  <2>. QED
    BY <1>1, <1>2, <2>2 DEF Outcomes, Mine
<1>. QED
  BY <1>3, <1>4

\* A step of one request does not concern the others.
LEMMA OthersTold ==
    ASSUME TypeOK, Answered, NEW q \in Requests,
           \A p \in Requests \ {q} : req'[p] = req[p],
           unsure \subseteq unsure',
           \/ audit' = audit
           \/ \E rec \in Record : rec.request = q /\ audit' = Append(audit, rec),
           q \in unsure' \/ Told(q)'
    PROVE  Answered'
<1>. SUFFICES ASSUME NEW p \in Requests, p \notin unsure', p # q PROVE Told(p)'
  BY DEF Answered
<1>1. Told(p) /\ req'[p] = req[p]
  BY DEF Answered
<1>2. CASE audit' = audit
  BY <1>1, <1>2 DEF Told, Mine, Outcomes, Recordable
<1>3. ASSUME NEW rec \in Record, rec.request = q, audit' = Append(audit, rec)
      PROVE  Told(p)'
  <2>1. Mine(p)' = Mine(p) /\ Outcomes(p)' = Outcomes(p)
    BY <1>3, MineAppended
  <2>2. DOMAIN audit \subseteq DOMAIN audit'
    BY <1>3, Appended
  <2>. QED
    BY <1>1, <2>1, <2>2 DEF Told, Recordable
<1>. QED
  BY <1>2, <1>3

LEMMA AnsweredAtFirst == Init => Answered
BY DEF Init, Answered, Told, Mine, NewRequest

LEMMA AnsweredStays == TypeOK /\ Answered /\ [Next]_vars => Answered'
<1>. SUFFICES ASSUME TypeOK, Answered, [Next]_vars PROVE Answered'
  OBVIOUS
<1>1. ASSUME NEW q \in Requests, NEW op \in Ops, NEW x \in Input(op), CheckAccess(q, x)
      PROVE  Answered'
  <2>1. audit' = audit /\ unsure' = unsure /\ req[q].pc = "new"
    BY <1>1 DEF CheckAccess
  <2>2. PICK label \in {"path", Refuse(x.op)} :
            req' = [req EXCEPT ![q] = [x EXCEPT !.pc = label]]
    BY <1>1 DEF CheckAccess
  <2>3. x.op = op /\ [x EXCEPT !.pc = label].pc = label /\ [x EXCEPT !.pc = label].op = op
    BY DEF Input
  <2>4. \A p \in Requests \ {q} : req'[p] = req[p]
    BY <2>2 DEF TypeOK
  <2>5. req'[q].pc = label /\ req'[q].op = op
    BY <2>2, <2>3 DEF TypeOK
  <2>6. q \in unsure' \/ Told(q)'
    BY <2>1, <2>3, <2>5 DEF Answered, Told, Mine, Outcomes, Refuse
  <2>. QED
    BY <2>1, <2>4, <2>6, OthersTold
<1>2. ASSUME NEW q \in Requests, CheckPath(q) PROVE Answered'
  <2>1. audit' = audit /\ unsure' = unsure /\ req[q].pc = "path"
    BY <1>2 DEF CheckPath
  <2>2. PICK label \in {"apply", Refuse(req[q].op)} : Goto(q, label)
    BY <1>2 DEF CheckPath
  <2>3. /\ \A p \in Requests \ {q} : req'[p] = req[p]
        /\ req'[q].pc = label /\ req'[q].op = req[q].op
    BY <2>2 DEF TypeOK, Request, Goto
  <2>4. q \in unsure' \/ Told(q)'
    BY <2>1, <2>3 DEF Answered, Told, Mine, Outcomes, Refuse
  <2>. QED
    BY <2>1, <2>3, <2>4, OthersTold
<1>3. ASSUME NEW q \in Requests, ListRoutes(q) PROVE Answered'
  <2>1. audit' = audit /\ unsure' = unsure /\ req[q].pc = "apply" /\ req[q].op = "list"
    BY <1>3 DEF ListRoutes
  <2>2. PICK label \in {"done", "error"} : Goto(q, label)
    BY <1>3 DEF ListRoutes
  <2>3. /\ \A p \in Requests \ {q} : req'[p] = req[p]
        /\ req'[q].pc = label /\ req'[q].op = "list"
    BY <2>1, <2>2 DEF TypeOK, Request, Goto
  <2>4. q \in unsure' \/ Told(q)'
    BY <2>1, <2>3 DEF Answered, Told, Mine, Outcomes
  <2>. QED
    BY <2>1, <2>3, <2>4, OthersTold
<1>4. ASSUME NEW q \in Requests, Change(q) PROVE Answered'
  <2>1. req[q].pc = "apply" /\ req[q] \in Request /\ req[q].op # "list"
    BY <1>4 DEF TypeOK, Change
  <2>2. CASE /\ audit' = audit /\ unsure' = unsure /\ Goto(q, "refused")
    <3>1. /\ \A p \in Requests \ {q} : req'[p] = req[p]
          /\ req'[q].pc = "refused"
      BY <2>2 DEF TypeOK, Request, Goto
    <3>2. q \in unsure' \/ Told(q)'
      BY <2>1, <2>2, <3>1 DEF Answered, Told, Mine
    <3>. QED
      BY <2>2, <3>1, <3>2, OthersTold
  <2>3. CASE /\ Allowed(req[q]) /\ audit' = Append(audit, Succeeded(q, req[q]))
             /\ unsure \subseteq unsure'
             /\ \/ q \in unsure' /\ Goto(q, "refused")
                \/ unsure' = unsure /\ Goto(q, "done")
    <3>1. Succeeded(q, req[q]) \in Record
      BY <2>1, <2>3, RecordsTyped
    <3>2. Succeeded(q, req[q]).request = q /\ Succeeded(q, req[q]).outcome = "succeeded"
      BY DEF Succeeded
    <3>3. \A p \in Requests \ {q} : req'[p] = req[p]
      BY <2>3 DEF TypeOK, Goto
    <3>4. q \in unsure' \/ Told(q)'
      <4>1. CASE unsure' = unsure /\ Goto(q, "done") /\ q \notin unsure
        <5>1. req'[q].pc = "done" /\ Mine(q) = {}
          BY <2>1, <4>1 DEF TypeOK, Request, Goto, Answered, Told
        <5>2. (\E k \in DOMAIN audit' : Mine(q)' = {k}) /\ Outcomes(q)' = {"succeeded"}
          BY <2>3, <3>1, <3>2, <5>1, MineAppended
        <5>. QED
          BY <5>1, <5>2 DEF Told
      <4>. QED
        BY <2>3, <4>1
    <3>. QED
      BY <2>3, <3>1, <3>2, <3>3, <3>4, OthersTold
  <2>. QED
    BY <1>4, <2>2, <2>3 DEF Change
<1>5. ASSUME NEW q \in Requests, RecordFailure(q) PROVE Answered'
  <2>1. req[q].pc = "refused" /\ Goto(q, "error")
    BY <1>5 DEF RecordFailure
  <2>2. /\ \A p \in Requests \ {q} : req'[p] = req[p]
        /\ req'[q].pc = "error" /\ req'[q].conn = req[q].conn
    BY <2>1 DEF TypeOK, Request, Goto
  <2>3. /\ Failed(q, req[q]) \in Record
        /\ Failed(q, req[q]).request = q /\ Failed(q, req[q]).outcome = "failed"
    BY DEF TypeOK, Request, Failed, Record
  <2>4. CASE /\ audit' = audit
             /\ unsure \subseteq unsure'
             /\ q \in unsure' \/ ~Recordable(req[q])
    <3>1. q \in unsure' \/ Told(q)'
      BY <2>1, <2>2, <2>4 DEF Answered, Told, Mine, Outcomes, Recordable
    <3>. QED
      BY <2>2, <2>4, <3>1, OthersTold
  <2>5. CASE audit' = Append(audit, Failed(q, req[q])) /\ unsure \subseteq unsure'
    <3>1. q \in unsure' \/ Told(q)'
      <4>1. CASE q \notin unsure'
        <5>1. Mine(q) = {}
          BY <2>1, <2>5, <4>1 DEF Answered, Told
        <5>2. (\E k \in DOMAIN audit' : Mine(q)' = {k}) /\ Outcomes(q)' = {"failed"}
          BY <2>3, <2>5, <5>1, MineAppended
        <5>. QED
          BY <2>2, <5>2 DEF Told
      <4>. QED
        BY <4>1
    <3>. QED
      BY <2>2, <2>3, <2>5, <3>1, OthersTold
  <2>. QED
    BY <1>5, <2>4, <2>5 DEF RecordFailure
<1>6. ASSUME NEW c \in Conns, Delete(c) \/ \E kind \in Fake \cup {"network"} : Edit(c, kind)
      PROVE  Answered'
  BY <1>6 DEF Delete, Edit, Answered, Told, Mine, Outcomes, Recordable
<1>7. ASSUME Crash PROVE Answered'
  <2>1. audit' = audit /\ unsure' = unsure
    BY <1>7 DEF Crash
  <2>2. \A q \in Requests :
            \/ req'[q] = req[q]
            \/ req[q].pc \notin {"done", "error"} /\ req'[q].pc = "dropped"
    BY <1>7 DEF Crash, TypeOK, Request
  <2>. QED
    BY <2>1, <2>2 DEF Answered, Told, Mine, Outcomes, Recordable
<1>8. CASE UNCHANGED vars
  BY <1>8 DEF vars, Answered, Told, Mine, Outcomes, Recordable
<1>. QED
  BY <1>1, <1>2, <1>3, <1>4, <1>5, <1>6, <1>7, <1>8 DEF Next, Serve

\* What a caller is told agrees with the records, except where the database lost a
\* record or an acknowledgement.
THEOREM AnswersAgree == Spec => []AnswersMatchRecords
BY ToldMatches, AnsweredAtFirst, AnsweredStays, TypeCorrect, PTL DEF Spec
=============================================================================
