------------------------ MODULE ConnectionTestsProofs ------------------------
(***************************************************************************)
(* Proofs about ConnectionTests, for every finite set of tests, whatever   *)
(* they may test, every number of slots, of addresses and of failures.     *)
(***************************************************************************)
EXTENDS ConnectionTests, FiniteSetTheorems, TLAPS

\* TypeOK without the upper bound of the free slots, which needs counting.
Typed ==
    /\ pc \in [Tests -> Labels]
    /\ path \in [Tests -> {Path(p) : p \in Profile} \cup {<<>>}]
    /\ step \in [Tests -> 1 .. 5]
    /\ address \in [Tests -> 1 .. MaxAddresses]
    /\ last \in [Tests -> 0 .. MaxAddresses]
    /\ success \in [Tests -> BOOLEAN]
    /\ result \in [Tests -> {"none", "complete", "timeout", "failed"}]
    /\ past \in [Tests -> BOOLEAN]
    /\ expired \in [Tests -> BOOLEAN]
    /\ closed \in [Tests -> BOOLEAN]
    /\ owned \in [Tests -> SUBSET Resource]
    /\ timer \in [Tests -> {"none", "armed", "fired", "closing", "ended"}]
    /\ toClose \in [Tests -> [Closers -> SUBSET Resource]]
    /\ open \in [Tests -> SUBSET Resource]
    /\ resolver \in [Tests -> {"none", "running", "answered", "ended"}]
    /\ slots \in Nat
    /\ late \in [Tests -> BOOLEAN]
    /\ faults \in 0 .. MaxFaults

\* A running test works on a resource its path has.
OnPath ==
    \A t \in Tests :
        /\ pc[t] = "new" => step[t] = 1
        /\ pc[t] \notin {"new", "done"} => step[t] <= Len(path[t])

TypeInv == Typed /\ OnPath

\* A path has one to five resources (open_stream, run_connection_test).
LEMMA PathLength ==
    ASSUME NEW p \in Profile
    PROVE  Len(Path(p)) \in 1 .. 5
<1>. DEFINE K == {"socket", "client", "channel"}
            a == IF p.connector \in {"ssh_tunnel", "ssh_shell"}
                 THEN <<"client", "channel">> ELSE <<>>
            b == IF p.protocol # "telnet" THEN <<"client">> ELSE <<>>
            c == IF p.protocol = "netconf" THEN <<"channel">> ELSE <<>>
<1>1. /\ <<>> \in Seq(K) /\ Len(<<>>) = 0
      /\ <<"socket">> \in Seq(K) /\ Len(<<"socket">>) = 1
      /\ <<"client">> \in Seq(K) /\ Len(<<"client">>) = 1
      /\ <<"channel">> \in Seq(K) /\ Len(<<"channel">>) = 1
      /\ <<"client", "channel">> \in Seq(K) /\ Len(<<"client", "channel">>) = 2
  OBVIOUS
<1>2. /\ a = <<>> \/ a = <<"client", "channel">>
      /\ b = <<>> \/ b = <<"client">>
      /\ c = <<>> \/ c = <<"channel">>
  OBVIOUS
<1>3. Path(p) = ((<<"socket">> \o a) \o b) \o c
  BY DEF Path
<1>. HIDE DEF K, a, b, c
<1>4. /\ a \in Seq(K) /\ Len(a) \in 0 .. 2
      /\ b \in Seq(K) /\ Len(b) \in 0 .. 1
      /\ c \in Seq(K) /\ Len(c) \in 0 .. 1
  <2>1. a \in Seq(K) /\ (Len(a) = 0 \/ Len(a) = 2)
    BY <1>1, <1>2
  <2>2. b \in Seq(K) /\ (Len(b) = 0 \/ Len(b) = 1)
    BY <1>1, <1>2
  <2>3. c \in Seq(K) /\ (Len(c) = 0 \/ Len(c) = 1)
    BY <1>1, <1>2
  <2>. QED
    BY <2>1, <2>2, <2>3
<1>. DEFINE ab == <<"socket">> \o a
            abc == ab \o b
<1>5. ab \in Seq(K) /\ Len(ab) = 1 + Len(a)
  BY <1>1, <1>4
<1>. HIDE DEF ab
<1>6. abc \in Seq(K) /\ Len(abc) = Len(ab) + Len(b)
  <2>1. ab \in Seq(K) /\ b \in Seq(K)
    BY <1>4, <1>5
  <2>. QED
    BY <2>1
<1>7. Path(p) = abc \o c
  BY <1>3 DEF ab
<1>. HIDE DEF abc
<1>8. Len(Path(p)) = Len(abc) + Len(c)
  BY <1>4, <1>6, <1>7
<1>9. \A i \in 0 .. 2, j \in 0 .. 1, k \in 0 .. 1 : 1 + i + j + k \in 1 .. 5
  OBVIOUS
<1>10. Len(Path(p)) = 1 + Len(a) + Len(b) + Len(c)
  BY <1>4, <1>5, <1>6, <1>8
<1>. QED
  BY <1>4, <1>9, <1>10

\* Every path a test may have is that short.
LEMMA PathsAreShort ==
    ASSUME Typed, NEW t \in Tests
    PROVE  Len(path[t]) \in 0 .. 5
<1>1. CASE path[t] = <<>>
  BY <1>1
<1>2. CASE path[t] # <<>>
  <2>1. PICK p \in Profile : path[t] = Path(p)
    BY <1>2 DEF Typed
  <2>2. Len(Path(p)) \in 1 .. 5
    BY PathLength
  <2>. QED
    BY <2>1, <2>2
<1>. QED
  BY <1>1, <1>2

-----------------------------------------------------------------------------
\* Type correctness.

\* A step of a test thread that waits for nobody keeps the types.
LEMMA OwnTyped ==
    ASSUME TypeInv, NEW t \in Tests, OwnStep(t) \/ Spawn(t, FALSE)
    PROVE  TypeInv'
<1>. USE DEF TypeInv, Typed, OnPath, Labels, Closers, Goto, Leave, control, deadline,
             outside
<1>0. /\ MaxAddresses \in Nat \ {0}
      /\ MaxFaults \in Nat
  BY TestsAssumption DEF TestsAssumption
<1>1. CASE Acquire(t)
  BY <1>0, <1>1 DEF Acquire
<1>2. CASE Await(t)
  <2>1. last' \in [Tests -> 0 .. MaxAddresses]
    BY <1>2 DEF Await
  <2>2. pc' \in [Tests -> Labels]
    BY <1>2 DEF Await
  <2>3. OnPath'
    BY <1>2 DEF Await
  <2>. QED
    BY <1>2, <2>1, <2>2, <2>3 DEF Await
<1>3. CASE GiveUp(t)
  BY <1>0, <1>3 DEF GiveUp
<1>4. ASSUME NEW starts \in BOOLEAN, Spawn(t, starts) PROVE TypeInv'
  <2>1. faults' \in 0 .. MaxFaults
    BY <1>0, <1>4 DEF Spawn
  <2>2. /\ pc' \in [Tests -> Labels]
        /\ resolver' \in [Tests -> {"none", "running", "answered", "ended"}]
    BY <1>4 DEF Spawn
  <2>3. OnPath'
    BY <1>4 DEF Spawn
  <2>. QED
    BY <1>4, <2>1, <2>2, <2>3 DEF Spawn
<1>5. CASE Own(t)
  <2>1. Held(t) \in Resource
    BY <1>0 DEF Held, Resource
  <2>2. owned' \in [Tests -> SUBSET Resource]
    <3>1. owned[t] \cup {Held(t)} \in SUBSET Resource
      BY <2>1
    <3>2. owned' = owned \/ owned' = [owned EXCEPT ![t] = @ \cup {Held(t)}]
      BY <1>5 DEF Own
    <3>3. owned \in [Tests -> SUBSET Resource]
      OBVIOUS
    <3>. HIDE DEF TypeInv, Typed, OnPath
    <3>4. CASE owned' = owned
      BY <3>3, <3>4
    <3>5. CASE owned' = [owned EXCEPT ![t] = @ \cup {Held(t)}]
      BY <3>1, <3>3, <3>5
    <3>. QED
      BY <3>2, <3>4, <3>5
  <2>. QED
    BY <1>0, <1>5, <2>2, ZenonT(60) DEF Own
<1>6. CASE Verdict(t)
  <2>1. Overdue(t) \in BOOLEAN
    BY DEF Overdue
  <2>2. success' \in [Tests -> BOOLEAN]
    BY <1>6, <2>1 DEF Verdict
  <2>. QED
    BY <1>0, <1>6, <2>2 DEF Verdict
<1>7. CASE Cancel(t)
  BY <1>0, <1>7 DEF Cancel
<1>8. CASE ExitClose(t)
  BY <1>0, <1>8 DEF ExitClose, TakeOver
<1>9. CASE Return(t)
  BY <1>0, <1>9 DEF Return
<1>. QED
  BY <1>1, <1>2, <1>3, <1>4, <1>5, <1>6, <1>7, <1>8, <1>9 DEF OwnStep

\* So does what a test says to its peer.
LEMMA PeerTyped ==
    ASSUME TypeInv, NEW t \in Tests, PeerStep(t)
    PROVE  TypeInv'
<1>. USE DEF TypeInv, Typed, OnPath, Labels, Goto, Leave, control, deadline, outside
<1>0. /\ MaxAddresses \in Nat \ {0}
      /\ MaxFaults \in Nat
      /\ Len(path[t]) \in 0 .. 5
      /\ Held(t) \in Resource
  BY TestsAssumption, PathsAreShort DEF TestsAssumption, Held, Resource
<1>1. CASE Make(t)
  BY <1>0, <1>1 DEF Make
<1>2. CASE MakeFails(t)
  BY <1>0, <1>2 DEF MakeFails
<1>3. CASE Drop(t)
  BY <1>0, <1>3 DEF Drop
<1>4. CASE ExchangeSucceeds(t)
  <2>0. step[t] # Len(path[t]) => step[t] + 1 \in 1 .. 5 /\ step[t] + 1 <= Len(path[t])
    <3>1. step[t] \in 1 .. 5 /\ step[t] <= Len(path[t])
      BY <1>4 DEF ExchangeSucceeds
    <3>2. \A m \in 1 .. 5, n \in 0 .. 5 :
             m <= n /\ m # n => m + 1 \in 1 .. 5 /\ m + 1 <= n
      OBVIOUS
    <3>. HIDE DEF TypeInv, Typed, OnPath
    <3>. QED
      BY <1>0, <3>1, <3>2
  <2>1. /\ step' \in [Tests -> 1 .. 5]
        /\ address' \in [Tests -> 1 .. MaxAddresses]
    <3>1. \/ step' = step /\ address' = address
          \/ /\ step' = [step EXCEPT ![t] = @ + 1] /\ step[t] # Len(path[t])
             /\ address' = [address EXCEPT ![t] = 1]
      BY <1>4 DEF ExchangeSucceeds
    <3>2. /\ step \in [Tests -> 1 .. 5] /\ address \in [Tests -> 1 .. MaxAddresses]
          /\ 1 \in 1 .. MaxAddresses
      BY <1>0
    <3>. HIDE DEF TypeInv, Typed, OnPath
    <3>. QED
      BY <2>0, <3>1, <3>2
  <2>2. /\ pc' \in [Tests -> Labels]
        /\ late' \in [Tests -> BOOLEAN]
    BY <1>4 DEF ExchangeSucceeds
  <2>3. OnPath'
    BY <1>4, <2>0 DEF ExchangeSucceeds
  <2>. QED
    BY <1>4, <2>1, <2>2, <2>3 DEF ExchangeSucceeds
<1>5. CASE ConnectFails(t)
  <2>1. address' \in [Tests -> 1 .. MaxAddresses]
    BY <1>0, <1>5 DEF ConnectFails
  <2>2. /\ pc' \in [Tests -> Labels]
        /\ open' \in [Tests -> SUBSET Resource]
    BY <1>5 DEF ConnectFails
  <2>3. OnPath'
    BY <1>5 DEF ConnectFails
  <2>. QED
    BY <1>5, <2>1, <2>2, <2>3 DEF ConnectFails
<1>6. CASE ExchangeFails(t)
  BY <1>0, <1>6 DEF ExchangeFails
<1>. QED
  BY <1>1, <1>2, <1>3, <1>4, <1>5, <1>6 DEF PeerStep, Exchange

\* And the beginning of a test, its timer, the clock and the lookup.
LEMMA OtherTyped ==
    ASSUME TypeInv, NEW t \in Tests,
           \/ \E p \in Profiles[t], starts \in BOOLEAN : Begin(t, p, starts)
           \/ TimerStep(t)
           \/ \E c \in Closers : CloseOne(t, c)
           \/ Tick(t)
           \/ ResolverAnswers(t)
           \/ ResolverReleases(t)
    PROVE  TypeInv'
<1>. USE DEF TypeInv, Typed, OnPath, Labels, Closers, Goto, control, deadline, outside
<1>0. /\ MaxAddresses \in Nat \ {0}
      /\ MaxFaults \in Nat
      /\ Profiles[t] \subseteq Profile
  BY TestsAssumption DEF TestsAssumption
<1>1. ASSUME NEW p \in Profiles[t], NEW starts \in BOOLEAN, Begin(t, p, starts)
      PROVE  TypeInv'
  <2>1. /\ Path(p) \in {Path(q) : q \in Profile}
        /\ Len(Path(p)) \in 1 .. 5
    BY <1>0, PathLength
  <2>2. path' \in [Tests -> {Path(q) : q \in Profile} \cup {<<>>}]
    BY <1>1, <2>1 DEF Begin
  <2>3. faults' \in 0 .. MaxFaults
    <3>1. (starts \/ faults < MaxFaults) /\ faults' = IF starts THEN faults ELSE faults + 1
      BY <1>1 DEF Begin
    <3>. QED
      BY <1>0, <3>1
  <2>4. pc' \in [Tests -> Labels]
    <3>1. \E label \in {"acquire", "make", "done"} : pc' = [pc EXCEPT ![t] = label]
      BY <1>1 DEF Begin
    <3>. QED
      BY <3>1
  <2>5. /\ timer' \in [Tests -> {"none", "armed", "fired", "closing", "ended"}]
        /\ result' \in [Tests -> {"none", "complete", "timeout", "failed"}]
    BY <1>1 DEF Begin
  <2>6. OnPath'
    <3>1. ASSUME NEW u \in Tests, u # t
          PROVE  /\ pc'[u] = pc[u] /\ step'[u] = step[u] /\ path'[u] = path[u]
      BY <1>1, <3>1 DEF Begin
    <3>2. pc'[t] # "new"
      BY <1>1 DEF Begin
    <3>3. /\ step'[t] = 1
          /\ path'[t] = Path(p)
      BY <1>1 DEF Begin
    <3>4. ASSUME NEW u \in Tests
          PROVE  pc'[u] \notin {"new", "done"} => step'[u] <= Len(path'[u])
      <4>1. CASE u = t
        <5>1. \A n \in 1 .. 5 : 1 <= n
          OBVIOUS
        <5>. QED
          BY <2>1, <3>3, <4>1, <5>1
      <4>2. CASE u # t
        BY <3>1, <4>2
      <4>. QED
        BY <4>1, <4>2
    <3>5. \A u \in Tests : pc'[u] = "new" => step'[u] = 1
      BY <3>1, <3>2
    <3>. QED
      BY <3>4, <3>5
  <2>. QED
    BY <1>1, <2>2, <2>3, <2>4, <2>5, <2>6 DEF Begin
<1>2. CASE TimerFires(t)
  BY <1>0, <1>2 DEF TimerFires
<1>3. CASE TimerCloses(t)
  BY <1>0, <1>3 DEF TimerCloses, TakeOver
<1>4. CASE TimerEnds(t)
  BY <1>0, <1>4 DEF TimerEnds
<1>5. ASSUME NEW c \in Closers, CloseOne(t, c) PROVE TypeInv'
  BY <1>0, <1>5 DEF CloseOne
<1>6. CASE Tick(t)
  BY <1>0, <1>6 DEF Tick
<1>7. CASE ResolverAnswers(t)
  BY <1>0, <1>7 DEF ResolverAnswers
<1>8. CASE ResolverReleases(t)
  BY <1>0, <1>8 DEF ResolverReleases
<1>. QED
  BY <1>1, <1>2, <1>3, <1>4, <1>5, <1>6, <1>7, <1>8 DEF TimerStep

\* Initially everything has its type.
LEMMA InitTyped == Init => TypeInv
<1>1. /\ MaxAddresses \in Nat \ {0}
      /\ MaxFaults \in Nat
      /\ Slots \in Nat
  BY TestsAssumption DEF TestsAssumption
<1>2. 1 \in 1 .. MaxAddresses /\ 1 \in 0 .. MaxAddresses /\ 0 \in 0 .. MaxFaults
  BY <1>1
<1>3. Init => Typed
  BY <1>1, <1>2 DEF Init, Typed, Labels, Closers
<1>4. Init => OnPath
  BY DEF Init, OnPath
<1>. QED
  BY <1>3, <1>4 DEF TypeInv

\* Every step keeps the types.
LEMMA NextTyped == TypeInv /\ [Next]_vars => TypeInv'
<1>. SUFFICES ASSUME TypeInv, [Next]_vars PROVE TypeInv'
  OBVIOUS
<1>1. CASE UNCHANGED vars
  BY <1>1 DEF vars, TypeInv, Typed, OnPath
<1>2. CASE Next
  <2>1. PICK t \in Tests :
            \/ \E p \in Profiles[t], starts \in BOOLEAN : Begin(t, p, starts)
            \/ OwnStep(t)
            \/ Spawn(t, FALSE)
            \/ PeerStep(t)
            \/ TimerStep(t)
            \/ \E c \in Closers : CloseOne(t, c)
            \/ Tick(t)
            \/ ResolverAnswers(t)
            \/ ResolverReleases(t)
    BY <1>2 DEF Next
  <2>. QED
    BY <2>1, OwnTyped, PeerTyped, OtherTyped
<1>. QED
  BY <1>1, <1>2

-----------------------------------------------------------------------------
\* Slots.

\* Callers and lookup threads that hold a slot.
Holders == {t \in Tests : pc[t] = "spawn" \/ resolver[t] \in {"running", "answered"}}

\* Free slots and their holders never exceed the slots; a slot has one holder.
SlotInv ==
    /\ slots + Cardinality(Holders) <= Slots
    /\ \A t \in Tests : pc[t] \in {"new", "acquire", "spawn"} => resolver[t] = "none"

\* The holders are finitely many.
LEMMA HoldersFinite ==
    /\ IsFiniteSet(Holders)
    /\ Cardinality(Holders) \in Nat
<1>1. Holders \in SUBSET Tests
  BY DEF Holders
<1>2. IsFiniteSet(Tests)
  BY TestsAssumption DEF TestsAssumption
<1>3. IsFiniteSet(Holders)
  BY <1>1, <1>2, FS_Subset
<1>. QED
  BY <1>3, FS_CardinalityType

\* A step that takes and returns no slot, and brings no test back to its beginning.
QuietSlots ==
    /\ slots' = slots
    /\ \A t \in Tests :
        /\ pc'[t] = "spawn" => pc[t] = "spawn"
        /\ pc'[t] \in {"new", "acquire", "spawn"} =>
               pc[t] \in {"new", "acquire", "spawn"} /\ resolver'[t] = resolver[t]
        /\ resolver'[t] \in {"running", "answered"} =>
               pc[t] = "spawn" \/ resolver[t] \in {"running", "answered"}

\* Such a step keeps the slots.
LEMMA QuietKeepsSlots ==
    ASSUME TypeInv, SlotInv, QuietSlots
    PROVE  SlotInv'
<1>1. Holders' \in SUBSET Holders
  BY DEF QuietSlots, Holders
<1>2. Cardinality(Holders') <= Cardinality(Holders) /\ Cardinality(Holders') \in Nat
  BY <1>1, HoldersFinite, FS_Subset, FS_CardinalityType
<1>3. slots' + Cardinality(Holders') <= Slots
  <2>1. slots \in Nat /\ Slots \in Nat
    BY TestsAssumption DEF TestsAssumption, TypeInv, Typed
  <2>2. slots' = slots /\ slots + Cardinality(Holders) <= Slots
    BY DEF QuietSlots, SlotInv
  <2>. QED
    BY <1>2, <2>1, <2>2, HoldersFinite
<1>4. \A t \in Tests : pc'[t] \in {"new", "acquire", "spawn"} => resolver'[t] = "none"
  BY DEF QuietSlots, SlotInv
<1>. QED
  BY <1>3, <1>4 DEF SlotInv

\* Taking a slot (_DNS_SLOTS.acquire) adds a holder.
LEMMA AcquireKeepsSlots ==
    ASSUME TypeInv, SlotInv, NEW t \in Tests, Acquire(t)
    PROVE  SlotInv'
<1>. USE DEF Acquire, Goto, TypeInv, Typed
<1>1. Holders' = Holders \cup {t}
  BY DEF Holders
<1>2. Cardinality(Holders') <= Cardinality(Holders) + 1 /\ Cardinality(Holders') \in Nat
  <2>. HIDE DEF Acquire, Goto, TypeInv, Typed
  <2>1. IsFiniteSet(Holders \cup {t})
        /\ Cardinality(Holders \cup {t}) =
              IF t \in Holders THEN Cardinality(Holders) ELSE Cardinality(Holders) + 1
    BY HoldersFinite, FS_AddElement
  <2>. QED
    BY <1>1, <2>1, HoldersFinite
<1>3. /\ slots' = slots - 1 /\ slots \in Nat /\ Slots \in Nat
      /\ slots + Cardinality(Holders) <= Slots
  BY TestsAssumption DEF TestsAssumption, SlotInv
<1>4. slots' + Cardinality(Holders') <= Slots
  <2>. HIDE DEF Acquire, Goto, TypeInv, Typed
  <2>. QED
    BY <1>2, <1>3, HoldersFinite
<1>5. \A u \in Tests : pc'[u] \in {"new", "acquire", "spawn"} => resolver'[u] = "none"
  BY DEF SlotInv
<1>. QED
  BY <1>4, <1>5 DEF SlotInv

\* Returning it (_DNS_SLOTS.release) removes one.
LEMMA ReleaseKeepsSlots ==
    ASSUME TypeInv, SlotInv, NEW t \in Tests, ResolverReleases(t)
    PROVE  SlotInv'
<1>. USE DEF ResolverReleases, control, TypeInv, Typed
<1>1. Holders' = Holders \ {t} /\ t \in Holders
  BY DEF Holders, SlotInv
<1>2. Cardinality(Holders') = Cardinality(Holders) - 1
  BY <1>1, HoldersFinite, FS_RemoveElement
<1>3. /\ slots' = slots + 1 /\ slots \in Nat /\ Slots \in Nat
      /\ slots + Cardinality(Holders) <= Slots
  BY TestsAssumption DEF TestsAssumption, SlotInv
<1>4. slots' + Cardinality(Holders') <= Slots
  <2>. HIDE DEF ResolverReleases, control, TypeInv, Typed
  <2>. QED
    BY <1>2, <1>3, HoldersFinite
<1>5. \A u \in Tests : pc'[u] \in {"new", "acquire", "spawn"} => resolver'[u] = "none"
  BY DEF SlotInv
<1>. QED
  BY <1>4, <1>5 DEF SlotInv

\* Every step keeps the slots.
LEMMA NextSlots == TypeInv /\ SlotInv /\ [Next]_vars => SlotInv'
<1>. SUFFICES ASSUME TypeInv, SlotInv, [Next]_vars PROVE SlotInv'
  OBVIOUS
<1>1. CASE UNCHANGED vars
  BY <1>1, QuietKeepsSlots DEF vars, QuietSlots
<1>2. ASSUME NEW t \in Tests,
             NEW p \in Profiles[t], NEW starts \in BOOLEAN, Begin(t, p, starts)
      PROVE  SlotInv'
  <2>1. /\ slots' = slots /\ resolver' = resolver /\ pc[t] = "new"
        /\ \E label \in {"acquire", "make", "done"} : pc' = [pc EXCEPT ![t] = label]
    BY <1>2 DEF Begin, Goto, outside
  <2>2. QuietSlots
    BY <2>1 DEF QuietSlots, TypeInv, Typed
  <2>. QED
    BY <2>2, QuietKeepsSlots
<1>3. ASSUME NEW t \in Tests, OwnStep(t) \/ Spawn(t, FALSE) PROVE SlotInv'
  <2>. USE DEF TypeInv, Typed, Goto, Leave, control, deadline, outside
  <2>1. CASE Acquire(t)
    BY <2>1, AcquireKeepsSlots
  <2>2. CASE Spawn(t, TRUE) \/ Spawn(t, FALSE)
    <3>1. QuietSlots
      BY <2>2 DEF Spawn, QuietSlots
    <3>. QED
      BY <3>1, QuietKeepsSlots
  <2>3. CASE \/ Await(t) \/ GiveUp(t) \/ Own(t) \/ Verdict(t)
             \/ Cancel(t) \/ ExitClose(t) \/ Return(t)
    <3>1. /\ slots' = slots /\ resolver' = resolver
          /\ \E label \in Labels \ {"new", "acquire", "spawn"} :
                pc' = [pc EXCEPT ![t] = label]
      BY <2>3 DEF Await, GiveUp, Own, Verdict, Cancel, ExitClose, Return, Labels
    <3>2. QuietSlots
      BY <3>1 DEF QuietSlots
    <3>. QED
      BY <3>2, QuietKeepsSlots
  <2>. QED
    BY <1>3, <2>1, <2>2, <2>3 DEF OwnStep
<1>4. ASSUME NEW t \in Tests, PeerStep(t) PROVE SlotInv'
  <2>1. /\ slots' = slots /\ resolver' = resolver
        /\ \E label \in Labels \ {"new", "acquire", "spawn"} :
              pc' = [pc EXCEPT ![t] = label]
    BY <1>4 DEF PeerStep, Exchange, Make, MakeFails, Drop, ExchangeSucceeds,
                ConnectFails, ExchangeFails, Goto, Leave, outside, Labels
  <2>2. QuietSlots
    BY <2>1 DEF QuietSlots, TypeInv, Typed
  <2>. QED
    BY <2>2, QuietKeepsSlots
<1>5. ASSUME NEW t \in Tests,
             \/ TimerStep(t)
             \/ \E c \in Closers : CloseOne(t, c)
             \/ Tick(t)
             \/ ResolverAnswers(t)
      PROVE  SlotInv'
  <2>1. /\ slots' = slots /\ pc' = pc
        /\ \A u \in Tests : \/ resolver'[u] = resolver[u]
                            \/ resolver[u] = "running" /\ pc[u] = pc[t] /\ u = t
    BY <1>5 DEF TimerStep, TimerFires, TimerCloses, TimerEnds, CloseOne, Tick,
                ResolverAnswers, control, outside, TypeInv, Typed
  <2>2. QuietSlots
    BY <2>1 DEF QuietSlots, SlotInv
  <2>. QED
    BY <2>2, QuietKeepsSlots
<1>. QED
  BY <1>1, <1>2, <1>3, <1>4, <1>5, ReleaseKeepsSlots DEF Next

\* Initially nobody holds a slot.
LEMMA InitSlots == Init => SlotInv
<1>. SUFFICES ASSUME Init PROVE SlotInv
  OBVIOUS
<1>1. Holders = {}
  BY DEF Init, Holders
<1>2. Cardinality(Holders) = 0
  BY <1>1, FS_EmptySet
<1>3. slots = Slots /\ Slots \in Nat
  BY TestsAssumption DEF Init, TestsAssumption
<1>4. slots + Cardinality(Holders) <= Slots
  BY <1>2, <1>3
<1>. QED
  BY <1>4 DEF Init, SlotInv

\* The types, and never more free slots than there are (TypeOK): _DNS_SLOTS is
\* never released more often than it was acquired.
THEOREM TypeCorrect == Spec => []TypeOK
<1>1. Init => TypeInv /\ SlotInv
  BY InitTyped, InitSlots
<1>2. TypeInv /\ SlotInv /\ [Next]_vars => (TypeInv /\ SlotInv)'
  BY NextTyped, NextSlots
<1>3. TypeInv /\ SlotInv => TypeOK
  <2>1. ASSUME TypeInv, SlotInv PROVE slots \in 0 .. Slots
    <3>1. slots \in Nat /\ Slots \in Nat /\ slots + Cardinality(Holders) <= Slots
      BY <2>1, TestsAssumption DEF TypeInv, Typed, SlotInv, TestsAssumption
    <3>. QED
      BY <3>1, HoldersFinite
  <2>. QED
    BY <2>1 DEF TypeInv, Typed, TypeOK
<1>. QED
  BY <1>1, <1>2, <1>3, PTL DEF Spec

\* Outstanding lookup threads never outnumber the slots (ResolversBounded), also
\* those that no caller waits for any more.
THEOREM LookupsAreBounded == Spec => []ResolversBounded
<1>1. Init => TypeInv /\ SlotInv
  BY InitTyped, InitSlots
<1>2. TypeInv /\ SlotInv /\ [Next]_vars => (TypeInv /\ SlotInv)'
  BY NextTyped, NextSlots
<1>3. TypeInv /\ SlotInv => ResolversBounded
  <2>. SUFFICES ASSUME TypeInv, SlotInv PROVE ResolversBounded
    OBVIOUS
  <2>. DEFINE R == {t \in Tests : resolver[t] \in {"running", "answered"}}
  <2>1. R \in SUBSET Holders
    BY DEF Holders
  <2>2. Cardinality(R) <= Cardinality(Holders) /\ Cardinality(R) \in Nat
    BY <2>1, HoldersFinite, FS_Subset, FS_CardinalityType
  <2>3. slots \in Nat /\ Slots \in Nat /\ slots + Cardinality(Holders) <= Slots
    BY TestsAssumption DEF TypeInv, Typed, SlotInv, TestsAssumption
  <2>. HIDE DEF R
  <2>4. Cardinality(R) <= Slots
    BY <2>2, <2>3, HoldersFinite
  <2>. QED
    BY <2>4 DEF ResolversBounded, R
<1>. QED
  BY <1>1, <1>2, <1>3, PTL DEF Spec

-----------------------------------------------------------------------------
\* Success in time.

\* A test that saw an exchange after the end of its deadline has not succeeded.
Timely(t) ==
    /\ late[t] => past[t]
    /\ success[t] => ~late[t] /\ pc[t] \in {"cancel", "close", "closing", "done"}
    /\ result[t] = "complete" => success[t] /\ pc[t] = "done"

TimelyInv == \A t \in Tests : Timely(t)

\* Every step keeps that.
LEMMA NextTimely == TypeInv /\ TimelyInv /\ [Next]_vars => TimelyInv'
<1>. SUFFICES ASSUME TypeInv, TimelyInv, [Next]_vars, NEW u \in Tests
              PROVE  Timely(u)'
  BY DEF TimelyInv
<1>. USE DEF TypeInv, Typed, TimelyInv, Timely, Goto, Leave, control, deadline, outside
<1>1. CASE UNCHANGED vars
  BY <1>1 DEF vars
<1>2. ASSUME NEW t \in Tests,
             NEW p \in Profiles[t], NEW starts \in BOOLEAN, Begin(t, p, starts)
      PROVE  Timely(u)'
  BY <1>2 DEF Begin
<1>3. ASSUME NEW t \in Tests, OwnStep(t) \/ Spawn(t, FALSE) PROVE Timely(u)'
  <2>1. CASE Acquire(t) \/ Await(t) \/ GiveUp(t) \/ Spawn(t, TRUE) \/ Spawn(t, FALSE)
    BY <2>1 DEF Acquire, Await, GiveUp, Spawn
  <2>2. CASE Own(t)
    BY <2>2 DEF Own
  <2>3. CASE Verdict(t)
    BY <2>3 DEF Verdict, Overdue
  <2>4. CASE Cancel(t) \/ ExitClose(t)
    BY <2>4 DEF Cancel, ExitClose, TakeOver
  <2>5. CASE Return(t)
    BY <2>5 DEF Return
  <2>. QED
    BY <1>3, <2>1, <2>2, <2>3, <2>4, <2>5 DEF OwnStep
<1>4. ASSUME NEW t \in Tests, PeerStep(t) PROVE Timely(u)'
  <2>1. CASE Make(t) \/ MakeFails(t) \/ Drop(t)
    BY <2>1 DEF Make, MakeFails, Drop
  <2>2. CASE ExchangeSucceeds(t)
    BY <2>2 DEF ExchangeSucceeds
  <2>3. CASE ConnectFails(t) \/ ExchangeFails(t)
    BY <2>3 DEF ConnectFails, ExchangeFails
  <2>. QED
    BY <1>4, <2>1, <2>2, <2>3 DEF PeerStep, Exchange
<1>5. ASSUME NEW t \in Tests, TimerStep(t) PROVE Timely(u)'
  BY <1>5 DEF TimerStep, TimerFires, TimerCloses, TimerEnds
<1>6. ASSUME NEW t \in Tests, NEW c \in Closers, CloseOne(t, c) PROVE Timely(u)'
  BY <1>6 DEF CloseOne
<1>7. ASSUME NEW t \in Tests, Tick(t) PROVE Timely(u)'
  BY <1>7 DEF Tick
<1>8. ASSUME NEW t \in Tests, ResolverAnswers(t) \/ ResolverReleases(t) PROVE Timely(u)'
  BY <1>8 DEF ResolverAnswers, ResolverReleases
<1>. QED
  BY <1>1, <1>2, <1>3, <1>4, <1>5, <1>6, <1>7, <1>8 DEF Next

\* A passed test ended its last exchange in time (SuccessIsTimely): the clock is
\* read after it (remaining() at the end of run_connection_test).
THEOREM PassedInTime == Spec => []SuccessIsTimely
<1>1. Init => TypeInv /\ TimelyInv
  BY InitTyped DEF Init, TimelyInv, Timely
<1>2. TypeInv /\ TimelyInv /\ [Next]_vars => (TypeInv /\ TimelyInv)'
  BY NextTyped, NextTimely
<1>3. TimelyInv => SuccessIsTimely
  BY DEF TimelyInv, Timely, SuccessIsTimely
<1>. QED
  BY <1>1, <1>2, <1>3, PTL DEF Spec

-----------------------------------------------------------------------------
\* Resources.

\* Those who will close a resource of a test: the deadline that owns it, a thread in
\* close() that took it over, or the test itself on its way into or out of own().
Closed(t) ==
    owned[t] \cup toClose[t]["test"] \cup toClose[t]["timer"]
        \cup (IF pc[t] \in {"own", "drop"} THEN {Held(t)} ELSE {})

Accounted(t) ==
    /\ open[t] \subseteq Closed(t)
    /\ closed[t] => owned[t] = {}
    /\ pc[t] \in {"new", "closing", "done"} => owned[t] = {}
    /\ pc[t] # "closing" => toClose[t]["test"] = {}
    /\ timer[t] # "closing" => toClose[t]["timer"] = {}
    /\ pc[t] = "new" => timer[t] = "none"

ResourceInv == \A t \in Tests : Accounted(t)

\* A step in which a test makes, hands over and closes nothing.
Untouched(t) ==
    /\ owned'[t] = owned[t] /\ toClose'[t] = toClose[t]
    /\ open'[t] = open[t] /\ closed'[t] = closed[t]
    /\ \/ pc'[t] = pc[t] /\ Held(t)' = Held(t)
       \/ /\ pc[t] \notin {"own", "drop", "closing"}
          /\ pc'[t] \notin {"own", "drop", "new", "closing", "done"}
    /\ \/ timer'[t] = timer[t] /\ (pc'[t] = "new" => pc[t] = "new")
       \/ timer[t] # "closing" /\ timer'[t] # "closing" /\ pc'[t] # "new"

\* Such a step keeps the account of its resources.
LEMMA UntouchedAccounted ==
    ASSUME NEW t \in Tests, Accounted(t), Untouched(t)
    PROVE  Accounted(t)'
<1>1. Closed(t)' = Closed(t) \/ (Closed(t) \subseteq Closed(t)' /\ pc'[t] # pc[t])
  BY DEF Untouched, Closed
<1>2. open'[t] \subseteq Closed(t)'
  BY <1>1 DEF Untouched, Accounted
<1>. QED
  BY <1>2 DEF Untouched, Accounted

\* Every step keeps every open resource in somebody's hands.
LEMMA NextResources == TypeInv /\ ResourceInv /\ [Next]_vars => ResourceInv'
<1>. SUFFICES ASSUME TypeInv, ResourceInv, [Next]_vars, NEW u \in Tests
              PROVE  Accounted(u)'
  BY DEF ResourceInv
<1>. USE DEF TypeInv, Typed, ResourceInv, Accounted, Closed, Held, Closers,
             Goto, Leave, control, deadline, outside
<1>1. CASE UNCHANGED vars
  BY <1>1 DEF vars
<1>2. ASSUME NEW t \in Tests,
             NEW p \in Profiles[t], NEW starts \in BOOLEAN, Begin(t, p, starts)
      PROVE  Accounted(u)'
  <2>1. CASE u = t
    <3>1. /\ owned[t] = {} /\ toClose[t]["test"] = {} /\ open[t] \subseteq toClose[t]["timer"]
          /\ timer[t] = "none" /\ timer'[t] \in {"none", "armed"}
          /\ owned' = owned /\ toClose' = toClose /\ open' = open
          /\ pc'[t] \notin {"new", "closing"}
      BY <1>2, ZenonT(60) DEF Begin
    <3>. QED
      BY <2>1, <3>1
  <2>2. CASE u # t
    <3>1. /\ owned' = owned /\ toClose' = toClose /\ open' = open /\ closed' = closed
          /\ step' = step /\ address' = address
          /\ pc'[u] = pc[u] /\ timer'[u] = timer[u]
      BY <1>2, <2>2 DEF Begin
    <3>. QED
      BY <3>1
  <2>. QED
    BY <2>1, <2>2
<1>3. ASSUME NEW t \in Tests, OwnStep(t) \/ Spawn(t, FALSE) PROVE Accounted(u)'
  <2>1. CASE Acquire(t) \/ Await(t) \/ GiveUp(t) \/ Spawn(t, TRUE) \/ Spawn(t, FALSE)
    <3>1. Untouched(u)
      BY <2>1 DEF Untouched, Acquire, Await, GiveUp, Spawn
    <3>. QED
      BY <3>1, UntouchedAccounted DEF ResourceInv
  <2>2. CASE Own(t)
    <3>1. /\ toClose' = toClose /\ open' = open /\ closed' = closed /\ timer' = timer
          /\ step' = step /\ address' = address
          /\ pc[t] = "own" /\ pc'[t] \in {"drop", "cancel", "exchange"}
      BY <2>2 DEF Own
    <3>2. CASE closed[t]
      BY <2>2, <3>1, <3>2 DEF Own
    <3>3. CASE ~closed[t]
      <4>1. owned' = [owned EXCEPT ![t] = @ \cup {Held(t)}]
        BY <2>2, <3>3 DEF Own
      <4>2. pc'[u] = pc[u] \/ u = t
        BY <2>2 DEF Own
      <4>. QED
        BY <3>1, <3>3, <4>1, <4>2
    <3>. QED
      BY <3>2, <3>3
  <2>3. CASE Verdict(t) \/ Cancel(t)
    <3>1. Untouched(u)
      BY <2>3 DEF Untouched, Verdict, Cancel
    <3>. QED
      BY <3>1, UntouchedAccounted DEF ResourceInv
  <2>4. CASE ExitClose(t)
    BY <2>4 DEF ExitClose, TakeOver
  <2>5. CASE Return(t)
    BY <2>5 DEF Return
  <2>. QED
    BY <1>3, <2>1, <2>2, <2>3, <2>4, <2>5 DEF OwnStep
<1>4. ASSUME NEW t \in Tests, PeerStep(t) PROVE Accounted(u)'
  <2>1. CASE Make(t)
    BY <2>1 DEF Make
  <2>2. CASE MakeFails(t) \/ ExchangeFails(t)
    <3>1. Untouched(u)
      BY <2>2 DEF Untouched, MakeFails, ExchangeFails
    <3>. QED
      BY <3>1, UntouchedAccounted DEF ResourceInv
  <2>3. CASE Drop(t)
    BY <2>3 DEF Drop
  <2>4. CASE ExchangeSucceeds(t)
    <3>1. Untouched(u)
      BY <2>4 DEF Untouched, ExchangeSucceeds
    <3>. QED
      BY <3>1, UntouchedAccounted DEF ResourceInv
  <2>5. CASE ConnectFails(t)
    BY <2>5 DEF ConnectFails
  <2>. QED
    BY <1>4, <2>1, <2>2, <2>3, <2>4, <2>5 DEF PeerStep, Exchange
<1>5. ASSUME NEW t \in Tests, TimerStep(t) PROVE Accounted(u)'
  <2>1. CASE TimerFires(t)
    <3>1. Untouched(u)
      BY <2>1 DEF Untouched, TimerFires
    <3>. QED
      BY <3>1, UntouchedAccounted DEF ResourceInv
  <2>2. CASE TimerCloses(t)
    BY <2>2 DEF TimerCloses, TakeOver
  <2>3. CASE TimerEnds(t)
    BY <2>3 DEF TimerEnds
  <2>. QED
    BY <1>5, <2>1, <2>2, <2>3 DEF TimerStep
<1>6. ASSUME NEW t \in Tests, NEW c \in Closers, CloseOne(t, c) PROVE Accounted(u)'
  BY <1>6 DEF CloseOne
<1>7. ASSUME NEW t \in Tests, Tick(t) PROVE Accounted(u)'
  <2>1. Untouched(u)
    BY <1>7 DEF Untouched, Tick
  <2>. QED
    BY <2>1, UntouchedAccounted DEF ResourceInv
<1>8. ASSUME NEW t \in Tests, ResolverAnswers(t) \/ ResolverReleases(t) PROVE Accounted(u)'
  <2>1. Untouched(u)
    BY <1>8 DEF Untouched, ResolverAnswers, ResolverReleases
  <2>. QED
    BY <2>1, UntouchedAccounted DEF ResourceInv
<1>. HIDE DEF TypeInv, ResourceInv, Accounted, Goto, Leave, control, deadline, outside
<1>. QED
  BY <1>1, <1>2, <1>3, <1>4, <1>5, <1>6, <1>7, <1>8 DEF Next

\* What a test opened is closed when it returns, or is being closed by its timer
\* (NothingOutlivesTest), in whatever order own() and the two calls of close() come.
THEOREM NothingLeaks == Spec => []NothingOutlivesTest
<1>1. Init => TypeInv /\ ResourceInv
  BY InitTyped DEF Init, ResourceInv, Accounted, Closed, Closers
<1>2. TypeInv /\ ResourceInv /\ [Next]_vars => (TypeInv /\ ResourceInv)'
  BY NextTyped, NextResources
<1>3. ResourceInv => NothingOutlivesTest
  BY DEF ResourceInv, Accounted, Closed, NothingOutlivesTest
<1>. QED
  BY <1>1, <1>2, <1>3, PTL DEF Spec
=============================================================================
