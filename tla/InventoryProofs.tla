--------------------------- MODULE InventoryProofs ---------------------------
(***************************************************************************)
(* Proofs about Inventory, for any processes, identifiers, requests and    *)
(* number of failures, and for both databases.                             *)
(***************************************************************************)
EXTENDS Inventory, TLAPS

-----------------------------------------------------------------------------
\* Requests and rows.

\* Rows are kept by table.
Tabled(db) ==
    /\ db \in [Ids -> RoleRow \cup Profile \cup {None}]
    /\ \A r \in Roles : db[r] \in RoleRow \cup {None}
    /\ \A i \in Proxies \cup Conns : db[i] \in Profile \cup {None}

\* What a transaction has read of the item its request is about.
ReadFor(rq, prev) ==
    /\ prev \in RoleRow \cup Profile \cup {None}
    /\ rq.op = "save" => prev \in IF rq.table = Roles THEN RoleRow \cup {None} ELSE Profile

\* A transaction that waits for the item itself.
Waits(t) == t.op = "item" /\ t.rq.id \in Ids

\* TypeOK, with the rows by table and the rows that transactions have read.
Typed ==
    /\ TypeOK
    /\ Tabled(rows)
    /\ txn = [p \in Procs |-> txn[p]]
    /\ \A p \in Procs : txn[p] = Idle \/ txn[p].op = "refs" \/ Waits(txn[p])
    /\ \A p \in Procs : Active(p) => Tabled(view[p])
    /\ \A p \in Procs : txn[p].op = "refs" => ReadFor(txn[p].rq, txn[p].prev)

\* The fields of the two kinds of rows tell them apart.
LEMMA KindsOfRows ==
    /\ \A row \in Profile : row \notin RoleRow /\ row # None
    /\ \A row \in RoleRow : row # None
    /\ NewProfile \in Profile
<1>1. None \notin RoleRow \cup Profile
  BY IdsAssumption DEF IdsAssumption
<1>2. \A row \in Profile : row \notin RoleRow
  BY DEF Profile, RoleRow
<1>3. NewProfile \in Profile
  BY DEF NewProfile, Profile, Connector, Kinds
<1>. QED
  BY <1>1, <1>2, <1>3

\* What a request to save, to delete or to resolve looks like.
LEMMA SaveAsked ==
    ASSUME NEW p \in Procs, NEW rq \in Asked[p], rq.op = "save"
    PROVE  /\ rq.table = Roles =>
                 /\ rq.id \in Roles \cup {None}
                 /\ rq.edit \in RoleEdit \/ Roles = {}
           /\ rq.table # Roles =>
                 /\ rq.table = Proxies \/ rq.table = Conns
                 /\ rq.id \in rq.table \cup {None}
                 /\ rq.edit \in ProfileEdit
BY AskedAssumption, IdsAssumption DEF AskedAssumption, IdsAssumption

LEMMA IdAsked ==
    ASSUME NEW p \in Procs, NEW rq \in Asked[p]
    PROVE  /\ rq.op \in {"save", "delete", "resolve"}
           /\ rq.id \in Ids \cup {None}
           /\ rq.op = "resolve" => rq.id \in Conns
           /\ rq.op # "save" => rq.id \in Ids
BY AskedAssumption, IdsAssumption DEF AskedAssumption, IdsAssumption, Ids

\* The row that is saved belongs to its table.
LEMMA RoleRowSaved ==
    ASSUME NEW e \in RoleEdit, NEW prev \in RoleRow \cup {None}
    PROVE  [auth |-> e.auth, secrets |-> SecretsAfter(prev, e)] \in RoleRow
<1>1. SecretsAfter(prev, e) \subseteq RoleSecrets
  BY DEF SecretsAfter, RoleSecrets, Keys
<1>. QED
  BY <1>1 DEF RoleRow, RoleEdit

LEMMA ProfileSaved ==
    ASSUME NEW e \in ProfileEdit, NEW prev \in Profile
    PROVE  ProfileAfter(prev, e) \in Profile
<1>1. Given(e.role, prev.role) \in Roles \cup {None}
  BY DEF Given, ProfileEdit, Profile
<1>2. Given(e.proxy, prev.proxy) \in Proxies \cup {None}
  BY DEF Given, ProfileEdit, Profile
<1>3. InlineAfter(prev, e) \subseteq Inline
  BY DEF InlineAfter, Merged, ProfileEdit, Profile
<1>4. ConnectorAfter(prev, e) \in Connector
  <2>1. NewProfile.connector \in Connector /\ prev.connector \in Connector
    BY KindsOfRows DEF Profile
  <2>2. ASSUME e.connector # Keep
        PROVE  LET type == Given(e.connector.type, prev.connector.type)
               IN  [type |-> type,
                    inline |-> IF type # prev.connector.type THEN e.connector.set
                               ELSE Merged(prev.connector.inline, e.connector)] \in Connector
    <3>1. e.connector \in ConnectorEdit
      BY <2>2 DEF ProfileEdit
    <3>2. Given(e.connector.type, prev.connector.type) \in Kinds
      BY <2>1, <3>1 DEF Given, ConnectorEdit, Connector
    <3>3. /\ e.connector.set \subseteq Inline
          /\ Merged(prev.connector.inline, e.connector) \subseteq Inline
      BY <2>1, <3>1 DEF ConnectorEdit, Connector, Merged
    <3>. QED
      BY <3>2, <3>3 DEF Connector
  <2>. QED
    BY <2>1, <2>2 DEF ConnectorAfter
<1>. QED
  BY <1>1, <1>2, <1>3, <1>4 DEF ProfileAfter, Profile

\* The references to lock are identifiers.
LEMMA RefsTyped ==
    ASSUME NEW p \in Procs, NEW rq \in Asked[p], NEW prev, ReadFor(rq, prev)
    PROVE  RefsToLock(prev, rq) \in Seq(Ids)
<1>1. CASE rq.op # "save" \/ rq.table = Roles
  BY <1>1 DEF RefsToLock
<1>2. CASE rq.op = "save" /\ rq.table # Roles
  <2>. DEFINE a == Given(rq.edit.role, prev.role)
              b == Given(rq.edit.proxy, prev.proxy)
              Lock(ref) == IF ref = None THEN <<>> ELSE <<ref>>
  <2>1. rq.edit \in ProfileEdit /\ prev \in Profile
    BY <1>2, SaveAsked DEF ReadFor
  <2>2. a \in Ids \cup {None} /\ b \in Ids \cup {None}
    BY <2>1 DEF Given, ProfileEdit, Profile, Ids
  <2>. HIDE DEF a, b
  <2>3. Lock(a) \in Seq(Ids) /\ Lock(b) \in Seq(Ids)
    BY <2>2
  <2>4. RefsToLock(prev, rq) = Lock(a) \o Lock(b)
    BY <1>2 DEF RefsToLock, a, b
  <2>. HIDE DEF Lock
  <2>. QED
    BY <2>3, <2>4
<1>. QED
  BY <1>1, <1>2

-----------------------------------------------------------------------------
\* Type correctness.

LEMMA TypedAtFirst == Init => Typed
<1>. SUFFICES ASSUME Init PROVE Typed
  OBVIOUS
<1>0. MaxFaults \in Nat
  BY FaultsAssumption
<1>1. Tabled(rows) /\ rows \in Rows
  BY DEF Init, Tabled, Rows, Ids
<1>2. \A p \in Procs : ~Active(p) /\ txn[p].op = "idle"
  BY DEF Init, Active, Idle
<1>3. view \in [Procs -> Rows]
  BY <1>1 DEF Init
<1>. QED
  BY <1>0, <1>1, <1>2, <1>3 DEF Init, Typed, TypeOK, Idle

\* A transaction that ends leaves the types in order, whatever it answers.
LEMMA EndsTyped ==
    ASSUME Typed, NEW p \in Procs, NEW code \in Codes, Ends(p, code),
           UNCHANGED <<backend, rows>>, minted' \subseteq Ids, faults' \in 0 .. MaxFaults
    PROVE  Typed'
<1>1. /\ owner' \in [Ids -> Procs \cup {None}]
      /\ view' \in [Procs -> Rows]
      /\ changed' \in [Procs -> SUBSET Ids]
      /\ answer' \in {NoAnswer} \cup Procs \X Codes
  BY DEF Typed, TypeOK, Ends, Rows
<1>2. /\ txn'[p] = Idle /\ \A q \in Procs \ {p} : txn'[q] = txn[q] /\ view'[q] = view[q]
      /\ txn' = [q \in Procs |-> txn'[q]]
  BY DEF Typed, TypeOK, Ends
<1>3. ~Active(p)' /\ txn'[p].op = "idle"
  BY <1>2 DEF Active, Idle
<1>4. \A q \in Procs : Active(q)' => q # p /\ Active(q)
  BY <1>2, <1>3 DEF Active
<1>5. \A q \in Procs : Active(q)' =>
          /\ txn'[q].op \in {"item", "refs"}
          /\ txn'[q].rq \in Asked[q]
          /\ txn'[q].prev \in RoleRow \cup Profile \cup {None}
          /\ txn'[q].refs \in Seq(Ids)
  BY <1>2, <1>4 DEF Typed, TypeOK
<1>6. TypeOK'
  BY <1>1, <1>5 DEF Typed, TypeOK
<1>7. /\ \A q \in Procs : Active(q)' => Tabled(view[q])'
      /\ \A q \in Procs : txn'[q].op = "refs" => ReadFor(txn'[q].rq, txn'[q].prev)
  BY <1>2, <1>3, <1>4 DEF Typed, Tabled
<1>8. \A q \in Procs : txn'[q] = Idle \/ txn'[q].op = "refs" \/ Waits(txn'[q])
  BY <1>2 DEF Typed
<1>. QED
  BY <1>2, <1>6, <1>7, <1>8 DEF Typed, Tabled

\* So does one that commits a row of the right table.
LEMMA CommitsTyped ==
    ASSUME Typed, NEW p \in Procs, NEW id \in Ids, NEW row, NEW code \in Codes,
           Commits(p, id, row, code), minted' \subseteq Ids,
           row = None \/ IF id \in Roles THEN row \in RoleRow ELSE row \in Profile
    PROVE  Typed'
<1>0. MaxFaults \in Nat
  BY FaultsAssumption
<1>1. /\ owner' \in [Ids -> Procs \cup {None}]
      /\ view' \in [Procs -> Rows]
      /\ changed' \in [Procs -> SUBSET Ids]
  BY DEF Typed, TypeOK, Commits, Rows
<1>2. answer' \in {NoAnswer} \cup Procs \X Codes /\ faults' \in 0 .. MaxFaults
  BY <1>0 DEF Typed, TypeOK, Commits, Codes
<1>3. /\ txn'[p] = Idle /\ \A q \in Procs \ {p} : txn'[q] = txn[q] /\ view'[q] = view[q]
      /\ txn' = [q \in Procs |-> txn'[q]]
  BY DEF Typed, TypeOK, Commits
<1>4. ~Active(p)' /\ txn'[p].op = "idle"
  BY <1>3 DEF Active, Idle
<1>5. \A q \in Procs : Active(q)' => q # p /\ Active(q)
  BY <1>3, <1>4 DEF Active
<1>6. \A q \in Procs : Active(q)' =>
          /\ txn'[q].op \in {"item", "refs"}
          /\ txn'[q].rq \in Asked[q]
          /\ txn'[q].prev \in RoleRow \cup Profile \cup {None}
          /\ txn'[q].refs \in Seq(Ids)
  BY <1>3, <1>5 DEF Typed, TypeOK
<1>7. Tabled(rows)'
  <2>1. rows' = [rows EXCEPT ![id] = row]
    BY DEF Commits
  <2>2. Roles \cap (Proxies \cup Conns) = {}
    BY IdsAssumption DEF IdsAssumption
  <2>. QED
    BY <2>1, <2>2 DEF Typed, Tabled, Ids
<1>8. rows' \in Rows
  BY <1>7 DEF Tabled, Rows
<1>9. TypeOK'
  BY <1>1, <1>2, <1>6, <1>8 DEF Typed, TypeOK, Commits
<1>10. /\ \A q \in Procs : Active(q)' => Tabled(view[q])'
       /\ \A q \in Procs : txn'[q].op = "refs" => ReadFor(txn'[q].rq, txn'[q].prev)
  BY <1>3, <1>4, <1>5 DEF Typed, Tabled
<1>11. \A q \in Procs : txn'[q] = Idle \/ txn'[q].op = "refs" \/ Waits(txn'[q])
  BY <1>3 DEF Typed
<1>. QED
  BY <1>3, <1>7, <1>9, <1>10, <1>11 DEF Typed

\* A transaction that goes on.
LEMMA GoesOnTyped ==
    ASSUME Typed, NEW p \in Procs, NEW t,
           txn' = [txn EXCEPT ![p] = t],
           t.op = "refs" \/ Waits(t), t.rq \in Asked[p],
           t.prev \in RoleRow \cup Profile \cup {None}, t.refs \in Seq(Ids),
           t.op = "refs" => ReadFor(t.rq, t.prev),
           owner' \in [Ids -> Procs \cup {None}],
           view' \in [Procs -> Rows], Tabled(view'[p]),
           \A q \in Procs \ {p} : view'[q] = view[q],
           answer' = NoAnswer,
           UNCHANGED <<backend, rows, minted, changed, faults>>
    PROVE  Typed'
<1>1. /\ txn'[p] = t /\ \A q \in Procs \ {p} : txn'[q] = txn[q]
      /\ txn' = [q \in Procs |-> txn'[q]]
  BY DEF Typed
<1>2. \A q \in Procs \ {p} : Active(q)' <=> Active(q)
  BY <1>1 DEF Active
<1>3. \A q \in Procs : Active(q)' =>
          /\ txn'[q].op \in {"item", "refs"}
          /\ txn'[q].rq \in Asked[q]
          /\ txn'[q].prev \in RoleRow \cup Profile \cup {None}
          /\ txn'[q].refs \in Seq(Ids)
  BY <1>1, <1>2 DEF Typed, TypeOK, Waits
<1>4. TypeOK'
  BY <1>3 DEF Typed, TypeOK
<1>5. \A q \in Procs : Active(q)' => Tabled(view[q])'
  BY <1>2 DEF Typed, Tabled
<1>6. \A q \in Procs : txn'[q].op = "refs" => ReadFor(txn'[q].rq, txn'[q].prev)
  BY <1>1 DEF Typed
<1>7. \A q \in Procs : txn'[q] = Idle \/ txn'[q].op = "refs" \/ Waits(txn'[q])
  BY <1>1 DEF Typed
<1>. QED
  BY <1>1, <1>4, <1>5, <1>6, <1>7 DEF Typed, Tabled

\* What Begin and ReadItem read is a row of the table the request is about.
LEMMA ReadTyped ==
    ASSUME NEW p \in Procs, NEW rq \in Asked[p], NEW db, Tabled(db),
           rq.id \in Ids, db[rq.id] # None
    PROVE  ReadFor(rq, db[rq.id])
<1>1. db[rq.id] \in RoleRow \cup Profile \cup {None}
  BY DEF Tabled
<1>2. CASE rq.op = "save" /\ rq.table = Roles
  <2>1. rq.id \in Roles
    BY <1>2, SaveAsked, IdsAssumption DEF IdsAssumption
  <2>. QED
    BY <1>1, <1>2, <2>1 DEF ReadFor, Tabled
<1>3. CASE rq.op = "save" /\ rq.table # Roles
  <2>1. rq.id \in Proxies \cup Conns
    BY <1>3, SaveAsked, IdsAssumption DEF IdsAssumption
  <2>. QED
    BY <1>1, <1>3, <2>1 DEF ReadFor, Tabled
<1>. QED
  BY <1>1, <1>2, <1>3 DEF ReadFor

LEMMA BeginTyped ==
    ASSUME Typed, NEW p \in Procs, NEW rq \in Asked[p], Begin(p, rq)
    PROVE  Typed'
<1>1. /\ view' = [view EXCEPT ![p] = rows]
      /\ answer' = NoAnswer
      /\ UNCHANGED <<backend, rows, minted, changed, faults>>
  BY DEF Begin
<1>2. view' \in [Procs -> Rows] /\ Tabled(view'[p]) /\ \A q \in Procs \ {p} : view'[q] = view[q]
  BY <1>1 DEF Typed, TypeOK
<1>3. rq.id \in Ids \cup {None}
  BY IdAsked
<1>4. ASSUME NEW prev, ReadFor(rq, prev), ItemRead(p, rq, prev) PROVE Typed'
  <2>. DEFINE t == [op |-> "refs", rq |-> rq, prev |-> prev, refs |-> RefsToLock(prev, rq)]
  <2>1. txn' = [txn EXCEPT ![p] = t]
    BY <1>4 DEF ItemRead
  <2>2. t.refs \in Seq(Ids)
    BY <1>4, RefsTyped
  <2>3. owner' \in [Ids -> Procs \cup {None}]
    BY <1>4 DEF ItemRead, Typed, TypeOK
  <2>4. /\ t.op = "refs" /\ t.rq \in Asked[p] /\ ReadFor(t.rq, t.prev)
        /\ t.prev \in RoleRow \cup Profile \cup {None}
    BY <1>4 DEF ReadFor
  <2>. HIDE DEF t
  <2>. QED
    BY <1>1, <1>2, <2>1, <2>2, <2>3, <2>4, GoesOnTyped
<1>5. CASE /\ rq.id = None
           /\ ItemRead(p, rq, Unsaved(rq))
  <2>1. rq.op = "save"
    BY <1>5, IdAsked, IdsAssumption DEF IdsAssumption
  <2>2. ReadFor(rq, Unsaved(rq))
    BY <2>1, KindsOfRows DEF ReadFor, Unsaved
  <2>. QED
    BY <1>4, <1>5, <2>2
<1>6. CASE /\ rq.id \in minted /\ rows[rq.id] # None
           /\ ItemRead(p, rq, rows[rq.id])
  <2>1. rq.id \in Ids
    BY <1>6 DEF Typed, TypeOK
  <2>2. ReadFor(rq, rows[rq.id])
    BY <1>6, <2>1, ReadTyped DEF Typed
  <2>. QED
    BY <1>4, <1>6, <2>2
<1>7. CASE /\ rq.id \in Ids
           /\ txn' = [txn EXCEPT ![p] = [op |-> "item", rq |-> rq, prev |-> None, refs |-> <<>>]]
           /\ UNCHANGED owner
  <2>. DEFINE t == [op |-> "item", rq |-> rq, prev |-> None, refs |-> <<>>]
  <2>1. owner' \in [Ids -> Procs \cup {None}]
    BY <1>7 DEF Typed, TypeOK
  <2>2. /\ Waits(t) /\ t.op = "item" /\ t.rq \in Asked[p] /\ t.prev \in RoleRow \cup Profile \cup {None}
        /\ t.refs \in Seq(Ids)
    BY <1>7 DEF Waits
  <2>3. txn' = [txn EXCEPT ![p] = t]
    BY <1>7
  <2>. HIDE DEF t
  <2>. QED
    BY <1>1, <1>2, <2>1, <2>2, <2>3, GoesOnTyped
<1>. QED
  BY <1>5, <1>6, <1>7 DEF Begin, Typed, TypeOK

\* An action that needs a pending statement is one of an active transaction.
LEMMA Pending ==
    ASSUME Typed, NEW p \in Procs, txn[p].op \in {"item", "refs"} \/ Active(p)
    PROVE  /\ Active(p) /\ txn[p].op \in {"item", "refs"}
           /\ txn[p].rq \in Asked[p] /\ txn[p].refs \in Seq(Ids)
           /\ txn[p].prev \in RoleRow \cup Profile \cup {None}
           /\ txn[p].op = "refs" => ReadFor(txn[p].rq, txn[p].prev)
           /\ Tabled(view[p])
<1>1. Active(p)
  BY DEF Active, Idle
<1>. QED
  BY <1>1 DEF Typed, TypeOK

\* The row that a save writes belongs to the table.
LEMMA SavedRow ==
    ASSUME Typed, NEW p \in Procs, txn[p].op = "refs", txn[p].rq.op = "save",
           NEW id \in SaveableIds(txn[p].rq)
    PROVE  LET rq == txn[p].rq  prev == txn[p].prev
           IN  IF rq.table = Roles
               THEN /\ id \in Roles
                    /\ rq.edit \in RoleEdit
                    /\ prev \in RoleRow \cup {None}
                    /\ Edited(rq, prev) \in RoleRow
               ELSE /\ id \in Proxies \cup Conns /\ id \notin Roles
                    /\ rq.edit \in ProfileEdit
                    /\ prev \in Profile
                    /\ Edited(rq, prev) \in Profile
<1>. DEFINE rq == txn[p].rq
            prev == txn[p].prev
<1>1. rq \in Asked[p] /\ ReadFor(rq, prev)
  BY Pending
<1>2. CASE rq.table = Roles
  <2>1. id \in Roles
    BY <1>1, <1>2, SaveAsked DEF SaveableIds
  <2>2. rq.edit \in RoleEdit
    BY <1>1, <1>2, <2>1, SaveAsked
  <2>3. prev \in RoleRow \cup {None}
    BY <1>1, <1>2 DEF ReadFor
  <2>. QED
    BY <1>2, <2>1, <2>2, <2>3, RoleRowSaved DEF Edited
<1>3. CASE rq.table # Roles
  <2>1. id \in Proxies \cup Conns
    BY <1>1, <1>3, SaveAsked DEF SaveableIds
  <2>2. id \notin Roles
    BY <2>1, IdsAssumption DEF IdsAssumption
  <2>3. rq.edit \in ProfileEdit /\ prev \in Profile
    BY <1>1, <1>3, SaveAsked DEF ReadFor
  <2>. QED
    BY <1>3, <2>1, <2>2, <2>3, ProfileSaved DEF Edited
<1>. QED
  BY <1>2, <1>3

LEMMA TypedStays == Typed /\ [Next]_vars => Typed'
<1>. SUFFICES ASSUME Typed, [Next]_vars PROVE Typed'
  OBVIOUS
<1>0. MaxFaults \in Nat /\ faults \in 0 .. MaxFaults /\ minted \subseteq Ids
  BY FaultsAssumption DEF Typed, TypeOK
<1>1. ASSUME NEW p \in Procs, NEW rq \in Asked[p], Begin(p, rq) PROVE Typed'
  BY <1>1, BeginTyped
<1>2. ASSUME NEW p \in Procs, ReadItem(p) PROVE Typed'
  <2>. DEFINE rq == txn[p].rq
              prev == View(p)[rq.id]
              t == [op |-> "refs", rq |-> rq, prev |-> prev, refs |-> RefsToLock(prev, rq)]
  <2>1. rq \in Asked[p] /\ Tabled(view[p]) /\ prev # None
    BY <1>2, Pending DEF ReadItem, CanRead
  <2>2. rq.id \in Ids
    BY <1>2 DEF ReadItem, CanRead, Typed, Idle, Waits
  <2>3. ReadFor(rq, prev)
    BY <2>1, <2>2, ReadTyped DEF View
  <2>4. txn' = [txn EXCEPT ![p] = t]
    BY <1>2 DEF ReadItem, CanRead, ItemRead
  <2>5. t.refs \in Seq(Ids)
    BY <2>1, <2>3, RefsTyped
  <2>6. owner' \in [Ids -> Procs \cup {None}]
    BY <1>2 DEF ReadItem, CanRead, ItemRead, Typed, TypeOK
  <2>7. /\ t.op = "refs" /\ t.rq \in Asked[p] /\ ReadFor(t.rq, t.prev)
        /\ t.prev \in RoleRow \cup Profile \cup {None}
    BY <2>1, <2>3 DEF ReadFor
  <2>8. /\ answer' = NoAnswer
        /\ UNCHANGED <<backend, rows, minted, view, changed, faults>>
    BY <1>2 DEF ReadItem, CanRead
  <2>. HIDE DEF t
  <2>. QED
    BY <2>1, <2>4, <2>5, <2>6, <2>7, <2>8, GoesOnTyped DEF Typed, TypeOK
<1>3. ASSUME NEW p \in Procs, LockReference(p) PROVE Typed'
  <2>. DEFINE t == [txn[p] EXCEPT !.refs = Tail(@)]
  <2>1. /\ txn[p].op = "refs" /\ txn[p].refs # <<>>
        /\ owner' = [owner EXCEPT ![Head(txn[p].refs)] = p]
        /\ txn' = [txn EXCEPT ![p].refs = Tail(@)]
        /\ answer' = NoAnswer
        /\ UNCHANGED <<backend, rows, minted, view, changed, faults>>
    BY <1>3 DEF LockReference, CanLock
  <2>2. /\ txn[p].rq \in Asked[p] /\ txn[p].refs \in Seq(Ids)
        /\ txn[p].prev \in RoleRow \cup Profile \cup {None}
        /\ ReadFor(txn[p].rq, txn[p].prev)
        /\ Tabled(view[p])
    BY <2>1, Pending
  <2>3. txn' = [txn EXCEPT ![p] = t]
    BY <2>1
  <2>4. /\ t.op = "refs" /\ t.rq = txn[p].rq /\ t.prev = txn[p].prev
    BY <2>1
  <2>5. t.refs \in Seq(Ids)
    BY <2>1, <2>2
  <2>6. owner' \in [Ids -> Procs \cup {None}]
    BY <2>1 DEF Typed, TypeOK
  <2>7. view' \in [Procs -> Rows] /\ Tabled(view'[p])
    BY <2>1, <2>2 DEF Typed, TypeOK
  <2>. HIDE DEF t
  <2>. QED
    BY <2>1, <2>2, <2>3, <2>4, <2>5, <2>6, <2>7, GoesOnTyped
<1>4. ASSUME NEW p \in Procs, NEW code \in Codes, RollsBack(p, code) PROVE Typed'
  BY <1>0, <1>4, EndsTyped DEF RollsBack
<1>5. ASSUME NEW p \in Procs,
             NotFound(p) \/ Outdated(p) \/ DeadlockVictim(p) \/ Refuse(p) \/ Resolve(p)
      PROVE  Typed'
  <2>1. \E code \in Codes : RollsBack(p, code)
    BY <1>5 DEF NotFound, Outdated, DeadlockVictim, Refuse, Resolve, Codes
  <2>. QED
    BY <1>4, <2>1
<1>6. ASSUME NEW p \in Procs, Save(p) PROVE Typed'
  <2>. DEFINE rq == txn[p].rq
              row == Edited(rq, txn[p].prev)
  <2>1. txn[p].op = "refs" /\ rq.op = "save"
    BY <1>6 DEF Save, CanSave, HasRead
  <2>2. PICK id \in SaveableIds(rq) :
            /\ minted' = minted \cup {id}
            /\ IF ForeignKeysHold([rows EXCEPT ![id] = row]) THEN Commits(p, id, row, "200")
               ELSE Ends(p, "409") /\ UNCHANGED <<backend, rows, faults>>
    BY <1>6 DEF Save, CanSave, HasRead
  <2>3. /\ IF id \in Roles THEN row \in RoleRow ELSE row \in Profile
        /\ id \in Ids
    BY <2>1, SavedRow DEF Ids
  <2>4. minted' \subseteq Ids
    BY <1>0, <2>2, <2>3
  <2>5. "200" \in Codes /\ "409" \in Codes
    BY DEF Codes
  <2>. HIDE DEF row
  <2>. QED
    BY <1>0, <2>2, <2>3, <2>4, <2>5, CommitsTyped, EndsTyped
<1>7. ASSUME NEW p \in Procs, Delete(p) PROVE Typed'
  <2>1. txn[p].rq \in Asked[p] /\ txn[p].rq.op = "delete"
    BY <1>7, Pending DEF Delete, HasRead
  <2>2. txn[p].rq.id \in Ids
    BY <2>1, IdAsked
  <2>3. CASE RollsBack(p, "409")
    BY <1>4, <2>3 DEF Codes
  <2>4. CASE Commits(p, txn[p].rq.id, None, "204") /\ UNCHANGED minted
    BY <1>0, <2>2, <2>4, CommitsTyped DEF Codes
  <2>. QED
    BY <1>7, <2>3, <2>4 DEF Delete
<1>8. ASSUME NEW p \in Procs, Fail(p) PROVE Typed'
  <2>1. faults' \in 0 .. MaxFaults
    BY <1>0, <1>8 DEF Fail
  <2>2. PICK code \in {"503", "none"} : Ends(p, code)
    BY <1>8 DEF Fail
  <2>. QED
    BY <1>0, <1>8, <2>1, <2>2, EndsTyped DEF Fail, Codes
<1>9. CASE UNCHANGED vars
  BY <1>9 DEF vars, Typed, TypeOK, Tabled, Active
<1>. QED
  BY <1>1, <1>2, <1>3, <1>5, <1>6, <1>7, <1>8, <1>9 DEF Next, Step

\* TypeOK: transactions hold what they may, and the rows those of their tables.
THEOREM TypeCorrect == Spec => []TypeOK
<1>1. Typed => TypeOK
  BY DEF Typed
<1>. QED
  BY <1>1, TypedAtFirst, TypedStays, PTL DEF Spec

-----------------------------------------------------------------------------
\* Rows and references.

\* What a row may be when it is written.  A role account with a key has no
\* password: UsableSecrets alone does not say so.
SoundRow(id, row) ==
    IF id \in Roles
    THEN /\ UsableSecrets(row.auth, row.secrets)
         /\ row.auth \in {"password", "ssh_key"}
         /\ row.auth = "ssh_key" => "password" \notin row.secrets
    ELSE /\ Exclusive(row.inline) /\ Exclusive(row.connector.inline)
         /\ row.role # None => row.inline = {}
         /\ row.proxy # None \/ row.connector.type = "direct" => row.connector.inline = {}

SoundRows == \A id \in Ids : rows[id] # None => SoundRow(id, rows[id])

\* The checks of an edit leave such a row, whatever was stored before.
LEMMA RoleSound ==
    ASSUME NEW e \in RoleEdit, NEW prev \in RoleRow \cup {None}, ~RoleRefused(prev, e),
           NEW id \in Roles
    PROVE  SoundRow(id, [auth |-> e.auth, secrets |-> SecretsAfter(prev, e)])
<1>1. e.auth \in {"password", "ssh_key"}
  BY DEF RoleEdit
<1>2. UsableSecrets(e.auth, SecretsAfter(prev, e))
  BY DEF RoleRefused
<1>3. e.auth = "ssh_key" => "password" \notin SecretsAfter(prev, e)
  BY DEF SecretsAfter, Keys
<1>. QED
  BY <1>1, <1>2, <1>3 DEF SoundRow

LEMMA ProfileSound ==
    ASSUME NEW e \in ProfileEdit, NEW prev \in Profile,
           ~CredentialsRefused(prev, e), ~ConnectorRefused(prev, e),
           NEW id \in Proxies \cup Conns, id \notin Roles
    PROVE  SoundRow(id, ProfileAfter(prev, e))
<1>. DEFINE row == ProfileAfter(prev, e)
<1>1. /\ row.role = Given(e.role, prev.role) /\ row.proxy = Given(e.proxy, prev.proxy)
      /\ row.inline = InlineAfter(prev, e) /\ row.connector = ConnectorAfter(prev, e)
  BY DEF ProfileAfter
<1>2. Exclusive(row.inline) /\ (row.role # None => row.inline = {})
  BY <1>1 DEF CredentialsRefused, InlineAfter
<1>3. CASE row.proxy # None
  BY <1>1, <1>2, <1>3 DEF ConnectorAfter, NewProfile, Exclusive, Inline, SoundRow
<1>4. CASE row.proxy = None
  <2>1. /\ row.connector.type = "direct" => row.connector.inline = {}
        /\ row.connector.type # "direct" => Exclusive(row.connector.inline)
    BY <1>1, <1>4 DEF ConnectorRefused
  <2>2. Exclusive({})
    BY DEF Exclusive, Inline
  <2>. HIDE DEF row
  <2>3. SoundRow(id, row)
    BY <1>2, <1>4, <2>1, <2>2 DEF SoundRow
  <2>. QED
    BY <2>3 DEF row
<1>. QED
  BY <1>3, <1>4

\* A step writes at most one row, a sound one, and leaves no dangling reference.
LEMMA RowSteps ==
    ASSUME Typed, [Next]_vars
    PROVE  \/ rows' = rows
           \/ \E id \in Ids, row \in RoleRow \cup Profile \cup {None} :
                 /\ rows' = [rows EXCEPT ![id] = row]
                 /\ row # None => SoundRow(id, row)
                 /\ ForeignKeysHold(rows')
<1>1. ASSUME NEW p \in Procs, Save(p), rows' # rows
      PROVE  \E id \in Ids, row \in RoleRow \cup Profile \cup {None} :
                 /\ rows' = [rows EXCEPT ![id] = row]
                 /\ row # None => SoundRow(id, row)
                 /\ ForeignKeysHold(rows')
  <2>. DEFINE rq == txn[p].rq
              prev == txn[p].prev
              row == Edited(rq, prev)
  <2>1. /\ txn[p].op = "refs" /\ rq.op = "save"
        /\ IF rq.table = Roles THEN ~RoleRefused(prev, rq.edit)
           ELSE ~CredentialsRefused(prev, rq.edit) /\ ~ConnectorRefused(prev, rq.edit)
    BY <1>1 DEF Save, CanSave, HasRead, Refused
  <2>2. PICK id \in SaveableIds(rq) :
            ForeignKeysHold([rows EXCEPT ![id] = row]) /\ Commits(p, id, row, "200")
    BY <1>1 DEF Save, CanSave, HasRead, Refused
  <2>3. rows' = [rows EXCEPT ![id] = row]
    BY <2>2 DEF Commits
  <2>4. CASE rq.table = Roles
    <3>1. /\ id \in Roles /\ row \in RoleRow
          /\ rq.edit \in RoleEdit /\ prev \in RoleRow \cup {None}
      BY <2>1, <2>4, SavedRow
    <3>2. SoundRow(id, row)
      BY <2>1, <2>4, <3>1, RoleSound DEF Edited
    <3>. QED
      BY <2>2, <2>3, <3>1, <3>2 DEF Ids
  <2>5. CASE rq.table # Roles
    <3>1. /\ id \in Proxies \cup Conns /\ id \notin Roles /\ row \in Profile
          /\ rq.edit \in ProfileEdit /\ prev \in Profile
      BY <2>1, <2>5, SavedRow
    <3>2. SoundRow(id, row)
      BY <2>1, <2>5, <3>1, ProfileSound DEF Edited
    <3>. QED
      BY <2>2, <2>3, <3>1, <3>2 DEF Ids
  <2>. QED
    BY <2>4, <2>5
<1>2. ASSUME NEW p \in Procs, Delete(p), rows' # rows
      PROVE  \E id \in Ids, row \in RoleRow \cup Profile \cup {None} :
                 /\ rows' = [rows EXCEPT ![id] = row]
                 /\ row # None => SoundRow(id, row)
                 /\ ForeignKeysHold(rows')
  <2>1. txn[p].rq \in Asked[p] /\ txn[p].rq.op = "delete"
    BY <1>2, Pending DEF Delete, HasRead
  <2>2. txn[p].rq.id \in Ids
    BY <2>1, IdAsked
  <2>3. /\ rows' = [rows EXCEPT ![txn[p].rq.id] = None]
        /\ ForeignKeysHold([rows EXCEPT ![txn[p].rq.id] = None])
    BY <1>2 DEF Delete, RollsBack, Commits
  <2>. QED
    BY <2>2, <2>3
<1>3. ASSUME NEW p \in Procs,
             \/ NotFound(p) \/ Outdated(p) \/ DeadlockVictim(p) \/ Refuse(p) \/ Resolve(p)
             \/ Fail(p) \/ ReadItem(p) \/ LockReference(p)
             \/ \E rq \in Asked[p] : Begin(p, rq)
      PROVE  rows' = rows
  BY <1>3 DEF NotFound, Outdated, DeadlockVictim, Refuse, Resolve, RollsBack, Fail, ReadItem,
              LockReference, Begin
<1>4. CASE UNCHANGED vars
  BY <1>4 DEF vars
<1>. QED
  BY <1>1, <1>2, <1>3, <1>4 DEF Next, Step

Sound == SoundRows /\ ForeignKeysHold(rows)

LEMMA SoundAtFirst == Init => Sound
BY DEF Init, Sound, SoundRows, ForeignKeysHold, RefsOf

LEMMA SoundStays == Typed /\ Sound /\ [Next]_vars => Sound'
<1>. SUFFICES ASSUME Typed, Sound, [Next]_vars PROVE Sound'
  OBVIOUS
<1>1. CASE rows' = rows
  BY <1>1 DEF Sound, SoundRows, ForeignKeysHold, RefsOf
<1>2. ASSUME NEW id \in Ids, NEW row, rows' = [rows EXCEPT ![id] = row],
             row # None => SoundRow(id, row), ForeignKeysHold(rows')
      PROVE  Sound'
  <2>1. SoundRows'
    <3>1. \A i \in Ids : rows'[i] = IF i = id THEN row ELSE rows[i]
      BY <1>2 DEF Typed, Tabled
    <3>. QED
      BY <1>2, <3>1 DEF Sound, SoundRows
  <2>2. ForeignKeysHold(rows)'
    BY <1>2 DEF ForeignKeysHold, RefsOf
  <2>. QED
    BY <2>1, <2>2 DEF Sound
<1>. QED
  BY <1>1, <1>2, RowSteps

LEMMA SoundMeans ==
    ASSUME Typed, Sound
    PROVE  RowsAreSound /\ ReferencesExist /\ ResolvesToOneKind
<1>0. /\ Ids = Roles \cup Proxies \cup Conns
      /\ Roles \cap (Proxies \cup Conns) = {}
  BY IdsAssumption DEF Ids, IdsAssumption
<1>1. /\ \A r \in Roles : rows[r] # None => rows[r] \in RoleRow
      /\ \A i \in Proxies \cup Conns : rows[i] # None => rows[i] \in Profile
  BY DEF Typed, Tabled
<1>2. RowsAreSound
  BY <1>0 DEF Sound, SoundRows, SoundRow, RowsAreSound, Exclusive, Inline
<1>3. ReferencesExist
  <2>1. \A i \in Proxies \cup Conns : rows[i] # None =>
            RefsOf(rows[i]) = {rows[i].role, rows[i].proxy} \ {None}
    BY <1>1, KindsOfRows DEF RefsOf
  <2>. QED
    BY <1>0, <2>1 DEF Sound, ForeignKeysHold, ReferencesExist
<1>4. \A i \in Proxies \cup Conns : rows[i] # None => OneKind(Offered(rows[i]))
  <2>. SUFFICES ASSUME NEW i \in Proxies \cup Conns, rows[i] # None
                PROVE  OneKind(Offered(rows[i]))
    OBVIOUS
  <2>. DEFINE row == rows[i]
  <2>1. /\ row.role \in Roles \cup {None} /\ row.inline \subseteq Inline
        /\ row.inline # Inline /\ (row.role # None => row.inline = {})
    BY <1>0, <1>1 DEF Sound, SoundRows, SoundRow, Exclusive, Profile
  <2>2. CASE row.role = None
    BY <2>1, <2>2 DEF Offered, OneKind, Inline
  <2>3. CASE row.role # None
    <3>1. row.role \in Roles /\ rows[row.role] # None
      BY <1>3, <2>1, <2>3 DEF ReferencesExist
    <3>2. /\ UsableSecrets(rows[row.role].auth, rows[row.role].secrets)
          /\ rows[row.role].auth \in {"password", "ssh_key"}
          /\ rows[row.role].auth = "ssh_key" => "password" \notin rows[row.role].secrets
      BY <1>0, <3>1 DEF Sound, SoundRows, SoundRow
    <3>3. Offered(row) = rows[row.role].secrets
      BY <2>1, <2>3 DEF Offered
    <3>. QED
      BY <3>2, <3>3 DEF OneKind, UsableSecrets
  <2>. QED
    BY <2>2, <2>3
<1>5. ResolvesToOneKind
  <2>1. \A c \in Conns : rows[c] # None /\ rows[c].proxy # None =>
            rows[c].proxy \in Proxies /\ rows[rows[c].proxy] # None
    BY <1>1, <1>3 DEF ReferencesExist, Profile
  <2>. QED
    BY <1>4, <2>1 DEF ResolvesToOneKind
<1>. QED
  BY <1>2, <1>3, <1>5

LEMMA AlwaysSound == Spec => [](Typed /\ Sound)
BY TypedAtFirst, TypedStays, SoundAtFirst, SoundStays, PTL DEF Spec

\* No sequence of merging edits leaves a row with mixed or unusable credentials: the
\* last check of each save is about the row as it will be stored.
THEOREM EditsLeaveSoundRows == Spec => []RowsAreSound
BY AlwaysSound, SoundMeans, PTL

\* Every reference can be followed, on either database, whatever saves and deletes
\* overlap: each commit is checked against the committed rows.
THEOREM NothingDangles == Spec => []ReferencesExist
BY AlwaysSound, SoundMeans, PTL

\* A login is offered one kind of credential, wherever it comes from.
THEOREM OneKindOffered == Spec => []ResolvesToOneKind
BY AlwaysSound, SoundMeans, PTL

-----------------------------------------------------------------------------
\* Resolving a connection.

\* A transaction sees a state in which every reference can be followed, and a
\* connection that is being resolved was read from that state.
WholeViews ==
    \A p \in Procs : Active(p) =>
        /\ ForeignKeysHold(view[p])
        /\ txn[p].op = "refs" /\ txn[p].rq.op = "resolve" =>
              /\ txn[p].refs = <<>>
              /\ txn[p].prev = view[p][txn[p].rq.id]

LEMMA WholeViewsStay ==
    ASSUME Typed, Sound, WholeViews, [Next]_vars
    PROVE  WholeViews'
<1>1. ASSUME NEW p \in Procs, NEW rq \in Asked[p], Begin(p, rq) PROVE WholeViews'
  <2>1. /\ view'[p] = rows /\ txn'[p].rq = rq
        /\ \A q \in Procs \ {p} : view'[q] = view[q] /\ txn'[q] = txn[q]
    BY <1>1 DEF Begin, ItemRead, Typed, TypeOK
  <2>2. ForeignKeysHold(rows)
    BY DEF Sound
  <2>3. txn'[p].op = "refs" /\ rq.op = "resolve" =>
            txn'[p].refs = <<>> /\ txn'[p].prev = rows[rq.id]
    <3>. SUFFICES ASSUME txn'[p].op = "refs", rq.op = "resolve"
                  PROVE  txn'[p].refs = <<>> /\ txn'[p].prev = rows[rq.id]
      OBVIOUS
    <3>1. rq.id # None
      BY IdAsked, IdsAssumption DEF IdsAssumption, Ids
    <3>2. ItemRead(p, rq, rows[rq.id])
      BY <1>1, <3>1 DEF Begin, Typed
    <3>. QED
      BY <3>2 DEF ItemRead, RefsToLock, Typed
  <2>. QED
    BY <2>1, <2>2, <2>3 DEF WholeViews, Active
<1>2. ASSUME NEW p \in Procs, ReadItem(p) PROVE WholeViews'
  <2>1. /\ txn' = [txn EXCEPT ![p] =
                     [op |-> "refs", rq |-> txn[p].rq, prev |-> view[p][txn[p].rq.id],
                      refs |-> RefsToLock(view[p][txn[p].rq.id], txn[p].rq)]]
        /\ view' = view /\ txn[p].op = "item"
    BY <1>2 DEF ReadItem, CanRead, ItemRead, View
  <2>2. Active(p)
    BY <2>1, Pending
  <2>3. /\ \A q \in Procs \ {p} : txn'[q] = txn[q]
        /\ txn'[p].rq = txn[p].rq /\ txn'[p].prev = view[p][txn[p].rq.id]
        /\ txn'[p].rq.op = "resolve" => txn'[p].refs = <<>>
    BY <2>1 DEF Typed, RefsToLock
  <2>. QED
    BY <2>1, <2>2, <2>3 DEF WholeViews, Active
<1>3. ASSUME NEW p \in Procs, LockReference(p) PROVE WholeViews'
  <2>1. /\ txn[p].op = "refs" /\ txn[p].refs # <<>> /\ view' = view
        /\ txn' = [txn EXCEPT ![p].refs = Tail(@)]
    BY <1>3 DEF LockReference, CanLock
  <2>2. Active(p) /\ txn[p].rq.op # "resolve"
    BY <2>1, Pending DEF WholeViews
  <2>. DEFINE t == [txn[p] EXCEPT !.refs = Tail(@)]
  <2>3. t.rq = txn[p].rq
    OBVIOUS
  <2>4. txn' = [txn EXCEPT ![p] = t]
    BY <2>1
  <2>. HIDE DEF t
  <2>5. txn'[p] = t /\ \A q \in Procs \ {p} : txn'[q] = txn[q]
    BY <2>4 DEF Typed
  <2>. QED
    BY <2>1, <2>2, <2>3, <2>5 DEF WholeViews, Active
<1>4. ASSUME NEW p \in Procs,
             txn' = [txn EXCEPT ![p] = Idle],
             view' = [view EXCEPT ![p] = [i \in Ids |-> None]]
      PROVE  WholeViews'
  <2>1. /\ txn'[p] = Idle
        /\ \A q \in Procs \ {p} : txn'[q] = txn[q] /\ view'[q] = view[q]
    BY <1>4 DEF Typed, TypeOK
  <2>. QED
    BY <2>1 DEF WholeViews, Active
<1>5. ASSUME NEW p \in Procs,
             \/ NotFound(p) \/ Outdated(p) \/ DeadlockVictim(p) \/ Refuse(p) \/ Resolve(p)
             \/ Save(p) \/ Delete(p) \/ Fail(p)
      PROVE  WholeViews'
  <2>1. \/ \E code : Ends(p, code)
        \/ \E id, row, code : Commits(p, id, row, code)
    BY <1>5 DEF NotFound, Outdated, DeadlockVictim, Refuse, Resolve, RollsBack, Save, Delete,
                Fail
  <2>. QED
    BY <1>4, <2>1 DEF Ends, Commits
<1>6. CASE UNCHANGED vars
  BY <1>6 DEF vars, WholeViews, Active
<1>. QED
  BY <1>1, <1>2, <1>3, <1>5, <1>6 DEF Next, Step

\* Who is answered tells answers apart.
LEMMA OtherAnswer ==
    ASSUME NEW p, NEW q, q # p, NEW c, NEW d
    PROVE  /\ <<q, c>> # <<p, d>>
           /\ NoAnswer # <<p, d>>
<1>1. <<q, c>>[1] = q /\ <<p, d>>[1] = p
  OBVIOUS
<1>2. Len(NoAnswer) = 0 /\ Len(<<p, d>>) = 2
  BY DEF NoAnswer
<1>3. <<q, c>> # <<p, d>>
  BY <1>1
<1>4. NoAnswer # <<p, d>>
  BY <1>2
<1>. QED
  BY <1>3, <1>4

\* While p resolves a connection it has read, no step answers it "not found".
LEMMA ResolveSteps ==
    ASSUME Typed, WholeViews, Next, NEW p \in Procs,
           txn[p].op = "refs", txn[p].rq.op = "resolve"
    PROVE  answer' # <<p, "404">>
<1>0. /\ Active(p) /\ txn[p].refs = <<>> /\ txn[p].prev = view[p][txn[p].rq.id]
      /\ ForeignKeysHold(view[p]) /\ Tabled(view[p])
      /\ txn[p].rq.id \in Conns
  BY Pending, IdAsked DEF WholeViews
<1>1. ASSUME NEW q \in Procs, Step(q) \/ Fail(q), q # p PROVE answer' # <<p, "404">>
  <2>1. \/ answer' = NoAnswer
        \/ \E code : answer' = <<q, code>>
    BY <1>1 DEF Step, ReadItem, LockReference, NotFound, Outdated, DeadlockVictim, Refuse,
                Resolve, RollsBack, Save, Delete, Fail, Ends, Commits
  <2>2. CASE answer' = NoAnswer
    BY <1>1, <2>2, OtherAnswer
  <2>3. ASSUME NEW code, answer' = <<q, code>> PROVE answer' # <<p, "404">>
    <3>1. <<q, code>> # <<p, "404">>
      BY <1>1, OtherAnswer
    <3>. QED
      BY <2>3, <3>1
  <2>. QED
    BY <2>1, <2>2, <2>3
<1>2. ASSUME NEW q \in Procs, NEW rq \in Asked[q], Begin(q, rq) PROVE answer' # <<p, "404">>
  BY <1>2 DEF Begin, NoAnswer
<1>3. CASE Resolve(p)
  <2>. DEFINE refs == RefsOf(txn[p].prev)
              all == refs \cup UNION {RefsOf(view[p][r]) : r \in refs}
  <2>1. /\ \A i \in Ids : \A r \in RefsOf(view[p][i]) : view[p][r] # None
        /\ \A i \in Ids : RefsOf(view[p][i]) \subseteq Ids
    <3>1. \A i \in Ids : view[p][i] \in RoleRow \cup Profile \cup {None}
      BY <1>0 DEF Tabled
    <3>. QED
      BY <1>0, <3>1 DEF ForeignKeysHold, RefsOf, Profile, Ids
  <2>2. \A r \in all : view[p][r] # None
    BY <1>0, <2>1 DEF Ids
  <2>3. RollsBack(p, "200")
    BY <1>3, <2>2 DEF Resolve, View
  <2>. QED
    BY <2>3 DEF RollsBack, Ends
<1>4. CASE NotFound(p) \/ Outdated(p)
  BY <1>0, <1>4 DEF NotFound, Missing, Outdated, Stale, Wanted
<1>5. CASE DeadlockVictim(p) \/ Fail(p)
  BY <1>5 DEF DeadlockVictim, Fail, RollsBack, Ends
<1>6. CASE ReadItem(p) \/ LockReference(p) \/ Refuse(p) \/ Save(p) \/ Delete(p)
  BY <1>0, <1>6 DEF ReadItem, CanRead, LockReference, CanRead, CanLock, MustRefuse, CanSave, HasRead, Refuse, Save, Delete
<1>. QED
  BY <1>1, <1>2, <1>3, <1>4, <1>5, <1>6 DEF Next, Step

\* A connection that was found resolves, however many saves and deletes are
\* committed between the statements of the transaction.
THEOREM FoundMeansResolved == Spec => FoundConnectionsResolve
<1>1. Typed /\ WholeViews /\ [Next]_vars =>
          [\A p \in Procs :
              txn[p].op = "refs" /\ txn[p].rq.op = "resolve" => answer' # <<p, "404">>]_vars
  BY ResolveSteps
<1>2. Init => WholeViews
  BY DEF Init, WholeViews, Active
<1>3. Typed /\ Sound /\ WholeViews /\ [Next]_vars => WholeViews'
  BY WholeViewsStay
<1>. QED
  BY <1>1, <1>2, <1>3, AlwaysSound, PTL DEF Spec, FoundConnectionsResolve
=============================================================================
