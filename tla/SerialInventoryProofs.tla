------------------------ MODULE SerialInventoryProofs ------------------------
(***************************************************************************)
(* Proofs that the inventory serves its requests one by one, and that its  *)
(* transactions never all wait, for any processes, identifiers, requests   *)
(* and number of failures, and for both databases.                         *)
(***************************************************************************)
EXTENDS InventoryProofs, FiniteSetTheorems

-----------------------------------------------------------------------------
\* Who holds which row, and what that says of the rows it has read.

Listed(r, refs) == \E i \in 1 .. Len(refs) : refs[i] = r

\* A transaction holds the stored row it edits or deletes, which is still as it was
\* read, and of the rows that the edited row refers to those it has locked so far.
Serves(p) ==
    LET t == txn[p] IN
    Active(p) =>
        /\ t.rq.id \in minted \cup {None}
        /\ t.op = "item" /\ t.rq.op = "resolve" => view[p][t.rq.id] = None
        /\ t.op = "refs" =>
            /\ t.refs # <<>> => t.rq.op = "save" /\ t.rq.table # Roles
            /\ t.rq.op # "resolve" =>
                  IF t.rq.id = None THEN t.prev = Unsaved(t.rq)
                  ELSE owner[t.rq.id] = p /\ t.prev = rows[t.rq.id]
            /\ t.rq.op = "save" /\ t.rq.table # Roles =>
                  \A r \in RefsOf(Edited(t.rq, t.prev)) : owner[r] = p \/ Listed(r, t.refs)

\* A lock belongs to a transaction under way, and the row it is on exists and has not
\* been changed since that transaction began.
Held ==
    \A id \in Ids : owner[id] # None =>
        /\ Active(owner[id]) /\ rows[id] # None /\ id \notin changed[owner[id]]

\* What a transaction sees is what is committed, but for the rows changed since.
Seen ==
    \A p \in Procs :
        /\ ~Active(p) => changed[p] = {}
        /\ Active(p) => \A id \in Ids : id \in changed[p] \/ view[p][id] = rows[id]

Locks ==
    /\ \A id \in Ids : rows[id] # None => id \in minted
    /\ Held
    /\ Seen
    /\ \A p \in Procs : Serves(p)

\* A reference of the edited row is one of those to lock.
LEMMA RefsListed ==
    ASSUME NEW p \in Procs, NEW rq \in Asked[p], NEW prev, ReadFor(rq, prev),
           rq.op = "save", rq.table # Roles
    PROVE  \A r \in RefsOf(Edited(rq, prev)) : r \in Ids /\ Listed(r, RefsToLock(prev, rq))
<1>. DEFINE a == Given(rq.edit.role, prev.role)
            b == Given(rq.edit.proxy, prev.proxy)
            Lock(ref) == IF ref = None THEN <<>> ELSE <<ref>>
<1>1. rq.edit \in ProfileEdit /\ prev \in Profile
  BY SaveAsked DEF ReadFor
<1>2. a \in Ids \cup {None} /\ b \in Ids \cup {None}
  BY <1>1 DEF Given, ProfileEdit, Profile, Ids
<1>3. RefsOf(Edited(rq, prev)) = {a, b} \ {None}
  <2>1. Edited(rq, prev) \in Profile
    BY <1>1, ProfileSaved DEF Edited
  <2>2. Edited(rq, prev).role = a /\ Edited(rq, prev).proxy = b
    BY DEF Edited, ProfileAfter
  <2>. QED
    BY <2>1, <2>2, KindsOfRows DEF RefsOf
<1>4. RefsToLock(prev, rq) = Lock(a) \o Lock(b)
  BY DEF RefsToLock
<1>. HIDE DEF a, b
<1>5. \A r \in {a, b} \ {None} : Listed(r, Lock(a) \o Lock(b))
  <2>1. CASE a = None /\ b # None
    BY <2>1 DEF Listed
  <2>2. CASE a # None /\ b = None
    BY <2>2 DEF Listed
  <2>3. CASE a # None /\ b # None
    <3>1. Lock(a) = <<a>> /\ Lock(b) = <<b>> /\ a \in Ids /\ b \in Ids
      BY <1>2, <2>3
    <3>. HIDE DEF Lock
    <3>2. <<a>> \in Seq(Ids) /\ <<b>> \in Seq(Ids)
      BY <3>1
    <3>3. /\ Len(<<a>> \o <<b>>) = 2
          /\ (<<a>> \o <<b>>)[1] = a /\ (<<a>> \o <<b>>)[2] = b
      BY <3>2
    <3>4. ASSUME NEW s, Len(s) = 2, s[1] = a, s[2] = b
          PROVE  Listed(a, s) /\ Listed(b, s)
      BY <3>4 DEF Listed
    <3>5. Listed(a, <<a>> \o <<b>>) /\ Listed(b, <<a>> \o <<b>>)
      BY <3>3, <3>4
    <3>. QED
      BY <3>1, <3>5
  <2>. QED
    BY <2>1, <2>2, <2>3
<1>. QED
  BY <1>2, <1>3, <1>4, <1>5

\* What the steps of others do not disturb.
LEMMA Undisturbed ==
    ASSUME Typed, NEW q \in Procs, Serves(q),
           txn'[q] = txn[q], view'[q] = view[q], minted \subseteq minted',
           \A i \in Ids : owner[i] = q => owner'[i] = q /\ rows'[i] = rows[i]
    PROVE  Serves(q)'
<1>. SUFFICES ASSUME Active(q) PROVE Serves(q)'
  BY DEF Serves, Active
<1>. DEFINE t == txn[q]
<1>1. /\ t.rq \in Asked[q] /\ t.op \in {"item", "refs"}
      /\ t.op = "refs" => ReadFor(t.rq, t.prev)
  BY Pending
<1>2. t.rq.id \in Ids \cup {None} /\ t.rq.id \in minted' \cup {None}
  BY DEF Typed, TypeOK, Serves
<1>3. ASSUME t.op = "refs", t.rq.op # "resolve", t.rq.id # None
      PROVE  owner'[t.rq.id] = q /\ t.prev = rows'[t.rq.id]
  BY <1>2, <1>3 DEF Serves
<1>4. ASSUME t.op = "refs", t.rq.op = "save", t.rq.table # Roles,
             NEW r \in RefsOf(Edited(t.rq, t.prev))
      PROVE  owner'[r] = q \/ Listed(r, t.refs)
  <2>1. r \in Ids
    BY <1>1, <1>4, RefsListed
  <2>. QED
    BY <1>4, <2>1 DEF Serves
<1>. QED
  BY <1>2, <1>3, <1>4 DEF Serves, Active

\* A transaction ends: its locks are gone, and those of the others stay.
LEMMA EndsLocks ==
    ASSUME Typed, Locks, NEW p \in Procs, NEW code, Ends(p, code),
           rows' = rows, minted \subseteq minted'
    PROVE  Locks'
<1>1. /\ txn'[p] = Idle /\ changed'[p] = {}
      /\ \A q \in Procs \ {p} :
            txn'[q] = txn[q] /\ view'[q] = view[q] /\ changed'[q] = changed[q]
      /\ \A i \in Ids : owner'[i] = IF owner[i] = p THEN None ELSE owner[i]
  BY DEF Ends, Typed, TypeOK
<1>2. ~Active(p)' /\ \A q \in Procs \ {p} : Active(q)' <=> Active(q)
  BY <1>1 DEF Active
<1>3. Held'
  BY <1>1, <1>2 DEF Locks, Held, Typed, TypeOK
<1>4. Seen'
  BY <1>1, <1>2 DEF Locks, Seen
<1>5. \A q \in Procs \ {p} : Serves(q)'
  BY <1>1, Undisturbed DEF Locks
<1>6. Serves(p)'
  BY <1>2 DEF Serves
<1>. QED
  BY <1>3, <1>4, <1>5, <1>6 DEF Locks

\* A transaction commits a row that it holds or that nobody has heard of.
LEMMA CommitsLocks ==
    ASSUME Typed, Locks, NEW p \in Procs, NEW id \in Ids, NEW row, NEW code,
           Commits(p, id, row, code),
           owner[id] = p \/ id \notin minted,
           minted \subseteq minted', row # None => id \in minted'
    PROVE  Locks'
<1>1. /\ txn'[p] = Idle /\ changed'[p] = {}
      /\ \A q \in Procs \ {p} :
            /\ txn'[q] = txn[q] /\ view'[q] = view[q]
            /\ changed'[q] = IF Active(q) THEN changed[q] \cup {id} ELSE {}
      /\ \A i \in Ids : owner'[i] = IF owner[i] = p THEN None ELSE owner[i]
      /\ \A i \in Ids : rows'[i] = IF i = id THEN row ELSE rows[i]
  BY DEF Commits, Typed, TypeOK, Rows
<1>2. ~Active(p)' /\ \A q \in Procs \ {p} : Active(q)' <=> Active(q)
  BY <1>1 DEF Active
<1>3. owner[id] = p \/ owner[id] = None
  BY DEF Locks, Held
<1>4. Held'
  <2>. SUFFICES ASSUME NEW i \in Ids, owner'[i] # None
                PROVE  (Active(owner[i]) /\ rows[i] # None /\ i \notin changed[owner[i]])'
    BY DEF Held
  <2>1. owner'[i] = owner[i] /\ owner[i] \in Procs \ {p}
    BY <1>1 DEF Typed, TypeOK
  <2>2. i # id
    BY <1>3, <2>1, IdsAssumption DEF IdsAssumption
  <2>3. Active(owner[i]) /\ rows[i] # None /\ i \notin changed[owner[i]]
    BY <2>1, IdsAssumption DEF Locks, Held, IdsAssumption
  <2>4. /\ txn'[owner[i]] = txn[owner[i]]
        /\ changed'[owner[i]] = changed[owner[i]] \cup {id} /\ rows'[i] = rows[i]
    BY <1>1, <2>1, <2>2, <2>3
  <2>. QED
    BY <2>1, <2>2, <2>3, <2>4 DEF Active
<1>5. Seen'
  <2>1. ASSUME NEW q \in Procs \ {p}, Active(q)', NEW i \in Ids
        PROVE  i \in changed'[q] \/ view'[q][i] = rows'[i]
    <3>1. Active(q)
      BY <1>2, <2>1
    <3>2. changed'[q] = changed[q] \cup {id} /\ view'[q] = view[q]
      BY <1>1, <3>1
    <3>3. i \in changed[q] \/ view[q][i] = rows[i]
      BY <3>1 DEF Locks, Seen
    <3>. QED
      BY <1>1, <3>2, <3>3
  <2>2. \A q \in Procs : ~Active(q)' => changed'[q] = {}
    BY <1>1, <1>2
  <2>. QED
    BY <1>2, <2>1, <2>2 DEF Seen
<1>6. \A q \in Procs \ {p} : \A i \in Ids : owner[i] = q => owner'[i] = q /\ rows'[i] = rows[i]
  BY <1>1, <1>3, IdsAssumption DEF IdsAssumption
<1>7. \A q \in Procs \ {p} : Serves(q)'
  BY <1>1, <1>6, Undisturbed DEF Locks
<1>8. Serves(p)'
  BY <1>2 DEF Serves
<1>9. \A i \in Ids : rows'[i] # None => i \in minted'
  BY <1>1 DEF Locks
<1>. QED
  BY <1>4, <1>5, <1>7, <1>8, <1>9 DEF Locks

\* A transaction goes on, and locks at most a row that was free and is unchanged.
LEMMA GoesOnLocks ==
    ASSUME Typed, Locks, NEW p \in Procs, NEW t, t # Idle,
           txn' = [txn EXCEPT ![p] = t],
           UNCHANGED <<rows, minted, changed>>,
           owner' \in [Ids -> Procs \cup {None}],
           \A i \in Ids : \/ owner'[i] = owner[i]
                          \/ /\ owner'[i] = p /\ Free(p, i)
                             /\ rows[i] # None /\ i \notin changed[p],
           \A q \in Procs \ {p} : view'[q] = view[q],
           \A i \in Ids : i \in changed[p] \/ view'[p][i] = rows[i],
           Serves(p)'
    PROVE  Locks'
<1>1. txn'[p] = t /\ \A q \in Procs \ {p} : txn'[q] = txn[q]
  BY DEF Typed
<1>2. Active(p)' /\ \A q \in Procs \ {p} : Active(q)' <=> Active(q)
  BY <1>1 DEF Active
<1>3. Held'
  BY <1>1, <1>2 DEF Locks, Held, Typed, TypeOK
<1>4. Seen'
  BY <1>1, <1>2 DEF Locks, Seen
<1>5. \A q \in Procs \ {p} : \A i \in Ids : owner[i] = q => owner'[i] = q /\ rows'[i] = rows[i]
  BY IdsAssumption DEF Free, IdsAssumption
<1>6. \A q \in Procs \ {p} : Serves(q)'
  BY <1>1, <1>5, Undisturbed DEF Locks
<1>. QED
  BY <1>3, <1>4, <1>6 DEF Locks

\* A save that passes its checks is about the row as it is stored, which it holds, and
\* about rows that are there: it always commits.
LEMMA SaveCommits ==
    ASSUME Typed, Sound, Locks, NEW p \in Procs, Save(p)
    PROVE  LET rq == txn[p].rq  prev == txn[p].prev
           IN  /\ Active(p) /\ rq.op = "save" /\ ~Refused(rq, prev)
               /\ \A r \in RefsOf(Edited(rq, prev)) : rows[r] # None
               /\ \E id \in SaveableIds(rq) :
                     /\ id \in Ids /\ Edited(rq, prev) # None
                     /\ IF rq.id = None THEN id \notin minted /\ prev = Unsaved(rq)
                        ELSE owner[id] = p /\ rows[id] # None /\ prev = rows[id]
                     /\ minted' = minted \cup {id}
                     /\ Commits(p, id, Edited(rq, prev), "200")
<1>. DEFINE rq == txn[p].rq
            prev == txn[p].prev
            row == Edited(rq, prev)
<1>1. /\ txn[p].op = "refs" /\ rq.op = "save" /\ txn[p].refs = <<>> /\ ~Refused(rq, prev)
  BY DEF Save, CanSave, HasRead
<1>2. Active(p) /\ rq \in Asked[p] /\ ReadFor(rq, prev)
  BY <1>1, Pending
<1>3. PICK id \in SaveableIds(rq) :
          /\ minted' = minted \cup {id}
          /\ IF ForeignKeysHold([rows EXCEPT ![id] = row]) THEN Commits(p, id, row, "200")
             ELSE Ends(p, "409") /\ UNCHANGED <<backend, rows, faults>>
  BY DEF Save
<1>4. /\ id \in Ids /\ row # None
      /\ rq.table = Roles => row \in RoleRow
  BY <1>1, SavedRow, KindsOfRows DEF Ids
<1>5. IF rq.id = None THEN id \notin minted /\ prev = Unsaved(rq)
      ELSE owner[id] = p /\ rows[id] # None /\ prev = rows[id]
  <2>1. IF rq.id = None THEN prev = Unsaved(rq) ELSE owner[rq.id] = p /\ prev = rows[rq.id]
    BY <1>1, <1>2 DEF Locks, Serves
  <2>2. rq.id = None => id \notin minted
    BY <1>3 DEF SaveableIds
  <2>3. rq.id # None => id = rq.id
    BY <1>3 DEF SaveableIds
  <2>4. owner[id] = p => rows[id] # None
    BY <1>4, IdsAssumption DEF Locks, Held, IdsAssumption
  <2>. QED
    BY <2>1, <2>2, <2>3, <2>4
<1>6. \A r \in RefsOf(row) : r \in Ids /\ rows[r] # None
  <2>1. CASE rq.table = Roles
    BY <1>4, <2>1 DEF RefsOf
  <2>2. CASE rq.table # Roles
    <3>1. ASSUME NEW r \in RefsOf(row) PROVE r \in Ids /\ owner[r] = p
      <4>1. owner[r] = p \/ Listed(r, <<>>)
        BY <1>1, <1>2, <2>2 DEF Locks, Serves
      <4>2. ~Listed(r, <<>>)
        BY DEF Listed
      <4>. QED
        BY <1>1, <1>2, <2>2, <4>1, <4>2, RefsListed
    <3>. QED
      BY <3>1, IdsAssumption DEF Locks, Held, IdsAssumption
  <2>. QED
    BY <2>1, <2>2
<1>7. ForeignKeysHold([rows EXCEPT ![id] = row])
  <2>. DEFINE db == [rows EXCEPT ![id] = row]
  <2>1. \A i \in Ids : db[i] = IF i = id THEN row ELSE rows[i]
    BY DEF Typed, Tabled
  <2>2. \A i \in Ids : \A r \in RefsOf(rows[i]) : r \in Ids /\ rows[r] # None
    <3>1. \A i \in Ids : rows[i] \in RoleRow \cup Profile \cup {None}
      BY DEF Typed, Tabled
    <3>2. \A i \in Ids : RefsOf(rows[i]) \subseteq Ids
      BY <3>1 DEF RefsOf, Profile, Ids
    <3>. QED
      BY <3>2 DEF Sound, ForeignKeysHold
  <2>. HIDE DEF db, row
  <2>3. \A i \in Ids : \A r \in RefsOf(db[i]) : r \in Ids /\ rows[r] # None
    BY <1>6, <2>1, <2>2
  <2>4. \A i \in Ids : \A r \in RefsOf(db[i]) : db[r] # None
    BY <1>4, <2>1, <2>3
  <2>. QED
    BY <2>4 DEF ForeignKeysHold, db
<1>. QED
  BY <1>1, <1>2, <1>3, <1>4, <1>5, <1>6, <1>7

LEMMA LocksAtFirst == Init => Locks
<1>. SUFFICES ASSUME Init PROVE Locks
  OBVIOUS
<1>1. \A p \in Procs : ~Active(p)
  BY DEF Init, Active
<1>. QED
  BY <1>1 DEF Init, Locks, Held, Seen, Serves

\* A transaction has read, and locked, the row that is stored.
LEMMA ItemReadServes ==
    ASSUME Typed, NEW p \in Procs, NEW rq \in Asked[p], NEW prev, ReadFor(rq, prev),
           ItemRead(p, rq, prev), rows' = rows, rq.id \in minted' \cup {None},
           rq.op # "resolve" =>
              IF rq.id = None THEN prev = Unsaved(rq) ELSE rq.id \in Ids /\ prev = rows[rq.id]
    PROVE  Serves(p)'
<1>. DEFINE t == [op |-> "refs", rq |-> rq, prev |-> prev, refs |-> RefsToLock(prev, rq)]
<1>1. txn'[p] = t /\ \A i \in Ids : owner'[i] = IF i = rq.id /\ rq.op # "resolve" THEN p ELSE owner[i]
  BY DEF ItemRead, Typed
<1>2. t.refs # <<>> => rq.op = "save" /\ rq.table # Roles
  BY DEF RefsToLock
<1>3. rq.op = "save" /\ rq.table # Roles =>
          \A r \in RefsOf(Edited(rq, prev)) : Listed(r, t.refs)
  BY RefsListed
<1>4. t.op = "refs" /\ t.rq = rq /\ t.prev = prev
  OBVIOUS
<1>. HIDE DEF t
<1>. QED
  BY <1>1, <1>2, <1>3, <1>4 DEF Serves

LEMMA BeginLocks ==
    ASSUME Typed, Locks, NEW p \in Procs, NEW rq \in Asked[p], Begin(p, rq)
    PROVE  Locks'
<1>1. /\ ~Active(p) /\ view' = [view EXCEPT ![p] = rows]
      /\ UNCHANGED <<rows, minted, changed>>
  BY DEF Begin
<1>2. changed[p] = {} /\ view'[p] = rows /\ \A q \in Procs \ {p} : view'[q] = view[q]
  BY <1>1 DEF Locks, Seen, Typed, TypeOK
<1>3. rq.op \in {"save", "delete", "resolve"} /\ rq.id \in Ids \cup {None}
  BY IdAsked
<1>4. ASSUME NEW prev, ReadFor(rq, prev), ItemRead(p, rq, prev), rq.id \in minted \cup {None},
             rq.op # "resolve" =>
                IF rq.id = None THEN prev = Unsaved(rq) ELSE rq.id \in Ids /\ prev = rows[rq.id],
             rq.id \in Ids /\ rq.op # "resolve" => rows[rq.id] # None /\ Free(p, rq.id)
      PROVE  Locks'
  <2>. DEFINE t == [op |-> "refs", rq |-> rq, prev |-> prev, refs |-> RefsToLock(prev, rq)]
  <2>1. Serves(p)'
    BY <1>1, <1>4, ItemReadServes
  <2>2. txn' = [txn EXCEPT ![p] = t]
    BY <1>4 DEF ItemRead
  <2>3. t # Idle
    BY DEF Idle
  <2>4. owner' \in [Ids -> Procs \cup {None}]
    BY <1>4 DEF ItemRead, Typed, TypeOK
  <2>5. \A i \in Ids : \/ owner'[i] = owner[i]
                       \/ /\ owner'[i] = p /\ Free(p, i)
                          /\ rows[i] # None /\ i \notin changed[p]
    BY <1>2, <1>4 DEF ItemRead
  <2>. HIDE DEF t
  <2>. QED
    BY <1>1, <1>2, <2>1, <2>2, <2>3, <2>4, <2>5, GoesOnLocks
<1>5. CASE rq.id = None /\ ItemRead(p, rq, Unsaved(rq))
  <2>1. rq.op = "save" /\ rq.id \notin Ids
    BY <1>5, IdAsked, IdsAssumption DEF IdsAssumption
  <2>2. ReadFor(rq, Unsaved(rq))
    BY <2>1, KindsOfRows DEF ReadFor, Unsaved
  <2>. QED
    BY <1>4, <1>5, <2>1, <2>2
<1>6. CASE /\ rq.id \in minted /\ rows[rq.id] # None
           /\ rq.op # "resolve" => Free(p, rq.id)
           /\ ItemRead(p, rq, rows[rq.id])
  <2>1. rq.id \in Ids /\ rq.id # None
    BY <1>6, IdsAssumption DEF Typed, TypeOK, IdsAssumption
  <2>2. ReadFor(rq, rows[rq.id])
    BY <1>6, <2>1, ReadTyped DEF Typed
  <2>. QED
    BY <1>4, <1>6, <2>1, <2>2
<1>7. CASE /\ rq.id \in minted
           /\ rows[rq.id] = None \/ (rq.op # "resolve" /\ ~Free(p, rq.id))
           /\ txn' = [txn EXCEPT ![p] = [op |-> "item", rq |-> rq, prev |-> None, refs |-> <<>>]]
           /\ UNCHANGED owner
  <2>. DEFINE t == [op |-> "item", rq |-> rq, prev |-> None, refs |-> <<>>]
  <2>1. t.op = "item" /\ t.rq = rq /\ t # Idle /\ txn' = [txn EXCEPT ![p] = t]
    BY <1>7 DEF Idle
  <2>2. owner' \in [Ids -> Procs \cup {None}] /\ owner' = owner
    BY <1>7 DEF Typed, TypeOK
  <2>. HIDE DEF t
  <2>3. txn'[p] = t
    BY <2>1 DEF Typed
  <2>4. Serves(p)'
    BY <1>1, <1>2, <1>7, <2>1, <2>3 DEF Serves
  <2>. QED
    BY <1>1, <1>2, <2>1, <2>2, <2>4, GoesOnLocks
<1>. QED
  BY <1>5, <1>6, <1>7 DEF Begin

LEMMA ReadItemLocks ==
    ASSUME Typed, Locks, NEW p \in Procs, ReadItem(p)
    PROVE  Locks'
<1>. DEFINE rq == txn[p].rq
            prev == View(p)[rq.id]
            t == [op |-> "refs", rq |-> rq, prev |-> prev, refs |-> RefsToLock(prev, rq)]
<1>1. /\ txn[p].op = "item" /\ view[p][rq.id] # None /\ Free(p, rq.id) /\ rq.id \notin changed[p]
      /\ ItemRead(p, rq, prev)
      /\ UNCHANGED <<rows, minted, view, changed>>
  BY DEF ReadItem, CanRead, View
<1>2. Active(p) /\ rq \in Asked[p] /\ Tabled(view[p]) /\ rq.id \in Ids
  BY <1>1, Pending DEF Typed, Idle, Waits
<1>3. prev = rows[rq.id] /\ rows[rq.id] # None
  BY <1>1, <1>2 DEF Locks, Seen, View
<1>4. ReadFor(rq, prev) /\ rq.id \in minted /\ rq.id # None
  BY <1>1, <1>2, <1>3, ReadTyped, IdsAssumption DEF View, Locks, IdsAssumption
<1>5. Serves(p)'
  BY <1>1, <1>2, <1>3, <1>4, ItemReadServes
<1>6. txn' = [txn EXCEPT ![p] = t]
  BY <1>1 DEF ItemRead
<1>7. t # Idle
  BY DEF Idle
<1>8. owner' \in [Ids -> Procs \cup {None}]
  BY <1>1 DEF ItemRead, Typed, TypeOK
<1>9. \A i \in Ids : \/ owner'[i] = owner[i]
                     \/ /\ owner'[i] = p /\ Free(p, i)
                        /\ rows[i] # None /\ i \notin changed[p]
  BY <1>1, <1>3 DEF ItemRead
<1>10. \A i \in Ids : i \in changed[p] \/ view'[p][i] = rows[i]
  BY <1>1, <1>2 DEF Locks, Seen
<1>. HIDE DEF t
<1>. QED
  BY <1>1, <1>5, <1>6, <1>7, <1>8, <1>9, <1>10, GoesOnLocks

LEMMA LockReferenceLocks ==
    ASSUME Typed, Locks, NEW p \in Procs, LockReference(p)
    PROVE  Locks'
<1>. DEFINE t == [txn[p] EXCEPT !.refs = Tail(@)]
            ref == Head(txn[p].refs)
<1>1. /\ txn[p].op = "refs" /\ txn[p].refs # <<>>
      /\ view[p][ref] # None /\ Free(p, ref) /\ ref \notin changed[p]
      /\ owner' = [owner EXCEPT ![ref] = p]
      /\ txn' = [txn EXCEPT ![p].refs = Tail(@)]
      /\ UNCHANGED <<rows, minted, view, changed>>
  BY DEF LockReference, CanLock, View
<1>2. Active(p) /\ txn[p].refs \in Seq(Ids) /\ txn[p].rq \in Asked[p]
      /\ ReadFor(txn[p].rq, txn[p].prev)
  BY <1>1, Pending
<1>3. ref \in Ids /\ view[p][ref] = rows[ref]
  BY <1>1, <1>2 DEF Locks, Seen
<1>4. /\ txn' = [txn EXCEPT ![p] = t]
      /\ t.op = "refs" /\ t.rq = txn[p].rq /\ t.prev = txn[p].prev /\ t.refs = Tail(txn[p].refs)
  BY <1>1
<1>. HIDE DEF t
<1>5. t # Idle /\ txn'[p] = t
  BY <1>4 DEF Idle, Typed
<1>6. owner' \in [Ids -> Procs \cup {None}]
  BY <1>1 DEF Typed, TypeOK
<1>7. \A i \in Ids : owner'[i] = IF i = ref THEN p ELSE owner[i]
  BY <1>1 DEF Typed, TypeOK
<1>8. \A r : Listed(r, txn[p].refs) => r = ref \/ Listed(r, t.refs)
  <2>. SUFFICES ASSUME NEW i \in 1 .. Len(txn[p].refs), i # 1
                PROVE  /\ i - 1 \in 1 .. Len(Tail(txn[p].refs))
                       /\ txn[p].refs[i] = Tail(txn[p].refs)[i - 1]
    BY <1>2, <1>4 DEF Listed
  <2>. QED
    BY <1>1, <1>2
<1>9. Serves(p)'
  <2>1. t.refs # <<>> => t.rq.op = "save" /\ t.rq.table # Roles
    BY <1>1, <1>2, <1>4 DEF Locks, Serves
  <2>2. ASSUME t.rq.op # "resolve"
        PROVE  IF t.rq.id = None THEN t.prev = Unsaved(t.rq)
               ELSE owner[t.rq.id] = p /\ t.prev = rows[t.rq.id]
    BY <1>1, <1>2, <1>4, <2>2 DEF Locks, Serves
  <2>3. t.rq.id \in minted \cup {None} /\ t.rq.id \in Ids \cup {None}
    BY <1>2, <1>4 DEF Locks, Serves, Typed, TypeOK
  <2>4. ASSUME t.rq.op = "save", t.rq.table # Roles, NEW r \in RefsOf(Edited(t.rq, t.prev))
        PROVE  owner'[r] = p \/ Listed(r, t.refs)
    <3>1. r \in Ids
      BY <1>2, <1>4, <2>4, RefsListed
    <3>2. owner[r] = p \/ Listed(r, txn[p].refs)
      BY <1>1, <1>2, <1>4, <2>4 DEF Locks, Serves
    <3>. QED
      BY <1>7, <1>8, <3>1, <3>2
  <2>5. \A i \in Ids : owner[i] = p => owner'[i] = p
    BY <1>7
  <2>. QED
    BY <1>1, <1>4, <1>5, <2>1, <2>2, <2>3, <2>4, <2>5 DEF Serves
<1>. QED
  <2>1. \A i \in Ids : \/ owner'[i] = owner[i]
                       \/ /\ owner'[i] = p /\ Free(p, i)
                          /\ rows[i] # None /\ i \notin changed[p]
    BY <1>1, <1>3, <1>7
  <2>2. \A i \in Ids : i \in changed[p] \/ view'[p][i] = rows[i]
    BY <1>1, <1>2 DEF Locks, Seen
  <2>. QED
    BY <1>1, <1>4, <1>5, <1>6, <1>9, <2>1, <2>2, GoesOnLocks

LEMMA LocksStay ==
    ASSUME Typed, Sound, Locks, [Next]_vars
    PROVE  Locks'
<1>1. ASSUME NEW p \in Procs, NEW rq \in Asked[p], Begin(p, rq) PROVE Locks'
  BY <1>1, BeginLocks
<1>2. ASSUME NEW p \in Procs, ReadItem(p) PROVE Locks'
  BY <1>2, ReadItemLocks
<1>3. ASSUME NEW p \in Procs, LockReference(p) PROVE Locks'
  BY <1>3, LockReferenceLocks
<1>4. ASSUME NEW p \in Procs, NEW code, RollsBack(p, code) PROVE Locks'
  BY <1>4, EndsLocks DEF RollsBack
<1>5. ASSUME NEW p \in Procs,
             NotFound(p) \/ Outdated(p) \/ DeadlockVictim(p) \/ Refuse(p) \/ Resolve(p)
      PROVE  Locks'
  <2>1. \E code : RollsBack(p, code)
    BY <1>5 DEF NotFound, Outdated, DeadlockVictim, Refuse, Resolve
  <2>. QED
    BY <1>4, <2>1
<1>6. ASSUME NEW p \in Procs, Save(p) PROVE Locks'
  <2>. DEFINE rq == txn[p].rq
              row == Edited(rq, txn[p].prev)
  <2>1. PICK id \in SaveableIds(rq) :
            /\ id \in Ids /\ row # None
            /\ owner[id] = p \/ id \notin minted
            /\ minted' = minted \cup {id}
            /\ Commits(p, id, row, "200")
    BY <1>6, SaveCommits
  <2>. HIDE DEF row
  <2>. QED
    BY <2>1, CommitsLocks
<1>7. ASSUME NEW p \in Procs, Delete(p) PROVE Locks'
  <2>1. txn[p].op = "refs" /\ txn[p].rq.op = "delete"
    BY <1>7 DEF Delete, HasRead
  <2>2. Active(p) /\ txn[p].rq \in Asked[p] /\ txn[p].rq.id \in Ids
    BY <2>1, Pending, IdAsked
  <2>3. owner[txn[p].rq.id] = p
    BY <2>1, <2>2, IdsAssumption DEF Locks, Serves, IdsAssumption
  <2>4. CASE RollsBack(p, "409")
    BY <1>4, <2>4
  <2>5. CASE Commits(p, txn[p].rq.id, None, "204") /\ UNCHANGED minted
    BY <2>2, <2>3, <2>5, CommitsLocks
  <2>. QED
    BY <1>7, <2>4, <2>5 DEF Delete
<1>8. ASSUME NEW p \in Procs, Fail(p) PROVE Locks'
  <2>1. PICK code \in {"503", "none"} : Ends(p, code)
    BY <1>8 DEF Fail
  <2>. QED
    BY <1>8, <2>1, EndsLocks DEF Fail
<1>9. CASE UNCHANGED vars
  BY <1>9 DEF vars, Locks, Held, Seen, Serves, Active
<1>. QED
  BY <1>1, <1>2, <1>3, <1>5, <1>6, <1>7, <1>8, <1>9 DEF Next, Step

LEMMA AlwaysLocked == Spec => [](Typed /\ Sound /\ Locks)
BY TypedAtFirst, TypedStays, SoundAtFirst, SoundStays, LocksAtFirst, LocksStay, PTL DEF Spec

-----------------------------------------------------------------------------
\* The inventory implements SerialInventory.

\* A process is over with its request, and answers it.
LEMMA Answered ==
    ASSUME Typed, NEW p \in Procs, Active(p), NEW codes, NEW code \in codes,
           txn' = [txn EXCEPT ![p] = Idle], answer' = <<p, code>>
    PROVE  Serial!Answers(p, codes)
<1>. DEFINE pending == [q \in Procs |-> IF Active(q) THEN txn[q].rq ELSE Idle]
<1>1. pending[p] # Idle
  <2>1. txn[p].rq.op \in {"save", "delete", "resolve"}
    BY Pending, IdAsked
  <2>. QED
    BY <2>1 DEF Idle
<1>2. txn'[p] = Idle /\ \A q \in Procs \ {p} : txn'[q] = txn[q]
  BY DEF Typed
<1>3. ~Active(p)' /\ \A q \in Procs \ {p} : (Active(q)' <=> Active(q)) /\ txn'[q].rq = txn[q].rq
  BY <1>2 DEF Active
<1>4. pending' = [pending EXCEPT ![p] = Idle]
  BY <1>3
<1>. QED
  BY <1>1, <1>4 DEF Serial!Answers, Serial!Idle, Idle

LEMMA Declined ==
    ASSUME Typed, NEW p \in Procs, Active(p), NEW code, Ends(p, code),
           UNCHANGED <<rows, minted>>,
           code \in {"400", "404", "503", "none"} \/ (code = "409" /\ txn[p].rq.op = "delete")
    PROVE  Serial!Next
<1>. DEFINE pending == [q \in Procs |-> IF Active(q) THEN txn[q].rq ELSE Idle]
            codes == {"400", "404", "503", "none"} \cup
                        (IF pending[p].op = "delete" THEN {"409"} ELSE {})
<1>1. pending[p] = txn[p].rq
  OBVIOUS
<1>2. code \in codes
  BY <1>1
<1>3. Serial!Answers(p, {code})
  BY Answered DEF Ends
<1>4. Serial!Decline(p)
  BY <1>2, <1>3 DEF Serial!Decline, Serial!Answers
<1>. QED
  BY <1>4 DEF Serial!Next

LEMMA BeginAccepts ==
    ASSUME Typed, NEW p \in Procs, NEW rq \in Asked[p], Begin(p, rq)
    PROVE  Serial!Next
<1>. DEFINE pending == [q \in Procs |-> IF Active(q) THEN txn[q].rq ELSE Idle]
<1>1. ~Active(p) /\ answer' = <<>> /\ UNCHANGED <<rows, minted>>
  BY DEF Begin, NoAnswer
<1>2. /\ txn'[p].op \in {"item", "refs"} /\ txn'[p].rq = rq
      /\ \A q \in Procs \ {p} : txn'[q] = txn[q]
  BY DEF Begin, ItemRead, Typed
<1>3. Active(p)' /\ \A q \in Procs \ {p} : (Active(q)' <=> Active(q)) /\ txn'[q].rq = txn[q].rq
  BY <1>2 DEF Active, Idle
<1>4. pending' = [pending EXCEPT ![p] = rq]
  BY <1>2, <1>3
<1>5. pending[p] = Serial!Idle
  BY <1>1 DEF Idle, Serial!Idle
<1>6. Serial!Accept(p, rq)
  BY <1>1, <1>4, <1>5 DEF Serial!Accept
<1>. QED
  BY <1>6 DEF Serial!Next

\* Locks are not seen by the clients.
LEMMA LocksAreHidden ==
    ASSUME Typed, NEW p \in Procs, ReadItem(p) \/ LockReference(p)
    PROVE  Serial!Next
<1>. DEFINE pending == [q \in Procs |-> IF Active(q) THEN txn[q].rq ELSE Idle]
<1>1. Active(p) /\ answer' = <<>> /\ UNCHANGED <<rows, minted>>
  BY Pending DEF ReadItem, CanRead, LockReference, CanLock, NoAnswer
<1>2. ASSUME NEW t, txn' = [txn EXCEPT ![p] = t], t.op = "refs", t.rq = txn[p].rq
      PROVE  Serial!Next
  <2>1. txn'[p] = t /\ \A q \in Procs \ {p} : txn'[q] = txn[q]
    BY <1>2 DEF Typed
  <2>2. \A q \in Procs : (Active(q)' <=> Active(q)) /\ txn'[q].rq = txn[q].rq
    BY <1>1, <1>2, <2>1 DEF Active, Idle
  <2>3. pending' = pending
    BY <2>2
  <2>4. Serial!Wait
    BY <1>1, <2>3 DEF Serial!Wait
  <2>. QED
    BY <2>4 DEF Serial!Next
<1>3. CASE ReadItem(p)
  BY <1>2, <1>3 DEF ReadItem, ItemRead
<1>4. CASE LockReference(p)
  <2>. DEFINE t == [txn[p] EXCEPT !.refs = Tail(@)]
  <2>1. txn' = [txn EXCEPT ![p] = t] /\ t.op = "refs" /\ t.rq = txn[p].rq
    BY <1>4 DEF LockReference, CanLock
  <2>. HIDE DEF t
  <2>. QED
    BY <1>2, <2>1
<1>. QED
  BY <1>3, <1>4

\* A save is served on the row as it is.
LEMMA SaveIsServed ==
    ASSUME Typed, Sound, Locks, NEW p \in Procs, Save(p)
    PROVE  Serial!Next
<1>. DEFINE rq == txn[p].rq
            prev == txn[p].prev
            row == Edited(rq, prev)
<1>1. /\ Active(p) /\ rq.op = "save" /\ ~Refused(rq, prev)
      /\ \A r \in RefsOf(row) : rows[r] # None
  BY SaveCommits
<1>2. PICK id \in SaveableIds(rq) :
          /\ IF rq.id = None THEN prev = Unsaved(rq) ELSE rows[id] # None /\ prev = rows[id]
          /\ minted' = minted \cup {id}
          /\ Commits(p, id, row, "200")
  BY SaveCommits
<1>3. Serial!Answers(p, {"200", "503"})
  BY <1>1, <1>2, Answered DEF Commits
<1>4. rows' = [rows EXCEPT ![id] = row]
  BY <1>2 DEF Commits
<1>5. prev = IF rq.id = None THEN Unsaved(rq) ELSE rows[id]
  BY <1>2
<1>6. Serial!Save(p)
  BY <1>1, <1>2, <1>3, <1>4, <1>5 DEF Serial!Save, SaveableIds
<1>. QED
  BY <1>6 DEF Serial!Next

\* A row is deleted while nothing refers to it.
LEMMA DeleteIsServed ==
    ASSUME Typed, Locks, NEW p \in Procs, Delete(p)
    PROVE  Serial!Next
<1>. DEFINE id == txn[p].rq.id
<1>1. txn[p].op = "refs" /\ txn[p].rq.op = "delete"
  BY DEF Delete, HasRead
<1>2. Active(p) /\ txn[p].rq \in Asked[p] /\ id \in Ids /\ id # None
  BY <1>1, Pending, IdAsked, IdsAssumption DEF IdsAssumption
<1>3. CASE RollsBack(p, "409")
  BY <1>1, <1>2, <1>3, Declined DEF RollsBack
<1>4. CASE /\ ~Referenced(View(p), id) /\ ForeignKeysHold([rows EXCEPT ![id] = None])
           /\ Commits(p, id, None, "204") /\ UNCHANGED minted
  <2>1. owner[id] = p
    BY <1>1, <1>2 DEF Locks, Serves
  <2>2. rows[id] # None /\ id \notin changed[p]
    BY <1>2, <2>1, IdsAssumption DEF Locks, Held, IdsAssumption
  <2>3. id \notin RefsOf(rows[id])
    <3>1. view[p][id] = rows[id]
      BY <1>2, <2>2 DEF Locks, Seen
    <3>. QED
      BY <1>2, <1>4, <3>1 DEF Referenced, View
  <2>4. \A i \in Ids : id \notin RefsOf(rows[i])
    <3>1. \A i \in Ids : [rows EXCEPT ![id] = None][i] = IF i = id THEN None ELSE rows[i]
      BY DEF Typed, Tabled
    <3>. QED
      BY <1>2, <1>4, <2>3, <3>1 DEF ForeignKeysHold
  <2>5. Serial!Answers(p, {"204", "503"})
    BY <1>2, <1>4, Answered DEF Commits
  <2>6. Serial!Delete(p)
    BY <1>1, <1>2, <1>4, <2>2, <2>4, <2>5 DEF Serial!Delete, Commits
  <2>. QED
    BY <2>6 DEF Serial!Next
<1>. QED
  BY <1>3, <1>4 DEF Delete

LEMMA StepsAreServed ==
    ASSUME Typed, Sound, Locks, [Next]_vars
    PROVE  [Serial!Next]_(Serial!vars)
<1>1. ASSUME NEW p \in Procs, NEW rq \in Asked[p], Begin(p, rq) PROVE Serial!Next
  BY <1>1, BeginAccepts
<1>2. ASSUME NEW p \in Procs, ReadItem(p) \/ LockReference(p) PROVE Serial!Next
  BY <1>2, LocksAreHidden
<1>3. ASSUME NEW p \in Procs, NEW code \in {"400", "404", "503", "none"}, Active(p), RollsBack(p, code)
      PROVE  Serial!Next
  BY <1>3, Declined DEF RollsBack
<1>4. ASSUME NEW p \in Procs, NotFound(p) \/ Outdated(p) PROVE Serial!Next
  <2>1. Wanted(p) # {}
    BY <1>4 DEF NotFound, Missing, Outdated, Stale
  <2>2. Active(p)
    BY <2>1, Pending DEF Wanted
  <2>. QED
    BY <1>3, <1>4, <2>2 DEF NotFound, Outdated
<1>5. ASSUME NEW p \in Procs, DeadlockVictim(p) PROVE Serial!Next
  <2>1. Wanted(p) # {}
    BY <1>5 DEF DeadlockVictim, Deadlocked, Blocks
  <2>2. Active(p)
    BY <2>1, Pending DEF Wanted
  <2>. QED
    BY <1>3, <1>5, <2>2 DEF DeadlockVictim
<1>6. ASSUME NEW p \in Procs, Refuse(p) PROVE Serial!Next
  <2>1. Active(p)
    BY <1>6, Pending DEF Refuse, MustRefuse, HasRead
  <2>. QED
    BY <1>3, <1>6, <2>1 DEF Refuse
<1>7. ASSUME NEW p \in Procs, Resolve(p) PROVE Serial!Next
  <2>1. Active(p) /\ txn[p].rq.op = "resolve"
    BY <1>7, Pending DEF Resolve, HasRead
  <2>2. CASE RollsBack(p, "404")
    BY <1>3, <2>1, <2>2
  <2>3. CASE RollsBack(p, "200")
    <3>1. Serial!Answers(p, {"200"})
      BY <2>1, <2>3, Answered DEF RollsBack, Ends
    <3>2. Serial!Resolve(p)
      BY <2>1, <2>3, <3>1 DEF Serial!Resolve, RollsBack
    <3>. QED
      BY <3>2 DEF Serial!Next
  <2>. QED
    BY <1>7, <2>2, <2>3 DEF Resolve
<1>8. ASSUME NEW p \in Procs, Save(p) PROVE Serial!Next
  BY <1>8, SaveIsServed
<1>9. ASSUME NEW p \in Procs, Delete(p) PROVE Serial!Next
  BY <1>9, DeleteIsServed
<1>10. ASSUME NEW p \in Procs, Fail(p) PROVE Serial!Next
  BY <1>10, Declined DEF Fail
<1>11. CASE UNCHANGED vars
  BY <1>11 DEF vars, Serial!vars, Active
<1>. QED
  BY <1>1, <1>2, <1>4, <1>5, <1>6, <1>7, <1>8, <1>9, <1>10, <1>11 DEF Next, Step

\* ServedOneByOne: every edit is merged into the row as it is stored when it commits,
\* every reference of a saved row is there, nothing refers to a row that is deleted,
\* and no save meets a conflict, however the transactions of the gateways interleave.
THEOREM RequestsAreSerial == Spec => ServedOneByOne
<1>1. Init => Serial!Init
  <2>. SUFFICES ASSUME Init PROVE Serial!Init
    OBVIOUS
  <2>1. \A p \in Procs : ~Active(p)
    BY DEF Init, Active
  <2>. QED
    BY <2>1 DEF Init, Serial!Init, Idle, Serial!Idle, NoAnswer
<1>2. Typed /\ Sound /\ Locks /\ [Next]_vars => [Serial!Next]_(Serial!vars)
  BY StepsAreServed
<1>. QED
  BY <1>1, <1>2, AlwaysLocked, PTL DEF Spec, ServedOneByOne, Serial!Spec

-----------------------------------------------------------------------------
\* Some transaction can always proceed.

Creators(txns, table) ==
    {p \in Procs : txns[p] # Idle /\ txns[p].rq.op = "save" /\ txns[p].rq.id = None
                                 /\ txns[p].rq.table = table}

\* Every transaction that creates a row will find an identifier.
Room == \A table \in {Roles, Proxies, Conns} :
            Cardinality(Creators(txn, table)) <= Cardinality(table \ minted)

LEMMA CreatorsAfter ==
    ASSUME Typed, NEW p \in Procs, NEW t, txn' = [txn EXCEPT ![p] = t], NEW table
    PROVE  /\ \A q \in Creators(txn', table) : q \in Creators(txn, table) \cup {p}
           /\ \A q \in Creators(txn, table) : q \in Creators(txn', table) \cup {p}
           /\ p \in Creators(txn', table) <=>
                 t # Idle /\ t.rq.op = "save" /\ t.rq.id = None /\ t.rq.table = table
<1>1. txn'[p] = t /\ \A q \in Procs \ {p} : txn'[q] = txn[q]
  BY DEF Typed
<1>. QED
  BY <1>1 DEF Creators

\* The sets that are counted are finite.
LEMMA Countable ==
    ASSUME NEW table \in {Roles, Proxies, Conns}, NEW S, NEW T
    PROVE  IsFiniteSet(table \ S) /\ IsFiniteSet(Creators(txn, table) \ T)
<1>1. table \ S \in SUBSET Ids /\ Creators(txn, table) \ T \in SUBSET Procs
  BY DEF Ids, Creators
<1>. QED
  BY <1>1, FiniteAssumption, FS_Subset DEF FiniteAssumption

\* A step that starts no creation and takes no identifier leaves enough of them.
LEMMA FewerCreators ==
    ASSUME Typed, Room, NEW p \in Procs, NEW t, txn' = [txn EXCEPT ![p] = t],
           t = Idle \/ t.rq.op # "save" \/ t.rq.id # None \/ (Active(p) /\ t.rq = txn[p].rq),
           minted' = minted
    PROVE  Room'
<1>. SUFFICES ASSUME NEW table \in {Roles, Proxies, Conns}
              PROVE  Cardinality(Creators(txn', table)) <= Cardinality(table \ minted)
  BY DEF Room
<1>1. Creators(txn', table) \subseteq Creators(txn, table)
  BY CreatorsAfter DEF Creators, Active
<1>2. IsFiniteSet(Creators(txn, table)) /\ IsFiniteSet(table \ minted)
  <2>1. IsFiniteSet(Creators(txn, table) \ {})
    BY Countable
  <2>. QED
    BY <2>1, Countable
<1>3. Cardinality(Creators(txn', table)) <= Cardinality(Creators(txn, table))
  BY <1>1, <1>2, FS_Subset
<1>4. IsFiniteSet(Creators(txn', table))
  BY <1>1, <1>2, FS_Subset
<1>5. Cardinality(Creators(txn, table)) <= Cardinality(table \ minted)
  BY DEF Room
<1>6. /\ Cardinality(Creators(txn', table)) \in Nat /\ Cardinality(Creators(txn, table)) \in Nat
      /\ Cardinality(table \ minted) \in Nat
  BY <1>2, <1>4, FS_CardinalityType
<1>. QED
  BY <1>3, <1>5, <1>6

\* A creation starts while more identifiers are left than will be taken.
LEMMA OneMoreCreator ==
    ASSUME Typed, Room, NEW p \in Procs, NEW t, txn' = [txn EXCEPT ![p] = t], ~Active(p),
           NEW taken \in {Roles, Proxies, Conns}, t.rq.table = taken,
           Cardinality(Creators(txn, taken)) < Cardinality(taken \ minted),
           minted' = minted
    PROVE  Room'
<1>. SUFFICES ASSUME NEW table \in {Roles, Proxies, Conns}
              PROVE  Cardinality(Creators(txn', table)) <= Cardinality(table \ minted)
  BY DEF Room
<1>1. p \notin Creators(txn, table)
  BY DEF Creators, Active
<1>2. \/ Creators(txn', table) = Creators(txn, table)
      \/ table = taken /\ Creators(txn', table) = Creators(txn, table) \cup {p}
  <2>1. p \in Creators(txn', table) => t.rq.table = table
    <3>1. txn'[p] = t
      BY DEF Typed
    <3>. QED
      BY <3>1 DEF Creators
  <2>2. /\ \A q \in Creators(txn', table) : q \in Creators(txn, table) \cup {p}
        /\ \A q \in Creators(txn, table) : q \in Creators(txn', table) \cup {p}
    BY CreatorsAfter
  <2>3. CASE p \in Creators(txn', table)
    <3>1. Creators(txn', table) = Creators(txn, table) \cup {p}
      BY <2>2, <2>3
    <3>. QED
      BY <2>1, <2>3, <3>1
  <2>4. CASE p \notin Creators(txn', table)
    <3>1. Creators(txn', table) \subseteq Creators(txn, table)
      BY <2>2, <2>4
    <3>2. Creators(txn, table) \subseteq Creators(txn', table)
      BY <1>1, <2>2
    <3>. QED
      BY <3>1, <3>2
  <2>. QED
    BY <2>3, <2>4
<1>3. IsFiniteSet(Creators(txn, table)) /\ IsFiniteSet(table \ minted)
  <2>1. IsFiniteSet(Creators(txn, table) \ {})
    BY Countable
  <2>. QED
    BY <2>1, Countable
<1>4. Cardinality(Creators(txn, table) \cup {p}) = Cardinality(Creators(txn, table)) + 1
  BY <1>1, <1>3, FS_AddElement
<1>5. Cardinality(Creators(txn, table)) <= Cardinality(table \ minted)
  BY DEF Room
<1>6. Cardinality(Creators(txn, table)) \in Nat /\ Cardinality(table \ minted) \in Nat
  BY <1>3, FS_CardinalityType
<1>7. CASE Creators(txn', table) = Creators(txn, table)
  BY <1>5, <1>7
<1>8. CASE table = taken /\ Creators(txn', table) = Creators(txn, table) \cup {p}
  <2>1. Cardinality(Creators(txn', table)) = Cardinality(Creators(txn, table)) + 1
    BY <1>4, <1>8
  <2>2. Cardinality(Creators(txn, table)) < Cardinality(table \ minted)
    BY <1>8
  <2>. QED
    BY <1>6, <2>1, <2>2
<1>. QED
  BY <1>2, <1>7, <1>8

\* A creation takes one of the identifiers and is over.
LEMMA OneIdLess ==
    ASSUME Typed, Room, NEW p \in Procs, txn' = [txn EXCEPT ![p] = Idle], Active(p),
           NEW taken \in {Roles, Proxies, Conns}, Creates(p, taken),
           NEW id \in taken \ minted, minted' = minted \cup {id}
    PROVE  Room'
<1>. SUFFICES ASSUME NEW table \in {Roles, Proxies, Conns}
              PROVE  Cardinality(Creators(txn', table)) <= Cardinality(table \ (minted \cup {id}))
  BY DEF Room
<1>1. Creators(txn', table) = Creators(txn, table) \ {p}
  <2>1. /\ \A q \in Creators(txn', table) : q \in Creators(txn, table) \cup {p}
        /\ \A q \in Creators(txn, table) : q \in Creators(txn', table) \cup {p}
        /\ p \notin Creators(txn', table)
    BY CreatorsAfter
  <2>. QED
    BY <2>1
<1>2. IsFiniteSet(Creators(txn, table)) /\ IsFiniteSet(table \ minted)
  <2>1. IsFiniteSet(Creators(txn, table) \ {})
    BY Countable
  <2>. QED
    BY <2>1, Countable
<1>3. Cardinality(Creators(txn, table)) <= Cardinality(table \ minted)
  BY DEF Room
<1>4. Cardinality(Creators(txn, table)) \in Nat /\ Cardinality(table \ minted) \in Nat
  BY <1>2, FS_CardinalityType
<1>5. CASE table = taken
  <2>1. p \in Creators(txn, table) /\ id \in table \ minted
    BY <1>5 DEF Creators, Creates, Active
  <2>2. Cardinality(Creators(txn, table) \ {p}) = Cardinality(Creators(txn, table)) - 1
    BY <1>2, <2>1, FS_RemoveElement
  <2>3. Cardinality((table \ minted) \ {id}) = Cardinality(table \ minted) - 1
    BY <1>2, <2>1, FS_RemoveElement
  <2>4. table \ (minted \cup {id}) = (table \ minted) \ {id}
    OBVIOUS
  <2>5. Cardinality(Creators(txn', table)) = Cardinality(Creators(txn, table)) - 1
    BY <1>1, <2>2
  <2>6. Cardinality(table \ (minted \cup {id})) = Cardinality(table \ minted) - 1
    BY <2>3, <2>4
  <2>. QED
    BY <1>3, <1>4, <2>5, <2>6
<1>6. CASE table # taken
  <2>1. id \notin table
    BY <1>6, IdsAssumption DEF IdsAssumption
  <2>2. table \ (minted \cup {id}) = table \ minted
    BY <2>1
  <2>3. p \notin Creators(txn, table)
    BY <1>6 DEF Creators, Creates
  <2>4. Creators(txn, table) \ {p} = Creators(txn, table)
    BY <2>3
  <2>. QED
    BY <1>1, <1>3, <2>2, <2>4
<1>. QED
  BY <1>5, <1>6

LEMMA RoomAtFirst == Init => Room
<1>. SUFFICES ASSUME Init, NEW table \in {Roles, Proxies, Conns}
              PROVE  Cardinality(Creators(txn, table)) <= Cardinality(table \ minted)
  BY DEF Room
<1>1. Creators(txn, table) = {}
  BY DEF Init, Creators
<1>2. Cardinality(table \ minted) \in Nat
  BY Countable, FS_CardinalityType
<1>. QED
  BY <1>1, <1>2, FS_EmptySet

LEMMA RoomStays ==
    ASSUME Typed, Sound, Locks, Room, [Next]_vars
    PROVE  Room'
<1>0. ASSUME NEW p \in Procs, NEW rq, NEW prev, NEW op, NEW refs,
             txn' = [txn EXCEPT ![p] = [op |-> op, rq |-> rq, prev |-> prev, refs |-> refs]]
      PROVE  \E t : txn' = [txn EXCEPT ![p] = t] /\ t.rq = rq
  <2>. DEFINE t == [op |-> op, rq |-> rq, prev |-> prev, refs |-> refs]
  <2>1. txn' = [txn EXCEPT ![p] = t] /\ t.rq = rq
    BY <1>0
  <2>. HIDE DEF t
  <2>. QED
    BY <2>1
<1>1. ASSUME NEW p \in Procs, NEW rq \in Asked[p], Begin(p, rq) PROVE Room'
  <2>1. ~Active(p) /\ minted' = minted
    BY <1>1 DEF Begin
  <2>2. PICK t : txn' = [txn EXCEPT ![p] = t] /\ t.rq = rq
    <3>1. ASSUME NEW prev, ItemRead(p, rq, prev)
          PROVE  \E t : txn' = [txn EXCEPT ![p] = t] /\ t.rq = rq
      <4>1. txn' = [txn EXCEPT ![p] = [op |-> "refs", rq |-> rq, prev |-> prev,
                                       refs |-> RefsToLock(prev, rq)]]
        BY <3>1 DEF ItemRead
      <4>. QED
        BY <1>0, <4>1
    <3>2. CASE txn' = [txn EXCEPT ![p] = [op |-> "item", rq |-> rq, prev |-> None, refs |-> <<>>]]
      BY <1>0, <3>2
    <3>. QED
      BY <1>1, <3>1, <3>2 DEF Begin
  <2>3. CASE rq.id # None
    BY <2>1, <2>2, <2>3, FewerCreators
  <2>4. CASE rq.id = None
    <3>1. rq.op = "save"
      BY <2>4, IdAsked, IdsAssumption DEF IdsAssumption
    <3>2. rq.table \in {Roles, Proxies, Conns}
      BY <3>1, SaveAsked
    <3>3. Cardinality({q \in Procs : Active(q) /\ Creates(q, rq.table)})
             < Cardinality(rq.table \ minted)
      BY <1>1, <2>4, IdsAssumption DEF Begin, Typed, TypeOK, IdsAssumption
    <3>4. {q \in Procs : Active(q) /\ Creates(q, rq.table)} = Creators(txn, rq.table)
      BY DEF Creators, Creates, Active
    <3>5. Cardinality(Creators(txn, rq.table)) < Cardinality(rq.table \ minted)
      BY <3>3, <3>4
    <3>. QED
      BY <2>1, <2>2, <3>2, <3>5, OneMoreCreator
  <2>. QED
    BY <2>3, <2>4
<1>2. ASSUME NEW p \in Procs, ReadItem(p) PROVE Room'
  <2>1. txn[p].op = "item" /\ minted' = minted
    BY <1>2 DEF ReadItem, CanRead
  <2>2. PICK t : txn' = [txn EXCEPT ![p] = t] /\ t.rq = txn[p].rq
    BY <1>0, <1>2 DEF ReadItem, ItemRead
  <2>3. Active(p)
    BY <2>1, Pending
  <2>. QED
    BY <2>1, <2>2, <2>3, FewerCreators
<1>3. ASSUME NEW p \in Procs, LockReference(p) PROVE Room'
  <2>. DEFINE t == [txn[p] EXCEPT !.refs = Tail(@)]
  <2>1. txn[p].op = "refs" /\ minted' = minted
    BY <1>3 DEF LockReference, CanLock
  <2>2. txn' = [txn EXCEPT ![p] = t] /\ t.rq = txn[p].rq
    BY <1>3 DEF LockReference
  <2>3. Active(p)
    BY <2>1, Pending
  <2>. HIDE DEF t
  <2>. QED
    BY <2>1, <2>2, <2>3, FewerCreators
<1>4. ASSUME NEW p \in Procs, txn' = [txn EXCEPT ![p] = Idle], minted' = minted PROVE Room'
  BY <1>4, FewerCreators
<1>5. ASSUME NEW p \in Procs,
             \/ NotFound(p) \/ Outdated(p) \/ DeadlockVictim(p) \/ Refuse(p) \/ Resolve(p)
             \/ Delete(p) \/ Fail(p)
      PROVE  Room'
  <2>1. txn' = [txn EXCEPT ![p] = Idle] /\ minted' = minted
    BY <1>5 DEF NotFound, Outdated, DeadlockVictim, Refuse, Resolve, Delete, Fail, RollsBack,
                Ends, Commits
  <2>. QED
    BY <1>4, <2>1
<1>6. ASSUME NEW p \in Procs, Save(p) PROVE Room'
  <2>. DEFINE rq == txn[p].rq
              row == Edited(rq, txn[p].prev)
  <2>1. PICK id \in SaveableIds(rq) :
            /\ rq.id # None => rows[id] # None
            /\ minted' = minted \cup {id}
            /\ Commits(p, id, row, "200")
    BY <1>6, SaveCommits
  <2>2. Active(p) /\ rq.op = "save" /\ rq \in Asked[p]
    BY <1>6, SaveCommits, Pending
  <2>3. txn' = [txn EXCEPT ![p] = Idle]
    BY <2>1 DEF Commits
  <2>4. CASE rq.id = None
    <3>1. id \in rq.table \ minted /\ Creates(p, rq.table)
      BY <2>2, <2>4 DEF SaveableIds, Creates
    <3>2. rq.table \in {Roles, Proxies, Conns}
      BY <2>2, SaveAsked
    <3>. QED
      BY <2>1, <2>2, <2>3, <3>1, <3>2, OneIdLess
  <2>5. CASE rq.id # None
    <3>1. id \in Ids
      BY <2>2, <2>5, IdAsked DEF SaveableIds
    <3>2. minted' = minted
      BY <2>1, <2>5, <3>1 DEF Locks
    <3>. QED
      BY <1>4, <2>3, <3>2
  <2>. QED
    BY <2>4, <2>5
<1>7. CASE UNCHANGED vars
  BY <1>7 DEF vars, Room
<1>. QED
  BY <1>1, <1>2, <1>3, <1>5, <1>6, <1>7 DEF Next, Step

\* Only a row that another transaction has locked holds up a transaction.
LEMMA WaitsForAnother ==
    ASSUME Typed, Locks, Room, NEW p \in Procs, Active(p), ~Ready(p)
    PROVE  \E q \in Procs : Active(q) /\ Blocks(q, p)
<1>. DEFINE t == txn[p]
<1>1. /\ t.op \in {"item", "refs"} /\ t.rq \in Asked[p] /\ t.refs \in Seq(Ids)
      /\ t.op = "item" => t.rq.id \in Ids
  BY Pending DEF Typed, Active, Waits
<1>2. /\ ~CanRead(p) /\ ~CanLock(p) /\ ~Missing(p) /\ ~Stale(p) /\ ~MustRefuse(p) /\ ~CanSave(p)
      /\ ~HasRead(p, "delete") /\ ~HasRead(p, "resolve")
  BY DEF Ready
<1>3. ASSUME NEW id \in Wanted(p), id \in Ids, ~Free(p, id)
      PROVE  \E q \in Procs : Active(q) /\ Blocks(q, p)
  <2>1. owner[id] \in Procs /\ owner[id] # p
    BY <1>3 DEF Free, Typed, TypeOK
  <2>2. Active(owner[id])
    BY <1>3, <2>1, IdsAssumption DEF Locks, Held, IdsAssumption
  <2>. QED
    BY <1>3, <2>1, <2>2 DEF Blocks
<1>4. CASE t.op = "item"
  <2>1. Wanted(p) = {t.rq.id}
    BY <1>4 DEF Wanted
  <2>2. View(p)[t.rq.id] # None /\ t.rq.op # "resolve"
    BY <1>2, <1>4, <2>1 DEF Missing, View, Locks, Serves
  <2>3. ~Free(p, t.rq.id)
    BY <1>2, <1>4, <2>1, <2>2 DEF CanRead, Stale
  <2>. QED
    BY <1>1, <1>3, <1>4, <2>1, <2>3
<1>5. CASE t.op = "refs" /\ t.refs # <<>>
  <2>. DEFINE ref == Head(t.refs)
  <2>1. Wanted(p) = {ref} /\ ref \in Ids
    BY <1>1, <1>5 DEF Wanted
  <2>2. t.rq.op = "save" /\ t.rq.table # Roles
    BY <1>5 DEF Locks, Serves
  <2>3. View(p)[ref] # None
    BY <1>2, <2>1 DEF Missing
  <2>4. ref \in Proxies => ~CredentialsRefused(t.prev, t.rq.edit)
    BY <1>2, <1>5, <2>2 DEF MustRefuse, HasRead
  <2>5. ~Free(p, ref)
    BY <1>2, <1>5, <2>1, <2>2, <2>3, <2>4 DEF CanLock, Stale
  <2>. QED
    BY <1>3, <2>1, <2>5
<1>6. CASE t.op = "refs" /\ t.refs = <<>>
  <2>1. t.rq.op = "save"
    BY <1>1, <1>2, <1>6, IdAsked DEF HasRead
  <2>2. ~Refused(t.rq, t.prev)
    BY <1>2, <1>6, <2>1 DEF MustRefuse, HasRead, Refused
  <2>3. SaveableIds(t.rq) # {}
    <3>1. CASE t.rq.id # None
      BY <3>1 DEF SaveableIds
    <3>2. CASE t.rq.id = None
      <4>. DEFINE table == t.rq.table
      <4>1. table \in {Roles, Proxies, Conns}
        BY <1>1, <2>1, SaveAsked
      <4>2. p \in Creators(txn, table)
        BY <2>1, <3>2 DEF Creators, Active
      <4>3. IsFiniteSet(Creators(txn, table)) /\ IsFiniteSet(table \ minted)
        <5>1. IsFiniteSet(Creators(txn, table) \ {})
          BY <4>1, Countable
        <5>. QED
          BY <4>1, <5>1, Countable
      <4>4. Cardinality(Creators(txn, table)) \in Nat /\ Cardinality(Creators(txn, table)) # 0
        BY <4>2, <4>3, FS_CardinalityType, FS_EmptySet
      <4>5. Cardinality(table \ minted) # 0
        BY <4>1, <4>4 DEF Room
      <4>6. table \ minted # {}
        BY <4>5, FS_EmptySet
      <4>. QED
        BY <3>2, <4>6 DEF SaveableIds
    <3>. QED
      BY <3>1, <3>2
  <2>. QED
    BY <1>2, <1>6, <2>1, <2>2, <2>3 DEF CanSave, HasRead
<1>. QED
  BY <1>1, <1>4, <1>5, <1>6

LEMMA SomebodyIsReady ==
    ASSUME Typed, Locks, Room
    PROVE  SomeTransactionProceeds
<1>. SUFFICES ASSUME NEW p \in Procs, Active(p), \A q \in Procs : ~Ready(q)
              PROVE  FALSE
  BY DEF SomeTransactionProceeds
<1>. DEFINE ring == {q \in Procs : Active(q)}
<1>1. \A r \in ring : \E q \in ring : Blocks(q, r)
  BY WaitsForAnother
<1>2. Deadlocked(p)
  BY <1>1 DEF Deadlocked
<1>. QED
  BY <1>2 DEF Ready

\* SomeTransactionProceeds: transactions that all waited would wait for each other, and
\* the database ends one of those; what ended has kept no lock.
THEOREM TransactionsProceed == Spec => []SomeTransactionProceeds
<1>1. Init => Typed /\ Sound /\ Locks /\ Room
  BY TypedAtFirst, SoundAtFirst, LocksAtFirst, RoomAtFirst
<1>2. Typed /\ Sound /\ Locks /\ Room /\ [Next]_vars => (Typed /\ Sound /\ Locks /\ Room)'
  BY TypedStays, SoundStays, LocksStay, RoomStays
<1>3. Typed /\ Sound /\ Locks /\ Room => SomeTransactionProceeds
  BY SomebodyIsReady
<1>. QED
  BY <1>1, <1>2, <1>3, PTL DEF Spec
=============================================================================
