----------------------------- MODULE Inventory -----------------------------
(***************************************************************************)
(* The saved inventory: role accounts, proxies and connections, edited by  *)
(* several gateway processes over one database                             *)
(* (src/app/dal/db/store.py, src/app/dal/db/storage.py).                   *)
(*                                                                         *)
(* Inside a process the store's lock makes transactions serial.  Between   *)
(* processes SQLite serialises them (BEGIN IMMEDIATE), and PostgreSQL runs *)
(* them at REPEATABLE READ: a transaction reads the state at its start,    *)
(* SELECT ... FOR UPDATE takes a row lock, and a row that another          *)
(* transaction changed since cannot be locked or written any more.         *)
(*                                                                         *)
(* A credential is the name of the field that is not empty.  An edit says  *)
(* which fields it gives a value (set), which it empties (clear), and      *)
(* keeps the others.                                                       *)
(***************************************************************************)
EXTENDS Naturals, Sequences, FiniteSets

CONSTANTS
    Procs,                  \* processes with a store over the same database
    Roles, Proxies, Conns,  \* the uuid4 identifiers each table may ever hold
    Asked,                  \* the requests each process may be sent
    None,                   \* SQL NULL, and a row that does not exist
    Keep,                   \* a field the payload does not name
    MaxFaults               \* bound on database failures and process deaths

Ids == Roles \cup Proxies \cup Conns
Inline == {"password", "private_key_path"}
Keys == {"plain_key", "encrypted_key"}
RoleSecrets == Keys \cup {"password", "passphrase"}
Kinds == {"direct", "proxied"}

Connector == [type: Kinds, inline: SUBSET Inline]
RoleRow == [auth: {"password", "ssh_key"}, secrets: SUBSET RoleSecrets]
Profile == [role: Roles \cup {None}, proxy: Proxies \cup {None},
            inline: SUBSET Inline, connector: Connector]
Rows == [Ids -> RoleRow \cup Profile \cup {None}]

RoleEdit == [auth: {"password", "ssh_key"}, set: SUBSET RoleSecrets,
             clear: SUBSET RoleSecrets]
ConnectorEdit == [type: Kinds \cup {Keep}, set: SUBSET Inline, clear: SUBSET Inline]
ProfileEdit == [role: Roles \cup {None, Keep}, proxy: Proxies \cup {None, Keep},
                set: SUBSET Inline, clear: SUBSET Inline,
                connector: ConnectorEdit \cup {Keep}]

ASSUME IdsAssumption ==
    /\ Roles \cap Proxies = {} /\ Roles \cap Conns = {} /\ Proxies \cap Conns = {}
    /\ None \notin Ids /\ Keep \notin Ids /\ None # Keep
    /\ None \notin RoleRow \cup Profile
    /\ Keep \notin Kinds \cup ConnectorEdit
    /\ None \notin Procs
ASSUME AskedAssumption == \A p \in Procs : \A rq \in Asked[p] :
    \/ rq.op = "save" /\ rq.table = Roles /\ rq.id \in Roles \cup {None} /\ rq.edit \in RoleEdit
    \/ /\ rq.op = "save" /\ rq.table = Proxies /\ rq.id \in Proxies \cup {None}
       /\ rq.edit \in ProfileEdit /\ rq.edit.proxy = Keep /\ rq.edit.connector = Keep
    \/ rq.op = "save" /\ rq.table = Conns /\ rq.id \in Conns \cup {None} /\ rq.edit \in ProfileEdit
    \/ rq.op = "delete" /\ rq.id \in Ids
    \/ rq.op = "resolve" /\ rq.id \in Conns
ASSUME FaultsAssumption == MaxFaults \in Nat
ASSUME FiniteAssumption == IsFiniteSet(Procs) /\ IsFiniteSet(Ids)    \* uuid4: 2^122 at most

VARIABLES
    backend,    \* the engine of this deployment
    rows,       \* the committed rows
    minted,     \* the identifiers uuid4 has produced for a row
    owner,      \* the process whose transaction holds the lock of a row
    txn,        \* what each process's transaction is doing
    view,       \* the rows as the transaction of a process began
    changed,    \* the rows others have committed since
    answer,     \* who has just been answered, and how
    faults

vars == <<backend, rows, minted, owner, txn, view, changed, answer, faults>>

-----------------------------------------------------------------------------
(* Payloads and rows *)

\* What the request models accept: a role account excludes inline credentials,
\* a saved proxy an inline connector, each kind of role account the other
\* kind's secrets, and a passphrase comes with its key.
Accepted(rq) ==
    LET e == rq.edit IN
    IF rq.table = Roles
    THEN LET given == e.set \cup e.clear IN
         IF e.auth = "password" THEN given \subseteq {"password"}
         ELSE "password" \notin given /\ ("passphrase" \in given => given \cap Keys # {})
    ELSE /\ e.role \in Roles => e.set = {} /\ "password" \notin e.clear
         /\ e.proxy \in Proxies => e.connector = Keep

Given(new, old) == IF new = Keep THEN old ELSE new
Merged(old, e) == (old \ e.clear) \cup e.set

\* The credentials of one profile do not include both kinds.
Exclusive(inline) == inline # Inline

\* A role account keeps the secrets of its own kind: those given, and the
\* stored ones unless the kind has changed.  A replaced key leaves no old one.
SecretsAfter(prev, e) ==
    LET stored == IF prev = None \/ prev.auth # e.auth THEN {} ELSE prev.secrets
        kept   == IF e.set \cap Keys = {} THEN stored ELSE stored \ Keys
    IN Merged(kept, e) \cap (IF e.auth = "password" THEN {"password"}
                             ELSE Keys \cup {"passphrase"})

\* The key must be there, and its passphrase exactly when it is encrypted.
UsableSecrets(auth, secrets) ==
    IF auth = "password" THEN secrets = {"password"}
    ELSE /\ secrets \cap Keys # {}
         /\ "encrypted_key" \in secrets <=> "passphrase" \in secrets

BadRoleRefused(prev, e) ==    \* only what is given is checked
    e.set # {} /\ ~UsableSecrets(e.auth, e.set)

RoleRefused(prev, e) ==
    \/ e.auth = "password" /\ e.set \cap (Keys \cup {"passphrase"}) # {}
    \/ e.auth = "ssh_key" /\ "password" \in e.set
    \/ ~UsableSecrets(e.auth, SecretsAfter(prev, e))

NewProfile == [role |-> None, proxy |-> None, inline |-> {},
               connector |-> [type |-> "direct", inline |-> {}]]

BadInlineAfter(prev, e) == Merged(prev.inline, e)

\* What a profile is after the edit: a role account replaces the inline
\* credentials.
InlineAfter(prev, e) ==
    IF Given(e.role, prev.role) # None THEN {} ELSE Merged(prev.inline, e)

CredentialsRefused(prev, e) ==
    \/ Given(e.role, prev.role) # None /\ e.set # {}
    \/ ~Exclusive(InlineAfter(prev, e))

\* An edited connector starts anew when its type changes.
ConnectorAfter(prev, e) ==
    IF Given(e.proxy, prev.proxy) # None
    THEN NewProfile.connector
    ELSE IF e.connector = Keep THEN prev.connector
    ELSE LET type == Given(e.connector.type, prev.connector.type) IN
         [type |-> type,
          inline |-> IF type # prev.connector.type THEN e.connector.set
                     ELSE Merged(prev.connector.inline, e.connector)]

ConnectorRefused(prev, e) ==
    IF Given(e.proxy, prev.proxy) # None THEN e.connector # Keep
    ELSE LET c == ConnectorAfter(prev, e) IN
         IF c.type = "direct" THEN c.inline # {} ELSE ~Exclusive(c.inline)

ProfileAfter(prev, e) ==
    [role |-> Given(e.role, prev.role), proxy |-> Given(e.proxy, prev.proxy),
     inline |-> InlineAfter(prev, e), connector |-> ConnectorAfter(prev, e)]

\* The row that a save leaves of the row it has read, unless it is refused.
Edited(rq, prev) ==
    IF rq.table = Roles
    THEN [auth |-> rq.edit.auth, secrets |-> SecretsAfter(prev, rq.edit)]
    ELSE ProfileAfter(prev, rq.edit)
Refused(rq, prev) ==
    IF rq.table = Roles THEN RoleRefused(prev, rq.edit)
    ELSE CredentialsRefused(prev, rq.edit) \/ ConnectorRefused(prev, rq.edit)
Unsaved(rq) == IF rq.table = Roles THEN None ELSE NewProfile

\* The rows a row refers to; the foreign keys are ON DELETE RESTRICT.
RefsOf(row) == IF row = None \/ row \in RoleRow THEN {}
               ELSE {row.role, row.proxy} \ {None}
Referenced(db, id) == \E i \in Ids : id \in RefsOf(db[i])
BadForeignKeysHold(db) == TRUE
ForeignKeysHold(db) == \A i \in Ids : \A r \in RefsOf(db[i]) : db[r] # None

-----------------------------------------------------------------------------
(* Transactions *)

Idle == [op |-> "idle"]
NoAnswer == <<>>
Codes == {"none", "200", "204", "400", "404", "409", "503"}

Active(p) == txn[p] # Idle
Creates(p, table) ==
    txn[p].rq.op = "save" /\ txn[p].rq.id = None /\ txn[p].rq.table = table
Free(p, id) == owner[id] \in {None, p}

BadView(p) == rows    \* READ COMMITTED

\* A read sees the state at the transaction's start; on SQLite nobody has
\* written since.
View(p) == view[p]

BadEnds(p, code) ==    \* the connection goes back to the pool, not rolled back
    /\ txn' = [txn EXCEPT ![p] = Idle]
    /\ view' = [view EXCEPT ![p] = [i \in Ids |-> None]]
    /\ changed' = [changed EXCEPT ![p] = {}]
    /\ answer' = <<p, code>>
    /\ UNCHANGED owner

\* The transaction of p is over: its locks are released and it is answered.
Ends(p, code) ==
    /\ txn' = [txn EXCEPT ![p] = Idle]
    /\ owner' = [i \in Ids |-> IF owner[i] = p THEN None ELSE owner[i]]
    /\ view' = [view EXCEPT ![p] = [i \in Ids |-> None]]
    /\ changed' = [changed EXCEPT ![p] = {}]
    /\ answer' = <<p, code>>

RollsBack(p, code) == Ends(p, code) /\ UNCHANGED <<backend, rows, minted, faults>>

Init ==
    /\ backend \in {"sqlite", "postgresql"}
    /\ rows = [i \in Ids |-> None]
    /\ minted = {}
    /\ owner = [i \in Ids |-> None]
    /\ txn = [p \in Procs |-> Idle]
    /\ view = [p \in Procs |-> rows]
    /\ changed = [p \in Procs |-> {}]
    /\ answer = NoAnswer
    /\ faults = 0

BadRefsToLock(prev, rq) ==
    IF rq.op # "save" \/ rq.table = Roles THEN <<>>
    ELSE <<Given(rq.edit.role, prev.role), Given(rq.edit.proxy, prev.proxy)>>

\* The rows to lock after the item's own, in the order of the code.
RefsToLock(prev, rq) ==
    IF rq.op # "save" \/ rq.table = Roles THEN <<>>
    ELSE LET Lock(ref) == IF ref = None THEN <<>> ELSE <<ref>> IN
         Lock(Given(rq.edit.role, prev.role)) \o Lock(Given(rq.edit.proxy, prev.proxy))

\* The item has been read, and locked by a save or a delete.
ItemRead(p, rq, prev) ==
    /\ txn' = [txn EXCEPT ![p] = [op |-> "refs", rq |-> rq, prev |-> prev,
                                  refs |-> RefsToLock(prev, rq)]]
    /\ owner' = [i \in Ids |-> IF i = rq.id /\ rq.op # "resolve" THEN p ELSE owner[i]]

\* The first statement of a transaction reads the item; a new one has none.
\* It waits when another transaction holds the row.
Begin(p, rq) ==
    /\ ~Active(p)
    /\ backend = "sqlite" => \A q \in Procs : ~Active(q)
    /\ rq.op = "save" => Accepted(rq)
    /\ \/ /\ rq.id = None    \* the bound on rows: every creation finds an identifier
          /\ Cardinality({q \in Procs : Active(q) /\ Creates(q, rq.table)})
                < Cardinality(rq.table \ minted)
          /\ ItemRead(p, rq, Unsaved(rq))
       \/ /\ rq.id \in minted /\ rows[rq.id] # None
          /\ rq.op # "resolve" => Free(p, rq.id)
          /\ ItemRead(p, rq, rows[rq.id])
       \/ /\ rq.id \in minted
          /\ rows[rq.id] = None \/ (rq.op # "resolve" /\ ~Free(p, rq.id))
          /\ txn' = [txn EXCEPT ![p] = [op |-> "item", rq |-> rq, prev |-> None, refs |-> <<>>]]
          /\ UNCHANGED owner
    /\ view' = [view EXCEPT ![p] = rows]
    /\ answer' = NoAnswer
    /\ UNCHANGED <<backend, rows, minted, changed, faults>>

\* The row it waited for is free, and was not changed.
CanRead(p) ==
    LET id == txn[p].rq.id IN
    txn[p].op = "item" /\ View(p)[id] # None /\ Free(p, id) /\ id \notin changed[p]
ReadItem(p) ==
    /\ CanRead(p)
    /\ ItemRead(p, txn[p].rq, View(p)[txn[p].rq.id])
    /\ answer' = NoAnswer
    /\ UNCHANGED <<backend, rows, minted, view, changed, faults>>

BadLockReference(p) ==    \* the reference is looked up, but not FOR UPDATE
    /\ txn[p].op = "refs" /\ txn[p].refs # <<>>
    /\ View(p)[Head(txn[p].refs)] # None
    /\ txn' = [txn EXCEPT ![p].refs = Tail(@)]
    /\ answer' = NoAnswer
    /\ UNCHANGED <<backend, rows, minted, owner, view, changed, faults>>

\* A reference the profile names is locked; before a proxy the credentials
\* have been checked.
CanLock(p) ==
    /\ txn[p].op = "refs" /\ txn[p].refs # <<>>
    /\ LET ref == Head(txn[p].refs) IN
       /\ View(p)[ref] # None /\ Free(p, ref) /\ ref \notin changed[p]
       /\ ref \in Proxies => ~CredentialsRefused(txn[p].prev, txn[p].rq.edit)
LockReference(p) ==
    /\ CanLock(p)
    /\ owner' = [owner EXCEPT ![Head(txn[p].refs)] = p]
    /\ txn' = [txn EXCEPT ![p].refs = Tail(@)]
    /\ answer' = NoAnswer
    /\ UNCHANGED <<backend, rows, minted, view, changed, faults>>

\* The row p reads or locks next.
Wanted(p) ==
    IF txn[p].op = "item" THEN {txn[p].rq.id}
    ELSE IF txn[p].op = "refs" /\ txn[p].refs # <<>> THEN {Head(txn[p].refs)}
    ELSE {}

Missing(p) == \E id \in Wanted(p) : View(p)[id] = None
NotFound(p) == Missing(p) /\ RollsBack(p, "404")

\* PostgreSQL: the row was changed or deleted after the transaction began.
Stale(p) ==
    /\ \E id \in Wanted(p) : id \in changed[p] /\ Free(p, id) /\ View(p)[id] # None
    /\ txn[p].rq.op # "resolve"
Outdated(p) == Stale(p) /\ RollsBack(p, "503")

\* PostgreSQL ends one of the transactions that wait for each other.
Blocks(q, p) == Active(p) /\ \E id \in Wanted(p) : owner[id] = q /\ q # p
Deadlocked(p) ==
    \E ring \in SUBSET Procs : p \in ring /\ \A r \in ring : \E q \in ring : Blocks(q, r)
DeadlockVictim(p) == Deadlocked(p) /\ RollsBack(p, "503")

\* The item has been read for an operation.
HasRead(p, op) == txn[p].op = "refs" /\ txn[p].rq.op = op

\* A check of the payload against the stored row fails.
MustRefuse(p) ==
    /\ HasRead(p, "save")
    /\ LET rq == txn[p].rq  prev == txn[p].prev  left == txn[p].refs IN
       IF rq.table = Roles THEN RoleRefused(prev, rq.edit)
       ELSE \/ CredentialsRefused(prev, rq.edit)
               /\ left # <<>> => Head(left) \in Proxies
            \/ ConnectorRefused(prev, rq.edit) /\ left = <<>>
Refuse(p) == MustRefuse(p) /\ RollsBack(p, "400")

\* A commit: the other transactions that have begun do not see it.
Commits(p, id, row, code) ==
    /\ rows' = [rows EXCEPT ![id] = row]
    /\ \/ answer' = <<p, code>> /\ UNCHANGED faults
       \/ /\ faults < MaxFaults     \* the connection is lost after COMMIT
          /\ faults' = faults + 1
          /\ answer' = <<p, "503">>
    /\ txn' = [txn EXCEPT ![p] = Idle]
    /\ owner' = [i \in Ids |-> IF owner[i] = p THEN None ELSE owner[i]]
    /\ view' = [view EXCEPT ![p] = [i \in Ids |-> None]]
    /\ changed' = [q \in Procs |-> IF q = p \/ ~Active(q) THEN {} ELSE changed[q] \cup {id}]
    /\ UNCHANGED backend

SaveableIds(rq) == IF rq.id = None THEN rq.table \ minted ELSE {rq.id}
CanSave(p) ==
    /\ HasRead(p, "save") /\ txn[p].refs = <<>> /\ SaveableIds(txn[p].rq) # {}
    /\ ~Refused(txn[p].rq, txn[p].prev)
Save(p) ==
    LET row == Edited(txn[p].rq, txn[p].prev) IN
    /\ CanSave(p)
    /\ \E id \in SaveableIds(txn[p].rq) :
          /\ minted' = minted \cup {id}
          /\ IF ForeignKeysHold([rows EXCEPT ![id] = row]) THEN Commits(p, id, row, "200")
             ELSE Ends(p, "409") /\ UNCHANGED <<backend, rows, faults>>

\* The references are looked for in the transaction's view, and the foreign
\* keys are checked against what is committed.
Delete(p) ==
    LET id == txn[p].rq.id IN
    /\ HasRead(p, "delete")
    /\ IF Referenced(View(p), id) \/ ~ForeignKeysHold([rows EXCEPT ![id] = None])
       THEN RollsBack(p, "409")
       ELSE Commits(p, id, None, "204") /\ UNCHANGED minted

\* The role account and the proxy of the connection read before, and the
\* proxy's role account, complete the profile.
Resolve(p) ==
    LET proxied(ref) == RefsOf(View(p)[ref])
        refs == RefsOf(txn[p].prev)
        all  == refs \cup UNION {proxied(r) : r \in refs}
    IN
    /\ HasRead(p, "resolve")
    /\ RollsBack(p, IF \A r \in all : View(p)[r] # None THEN "200" ELSE "404")

\* The database fails, or the process dies: the transaction is rolled back.
Fail(p) ==
    /\ Active(p) /\ faults < MaxFaults
    /\ faults' = faults + 1
    /\ \E code \in {"503", "none"} : Ends(p, code)
    /\ UNCHANGED <<backend, rows, minted>>

Step(p) ==
    \/ ReadItem(p) \/ LockReference(p)
    \/ NotFound(p) \/ Outdated(p) \/ DeadlockVictim(p) \/ Refuse(p)
    \/ Save(p) \/ Delete(p) \/ Resolve(p)

Next == \E p \in Procs :
    Step(p) \/ Fail(p) \/ \E rq \in Asked[p] : Begin(p, rq)

Spec == Init /\ [][Next]_vars

-----------------------------------------------------------------------------
(* What the inventory promises *)

\* Every variable holds what it may: rows of their tables, and transactions
\* that only wait for rows.
TypeOK ==
    /\ backend \in {"sqlite", "postgresql"}
    /\ rows \in Rows
    /\ minted \subseteq Ids
    /\ owner \in [Ids -> Procs \cup {None}]
    /\ \A p \in Procs : Active(p) =>
          /\ txn[p].op \in {"item", "refs"}
          /\ txn[p].rq \in Asked[p]
          /\ txn[p].prev \in RoleRow \cup Profile \cup {None}
          /\ txn[p].refs \in Seq(Ids)
    /\ view \in [Procs -> Rows]
    /\ changed \in [Procs -> SUBSET Ids]
    /\ answer \in {NoAnswer} \cup Procs \X Codes
    /\ faults \in 0..MaxFaults

\* No sequence of merging edits leaves a row with two kinds of credentials,
\* with a kind that is not its own, or with a key that cannot be opened
\* (_save_role, _inline_credentials, _connector, _save_profile).
RowsAreSound ==
    /\ \A r \in Roles : rows[r] # None => UsableSecrets(rows[r].auth, rows[r].secrets)
    /\ \A i \in Proxies \cup Conns : rows[i] # None =>
          LET row == rows[i] IN
          /\ row.inline # {"password", "private_key_path"}
          /\ row.connector.inline # {"password", "private_key_path"}
          /\ row.role # None => row.inline = {}
          /\ row.proxy # None \/ row.connector.type = "direct" => row.connector.inline = {}

\* Every reference a connection or a proxy holds can be followed, whatever
\* saves and deletes overlap (delete, _save_profile and the foreign keys).
ReferencesExist ==
    \A i \in Proxies \cup Conns : rows[i] # None =>
        \A r \in {rows[i].role, rows[i].proxy} \ {None} : rows[r] # None

\* A login is offered one kind of credential: the resolved profile of a
\* connection, and of the proxy it goes through, mixes none of its own with
\* those of the role account (_resolve_connection, _resolve_proxy).
Offered(row) == row.inline \cup (IF row.role = None THEN {} ELSE rows[row.role].secrets)
OneKind(secrets) == "password" \notin secrets \/ secrets = {"password"}
ResolvesToOneKind ==
    \A c \in Conns : rows[c] # None =>
        /\ OneKind(Offered(rows[c]))
        /\ rows[c].proxy # None => OneKind(Offered(rows[rows[c].proxy]))

\* A connection that was found resolves: what it refers to is read from the
\* same state of the database, however many saves and deletes are committed
\* between the statements (build_engine's isolation level, _transaction).
FoundConnectionsResolve ==
    [][\A p \in Procs :
          txn[p].op = "refs" /\ txn[p].rq.op = "resolve" => answer' # <<p, "404">>]_vars

\* Transactions never all wait: some statement, refusal or commit of one of
\* them is possible, although a connection's save locks role account then
\* proxy, and a proxy's save its own row then the role account (save,
\* _save_profile, delete; a transaction that ends has freed its locks).
Ready(p) ==
    \/ CanRead(p) \/ CanLock(p) \/ Missing(p) \/ Stale(p) \/ Deadlocked(p) \/ MustRefuse(p)
    \/ CanSave(p) \/ HasRead(p, "delete") \/ HasRead(p, "resolve")
SomeTransactionProceeds ==
    (\E p \in Procs : Active(p)) => \E p \in Procs : Ready(p)

\* However the statements of transactions interleave, requests are served one
\* after the other: no edit is merged into a row that has been changed since it
\* was read, and no save finds a reference gone that it has looked up (save,
\* _save_profile, delete, _transaction).
Serial == INSTANCE SerialInventory WITH
    pending <- [p \in Procs |-> IF Active(p) THEN txn[p].rq ELSE Idle]
ServedOneByOne == Serial!Spec
=============================================================================
