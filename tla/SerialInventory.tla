-------------------------- MODULE SerialInventory --------------------------
(***************************************************************************)
(* What the clients of the gateways are promised about the saved           *)
(* inventory, with statements, views and locks left out: a request is      *)
(* either declined and changes nothing, or it is served in one step, as if *)
(* it were alone, on the rows as they are at that moment.  An answer may   *)
(* be lost; a success is never reported without its change.  Inventory     *)
(* implements this module.                                                 *)
(***************************************************************************)
CONSTANTS
    Procs, Ids, Asked, None,
    Unsaved(_),      \* what a save that creates a row starts from
    Edited(_, _),    \* the row that a save makes of a stored one
    Refused(_, _),   \* whether it is refused instead
    RefsOf(_)        \* the rows a row refers to

VARIABLES
    rows,       \* the stored rows
    minted,     \* the identifiers given to rows so far
    pending,    \* the request each process serves, or Idle
    answer      \* who has just been answered, and how

vars == <<rows, minted, pending, answer>>

Idle == [op |-> "idle"]

Init ==
    /\ rows = [i \in Ids |-> None]
    /\ minted = {}
    /\ pending = [p \in Procs |-> Idle]
    /\ answer = <<>>

Accept(p, rq) ==
    /\ pending[p] = Idle
    /\ pending' = [pending EXCEPT ![p] = rq]
    /\ answer' = <<>>
    /\ UNCHANGED <<rows, minted>>

Answers(p, codes) ==
    /\ pending[p] # Idle
    /\ pending' = [pending EXCEPT ![p] = Idle]
    /\ \E code \in codes : answer' = <<p, code>>

\* A new row gets an identifier that no row ever had; a stored one is edited
\* as it is now.  Every row it refers to exists.
Save(p) ==
    LET rq == pending[p] IN
    /\ Answers(p, {"200", "503"})
    /\ rq.op = "save"
    /\ \E id \in IF rq.id = None THEN rq.table \ minted ELSE {rq.id} :
          LET current == IF rq.id = None THEN Unsaved(rq) ELSE rows[id]
              row     == Edited(rq, current)
          IN
          /\ rq.id # None => current # None
          /\ ~Refused(rq, current)
          /\ \A r \in RefsOf(row) : rows[r] # None
          /\ rows' = [rows EXCEPT ![id] = row]
          /\ minted' = minted \cup {id}

\* Nothing refers to a row that is deleted.
Delete(p) ==
    LET id == pending[p].id IN
    /\ Answers(p, {"204", "503"})
    /\ pending[p].op = "delete"
    /\ rows[id] # None /\ \A i \in Ids : id \notin RefsOf(rows[i])
    /\ rows' = [rows EXCEPT ![id] = None]
    /\ UNCHANGED minted

\* Only a delete meets a conflict: what a save refers to is there or is not.
Decline(p) ==
    /\ Answers(p, {"400", "404", "503", "none"} \cup
                  (IF pending[p].op = "delete" THEN {"409"} ELSE {}))
    /\ UNCHANGED <<rows, minted>>

Resolve(p) ==
    /\ Answers(p, {"200"})
    /\ pending[p].op = "resolve"
    /\ UNCHANGED <<rows, minted>>

\* A request is still being served.
Wait == answer' = <<>> /\ UNCHANGED <<rows, minted, pending>>

Next ==
    \/ \E p \in Procs :
          \/ \E rq \in Asked[p] : Accept(p, rq)
          \/ Save(p) \/ Delete(p) \/ Decline(p) \/ Resolve(p)
    \/ Wait

Spec == Init /\ [][Next]_vars
=============================================================================
