---------------------------- MODULE MCInventory ----------------------------
(* Small instances of Inventory for TLC. *)
EXTENDS Inventory, TLC

CONSTANTS r1, p1, c1, a, b

RoleOf(auth, set, clear) == [auth |-> auth, set |-> set, clear |-> clear]
Cred(role, set, clear) ==
    [role |-> role, proxy |-> Keep, set |-> set, clear |-> clear, connector |-> Keep]
Via(proxy, connector) ==
    [role |-> Keep, proxy |-> proxy, set |-> {}, clear |-> {}, connector |-> connector]
Conn(type, set, clear) == [type |-> type, set |-> set, clear |-> clear]

\* Each kind, a switch without its credential, and a key replaced by a plain
\* one with and without the passphrase emptied.
MCRoleEdits == {
    RoleOf("password", {"password"}, {}),
    RoleOf("ssh_key", {"encrypted_key", "passphrase"}, {}),
    RoleOf("ssh_key", {"plain_key"}, {}),
    RoleOf("ssh_key", {"plain_key"}, {"passphrase"})}

MCProxyEdits == {Cred(r1, {}, {}), Cred(None, {"password"}, {})}

MCConnEdits == {
    Cred(r1, {}, {}),
    Via(p1, Keep), Via(None, Conn("proxied", {"password"}, {})),
    Via(Keep, Conn(Keep, {"private_key_path"}, {"password"})),
    Via(Keep, Conn("direct", {}, {}))}

Saving(table, ids, edits) == [op: {"save"}, table: {table}, id: ids \cup {None}, edit: edits]
Deleting(ids) == [op: {"delete"}, id: ids]
Resolving == [op: {"resolve"}, id: Conns]

\* One gateway is sent every edit and resolves; the other links and deletes.
MCAsked ==
    (a :> Saving(Roles, Roles, MCRoleEdits) \cup Saving(Proxies, Proxies, MCProxyEdits)
          \cup Saving(Conns, Conns, MCConnEdits) \cup Resolving)
    @@ (b :> [op: {"save"}, table: {Conns}, id: {c1}, edit: {Cred(r1, {}, {})}]
          \cup Deleting({r1, p1, c1}))
=============================================================================
