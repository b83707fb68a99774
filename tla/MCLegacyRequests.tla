-------------------------- MODULE MCLegacyRequests --------------------------
(* Small instances of LegacyRequests for TLC. *)
EXTENDS LegacyRequests, TLC

CONSTANTS q1, q2

Call(path, op) == [path |-> path, device |-> "d", op |-> op]

\* One device in two metadata tables; a table that does not exist is another.
MCTables ==
    "routers" :> ("d" :> [cols |-> [vendor |-> "acme"], port |-> TRUE])
    @@ "spares" :> ("d" :> [cols |-> [vendor |-> "acme", site |-> "x"], port |-> FALSE])
    @@ "empty" :> ("d" :> None)

Lookup(table) == [table |-> table]
Map(columns, map) == [columns |-> columns, map |-> map]
VendorSite == <<"vendor", "site">>

Shell == Map(VendorSite, <<"acme", "*">> :> "telnet" @@ <<"acme">> :> "netconf")
Vendors == Map(<<"vendor">>, <<"acme">> :> "netconf")
Elsewhere == Map(VendorSite, <<"other", "*">> :> "netconf")
NoClients == Map(<<"vendor">>, <<>>)
Direct == Map(VendorSite, <<"acme", "*">> :> None @@ <<"default">> :> "hop")
Hops == Map(VendorSite, <<"*", "*">> :> "hop")

MCPayloads ==
    [device_lookup |-> {Lookup("routers"), Lookup("spares"), Lookup("empty"), Lookup("gone")},
     client_mapping |-> {Shell, Vendors, Elsewhere, NoClients},
     proxy_mapping |-> {Direct, Hops}]

Stored(lookup, client, proxy) ==
    [device_lookup |-> lookup, client_mapping |-> client, proxy_mapping |-> proxy]

Kinds == {Call("devices", "show"), Call("devices", "config"), Call("routers", "config"),
          Call("stub", "show"), Call("mutation", "config")}

\* A Telnet session; a NETCONF request beside a request of each kind; and one
\* that may begin before anything is configured.
MCLoads == {
    [saved |-> Stored(<<Lookup("routers")>>, <<Shell>>, <<Hops>>),
     calls |-> (q1 :> {Call("devices", "show")}) @@ (q2 :> {}), edits |-> 0],
    [saved |-> Stored(<<Lookup("routers")>>, <<Vendors>>, <<Direct>>),
     calls |-> (q1 :> {Call("devices", "config")}) @@ (q2 :> Kinds), edits |-> 1],
    [saved |-> Stored(<<>>, <<>>, <<>>),
     calls |-> (q1 :> {Call("devices", "config")}) @@ (q2 :> {}), edits |-> 3]}

MCBytes == {"IAC", "SB", "SE", "NOP", "U", "P", ":", ">", " ", "a", "b", "c"} \cup Verbs

\* An option that is split, blanks that are read with the next prompt, a
\* subnegotiation that holds IAC SE in disguise, an option after a prompt, a
\* literal 0xFF, and a reply that is too long.
MCBursts ==
    [username |-> {<<Option("DO", "SB"), Text("U"), Text(":"), Text(" ")>>},
     password |-> {<<Text("P"), Text(":"), Text(" "), Option("WILL", "IAC")>>},
     prompt |-> {<<Sub(<<"IAC", "SE">>), Text(">"), Text(" "), Option("DONT", "DO")>>},
     output |-> {<<Text("IAC"), Nop, Text(">"), Text(" ")>>,
                 <<Text("a"), Text("b"), Text("c"), Text(">"), Text(" ")>>}]
=============================================================================
