---------------------------- MODULE SignInProofs ----------------------------
(***************************************************************************)
(* Proofs about SignIn, for any requests, loads, keys, roles, sign-ins,    *)
(* lifetimes and clock.                                                    *)
(***************************************************************************)
EXTENDS SignIn, TLAPS

-----------------------------------------------------------------------------
\* Types.

SessionRow == [subject : {"user"}, roles : RoleSets, expires_at : Nat]
Jar == [flow : FlowCookie \cup {None}, session : SessionRow \cup {None}]
Pending ==
    [op : {"login", "callback", "bearer"},
     pc : {"discover", "redeem", "keys", "fetch", "verify"},
     since : 0 .. MaxTime,
     flow : FlowCookie \cup {None}, code : Flows \cup {None},
     token : Claims \cup {None}, keys : SUBSET Keys]

\* What the progress of a request says about its other fields: from the moment a
\* callback is let in, its code is the one of the sign-in in its cookie.
Shaped(r) ==
    /\ r.op = "login" <=> r.pc = "discover"
    /\ r.pc = "redeem" => r.op = "callback"
    /\ r.pc = "discover" => r.flow \in FlowCookie
    /\ r.pc \in {"keys", "fetch", "verify"} => r.token \in Claims
    /\ r.op = "callback" =>
          /\ r.flow \in FlowCookie /\ r.code = r.flow.id

Typed ==
    /\ TypeOK
    /\ jar \in Jar
    /\ req \in [Reqs -> Pending \cup {Idle}]
    /\ \A q \in Reqs : req[q] # Idle => Shaped(req[q])

\* The bounds of the model are numbers, and None is none of what it stands beside.
LEMMA Constants ==
    /\ KeysTTL \in Nat /\ KeysTTL >= 1 /\ FlowTTL \in Nat /\ SessionTTL \in Nat
    /\ TokenLife \in Nat /\ CallTime \in Nat /\ CallTime >= 1 /\ MaxTime \in Nat
    /\ None \notin Keys /\ None \notin Flows /\ None \notin Nat
    /\ FirstKey \in Keys /\ Required \in GatewayRole
    /\ \A l \in Loads : l.changes \in Nat
    /\ \A s \in RoleSets : s \subseteq GatewayRole
BY SignInAssumption DEF SignInAssumption

LEMMA PendingIsNotIdle == \A r \in Pending : r # Idle
BY DEF Pending, Idle

\* A request in progress.
LEMMA InProgress ==
    ASSUME Typed, NEW q \in Reqs, req[q] # Idle
    PROVE  req[q] \in Pending /\ Shaped(req[q])
BY DEF Typed

\* A step that changes one request, to a good one or to none.
LEMMA OneRequest ==
    ASSUME Typed, NEW q \in Reqs, NEW r \in Pending \cup {Idle},
           r \in Pending => Shaped(r) /\ r.since <= now,
           req' = [req EXCEPT ![q] = r], now' = now
    PROVE  /\ req' \in [Reqs -> Pending \cup {Idle}]
           /\ req'[q] = r /\ \A p \in Reqs \ {q} : req'[p] = req[p]
           /\ \A p \in Reqs : req'[p] # Idle =>
                 /\ Shaped(req'[p])
                 /\ req'[p].flow \in FlowCookie \cup {None}
                 /\ req'[p].token \in Claims \cup {None}
                 /\ req'[p].keys \subseteq Keys
                 /\ req'[p].since \in 0 .. now'
<1>1. /\ req' \in [Reqs -> Pending \cup {Idle}]
      /\ req'[q] = r /\ \A p \in Reqs \ {q} : req'[p] = req[p]
  BY DEF Typed
<1>2. ASSUME r # Idle
      PROVE  /\ Shaped(r)
             /\ r.flow \in FlowCookie \cup {None}
             /\ r.token \in Claims \cup {None}
             /\ r.keys \subseteq Keys
             /\ r.since \in 0 .. now'
  <2>1. r \in Pending
    BY <1>2
  <2>2. now \in Nat /\ MaxTime \in Nat
    BY Constants DEF Typed, TypeOK
  <2>. QED
    BY <2>1, <2>2 DEF Pending
<1>. QED
  BY <1>1, <1>2 DEF Typed, TypeOK

\* So the types are in order when the other variables are.
LEMMA RequestMoves ==
    ASSUME Typed, NEW q \in Reqs, NEW r \in Pending \cup {Idle},
           r \in Pending => Shaped(r) /\ r.since <= now,
           req' = [req EXCEPT ![q] = r], UNCHANGED <<mode, load, now, directory, bearer>>,
           jar' \in Jar, tabs' \cup signed' \subseteq Flows, codes' \subseteq tabs',
           cache' \in [keys : SUBSET Keys, expires : 0 .. MaxTime + KeysTTL] \cup {None}
    PROVE  Typed'
<1>1. /\ req' \in [Reqs -> Pending \cup {Idle}]
      /\ \A p \in Reqs : req'[p] # Idle =>
            /\ Shaped(req'[p])
            /\ req'[p].flow \in FlowCookie \cup {None}
            /\ req'[p].token \in Claims \cup {None}
            /\ req'[p].keys \subseteq Keys
            /\ req'[p].since \in 0 .. now'
  BY OneRequest
<1>2. jar'.flow \in FlowCookie \cup {None} /\ (jar'.session # None => jar'.session.roles \in RoleSets)
  BY DEF Jar, SessionRow
<1>3. TypeOK'
  BY <1>1, <1>2 DEF Typed, TypeOK, directory
<1>4. \A p \in Reqs : req'[p] # Idle => Shaped(req[p])'
  BY <1>1 DEF Shaped
<1>. QED
  BY <1>1, <1>3, <1>4 DEF Typed

\* The same when the requests stay as they are.
LEMMA OthersMove ==
    ASSUME Typed, UNCHANGED <<mode, load, cache, req>>,
           now' \in 0 .. MaxTime, now <= now',
           published' \in [Keys -> [since : 0 .. Never, until : 0 .. Never]],
           signing' \in Keys, roles' \in RoleSets, changes' \in 0 .. load.changes,
           held' \in [GatewayRole -> 0 .. MaxTime \cup {None}],
           codes' \subseteq tabs', tabs' \cup signed' \subseteq Flows,
           jar' \in Jar, bearer' \in Claims \cup {None}
    PROVE  Typed'
<1>1. jar'.flow \in FlowCookie \cup {None} /\ (jar'.session # None => jar'.session.roles \in RoleSets)
  BY DEF Jar, SessionRow
<1>2. \A q \in Reqs : req[q] # Idle =>
          /\ req[q].flow \in FlowCookie \cup {None}
          /\ req[q].token \in Claims \cup {None}
          /\ req[q].keys \subseteq Keys
          /\ req[q].since \in 0 .. now
  BY DEF Typed, TypeOK
<1>3. 0 .. now \subseteq 0 .. now'
  <2>1. now \in Nat /\ now' \in Nat
    BY Constants DEF Typed, TypeOK
  <2>. QED
    BY <2>1
<1>4. TypeOK'
  BY <1>1, <1>2, <1>3 DEF Typed, TypeOK
<1>. QED
  BY <1>4 DEF Typed, Shaped

LEMMA TokenTyped ==
    ASSUME Typed, NEW f \in Flows \cup {None}
    PROVE  Token(f) \in Claims
<1>1. now + TokenLife \in Nat
  BY Constants DEF Typed, TypeOK
<1>. QED
  BY <1>1 DEF Typed, TypeOK, Token, Claims

LEMMA DoingTyped ==
    ASSUME Typed, NEW op \in {"login", "callback", "bearer"},
           NEW pc \in {"discover", "redeem", "keys", "fetch", "verify"}
    PROVE  Doing(op, pc) \in Pending
BY DEF Typed, TypeOK, Doing, Pending

LEMMA TypedAtFirst == Init => Typed
<1>. SUFFICES ASSUME Init PROVE Typed
  OBVIOUS
<1>1. /\ 0 \in 0 .. MaxTime /\ 0 \in 0 .. Never /\ Never \in 0 .. Never
      /\ 0 \in 0 .. load.changes
  BY Constants DEF Init, Never
<1>2. published \in [Keys -> [since : 0 .. Never, until : 0 .. Never]]
  BY <1>1 DEF Init
<1>3. TypeOK
  BY <1>1, <1>2, Constants DEF Init, TypeOK
<1>. QED
  BY <1>3 DEF Init, Typed, Jar

LEMMA GatewayTyped ==
    ASSUME Typed, NEW q \in Reqs, Gateway(q)
    PROVE  Typed'
<1>0. /\ jar \in Jar /\ tabs \cup signed \subseteq Flows /\ codes \subseteq tabs
      /\ cache \in [keys : SUBSET Keys, expires : 0 .. MaxTime + KeysTTL] \cup {None}
      /\ now \in 0 .. MaxTime /\ now <= now /\ now \in Nat
  BY Constants DEF Typed, TypeOK
<1>1. ASSUME UNCHANGED <<mode, load, now, directory, bearer, cache, tabs, signed, codes, req>>,
             jar' \in Jar
      PROVE  Typed'
  BY <1>0, <1>1, OthersMove DEF Typed, TypeOK, directory
<1>2. CASE Login(q)
  <2>1. UNCHANGED <<mode, load, now, provider, cache, jar, tabs, signed, bearer>>
    BY <1>2 DEF Login
  <2>2. CASE UNCHANGED req
    BY <1>0, <1>1, <2>1, <2>2 DEF provider
  <2>3. ASSUME NEW f \in Flows,
               Continues(q, [Doing("login", "discover") EXCEPT !.flow = [id |-> f, iat |-> now]])
        PROVE  Typed'
    <3>. DEFINE r == [Doing("login", "discover") EXCEPT !.flow = [id |-> f, iat |-> now]]
    <3>1. [id |-> f, iat |-> now] \in FlowCookie
      BY <1>0 DEF FlowCookie
    <3>2. /\ r \in Pending /\ r.op = "login" /\ r.pc = "discover" /\ r.flow \in FlowCookie
          /\ r.since = now
      BY <1>0, <3>1 DEF Doing, Pending
    <3>3. req' = [req EXCEPT ![q] = r]
      BY <2>3 DEF Continues
    <3>. HIDE DEF r
    <3>4. Shaped(r)
      BY <3>2 DEF Shaped
    <3>. QED
      BY <1>0, <2>1, <3>2, <3>3, <3>4, RequestMoves DEF provider
  <2>. QED
    BY <1>2, <2>2, <2>3 DEF Login, AnswersAtOnce
<1>3. CASE Redirect(q)
  <2>1. req[q] \in Pending /\ Shaped(req[q]) /\ req[q].pc = "discover"
    BY <1>3, InProgress DEF Redirect, Is, At
  <2>2. req[q].flow \in FlowCookie
    BY <2>1 DEF Shaped
  <2>3. jar' \in Jar /\ tabs' \cup signed' \subseteq Flows /\ codes \subseteq tabs'
    BY <1>0, <1>3, <2>2 DEF Redirect, Jar, FlowCookie
  <2>4. req' = [req EXCEPT ![q] = Idle]
    BY <1>3 DEF Redirect, Answers
  <2>. QED
    BY <1>0, <1>3, <2>3, <2>4, PendingIsNotIdle, RequestMoves DEF Redirect, provider
<1>4. CASE Callback(q)
  <2>1. UNCHANGED <<mode, load, now, provider, cache, jar, tabs, signed, bearer>>
    BY <1>4 DEF Callback
  <2>2. CASE UNCHANGED req
    BY <1>0, <1>1, <2>1, <2>2 DEF provider
  <2>3. ASSUME NEW f \in tabs, FlowMatches(jar.flow, f),
               Continues(q, [Doing("callback", "redeem") EXCEPT !.code = f, !.flow = jar.flow])
        PROVE  Typed'
    <3>. DEFINE r == [Doing("callback", "redeem") EXCEPT !.code = f, !.flow = jar.flow]
    <3>1. jar.flow \in FlowCookie /\ jar.flow.id = f /\ now - jar.flow.iat <= FlowTTL
      BY <1>0, <2>3 DEF FlowMatches, Jar
    <3>2. /\ r \in Pending /\ r.op = "callback" /\ r.pc = "redeem"
          /\ r.flow = jar.flow /\ r.code = f
          /\ r.since = now
      BY <1>0, <3>1 DEF Doing, Pending
    <3>3. req' = [req EXCEPT ![q] = r]
      BY <2>3 DEF Continues
    <3>. HIDE DEF r
    <3>4. Shaped(r)
      BY <3>1, <3>2 DEF Shaped
    <3>. QED
      BY <1>0, <2>1, <3>2, <3>3, <3>4, RequestMoves DEF provider
  <2>. QED
    BY <1>4, <2>2, <2>3 DEF Callback, AnswersAtOnce
<1>5. CASE Redeem(q)
  <2>. DEFINE t == Token(req[q].code)
              r == [req[q] EXCEPT !.pc = "keys", !.token = t]
  <2>1. /\ req[q] \in Pending /\ Shaped(req[q])
        /\ req[q].op = "callback" /\ req[q].pc = "redeem" /\ req[q].code \in codes
        /\ req[q].since <= now
    BY <1>5, InProgress DEF Redeem, Is, At, Typed, TypeOK
  <2>2. t \in Claims
    BY <1>0, <2>1, TokenTyped
  <2>. HIDE DEF t
  <2>3. /\ r \in Pending /\ r.op = "callback" /\ r.pc = "keys" /\ r.token = t
        /\ r.flow = req[q].flow /\ r.code = req[q].code
        /\ r.since = req[q].since
    BY <2>1, <2>2 DEF Pending
  <2>4. req' = [req EXCEPT ![q] = r]
    BY <1>5 DEF Redeem, Continues, t
  <2>. HIDE DEF r
  <2>5. Shaped(r)
    BY <2>1, <2>2, <2>3 DEF Shaped
  <2>6. codes' \subseteq tabs /\ UNCHANGED <<mode, load, now, directory, cache, jar, tabs, signed, bearer>>
    BY <1>0, <1>5 DEF Redeem
  <2>. QED
    BY <1>0, <2>1, <2>3, <2>4, <2>5, <2>6, RequestMoves
<1>6. CASE Bearer(q)
  <2>1. bearer \in Claims /\ UNCHANGED <<mode, load, now, provider, cache, jar, tabs, signed, bearer>>
    BY <1>6 DEF Bearer, Typed, TypeOK
  <2>2. CASE UNCHANGED req
    BY <1>0, <1>1, <2>1, <2>2 DEF provider
  <2>3. CASE Continues(q, [Doing("bearer", "keys") EXCEPT !.token = bearer])
    <3>. DEFINE r == [Doing("bearer", "keys") EXCEPT !.token = bearer]
    <3>1. /\ r \in Pending /\ r.op = "bearer" /\ r.pc = "keys" /\ r.token = bearer
          /\ r.since = now
      BY <1>0, <2>1 DEF Doing, Pending
    <3>2. req' = [req EXCEPT ![q] = r]
      BY <2>3 DEF Continues
    <3>. HIDE DEF r
    <3>3. Shaped(r)
      BY <2>1, <3>1 DEF Shaped
    <3>. QED
      BY <1>0, <2>1, <3>1, <3>2, <3>3, RequestMoves DEF provider
  <2>. QED
    BY <1>6, <2>2, <2>3 DEF Bearer, AnswersAtOnce
<1>7. CASE Session(q)
  BY <1>0, <1>1, <1>7 DEF Session, AnswersAtOnce, provider
<1>8. CASE Logout(q)
  <2>1. jar' \in Jar
    BY <1>0, <1>8 DEF Logout, Jar
  <2>. QED
    BY <1>1, <1>8, <2>1 DEF Logout, AnswersAtOnce, provider
<1>9. CASE UseCache(q)
  <2>. DEFINE ks == cache.keys
              r == [req[q] EXCEPT !.pc = "verify", !.keys = ks]
  <2>1. /\ req[q] \in Pending /\ Shaped(req[q]) /\ req[q].pc = "keys"
        /\ req[q].since <= now
    BY <1>9, InProgress DEF UseCache, At, Typed, TypeOK
  <2>2. ks \subseteq Keys
    BY <1>0, <1>9 DEF UseCache, Cached
  <2>. HIDE DEF ks
  <2>3. /\ r \in Pending /\ r.op = req[q].op /\ r.pc = "verify" /\ r.token = req[q].token
        /\ r.flow = req[q].flow /\ r.code = req[q].code
        /\ r.since = req[q].since
    BY <2>1, <2>2 DEF Pending
  <2>4. req' = [req EXCEPT ![q] = r]
    BY <1>9 DEF UseCache, Continues, ks
  <2>. HIDE DEF r
  <2>5. Shaped(r)
    BY <2>1, <2>3 DEF Shaped
  <2>. QED
    BY <1>0, <1>9, <2>1, <2>3, <2>4, <2>5, RequestMoves DEF UseCache, provider
<1>10. CASE Fetch(q)
  <2>. DEFINE r == [req[q] EXCEPT !.pc = "fetch", !.since = now, !.keys = KeySet]
  <2>1. /\ req[q] \in Pending /\ Shaped(req[q]) /\ req[q].pc = "keys"
       
    BY <1>10, InProgress DEF Fetch, At, Typed, TypeOK
  <2>2. KeySet \subseteq Keys
    BY DEF KeySet
  <2>3. /\ r \in Pending /\ r.op = req[q].op /\ r.pc = "fetch" /\ r.token = req[q].token
        /\ r.flow = req[q].flow /\ r.code = req[q].code
        /\ r.since = now
    BY <1>0, <2>1, <2>2 DEF Pending
  <2>4. req' = [req EXCEPT ![q] = r]
    BY <1>10 DEF Fetch, Continues
  <2>. HIDE DEF r
  <2>5. Shaped(r)
    BY <2>1, <2>3 DEF Shaped
  <2>. QED
    BY <1>0, <1>10, <2>1, <2>3, <2>4, <2>5, RequestMoves DEF Fetch, provider
<1>11. CASE Arrive(q)
  <2>. DEFINE r == [req[q] EXCEPT !.pc = "verify"]
  <2>1. /\ req[q] \in Pending /\ Shaped(req[q]) /\ req[q].pc = "fetch"
        /\ req[q].since <= now
    BY <1>11, InProgress DEF Arrive, At, Typed, TypeOK
  <2>2. /\ r \in Pending /\ r.op = req[q].op /\ r.pc = "verify" /\ r.token = req[q].token
        /\ r.flow = req[q].flow /\ r.code = req[q].code
        /\ r.since = req[q].since
    BY <2>1 DEF Pending
  <2>3. req' = [req EXCEPT ![q] = r]
    BY <1>11 DEF Arrive, Continues
  <2>. HIDE DEF r
  <2>4. Shaped(r)
    BY <2>1, <2>2 DEF Shaped
  <2>5. req[q].keys \subseteq Keys /\ now + KeysTTL \in 0 .. MaxTime + KeysTTL
    BY <1>0, <2>1, Constants DEF Pending
  <2>6. cache' \in [keys : SUBSET Keys, expires : 0 .. MaxTime + KeysTTL] \cup {None}
    BY <1>11, <2>5 DEF Arrive, Expiry
  <2>. QED
    BY <1>0, <1>11, <2>1, <2>2, <2>3, <2>4, <2>6, RequestMoves DEF Arrive, provider
<1>12. CASE ProviderFails(q)
  <2>1. codes' \subseteq tabs /\ req' = [req EXCEPT ![q] = Idle]
    BY <1>0, <1>12 DEF ProviderFails, Answers
  <2>. QED
    BY <1>0, <1>12, <2>1, PendingIsNotIdle, RequestMoves DEF ProviderFails
<1>13. CASE Decide(q)
  BY <1>0, <1>13, PendingIsNotIdle, RequestMoves DEF Decide, Answers, provider
<1>14. CASE SignedIn(q)
  <2>1. req[q] \in Pending /\ Shaped(req[q]) /\ req[q].pc = "verify"
    BY <1>14, InProgress DEF SignedIn, Is, At
  <2>2. req[q].token \in Claims /\ now + SessionTTL \in Nat
    BY <1>0, <2>1, Constants DEF Shaped
  <2>3. SessionCookie(req[q].token) \in SessionRow
    BY <2>2 DEF SessionCookie, SessionRow, Claims
  <2>4. jar' \in Jar
    BY <1>0, <1>14, <2>3 DEF SignedIn, Cookies, Jar
  <2>5. tabs' \cup signed' \subseteq Flows
    <3>1. req[q].flow.id \in Flows
      BY <1>14, <2>1 DEF SignedIn, Is, At, Shaped, FlowCookie
    <3>. QED
      BY <1>0, <1>14, <3>1 DEF SignedIn
  <2>. QED
    BY <1>0, <1>14, <2>4, <2>5, PendingIsNotIdle, RequestMoves DEF SignedIn, Answers, provider
<1>. QED
  BY <1>2, <1>3, <1>4, <1>5, <1>6, <1>7, <1>8, <1>9, <1>10, <1>11, <1>12, <1>13, <1>14
     DEF Gateway

LEMMA TypedStays == Typed /\ [Next]_vars => Typed'
<1>. SUFFICES ASSUME Typed, [Next]_vars PROVE Typed'
  OBVIOUS
<1>0. /\ jar \in Jar /\ tabs \cup signed \subseteq Flows /\ codes \subseteq tabs
      /\ now \in 0 .. MaxTime /\ now <= now /\ now \in Nat /\ MaxTime \in Nat
      /\ bearer \in Claims \cup {None}
  BY Constants DEF Typed, TypeOK
<1>1. ASSUME NEW f \in Flows, GiveCode(f) PROVE Typed'
  BY <1>0, <1>1, OthersMove DEF GiveCode, directory, Typed, TypeOK
<1>2. CASE Change
  <2>1. changes' \in 0 .. load.changes
    BY <1>2, Constants DEF Change, Typed, TypeOK
  <2>2. UNCHANGED <<mode, load, now, codes, cache, jar, tabs, signed, bearer, req>>
    BY <1>2 DEF Change
  <2>3. now \in 0 .. Never
    BY <1>0 DEF Never
  <2>4. ASSUME NEW k \in Keys, Publish(k) \/ SignWith(k) \/ Retire(k) PROVE Typed'
    <3>1. published' \in [Keys -> [since : 0 .. Never, until : 0 .. Never]]
      BY <2>3, <2>4 DEF Publish, SignWith, Retire, Typed, TypeOK
    <3>2. signing' \in Keys /\ UNCHANGED <<roles, held>>
      BY <2>4 DEF Publish, SignWith, Retire, Typed, TypeOK
    <3>. QED
      BY <1>0, <2>1, <2>2, <3>1, <3>2, OthersMove DEF Typed, TypeOK
  <2>5. ASSUME NEW new \in RoleSets, AssignRoles(new) PROVE Typed'
    <3>1. held' \in [GatewayRole -> 0 .. MaxTime \cup {None}]
      BY <1>0, <2>5 DEF AssignRoles, Typed, TypeOK
    <3>2. roles' \in RoleSets /\ UNCHANGED <<published, signing>>
      BY <2>5 DEF AssignRoles
    <3>. QED
      BY <1>0, <2>1, <2>2, <3>1, <3>2, OthersMove DEF Typed, TypeOK
  <2>. QED
    BY <1>2, <2>4, <2>5 DEF Change
<1>3. CASE GetToken
  <2>1. bearer' \in Claims
    BY <1>3, TokenTyped DEF GetToken
  <2>. QED
    BY <1>0, <1>3, <2>1, OthersMove DEF GetToken, provider, directory, Typed, TypeOK
<1>4. CASE DropCookie
  <2>1. jar' \in Jar
    BY <1>0, <1>4 DEF DropCookie, Jar
  <2>. QED
    BY <1>0, <1>4, <2>1, OthersMove DEF DropCookie, provider, directory, Typed, TypeOK
<1>5. CASE Tick
  <2>1. now' \in 0 .. MaxTime /\ now <= now'
    BY <1>0, <1>5 DEF Tick
  <2>. QED
    BY <1>0, <1>5, <2>1, OthersMove DEF Tick, provider, directory, Typed, TypeOK
<1>6. CASE UNCHANGED vars
  BY <1>0, <1>6, OthersMove DEF vars, provider, directory, Typed, TypeOK
<1>. QED
  BY <1>1, <1>2, <1>3, <1>4, <1>5, <1>6, GatewayTyped DEF Next

\* TypeOK: no code without a sign-in that asked for it, no flow from the future.
THEOREM TypeCorrect == Spec => []TypeOK
<1>1. Typed => TypeOK
  BY DEF Typed
<1>. QED
  BY <1>1, TypedAtFirst, TypedStays, PTL DEF Spec

-----------------------------------------------------------------------------
\* Sign-ins.

\* A flow cookie is that of a sign-in that was not completed; a login that still waits
\* has a flow of its own, which no tab and no other login has.
Once ==
    /\ signed \subseteq tabs
    /\ jar.flow # None => jar.flow.id \in tabs \ signed
    /\ \A q \in Reqs : req[q].op = "login" =>
          /\ req[q].flow.id \notin tabs
          /\ \A r \in Reqs \ {q} : req[r].op = "login" => req[r].flow.id # req[q].flow.id
    /\ \A q \in Reqs : req[q].op = "callback" => req[q].flow.id \in tabs

\* A request that ends, or goes on with what it asks for and its flow, disturbs nothing
\* of it.
LEMMA OnceKept ==
    ASSUME Typed, Once, NEW q \in Reqs, UNCHANGED <<tabs, signed>>,
           jar'.flow \in {jar.flow, None},
           \A p \in Reqs : \/ req'[p].op \notin {"login", "callback"}
                           \/ req'[p].op = req[p].op /\ req'[p].flow = req[p].flow
    PROVE  Once'
BY DEF Once

LEMMA OnceByGateway ==
    ASSUME Typed, Once, NEW q \in Reqs, Gateway(q)
    PROVE  Once'
<1>0. /\ req \in [Reqs -> Pending \cup {Idle}] /\ Idle.op = "idle"
      /\ tabs \cup signed \subseteq Flows
  BY DEF Typed, TypeOK, Idle
<1>1. ASSUME \A p \in Reqs \ {q} : req'[p] = req[p],
             \/ req'[q].op \notin {"login", "callback"}
             \/ req'[q].op = req[q].op /\ req'[q].flow = req[q].flow,
             UNCHANGED <<jar, tabs, signed>>
      PROVE  Once'
  BY <1>1, OnceKept
<1>2. ASSUME UNCHANGED <<req, tabs, signed>>, jar'.flow = jar.flow PROVE Once'
  BY <1>2, OnceKept
<1>3. CASE Login(q)
  <2>1. UNCHANGED <<jar, tabs, signed>> /\ req[q] = Idle
    BY <1>3 DEF Login, Free
  <2>2. CASE UNCHANGED req
    BY <1>2, <2>1, <2>2
  <2>3. ASSUME NEW f \in Flows \ (tabs \cup {req[r].flow.id : r \in {r \in Reqs : req[r].op = "login"}}),
               Continues(q, [Doing("login", "discover") EXCEPT !.flow = [id |-> f, iat |-> now]])
        PROVE  Once'
    <3>. DEFINE r == [Doing("login", "discover") EXCEPT !.flow = [id |-> f, iat |-> now]]
    <3>1. r.op = "login" /\ r.flow.id = f
      BY DEF Doing
    <3>2. req' = [req EXCEPT ![q] = r]
      BY <2>3 DEF Continues
    <3>3. f \notin tabs /\ \A p \in Reqs : req[p].op = "login" => req[p].flow.id # f
      BY <2>3
    <3>. HIDE DEF r
    <3>4. req'[q] = r /\ \A p \in Reqs \ {q} : req'[p] = req[p]
      BY <1>0, <3>2
    <3>. QED
      BY <2>1, <3>1, <3>3, <3>4 DEF Once
  <2>. QED
    BY <1>3, <2>2, <2>3 DEF Login, AnswersAtOnce
<1>4. CASE Redirect(q)
  <2>1. /\ req[q].op = "login" /\ jar'.flow = req[q].flow
        /\ tabs' = tabs \cup {req[q].flow.id} /\ signed' = signed
        /\ req' = [req EXCEPT ![q] = Idle]
    BY <1>4 DEF Redirect, Is, Answers, Typed, Jar
  <2>2. req'[q] = Idle /\ \A p \in Reqs \ {q} : req'[p] = req[p]
    BY <1>0, <2>1
  <2>. QED
    BY <1>0, <2>1, <2>2 DEF Once
<1>5. CASE Callback(q)
  <2>1. UNCHANGED <<jar, tabs, signed>> /\ req[q] = Idle
    BY <1>5 DEF Callback, Free
  <2>2. CASE UNCHANGED req
    BY <1>2, <2>1, <2>2
  <2>3. ASSUME NEW f \in tabs, FlowMatches(jar.flow, f),
               Continues(q, [Doing("callback", "redeem") EXCEPT !.code = f, !.flow = jar.flow])
        PROVE  Once'
    <3>. DEFINE r == [Doing("callback", "redeem") EXCEPT !.code = f, !.flow = jar.flow]
    <3>1. r.op = "callback" /\ r.flow.id \in tabs
      BY <2>3 DEF Doing, FlowMatches
    <3>2. req' = [req EXCEPT ![q] = r]
      BY <2>3 DEF Continues
    <3>. HIDE DEF r
    <3>3. req'[q] = r /\ \A p \in Reqs \ {q} : req'[p] = req[p]
      BY <1>0, <3>2
    <3>. QED
      BY <2>1, <3>1, <3>3 DEF Once
  <2>. QED
    BY <1>5, <2>2, <2>3 DEF Callback, AnswersAtOnce
<1>6. CASE SignedIn(q)
  <2>1. /\ req[q].op = "callback" /\ req' = [req EXCEPT ![q] = Idle] /\ tabs' = tabs
        /\ \/ signed' = signed /\ jar' = jar
           \/ signed' = signed \cup {req[q].flow.id} /\ jar'.flow = None
    BY <1>6 DEF SignedIn, Is, Answers, Cookies
  <2>2. req'[q] = Idle /\ \A p \in Reqs \ {q} : req'[p] = req[p]
    BY <1>0, <2>1
  <2>. QED
    BY <1>0, <2>1, <2>2 DEF Once
<1>7. CASE Redeem(q) \/ UseCache(q) \/ Fetch(q) \/ Arrive(q)
  <2>1. UNCHANGED <<jar, tabs, signed>>
    BY <1>7 DEF Redeem, UseCache, Fetch, Arrive
  <2>2. req[q] \in Pending
    BY <1>7, InProgress DEF Redeem, UseCache, Fetch, Arrive, Is, At
  <2>3. /\ \A p \in Reqs \ {q} : req'[p] = req[p]
        /\ req'[q].op = req[q].op /\ req'[q].flow = req[q].flow
    <3>1. CASE Redeem(q)
      BY <1>0, <2>2, <3>1 DEF Redeem, Continues, Pending
    <3>2. CASE UseCache(q)
      BY <1>0, <2>2, <3>2 DEF UseCache, Continues, Pending
    <3>3. CASE Fetch(q)
      BY <1>0, <2>2, <3>3 DEF Fetch, Continues, Pending
    <3>4. CASE Arrive(q)
      BY <1>0, <2>2, <3>4 DEF Arrive, Continues, Pending
    <3>. QED
      BY <1>7, <3>1, <3>2, <3>3, <3>4
  <2>. QED
    BY <1>1, <2>1, <2>3
<1>8. CASE Decide(q) \/ ProviderFails(q)
  <2>1. req' = [req EXCEPT ![q] = Idle] /\ UNCHANGED <<jar, tabs, signed>>
    BY <1>8 DEF Decide, ProviderFails, Answers
  <2>2. req'[q].op = "idle" /\ \A p \in Reqs \ {q} : req'[p] = req[p]
    BY <1>0, <2>1
  <2>. QED
    BY <1>1, <2>1, <2>2
<1>9. CASE Bearer(q)
  <2>1. UNCHANGED <<jar, tabs, signed>>
    BY <1>9 DEF Bearer
  <2>2. CASE UNCHANGED req
    BY <1>2, <2>1, <2>2
  <2>3. CASE Continues(q, [Doing("bearer", "keys") EXCEPT !.token = bearer])
    <3>1. req'[q].op = "bearer" /\ \A p \in Reqs \ {q} : req'[p] = req[p]
      BY <1>0, <2>3 DEF Continues, Doing
    <3>. QED
      BY <1>1, <2>1, <3>1
  <2>. QED
    BY <1>9, <2>2, <2>3 DEF Bearer, AnswersAtOnce
<1>10. CASE Session(q)
  BY <1>2, <1>10 DEF Session, AnswersAtOnce
<1>11. CASE Logout(q)
  <2>1. jar'.flow = jar.flow
    BY <1>11 DEF Logout, Typed, Jar
  <2>. QED
    BY <1>2, <1>11, <2>1 DEF Logout, AnswersAtOnce
<1>. QED
  BY <1>3, <1>4, <1>5, <1>6, <1>7, <1>8, <1>9, <1>10, <1>11 DEF Gateway

LEMMA OnceStays == Typed /\ Once /\ [Next]_vars => Once'
<1>. SUFFICES ASSUME Typed, Once, [Next]_vars PROVE Once'
  OBVIOUS
<1>1. ASSUME UNCHANGED <<req, tabs, signed>>, jar'.flow \in {jar.flow, None} PROVE Once'
  BY <1>1 DEF Once
<1>2. CASE Change \/ GetToken \/ Tick \/ \E f \in Flows : GiveCode(f)
  BY <1>1, <1>2 DEF Change, GetToken, Tick, GiveCode
<1>3. CASE DropCookie
  <2>1. jar'.flow \in {jar.flow, None}
    BY <1>3 DEF DropCookie, Typed, Jar
  <2>. QED
    BY <1>1, <1>3, <2>1 DEF DropCookie
<1>4. CASE UNCHANGED vars
  BY <1>1, <1>4 DEF vars
<1>. QED
  BY <1>2, <1>3, <1>4, OnceByGateway DEF Next

\* A sign-in that was completed is not completed again by a callback sent after that,
\* whatever tabs, logins and codes there are (login, callback, complete_login).
THEOREM NoSignInIsRepeated == Spec => SignInsAreNotRepeated
<1>1. Init => Once
  BY DEF Init, Once, Idle
<1>2. ASSUME Once, NEW q \in Reqs, LetIn(q) PROVE req'[q].flow.id \notin signed
  <2>1. req[q] = Idle /\ req'[q] # Idle
    BY <1>2 DEF LetIn, Callback, Free
  <2>2. PICK f \in tabs : FlowMatches(jar.flow, f) /\
           Continues(q, [Doing("callback", "redeem") EXCEPT !.code = f, !.flow = jar.flow])
    BY <1>2, <2>1 DEF LetIn, Callback, AnswersAtOnce
  <2>3. jar.flow # None /\ req'[q].flow = jar.flow
    BY <2>1, <2>2 DEF FlowMatches, Continues, Doing
  <2>. QED
    BY <1>2, <2>3 DEF Once
<1>3. Typed /\ Once /\ [Next]_vars => [\A q \in Reqs : LetIn(q) => req'[q].flow.id \notin signed]_vars
  BY <1>2
<1>. QED
  BY <1>1, <1>3, OnceStays, TypedAtFirst, TypedStays, PTL DEF Spec, SignInsAreNotRepeated

-----------------------------------------------------------------------------
\* Keys.

\* The key set is one that was published d before t, or less.
Within(pub, keys, t, d) ==
    \A k \in Keys :
        IF k \in keys THEN pub[k].until + d >= t
        ELSE pub[k].since + d >= t \/ pub[k].until # Never

Slack == KeysTTL + CallTime

\* A set under way is at most one call old, a cached one expires no later than a
\* lifetime after a set that age arrived, and what a token is verified with is
\* therefore recent.
RecentKeys ==
    /\ cache # None => cache.expires <= now + KeysTTL
                       /\ Within(published, cache.keys, cache.expires, Slack)
    /\ \A q \in Reqs : req[q] # Idle =>
          /\ req[q].pc = "fetch" => /\ now <= req[q].since + CallTime
                                    /\ Within(published, req[q].keys, req[q].since, 0)
          /\ req[q].pc = "verify" => Within(published, req[q].keys, now + 1, Slack)

LEMMA PublishedTyped ==
    ASSUME Typed, NEW k \in Keys
    PROVE  published[k].since \in Nat /\ published[k].until \in Nat
<1>1. Never \in Nat
  BY Constants DEF Never
<1>. QED
  BY <1>1 DEF Typed, TypeOK

\* What was recent stays so when the provider changes its keys.
LEMMA WithinStays ==
    ASSUME Typed, Change, NEW keys, NEW t \in Nat, NEW d \in Nat, t <= now + d,
           Within(published, keys, t, d)
    PROVE  Within(published', keys, t, d)
<1>0. now \in Nat /\ now # Never
  BY Constants DEF Typed, TypeOK, Never
<1>1. ASSUME NEW k \in Keys, Publish(k) PROVE Within(published', keys, t, d)
  <2>1. /\ published'[k].since = now /\ published'[k].until = published[k].until
        /\ \A i \in Keys \ {k} : published'[i] = published[i]
    BY <1>1 DEF Publish, Typed, TypeOK
  <2>. QED
    BY <1>0, <2>1 DEF Within
<1>2. ASSUME NEW k \in Keys, Retire(k) PROVE Within(published', keys, t, d)
  <2>1. /\ published'[k].since = published[k].since /\ published'[k].until = now
        /\ \A i \in Keys \ {k} : published'[i] = published[i]
    BY <1>2 DEF Retire, Typed, TypeOK
  <2>. QED
    BY <1>0, <2>1 DEF Within
<1>3. ASSUME published' = published PROVE Within(published', keys, t, d)
  BY <1>3
<1>. QED
  BY <1>1, <1>2, <1>3 DEF Change, SignWith, AssignRoles

LEMMA RecentKeysStay == Typed /\ RecentKeys /\ [Next]_vars => RecentKeys'
<1>. SUFFICES ASSUME Typed, RecentKeys, [Next]_vars PROVE RecentKeys'
  OBVIOUS
<1>0. /\ now \in Nat /\ MaxTime \in Nat /\ now <= MaxTime
      /\ KeysTTL \in Nat /\ KeysTTL >= 1 /\ CallTime \in Nat
      /\ Slack \in Nat /\ Slack = KeysTTL + CallTime
      /\ cache # None => cache.expires \in Nat
  BY Constants DEF Typed, TypeOK, Slack
\* A request moves; what it uses is recent, and the cache stays or is.
<1>1. ASSUME NEW q \in Reqs, NEW r \in Pending \cup {Idle}, req' = [req EXCEPT ![q] = r],
             UNCHANGED <<now, published>>,
             r \in Pending =>
                /\ r.pc = "fetch" => /\ now <= r.since + CallTime
                                     /\ Within(published, r.keys, r.since, 0)
                /\ r.pc = "verify" => Within(published, r.keys, now + 1, Slack),
             \/ cache' = cache
             \/ cache'.expires <= now + KeysTTL
                /\ Within(published, cache'.keys, cache'.expires, Slack)
      PROVE  RecentKeys'
  <2>1. req'[q] = r /\ \A p \in Reqs \ {q} : req'[p] = req[p]
    BY <1>1 DEF Typed
  <2>. QED
    BY <1>1, <2>1 DEF RecentKeys
<1>2. ASSUME UNCHANGED <<now, published, cache, req>> PROVE RecentKeys'
  BY <1>2 DEF RecentKeys
<1>3. ASSUME NEW q \in Reqs, Gateway(q) PROVE RecentKeys'
  <2>0. UNCHANGED <<now, published>>
    BY <1>3 DEF Gateway, Login, Redirect, Callback, Redeem, SignedIn, Bearer, Decide, Session,
                Logout, UseCache, Fetch, Arrive, ProviderFails, provider, directory
  <2>1. CASE /\ cache' = cache
             /\ \/ UNCHANGED req
                \/ \E r \in Pending \cup {Idle} :
                      /\ req' = [req EXCEPT ![q] = r]
                      /\ r \in Pending => r.pc \notin {"fetch", "verify"}
    BY <1>1, <1>2, <2>0, <2>1
  <2>2. CASE Login(q)
    <3>1. ASSUME NEW f \in Flows
          PROVE  LET r == [Doing("login", "discover") EXCEPT !.flow = [id |-> f, iat |-> now]]
                 IN  r \in Pending /\ r.pc \notin {"fetch", "verify"}
      <4>1. [id |-> f, iat |-> now] \in FlowCookie /\ now \in 0 .. MaxTime
        BY <1>0 DEF FlowCookie
      <4>. QED
        BY <4>1 DEF Doing, Pending
    <3>. QED
      BY <2>1, <2>2, <3>1 DEF Login, AnswersAtOnce, Continues
  <2>3. CASE Callback(q)
    <3>1. ASSUME NEW f \in tabs, FlowMatches(jar.flow, f)
          PROVE  LET r == [Doing("callback", "redeem") EXCEPT !.code = f, !.flow = jar.flow]
                 IN  r \in Pending /\ r.pc \notin {"fetch", "verify"}
      <4>1. jar.flow \in FlowCookie /\ f \in Flows /\ now \in 0 .. MaxTime
        BY <1>0, <3>1 DEF FlowMatches, Typed, TypeOK, Jar
      <4>. QED
        BY <4>1 DEF Doing, Pending
    <3>. QED
      BY <2>1, <2>3, <3>1 DEF Callback, AnswersAtOnce, Continues
  <2>4. CASE Bearer(q)
    <3>1. LET r == [Doing("bearer", "keys") EXCEPT !.token = bearer]
          IN  r \in Pending /\ r.pc \notin {"fetch", "verify"}
      <4>1. bearer \in Claims /\ now \in 0 .. MaxTime
        BY <1>0, <2>4 DEF Bearer, Typed, TypeOK
      <4>. QED
        BY <4>1 DEF Doing, Pending
    <3>. QED
      BY <2>1, <2>4, <3>1 DEF Bearer, AnswersAtOnce, Continues
  <2>5. CASE Redeem(q)
    <3>. DEFINE t == Token(req[q].code)
    <3>1. req[q] \in Pending /\ req[q].code \in Flows
      BY <2>5, InProgress DEF Redeem, Is, At, Typed, TypeOK
    <3>2. t \in Claims
      BY <3>1, TokenTyped
    <3>. HIDE DEF t
    <3>3. LET r == [req[q] EXCEPT !.pc = "keys", !.token = t]
          IN  r \in Pending /\ r.pc \notin {"fetch", "verify"}
      BY <3>1, <3>2 DEF Pending
    <3>4. req' = [req EXCEPT ![q] = [req[q] EXCEPT !.pc = "keys", !.token = t]] /\ cache' = cache
      BY <2>5 DEF Redeem, Continues, t
    <3>. QED
      BY <2>1, <3>3, <3>4
  <2>6. CASE Redirect(q) \/ ProviderFails(q) \/ Decide(q) \/ SignedIn(q)
    BY <2>1, <2>6, PendingIsNotIdle DEF Redirect, ProviderFails, Decide, SignedIn, Answers
  <2>7. CASE Session(q) \/ Logout(q)
    BY <2>1, <2>7 DEF Session, Logout, AnswersAtOnce
  <2>8. CASE UseCache(q)
    <3>. DEFINE ks == cache.keys
                r == [req[q] EXCEPT !.pc = "verify", !.keys = ks]
    <3>1. req[q] \in Pending /\ cache # None /\ cache.expires > now
      BY <2>8, InProgress DEF UseCache, At, Cached
    <3>2. ks \subseteq Keys /\ Within(published, ks, cache.expires, Slack)
      BY <3>1 DEF Typed, TypeOK, RecentKeys
    <3>3. Within(published, ks, now + 1, Slack)
      <4>1. cache.expires \in Nat /\ cache.expires >= now + 1
        BY <1>0, <3>1
      <4>2. \A k \in Keys : published[k].until \in Nat /\ published[k].since \in Nat
        BY PublishedTyped
      <4>. HIDE DEF ks
      <4>. QED
        BY <1>0, <3>2, <4>1, <4>2 DEF Within
    <3>. HIDE DEF ks
    <3>4. r \in Pending /\ r.pc = "verify" /\ r.keys = ks
      BY <3>1, <3>2 DEF Pending
    <3>5. req' = [req EXCEPT ![q] = r] /\ cache' = cache
      BY <2>8 DEF UseCache, Continues, ks
    <3>. HIDE DEF r
    <3>. QED
      BY <1>1, <2>0, <3>3, <3>4, <3>5
  <2>9. CASE Fetch(q)
    <3>. DEFINE r == [req[q] EXCEPT !.pc = "fetch", !.since = now, !.keys = KeySet]
    <3>1. req[q] \in Pending /\ KeySet \subseteq Keys /\ now \in 0 .. MaxTime
      BY <1>0, <2>9, InProgress DEF Fetch, At, KeySet
    <3>2. r \in Pending /\ r.pc = "fetch" /\ r.since = now /\ r.keys = KeySet
      BY <3>1 DEF Pending
    <3>3. Within(published, KeySet, now, 0)
      <4>1. \A k \in Keys : published[k].until \in Nat /\ published[k].since \in Nat
        BY PublishedTyped
      <4>2. Never \in Nat /\ Never >= now
        BY <1>0 DEF Never
      <4>. QED
        BY <1>0, <4>1, <4>2 DEF Within, KeySet
    <3>4. req' = [req EXCEPT ![q] = r] /\ cache' = cache
      BY <2>9 DEF Fetch, Continues
    <3>. HIDE DEF r
    <3>5. now <= r.since + CallTime /\ Within(published, r.keys, r.since, 0)
      BY <1>0, <3>2, <3>3
    <3>. QED
      BY <1>1, <2>0, <3>2, <3>4, <3>5
  <2>10. CASE Arrive(q)
    <3>. DEFINE r == [req[q] EXCEPT !.pc = "verify"]
                ks == req[q].keys
                from == req[q].since
    <3>1. req[q] \in Pending /\ req[q] # Idle /\ req[q].pc = "fetch"
      BY <2>10, InProgress DEF Arrive, At
    <3>2. r \in Pending /\ r.pc = "verify" /\ r.keys = ks
      BY <3>1 DEF Pending
    <3>3. from \in Nat /\ now <= from + CallTime /\ Within(published, ks, from, 0)
      BY <3>1 DEF Pending, RecentKeys
    <3>4. req' = [req EXCEPT ![q] = r] /\ cache' = [keys |-> ks, expires |-> now + KeysTTL]
      BY <2>10 DEF Arrive, Continues, Expiry
    <3>. HIDE DEF r, ks, from
    <3>5. \A k \in Keys : published[k].until \in Nat /\ published[k].since \in Nat
      BY PublishedTyped
    <3>6. Within(published, ks, now + KeysTTL, Slack)
      BY <1>0, <3>3, <3>5 DEF Within
    <3>7. Within(published, ks, now + 1, Slack)
      BY <1>0, <3>3, <3>5 DEF Within
    <3>8. now + KeysTTL <= now + KeysTTL
      BY <1>0
    <3>. QED
      BY <1>1, <2>0, <3>2, <3>4, <3>6, <3>7, <3>8
  <2>. QED
    BY <1>3, <2>2, <2>3, <2>4, <2>5, <2>6, <2>7, <2>8, <2>9, <2>10 DEF Gateway
<1>4. CASE Change
  <2>1. UNCHANGED <<now, cache, req>>
    BY <1>4 DEF Change
  <2>2. cache # None => Within(published', cache.keys, cache.expires, Slack)
    <3>. SUFFICES ASSUME cache # None
                  PROVE  Within(published', cache.keys, cache.expires, Slack)
      OBVIOUS
    <3>1. cache.expires \in Nat /\ cache.expires <= now + Slack
      BY <1>0 DEF RecentKeys
    <3>. QED
      BY <1>0, <1>4, <3>1, WithinStays DEF RecentKeys
  <2>3. ASSUME NEW q \in Reqs, req[q] # Idle, req[q].pc = "fetch"
        PROVE  Within(published', req[q].keys, req[q].since, 0)
    <3>1. req[q].since \in Nat /\ req[q].since <= now + 0
      BY <1>0, <2>3, InProgress DEF Pending, Typed, TypeOK
    <3>. QED
      BY <1>4, <2>3, <3>1, WithinStays DEF RecentKeys
  <2>4. ASSUME NEW q \in Reqs, req[q] # Idle, req[q].pc = "verify"
        PROVE  Within(published', req[q].keys, now + 1, Slack)
    <3>1. now + 1 \in Nat /\ now + 1 <= now + Slack
      BY <1>0
    <3>. QED
      BY <1>0, <1>4, <2>4, <3>1, WithinStays DEF RecentKeys
  <2>. QED
    BY <2>1, <2>2, <2>3, <2>4 DEF RecentKeys
<1>5. CASE Tick
  <2>1. /\ now' = now + 1 /\ UNCHANGED <<published, cache, req>>
        /\ \A q \in Reqs : req[q] # Idle =>
              req[q].pc \in {"discover", "redeem", "fetch"} /\ now - req[q].since < CallTime
    BY <1>5 DEF Tick, provider, directory
  <2>2. cache # None => cache.expires <= now' + KeysTTL
    BY <1>0, <2>1 DEF RecentKeys
  <2>3. \A q \in Reqs : req[q] # Idle => now' <= req[q].since + CallTime
    <3>1. \A q \in Reqs : req[q] # Idle => req[q].since \in Nat
      BY InProgress DEF Pending
    <3>. QED
      BY <1>0, <2>1, <3>1
  <2>. QED
    BY <2>1, <2>2, <2>3 DEF RecentKeys
<1>6. ASSUME GetToken \/ DropCookie \/ \E f \in Flows : GiveCode(f) PROVE RecentKeys'
  BY <1>2, <1>6 DEF GetToken, DropCookie, GiveCode, provider, directory
<1>7. CASE UNCHANGED vars
  BY <1>2, <1>7 DEF vars
<1>. QED
  BY <1>3, <1>4, <1>5, <1>6, <1>7 DEF Next

\* Who answers about a token: Decide, and no other step.
LEMMA JudgedByDecide ==
    ASSUME Typed, Next, \A q \in Reqs : ~Decide(q)
    PROVE  ~(answer'.op = "bearer" /\ answer'.about # None)
<1>0. answer' = NoAnswer => answer'.op = "none"
  BY DEF NoAnswer
<1>1. ASSUME NEW q \in Reqs, Gateway(q) PROVE ~(answer'.op = "bearer" /\ answer'.about # None)
  <2>0. CASE Login(q)
    BY <1>0, <2>0 DEF Login, AnswersAtOnce, Continues
  <2>1. CASE Callback(q)
    BY <1>0, <2>1 DEF Callback, AnswersAtOnce, Continues
  <2>2. CASE Bearer(q)
    BY <1>0, <2>2 DEF Bearer, AnswersAtOnce, Continues
  <2>3. CASE Session(q) \/ Logout(q)
    BY <2>3 DEF Session, Logout, AnswersAtOnce
  <2>4. CASE Redirect(q) \/ ProviderFails(q)
    BY <2>4 DEF Redirect, ProviderFails, Answers
  <2>5. CASE SignedIn(q)
    BY <2>5 DEF SignedIn, Is, Answers
  <2>6. CASE Redeem(q) \/ UseCache(q) \/ Fetch(q) \/ Arrive(q)
    BY <1>0, <2>6 DEF Redeem, UseCache, Fetch, Arrive, Continues
  <2>. QED
    BY <1>1, <2>0, <2>1, <2>2, <2>3, <2>4, <2>5, <2>6 DEF Gateway
<1>2. CASE Change \/ GetToken \/ DropCookie \/ Tick \/ \E f \in Flows : GiveCode(f)
  BY <1>0, <1>2 DEF Change, GetToken, DropCookie, Tick, GiveCode
<1>. QED
  BY <1>1, <1>2 DEF Next

\* What Decide answers, and with which keys and token.
LEMMA Decided ==
    ASSUME Typed, NEW q \in Reqs, Decide(q)
    PROVE  LET t == req[q].token IN
           /\ req[q] \in Pending /\ req[q] # Idle /\ req[q].pc = "verify" /\ t \in Claims
           /\ UNCHANGED <<now, published, signing, roles, held>>
           /\ answer'.about = [key |-> t.key, known |-> t.key \in req[q].keys]
           /\ answer'.code \in {200, 403} => t.key \in req[q].keys /\ t.exp > now
           /\ answer'.code = 200 => HasRole(t.roles, Required)
<1>1. /\ req[q] \in Pending /\ req[q] # Idle /\ req[q].pc = "verify" /\ Shaped(req[q])
  BY InProgress DEF Decide, Is, At
<1>. QED
  BY <1>1 DEF Decide, Answers, Verified, Shaped, provider, directory

LEMMA KeysStayRecent ==
    ASSUME Typed, RecentKeys, KeysAreRecent, NewKeysAreLearnt, [Next]_vars
    PROVE  KeysAreRecent' /\ NewKeysAreLearnt'
<1>1. CASE UNCHANGED vars
  BY <1>1 DEF vars, KeysAreRecent, NewKeysAreLearnt, Judged, KeySet
<1>2. CASE Next /\ \A q \in Reqs : ~Decide(q)
  BY <1>2, JudgedByDecide DEF KeysAreRecent, NewKeysAreLearnt, Judged
<1>3. ASSUME NEW q \in Reqs, Decide(q) PROVE KeysAreRecent' /\ NewKeysAreLearnt'
  <2>. DEFINE k == req[q].token.key
              ks == req[q].keys
  <2>1. /\ req[q] # Idle /\ req[q].pc = "verify" /\ req[q].token \in Claims
        /\ UNCHANGED <<now, published>>
        /\ answer'.about = [key |-> k, known |-> k \in ks]
        /\ answer'.code \in {200, 403} => k \in ks
    BY <1>3, Decided
  <2>2. k \in Keys
    BY <2>1 DEF Claims
  <2>3. Within(published, ks, now + 1, Slack)
    BY <2>1 DEF RecentKeys
  <2>4. /\ published[k].until \in Nat /\ published[k].since \in Nat
        /\ now \in Nat /\ KeysTTL \in Nat /\ CallTime \in Nat
    BY <2>2, PublishedTyped, Constants DEF Typed, TypeOK
  <2>5. answer'.about.key = k /\ answer'.about.known = (k \in ks)
    BY <2>1
  <2>. HIDE DEF k, ks
  <2>6. k \in ks => now - published[k].until < KeysTTL + CallTime
    BY <2>2, <2>3, <2>4 DEF Within, Slack
  <2>7. k \notin ks => \/ now - published[k].since < KeysTTL + CallTime
                       \/ published[k].until # Never
    BY <2>2, <2>3, <2>4 DEF Within, Slack
  <2>8. KeysAreRecent'
    BY <2>1, <2>5, <2>6 DEF KeysAreRecent, Judged, k, ks
  <2>9. NewKeysAreLearnt'
    BY <2>1, <2>5, <2>7 DEF NewKeysAreLearnt, Judged, KeySet
  <2>. QED
    BY <2>8, <2>9
<1>. QED
  BY <1>1, <1>2, <1>3

LEMMA AlwaysRecent == Spec => [](Typed /\ RecentKeys /\ KeysAreRecent /\ NewKeysAreLearnt)
<1>1. Init => RecentKeys /\ KeysAreRecent /\ NewKeysAreLearnt
  BY DEF Init, RecentKeys, KeysAreRecent, NewKeysAreLearnt, Judged, NoAnswer
<1>. QED
  BY <1>1, TypedAtFirst, TypedStays, RecentKeysStay, KeysStayRecent, PTL DEF Spec

\* A token is accepted only under a key that the provider published less than the
\* lifetime of the cache and one call ago.
THEOREM RetiredKeysExpire == Spec => []KeysAreRecent
BY AlwaysRecent, PTL

\* A token is refused for its key only while that key is new.
THEOREM RotationsAreLearnt == Spec => []NewKeysAreLearnt
BY AlwaysRecent, PTL

-----------------------------------------------------------------------------
\* Roles.

\* A token is not issued in the future, and a role in it is one that the user has,
\* or one taken away no earlier than the token was issued.
Honest(t) ==
    /\ t.exp <= now + TokenLife
    /\ \A r \in t.roles : r \in roles \/ (held[r] # None /\ held[r] + TokenLife >= t.exp)

TokensAreHonest ==
    /\ bearer # None => Honest(bearer)
    /\ \A q \in Reqs : req[q] # Idle /\ req[q].pc \in {"keys", "fetch", "verify"} =>
           Honest(req[q].token)

LEMMA NewTokenIsHonest ==
    ASSUME Typed, NEW f
    PROVE  Honest(Token(f))
<1>1. now + TokenLife <= now + TokenLife
  BY Constants DEF Typed, TypeOK
<1>. QED
  BY <1>1 DEF Honest, Token

\* A role that is taken away is remembered.
LEMMA HonestStays ==
    ASSUME Typed, NEW t \in Claims, Honest(t), NEW new \in RoleSets, AssignRoles(new)
    PROVE  \A r \in t.roles :
               r \in roles' \/ (held'[r] # None /\ held'[r] + TokenLife >= t.exp)
<1>1. /\ now \in Nat /\ None \notin Nat
      /\ t.roles \subseteq GatewayRole
  BY Constants DEF Typed, TypeOK, Claims
<1>2. /\ roles' = new
      /\ \A r \in GatewayRole : held'[r] = IF r \in roles \ new THEN now ELSE held[r]
  BY DEF AssignRoles
<1>. QED
  BY <1>1, <1>2 DEF Honest

LEMMA HonestyStays == Typed /\ TokensAreHonest /\ [Next]_vars => TokensAreHonest'
<1>. SUFFICES ASSUME Typed, TokensAreHonest, [Next]_vars PROVE TokensAreHonest'
  OBVIOUS
<1>0. /\ now \in Nat /\ TokenLife \in Nat
      /\ bearer # None => bearer \in Claims
      /\ \A q \in Reqs : req[q] # Idle /\ req[q].pc \in {"keys", "fetch", "verify"} =>
             req[q].token \in Claims
  BY Constants, InProgress DEF Typed, TypeOK, Shaped
<1>1. ASSUME NEW q \in Reqs, NEW r, req' = [req EXCEPT ![q] = r],
             r = Idle \/ r.pc \notin {"keys", "fetch", "verify"} \/ Honest(r.token),
             UNCHANGED <<now, roles, held, bearer>>
      PROVE  TokensAreHonest'
  <2>1. req'[q] = r /\ \A p \in Reqs \ {q} : req'[p] = req[p]
    BY <1>1 DEF Typed
  <2>. QED
    BY <1>1, <2>1 DEF TokensAreHonest, Honest
<1>2. ASSUME UNCHANGED <<now, roles, held, bearer, req>> PROVE TokensAreHonest'
  BY <1>2 DEF TokensAreHonest, Honest
<1>3. ASSUME NEW q \in Reqs, Gateway(q) PROVE TokensAreHonest'
  <2>0. UNCHANGED <<now, roles, held, bearer>>
    BY <1>3 DEF Gateway, Login, Redirect, Callback, Redeem, SignedIn, Bearer, Decide, Session,
                Logout, UseCache, Fetch, Arrive, ProviderFails, provider, directory
  <2>1. CASE Login(q)
    <3>1. ASSUME NEW f
          PROVE  [Doing("login", "discover") EXCEPT !.flow = [id |-> f, iat |-> now]].pc
                    = "discover"
      BY DEF Doing
    <3>. QED
      BY <1>1, <1>2, <2>0, <2>1, <3>1 DEF Login, AnswersAtOnce, Continues
  <2>2. CASE Callback(q)
    <3>1. ASSUME NEW f
          PROVE  [Doing("callback", "redeem") EXCEPT !.code = f, !.flow = jar.flow].pc = "redeem"
      BY DEF Doing
    <3>. QED
      BY <1>1, <1>2, <2>0, <2>2, <3>1 DEF Callback, AnswersAtOnce, Continues
  <2>3. CASE Bearer(q)
    <3>1. [Doing("bearer", "keys") EXCEPT !.token = bearer].token = bearer
      BY DEF Doing
    <3>2. Honest(bearer)
      BY <2>3 DEF Bearer, TokensAreHonest
    <3>. QED
      BY <1>1, <1>2, <2>0, <2>3, <3>1, <3>2 DEF Bearer, AnswersAtOnce, Continues
  <2>4. CASE Redeem(q)
    <3>. DEFINE t == Token(req[q].code)
                r == [req[q] EXCEPT !.pc = "keys", !.token = t]
    <3>1. req[q] \in Pending
      BY <2>4, InProgress DEF Redeem, Is, At
    <3>2. Honest(t)
      BY NewTokenIsHonest
    <3>. HIDE DEF t
    <3>3. r.token = t
      BY <3>1 DEF Pending
    <3>4. req' = [req EXCEPT ![q] = r]
      BY <2>4 DEF Redeem, Continues, t
    <3>. HIDE DEF r
    <3>. QED
      BY <1>1, <2>0, <3>2, <3>3, <3>4
  <2>5. CASE Redirect(q) \/ ProviderFails(q) \/ Decide(q) \/ SignedIn(q)
    BY <1>1, <2>0, <2>5 DEF Redirect, ProviderFails, Decide, SignedIn, Answers
  <2>6. CASE Session(q) \/ Logout(q)
    BY <1>2, <2>0, <2>6 DEF Session, Logout, AnswersAtOnce
  <2>7. CASE UseCache(q) \/ Fetch(q) \/ Arrive(q)
    <3>1. req[q] \in Pending /\ Honest(req[q].token)
      BY <2>7, InProgress DEF UseCache, Fetch, Arrive, At, TokensAreHonest
    <3>2. \E r : req' = [req EXCEPT ![q] = r] /\ r.token = req[q].token
      <4>. DEFINE ks == cache.keys
                  a == [req[q] EXCEPT !.pc = "verify", !.keys = ks]
                  b == [req[q] EXCEPT !.pc = "fetch", !.since = now, !.keys = KeySet]
                  c == [req[q] EXCEPT !.pc = "verify"]
      <4>1. a.token = req[q].token /\ b.token = req[q].token /\ c.token = req[q].token
        BY <3>1 DEF Pending
      <4>2. \/ req' = [req EXCEPT ![q] = a] \/ req' = [req EXCEPT ![q] = b]
            \/ req' = [req EXCEPT ![q] = c]
        BY <2>7 DEF UseCache, Fetch, Arrive, Continues
      <4>. HIDE DEF a, b, c
      <4>. QED
        BY <4>1, <4>2
    <3>. QED
      BY <1>1, <2>0, <3>1, <3>2
  <2>. QED
    BY <1>3, <2>1, <2>2, <2>3, <2>4, <2>5, <2>6, <2>7 DEF Gateway
<1>4. CASE Change
  <2>1. UNCHANGED <<now, bearer, req>>
    BY <1>4 DEF Change
  <2>2. ASSUME NEW new \in RoleSets, AssignRoles(new) PROVE TokensAreHonest'
    <3>1. bearer # None => Honest(bearer)'
      BY <1>0, <2>1, <2>2, HonestStays DEF TokensAreHonest, Honest
    <3>2. ASSUME NEW q \in Reqs, req[q] # Idle, req[q].pc \in {"keys", "fetch", "verify"}
          PROVE  Honest(req[q].token)'
      BY <1>0, <2>1, <2>2, <3>2, HonestStays DEF TokensAreHonest, Honest
    <3>. QED
      BY <2>1, <3>1, <3>2 DEF TokensAreHonest
  <2>. QED
    BY <1>2, <1>4, <2>1, <2>2 DEF Change, Publish, SignWith, Retire
<1>5. CASE GetToken
  <2>1. bearer' = Token(None) /\ UNCHANGED <<now, roles, held, req>>
    BY <1>5 DEF GetToken, provider, directory
  <2>2. Honest(Token(None))
    BY NewTokenIsHonest
  <2>3. Honest(bearer)'
    BY <2>1, <2>2 DEF Honest
  <2>. QED
    BY <2>1, <2>3 DEF TokensAreHonest, Honest
<1>6. CASE Tick
  <2>1. now' = now + 1 /\ UNCHANGED <<roles, held, bearer, req>>
    BY <1>6 DEF Tick, provider, directory
  <2>2. ASSUME NEW t \in Claims, Honest(t) PROVE t.exp <= now' + TokenLife
    BY <1>0, <2>1, <2>2 DEF Honest, Claims
  <2>. QED
    BY <1>0, <2>1, <2>2 DEF TokensAreHonest, Honest
<1>7. CASE DropCookie \/ \E f \in Flows : GiveCode(f)
  BY <1>2, <1>7 DEF DropCookie, GiveCode, provider, directory
<1>8. CASE UNCHANGED vars
  BY <1>2, <1>8 DEF vars
<1>. QED
  BY <1>3, <1>4, <1>5, <1>6, <1>7, <1>8 DEF Next

LEMMA RolesStayRecent ==
    ASSUME Typed, TokensAreHonest, RolesAreRecent, [Next]_vars
    PROVE  RolesAreRecent'
<1>1. CASE UNCHANGED vars
  BY <1>1 DEF vars, RolesAreRecent, Judged
<1>2. CASE Next /\ \A q \in Reqs : ~Decide(q)
  BY <1>2, JudgedByDecide DEF RolesAreRecent, Judged
<1>3. ASSUME NEW q \in Reqs, Decide(q), answer'.code = 200 PROVE RolesAreRecent'
  <2>. DEFINE t == req[q].token
  <2>1. /\ req[q] # Idle /\ req[q].pc = "verify" /\ t \in Claims
        /\ UNCHANGED <<now, roles, held>>
        /\ t.exp > now /\ HasRole(t.roles, Required)
    BY <1>3, Decided, ZenonT(60)
  <2>2. Honest(t)
    BY <2>1 DEF TokensAreHonest
  <2>3. now \in Nat /\ TokenLife \in Nat /\ t.exp \in Nat /\ t.roles \subseteq GatewayRole
    BY <2>1, Constants DEF Typed, TypeOK, Claims
  <2>4. PICK r \in t.roles : Ranks[r] >= Ranks[Required]
    BY <2>1 DEF HasRole
  <2>5. held[r] # None => held[r] \in Nat
    BY <2>3 DEF Typed, TypeOK
  <2>6. r \in roles \/ (held[r] # None /\ held[r] + TokenLife >= t.exp)
    BY <2>2 DEF Honest
  <2>. HIDE DEF t
  <2>7. held[r] # None /\ held[r] + TokenLife >= t.exp => now - held[r] < TokenLife
    BY <2>1, <2>3, <2>5
  <2>. QED
    BY <2>1, <2>3, <2>4, <2>6, <2>7 DEF RolesAreRecent
<1>4. ASSUME answer'.code # 200 PROVE RolesAreRecent'
  BY <1>4 DEF RolesAreRecent, Judged
<1>. QED
  BY <1>1, <1>2, <1>3, <1>4

\* A request is let in with a role that the user had within the lifetime of a token.
THEOREM RolesExpire == Spec => []RolesAreRecent
<1>1. Init => TokensAreHonest /\ RolesAreRecent
  BY DEF Init, TokensAreHonest, RolesAreRecent, Judged, NoAnswer
<1>. QED
  BY <1>1, TypedAtFirst, TypedStays, HonestyStays, RolesStayRecent, PTL DEF Spec
=============================================================================
