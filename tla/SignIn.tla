------------------------------- MODULE SignIn -------------------------------
(***************************************************************************)
(* Who a request comes from: bearer tokens, the browser's sign-in with the *)
(* provider, and the cookies that carry it                                 *)
(* (src/app/bl/services/auth.py, src/app/api/routes/auth.py,               *)
(* src/app/common/identity.py).                                            *)
(*                                                                         *)
(* Requests run in threads that share the cached signing keys.  The        *)
(* provider publishes and retires keys, changes a user's roles, redeems a  *)
(* code once and only with its verifier; a client holds a bearer token and *)
(* a browser a jar of two cookies.  A cookie is the record the gateway     *)
(* signed: the signature and its check belong to the libraries, and so     *)
(* does the signature of a token.  The discovery document never changes:   *)
(* whether it was cached or fetched is left out, that it may be missing is *)
(* not.  Time is counted in units; a call to the provider ends within      *)
(* CallTime.                                                               *)
(***************************************************************************)
EXTENDS Naturals, FiniteSets

CONSTANTS
    Reqs,          \* request threads
    Loads,         \* what each of them may be asked for in a behaviour, and how
                   \* often the provider changes a key or the user's roles in it
    Keys,          \* signing keys of the provider
    FirstKey,      \* the one it signs with at first
    Flows,         \* the random state, nonce and verifier of a sign-in
    RoleSets,      \* the roles an administrator of the provider may assign
    Required,      \* the role the endpoint of an API request requires
    None,
    KeysTTL,       \* _JWKS_TTL_SECONDS
    FlowTTL,       \* the age of a sign-in that is still completed
    SessionTTL,    \* the age of a session cookie
    TokenLife,     \* the provider's tokens are valid this long
    CallTime,      \* a call to the provider ends within
    MaxTime        \* bound on the clock

Ranks == [Viewer |-> 1, Operator |-> 2, Administrator |-> 3]
GatewayRole == DOMAIN Ranks
HasRole(roles, required) == \E r \in roles : Ranks[r] >= Ranks[required]

Modes == [name : {"entra", "disabled"}]
         \cup [name : {"demo"}, role : GatewayRole, demo_mode : BOOLEAN]

ASSUME SignInAssumption ==
    /\ FirstKey \in Keys /\ None \notin Keys \cup Flows \cup Nat
    /\ RoleSets \subseteq SUBSET GatewayRole
    /\ Required \in GatewayRole
    /\ \A l \in Loads :
          /\ l.asks \in [Reqs -> SUBSET {"login", "callback", "bearer", "session", "logout"}]
          /\ l.changes \in Nat
    /\ {KeysTTL, FlowTTL, SessionTTL, TokenLife, CallTime} \subseteq Nat \ {0}
    /\ MaxTime \in Nat

VARIABLES
    mode,       \* GATEWAY_AUTH_MODE of this deployment; with it, in demo mode, the
                \* role of the demo user and whether the application is the demo
    load,       \* the load of this behaviour
    now,
    published,  \* key -> since and until when: its publication
    signing,    \* the key the provider signs with
    roles,      \* the roles of the user at the provider
    held,       \* role -> when it was last taken away
    changes,    \* of keys and roles so far
    codes,      \* the codes the provider gave out and has not redeemed
    cache,      \* the cached key set and when it expires
    jar,        \* the browser's flow cookie and session cookie
    tabs,       \* sign-ins the browser was redirected to the provider for
    signed,     \* those that were completed
    bearer,     \* the token a client holds
    req,        \* what each request does
    answer      \* the answer just given

vars == <<mode, load, now, published, signing, roles, held, changes, codes, cache, jar,
          tabs, signed, bearer, req, answer>>
directory == <<published, signing, roles, held, changes>>
provider == <<directory, codes>>

Idle == [op |-> "idle"]
NoAnswer == [op |-> "none"]
Never == MaxTime + 1
At(q, pc) == req[q] # Idle /\ req[q].pc = pc
Is(q, op, pc) == At(q, pc) /\ req[q].op = op

\* A request about to do pc, since now.
Doing(op, pc) == [op |-> op, pc |-> pc, since |-> now,
                  flow |-> None, code |-> None, token |-> None, keys |-> {}]

KeySet == {k \in Keys : published[k].since # Never /\ published[k].until = Never}

\* A token of the provider, for a client or for the sign-in f.
Token(f) == [key |-> signing, exp |-> now + TokenLife, sub |-> "user",
             roles |-> roles, nonce |-> f]

\* The cached keys are used until they expire.
BadCached == cache # None
Cached == cache # None /\ cache.expires > now

BadVerified(t, keys, nonce) ==    \* accepted in the second it expires
    /\ t.key \in keys
    /\ t.exp >= now
    /\ nonce # None => t.nonce = nonce

\* _verify_token: a published key, not expired, and the nonce of the sign-in.
Verified(t, keys, nonce) ==
    /\ t.key \in keys
    /\ t.exp > now
    /\ nonce # None => t.nonce = nonce

\* _user_from_claims: valid roles and a subject.
IsUser(claims) ==
    /\ claims.roles # {} /\ claims.roles \subseteq GatewayRole
    /\ "oid" \in DOMAIN claims \/ "sub" \in DOMAIN claims

\* What session_cookie signs: the public fields of the user.
SessionCookie(claims) ==
    [subject |-> claims.sub, roles |-> claims.roles, expires_at |-> now + SessionTTL]

\* The request ends; what was decided about a token goes with the answer.
Answers(q, code, about) ==
    /\ req' = [req EXCEPT ![q] = Idle]
    /\ answer' = [op |-> req[q].op, code |-> code, about |-> about]

AnswersAtOnce(op, code) ==
    answer' = [op |-> op, code |-> code, about |-> None] /\ UNCHANGED req

Continues(q, r) ==
    /\ req' = [req EXCEPT ![q] = r]
    /\ answer' = NoAnswer

Init ==
    /\ mode \in Modes
    /\ load \in Loads
    /\ now = 0
    /\ published = [k \in Keys |-> [since |-> IF k = FirstKey THEN 0 ELSE Never, until |-> Never]]
    /\ signing = FirstKey
    /\ roles \in RoleSets
    /\ held = [r \in GatewayRole |-> None]
    /\ changes = 0
    /\ codes = {}
    /\ cache = None
    /\ jar = [flow |-> None, session |-> None]
    /\ tabs = {}
    /\ signed = {}
    /\ bearer = None
    /\ req = [q \in Reqs |-> Idle]
    /\ answer = NoAnswer

-----------------------------------------------------------------------------
(* The gateway *)

Free(q, op) == req[q] = Idle /\ op \in load.asks[q]

\* GET /login: the sign-in is dated before the provider is asked for its
\* addresses.
Login(q) ==
    /\ Free(q, "login")
    /\ IF mode.name # "entra" THEN AnswersAtOnce("login", 401)
       ELSE \E f \in Flows \ (tabs \cup {req[r].flow.id : r \in {r \in Reqs : req[r].op = "login"}}) :
            Continues(q, [Doing("login", "discover") EXCEPT !.flow = [id |-> f, iat |-> now]])
    /\ UNCHANGED <<mode, load, now, provider, cache, jar, tabs, signed, bearer>>

\* The redirect sets the flow cookie, over the one of another tab.
Redirect(q) ==
    /\ Is(q, "login", "discover")
    /\ jar' = [jar EXCEPT !.flow = req[q].flow]
    /\ tabs' = tabs \cup {req[q].flow.id}
    /\ Answers(q, 302, None)
    /\ UNCHANGED <<mode, load, now, provider, cache, signed, bearer>>

\* The state that came back is the cookie's, and the sign-in is recent.
FlowMatches(cookie, f) ==
    /\ cookie # None
    /\ cookie.id = f
    /\ cookie.iat <= now /\ now - cookie.iat <= FlowTTL

\* GET /callback with a code and the state f.
Callback(q) ==
    /\ Free(q, "callback")
    /\ \E f \in tabs :
          IF mode.name # "entra" \/ ~FlowMatches(jar.flow, f)
          THEN AnswersAtOnce("callback", 401)
          ELSE Continues(q, [Doing("callback", "redeem") EXCEPT !.code = f, !.flow = jar.flow])
    /\ UNCHANGED <<mode, load, now, provider, cache, jar, tabs, signed, bearer>>

\* The token endpoint wants a code it has not redeemed, and its verifier.
Redeem(q) ==
    /\ Is(q, "callback", "redeem")
    /\ req[q].code \in codes /\ req[q].code = req[q].flow.id
    /\ codes' = codes \ {req[q].code}
    /\ Continues(q, [req[q] EXCEPT !.pc = "keys", !.token = Token(req[q].code)])
    /\ UNCHANGED <<mode, load, now, directory, cache, jar, tabs, signed, bearer>>

\* Outside Entra no token and no cookie is looked at: everybody is the demo user
\* of an application that is the demo, or nobody.
WithoutEntra ==
    IF mode.name = "disabled" \/ ~mode.demo_mode THEN 401
    ELSE IF HasRole({mode.role}, Required) THEN 200 ELSE 403

\* A request with a bearer token; with a session cookie, or with nothing, it is
\* decided at once.
Bearer(q) ==
    /\ Free(q, "bearer") /\ bearer # None
    /\ IF mode.name # "entra" THEN AnswersAtOnce("bearer", WithoutEntra)
       ELSE Continues(q, [Doing("bearer", "keys") EXCEPT !.token = bearer])
    /\ UNCHANGED <<mode, load, now, provider, cache, jar, tabs, signed, bearer>>

Session(q) ==
    /\ Free(q, "session")
    /\ AnswersAtOnce("session",
          IF mode.name # "entra" THEN WithoutEntra
          ELSE IF jar.session = None \/ jar.session.expires_at <= now THEN 401
          ELSE IF ~IsUser(jar.session) THEN 401
          ELSE IF ~HasRole(jar.session.roles, Required) THEN 403 ELSE 200)
    /\ UNCHANGED <<mode, load, now, provider, cache, jar, tabs, signed, bearer>>

Logout(q) ==
    /\ Free(q, "logout")
    /\ jar' = [jar EXCEPT !.session = None]
    /\ AnswersAtOnce("logout", 200)
    /\ UNCHANGED <<mode, load, now, provider, cache, tabs, signed, bearer>>

\* The keys are there; without them the provider is asked, and the document
\* it sends is under way.
UseCache(q) ==
    /\ At(q, "keys") /\ Cached
    /\ Continues(q, [req[q] EXCEPT !.pc = "verify", !.keys = cache.keys])
    /\ UNCHANGED <<mode, load, now, provider, cache, jar, tabs, signed, bearer>>

Fetch(q) ==
    /\ At(q, "keys") /\ ~Cached
    /\ Continues(q, [req[q] EXCEPT !.pc = "fetch", !.since = now, !.keys = KeySet])
    /\ UNCHANGED <<mode, load, now, provider, cache, jar, tabs, signed, bearer>>

\* It is cached from the moment it arrives.
BadExpiry == now + 60 * KeysTTL
Expiry == now + KeysTTL
Arrive(q) ==
    /\ At(q, "fetch")
    /\ cache' = [keys |-> req[q].keys, expires |-> Expiry]
    /\ Continues(q, [req[q] EXCEPT !.pc = "verify"])
    /\ UNCHANGED <<mode, load, now, provider, jar, tabs, signed, bearer>>

\* The provider does not answer, or refuses the code; it may have redeemed it.
ProviderFails(q) ==
    /\ \E pc \in {"discover", "redeem", "keys", "fetch"} : At(q, pc)
    /\ codes' \in {codes, IF At(q, "redeem") THEN codes \ {req[q].code} ELSE codes}
    /\ Answers(q, 401, None)
    /\ UNCHANGED <<mode, load, now, directory, cache, jar, tabs, signed, bearer>>

\* A bearer token is good or not.
Decide(q) ==
    LET t == req[q].token
        good == Verified(t, req[q].keys, None) /\ IsUser(t)
    IN
    /\ Is(q, "bearer", "verify")
    /\ Answers(q, IF ~good THEN 401 ELSE IF HasRole(t.roles, Required) THEN 200 ELSE 403,
               [key |-> t.key, known |-> t.key \in req[q].keys])
    /\ UNCHANGED <<mode, load, now, provider, cache, jar, tabs, signed, bearer>>

\* The browser is signed in, and its flow cookie is gone, even when it is
\* by now that of another tab.
BadCookies(claims) == [jar EXCEPT !.session = SessionCookie(claims)]   \* it stays
Cookies(claims) == [flow |-> None, session |-> SessionCookie(claims)]

SignedIn(q) ==
    LET t == req[q].token
        good == Verified(t, req[q].keys, req[q].flow.id) /\ IsUser(t)
    IN
    /\ Is(q, "callback", "verify")
    /\ jar' = IF good THEN Cookies(t) ELSE jar
    /\ signed' = IF good THEN signed \cup {req[q].flow.id} ELSE signed
    /\ Answers(q, IF good THEN 302 ELSE 401, None)
    /\ UNCHANGED <<mode, load, now, provider, cache, tabs, bearer>>

Gateway(q) ==
    \/ Login(q) \/ Redirect(q) \/ Callback(q) \/ Redeem(q) \/ SignedIn(q)
    \/ Bearer(q) \/ Decide(q) \/ Session(q) \/ Logout(q)
    \/ UseCache(q) \/ Fetch(q) \/ Arrive(q) \/ ProviderFails(q)

-----------------------------------------------------------------------------
(* The provider, the browser and the client *)

Publish(k) ==
    /\ published[k].since = Never
    /\ published' = [published EXCEPT ![k].since = now]
    /\ UNCHANGED <<signing, roles, held>>

SignWith(k) ==
    /\ k \in KeySet \ {signing}
    /\ signing' = k
    /\ UNCHANGED <<published, roles, held>>

Retire(k) ==
    /\ k \in KeySet \ {signing}
    /\ published' = [published EXCEPT ![k].until = now]
    /\ UNCHANGED <<signing, roles, held>>

AssignRoles(new) ==
    /\ new # roles
    /\ roles' = new
    /\ held' = [r \in GatewayRole |-> IF r \in roles \ new THEN now ELSE held[r]]
    /\ UNCHANGED <<published, signing>>

Change ==
    /\ changes < load.changes
    /\ changes' = changes + 1
    /\ \/ \E k \in Keys : Publish(k) \/ SignWith(k) \/ Retire(k)
       \/ \E new \in RoleSets : AssignRoles(new)
    /\ answer' = NoAnswer
    /\ UNCHANGED <<mode, load, now, codes, cache, jar, tabs, signed, bearer, req>>

\* The user signs in on a page the browser was sent to, and gets a code.
GiveCode(f) ==
    /\ f \in tabs /\ f \notin codes
    /\ codes' = codes \cup {f}
    /\ answer' = NoAnswer
    /\ UNCHANGED <<mode, load, now, directory, cache, jar, tabs, signed, bearer, req>>

\* A client gets a token; a browser drops a cookie, when it is old or at will.
GetToken ==
    /\ \E q \in Reqs : "bearer" \in load.asks[q]
    /\ bearer' = Token(None) /\ bearer' # bearer
    /\ answer' = NoAnswer
    /\ UNCHANGED <<mode, load, now, provider, cache, jar, tabs, signed, req>>

DropCookie ==
    /\ \E cookie \in {"flow", "session"} :
          jar[cookie] # None /\ jar' = [jar EXCEPT ![cookie] = None]
    /\ answer' = NoAnswer
    /\ UNCHANGED <<mode, load, now, provider, cache, tabs, signed, bearer, req>>

\* Time passes while a request waits for the provider, and between requests.
Tick ==
    /\ now < MaxTime
    /\ \A q \in Reqs : req[q] # Idle =>
          req[q].pc \in {"discover", "redeem", "fetch"} /\ now - req[q].since < CallTime
    /\ now' = now + 1
    /\ answer' = NoAnswer
    /\ UNCHANGED <<mode, load, provider, cache, jar, tabs, signed, bearer, req>>

Next ==
    \/ \E q \in Reqs : Gateway(q)
    \/ \E f \in Flows : GiveCode(f)
    \/ Change \/ GetToken \/ DropCookie \/ Tick

Spec == Init /\ [][Next]_vars

-----------------------------------------------------------------------------
(* What signing in promises *)

Claims == [key: Keys, exp: Nat, sub: {"user"}, roles: RoleSets, nonce: Flows \cup {None}]
FlowCookie == [id: Flows, iat: 0..MaxTime]

\* Every variable holds what it may: no code without a tab that asked for it,
\* no flow dated in the future.
TypeOK ==
    /\ mode \in Modes /\ load \in Loads /\ now \in 0..MaxTime
    /\ published \in [Keys -> [since: 0..Never, until: 0..Never]]
    /\ signing \in Keys /\ roles \in RoleSets
    /\ changes \in 0..load.changes
    /\ held \in [GatewayRole -> 0..MaxTime \cup {None}]
    /\ codes \subseteq tabs /\ tabs \cup signed \subseteq Flows
    /\ cache \in [keys: SUBSET Keys, expires: 0..MaxTime + KeysTTL] \cup {None}
    /\ jar.flow \in FlowCookie \cup {None}
    /\ jar.session # None => jar.session.roles \in RoleSets
    /\ bearer \in Claims \cup {None}
    /\ \A q \in Reqs : req[q] # Idle =>
          /\ req[q].flow \in FlowCookie \cup {None}
          /\ req[q].token \in Claims \cup {None}
          /\ req[q].keys \subseteq Keys
          /\ req[q].since \in 0..now

\* A token is accepted only under a key the provider published less than the
\* lifetime of the cache and one call ago, however slowly a set of keys
\* arrives and whichever of two requests stores its own last (_jwks,
\* _verify_token).
Judged(code) == answer.op = "bearer" /\ answer.about # None /\ answer.code \in code
KeysAreRecent ==
    Judged({200, 403}) =>
        LET until == published[answer.about.key].until IN
        until = Never \/ now - until < KeysTTL + CallTime

\* A token of a published key is refused as unknown only while the key is new:
\* a rotation never locks its users out for longer (_jwks does not fetch again
\* for a key it does not find).
NewKeysAreLearnt ==
    Judged({401}) /\ ~answer.about.known /\ answer.about.key \in KeySet =>
        now - published[answer.about.key].since < KeysTTL + CallTime

\* An API request is let in with a role that the provider gave the user within
\* the lifetime of a token, also after the role was taken away while a request
\* was waiting for keys (_verify_token, _user_from_claims, require_role).
RolesAreRecent ==
    Judged({200}) => \E r \in GatewayRole :
        /\ Ranks[r] >= Ranks[Required]
        /\ r \in roles \/ (held[r] # None /\ now - held[r] < TokenLife)

\* A sign-in that was completed is not completed again by a callback sent after
\* that (a reload, a step back), although the provider may have given the browser
\* another code for it: the answer that signed the browser in took its flow cookie
\* away, and no login that was still waiting for the provider, no other tab and no
\* refused callback puts it back.  Callbacks that were let in before, side by side,
\* may complete it twice (login, callback, complete_login).
LetIn(q) == Callback(q) /\ req'[q] # Idle
SignInsAreNotRepeated ==
    [][\A q \in Reqs : LetIn(q) => req'[q].flow.id \notin signed]_vars

\* "valid Entra bearer token or authenticated session" (README): a session
\* cookie that has not expired lets its user in.
SessionsAuthenticate ==
    [][\A q \in Reqs :
          Session(q) /\ mode.name = "entra" /\ jar.session # None /\ jar.session.expires_at > now
             => answer'.code # 401]_vars
=============================================================================
