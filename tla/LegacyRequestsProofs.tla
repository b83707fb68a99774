------------------------ MODULE LegacyRequestsProofs ------------------------
(***************************************************************************)
(* Proofs about LegacyRequests, for every set of requests, every mapping   *)
(* an administrator may store, every metadata table and every stream a     *)
(* device may send.                                                        *)
(***************************************************************************)
EXTENDS LegacyRequests, TelnetStreamProofs

-----------------------------------------------------------------------------
\* The locals of a request.

Fields == {"stage", "call", "began", "ready", "table", "bound", "row", "class", "host",
           "open", "answer", "step", "heard", "unread", "neg", "from", "output"}

Shape == DOMAIN request = Requests /\ \A q \in Requests : DOMAIN request[q] = Fields

\* What a step of request q leaves alone: the other requests.
Others(q) ==
    /\ DOMAIN request' = Requests
    /\ DOMAIN request'[q] = Fields
    /\ \A p \in Requests \ {q} : request'[p] = request[p]

Changed(q, changes, f) == IF f \in DOMAIN changes THEN changes[f] ELSE request[q][f]

\* A step changes the fields it names, and no other.
LEMMA StepFields ==
    ASSUME Shape, NEW q \in Requests, NEW changes, Step(q, changes)
    PROVE  /\ Others(q)
           /\ \A f \in Fields : request'[q][f] = Changed(q, changes, f)
BY DEF Shape, Step, Put, With, Others, Changed

\* An answer, too, and it decides where the request goes.
LEMMA AnswerFields ==
    ASSUME Shape, NEW q \in Requests, NEW code, NEW changes, Answer(q, code, changes)
    PROVE  /\ Others(q)
           /\ \A f \in Fields \ {"answer", "stage"} :
                request'[q][f] = Changed(q, changes, f)
           /\ request'[q].answer = code
           /\ request'[q].stage = IF /\ request'[q].class # None
                                     /\ CleansUp(request'[q].call)
                                  THEN "cleanup" ELSE "done"
BY DEF Shape, Answer, Put, With, Others, Changed, Fields

\* So does a step that waits for the device.
LEMMA AwaitFields ==
    ASSUME Shape, NEW q \in Requests, NEW step, NEW changes, Await(q, step, changes)
    PROVE  /\ Others(q)
           /\ \A f \in Fields \ {"stage", "step", "heard", "unread", "from"} :
                request'[q][f] = Changed(q, changes, f)
           /\ request'[q].stage = "read"
           /\ request'[q].step = step
BY ZenonT(60) DEF Shape, Await, Put, With, Others, Changed, Fields

-----------------------------------------------------------------------------
\* The invariant: what the stage of a request says of its other locals and of the
\* shared engine.

\* Every stored payload is one that an administrator sent and validate_config
\* accepted.
Stored ==
    /\ load \in Loads
    /\ DOMAIN saved = Names
    /\ \A n \in Names :
        /\ saved[n] \in Seq(Payloads[n])
        /\ \A v \in DOMAIN saved[n] : Valid(n, saved[n][v])

Pools ==
    /\ pools \subseteq Requests
    /\ engine \in pools \cup {None}
    /\ factory \in pools \cup {None}

Types(q) ==
    /\ request[q].stage \in Stages
    /\ request[q].class \in Classes \cup {None}
    /\ request[q].open \subseteq {"proxy", "session", "ssh", "socket"}
    /\ request[q].answer \in Codes \cup {None}
    /\ request[q].stage \in {"cleanup", "done"} => request[q].answer # None
    /\ request[q].step \in DOMAIN Steps

\* A request makes a pool only if it began, and found no factory, before any was
\* assigned; a factory, once assigned, stays.
Engine(q) ==
    /\ request[q].stage = "idle" => q \notin pools /\ ~request[q].ready
    /\ request[q].stage = "create" => ~request[q].ready
    /\ request[q].stage = "bind" => engine # None
    /\ request[q].stage = "assign" => request[q].bound \in pools
    /\ request[q].ready \in BOOLEAN
    /\ q \in pools => ~request[q].ready
    /\ request[q].ready => factory # None

\* A connection belongs to a request that has a client, is of one kind beside the
\* proxy's, and is gone when a devices request is done.
Before == {"idle", "lookup", "session", "create", "bind", "assign", "query", "client",
           "proxy", "hop", "dial"}

Connections(q) ==
    /\ request[q].stage \in Before => request[q].open = {}
    /\ request[q].stage \in Before \ {"proxy", "hop", "dial"} => request[q].class = None
    /\ request[q].stage \in {"proxy", "hop", "connect", "exchange", "dial", "read"}
         => request[q].class # None
    /\ request[q].stage = "connect" => request[q].open \subseteq {"proxy"}
    /\ request[q].open # {} => request[q].class # None
    /\ "session" \in request[q].open => request[q].open \cap {"ssh", "socket"} = {}
    /\ request[q].stage = "done" /\ CleansUp(request[q].call) =>
         /\ request[q].open \cap {"ssh", "socket"} = {}
         /\ "session" \in request[q].open => request[q].answer = 500

RequestInv(q) == Types(q) /\ Engine(q) /\ Connections(q)

LegacyInv ==
    /\ Shape
    /\ Stored
    /\ Pools
    /\ \A q \in Requests : RequestInv(q)

\* What one request does to the shared engine keeps what is known of the others.
LEMMA OthersKeep ==
    ASSUME LegacyInv, NEW q \in Requests, Others(q), RequestInv(q)', Stored', Pools',
           pools \subseteq pools', pools' \subseteq pools \cup {q},
           engine # None => engine' # None,
           factory # None => factory' # None
    PROVE  LegacyInv'
<1>1. Shape'
  BY DEF Others, Shape, LegacyInv
<1>2. ASSUME NEW p \in Requests, p # q PROVE RequestInv(p)'
  <2>1. request'[p] = request[p] /\ RequestInv(p)
    BY <1>2 DEF Others, LegacyInv
  <2>2. Types(p)' /\ Connections(p)'
    BY <2>1 DEF RequestInv, Types, Connections
  <2>3. Engine(p)'
    BY <1>2, <2>1 DEF RequestInv, Engine
  <2>. QED
    BY <2>2, <2>3 DEF RequestInv
<1>. QED
  BY <1>1, <1>2 DEF LegacyInv

\* A request that leaves the shared variables alone has only itself to account for.
LEMMA OwnStep ==
    ASSUME LegacyInv, NEW q \in Requests, Others(q), UNCHANGED Shared, RequestInv(q)'
    PROVE  LegacyInv'
<1>1. Stored' /\ Pools'
  BY DEF LegacyInv, Stored, Pools, Shared
<1>. QED
  BY <1>1, OthersKeep DEF Shared

\* An answer is an end: what was opened is left to the clean-up, and there is one
\* for a client of a devices request.
LEMMA AnswerKeeps ==
    ASSUME LegacyInv, NEW q \in Requests, NEW code \in Codes, NEW changes,
           Answer(q, code, changes), UNCHANGED Shared, request[q].stage # "idle",
           "call" \notin DOMAIN changes, "step" \notin DOMAIN changes,
           "ready" \notin DOMAIN changes,
           "class" \in DOMAIN changes => changes.class \in Classes,
           "open" \in DOMAIN changes =>
             \/ changes.open = {}
             \/ changes.open = {"socket"} /\ request[q].class # None
    PROVE  LegacyInv'
<1>. USE DEF LegacyInv
<1>1. /\ Others(q)
      /\ \A f \in Fields \ {"answer", "stage"} : request'[q][f] = Changed(q, changes, f)
      /\ request'[q].answer = code
      /\ request'[q].stage = IF /\ request'[q].class # None
                                /\ CleansUp(request'[q].call)
                             THEN "cleanup" ELSE "done"
  BY AnswerFields
<1>2. /\ request'[q].call = request[q].call
      /\ request'[q].step = request[q].step
      /\ request'[q].ready = request[q].ready
      /\ request'[q].class = request[q].class \/ request'[q].class \in Classes
      /\ \/ request'[q].open = request[q].open
         \/ request'[q].open = {}
         \/ request'[q].open = {"socket"} /\ request[q].class # None
  BY <1>1 DEF Changed, Fields
<1>3. None \notin Classes /\ code # None
  BY LegacyAssumption DEF LegacyAssumption
<1>4. request'[q].class = request[q].class \/ request'[q].class # None
  BY <1>2, <1>3
<1>5. RequestInv(q)
  OBVIOUS
<1>6. Types(q)'
  BY <1>1, <1>2, <1>3, <1>5 DEF RequestInv, Types, Stages
<1>7. Engine(q)'
  BY <1>1, <1>2, <1>5 DEF RequestInv, Engine, Shared
<1>8. Connections(q)'
  BY <1>1, <1>2, <1>4, <1>5 DEF RequestInv, Connections, Before
<1>. QED
  BY <1>1, <1>6, <1>7, <1>8, OwnStep DEF RequestInv

-----------------------------------------------------------------------------
\* Every action preserves the invariant.

\* The initial state satisfies it.
LEMMA InitInv == Init => LegacyInv
<1>. SUFFICES ASSUME Init PROVE LegacyInv
  OBVIOUS
<1>1. Shape
  BY DEF Init, Shape, NewRequest, Fields
<1>2. Stored
  BY LegacyAssumption DEF LegacyAssumption, Init, Stored
<1>3. Pools
  BY DEF Init, Pools
<1>4. ASSUME NEW q \in Requests PROVE RequestInv(q)
  <2>1. request[q] = NewRequest
    BY DEF Init
  <2>2. /\ NewRequest.stage = "idle" /\ NewRequest.class = None
        /\ NewRequest.open = {} /\ NewRequest.answer = None
        /\ NewRequest.step = 1 /\ NewRequest.ready = FALSE
    BY DEF NewRequest
  <2>3. 1 \in DOMAIN Steps
    BY DEF Steps
  <2>4. Types(q)
    BY <2>1, <2>2, <2>3 DEF Types, Stages
  <2>5. Engine(q) /\ Connections(q)
    BY <2>1, <2>2 DEF Init, Engine, Connections, Before
  <2>. QED
    BY <2>4, <2>5 DEF RequestInv
<1>. QED
  BY <1>1, <1>2, <1>3, <1>4 DEF LegacyInv

\* Saving a mapping: the payload was validated in the same call.
LEMMA SaveKeeps ==
    ASSUME LegacyInv, NEW role \in Roles, NEW n \in Names, NEW p \in Payloads[n],
           SaveConfig(role, n, p)
    PROVE  LegacyInv'
<1>. USE DEF LegacyInv
<1>1. saved' = [saved EXCEPT ![n] = Append(saved[n], p)] /\ Valid(n, p)
  BY DEF SaveConfig
<1>2. UNCHANGED <<engine, factory, pools, request>>
  BY DEF SaveConfig
<1>3. ASSUME NEW m \in Names
      PROVE  /\ saved'[m] \in Seq(Payloads[m])
             /\ \A v \in DOMAIN saved'[m] : Valid(m, saved'[m][v])
  <2>1. CASE m # n
    BY <1>1, <2>1 DEF Stored
  <2>2. CASE m = n
    <3>1. saved[n] \in Seq(Payloads[n]) /\ saved'[n] = Append(saved[n], p)
      BY <1>1 DEF Stored
    <3>2. ASSUME NEW s \in Seq(Payloads[n]), NEW v \in DOMAIN Append(s, p)
          PROVE  Append(s, p)[v] = p \/ (v \in DOMAIN s /\ Append(s, p)[v] = s[v])
      OBVIOUS
    <3>3. ASSUME NEW S, NEW s \in Seq(S), NEW e \in S PROVE Append(s, e) \in Seq(S)
      OBVIOUS
    <3>4. saved'[n] \in Seq(Payloads[n])
      BY <3>1, <3>3
    <3>. QED
      BY <1>1, <2>2, <3>1, <3>2, <3>4 DEF Stored
  <2>. QED
    BY <2>1, <2>2
<1>4. Stored'
  BY <1>1, <1>3 DEF Stored, SaveConfig
<1>5. Shape' /\ Pools' /\ \A q \in Requests : RequestInv(q)'
  BY <1>2 DEF Shape, Pools, RequestInv, Types, Engine, Connections
<1>. QED
  BY <1>4, <1>5

\* A request begins: it remembers whether there is a factory.
LEMMA BeginKeeps ==
    ASSUME LegacyInv, NEW q \in Requests, NEW role, NEW c, Begin(q, role, c)
    PROVE  LegacyInv'
<1>. DEFINE start == [stage |-> "lookup", call |-> c, ready |-> factory # None,
                      began |-> [n \in Names |-> Len(saved[n])]]
<1>. USE DEF LegacyInv
<1>1. At(q, "idle") /\ UNCHANGED Shared
  BY DEF Begin
<1>2. /\ DOMAIN start = {"stage", "call", "ready", "began"}
      /\ start.stage = "lookup" /\ start.ready = (factory # None)
      /\ (factory # None) \in BOOLEAN
  OBVIOUS
<1>3. RequestInv(q) /\ request[q].stage = "idle"
  BY <1>1 DEF At
<1>4. \/ Answer(q, Refusal(c, role), start) /\ Refusal(c, role) # None
      \/ Answer(q, 200, start)
      \/ Step(q, start)
  BY DEF Begin
<1>. HIDE DEF start
<1>5. ASSUME Others(q), request'[q].stage \in {"lookup", "done"},
             request'[q].ready = (factory # None),
             request'[q].answer \in Codes \cup {None},
             request'[q].stage = "done" => request'[q].answer # None,
             request'[q].class = request[q].class, request'[q].open = request[q].open,
             request'[q].step = request[q].step
      PROVE  LegacyInv'
  <2>1. Types(q)'
    BY <1>3, <1>5 DEF RequestInv, Types, Stages
  <2>2. Engine(q)'
    BY <1>1, <1>2, <1>3, <1>5 DEF RequestInv, Engine, Shared
  <2>3. Connections(q)'
    BY <1>3, <1>5 DEF RequestInv, Connections, Before
  <2>. QED
    BY <1>1, <1>5, <2>1, <2>2, <2>3, OwnStep DEF RequestInv
<1>6. ASSUME NEW code \in Codes, Answer(q, code, start) PROVE LegacyInv'
  <2>1. code # None
    BY LegacyAssumption DEF LegacyAssumption
  <2>2. request'[q].class = None
    BY <1>2, <1>3, <1>6, AnswerFields DEF Changed, Fields, RequestInv, Connections, Before
  <2>3. /\ Others(q)
        /\ request'[q].ready = (factory # None)
        /\ request'[q].open = request[q].open
        /\ request'[q].step = request[q].step
        /\ request'[q].answer = code
        /\ request'[q].stage = "done"
    BY <1>2, <1>6, <2>2, AnswerFields DEF Changed, Fields
  <2>4. request[q].class = None
    BY <1>3 DEF RequestInv, Connections, Before
  <2>. QED
    BY <1>5, <2>1, <2>2, <2>3, <2>4
<1>7. ASSUME Step(q, start) PROVE LegacyInv'
  <2>1. /\ Others(q)
        /\ request'[q].stage = "lookup"
        /\ request'[q].ready = (factory # None)
        /\ request'[q].answer = request[q].answer
        /\ request'[q].class = request[q].class
        /\ request'[q].open = request[q].open
        /\ request'[q].step = request[q].step
    BY <1>2, <1>7, StepFields DEF Changed, Fields
  <2>2. request[q].answer \in Codes \cup {None}
    BY <1>3 DEF RequestInv, Types
  <2>. QED
    BY <1>5, <2>1, <2>2
<1>8. Refusal(c, role) # None => Refusal(c, role) \in Codes
  BY DEF Refusal, Codes
<1>9. 200 \in Codes
  BY DEF Codes
<1>. QED
  BY <1>4, <1>6, <1>7, <1>8, <1>9

\* The lookup of the device, up to the query of its row.
LEMMA LookupKeeps ==
    ASSUME LegacyInv, NEW q \in Requests,
           \/ ReadLookup(q) \/ CheckFactory(q) \/ CreateEngine(q) \/ BindFactory(q)
           \/ AssignFactory(q) \/ LookupFails(q) \/ Query(q)
    PROVE  LegacyInv'
<1>. USE DEF LegacyInv, At
<1>0. RequestInv(q) /\ Pools /\ Stored
  OBVIOUS
<1>a. ASSUME NEW code \in Codes, Answer(q, code, <<>>), UNCHANGED Shared,
             request[q].stage # "idle"
      PROVE  LegacyInv'
  BY <1>a, AnswerKeeps
<1>b. 400 \in Codes /\ 404 \in Codes
  BY DEF Codes
<1>s. ASSUME NEW changes, Step(q, changes), DOMAIN changes \subseteq {"stage", "table", "bound", "row"}
      PROVE  /\ Others(q)
             /\ request'[q].stage = Changed(q, changes, "stage")
             /\ request'[q].bound = Changed(q, changes, "bound")
             /\ request'[q].call = request[q].call /\ request'[q].ready = request[q].ready
             /\ request'[q].class = request[q].class /\ request'[q].open = request[q].open
             /\ request'[q].answer = request[q].answer /\ request'[q].step = request[q].step
  BY <1>s, StepFields DEF Changed, Fields
<1>p. ASSUME request[q].stage \in {"lookup", "session", "create", "bind", "assign", "query"},
             request'[q].stage \in {"session", "create", "bind", "assign", "query", "client"},
             Others(q),
             request'[q].call = request[q].call, request'[q].ready = request[q].ready,
             request'[q].class = request[q].class, request'[q].open = request[q].open,
             request'[q].answer = request[q].answer, request'[q].step = request[q].step
      PROVE  Types(q)' /\ Connections(q)'
  BY <1>0, <1>p DEF RequestInv, Types, Connections, Before, Stages
<1>1. CASE ReadLookup(q)
  <2>1. CASE Answer(q, 400, <<>>)
    BY <1>1, <1>a, <1>b, <2>1 DEF ReadLookup
  <2>2. CASE Step(q, [stage |-> "session", table |-> Current("device_lookup").table])
    <3>1. request'[q].stage = "session"
      BY <1>s, <2>2 DEF Changed
    <3>2. Types(q)' /\ Connections(q)' /\ Others(q)
      BY <1>1, <1>p, <1>s, <2>2, <3>1 DEF ReadLookup
    <3>3. Engine(q)'
      BY <1>0, <1>1, <1>s, <2>2, <3>1 DEF ReadLookup, RequestInv, Engine, Shared
    <3>. QED
      BY <1>1, <3>2, <3>3, OwnStep DEF ReadLookup, RequestInv
  <2>. QED
    BY <1>1, <2>1, <2>2 DEF ReadLookup
<1>2. CASE CheckFactory(q)
  <2>1. Step(q, [stage |-> IF HasFactory THEN "query" ELSE "create"])
    BY <1>2 DEF CheckFactory
  <2>2. request'[q].stage = IF factory # None THEN "query" ELSE "create"
    BY <1>s, <2>1 DEF Changed, HasFactory
  <2>3. Types(q)' /\ Connections(q)' /\ Others(q)
    BY <1>2, <1>p, <1>s, <2>1, <2>2 DEF CheckFactory
  <2>4. Engine(q)'
    BY <1>0, <1>2, <1>s, <2>1, <2>2 DEF CheckFactory, RequestInv, Engine, Shared
  <2>. QED
    BY <1>2, <2>3, <2>4, OwnStep DEF CheckFactory, RequestInv
<1>3. CASE CreateEngine(q)
  <2>1. Step(q, [stage |-> "bind"]) /\ engine' = q /\ pools' = pools \cup {q}
        /\ UNCHANGED <<load, saved, factory>> /\ request[q].stage = "create"
    BY <1>3 DEF CreateEngine
  <2>2. request'[q].stage = "bind"
    BY <1>s, <2>1 DEF Changed
  <2>3. Types(q)' /\ Connections(q)' /\ Others(q)
    BY <1>p, <1>s, <2>1, <2>2
  <2>4. q # None
    BY LegacyAssumption DEF LegacyAssumption
  <2>5. Engine(q)'
    BY <1>0, <1>s, <2>1, <2>2, <2>4 DEF RequestInv, Engine
  <2>6. Pools' /\ Stored'
    BY <1>0, <2>1 DEF Pools, Stored
  <2>. QED
    BY <2>1, <2>3, <2>4, <2>5, <2>6, OthersKeep DEF RequestInv
<1>4. CASE BindFactory(q)
  <2>1. Step(q, [stage |-> "assign", bound |-> engine])
        /\ UNCHANGED Shared /\ request[q].stage = "bind"
    BY <1>4 DEF BindFactory
  <2>2. request'[q].stage = "assign" /\ request'[q].bound = engine
    BY <1>s, <2>1 DEF Changed
  <2>3. Types(q)' /\ Connections(q)' /\ Others(q)
    BY <1>p, <1>s, <2>1, <2>2
  <2>4. Engine(q)'
    BY <1>0, <1>s, <2>1, <2>2 DEF RequestInv, Engine, Shared, Pools
  <2>. QED
    BY <2>1, <2>3, <2>4, OwnStep DEF RequestInv
<1>5. CASE AssignFactory(q)
  <2>1. Step(q, [stage |-> "query"]) /\ factory' = request[q].bound
        /\ UNCHANGED <<load, saved, engine, pools>> /\ request[q].stage = "assign"
    BY <1>5 DEF AssignFactory
  <2>2. request'[q].stage = "query"
    BY <1>s, <2>1 DEF Changed
  <2>3. Types(q)' /\ Connections(q)' /\ Others(q)
    BY <1>p, <1>s, <2>1, <2>2
  <2>4. request[q].bound \in pools /\ None \notin pools
    BY <1>0, <2>1, LegacyAssumption DEF LegacyAssumption, RequestInv, Engine, Pools
  <2>5. Engine(q)'
    BY <1>0, <1>s, <2>1, <2>2, <2>4 DEF RequestInv, Engine
  <2>6. Pools' /\ Stored'
    BY <1>0, <2>1, <2>4 DEF Pools, Stored
  <2>. QED
    BY <2>1, <2>3, <2>4, <2>5, <2>6, OthersKeep DEF RequestInv
<1>6. CASE LookupFails(q)
  BY <1>6, <1>a, <1>b DEF LookupFails
<1>7. CASE Query(q)
  <2>. DEFINE row == Tables[request[q].table][request[q].call.device]
  <2>1. CASE Answer(q, 404, <<>>)
    BY <1>7, <1>a, <1>b, <2>1 DEF Query
  <2>2. CASE Step(q, [stage |-> "client", row |-> row])
    <3>1. request'[q].stage = "client"
      BY <1>s, <2>2 DEF Changed
    <3>2. Types(q)' /\ Connections(q)' /\ Others(q)
      BY <1>7, <1>p, <1>s, <2>2, <3>1 DEF Query
    <3>3. Engine(q)'
      BY <1>0, <1>7, <1>s, <2>2, <3>1 DEF Query, RequestInv, Engine, Shared
    <3>. QED
      BY <1>7, <3>2, <3>3, OwnStep DEF Query, RequestInv
  <2>. QED
    BY <1>7, <2>1, <2>2 DEF Query
<1>. QED
  BY <1>1, <1>2, <1>3, <1>4, <1>5, <1>6, <1>7

\* What is looked up in a stored client mapping is a client class.
LEMMA MappedClass ==
    ASSUME Stored, saved["client_mapping"] # <<>>, NEW row,
           ClientOf(Current("client_mapping"), row) # None
    PROVE  ClientOf(Current("client_mapping"), row) \in Classes
<1>. DEFINE p == Current("client_mapping")
            keys == Candidates(p, row)
            hits == {i \in DOMAIN keys : keys[i] \in DOMAIN p.map}
<1>1. Valid("client_mapping", p)
  <2>1. p = saved["client_mapping"][Len(saved["client_mapping"])]
    BY DEF Current, Last
  <2>. QED
    BY <2>1 DEF Stored, Names
<1>2. Range(p.map) \subseteq Classes
  BY <1>1 DEF Valid
<1>3. ClientOf(p, row) = p.map[keys[Min(hits)]] /\ hits # {}
  BY DEF ClientOf, Named
<1>4. DOMAIN keys \subseteq Nat
  <2>1. ASSUME NEW k, NEW a, NEW b, NEW c, NEW more \in {<<a>>, <<>>}
        PROVE  DOMAIN (<<k>> \o more \o <<b, c>>) \subseteq Nat
    <3>. DEFINE S == {k, a, b, c}
    <3>1. k \in S /\ a \in S /\ b \in S /\ c \in S
      OBVIOUS
    <3>. HIDE DEF S
    <3>2. <<k>> \in Seq(S) /\ <<a>> \in Seq(S) /\ <<>> \in Seq(S) /\ <<b, c>> \in Seq(S)
      BY <3>1
    <3>3. ASSUME NEW s \in Seq(S), NEW t \in Seq(S) PROVE s \o t \in Seq(S)
      OBVIOUS
    <3>4. <<k>> \o more \in Seq(S)
      BY <3>2, <3>3
    <3>5. <<k>> \o more \o <<b, c>> \in Seq(S)
      BY <3>2, <3>3, <3>4
    <3>. QED
      BY <3>5
  <2>. QED
    BY <2>1 DEF Candidates
<1>. HIDE DEF hits, keys, p
<1>5. keys[Min(hits)] \in DOMAIN p.map
  BY <1>3, <1>4, MinIsFound DEF hits
<1>. QED
  BY <1>2, <1>3, <1>5 DEF Range, p

\* The client: from a class that has one, of a row that lets it be constructed.
LEMMA ClientKeeps ==
    ASSUME LegacyInv, NEW q \in Requests, MakeClient(q)
    PROVE  LegacyInv'
<1>. DEFINE p == Current("client_mapping")
            class == ClientOf(p, request[q].row)
            next == IF class = "telnet" THEN "dial" ELSE "proxy"
<1>. USE DEF LegacyInv, At
<1>0. /\ RequestInv(q) /\ request[q].stage = "client" /\ UNCHANGED Shared
      /\ 400 \in Codes /\ 502 \in Codes
  BY DEF MakeClient, Codes
<1>1. ASSUME ~Missing("client_mapping"), class # None PROVE class \in Classes
  BY <1>0, <1>1, MappedClass DEF Missing
<1>2. \/ Answer(q, 400, <<>>)
      \/ /\ ~Missing("client_mapping") /\ class # None
         /\ Answer(q, 502, [class |-> class])
      \/ /\ ~Missing("client_mapping") /\ class # None
         /\ Step(q, [class |-> class, stage |-> next])
  BY DEF MakeClient
<1>. HIDE DEF class
<1>3. CASE Answer(q, 400, <<>>)
  BY <1>0, <1>3, AnswerKeeps
<1>4. CASE class \in Classes /\ Answer(q, 502, [class |-> class])
  BY <1>0, <1>4, AnswerKeeps
<1>5. CASE class \in Classes /\ Step(q, [class |-> class, stage |-> next])
  <2>1. /\ Others(q)
        /\ request'[q].stage \in {"dial", "proxy"} /\ request'[q].class \in Classes
        /\ request'[q].call = request[q].call /\ request'[q].ready = request[q].ready
        /\ request'[q].open = request[q].open
        /\ request'[q].answer = request[q].answer /\ request'[q].step = request[q].step
    BY <1>5, StepFields DEF Changed, Fields
  <2>2. None \notin Classes
    BY LegacyAssumption DEF LegacyAssumption
  <2>3. Types(q)' /\ Connections(q)'
    BY <1>0, <2>1, <2>2 DEF RequestInv, Types, Connections, Before, Stages
  <2>4. Engine(q)'
    BY <1>0, <2>1 DEF RequestInv, Engine, Shared
  <2>. QED
    BY <1>0, <2>1, <2>3, <2>4, OwnStep DEF RequestInv
<1>. QED
  BY <1>1, <1>2, <1>3, <1>4, <1>5

\* The connections of a NETCONF or SSH client, and what becomes of them.
LEMMA SessionKeeps ==
    ASSUME LegacyInv, NEW q \in Requests,
           \/ ReadProxies(q) \/ Hop(q) \/ Connect(q) \/ ConnectFails(q)
           \/ \E code \in {200, 500, 502} : Exchange(q, code)
    PROVE  LegacyInv'
<1>. USE DEF LegacyInv, At
<1>0. RequestInv(q) /\ 200 \in Codes /\ 500 \in Codes /\ 502 \in Codes
  BY DEF Codes
<1>a. ASSUME NEW code \in Codes, Answer(q, code, <<>>), UNCHANGED Shared,
             request[q].stage # "idle"
      PROVE  LegacyInv'
  BY <1>a, AnswerKeeps
<1>s. ASSUME NEW changes, Step(q, changes), DOMAIN changes \subseteq {"stage", "host", "open"}
      PROVE  /\ Others(q)
             /\ request'[q].stage = Changed(q, changes, "stage")
             /\ request'[q].open = Changed(q, changes, "open")
             /\ request'[q].call = request[q].call /\ request'[q].ready = request[q].ready
             /\ request'[q].class = request[q].class
             /\ request'[q].answer = request[q].answer /\ request'[q].step = request[q].step
  BY <1>s, StepFields DEF Changed, Fields
<1>p. ASSUME Others(q), UNCHANGED Shared,
             request'[q].call = request[q].call, request'[q].ready = request[q].ready,
             request'[q].class = request[q].class,
             request'[q].answer = request[q].answer, request'[q].step = request[q].step,
             request[q].class # None,
             \/ /\ request'[q].stage \in {"hop", "connect"} /\ request'[q].open = {}
             \/ /\ request'[q].stage = "connect" /\ request'[q].open \subseteq {"proxy"}
             \/ /\ request'[q].stage = "exchange"
                /\ \/ request'[q].open \subseteq {"proxy", "session"}
                   \/ request'[q].open \subseteq {"proxy", "ssh"}
      PROVE  LegacyInv'
  <2>1. Types(q)'
    BY <1>0, <1>p DEF RequestInv, Types, Stages
  <2>2. Connections(q)'
    BY <1>0, <1>p DEF RequestInv, Connections, Before
  <2>3. Engine(q)'
    BY <1>0, <1>p DEF RequestInv, Engine, Shared
  <2>. QED
    BY <1>p, <2>1, <2>2, <2>3, OwnStep DEF RequestInv
<1>1. CASE ReadProxies(q)
  <2>1. CASE Answer(q, 502, <<>>)
    BY <1>0, <1>1, <1>a, <2>1 DEF ReadProxies
  <2>2. ASSUME NEW host, NEW stage \in {"hop", "connect"},
               Step(q, [host |-> host, stage |-> stage])
        PROVE  LegacyInv'
    <3>1. request'[q].stage = stage /\ request'[q].open = request[q].open
      BY <1>s, <2>2 DEF Changed
    <3>2. request[q].open = {} /\ request[q].class # None
      BY <1>0, <1>1 DEF ReadProxies, RequestInv, Connections, Before
    <3>. QED
      BY <1>1, <1>p, <1>s, <2>2, <3>1, <3>2 DEF ReadProxies
  <2>. QED
    BY <1>1, <2>1, <2>2, ZenonT(60) DEF ReadProxies
<1>2. CASE Hop(q)
  <2>1. Step(q, [stage |-> "connect", open |-> {"proxy"}])
    BY <1>2 DEF Hop
  <2>2. request'[q].stage = "connect" /\ request'[q].open = {"proxy"}
    BY <1>s, <2>1 DEF Changed
  <2>3. request[q].class # None
    BY <1>0, <1>2 DEF Hop, RequestInv, Connections
  <2>. QED
    BY <1>2, <1>p, <1>s, <2>1, <2>2, <2>3 DEF Hop
<1>3. CASE Connect(q)
  <2>1. PICK kind \in {"ssh", "session"} :
          Step(q, [stage |-> "exchange", open |-> request[q].open \cup {kind}])
    BY <1>3 DEF Connect
  <2>2. request'[q].stage = "exchange" /\ request'[q].open = request[q].open \cup {kind}
    BY <1>s, <2>1 DEF Changed
  <2>3. request[q].class # None /\ request[q].open \subseteq {"proxy"}
    BY <1>0, <1>3 DEF Connect, RequestInv, Connections
  <2>. QED
    BY <1>3, <1>p, <1>s, <2>1, <2>2, <2>3 DEF Connect
<1>4. CASE ConnectFails(q)
  BY <1>0, <1>4, <1>a DEF ConnectFails
<1>5. ASSUME NEW code \in {200, 500, 502}, Exchange(q, code) PROVE LegacyInv'
  BY <1>0, <1>5, <1>a DEF Exchange
<1>. QED
  BY <1>1, <1>2, <1>3, <1>4, <1>5

\* The connection of a Telnet client.
LEMMA TelnetKeeps ==
    ASSUME LegacyInv, NEW q \in Requests,
           \/ Dial(q) \/ NoCredentials(q) \/ BreakOff(q)
           \/ \E n \in DOMAIN request[q].unread : Recv(q, n)
    PROVE  LegacyInv'
<1>. USE DEF LegacyInv, At
<1>0. RequestInv(q) /\ 200 \in Codes /\ 500 \in Codes /\ 502 \in Codes
  BY DEF Codes
<1>w. ASSUME NEW step \in DOMAIN Steps, NEW changes, Await(q, step, changes),
             UNCHANGED Shared, request[q].stage \in {"dial", "read"},
             DOMAIN changes \subseteq {"open", "neg", "unread"},
             "open" \in DOMAIN changes =>
               request[q].stage = "dial" /\ changes.open = {"socket"}
      PROVE  LegacyInv'
  <2>1. /\ Others(q)
        /\ request'[q].stage = "read" /\ request'[q].step = step
        /\ request'[q].call = request[q].call /\ request'[q].ready = request[q].ready
        /\ request'[q].class = request[q].class
        /\ request'[q].answer = request[q].answer
        /\ request'[q].open = request[q].open \/ request'[q].open = {"socket"}
    BY <1>w, AwaitFields DEF Changed, Fields
  <2>2. request[q].class # None
    BY <1>0, <1>w DEF RequestInv, Connections
  <2>3. Types(q)'
    BY <1>0, <1>w, <2>1 DEF RequestInv, Types, Stages
  <2>4. Connections(q)'
    BY <1>0, <2>1, <2>2 DEF RequestInv, Connections, Before
  <2>5. Engine(q)'
    BY <1>0, <1>w, <2>1 DEF RequestInv, Engine, Shared
  <2>. QED
    BY <1>w, <2>1, <2>3, <2>4, <2>5, OwnStep DEF RequestInv
<1>1. CASE Dial(q)
  <2>1. 1 \in DOMAIN Steps
    BY DEF Steps
  <2>. QED
    BY <1>1, <1>w, <2>1 DEF Dial
<1>2. CASE NoCredentials(q)
  <2>1. request[q].class # None
    BY <1>0, <1>2 DEF NoCredentials, RequestInv, Connections
  <2>. QED
    BY <1>0, <1>2, <2>1, AnswerKeeps DEF NoCredentials
<1>3. CASE BreakOff(q)
  BY <1>0, <1>3, AnswerKeeps DEF BreakOff
<1>4. ASSUME NEW n \in DOMAIN request[q].unread, Recv(q, n) PROVE LegacyInv'
  <2>. DEFINE neg == Feed(request[q].neg, SubSeq(request[q].unread, 1, n))
              rest == SubSeq(request[q].unread, n + 1, Len(request[q].unread))
  <2>0. UNCHANGED Shared /\ request[q].stage = "read"
    BY <1>4 DEF Recv
  <2>1. \/ Answer(q, 502, [open |-> {}, neg |-> neg, unread |-> rest])
        \/ Step(q, [neg |-> neg, unread |-> rest])
        \/ /\ request[q].step < Len(Steps)
           /\ Await(q, request[q].step + 1, [neg |-> neg, unread |-> rest])
        \/ \E output : Answer(q, 200, [output |-> output, neg |-> neg, unread |-> rest])
    BY <1>4 DEF Recv
  <2>. HIDE DEF neg, rest
  <2>2. CASE Answer(q, 502, [open |-> {}, neg |-> neg, unread |-> rest])
    BY <1>0, <2>0, <2>2, AnswerKeeps
  <2>3. CASE Step(q, [neg |-> neg, unread |-> rest])
    <3>1. /\ Others(q)
          /\ request'[q].stage = request[q].stage /\ request'[q].step = request[q].step
          /\ request'[q].call = request[q].call /\ request'[q].ready = request[q].ready
          /\ request'[q].class = request[q].class
          /\ request'[q].answer = request[q].answer
          /\ request'[q].open = request[q].open /\ request'[q].bound = request[q].bound
      BY <2>3, StepFields DEF Changed, Fields
    <3>2. Types(q)' /\ Connections(q)'
      BY <1>0, <3>1 DEF RequestInv, Types, Connections
    <3>3. Engine(q)'
      BY <1>0, <2>0, <3>1 DEF RequestInv, Engine, Shared
    <3>. QED
      BY <2>0, <3>1, <3>2, <3>3, OwnStep DEF RequestInv
  <2>4. CASE /\ request[q].step < Len(Steps)
             /\ Await(q, request[q].step + 1, [neg |-> neg, unread |-> rest])
    <3>1. request[q].step \in DOMAIN Steps
      BY <1>0 DEF RequestInv, Types
    <3>2. request[q].step + 1 \in DOMAIN Steps
      BY <2>4, <3>1 DEF Steps
    <3>. QED
      BY <1>w, <2>0, <2>4, <3>2
  <2>5. ASSUME NEW output, Answer(q, 200, [output |-> output, neg |-> neg, unread |-> rest])
        PROVE  LegacyInv'
    BY <1>0, <2>0, <2>5, AnswerKeeps
  <2>. QED
    BY <2>1, <2>2, <2>3, <2>4, <2>5
<1>. QED
  BY <1>1, <1>2, <1>3, <1>4

\* The clean-up closes the device connection; close_session() may raise.
LEMMA CleanupKeeps ==
    ASSUME LegacyInv, NEW q \in Requests, Cleanup(q) \/ CleanupFails(q)
    PROVE  LegacyInv'
<1>. USE DEF LegacyInv, At
<1>0. RequestInv(q) /\ 500 \in Codes /\ 500 # None
  BY LegacyAssumption DEF LegacyAssumption, Codes
<1>1. PICK changes : /\ DOMAIN changes \subseteq {"stage", "open", "answer"}
                     /\ Step(q, changes)
                     /\ UNCHANGED Shared
                     /\ changes.stage = "done" /\ "stage" \in DOMAIN changes
                     /\ \/ /\ "answer" \notin DOMAIN changes
                           /\ "open" \in DOMAIN changes
                           /\ changes.open = request[q].open \cap {"proxy"}
                        \/ /\ "answer" \in DOMAIN changes /\ changes.answer = 500
                           /\ "open" \notin DOMAIN changes
                           /\ "session" \in request[q].open
  <2>1. CASE Cleanup(q)
    <3>. DEFINE changes == [stage |-> "done", open |-> request[q].open \cap {"proxy"}]
    <3>1. /\ DOMAIN changes = {"stage", "open"} /\ changes.stage = "done"
          /\ changes.open = request[q].open \cap {"proxy"}
          /\ Step(q, changes) /\ UNCHANGED Shared
      BY <2>1 DEF Cleanup
    <3>. HIDE DEF changes
    <3>. QED
      BY <3>1
  <2>2. CASE CleanupFails(q)
    <3>. DEFINE changes == [stage |-> "done", answer |-> 500]
    <3>1. /\ DOMAIN changes = {"stage", "answer"} /\ changes.stage = "done"
          /\ changes.answer = 500 /\ "session" \in request[q].open
          /\ Step(q, changes) /\ UNCHANGED Shared
      BY <2>2 DEF CleanupFails
    <3>. HIDE DEF changes
    <3>. QED
      BY <3>1
  <2>. QED
    BY <2>1, <2>2
<1>2. /\ Others(q)
      /\ request'[q].stage = "done"
      /\ request'[q].call = request[q].call /\ request'[q].ready = request[q].ready
      /\ request'[q].class = request[q].class /\ request'[q].step = request[q].step
      /\ \/ /\ request'[q].answer = request[q].answer
            /\ request'[q].open = request[q].open \cap {"proxy"}
         \/ /\ request'[q].answer = 500 /\ request'[q].open = request[q].open
            /\ "session" \in request[q].open
  BY <1>1, StepFields DEF Changed, Fields
<1>3. request[q].stage = "cleanup"
  BY DEF Cleanup, CleanupFails
<1>4. Types(q)'
  BY <1>0, <1>2, <1>3 DEF RequestInv, Types, Stages
<1>5. Connections(q)'
  BY <1>0, <1>2, <1>3 DEF RequestInv, Connections, Before
<1>6. Engine(q)'
  BY <1>0, <1>1, <1>2 DEF RequestInv, Engine, Shared
<1>. QED
  BY <1>1, <1>2, <1>4, <1>5, <1>6, OwnStep DEF RequestInv

\* Every step preserves the invariant.
LEMMA NextInv == LegacyInv /\ [Next]_vars => LegacyInv'
<1>. SUFFICES ASSUME LegacyInv, [Next]_vars PROVE LegacyInv'
  OBVIOUS
<1>1. CASE UNCHANGED vars
  BY <1>1 DEF vars, LegacyInv, Shape, Stored, Pools, RequestInv, Types, Engine, Connections
<1>2. ASSUME NEW q \in Requests, Serve(q) PROVE LegacyInv'
  BY <1>2, BeginKeeps, LookupKeeps, ClientKeeps, SessionKeeps, TelnetKeeps, CleanupKeeps
     DEF Serve
<1>. QED
  BY <1>1, <1>2, SaveKeeps DEF Next

-----------------------------------------------------------------------------
\* What the invariant gives.

\* The part of the invariant that TypeOK states.
LEMMA InvTyped == LegacyInv => TypeOK
<1>. SUFFICES ASSUME LegacyInv PROVE TypeOK
  OBVIOUS
<1>. USE DEF LegacyInv
<1>1. ASSUME NEW n \in Names PROVE Range(saved[n]) \subseteq Payloads[n]
  <2>1. saved[n] \in Seq(Payloads[n])
    BY DEF Stored
  <2>. QED
    BY <2>1 DEF Range
<1>2. ASSUME NEW p \in Range(saved["client_mapping"])
      PROVE  {} # Range(p.map) /\ Range(p.map) \subseteq Classes
  <2>1. PICK v \in DOMAIN saved["client_mapping"] : p = saved["client_mapping"][v]
    BY DEF Range
  <2>2. Valid("client_mapping", p) /\ "client_mapping" \in Names
    BY <2>1 DEF Stored, Names
  <2>3. Range(p.map) \subseteq Classes /\ DOMAIN p.map # {}
    BY <2>2 DEF Valid
  <2>. QED
    BY <2>3 DEF Range
<1>3. /\ load \in Loads
      /\ engine \in Requests \cup {None} /\ factory \in pools \cup {None}
      /\ pools \subseteq Requests
  BY DEF Pools, Stored
<1>4. ASSUME NEW q \in Requests
      PROVE  /\ Types(q)
             /\ request[q].stage = "done" => request[q].answer # None
  BY DEF RequestInv, Types
<1>. QED
  BY <1>1, <1>2, <1>3, <1>4 DEF TypeOK, Types

\* Type correctness; in particular no stored client mapping selects anything but a
\* client class.
THEOREM TypeCorrect == Spec => []TypeOK
<1>. QED
  BY InvTyped, InitInv, NextInv, PTL DEF Spec

\* Whatever fails, a devices request ends with its device connection closed; only
\* close_session() raising leaves one, and the answer is then an error.
THEOREM DeviceSessionsAreClosed == Spec => []SessionsAreClosed
<1>1. LegacyInv => SessionsAreClosed
  BY DEF LegacyInv, RequestInv, Connections, SessionsAreClosed, CleansUp
<1>. QED
  BY <1>1, InitInv, NextInv, PTL DEF Spec

\* The engine is created without a lock, and still only by requests that began
\* before the first factory was assigned.
THEOREM FewEngines == Spec => []EnginesAreFew
<1>1. LegacyInv => EnginesAreFew
  BY DEF LegacyInv, RequestInv, Engine, Pools, EnginesAreFew
<1>. QED
  BY <1>1, InitInv, NextInv, PTL DEF Spec

-----------------------------------------------------------------------------
\* Mappings are read afresh.

\* The payloads stored under n that were current at some moment of request q.
Seen(q, n) == {saved[n][v] : v \in {v \in DOMAIN saved[n] : v >= request[q].began[n]}}

LookedUp == {"session", "create", "bind", "assign", "query"}
Proxied == {"hop", "connect", "exchange"}

\* What a request has read of a mapping comes from a payload that it has seen.
Fresh(q) ==
    /\ request[q].stage # "idle" =>
         \A n \in Names : request[q].began[n] \in Nat /\ request[q].began[n] <= Len(saved[n])
    /\ request[q].stage \in {"idle", "lookup"} \cup LookedUp => request[q].row = None
    /\ request[q].stage \in LookedUp =>
         \E p \in Seen(q, "device_lookup") : request[q].table = p.table
    /\ request[q].row # None =>
         \E p \in Seen(q, "device_lookup") :
            request[q].row = Tables[p.table][request[q].call.device]
    /\ request[q].class # None =>
         \E p \in Seen(q, "client_mapping") : request[q].class = ClientOf(p, request[q].row)
    /\ request[q].stage \in Proxied \/ request[q].open \cap {"session", "ssh"} # {} =>
         \E p \in Seen(q, "proxy_mapping") : request[q].host = ProxyOf(p, request[q].row)

FreshInv == \A q \in Requests : Fresh(q)

\* A mapping that is stored when it is read is seen.
LEMMA CurrentIsSeen ==
    ASSUME LegacyInv, NEW q \in Requests, Fresh(q), request[q].stage # "idle",
           NEW n \in Names, ~Missing(n)
    PROVE  Current(n) \in Seen(q, n)
<1>1. saved[n] \in Seq(Payloads[n]) /\ saved[n] # <<>>
  BY DEF LegacyInv, Stored, Missing
<1>2. Len(saved[n]) \in DOMAIN saved[n]
  BY <1>1
<1>3. Len(saved[n]) >= request[q].began[n]
  BY <1>1 DEF Fresh
<1>. QED
  BY <1>2, <1>3 DEF Seen, Current, Last

\* A step that reads no mapping, and brings the request nowhere that a reading is
\* owed, keeps what was read.
LEMMA QuietFresh ==
    ASSUME NEW q \in Requests, Fresh(q), UNCHANGED saved,
           \A f \in {"call", "began", "table", "row", "class", "host"} :
               request'[q][f] = request[q][f],
           request[q].stage # "idle", request'[q].stage \notin {"idle", "lookup"},
           request'[q].stage \in LookedUp => request[q].stage \in LookedUp,
           request'[q].stage \in Proxied \/ request'[q].open \cap {"session", "ssh"} # {} =>
               request[q].stage \in Proxied \/ request[q].open \cap {"session", "ssh"} # {}
    PROVE  Fresh(q)'
<1>1. \A n : Seen(q, n)' = Seen(q, n)
  BY DEF Seen
<1>2. /\ request'[q].call = request[q].call /\ request'[q].began = request[q].began
      /\ request'[q].table = request[q].table /\ request'[q].row = request[q].row
      /\ request'[q].class = request[q].class /\ request'[q].host = request[q].host
  OBVIOUS
<1>. QED
  BY <1>1, <1>2 DEF Fresh

\* An answer reads no mapping.
LEMMA AnswerFresh ==
    ASSUME LegacyInv, NEW q \in Requests, Fresh(q), UNCHANGED saved,
           NEW code, NEW changes, Answer(q, code, changes), request[q].stage # "idle",
           DOMAIN changes \subseteq {"open", "neg", "unread", "output"},
           "open" \in DOMAIN changes => changes.open \in {{}, {"socket"}}
    PROVE  Fresh(q)'
<1>1. /\ \A f \in {"call", "began", "table", "row", "class", "host"} :
             request'[q][f] = request[q][f]
      /\ request'[q].open = request[q].open \/ request'[q].open \in {{}, {"socket"}}
      /\ request'[q].stage \in {"cleanup", "done"}
  BY AnswerFields DEF LegacyInv, Changed, Fields
<1>. QED
  BY <1>1, QuietFresh DEF LookedUp, Proxied

\* So do the other steps that name none of the fields which come from one.
LEMMA StepFresh ==
    ASSUME LegacyInv, NEW q \in Requests, Fresh(q), UNCHANGED saved,
           NEW changes, Step(q, changes), request[q].stage # "idle",
           DOMAIN changes \subseteq {"stage", "bound", "open", "answer", "neg", "unread"},
           "stage" \in DOMAIN changes =>
               /\ changes.stage \notin {"idle", "lookup"}
               /\ changes.stage \in LookedUp => request[q].stage \in LookedUp
               /\ changes.stage \in Proxied => request[q].stage \in Proxied,
           "stage" \notin DOMAIN changes => request[q].stage # "lookup",
           "open" \in DOMAIN changes =>
               \/ changes.open \subseteq request[q].open
               \/ request[q].stage \in Proxied
    PROVE  Fresh(q)'
<1>1. /\ \A f \in {"call", "began", "table", "row", "class", "host"} :
             request'[q][f] = request[q][f]
      /\ request'[q].open = Changed(q, changes, "open")
      /\ request'[q].stage = Changed(q, changes, "stage")
  BY StepFields DEF LegacyInv, Changed, Fields
<1>. QED
  BY <1>1, QuietFresh DEF LookedUp, Proxied, Changed

\* The lookup takes the table from the mapping it reads, and the row from the table.
LEMMA LookupFresh ==
    ASSUME LegacyInv, NEW q \in Requests, Fresh(q),
           \/ ReadLookup(q) \/ CheckFactory(q) \/ CreateEngine(q) \/ BindFactory(q)
           \/ AssignFactory(q) \/ LookupFails(q) \/ Query(q)
    PROVE  Fresh(q)'
<1>. USE DEF At
<1>1. CASE ReadLookup(q)
  <2>1. request[q].stage = "lookup" /\ UNCHANGED saved
    BY <1>1 DEF ReadLookup, Shared
  <2>2. CASE Answer(q, 400, <<>>)
    BY <2>1, <2>2, AnswerFresh
  <2>3. CASE /\ ~Missing("device_lookup")
             /\ Step(q, [stage |-> "session", table |-> Current("device_lookup").table])
    <3>1. /\ request'[q].stage = "session"
          /\ request'[q].table = Current("device_lookup").table
          /\ request'[q].began = request[q].began
          /\ request'[q].row = request[q].row /\ request'[q].class = request[q].class
          /\ request'[q].open = request[q].open
      BY <2>3, StepFields DEF LegacyInv, Changed, Fields
    <3>2. Current("device_lookup") \in Seen(q, "device_lookup")
      BY <2>1, <2>3, CurrentIsSeen DEF Names
    <3>3. Seen(q, "device_lookup")' = Seen(q, "device_lookup")
      BY <2>1, <3>1 DEF Seen
    <3>4. request[q].class = None /\ request[q].open = {} /\ request[q].row = None
      BY <2>1 DEF Fresh, LegacyInv, RequestInv, Connections, Before
    <3>. QED
      BY <2>1, <3>1, <3>2, <3>3, <3>4 DEF Fresh, LookedUp, Proxied
  <2>. QED
    BY <1>1, <2>2, <2>3 DEF ReadLookup
<1>2. CASE CheckFactory(q)
  BY <1>2, StepFresh DEF CheckFactory, Shared, LookedUp, Proxied
<1>3. CASE CreateEngine(q)
  BY <1>3, StepFresh DEF CreateEngine, LookedUp, Proxied
<1>4. CASE BindFactory(q)
  BY <1>4, StepFresh DEF BindFactory, Shared, LookedUp, Proxied
<1>5. CASE AssignFactory(q)
  BY <1>5, StepFresh DEF AssignFactory, LookedUp, Proxied
<1>6. CASE LookupFails(q)
  BY <1>6, AnswerFresh DEF LookupFails, Shared
<1>7. CASE Query(q)
  <2>. DEFINE row == Tables[request[q].table][request[q].call.device]
  <2>1. request[q].stage = "query" /\ UNCHANGED saved
    BY <1>7 DEF Query, Shared
  <2>2. CASE Answer(q, 404, <<>>)
    BY <2>1, <2>2, AnswerFresh
  <2>3. CASE Step(q, [stage |-> "client", row |-> row])
    <3>1. /\ request'[q].stage = "client" /\ request'[q].row = row
          /\ request'[q].call = request[q].call /\ request'[q].began = request[q].began
          /\ request'[q].class = request[q].class /\ request'[q].open = request[q].open
      BY <2>3, StepFields DEF LegacyInv, Changed, Fields
    <3>2. PICK p \in Seen(q, "device_lookup") : request[q].table = p.table
      BY <2>1 DEF Fresh, LookedUp
    <3>3. Seen(q, "device_lookup")' = Seen(q, "device_lookup")
      BY <2>1, <3>1 DEF Seen
    <3>4. request[q].class = None /\ request[q].open = {}
      BY <2>1 DEF LegacyInv, RequestInv, Connections, Before
    <3>. QED
      BY <2>1, <3>1, <3>2, <3>3, <3>4 DEF Fresh, LookedUp, Proxied
  <2>. QED
    BY <1>7, <2>2, <2>3 DEF Query
<1>. QED
  BY <1>1, <1>2, <1>3, <1>4, <1>5, <1>6, <1>7

\* The factories take the class and the proxy from the mapping they read, for the
\* row that was looked up.
LEMMA FactoriesFresh ==
    ASSUME LegacyInv, NEW q \in Requests, Fresh(q), MakeClient(q) \/ ReadProxies(q)
    PROVE  Fresh(q)'
<1>. USE DEF At
<1>1. CASE MakeClient(q)
  <2>. DEFINE class == ClientOf(Current("client_mapping"), request[q].row)
  <2>1. request[q].stage = "client" /\ UNCHANGED saved
    BY <1>1 DEF MakeClient, Shared
  <2>2. CASE Answer(q, 400, <<>>)
    BY <2>1, <2>2, AnswerFresh
  <2>3. ASSUME ~Missing("client_mapping"), request'[q].class = class,
               request'[q].stage \in {"cleanup", "done", "dial", "proxy"},
               request'[q].call = request[q].call, request'[q].began = request[q].began,
               request'[q].row = request[q].row, request'[q].open = request[q].open
        PROVE  Fresh(q)'
    <3>1. Current("client_mapping") \in Seen(q, "client_mapping")
      BY <2>1, <2>3, CurrentIsSeen DEF Names
    <3>2. \A n : Seen(q, n)' = Seen(q, n)
      BY <2>1, <2>3 DEF Seen
    <3>3. request[q].open = {}
      BY <2>1 DEF LegacyInv, RequestInv, Connections, Before
    <3>. QED
      BY <2>1, <2>3, <3>1, <3>2, <3>3 DEF Fresh, LookedUp, Proxied
  <2>4. CASE ~Missing("client_mapping") /\ Answer(q, 502, [class |-> class])
    BY <2>3, <2>4, AnswerFields DEF LegacyInv, Changed, Fields
  <2>5. CASE /\ ~Missing("client_mapping")
             /\ Step(q, [class |-> class,
                         stage |-> IF class = "telnet" THEN "dial" ELSE "proxy"])
    BY <2>3, <2>5, StepFields DEF LegacyInv, Changed, Fields
  <2>. QED
    BY <1>1, <2>2, <2>4, <2>5 DEF MakeClient
<1>2. CASE ReadProxies(q)
  <2>. DEFINE host == ProxyOf(Current("proxy_mapping"), request[q].row)
  <2>1. request[q].stage = "proxy" /\ UNCHANGED saved
    BY <1>2 DEF ReadProxies, Shared
  <2>2. CASE Answer(q, 502, <<>>)
    BY <2>1, <2>2, AnswerFresh
  <2>3. CASE /\ ~Missing("proxy_mapping")
             /\ Step(q, [host |-> host, stage |-> IF host = None THEN "connect" ELSE "hop"])
    <3>1. /\ request'[q].stage \in {"connect", "hop"} /\ request'[q].host = host
          /\ request'[q].call = request[q].call /\ request'[q].began = request[q].began
          /\ request'[q].row = request[q].row /\ request'[q].class = request[q].class
      BY <2>3, StepFields DEF LegacyInv, Changed, Fields
    <3>2. Current("proxy_mapping") \in Seen(q, "proxy_mapping")
      BY <2>1, <2>3, CurrentIsSeen DEF Names
    <3>3. \A n : Seen(q, n)' = Seen(q, n)
      BY <2>1, <3>1 DEF Seen
    <3>. QED
      BY <2>1, <3>1, <3>2, <3>3 DEF Fresh, LookedUp, Proxied
  <2>. QED
    BY <1>2, <2>2, <2>3 DEF ReadProxies
<1>. QED
  BY <1>1, <1>2

\* The device's connections depend on no mapping any more.
LEMMA DeviceFresh ==
    ASSUME LegacyInv, NEW q \in Requests, Fresh(q),
           \/ Hop(q) \/ Connect(q) \/ ConnectFails(q)
           \/ \E code \in {200, 500, 502} : Exchange(q, code)
           \/ Dial(q) \/ NoCredentials(q)
           \/ \E n \in DOMAIN request[q].unread : Recv(q, n)
           \/ BreakOff(q) \/ Cleanup(q) \/ CleanupFails(q)
    PROVE  Fresh(q)'
<1>. USE DEF At
<1>w. ASSUME NEW step, NEW changes, Await(q, step, changes), UNCHANGED saved,
             request[q].stage \in {"dial", "read"},
             DOMAIN changes \subseteq {"open", "neg", "unread"},
             "open" \in DOMAIN changes => changes.open = {"socket"}
      PROVE  Fresh(q)'
  <2>1. /\ \A f \in {"call", "began", "table", "row", "class", "host"} :
               request'[q][f] = request[q][f]
        /\ request'[q].stage = "read"
        /\ request'[q].open = request[q].open \/ request'[q].open = {"socket"}
    BY <1>w, AwaitFields DEF LegacyInv, Changed, Fields
  <2>. QED
    BY <1>w, <2>1, QuietFresh DEF LookedUp, Proxied
<1>1. CASE Hop(q)
  BY <1>1, StepFresh DEF Hop, Shared, LookedUp, Proxied
<1>2. CASE Connect(q)
  BY <1>2, StepFresh DEF Connect, Shared, LookedUp, Proxied
<1>3. CASE ConnectFails(q)
  BY <1>3, AnswerFresh DEF ConnectFails, Shared
<1>4. ASSUME NEW code \in {200, 500, 502}, Exchange(q, code) PROVE Fresh(q)'
  BY <1>4, AnswerFresh DEF Exchange, Shared
<1>5. CASE Dial(q)
  BY <1>5, <1>w DEF Dial, Shared
<1>6. CASE NoCredentials(q)
  BY <1>6, AnswerFresh DEF NoCredentials, Shared
<1>7. ASSUME NEW n \in DOMAIN request[q].unread, Recv(q, n) PROVE Fresh(q)'
  <2>. DEFINE neg == Feed(request[q].neg, SubSeq(request[q].unread, 1, n))
              rest == SubSeq(request[q].unread, n + 1, Len(request[q].unread))
  <2>0. UNCHANGED saved /\ request[q].stage = "read"
    BY <1>7 DEF Recv, Shared
  <2>1. \/ Answer(q, 502, [open |-> {}, neg |-> neg, unread |-> rest])
        \/ Step(q, [neg |-> neg, unread |-> rest])
        \/ Await(q, request[q].step + 1, [neg |-> neg, unread |-> rest])
        \/ \E output : Answer(q, 200, [output |-> output, neg |-> neg, unread |-> rest])
    BY <1>7 DEF Recv
  <2>. HIDE DEF neg, rest
  <2>2. CASE Answer(q, 502, [open |-> {}, neg |-> neg, unread |-> rest])
    BY <2>0, <2>2, AnswerFresh
  <2>3. CASE Step(q, [neg |-> neg, unread |-> rest])
    BY <2>0, <2>3, StepFresh
  <2>4. CASE Await(q, request[q].step + 1, [neg |-> neg, unread |-> rest])
    BY <1>w, <2>0, <2>4
  <2>5. ASSUME NEW output, Answer(q, 200, [output |-> output, neg |-> neg, unread |-> rest])
        PROVE  Fresh(q)'
    BY <2>0, <2>5, AnswerFresh
  <2>. QED
    BY <2>1, <2>2, <2>3, <2>4, <2>5
<1>8. CASE BreakOff(q)
  BY <1>8, AnswerFresh DEF BreakOff, Shared
<1>9. CASE Cleanup(q)
  BY <1>9, StepFresh DEF Cleanup, Shared, LookedUp, Proxied
<1>10. CASE CleanupFails(q)
  BY <1>10, StepFresh DEF CleanupFails, Shared, LookedUp, Proxied
<1>. QED
  BY <1>1, <1>2, <1>3, <1>4, <1>5, <1>6, <1>7, <1>8, <1>9, <1>10

\* A request that begins has seen what is current, and has read nothing yet.
LEMMA BeginFresh ==
    ASSUME LegacyInv, NEW q \in Requests, Fresh(q), NEW role, NEW c, Begin(q, role, c)
    PROVE  Fresh(q)'
<1>. DEFINE start == [stage |-> "lookup", call |-> c, ready |-> factory # None,
                      began |-> [n \in Names |-> Len(saved[n])]]
<1>1. request[q].stage = "idle" /\ UNCHANGED saved
  BY DEF Begin, At, Shared
<1>2. request[q].class = None /\ request[q].open = {} /\ request[q].row = None
  BY <1>1 DEF Fresh, LegacyInv, RequestInv, Connections, Before
<1>3. \/ \E code : Answer(q, code, start)
      \/ Step(q, start)
  BY DEF Begin
<1>4. /\ DOMAIN start = {"stage", "call", "ready", "began"}
      /\ start.stage = "lookup" /\ start.began = [n \in Names |-> Len(saved[n])]
  OBVIOUS
<1>. HIDE DEF start
<1>5. ASSUME NEW code, Answer(q, code, start)
      PROVE  /\ request'[q].stage \in {"cleanup", "done"}
             /\ request'[q].began = start.began /\ request'[q].row = request[q].row
             /\ request'[q].class = request[q].class /\ request'[q].open = request[q].open
  BY <1>4, <1>5, AnswerFields DEF LegacyInv, Changed, Fields
<1>6. ASSUME Step(q, start)
      PROVE  /\ request'[q].stage = "lookup"
             /\ request'[q].began = start.began /\ request'[q].row = request[q].row
             /\ request'[q].class = request[q].class /\ request'[q].open = request[q].open
  BY <1>4, <1>6, StepFields DEF LegacyInv, Changed, Fields
<1>7. \A n \in Names : Len(saved[n]) \in Nat /\ start.began[n] = Len(saved[n])
  BY <1>4 DEF LegacyInv, Stored
<1>8. /\ request'[q].stage \in {"lookup", "cleanup", "done"}
      /\ request'[q].began = start.began /\ request'[q].row = None
      /\ request'[q].class = None /\ request'[q].open = {}
  BY <1>2, <1>3, <1>5, <1>6
<1>. QED
  BY <1>1, <1>7, <1>8 DEF Fresh, LookedUp, Proxied

\* What was seen stays seen when a mapping is replaced.
LEMMA SaveFresh ==
    ASSUME LegacyInv, FreshInv, NEW role \in Roles, NEW n \in Names, NEW p \in Payloads[n],
           SaveConfig(role, n, p)
    PROVE  FreshInv'
<1>1. saved' = [saved EXCEPT ![n] = Append(saved[n], p)] /\ request' = request
  BY DEF SaveConfig
<1>2. DOMAIN saved = Names /\ \A m \in Names : saved[m] \in Seq(Payloads[m])
  BY DEF LegacyInv, Stored
<1>3. ASSUME NEW m \in Names
      PROVE  /\ Len(saved'[m]) >= Len(saved[m]) /\ Len(saved[m]) \in Nat
             /\ Len(saved'[m]) \in Nat
             /\ \A v \in DOMAIN saved[m] : v \in DOMAIN saved'[m] /\ saved'[m][v] = saved[m][v]
  <2>1. CASE m # n
    BY <1>1, <1>2, <2>1
  <2>2. CASE m = n
    <3>1. ASSUME NEW s \in Seq(Payloads[n])
          PROVE  /\ Len(Append(s, p)) >= Len(s) /\ Len(s) \in Nat /\ Len(Append(s, p)) \in Nat
                 /\ \A v \in DOMAIN s : v \in DOMAIN Append(s, p) /\ Append(s, p)[v] = s[v]
      OBVIOUS
    <3>2. saved'[m] = Append(saved[n], p)
      BY <1>1, <1>2, <2>2
    <3>. QED
      BY <1>2, <2>2, <3>1, <3>2
  <2>. QED
    BY <2>1, <2>2
<1>4. ASSUME NEW q \in Requests, NEW m \in Names PROVE Seen(q, m) \subseteq Seen(q, m)'
  BY <1>1, <1>3 DEF Seen
<1>5. /\ "device_lookup" \in Names /\ "client_mapping" \in Names /\ "proxy_mapping" \in Names
  BY DEF Names
<1>6. ASSUME NEW q \in Requests PROVE Fresh(q)'
  <2>1. /\ Seen(q, "device_lookup") \subseteq Seen(q, "device_lookup")'
        /\ Seen(q, "client_mapping") \subseteq Seen(q, "client_mapping")'
        /\ Seen(q, "proxy_mapping") \subseteq Seen(q, "proxy_mapping")'
    BY <1>4, <1>5
  <2>2. request[q].stage # "idle" => \A m \in Names :
          request[q].began[m] \in Nat /\ request[q].began[m] <= Len(saved'[m])
    BY <1>3 DEF FreshInv, Fresh
  <2>. QED
    BY <1>1, <2>1, <2>2 DEF FreshInv, Fresh
<1>. QED
  BY <1>6 DEF FreshInv

\* A step of one request replaces that request's record only, and no mapping.
LEMMA ServesOne ==
    ASSUME Shape, NEW q \in Requests, Serve(q)
    PROVE  UNCHANGED saved /\ \A p \in Requests \ {q} : request'[p] = request[p]
<1>. DEFINE Keeps == \A p \in Requests \ {q} : request'[p] = request[p]
<1>1. ASSUME NEW r, Put(q, r) PROVE Keeps
  BY <1>1 DEF Put, Shape
<1>. HIDE DEF Keeps
<1>2. ASSUME NEW changes, Step(q, changes) PROVE Keeps
  BY <1>1, <1>2 DEF Step
<1>3. ASSUME NEW code, NEW changes, Answer(q, code, changes) PROVE Keeps
  BY <1>1, <1>3 DEF Answer
<1>4. ASSUME NEW step, NEW changes, Await(q, step, changes) PROVE Keeps
  BY <1>1, <1>4 DEF Await
<1>5. UNCHANGED saved
  BY ZenonT(60) DEF Serve, Begin, ReadLookup, CheckFactory, CreateEngine, BindFactory, AssignFactory,
         LookupFails, Query, MakeClient, ReadProxies, Hop, Connect, ConnectFails, Exchange,
         Dial, NoCredentials, Recv, BreakOff, Cleanup, CleanupFails, Shared
<1>. SUFFICES Keeps
  BY <1>5 DEF Keeps
<1>6. ASSUME NEW role, NEW c, Begin(q, role, c) PROVE Keeps
  BY <1>2, <1>3, <1>6 DEF Begin
<1>7. CASE \/ ReadLookup(q) \/ CheckFactory(q) \/ CreateEngine(q) \/ BindFactory(q)
           \/ AssignFactory(q) \/ LookupFails(q) \/ Query(q)
  BY <1>2, <1>3, <1>7 DEF ReadLookup, CheckFactory, CreateEngine, BindFactory,
                          AssignFactory, LookupFails, Query
<1>8. CASE MakeClient(q) \/ ReadProxies(q)
  BY <1>2, <1>3, <1>8 DEF MakeClient, ReadProxies
<1>9. CASE \/ Hop(q) \/ Connect(q) \/ ConnectFails(q) \/ NoCredentials(q) \/ BreakOff(q)
           \/ Cleanup(q) \/ CleanupFails(q)
  BY <1>2, <1>3, <1>9 DEF Hop, Connect, ConnectFails, NoCredentials, BreakOff, Cleanup,
                          CleanupFails
<1>10. ASSUME NEW code \in {200, 500, 502}, Exchange(q, code) PROVE Keeps
  BY <1>3, <1>10 DEF Exchange
<1>11. CASE Dial(q)
  BY <1>4, <1>11 DEF Dial
<1>12. ASSUME NEW n \in DOMAIN request[q].unread, Recv(q, n) PROVE Keeps
  BY <1>2, <1>3, <1>4, <1>12 DEF Recv
<1>. QED
  BY <1>6, <1>7, <1>8, <1>9, <1>10, <1>11, <1>12 DEF Serve

\* Every step preserves it.
LEMMA NextFresh == LegacyInv /\ FreshInv /\ [Next]_vars => FreshInv'
<1>. SUFFICES ASSUME LegacyInv, FreshInv, [Next]_vars PROVE FreshInv'
  OBVIOUS
<1>1. CASE UNCHANGED vars
  BY <1>1 DEF vars, FreshInv, Fresh, Seen
<1>2. ASSUME NEW q \in Requests, Serve(q) PROVE FreshInv'
  <2>1. Fresh(q)'
    BY <1>2, BeginFresh, LookupFresh, FactoriesFresh, DeviceFresh DEF Serve, FreshInv
  <2>2. UNCHANGED saved /\ \A p \in Requests \ {q} : request'[p] = request[p]
    BY <1>2, ServesOne DEF LegacyInv
  <2>3. ASSUME NEW p \in Requests, p # q PROVE Fresh(p)'
    BY <2>2, <2>3 DEF FreshInv, Fresh, Seen
  <2>. QED
    BY <2>1, <2>3 DEF FreshInv
<1>. QED
  BY <1>1, <1>2, SaveFresh DEF Next

\* The row, the class and the proxy of a request come from payloads that were current
\* while it ran, however many are stored meanwhile.
THEOREM FreshDispatch == Spec => []DispatchIsFresh
<1>1. Init => FreshInv
  BY DEF Init, FreshInv, Fresh, NewRequest, LookedUp, Proxied
<1>2. FreshInv => DispatchIsFresh
  BY DEF FreshInv, Fresh, Seen, DispatchIsFresh
<1>. QED
  BY <1>1, <1>2, InitInv, NextInv, NextFresh, PTL DEF Spec

-----------------------------------------------------------------------------
\* The Telnet dialogue.

\* What has been read is the first part of what the device sent, and the negotiator
\* has seen it all, whatever the reads were.
Consumed(heard, unread, neg) ==
    /\ heard \in Seq(Items(Bytes)) /\ unread \in Seq(Bytes)
    /\ \E done \in Seq(Bytes) :
        Wire(heard) = done \o unread /\ neg = Run(NewNegotiator, done)

\* So the text is the text of what has arrived, the first part of all the text.
LEMMA ConsumedIs ==
    ASSUME NEW heard, NEW unread, NEW neg, Consumed(heard, unread, neg)
    PROVE  /\ neg.text = MeantText(Arrived(heard, Len(Wire(heard)) - Len(unread)))
           /\ neg.sent = MeantRefusals(Arrived(heard, Len(Wire(heard)) - Len(unread)))
           /\ neg.text \in Seq(Bytes) /\ MeantText(heard) \in Seq(Bytes)
           /\ \E rest \in Seq(Bytes) : MeantText(heard) = neg.text \o rest
<1>1. PICK done \in Seq(Bytes) : Wire(heard) = done \o unread /\ neg = Run(NewNegotiator, done)
  BY DEF Consumed
<1>2. heard \in Seq(Items(Bytes)) /\ unread \in Seq(Bytes) /\ Commands(Bytes)
  BY DeviceAssumption DEF Consumed, DeviceAssumption
<1>3. /\ Len(done) \in Nat /\ Len(unread) \in Nat /\ done \o unread \in Seq(Bytes)
      /\ Len(done \o unread) = Len(done) + Len(unread)
  BY <1>1, <1>2, ConcatProperties
<1>4. Len(Wire(heard)) - Len(unread) = Len(done) /\ Len(done) \in 0..Len(Wire(heard))
  BY <1>1, <1>3
<1>5. SubSeq(done \o unread, 1, Len(done)) = SubSeq(done, 1, Len(done))
  BY <1>2, <1>3, CutConcat
<1>6. SubSeq(Wire(heard), 1, Len(done)) = done
  BY <1>1, <1>5, SubSeqFull
<1>7. Reads(heard, Len(done))
  BY <1>2, <1>4, StreamIsUnderstood
<1>8. /\ neg.text = MeantText(Arrived(heard, Len(done)))
      /\ neg.sent = MeantRefusals(Arrived(heard, Len(done)))
  BY <1>1, <1>6, <1>7 DEF Reads
<1>9. neg.text \in Seq(Bytes)
  <2>1. neg \in States(Bytes)
    BY <1>1, NewTyped, RunTyped
  <2>. QED
    BY <2>1 DEF States
<1>10. MeantText(heard) \in Seq(Bytes)
  BY <1>2, StreamIs
<1>11. \E rest \in Seq(Bytes) : MeantText(heard) = MeantText(Arrived(heard, Len(done))) \o rest
  BY <1>2, <1>3, ArrivedShows
<1>. QED
  BY <1>4, <1>8, <1>9, <1>10, <1>11

\* Another read.
LEMMA Consuming ==
    ASSUME NEW heard, NEW unread, NEW neg, Consumed(heard, unread, neg),
           NEW n \in DOMAIN unread
    PROVE  Consumed(heard, SubSeq(unread, n + 1, Len(unread)), Feed(neg, SubSeq(unread, 1, n)))
<1>1. PICK done \in Seq(Bytes) : Wire(heard) = done \o unread /\ neg = Run(NewNegotiator, done)
  BY DEF Consumed
<1>2. heard \in Seq(Items(Bytes)) /\ unread \in Seq(Bytes)
  BY DEF Consumed
<1>. DEFINE chunk == SubSeq(unread, 1, n)
            rest == SubSeq(unread, n + 1, Len(unread))
<1>3. n \in 0..Len(unread)
  BY <1>2
<1>4. chunk \in Seq(Bytes) /\ rest \in Seq(Bytes) /\ unread = chunk \o rest
  BY <1>2, <1>3, TwoParts
<1>. HIDE DEF chunk, rest
<1>5. done \o chunk \in Seq(Bytes) /\ done \o (chunk \o rest) = (done \o chunk) \o rest
  BY <1>4, ConcatAssociative, SMTT(60)
<1>6. Run(NewNegotiator, done \o chunk) = Run(Run(NewNegotiator, done), chunk)
  <2>1. ASSUME NEW m \in States(Bytes), NEW s \in Seq(Bytes), NEW t \in Seq(Bytes)
        PROVE  Run(m, s \o t) = Run(Run(m, s), t)
    BY RunsJoin
  <2>2. NewNegotiator \in States(Bytes)
    BY NewTyped
  <2>. QED
    BY <1>4, <2>1, <2>2
<1>7. Feed(neg, chunk) = Run(NewNegotiator, done \o chunk)
  BY <1>1, <1>6 DEF Feed
<1>8. Wire(heard) = (done \o chunk) \o rest
  BY <1>1, <1>4, <1>5
<1>9. Consumed(heard, rest, Feed(neg, chunk))
  BY <1>2, <1>4, <1>5, <1>7, <1>8 DEF Consumed
<1>. QED
  BY <1>9 DEF chunk, rest

\* More is sent.
LEMMA Hearing ==
    ASSUME NEW heard, NEW unread, NEW neg, Consumed(heard, unread, neg),
           NEW burst \in Seq(Items(Bytes))
    PROVE  Consumed(heard \o burst, unread \o Wire(burst), neg)
<1>1. PICK done \in Seq(Bytes) : Wire(heard) = done \o unread /\ neg = Run(NewNegotiator, done)
  BY DEF Consumed
<1>2. heard \in Seq(Items(Bytes)) /\ unread \in Seq(Bytes) /\ Commands(Bytes)
  BY DeviceAssumption DEF Consumed, DeviceAssumption
<1>3. Wire(burst) \in Seq(Bytes) /\ Wire(heard \o burst) = Wire(heard) \o Wire(burst)
  BY <1>2, StreamIs, StreamsJoin
<1>. DEFINE more == Wire(burst)
<1>4. more \in Seq(Bytes) /\ Wire(heard \o burst) = (done \o unread) \o more
  BY <1>1, <1>3
<1>. HIDE DEF more
<1>5. (done \o unread) \o more = done \o (unread \o more) /\ unread \o more \in Seq(Bytes)
  BY <1>2, <1>4, ConcatAssociative, SMTT(60)
<1>6. heard \o burst \in Seq(Items(Bytes))
  BY <1>2
<1>7. Wire(heard \o burst) = done \o (unread \o more)
  BY <1>4, <1>5
<1>8. Consumed(heard \o burst, unread \o more, neg)
  BY <1>1, <1>5, <1>6, <1>7 DEF Consumed
<1>. QED
  BY <1>8 DEF more

\* A marker in the last part of a text is in the text.
LEMMA HeldInPart ==
    ASSUME NEW text \in Seq(Bytes), NEW from \in Nat, NEW marker, Len(marker) \in Nat \ {0},
           Holds(SubSeq(text, from + 1, Len(text)), marker)
    PROVE  from < Len(text) /\ Holds(text, marker)
<1>. DEFINE part == SubSeq(text, from + 1, Len(text))
<1>1. PICK i \in 0..(Len(part) - Len(marker)) : SubSeq(part, i + 1, i + Len(marker)) = marker
  BY DEF Holds
<1>2. Len(text) \in Nat /\ (from >= Len(text) => Len(part) = 0)
  OBVIOUS
<1>3. from < Len(text)
  BY <1>1, <1>2
<1>4. /\ Len(part) = Len(text) - from
      /\ \A j \in 1..Len(part) : part[j] = text[from + j]
  BY <1>3
<1>. DEFINE l == Len(marker)
            whole == SubSeq(text, from + i + 1, from + i + l)
            piece == SubSeq(part, i + 1, i + l)
<1>5. part \in Seq(Bytes)
  BY <1>3
<1>6. i \in Nat /\ l \in Nat /\ i + l <= Len(part)
  BY <1>1, <1>4
<1>7. from + i + l <= Len(text)
  BY <1>2, <1>4, <1>6
<1>8. /\ piece \in Seq(Bytes) /\ Len(piece) = l
      /\ \A j \in 1..l : piece[j] = part[i + j] /\ i + j \in 1..Len(part)
  <2>. HIDE DEF part
  <2>. QED
    BY <1>5, <1>6
<1>9. /\ whole \in Seq(Bytes) /\ Len(whole) = l
      /\ \A j \in 1..l : whole[j] = text[from + i + j]
  BY <1>6, <1>7
<1>. HIDE DEF part, whole, piece, l
<1>10. \A j \in 1..l : from + (i + j) = from + i + j
  BY <1>6
<1>11. \A j \in 1..Len(whole) : whole[j] = piece[j]
  BY <1>4, <1>8, <1>9, <1>10
<1>12. whole = piece
  BY <1>8, <1>9, <1>11, SeqEqual
<1>13. from + i \in 0..(Len(text) - l)
  BY <1>2, <1>6, <1>7
<1>. QED
  BY <1>1, <1>3, <1>12, <1>13 DEF Holds, whole, piece, l

\* So the prompt after the login is held by no text but the whole.
LEMMA PromptIsLast ==
    ASSUME NEW meant \in Seq(Bytes), NEW text \in Seq(Bytes), NEW rest \in Seq(Bytes),
           meant = text \o rest, NEW from \in Nat, NEW marker, Len(marker) \in Nat \ {0},
           Only(meant, marker), Holds(SubSeq(text, from + 1, Len(text)), marker)
    PROVE  text = meant
<1>1. Holds(text, marker)
  BY HeldInPart
<1>2. /\ Len(text) \in Nat /\ Len(rest) \in Nat /\ Len(meant) = Len(text) + Len(rest)
  BY ConcatProperties
<1>3. Len(text) \in 0..Len(meant) /\ Len(text) <= Len(text) /\ Len(text) \in 0..Len(text) + Len(rest)
  BY <1>2
<1>4. SubSeq(meant, 1, Len(text)) = text
  BY <1>3, CutConcat, SubSeqFull
<1>5. Len(text) = Len(meant)
  BY <1>1, <1>3, <1>4 DEF Only
<1>. QED
  BY <1>4, <1>5, SubSeqFull

\* And the prompt after a command, by none but the whole of what came since.
LEMMA OutputIsLast ==
    ASSUME NEW b \in Seq(Bytes), NEW o \in Seq(Bytes), NEW text \in Seq(Bytes),
           NEW rest \in Seq(Bytes), b \o o = text \o rest,
           NEW marker, Len(marker) \in Nat \ {0}, Only(o, marker),
           Holds(SubSeq(text, Len(b) + 1, Len(text)), marker)
    PROVE  text = b \o o
<1>1. Len(b) \in Nat /\ Len(text) \in Nat /\ Len(o) \in Nat /\ Len(rest) \in Nat
  OBVIOUS
<1>2. Len(b) < Len(text)
  BY <1>1, HeldInPart
<1>3. Len(b) + Len(o) = Len(text) + Len(rest)
  <2>1. Len(b \o o) = Len(b) + Len(o) /\ Len(text \o rest) = Len(text) + Len(rest)
    BY ConcatProperties
  <2>. QED
    BY <2>1
<1>. DEFINE k == Len(text) - Len(b)
            start == SubSeq(o, 1, k)
<1>4. k \in 0..Len(o) /\ Len(text) \in 0..Len(b) + Len(o) /\ ~(Len(text) <= Len(b))
  BY <1>1, <1>2, <1>3
<1>5. SubSeq(b \o o, 1, Len(text)) = b \o start
  BY <1>4, CutConcat
<1>6. SubSeq(text \o rest, 1, Len(text)) = text
  <2>1. Len(text) \in 0..Len(text) + Len(rest) /\ Len(text) <= Len(text)
    BY <1>1
  <2>. QED
    BY <2>1, CutConcat, SubSeqFull
<1>7. text = b \o start
  BY <1>5, <1>6
<1>8. start \in Seq(Bytes) /\ Len(start) = k
  BY <1>4
<1>. HIDE DEF start
<1>9. SubSeq(b \o start, Len(b) + 1, Len(b \o start)) = start
  <2>1. Len(b \o start) = Len(b) + Len(start) /\ b \o start \in Seq(Bytes)
    BY <1>8, ConcatProperties
  <2>2. /\ SubSeq(b \o start, Len(b) + 1, Len(b) + Len(start)) \in Seq(Bytes)
        /\ Len(SubSeq(b \o start, Len(b) + 1, Len(b) + Len(start))) = Len(start)
        /\ \A j \in 1..Len(start) :
             SubSeq(b \o start, Len(b) + 1, Len(b) + Len(start))[j] = start[j]
    BY <1>1, <1>8, SMTT(60)
  <2>. QED
    BY <1>8, <2>1, <2>2, SeqEqual
<1>10. Holds(start, marker)
  BY <1>7, <1>9
<1>11. k = Len(o)
  BY <1>4, <1>10 DEF Only, start
<1>. QED
  BY <1>7, <1>11, SubSeqFull DEF start

\* What the device has said at each step of the dialogue; at the last, from is where
\* the text of the command begins.
Asked(heard) == \E u \in Bursts["username"], p \in Bursts["password"] : heard = u \o p
LoggedIn(heard) ==
    \E u \in Bursts["username"], p \in Bursts["password"], r \in Bursts["prompt"] :
        heard = u \o p \o r
Commanded(heard, from) ==
    \E before \in Seq(Items(Bytes)), o \in Bursts["output"] :
        heard = before \o o /\ from = Len(MeantText(before))

Spoken(heard, step, from) ==
    /\ step = 1 => heard \in Bursts["username"]
    /\ step = 2 => Asked(heard)
    /\ step = 3 => LoggedIn(heard)
    /\ step = 4 => Commanded(heard, from)

Whole(q) ==
    request[q].answer = 200 /\ request[q].class = "telnet" =>
        /\ request[q].step = 4
        /\ request[q].output = Decode(SubSeq(MeantText(request[q].heard), request[q].from + 1,
                                             Len(MeantText(request[q].heard))))

\* Only Telnet reads, nothing is answered before the end, and no other way of
\* talking to a device belongs to a Telnet client.
Ended == {"cleanup", "done"}

Talk(q) ==
    /\ Consumed(request[q].heard, request[q].unread, request[q].neg)
    /\ request[q].from \in Nat
    /\ request[q].stage \notin Ended \cup {"read"} =>
         request[q].heard = <<>> /\ request[q].neg = NewNegotiator
    /\ request[q].stage \notin Ended => request[q].answer = None
    /\ request[q].stage = "read" =>
         Spoken(request[q].heard, request[q].step, request[q].from)
    /\ request[q].stage \in {"proxy", "hop", "connect", "exchange"} =>
         request[q].class # "telnet"
    /\ Whole(q)

TalkInv == \A q \in Requests : Talk(q)

\* The fields of the dialogue.
Speech == {"heard", "unread", "neg", "from", "output", "step"}

\* An answer is the end of a dialogue, and is no success of a Telnet command when the
\* code is no success or the client is no Telnet client.
LEMMA AnswerTalks ==
    ASSUME Shape, NEW q \in Requests, Talk(q), NEW code, NEW changes,
           Answer(q, code, changes), DOMAIN changes \cap Speech = {},
           code = 200 => Changed(q, changes, "class") # "telnet"
    PROVE  Talk(q)'
<1>1. /\ \A f \in Fields \ {"answer", "stage"} : request'[q][f] = Changed(q, changes, f)
      /\ request'[q].answer = code
      /\ request'[q].stage \in Ended
  BY AnswerFields DEF Ended
<1>2. \A f \in Speech : request'[q][f] = request[q][f]
  BY <1>1 DEF Changed, Fields, Speech
<1>3. request'[q].class = Changed(q, changes, "class")
  BY <1>1 DEF Fields
<1>4. /\ request'[q].heard = request[q].heard /\ request'[q].unread = request[q].unread
      /\ request'[q].neg = request[q].neg /\ request'[q].from = request[q].from
  BY <1>2 DEF Speech
<1>. QED
  BY <1>1, <1>3, <1>4 DEF Talk, Whole, Ended

\* A step that is not about the dialogue leaves it alone.
LEMMA StepTalks ==
    ASSUME Shape, NEW q \in Requests, Talk(q), NEW changes, Step(q, changes),
           DOMAIN changes \cap Speech = {}, "stage" \in DOMAIN changes,
           "answer" \notin DOMAIN changes,
           changes.stage \notin Ended \cup {"read"} /\ request[q].stage \notin Ended \cup {"read"},
           changes.stage \in {"proxy", "hop", "connect", "exchange"} =>
             Changed(q, changes, "class") # "telnet"
    PROVE  Talk(q)'
<1>1. \A f \in Fields : request'[q][f] = Changed(q, changes, f)
  BY StepFields
<1>2. \A f \in Speech : request'[q][f] = request[q][f]
  BY <1>1 DEF Changed, Fields, Speech
<1>3. /\ request'[q].class = Changed(q, changes, "class")
      /\ request'[q].answer = request[q].answer /\ request'[q].stage = changes.stage
  BY <1>1 DEF Fields, Changed
<1>4. /\ request'[q].heard = request[q].heard /\ request'[q].unread = request[q].unread
      /\ request'[q].neg = request[q].neg /\ request'[q].from = request[q].from
  BY <1>2 DEF Speech
<1>5. request[q].answer = None /\ None # 200
  BY LegacyAssumption DEF LegacyAssumption, Talk, Codes
<1>. QED
  BY <1>1, <1>3, <1>4, <1>5 DEF Talk, Whole, Ended

\* A request that begins.
LEMMA BeginTalks ==
    ASSUME LegacyInv, NEW q \in Requests, Talk(q), NEW role, NEW c, Begin(q, role, c)
    PROVE  Talk(q)'
<1>. DEFINE start == [stage |-> "lookup", call |-> c, ready |-> factory # None,
                      began |-> [n \in Names |-> Len(saved[n])]]
<1>1. request[q].stage = "idle"
  BY DEF Begin, At
<1>2. request[q].class = None /\ None # "telnet"
  BY <1>1, LegacyAssumption
  DEF LegacyAssumption, Classes, LegacyInv, RequestInv, Connections, Before
<1>3. \/ \E code : Answer(q, code, start)
      \/ Step(q, start)
  BY DEF Begin
<1>4. DOMAIN start = {"stage", "call", "ready", "began"} /\ start.stage = "lookup"
  OBVIOUS
<1>. HIDE DEF start
<1>5. Changed(q, start, "class") # "telnet"
  BY <1>2, <1>4 DEF Changed
<1>6. DOMAIN start \cap Speech = {}
  BY <1>4 DEF Speech
<1>. QED
  BY <1>1, <1>3, <1>4, <1>5, <1>6, AnswerTalks, StepTalks DEF LegacyInv, Ended

\* The lookup and the factories: a Telnet client goes on to dial, any other to the
\* proxies.
LEMMA LookupTalks ==
    ASSUME LegacyInv, NEW q \in Requests, Talk(q),
           \/ ReadLookup(q) \/ CheckFactory(q) \/ CreateEngine(q) \/ BindFactory(q)
           \/ AssignFactory(q) \/ LookupFails(q) \/ Query(q) \/ MakeClient(q) \/ ReadProxies(q)
    PROVE  Talk(q)'
<1>. USE DEF At, Ended, Speech
<1>0. Shape
  BY DEF LegacyInv
<1>a. ASSUME NEW code \in {400, 404, 502}, NEW changes, Answer(q, code, changes),
             DOMAIN changes \subseteq {"class"}
      PROVE  Talk(q)'
  BY <1>0, <1>a, AnswerTalks
<1>s. ASSUME NEW changes, Step(q, changes), "stage" \in DOMAIN changes,
             DOMAIN changes \subseteq {"stage", "table", "bound", "row"},
             request[q].stage \notin Ended \cup {"read"},
             changes.stage \in {"session", "query", "create", "bind", "assign", "client"}
      PROVE  Talk(q)'
  BY <1>0, <1>s, StepTalks
<1>1. CASE ReadLookup(q)
  BY <1>1, <1>a, <1>s DEF ReadLookup
<1>2. CASE CheckFactory(q)
  BY <1>2, <1>s DEF CheckFactory
<1>3. CASE CreateEngine(q)
  BY <1>3, <1>s DEF CreateEngine
<1>4. CASE BindFactory(q)
  BY <1>4, <1>s DEF BindFactory
<1>5. CASE AssignFactory(q)
  BY <1>5, <1>s DEF AssignFactory
<1>6. CASE LookupFails(q)
  BY <1>6, <1>a DEF LookupFails
<1>7. CASE Query(q)
  BY <1>7, <1>a, <1>s DEF Query
<1>8. CASE MakeClient(q)
  <2>. DEFINE class == ClientOf(Current("client_mapping"), request[q].row)
              made == [class |-> class,
                       stage |-> IF class = "telnet" THEN "dial" ELSE "proxy"]
  <2>1. \/ Answer(q, 400, <<>>)
        \/ Answer(q, 502, [class |-> class])
        \/ Step(q, made)
    BY <1>8 DEF MakeClient
  <2>2. /\ DOMAIN made = {"class", "stage"} /\ made.class = class
        /\ made.stage = IF class = "telnet" THEN "dial" ELSE "proxy"
        /\ request[q].stage = "client"
    BY <1>8 DEF MakeClient
  <2>. HIDE DEF made, class
  <2>3. CASE Step(q, made)
    BY <1>0, <2>2, <2>3, StepTalks DEF Changed
  <2>. QED
    BY <1>a, <2>1, <2>3
<1>9. CASE ReadProxies(q)
  <2>. DEFINE host == ProxyOf(Current("proxy_mapping"), request[q].row)
              found == [host |-> host, stage |-> IF host = None THEN "connect" ELSE "hop"]
  <2>1. Answer(q, 502, <<>>) \/ Step(q, found)
    BY <1>9 DEF ReadProxies
  <2>2. /\ DOMAIN found = {"host", "stage"} /\ found.stage \in {"connect", "hop"}
        /\ request[q].stage = "proxy" /\ request[q].class # "telnet"
    BY <1>9 DEF ReadProxies, Talk
  <2>. HIDE DEF found, host
  <2>3. CASE Step(q, found)
    BY <1>0, <2>2, <2>3, StepTalks DEF Changed
  <2>. QED
    BY <1>a, <2>1, <2>3
<1>. QED
  BY <1>1, <1>2, <1>3, <1>4, <1>5, <1>6, <1>7, <1>8, <1>9

\* NETCONF and SSH are no Telnet, and a failure is no success.
LEMMA SessionTalks ==
    ASSUME LegacyInv, NEW q \in Requests, Talk(q),
           \/ Hop(q) \/ Connect(q) \/ ConnectFails(q) \/ NoCredentials(q) \/ BreakOff(q)
           \/ \E code \in {200, 500, 502} : Exchange(q, code)
    PROVE  Talk(q)'
<1>. USE DEF At, Ended, Speech
<1>0. Shape
  BY DEF LegacyInv
<1>a. ASSUME NEW code \in {500, 502}, NEW changes, Answer(q, code, changes),
             DOMAIN changes \subseteq {"open"}
      PROVE  Talk(q)'
  BY <1>0, <1>a, AnswerTalks
<1>s. ASSUME NEW changes, Step(q, changes), "stage" \in DOMAIN changes,
             DOMAIN changes \subseteq {"stage", "open"},
             request[q].stage \in {"hop", "connect"},
             changes.stage \in {"connect", "exchange"}
      PROVE  Talk(q)'
  <2>1. Changed(q, changes, "class") # "telnet"
    BY <1>s DEF Talk, Changed
  <2>. QED
    BY <1>0, <1>s, <2>1, StepTalks
<1>1. CASE Hop(q)
  BY <1>1, <1>s DEF Hop
<1>2. CASE Connect(q)
  BY <1>2, <1>s DEF Connect
<1>3. CASE ConnectFails(q)
  BY <1>3, <1>a DEF ConnectFails
<1>4. CASE NoCredentials(q)
  BY <1>4, <1>a DEF NoCredentials
<1>5. CASE BreakOff(q)
  BY <1>5, <1>a DEF BreakOff
<1>6. ASSUME NEW code \in {200, 500, 502}, Exchange(q, code) PROVE Talk(q)'
  <2>1. Answer(q, code, <<>>) /\ request[q].class # "telnet"
    BY <1>6 DEF Exchange, Talk
  <2>2. Changed(q, <<>>, "class") # "telnet"
    BY <2>1 DEF Changed
  <2>. QED
    BY <1>0, <2>1, <2>2, AnswerTalks
<1>. QED
  BY <1>1, <1>2, <1>3, <1>4, <1>5, <1>6

\* The clean-up comes after the dialogue.
LEMMA CleanupTalks ==
    ASSUME LegacyInv, NEW q \in Requests, Talk(q), Cleanup(q) \/ CleanupFails(q)
    PROVE  Talk(q)'
<1>0. Shape
  BY DEF LegacyInv
<1>1. ASSUME NEW changes, Step(q, changes), DOMAIN changes \cap (Speech \cup {"class"}) = {},
             "stage" \in DOMAIN changes, changes.stage = "done",
             "answer" \in DOMAIN changes => changes.answer = 500
      PROVE  Talk(q)'
  <2>1. \A f \in Fields : request'[q][f] = Changed(q, changes, f)
    BY <1>0, <1>1, StepFields
  <2>2. \A f \in Speech \cup {"class"} : request'[q][f] = request[q][f]
    BY <1>1, <2>1 DEF Changed, Fields, Speech
  <2>3. request'[q].answer = request[q].answer \/ request'[q].answer = 500
    BY <1>1, <2>1 DEF Fields, Changed
  <2>4. request'[q].stage = "done"
    BY <1>1, <2>1 DEF Fields, Changed
  <2>5. /\ request'[q].heard = request[q].heard /\ request'[q].unread = request[q].unread
        /\ request'[q].neg = request[q].neg /\ request'[q].from = request[q].from
    BY <2>2 DEF Speech
  <2>6. Whole(q)'
    BY <2>2, <2>3 DEF Talk, Whole, Speech
  <2>. QED
    BY <2>4, <2>5, <2>6 DEF Talk, Ended
<1>2. CASE Cleanup(q)
  BY <1>1, <1>2 DEF Cleanup, Speech
<1>3. CASE CleanupFails(q)
  BY <1>1, <1>3 DEF CleanupFails, Speech
<1>. QED
  BY <1>2, <1>3

\* The device speaks: one more burst, and the text of this step begins where the
\* text was.
LEMMA AwaitHears ==
    ASSUME LegacyInv, NEW q \in Requests, NEW step \in DOMAIN Steps, NEW changes,
           Await(q, step, changes), DOMAIN changes \subseteq {"open", "neg", "unread"},
           request[q].answer = None,
           Consumed(request[q].heard, Changed(q, changes, "unread"), Changed(q, changes, "neg")),
           \A burst \in Bursts[Steps[step]] :
              Spoken(request[q].heard \o burst, step, Len(Changed(q, changes, "neg").text))
    PROVE  Talk(q)'
<1>. DEFINE unread == Changed(q, changes, "unread")
            neg == Changed(q, changes, "neg")
            r == With(request[q], changes)
<1>0. Shape
  BY DEF LegacyInv
<1>1. DOMAIN r = Fields /\ \A f \in Fields : r[f] = Changed(q, changes, f)
  BY <1>0 DEF Shape, With, Changed
<1>2. /\ r.heard = request[q].heard /\ r.answer = None
      /\ r.unread = unread /\ r.neg = neg
  BY <1>1 DEF Changed, Fields
<1>3. PICK burst \in Bursts[Steps[step]] :
        request' = [request EXCEPT ![q] =
                     [r EXCEPT !.stage = "read", !.step = step, !.heard = @ \o burst,
                               !.unread = @ \o Wire(burst), !.from = Len(r.neg.text)]]
  BY DEF Await, Put
<1>. HIDE DEF r
<1>4. /\ request'[q].stage = "read" /\ request'[q].step = step
      /\ request'[q].heard = request[q].heard \o burst
      /\ request'[q].unread = unread \o Wire(burst)
      /\ request'[q].from = Len(neg.text) /\ request'[q].neg = neg
      /\ request'[q].answer = None
  BY <1>0, <1>1, <1>2, <1>3 DEF Shape, Fields
<1>. HIDE DEF unread, neg
<1>5. burst \in Seq(Items(Bytes))
  BY DeviceAssumption DEF DeviceAssumption
<1>6. Consumed(request[q].heard, unread, neg)
  BY DEF unread, neg
<1>7. Consumed(request[q].heard \o burst, unread \o Wire(burst), neg)
  BY <1>5, <1>6, Hearing
<1>8. Len(neg.text) \in Nat
  BY <1>6, ConsumedIs
<1>9. Spoken(request[q].heard \o burst, step, Len(neg.text))
  BY DEF neg
<1>10. None # 200
  BY LegacyAssumption DEF LegacyAssumption, Codes
<1>. QED
  BY <1>4, <1>7, <1>8, <1>9, <1>10 DEF Talk, Whole, Ended

\* The first burst.
LEMMA DialTalks ==
    ASSUME LegacyInv, NEW q \in Requests, Talk(q), Dial(q)
    PROVE  Talk(q)'
<1>. DEFINE changes == [open |-> {"socket"}]
<1>1. Await(q, 1, changes) /\ request[q].stage = "dial"
  BY DEF Dial, At
<1>2. DOMAIN changes = {"open"}
  OBVIOUS
<1>. HIDE DEF changes
<1>3. /\ Changed(q, changes, "unread") = request[q].unread
      /\ Changed(q, changes, "neg") = request[q].neg
  BY <1>2 DEF Changed
<1>4. /\ Consumed(request[q].heard, request[q].unread, request[q].neg)
      /\ request[q].heard = <<>> /\ request[q].answer = None
  BY <1>1 DEF Talk, Ended
<1>5. 1 \in DOMAIN Steps /\ Steps[1] = "username"
  BY DEF Steps
<1>6. ASSUME NEW burst \in Bursts["username"] PROVE <<>> \o burst = burst
  <2>1. burst \in Seq(Items(Bytes))
    BY <1>5, DeviceAssumption DEF DeviceAssumption
  <2>. QED
    BY <2>1, ConcatEmptySeq
<1>7. \A burst \in Bursts[Steps[1]] :
        Spoken(request[q].heard \o burst, 1, Len(Changed(q, changes, "neg").text))
  BY <1>4, <1>5, <1>6 DEF Spoken
<1>. QED
  BY <1>1, <1>2, <1>3, <1>4, <1>5, <1>7, AwaitHears

\* The steps and their markers.
LEMMA MarkerOf ==
    /\ Steps[1] = "username" /\ Steps[2] = "password"
    /\ Steps[3] = "prompt" /\ Steps[4] = "output" /\ DOMAIN Steps = 1..4 /\ Len(Steps) = 4
    /\ Len(Marker["prompt"]) \in Nat \ {0} /\ Len(Marker["output"]) \in Nat \ {0}
<1>1. Marker["prompt"] = <<">", " ">> /\ Marker["output"] = <<">", " ">>
  BY DEF Marker
<1>2. Len(<<">", " ">>) \in Nat \ {0}
  OBVIOUS
<1>3. /\ Steps[1] = "username" /\ Steps[2] = "password"
      /\ Steps[3] = "prompt" /\ Steps[4] = "output" /\ DOMAIN Steps = 1..4 /\ Len(Steps) = 4
  BY DEF Steps
<1>. QED
  BY <1>1, <1>2, <1>3

\* The login is complete with its prompt.
LEMMA LoginIsHeard ==
    ASSUME NEW heard, NEW unread, NEW neg, NEW from \in Nat,
           Consumed(heard, unread, neg), LoggedIn(heard),
           Holds(SubSeq(neg.text, from + 1, Len(neg.text)), Marker["prompt"])
    PROVE  neg.text = MeantText(heard)
<1>1. PICK u \in Bursts["username"], p \in Bursts["password"], t \in Bursts["prompt"] :
        heard = u \o p \o t
  BY DEF LoggedIn
<1>2. Only(MeantText(heard), Marker["prompt"])
  BY <1>1, DeviceAssumption DEF DeviceAssumption
<1>3. /\ neg.text \in Seq(Bytes) /\ MeantText(heard) \in Seq(Bytes)
      /\ \E rest \in Seq(Bytes) : MeantText(heard) = neg.text \o rest
  BY ConsumedIs
<1>. DEFINE text == neg.text
            meant == MeantText(heard)
            marker == Marker["prompt"]
<1>4. text \in Seq(Bytes) /\ meant \in Seq(Bytes) /\ Len(marker) \in Nat \ {0}
  BY <1>3, MarkerOf
<1>5. PICK rest \in Seq(Bytes) : meant = text \o rest
  BY <1>3
<1>6. Only(meant, marker) /\ Holds(SubSeq(text, from + 1, Len(text)), marker)
  BY <1>2
<1>. HIDE DEF text, meant, marker
<1>7. text = meant
  BY <1>4, <1>5, <1>6, PromptIsLast
<1>. QED
  BY <1>7 DEF text, meant

\* So is the output.
LEMMA OutputIsHeard ==
    ASSUME NEW heard, NEW unread, NEW neg, NEW from \in Nat,
           Consumed(heard, unread, neg), Commanded(heard, from),
           Holds(SubSeq(neg.text, from + 1, Len(neg.text)), Marker["output"])
    PROVE  neg.text = MeantText(heard)
<1>1. PICK before \in Seq(Items(Bytes)), said \in Bursts["output"] :
        heard = before \o said /\ from = Len(MeantText(before))
  BY DEF Commanded
<1>2. said \in Seq(Items(Bytes)) /\ Commands(Bytes) /\ Only(MeantText(said), Marker["output"])
  BY MarkerOf, DeviceAssumption DEF DeviceAssumption
<1>3. /\ neg.text \in Seq(Bytes)
      /\ \E rest \in Seq(Bytes) : MeantText(heard) = neg.text \o rest
  BY ConsumedIs
<1>4. /\ MeantText(before) \in Seq(Bytes) /\ MeantText(said) \in Seq(Bytes)
      /\ MeantText(before \o said) = MeantText(before) \o MeantText(said)
  BY <1>2, StreamIs, StreamsJoin
<1>. DEFINE text == neg.text
            b == MeantText(before)
            o == MeantText(said)
            marker == Marker["output"]
<1>5. /\ text \in Seq(Bytes) /\ b \in Seq(Bytes) /\ o \in Seq(Bytes)
      /\ Len(marker) \in Nat \ {0} /\ MeantText(heard) = b \o o
  <2>1. MeantText(heard) = b \o o
    BY <1>1, <1>4
  <2>. QED
    BY <1>3, <1>4, <2>1, MarkerOf
<1>6. PICK rest \in Seq(Bytes) : MeantText(heard) = text \o rest
  BY <1>3
<1>7. Only(o, marker) /\ Holds(SubSeq(text, Len(b) + 1, Len(text)), marker)
  BY <1>1, <1>2
<1>. HIDE DEF text, b, o, marker
<1>8. text = b \o o
  BY <1>5, <1>6, <1>7, OutputIsLast
<1>. QED
  BY <1>5, <1>8 DEF text

\* The device speaks again when the marker of a step has come.
LEMMA SpeaksOn ==
    ASSUME NEW heard, NEW unread, NEW neg, NEW from \in Nat, NEW step \in 1..3,
           Consumed(heard, unread, neg), Spoken(heard, step, from),
           Holds(SubSeq(neg.text, from + 1, Len(neg.text)), Marker[Steps[step]]),
           NEW burst \in Bursts[Steps[step + 1]]
    PROVE  Spoken(heard \o burst, step + 1, Len(neg.text))
<1>1. step = 1 => Asked(heard \o burst)
  BY MarkerOf, SMTT(60) DEF Spoken, Asked
<1>2. step = 2 => LoggedIn(heard \o burst)
  <2>1. SUFFICES ASSUME step = 2 PROVE LoggedIn(heard \o burst)
    OBVIOUS
  <2>2. burst \in Bursts["prompt"] /\ Asked(heard)
    BY <2>1, MarkerOf DEF Spoken
  <2>. QED
    BY <2>2 DEF Asked, LoggedIn
<1>3. step = 3 => Commanded(heard \o burst, Len(neg.text))
  <2>1. SUFFICES ASSUME step = 3 PROVE Commanded(heard \o burst, Len(neg.text))
    OBVIOUS
  <2>2. /\ burst \in Bursts["output"] /\ LoggedIn(heard)
        /\ Holds(SubSeq(neg.text, from + 1, Len(neg.text)), Marker["prompt"])
    BY <2>1, MarkerOf DEF Spoken
  <2>3. neg.text = MeantText(heard)
    BY <2>2, LoginIsHeard
  <2>4. heard \in Seq(Items(Bytes))
    BY DEF Consumed
  <2>. QED
    BY <2>2, <2>3, <2>4, Zenon DEF Commanded
<1>4. step + 1 # 1 /\ (step + 1 = 2 => step = 1) /\ (step + 1 = 3 => step = 2) /\ (step + 1 = 4 => step = 3)
  OBVIOUS
<1>. QED
  BY <1>1, <1>2, <1>3, <1>4 DEF Spoken

\* A read: with the marker the dialogue goes on, or the output is complete.
LEMMA RecvTalks ==
    ASSUME LegacyInv, NEW q \in Requests, Talk(q), NEW n \in DOMAIN request[q].unread, Recv(q, n)
    PROVE  Talk(q)'
<1>. DEFINE r == request[q]
            neg == Feed(r.neg, SubSeq(r.unread, 1, n))
            text == SubSeq(neg.text, r.from + 1, Len(neg.text))
            rest == SubSeq(r.unread, n + 1, Len(r.unread))
            read == [neg |-> neg, unread |-> rest]
            meant == MeantText(r.heard)
            marker == Marker[Steps[r.step]]
<1>0. Shape /\ request[q].step \in 1..4
  BY DEF LegacyInv, RequestInv, Types, Steps
<1>1. /\ Consumed(r.heard, rest, neg) /\ r.from \in Nat /\ r.answer = None
      /\ r.stage = "read" /\ Spoken(r.heard, r.step, r.from)
  BY Consuming DEF Recv, At, Talk, Ended
<1>3. \/ Answer(q, 502, [open |-> {}, neg |-> neg, unread |-> rest])
      \/ Step(q, read)
      \/ Holds(text, marker) /\ r.step < 4 /\ Await(q, r.step + 1, read)
      \/ /\ Holds(text, marker) /\ r.step = 4
         /\ Answer(q, 200, [output |-> Decode(text), neg |-> neg, unread |-> rest])
  BY <1>0 DEF Recv, Steps
<1>. HIDE DEF neg, rest
<1>4. None # 200
  BY LegacyAssumption DEF LegacyAssumption, Codes
<1>5. ASSUME NEW changes, changes = [open |-> {}, neg |-> neg, unread |-> rest],
             Answer(q, 502, changes)
      PROVE  Talk(q)'
  <2>1. DOMAIN changes = {"open", "neg", "unread"} /\ changes.neg = neg /\ changes.unread = rest
    BY <1>5
  <2>2. /\ request'[q].heard = r.heard /\ request'[q].from = r.from
        /\ request'[q].neg = neg /\ request'[q].unread = rest
        /\ request'[q].answer = 502 /\ request'[q].stage \in Ended
    BY <1>0, <1>5, <2>1, AnswerFields DEF Changed, Fields, Ended
  <2>. QED
    BY <1>1, <2>2 DEF Talk, Whole, Ended
<1>6. ASSUME Step(q, read) PROVE Talk(q)'
  <2>1. DOMAIN read = {"neg", "unread"} /\ read.neg = neg /\ read.unread = rest
    OBVIOUS
  <2>. HIDE DEF read
  <2>2. /\ request'[q].heard = r.heard /\ request'[q].from = r.from
        /\ request'[q].neg = neg /\ request'[q].unread = rest
        /\ request'[q].answer = None /\ request'[q].stage = "read"
        /\ request'[q].step = r.step
    BY <1>0, <1>1, <1>6, <2>1, StepFields DEF Changed, Fields
  <2>. QED
    BY <1>1, <1>4, <2>2 DEF Talk, Whole, Ended
<1>7. ASSUME Holds(text, marker), r.step < 4, Await(q, r.step + 1, read) PROVE Talk(q)'
  <2>1. /\ DOMAIN read = {"neg", "unread"}
        /\ Changed(q, read, "neg") = neg /\ Changed(q, read, "unread") = rest
    BY DEF Changed
  <2>2. r.step + 1 \in DOMAIN Steps
    BY <1>0, <1>7 DEF Steps
  <2>3. ASSUME NEW burst \in Bursts[Steps[r.step + 1]]
        PROVE  Spoken(r.heard \o burst, r.step + 1, Len(neg.text))
    <3>. DEFINE heard == r.heard
                from == r.from
                step == r.step
    <3>1. /\ Consumed(heard, rest, neg) /\ from \in Nat /\ Spoken(heard, step, from)
          /\ Holds(SubSeq(neg.text, from + 1, Len(neg.text)), Marker[Steps[step]])
          /\ burst \in Bursts[Steps[step + 1]]
      BY <1>1, <1>7, <2>3
    <3>2. step \in 1..3
      BY <1>0, <1>7
    <3>. HIDE DEF heard, from, step, r
    <3>3. Spoken(heard \o burst, step + 1, Len(neg.text))
      BY <3>1, <3>2, SpeaksOn
    <3>. QED
      BY <3>3 DEF heard, from, step
  <2>. HIDE DEF read
  <2>. QED
    BY <1>1, <1>7, <2>1, <2>2, <2>3, AwaitHears
<1>8. ASSUME Holds(text, marker), r.step = 4, NEW changes,
             changes = [output |-> Decode(text), neg |-> neg, unread |-> rest],
             Answer(q, 200, changes)
      PROVE  Talk(q)'
  <2>5. neg.text = meant
    <3>. DEFINE heard == r.heard
                from == r.from
    <3>1. /\ Consumed(heard, rest, neg) /\ from \in Nat /\ Commanded(heard, from)
          /\ Holds(SubSeq(neg.text, from + 1, Len(neg.text)), Marker["output"])
      BY <1>1, <1>8, MarkerOf DEF Spoken
    <3>. HIDE DEF heard, from, r
    <3>2. neg.text = MeantText(heard)
      BY <3>1, OutputIsHeard
    <3>. QED
      BY <3>2 DEF heard
  <2>6. /\ DOMAIN changes = {"output", "neg", "unread"} /\ changes.neg = neg
        /\ changes.unread = rest /\ changes.output = Decode(text)
    BY <1>8
  <2>7. /\ request'[q].heard = r.heard /\ request'[q].from = r.from
        /\ request'[q].neg = neg /\ request'[q].unread = rest
        /\ request'[q].step = r.step /\ request'[q].output = Decode(text)
        /\ request'[q].stage \in Ended
    BY <1>0, <1>8, <2>6, AnswerFields DEF Changed, Fields, Ended
  <2>8. text = SubSeq(meant, r.from + 1, Len(meant))
    BY <2>5
  <2>. HIDE DEF text, meant
  <2>9. Whole(q)'
    BY <1>8, <2>7, <2>8 DEF Whole, meant
  <2>. QED
    BY <1>1, <2>7, <2>9 DEF Talk, Ended
<1>. QED
  BY <1>3, <1>5, <1>6, <1>7, <1>8

\* Every step preserves the dialogue.
LEMMA NextTalks == LegacyInv /\ TalkInv /\ [Next]_vars => TalkInv'
<1>. SUFFICES ASSUME LegacyInv, TalkInv, [Next]_vars PROVE TalkInv'
  OBVIOUS
<1>1. CASE request' = request
  BY <1>1 DEF TalkInv, Talk, Whole
<1>2. ASSUME NEW q \in Requests, Serve(q) PROVE TalkInv'
  <2>1. Talk(q)'
    BY <1>2, BeginTalks, LookupTalks, SessionTalks, DialTalks, RecvTalks, CleanupTalks
    DEF Serve, TalkInv
  <2>2. \A p \in Requests \ {q} : request'[p] = request[p]
    BY <1>2, ServesOne DEF LegacyInv
  <2>3. ASSUME NEW p \in Requests, p # q PROVE Talk(p)'
    BY <2>2, <2>3 DEF TalkInv, Talk, Whole
  <2>. QED
    BY <2>1, <2>3 DEF TalkInv
<1>. QED
  BY <1>1, <1>2 DEF Next, SaveConfig, vars

\* Nothing has been said at first.
LEMMA InitTalks == Init => TalkInv
<1>. SUFFICES ASSUME Init, NEW q \in Requests PROVE Talk(q)
  BY DEF TalkInv
<1>1. /\ request[q].stage = "idle" /\ request[q].heard = <<>> /\ request[q].unread = <<>>
      /\ request[q].neg = NewNegotiator /\ request[q].from = 0 /\ request[q].answer = None
  BY DEF Init, NewRequest
<1>2. Consumed(<<>>, <<>>, NewNegotiator)
  <2>1. <<>> \in Seq(Bytes) /\ <<>> \in Seq(Items(Bytes)) /\ <<>> \o <<>> = <<>>
    OBVIOUS
  <2>2. Wire(<<>>) = <<>>
    BY DeviceAssumption, StreamIs DEF DeviceAssumption
  <2>3. Run(NewNegotiator, <<>>) = NewNegotiator
    BY RunEmpty
  <2>. QED
    BY <2>1, <2>2, <2>3 DEF Consumed
<1>3. None # 200
  BY LegacyAssumption DEF LegacyAssumption, Codes
<1>. QED
  BY <1>1, <1>2, <1>3 DEF Talk, Whole, Ended

\* However the stream of a device is cut into reads, within a command or between two
\* prompts, the client has the device's text, and has refused each option once.
THEOREM CutsAreInvisible == Spec => []RepliesIgnoreCuts
<1>1. ASSUME TalkInv, NEW q \in Requests
      PROVE  /\ request[q].neg.text =
                  MeantText(Arrived(request[q].heard,
                                    Len(Wire(request[q].heard)) - Len(request[q].unread)))
             /\ request[q].neg.sent =
                  MeantRefusals(Arrived(request[q].heard,
                                        Len(Wire(request[q].heard)) - Len(request[q].unread)))
  <2>. DEFINE heard == request[q].heard
              unread == request[q].unread
              neg == request[q].neg
  <2>1. Consumed(heard, unread, neg)
    BY <1>1 DEF TalkInv, Talk
  <2>. HIDE DEF heard, unread, neg
  <2>2. /\ neg.text = MeantText(Arrived(heard, Len(Wire(heard)) - Len(unread)))
        /\ neg.sent = MeantRefusals(Arrived(heard, Len(Wire(heard)) - Len(unread)))
    BY <2>1, ConsumedIs
  <2>. QED
    BY <2>2 DEF heard, unread, neg
<1>2. TalkInv => RepliesIgnoreCuts
  BY <1>1 DEF RepliesIgnoreCuts
<1>. QED
  BY <1>2, InitInv, NextInv, InitTalks, NextTalks, PTL DEF Spec

\* A Telnet command that succeeds has all of its output, up to the prompt.
THEOREM WholeOutput == Spec => []OutputIsWhole
<1>1. TalkInv => OutputIsWhole
  <2>1. Len(Steps) = 4
    BY DEF Steps
  <2>. QED
    BY <2>1 DEF TalkInv, Talk, Whole, OutputIsWhole
<1>. QED
  BY <1>1, InitInv, NextInv, InitTalks, NextTalks, PTL DEF Spec

=============================================================================
