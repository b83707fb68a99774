# Network Gateway API: specifications

TLA+ models of the gateway under `src/`, the TLC configurations that check them
on small instances, and theorems that TLAPS checks for every instance.

- [The system](#the-system)
- [Plan](#plan)
- [Bulk jobs: BatchJobs](#bulk-jobs-batchjobs)
- [Static routes and their records: StaticRoutes](#static-routes-and-their-records-staticroutes)
- [Connection tests and their deadline: ConnectionTests](#connection-tests-and-their-deadline-connectiontests)
- [The inventory: Inventory](#the-inventory-inventory)
- [Who a request comes from: SignIn](#who-a-request-comes-from-signin)
- [Legacy requests: TelnetStream and LegacyRequests](#legacy-requests-telnetstream-and-legacyrequests)
- [Runs](#runs)
- [Proofs](#proofs)
- [Findings](#findings)
- [What is not modelled](#what-is-not-modelled)

## The system

A FastAPI process serves a browser interface and a JSON API. An administrator
keeps an *inventory* of role accounts, proxies and connections in one database;
an operator *tests* connections, one at a time or all of them as a background
*job*, and edits *simulated static routes* of fake devices; every change of a
route leaves an immutable *transaction record*. A legacy API resolves a device in
a second database and sends it one command.

| Component | State it keeps | Operations | Interacts with |
|---|---|---|---|
| A. Bulk jobs (`batches.py`, `store.py` jobs, `main.py` lifespan) | `gateway_jobs` rows with a unique `active_slot`; in memory `_lock`, `_closed`, `_stop`, `_future`, one executor thread with its queue | start, `_run`, `_fail`, shutdown, export, recovery when the store is opened | reads the inventory; runs D once per device; shares the database with every other request and with the demo seeder |
| B. Inventory (`store.py` save, delete, resolve) | `role_accounts`, `proxies`, `connections`, encrypted secrets | create, merging update, delete unless referenced, resolve | A copies its rows, C and D resolve them |
| C. Static routes and transaction log (`device_data.py`, `fake_client.py`, `store.py`) | `gateway_static_routes`, seed markers, `gateway_transactions` | list (seeds on first use), create, update, delete with audit record; record of a failed attempt; paged query | checks the inventory first; deletion of a connection cascades to its routes |
| D. Connection test (`connectors.py`, `connection_tests.py`) | a `Deadline` with the resources it owns and a timer thread; eight process-wide DNS slots | own, expire, close; resolve; connect, log in | called by requests and by the worker of A |
| E. Telnet and legacy clients (`telnet_client.py`, `base_client.py`, `proxy_client.py`) | parser state of the option negotiation; one session each, over the connection of a proxy or not | feed, log in, run a command within a deadline and a byte limit, clean up | used by G |
| F. Sign-in and roles (`auth.py`, `identity.py`) | signed cookies held by the browser; caches of the provider's discovery and key documents | start and complete a login, authenticate a request, log out | guards every API route; talks to the provider |
| G. Factories, metadata database, legacy controllers | a lazily made engine and session factory; mappings in `gateway_config` | replace a mapping; resolve a device to a client class and a proxy; one command | B's database for the mappings, E for the session |
| H. Browser interface (`static/*.mjs`) | lists, selected item, busy flags, sequence numbers, poll timer | load, save, delete, test, poll, page | the JSON API only |
| I. Local demo (`demo/`) | seed manifest, key file, listeners and worker threads | seed, start and stop emulators | opens B's database beside or before the gateway |

Where it is hard:

- **A.** A job is several transactions of one thread, started by another thread,
  observed by a third, while the inventory changes, the process may die between
  any two transactions and another process may open (and *recover*) the same
  database. Correct means: one unfinished job at most; each job ends, once; its
  results are those of the devices as they were when it was accepted; after an
  orderly shutdown nothing is left to recover.
- **B.** Edits merge into what is stored and must leave exactly one usable
  credential; a delete looks for references before it deletes, while another
  process may be adding one; on PostgreSQL two saves can wait for each other.
- **C.** A request is up to four transactions, and the device may be edited,
  deleted or changed by another request in between. Correct means that routes
  and records tell one story: a gapless history per route, no change without its
  record, no record without its change, and an answer that agrees with both.
- **D.** One timer thread closes what another thread is still opening; a resolver
  cannot be cancelled and holds its slot. Correct means: a test ends by its
  deadline, nothing opened outlives it, a success is never reported late.
- **E.** Negotiation bytes arrive in arbitrary pieces, between and inside the
  prompts the client waits for; every failure must still close the session.
- **F.** Cached keys and baked-in roles go stale; callbacks come late, twice, or
  from a tab whose cookie another tab replaced.
- **G.** First use from two threads; three mappings read one after another while
  an administrator replaces them; the order of fall-backs.
- **H.** Answers that arrive after the user went elsewhere; flags that disable the
  controls needed to go on.
- **I.** A seeder that dies half-way, an emulator that stops while it accepts.

Every such place is listed with its line under `hazards` in `PROJECT.json`.

## Plan

In order of importance; a tick marks what exists.

1. [x] `JobService` (abstract) and `BatchJobs` (detailed), with `BatchJobsProofs`.
2. [x] `StaticRoutes`, with `StaticRoutesProofs`.
3. [x] `ConnectionTests`: test, timer and resolver threads over the owned resources
   and the DNS slots, with `ConnectionTestsProofs`.
4. [x] `Inventory`: merging edits, references and locks of both databases, with
   `InventoryProofs`.
5. [x] `SignIn`: keys, roles, flows and sessions over time, with `SignInProofs`.
6. [x] `TelnetStream` (the negotiator against what the peer meant) and
   `LegacyRequests`, which extends it: mappings, lookup, factories, clients.
7. [x] Proofs of the rest of `BatchJobs` (owners and the shutdown), and
   `TelnetStreamProofs` and `LegacyRequestsProofs`.
8. [x] `SerialInventory` (abstract), which `Inventory` implements; `SomeTransactionProceeds`
   without `ENABLED`; and `SerialInventoryProofs` of both.

The browser (H) and the demo (I) are not going to be modelled; see
[What is not modelled](#what-is-not-modelled).

Modules that are proved about use constants with named assumptions, no recursive
operator, and one action per transaction; each TLC instance is an `MC...` module
with a `.cfg` per question.

## Bulk jobs: BatchJobs

`JobService` is what a caller sees: a job is accepted with a fixed plan while no
other is active, reports device by device in plan order, and ends once.
`BatchJobs` is the code. One action is one database transaction, or one in-memory
step between two of them, because `GatewayStore._transaction` makes each atomic and
nothing makes two of them atomic together.

| Variable | In the code |
|---|---|
| `jobs[j]` | the row of `gateway_jobs`: status, `active_slot`, snapshot, completed, results, error |
| `inventory[c]` | `client_type` of a connection, all a job depends on; `"deleted"` when it is gone |
| `proc` | the process: `up`, `stopping` (`_closed` and `_stop` are set together), `stopped`, `crashed` |
| `start` | the call of `start()` that holds `_lock` and where it is; waiting calls have done nothing yet |
| `queue`, `threadUp`, `future` | the executor's work queue, whether its thread was started, `_future` |
| `worker` | the thread in `_run`: where it is, its job, the profiles it loaded, the index of the next one |
| `faults`, `lost` | bookkeeping: failures injected; jobs whose ending write was lost |

The actions follow the statements of `start` (`StartBegin`, `StartCheck` per
connection, `StartCreate`, `StartSubmit`, `StartSubmitFails`, `StartUnscheduled`),
of `_run` (`WorkerTake`, `WorkerSetRunning`, `WorkerLoad`, `WorkerLoop`,
`WorkerRecord`, `WorkerComplete`, `WorkerFail`), of `shutdown` and the lifespan
(`ShutdownBegin`, `ShutdownEnd`), and of the store (`Restart`, `SecondOpen`).
A transaction has three outcomes: it commits, it is rolled back, or it commits
although the caller sees an error because the connection broke at COMMIT. The code
handles the last two alike, which is exactly why they are told apart here.

What is abstracted: a device is its id and client type; a test result is its
success flag; texts are members of `Errors`. Two steps are joined: the last write
of the worker and the return of `_run` (in the code the future becomes done a
little later, so `start()` may refuse a moment longer). `ShutdownBegin` waits for
the lock by its guard `start.pc = "free"`. `Crash` may come between any two steps.

**Fairness.** `FairSpec` asks weak fairness of the holder of `_lock`
(`StartStep`), of the worker thread (`WorkerStep`) and of the end of a shutdown
(`ShutdownEnd`): each is a thread that, when it can run, is scheduled by the
operating system, and none of them can be disabled and enabled forever by others.
That a device test ends (`WorkerRecord` under `WorkerStep`) is what `Deadline` in
`connectors.py` is for; `ConnectionTests` shows it (`TestEnds`). Nothing makes a request, a shutdown,
a crash or a restart happen.

## Static routes and their records: StaticRoutes

A request of `DeviceDataService` runs `CheckAccess` (`_client`), `CheckPath`
(`FakeDeviceClient._profile`), then `ListRoutes` or `Change` (one
`*_static_route_audited` transaction: seeding, change and record together), and
after any refusal of a change `RecordFailure`. Beside the requests run `Edit` and
`Delete` of the connection and `Crash`.

| Variable | In the code |
|---|---|
| `access[c]` | what the stored connection, role accounts and proxy allow: `open`, `shut` (fake, but its path does not validate), `network`, `absent` |
| `initialized` | `gateway_static_route_initializations` |
| `routes` | `gateway_static_routes`, a set of rows |
| `audit` | `gateway_transactions` in commit order |
| `req[q]` | a request: where it is, and its operation, connection, route and destination |
| `load` | how many requests this behaviour serves and on which devices, chosen at the start |
| `nextRoute` | stands for fresh UUIDs, which never repeat |
| `faults`, `unsure` | bookkeeping: failures injected; requests that lost a record or an acknowledgement |

A route is its id, device and destination: the destination is the field with a
constraint. The other validated fields are one way to be invalid, `NoDest`. One
seed route stands for the two of the code. A connection id that is not a UUID
(`Malformed`) is no connection but may appear in a request's path; a route id of
more than 64 characters has the same effect on the record and is not told apart.
A list may seed although its acknowledgement is lost; a read that is refused is not
recorded. The deadlock check is off because a run is over when its requests are
served and its devices are deleted.

## Connection tests and their deadline: ConnectionTests

`run_connection_test` opens what a profile needs, one resource after another, and
talks to the peer over each: a socket (for a host name, one address after the
other), for a bastion its SSH login and a channel, for the device its own SSH
login and, for NETCONF, a channel. `Path` gives that order. Three threads per test:

| Thread | Actions |
|---|---|
| the test | `Begin`; `Acquire`, `Spawn`, `Await`, `GiveUp` in `_resolve`; `Make` or `MakeFails`, `Own`, `Drop`, then `ExchangeSucceeds`, `ConnectFails` or `ExchangeFails` per resource; `Verdict`; `Cancel`, `ExitClose`, `CloseOne`, `Return` in `__exit__` and after it |
| the timer | `TimerFires`, `TimerCloses`, `CloseOne`, `TimerEnds` |
| the lookup | `ResolverAnswers`, `ResolverReleases` |

| Variable | In the code |
|---|---|
| `pc`, `path`, `step`, `address`, `last`, `success`, `result` | where the test is, its resources in order, the current one, the address it tries and the last one, whether the `with` body completed, the stage returned |
| `past`, `expired` | `time.monotonic()` has reached `end`; the event is set. Two facts: the timer may be late |
| `closed`, `owned`, `toClose` | `_closed`, `_resources`, and the local list that each call of `close()` took over |
| `timer`, `resolver`, `slots` | the timer thread, the lookup thread, the free permits of `_DNS_SLOTS` |
| `open` | resources made and not yet closed |
| `late`, `faults` | bookkeeping: an exchange succeeded after the end; thread starts that failed |

What is abstracted: all that is said over one resource before the next is made is
one exchange that succeeds, fails or never ends; whose words those are (SOCKS, HTTP
CONNECT, SSH, Telnet, NETCONF) is left out. `own()` and `close()` are one action
each where they hold the lock; between "made" and "owned", and between "taken over"
and "closed", any other thread may come. The lookup answers with any number of
addresses. A failure before the deadline may be reported as a timeout because
`_stage` also maps the errors of the peer's network to it. A test returns when it
has closed its own list; it waits a quarter of a second for the timer thread, which
is no guarantee, so what that thread is still closing may remain
(`NothingOutlivesTest` says exactly this much and no more).

**Fairness.** Each test and timer thread is scheduled, time passes, and a lookup
that has its answer releases its slot. No peer and no lookup ever has to answer:
`CutOff` says when a silent peer stops holding a thread up. A socket has what is
left of the deadline as its timeout. An exchange over SSH is taken to end only when
a transport it runs over is closed, which is the assumption that depends least on
the library's own timeouts; closing a channel, or a client that runs over one, is
taken to wait for the client below it. That is why the order in `close()` matters:
with clients closed last a test over a bastion never ends (the mutant `BadFirst`).

## The inventory: Inventory

A transaction of the store is a sequence of statements, and each statement that can
wait or see something is an action: `Begin` reads the item (and locks it, for a save
or a delete), or starts to wait for it; `ReadItem` ends that wait; `LockReference`
locks the role account or the proxy that a profile names; then `Save`, `Delete` or
`Resolve` ends it. It may also end as `NotFound` (404), `Refuse` (400, by the rule
that the code checks at that point), a reference found by a delete (409), or with a
database error (503): `Outdated`, `DeadlockVictim`, `Fail`.

| Variable | In the code |
|---|---|
| `backend` | SQLite or PostgreSQL, from the configured URL |
| `rows` | the committed rows of `gateway_role_accounts`, `gateway_proxies`, `gateway_connections` |
| `minted` | the identifiers handed out so far; `uuid4` never repeats one |
| `owner[id]` | the process whose transaction holds the lock of a row (`SELECT ... FOR UPDATE`) |
| `txn[p]`, `view[p]` | the transaction of a process, and the state it began with |
| `changed[p]` | rows that others have committed since then |
| `answer`, `faults` | bookkeeping: the last answer; failures injected |

On SQLite a transaction starts with `BEGIN IMMEDIATE`, so `Begin` waits for every
other one. On PostgreSQL the engine is opened at REPEATABLE READ: reads see
`view`, a locking read of a row that changed since is refused, and the foreign keys
(`RESTRICT`) are checked against what is committed. That difference is what
`ReferencesExist` is about: `Delete` looks for references in its view, where the one
that another process has just committed is missing, and only the foreign key
refuses it.

A credential is the name of its non-empty field; an edit says which fields it fills
and which it empties, and the merge rules of `SecretsAfter`, `InlineAfter` and
`ConnectorAfter` are those of the code. `Accepted` is what the request models let
through before the store is asked. Names, hosts, ports and driver options of a row
constrain nothing else and are left out; secrets are encrypted and decrypted as
they are.

Each guard is an operator of its own (`CanRead`, `CanLock`, `Missing`, `Stale`,
`Deadlocked`, `MustRefuse`, `CanSave`), and `Ready` is their disjunction: the condition
under which a transaction has a step other than to fail. `SomeTransactionProceeds` says
that when transactions are under way one of them is ready, which on PostgreSQL needs
the database's deadlock detection: a connection's save locks its role account before
its proxy, and the proxy's save locks the proxy before the role account.

`SerialInventory` is what the clients are promised, with statements, views and locks
left out: `Accept` a request, then answer it in one step that either changes nothing
(`Decline`, `Resolve`) or is the whole `Save` or `Delete` on the rows as they are at
that moment. `Inventory` implements it (`ServedOneByOne`) with its own `rows`, `minted`
and `answer`; `pending[p]` is the request of the transaction under way. A statement
that reads or locks is a `Wait`; `Save`, and `Delete` when it commits, are the steps of
the same names, with the answer or with 503 when the commit's acknowledgement is lost;
every other end is a `Decline`. What the mapping has to hide is that a save merged its
payload into a row it read earlier, checked references it looked up earlier, and that
a delete looked for references in its view. Since only `Delete` may be answered 409
there, the code's `IntegrityError` branch is never reached by a save: the row locks
on the references are what makes that so, and without them (the mutant
`BadLockReference`) a save meets the foreign key instead.

## Who a request comes from: SignIn

A request asks one of five things. `Login` signs a flow cookie and `Redirect`s the
browser; `Callback` checks the cookie against the state that came back, `Redeem`
exchanges the code for a token, and `SignedIn` sets the session cookie. `Bearer`
brings a token, `Session` a cookie or nothing, `Logout` drops it. Outside Entra mode
neither is looked at (`WithoutEntra`). A token is verified with the
key set: `UseCache` when it has not expired, otherwise `Fetch` and, when the
provider has answered, `Arrive`, which stores the set for everybody; `Decide` ends
the request. `ProviderFails` may take the place of every answer. The threads share
`cache` without a lock.

| Variable | In the code |
|---|---|
| `mode` | `GATEWAY_AUTH_MODE`: Entra, demo or disabled; in demo mode also the role of the demo user and `app.state.demo_mode` |
| `cache` | the entry of `_CACHE` that `_jwks` keeps: the key set and when it expires |
| `jar` | the flow cookie and the session cookie of a browser |
| `req[q]`, `answer` | the locals of a request; the answer just given |
| `published`, `signing`, `roles`, `codes` | the provider: its keys, the one it signs with, the roles of the user, codes it has not redeemed |
| `held`, `changes`, `signed` | bookkeeping: when a role was taken away; changes made so far; sign-ins that were completed |
| `tabs`, `bearer` | the client: sign-ins it was sent away for; the token it has |
| `now`, `load` | the clock; what this behaviour asks for |

Provider and client are environment: `Publish`, `SignWith`, `Retire`, `AssignRoles`
(together `Change`), `GiveCode`, `GetToken`, `DropCookie`, and `Tick`. That a call
to the provider ends within `CallTime` is an assumption about the provider: the timeout
the code passes to its HTTP client bounds the connection and each read, not the call,
so the numbers below are for a provider that does not trickle its answers. A browser
may send a callback twice, late, again after the sign-in, or with the cookie of another
tab. What a
signature proves belongs to the libraries: a cookie is what the gateway signed and
a token what the provider signed. The discovery document does not change at the
provider and is left out. The deadlock check is off because the clock is bounded.

The properties give numbers to "stale": a retired key counts for less than the
lifetime of the cache plus one call (`KeysAreRecent`), because a set of keys that was
requested before the retirement may be stored after it; a new one is unknown for
just as long (`NewKeysAreLearnt`), because a key that is not found does not lead to
a fetch; a role counts for the lifetime of a token (`RolesAreRecent`, of bearer tokens,
the only thing that lets a request in: see `sign_in_session` under Findings).

`SignInsAreNotRepeated` is about callbacks in the order a browser can send them. Two
that are under way side by side are both let in, and both complete when the provider
gives the browser a second code for the same sign-in; the gateway has no record of a
sign-in but the cookie. One that is sent after the sign-in was completed is refused,
with whatever code, because the answer to the first took the cookie away and nothing
puts that flow back. The same answer takes the cookie away when it is by then the one
of another tab, whose sign-in is refused and has to begin again.

## Legacy requests: TelnetStream and LegacyRequests

`TelnetStream` holds two readings of one stream. `Feed` is `_TelnetNegotiator.feed`,
byte by byte over the state it keeps from chunk to chunk. `Wire`, `MeantText` and
`MeantRefusals` say what a peer that sends text, options, subnegotiations and
no-operations puts on the wire and what a client without options owes it.
`RepliesIgnoreCuts` compares the two at every cut. `sent` holds the refusals the
negotiator hands to the socket: `_reply` swallows a failure to send one, so on a
broken connection the peer may not see it. The break itself shows at the next read or
write, which is `BreakOff` in `LegacyRequests`.

`LegacyRequests` is one request from its role check (`Begin`) to its clean-up:
`ReadLookup`; `CheckFactory`, `CreateEngine`, `BindFactory`, `AssignFactory` of the
lazy engine, each a step because no lock is held; `Query`; `MakeClient`;
for NETCONF and SSH `ReadProxies`, `Hop`, `Connect`, `Exchange`; for Telnet `Dial`,
`NoCredentials`, `Recv` of any number of bytes, `BreakOff`; at last `Cleanup` or
`CleanupFails`. `LookupFails` and `ConnectFails` are the failures between them, and
`SaveConfig` replaces a mapping at any time.

| Variable | In the code |
|---|---|
| `saved[name]` | the payloads stored in `gateway_config` so far; the last one is current |
| `engine`, `factory` | `_engine` and `_session_factory` of `db_client.py` |
| `pools` | every engine made, also one that lost the race |
| `request[q]` | the locals: class, proxy, open connections, negotiator, text, answer |
| `load` | what this behaviour stores first, asks for, and how many edits it has |

What is assumed or abstracted: in what the device says up to its first prompt, and in
what it answers to the command, the prompt marker appears at the end and nowhere
before (`DeviceAssumption`: `_recv_until` knows no other end of a reply, and would
take a marker inside a banner or an output for the prompt). The other markers may
appear early and are taken early. A failed login is answered 502 whatever failed; the six vendor classes
differ only in the wording of a command; the reads of the interface, protocol and
MPLS controllers answer a constant and are one kind of call, `stub`; a mutation is
answered 403 or 501 before its handler. After a race `get_engine()` may return
another engine than the one the factory is bound to, which only the tooling would
see. `SessionsAreClosed` says `"proxy"` nowhere because the SSH connection to a proxy is
closed by nobody, and it speaks of the `devices` routes because the `routers` routes
have no clean-up. For the same reason a connection to a proxy that is left behind by a
failed hop is no part of `request[q]`.

## Runs

| Run | Instance | What it shows |
|---|---|---|
| `batch_safety` | two jobs, two devices, selections of one and of both, one fault, a second process; symmetric in the job ids | eight properties of the job table, its owner and the shutdown, and that `BatchJobs` implements `JobService` (2.0 million states) |
| `batch_liveness` | one selection, one fault, a provider that refuses fake devices, no second process | every accepted job ends; a shutdown ends |
| `batch_isolation` | no fault at all | *violated*: see Findings |
| `routes_safety` | three requests on one device, or two over two devices and an id that is no UUID; two destinations, one fault; symmetric in the requests | six properties of routes, records and answers under every interleaving with edits, deletion and a crash; a request on one device never touches or records the routes of another (567 thousand states) |
| `routes_unrecorded` | two requests, no fault | *violated*: see Findings |
| `tests_safety` | two tests of three profiles over one DNS slot, two addresses, one failed thread start; symmetric in the tests | nothing opened outlives a test, no late success, lookups bounded by the slots |
| `tests_liveness` | a test over a bastion shell beside one that waits for the slot | every test ends |
| `tests_slots` | two tests of a host name, one failed thread start | *violated*: see Findings |
| `inventory` | one role account, one proxy, one connection and two gateway processes, on each database; one fault | no sequence of edits and no overlap of saves, deletes and reads breaks credentials or references, somebody can always go on, and requests are served as if one at a time (1.5 million states) |
| `sign_in` | two bearer clients with three changes at the provider, or a browser with two tabs; each mode; symmetric in the flows | how old a key or a role may be when it still counts; a completed sign-in is not repeated (2.7 million states) |
| `sign_in_session` | the same | *violated*: see Findings |
| `legacy` | a Telnet session with every cut; two requests beside an edit; a request before anything is configured | text and refusals do not depend on the cuts, no truncated success, sessions are closed, mappings are fresh (306 thousand states) |

**Bounds.** Two jobs let a job meet a later one in every way that matters: the
slot, the stale work item, `_future`, recovery between them; a third would meet the
second as the second meets the first. Two devices give a first, a last, and a
stop or an edit between them. `MaxFaults = 1` injects one failure anywhere; the
failures the code handles (a failing write, then a failing `_fail`) need one more
only to leave the job in the state that one lost write already leaves it in. Three
requests on one device give a creator, a changer and a deleter of one route. In
`batch_liveness` every fault and crash may still happen; it uses no symmetry.
Device tests meet only at the DNS slots: with one slot, two tests give a holder and
a waiter. The profiles give one resource, three (a bastion shell) and four (an SSH
login over a bastion), and one that `validate_profile` refuses. `MaxFaults` is 0 in
`tests_liveness` because a failed start only ends a test earlier.

In `inventory` one process is sent every kind of edit and resolves, and the other
links the connection to the role account and deletes each of the three rows: that
gives every order of two transactions on any pair of rows, a lock cycle, and a row
deleted or changed under a reader. Two more rows of a table would be further copies
of one that is already edited, linked and deleted in every order, and each
conflict is between two transactions. One fault is a
failing statement, a commit whose acknowledgement is lost, or a death of a process.
In `sign_in` one unit of time is the lifetime of the key cache, of a flow and of a
session, and the longest call; a token outlives them, and the clock runs until
what was there at the start has expired. Two keys give a rotation; three changes
publish, use and retire. Two requests race for the cache; two tabs for the cookie.
In `legacy` the Telnet session runs alone because it shares nothing but the
lookup; its byte limit of four lets the prompt, the output that just fits and one
that does not all happen. The bursts split every kind of item, leave the blank after
`Username:` and `Password:` (as `telnet_emulator.py` sends it) to the next read, and
put an option after the prompt. The other two loads put the mapping that changes, or the
engine that is made, between two reads of a request.

The properties and the hazards they are for are listed in `PROJECT.json`; each
property of a passing run has a mutant, a plausible slip in one definition, that
TLC catches with it.

## Proofs

`BatchJobsProofs` proves, for any finite or infinite sets of jobs, connections and
selections, any number of faults, and either value of the switches, from
`BatchAssumption` alone:

- `TypeCorrect`: `Spec => []TypeOK`. Not inductive alone: `Labels` adds what the
  program counters imply of the other fields (a call past its checks has
  a list with at least one id, a busy worker has a job, and so on).
- `AtMostOneActive`: `OneActiveJob`. Every write goes through `WithStatus`,
  `WithResult`, `NewRow` or `Recovered`, so the proof shows of each step that it is
  a `JobsStep` (lemma `NextJobsStep`), a formula on `jobs` alone, and then that
  such a step keeps the invariant.
- `FinishedJobsStay`: `TerminalIsFinal`, from the same `JobsStep`.
- `ReportsFollowSnapshots`: `ReportFollowsSnapshot`. A row alone does not tell that
  the next result is for the next device: `record_job_result` only asks that the
  device is in the snapshot and has no result yet. `WorkInv` ties the worker to its
  row: its profiles are the snapshot, and the results so far are exactly those
  before `worker.next`, unless the row has already ended. That a stale work item or
  a second process never breaks this tie is the heart of the proof.
- `Implementation`: `Spec => Service!Spec` under the mapping at the end of
  `BatchJobs`; `ServiceInv` collects what the step proof needs, and every step is
  an `Accept`, `Report`, `Complete`, one or no `Abort`, or a stutter. Recovery
  closes every unfinished job at once; that it is a single `Abort` needs
  `OneActiveJob`.
- `UnfinishedJobsHaveOwners`: `ActiveJobHasOwner`. `Lifespan` adds what the process
  implies: no call of `start()` under way once the service is closed, no work without
  a thread, no thread without its process. The critical steps are those that let go
  of a job (a work item taken, a `_run` that ends, a submit that fails): each has
  ended the row, or lost the write and says so in `lost`.
- `ShutdownIsOrderly`: `OrderlyShutdown`, from the same invariant: when the last
  thread has been joined a job has no owner any more, and only a lost write can have
  left it active.
- `StopLeavesWork`: `ShutdownLeavesWork`. `StopInv` follows `_run` on its way to the
  interrupted end: the row is short of a device there, and nothing is recorded for
  it any more.

`ConnectionTestsProofs` proves the four invariants of `tests_safety`, for any finite
set of tests and any profiles, slots, addresses and failures, from `TestsAssumption`:

- `TypeCorrect`: `TypeOK`. `Typed` is `TypeOK` without the upper bound of `slots`;
  `OnPath` adds that a running test works on a resource its path has
  (`PathLength`: one to five). The bound needs counting: `SlotInv` says that the
  free slots and the set `Holders` (a caller between `acquire` and the start of its
  thread, or a thread that has not released) never exceed `Slots`. It is an
  inequality because a failed thread start loses a slot (see Findings).
- `LookupsAreBounded`: `ResolversBounded`, from the same `SlotInv`. Most steps are
  `QuietSlots`, which can only shrink `Holders`.
- `PassedInTime`: `SuccessIsTimely`. `Timely` follows the flag from the last exchange
  through `Verdict` to `Return`.
- `NothingLeaks`: `NothingOutlivesTest`. `Accounted` says at every step in whose hands
  an open resource is: owned by the deadline, taken over by one of the two calls of
  `close()`, or held by the test between making it and `own()`, or between `own()`
  and closing it itself.

`StaticRoutesProofs` proves the six properties of `routes_safety`, for any requests,
devices, destinations, seeds and failures, from the assumptions of `StaticRoutes`:

- `TypeCorrect`: `TypeOK`, inductive as it stands.
- `GaplessHistory`, `RecordsTellTables`: neither is inductive. `History` joins them
  with what links the records to the tables: no record names a route id still to be
  handed out (`KnownIds`), the row a record names is on the record's device
  (`OneDevice`), a device with records is seeded or gone for good and is therefore
  never seeded again (`Devices`), and the last record of each route tells its row
  (`LastTells`). A commit appends one record whose `before` is the row of the table,
  which by `LastTells` is the `after` of the record before it.
- `EveryChangeRecorded`, `OnlySimulatedDevices`: action properties, from what each
  step does to the tables (`TableSteps`).
- `AnswersAgree`: `AnswersMatchRecords`. `Answered` follows a request from its
  commit or refusal to its answer.

`InventoryProofs` and `SerialInventoryProofs` prove everything that `inventory` checks,
for any finite sets of processes and rows, any requests and failures, and both
databases. `InventoryProofs`:

- `TypeCorrect`: `TypeOK`, from `Typed`, which adds that a row is one of its own table:
  otherwise an edit of a proxy could leave a role account behind.
- `EditsLeaveSoundRows`, `NothingDangles`, `OneKindOffered`: from `Sound`, which is
  that every stored row passes the rules (with more than `RowsAreSound` says: a role
  account with a key holds no password) and that the foreign keys hold of `rows`.
  It says nothing of views or locks: whatever a transaction read, the last check
  of a save is about the row that it stores and the foreign key about the rows that
  are committed. For this much the locks are not needed.
- `FoundMeansResolved`: from `WholeViews`: a view has no dangling reference, since it
  is a copy of `rows` at a moment when those had none, and the connection being
  resolved was read from it.

`SerialInventoryProofs` is about the locks. Its invariant is `Locks`: a lock belongs to a
transaction under way, and is on a row that exists and has not changed since that
transaction began (`Held`); what a transaction sees is what is committed, but for the
rows in `changed` (`Seen`); and a transaction that has read its item (`Serves`) holds
that row, which is still as it was read, and of the rows that the edited row will
refer to it holds each one that is no longer in `refs`, the list of those still to lock. Only a row that its own
transaction holds, or that nobody has heard of, is ever written (`CommitsLocks`), and a
lock is only taken of a row that is free and unchanged (`GoesOnLocks`), so the steps of
one process leave the others' part alone (`Undisturbed`).

- `RequestsAreSerial`: `Spec => ServedOneByOne`. By `Serves` a save finds the row it read
  and its references there, so that the foreign keys hold of what it writes
  (`SaveCommits`); a delete that saw no reference in its view to the row, and passed
  the foreign keys, finds none in the committed rows: one of the row to itself would
  be in the view, since `Held` and `Seen` make the two equal at a row that is locked.
- `TransactionsProceed`: `SomeTransactionProceeds`. A transaction that is not ready waits
  for a row that another one under way holds (`WaitsForAnother`); if nobody is ready,
  everybody waits for somebody, which is what the database detects. A creation needs
  an identifier besides: `Room` counts those left in each table against the creations
  under way, and is where the finite sets (`FiniteAssumption`) are used.

`SignInProofs` proves everything that `sign_in` checks, for any requests, keys, flows,
roles and lifetimes:

- `TypeCorrect`: `TypeOK`, from `Typed`; `Shaped` says what a request carries at each
  label.
- `NoSignInIsRepeated`: `SignInsAreNotRepeated`. The invariant `Once` says that the flow
  in the cookie was not completed; for `Redirect` to keep it, a login that still waits
  has a flow no tab and no other login has, and for `SignedIn`, a callback under way has
  the flow of a tab.
- `RetiredKeysExpire`, `RotationsAreLearnt`: `RecentKeys` bounds from when a set of
  keys can be: one that is under way is at most one call old, the cached one expires
  at most its lifetime after it arrived, and a request verifies with a set not
  older than that. `Within` and `Slack` are these bounds, and the proof is that a
  tick cannot exceed them.
- `RolesExpire`: `TokensAreHonest` says that the roles in a token that has not
  expired are roles the user has, or had within its lifetime.

`TelnetStreamProofs` is about the negotiator alone, for any set of byte values that
has the commands. `Run` and the joined sequences are recursive functions; their
proofs go back to the definition, show that a function with the recursion's property
exists (by an induction on the domain's bound) and unfold the choice. Inductions are
stated with sets, `Counting` on numbers and `Extending` on sequences: the set of all
values for which a formula holds has the first and every next one.

- `CutsMakeNoDifference`: for any items and any cuts of their bytes, feeding the chunks
  one after the other leaves after each of them the text and the refusals of the items
  that have arrived completely. A negotiator that forgets its state between chunks
  (the mutant `BadFeed`), or misreads a byte, does not do that. It follows by an
  induction over the cuts (`RunsJoin`) from
- `StreamIsUnderstood`: the same of the bytes read in one piece, up to any of them. The
  proof goes item by item (`ItemParses`): from
  the state `normal` an item's bytes are `Quiet` up to the last, whatever the payload
  (`PayloadIsQuiet`: a doubled `IAC` never ends a subnegotiation), and the last one
  shows the text or sends the refusal and leads back to `normal`.

`LegacyRequestsProofs` proves the six invariants of `legacy`, for any requests, loads,
payloads and tables, and for any device, from `LegacyAssumption` (the mappings stored
at the start were validated when they were saved) and `DeviceAssumption`:

- `TypeCorrect`, `DeviceSessionsAreClosed`, `FewEngines`: from `LegacyInv`, which says
  per request what its stage implies: of its client and its open connections
  (`Connections`), and of the engine it may be building (`Engine`: only a request that
  found no factory when it began creates one, and a factory once assigned stays). That
  `_session_factory` is bound to whatever `_engine` is by then is harmless because that
  is a pool all the same.
- `FreshDispatch`: `DispatchIsFresh`. In `FreshInv` the table, the class and the host
  are those of a payload stored no earlier than the last one when the request began;
  saving only adds payloads.
- `CutsAreInvisible`: `RepliesIgnoreCuts`. `Consumed` says that the bytes read and those
  unread are what the device sent, and the negotiator has run over the first part;
  the rest is `StreamIsUnderstood`.
- `WholeOutput`: `OutputIsWhole`. `Spoken` says what has been heard at each step. The
  prompt that ends the login is held by no shorter text (`LoginIsHeard`), so the text
  from which the command's output is counted is the whole of what came before it,
  and so again for the prompt after the command (`OutputIsHeard`). No other success
  belongs to a Telnet client.

Only model-checked: the liveness properties (`batch_liveness`, `tests_liveness`), since
liveness under fairness is out of the prover's reach. Every other property of a passing
run is stated by a theorem.

## Findings

- `batch_isolation`: a batch is "failure-isolated", and yet a connection that
  becomes `fake` between the provider check of `start()` and the snapshot of
  `create_job` makes `test_profile` raise outside `safe_test`: the whole job ends
  with "Batch processing failed." and the remaining devices are not tested.
- `routes_unrecorded`: the record of a failed attempt is refused when the connection
  id of the path is not a UUID, and the refusal is swallowed: the attempt leaves
  no record although the database works.
- `tests_slots`: "Bound callers and outstanding resolver threads": a slot whose
  lookup thread cannot be started is never released. Eight such failures, and every
  test of a host name times out until the process is restarted, with no caller and
  no resolver thread left.
- `sign_in_session`: a request "must send a valid Entra bearer token or
  authenticated session", and yet no session authenticates: the cookie holds the
  public fields of the user, with the identifier under `subject`, and whoever reads
  it looks for `oid` or `sub`. The user is signed in, redirected, and answered 401.

## What is not modelled

- **The browser interface (H).** Its hazards are real (an answer that arrives after
  the user went elsewhere, a poll of a batch that has been replaced, buttons set
  while a load is still busy) and are listed in `PROJECT.json` at their lines, but
  they live in the page's own state, behind DOM events. The project stops at the
  HTTP boundary: what the page calls are actions of the server's modules, which
  answer whatever order the calls come in.
- **The local demo (I).** The seeder runs before the gateway on a database of its
  own, and the emulators answer fixed dialogues; to the gateway a device or a proxy
  is an external actor that may answer, refuse or stay silent, and that is how the
  modules have it. The seeder's restart after a partial run and the emulators'
  shutdown are listed as hazards.
- **Schemas, secrets, logging, settings.** Stateless. The rules that decide what is
  stored are in `Inventory` and `StaticRoutes`; encryption and signatures belong to
  external packages.
- **Reads.** `get`, `list`, the export of a job and the paged query of the log
  change nothing and are one statement each.

Inside the modelled components the wire formats of SSH, NETCONF, SOCKS and HTTP are
left out beyond the order of their steps, and so are rendering, layout and the
wording of errors.
