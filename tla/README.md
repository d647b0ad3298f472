# Keyhole Developer Kit: TLA+ specifications and proofs

TLA+ models of the Keyhole developer kit: the Python SDK
(`packages/python/keyhole-sdk`), the CLI on top of it
(`packages/python/keyhole-cli`) and the public test runtime
(`services/test-runtime`). TLC checks the models on small instances; the TLA+ proof
system (tlapm) proves the most important invariants for every value of the constants.

`PROJECT.json` maps each definition to the lines it stands for, and lists the runs, the
hazards of the code at their lines, the mutants that show each property can fail, the
disagreements with the code that two runs show, and the theorems. Paths below are short:
`SDK/` is `src/packages/python/keyhole-sdk/keyhole_sdk/`, `CLI/` is
`src/packages/python/keyhole-cli/keyhole_cli/`, `RT/` is `src/services/test-runtime/app/`.

## 1. Inventory

The kit is a client. Keyhole's governance server ("MCP boundary") is elsewhere and is
external in every model: it may do whatever the code of the client has to reckon with.
What makes this client hard is not computation but state that outlives a call: keys that
a retry must carry, checkpoints that a crash leaves behind, and files in `~/.keyhole` and
`<repo>/.keyhole` that several processes read and write without locks, most of them in
place.

| Component | State | Operations | What is hard | Module |
|---|---|---|---|---|
| Test runtime (`RT/`) | ledger of digests, receipts, pointer, in memory of one asyncio process | `POST /realize`; reads | handlers overlap at the await of the governance controller; timeouts against late approvals; evidence with defaults | `TestRuntime` |
| Governed transport (`SDK/transport`) | none between calls; per call an idempotency key, attempt counter, proof metadata; the server's store of keys | `execute` | retries of requests that may have been executed, late requests, replays, what may be claimed of an ambiguous end | `GovernedTransport` |
| Governed repo flow (`SDK/governed_flow.py`, `governed_demo.py`) | `.keyhole/governed-runs/latest.json` | run, resume, dry run, status; poll and recover asynchronous runs | a crash at any point, recovery of a run under the step saved with it, torn writes | `GovernedFlow` |
| First app (`SDK/governed_demo.py`, commands in my-first-app) | registration.json, context.json, receipt.json | register, compile, run | files of other processes read half written; a canonical context that moves | `FirstApp` |
| Credential file (`SDK/auth_bootstrap`, `sdk_client_25/auth_state.py`) | `~/.keyhole/credentials.json`, `credentials.tmp`; the server's sessions | `get_fresh_token`, `login`, `sign_out` | processes that share one temporary file name; rotated refresh tokens; crashes | `CredentialFile` |
| Device authorization (`SDK/sdk_client_25/device_flow.py`, `auth_state.py`) | attempt registry in memory, guarded by a lock | start, poll, cancel, complete, sign out | an attempt superseded between the last check and its use; slow-down against the deadline; lost tokens | `DeviceAuth` |
| Login, logout, host attest (`CLI/commands/login.py`, `SDK/host`, `auth_bootstrap/pkce.py`) | credentials, proof bundle, attestation, override, callback port | commands | order of persisting and checking; a port shared by logins | `Login` |
| MCP proxy (`CLI/commands/mcp_proxy_cmd.py`) | table of message URLs | GET /sse, POST message | one thread serves a stream and the posts it depends on | `McpProxy` |
| Run lifecycle (`SDK/run_lifecycle`, `run_dispatch`, `CLI/commands/run_cmd.py`, `runs_cmd.py`) | `.keyhole/state/runs/*.json`; runs at the server | run; runs status, wait, tail, resume | records written in place, old observations written late, lookups by several ids | `RunRecords` |
| Run dispatch, capability cache, context (`SDK/dispatch`, `discovery`, `run_dispatch`, `context_lifecycle`) | cache with a time to live, file of the recent context | run up to its request, context compile, inspect | decisions on a stale or cut snapshot; a session that changes on the way | `RunCommand`, `Dispatch` |
| Repository governance (`repo attach`, `gaps`, `governance-context`) | repo-binding.json, gap-closures; bindings, gaps, claims at the server | seven commands | answers that say neither yes nor no; closing a gap that another closed; several files recorded one after the other | `RepoGovernance`, `Dispatch` |
| Proofs and capabilities (`proof submit`, `receipt verify`, `capability register / create`, `dependency resolve`) | results, receipts, dependencies.yaml, passport | five commands | results rewritten between submission and verification; lists read, extended and written | `ProofChain`, `Dispatch` |
| Declarations (`init vertical`, `passport generate`, `validate`) | four declarations | three commands, the user's edits | eight files written in place one after another, read one after another | `Declarations` |
| Ingestion, registration, alignment | proofs of ingestions | ingest, repo register, align | what is made of ingestions that failed, or were never filed | `Adoption` |
| Doctor | a report and a plan | doctor, doctor launch, auth doctor | probes one after the other of a world that changes; roots told from symptoms | `Doctor` |
| Hosts | settings of editors and their backups; connections at the server | host install, host inspect, connection rebind and invalidate, reconcile | files of others edited in place; verdicts over three sources read at different moments | `Hosts` |
| Account | accounts at the server, onboarding proof | register, verify, status, resend, whoami, deregister | answers that get lost and commands that are run again | `Account` |
| Proof runners (`SDK/smoke`, `demo`, `governance`, `proof`) | what a runner keeps from one run to the next | `run`, `submit_proof` | stale bundles; the checkout moves under the collectors | `ProofRunners` |
| Local runtime (`runtime start / stop / status`, `smoke`) | containers | four commands | reports about containers that others start and stop | `LocalRuntime` |
| Negotiation, budget, explain, direct client, developer surface contract | none | functions of documents, single calls | little | not modelled |

Interaction: CLI commands call SDK components, and nearly all of these reach the server
through `GovernedTransport` or plain `requests`; a bearer token comes from the credential
file. `keyhole run` goes through `RunCommand` up to its request and through `RunRecords`
after it. The commands of a repository share files and the server, nothing else: each is
a process of its own, and none of them takes a lock. The test runtime asks the governance
controller over HTTP. The only callbacks are collectors and adapters of the runners.

What makes each correct:

- *Test runtime*: a digest is realized at most once, only behind the gate; every request
  is answered; the ledger only grows.
- *Transport*: a write is executed at most once however often it is sent; what is
  reported of it is true; a minted key is nobody else's; every call ends in its budget.
- *Flow and first app*: whatever a process leaves behind, a checkpoint holds only ids the
  server granted, recovery takes a run for what it is, steps reach the server in order
  and not again without need, and a flow that is resumed often enough ends with a receipt.
- *Credential file, device authorization, login*: no partial document and no older token
  over a newer one, as far as the code goes (which overlaps spoil them is part of the
  properties); only the active attempt gets a token, and every login ends; a login that
  reports success conflicts with no attestation its guard saw.
- *Proxy*: a message reaches the session it was posted to; a client that connects is
  answered, unless one request keeps the thread for ever.
- *Run records, run command*: an outcome in a record is the server's; a run type was
  served by the server not long ago, a refusal rests on live discovery, and a run with an
  automatic context has one compiled for it and for its principal.
- *Repository governance, proofs*: what is recorded or reported as done has been done, for
  this repository, gap or result, and what was added to a list stays there.
- *Declarations, adoption*: a scaffold reported is whole; what passed can be registered;
  nothing is made of an ingestion that the boundary did not say.
- *Doctor, hosts, account, local runtime, runners*: a report is true of the world at some
  moment of the command; a plan that was followed is not given again; what an owner put
  into a settings file survives; an identity reported as verified or deleted is, where the
  report rests on a word of the server.

## 2. Plan

Everything planned is built; in order of importance: `TestRuntime` (implementing
`RealizationLedger`), `GovernedTransport` (implementing `IdempotentWrite`),
`GovernedFlow`, `CredentialFile`, `RunRecords`, `DeviceAuth`, `Login`, `McpProxy`,
`RepoGovernance`, `ProofChain`, `RunCommand` (with `Dispatch`), `FirstApp`,
`Declarations`, `Adoption`, `Doctor`, `Hosts`, `Account`, `ProofRunners`,
`LocalRuntime`. Each of them is checked by a run and proved about in one of the eight
proof modules (section 5).

What a further step would take, most valuable first:

1. Abstract specifications: an atomic register of grants for `CredentialFile` until two have
   the temporary file at once, and "claim, registration, context, realization in this
   order, possibly repeated" for `GovernedFlow`.
2. Two governed flows at once in one repository (latest.json has no lock).

## 3. Modules

### TestRuntime (`RT/routes.py`, `bridge.py`, `state.py`, `mode.py`)

asyncio interleaves handlers only where they await, so a handler is one step up to the
await and one step after it. `handler[r]` is the program counter and then the answer;
`current_digest`, `realized_digests`, `governance_receipts`, `pointer` are the fields of
`RuntimeState`. Actions: `RefuseUngoverned` (412), `RealizeLocally`,
`RejectMisconfigured`, `AwaitGovernance` (the post to the controller), `Resume`
(everything after a reply, with `ExtractGovernanceReceipt` and its defaults, the evidence
check and `apply_digest`), `GovernanceCheckFails` (timeout, HTTP error, exception).
`ControllerDecides` is external. `RealizationLedger` says what callers are promised; the
refinement maps the ledger to `realized_digests` and HTTP errors to "refused". Abstracted:
the payload, wording of reasons, timestamps; a receipt keeps the fields that decide.

### GovernedTransport (`SDK/transport`)

One logical call, several attempts. `Execute` classifies the operation and mints or
takes a key, `Attempt` sends, `TransportFailure` and the `Receive...` actions are the
branches of the loop in the order of the code, with what each marks in the proof metadata
and raises. Requests stay on the `wire` after the client has given up on them; the
external server executes, replays, refuses with 409, or fails, before or after executing.
`IdempotentWrite` is the promise: at most one effect per identity, a reported success is
one. Abstracted: the durations of waits (each ends), headers other than the key, bodies.

### GovernedFlow (`SDK/governed_flow.py`, `governed_demo.py`, `CLI/commands/governed_flow_cmd.py`)

`cp` is the content of `latest.json`, `file` whether it can be read, `pc` the stage
of the process. An id in the checkpoint is the number of the run that granted it, so the
invariants can ask the server where it came from. Actions follow
`resume_governed_repo_flow`: `Discover`, `Recover` (with every way the saved run may
turn out), the resolution of the gap, its refresh before a claim, the preclaim context,
the claim, registration, compilation, realization (`Submit...`), synchronous and
asynchronous answers (`Accepted...`), their results (`StepSucceeds`, `StepFails`, ...),
and `Interrupted`/`TornWrite` at any point. Every write of the checkpoint is in the action
of the code that writes it. The server runs by itself: `RunEnds`, `RunExpires`.
Abstracted: document contents, redaction, output, the sleep between polls.

### CredentialFile (`SDK/auth_bootstrap/token_refresh.py`, `credential_store.py`, `client.py`, `sdk_client_25/auth_state.py`)

Names point to inodes: `credentials`, `tmp` are the two names, `fd[p]` what a process
has open. So a truncation of a file that another process is about to rename, and a write
through a descriptor after a rename, come out as they do on disk. A grant is a pair of
session and number. Whether the server revokes a refresh token when it is used is its
choice (`rotates`); if it does, it takes only the last of a session. Any command runs beside
any other: in particular a login that reuses the stored session saves it again, without a
lock, beside a refresh of it (client.py:136-148). Three histories say what no code can
promise any more: `collided` (two had credentials.tmp at once), `behind` (a login since whose
start the file was replaced), `spoiled` (sessions whose saves crossed others or were cut
short). Actions:
`LoadExpired`, `RefreshGranted`, `RefreshRefused` (get_fresh_token), `LoginReuses`,
`LoginAnew`, `ReuseConfirmed`, `ReuseFails`, `LoginConfirmed` (login), `Open`, `Write`,
`Replace`, `SaveFails` (saving), `SignOut`, `Revoke`, `Clear` (sign_out), `CutShort` (a
kill or an exception anywhere).

### RunRecords (`SDK/run_lifecycle`, `SDK/run_dispatch/dispatcher.py`, `CLI/commands/run_cmd.py`, `runs_cmd.py`)

A file is named by the run id or, when the acceptance had none, by the request id;
`Loaded` is the store's `load` with its scan, and finds nothing when the file is cut or
garbled. A command holds a record (`doc`) and an observed status (`st`) between its
steps: `FindRecord`/`FindNothing` (step 1 of resume), `Observe`/`ObserveUnrecorded`
(fetch_run_status; an answer may carry an unknown status and omit the run id),
`LoadRecord`/`LoadNothing` and `OpenFile`/`WriteFile`/`GarbleFile` (update_status, save).
`End` is any early end. The request id stands for everything that only `keyhole run`
knew (proof path, mode, submission time, correlation id), so losing it is losing the
lineage. `recorded`, `missed` and `overlapped` are history variables.

### DeviceAuth (`SDK/sdk_client_25/device_flow.py`, `auth_state.py`)

The registry of attempts (`known`, `superseded`, `completed`, the active one) and a poller
thread per attempt with the time it has left, its interval and its failures in a row.
Actions: `Start` (enters the attempt, supersedes the active one), `Poller` (every step of a
polling thread: check, request, reply, sleep), `Complete`, `Cancel`, `CancelAll`
(sign_out), `SetCancelToken`; the person (`Decide`) and the server (`Lapse`) are external.
The server issues a token once, and a token whose reply is lost is spent. Time is counted
in units of the smallest interval; `FairSpec` has weak fairness of each poller, which is a
thread whose requests all have a timeout.

### Login (`CLI/commands/login.py`, `logout.py`, `host_attest.py`, `SDK/auth_bootstrap/client.py`, `pkce.py`, `SDK/host`)

Commands as processes over one keyhole home: credentials, identity in the proof bundle,
attestation, override, and the process that listens on the callback port. `Login` goes
through the steps of the command: who is meant, the flow, verification of the identity,
the save by client.login, the guard of host coherence after it. The guard lets everybody
pass when attestations or policy cannot be read (`AcceptUnseen`, login.py:292-297). How the credential file is
written is the subject of `CredentialFile`; here it is one value. Several hosts are one
attestation, principals with the same display name are one. `Fairness`: a login that was
started goes on.

### McpProxy (`CLI/commands/mcp_proxy_cmd.py`)

One thread (`HTTPServer`), a `backlog` of requests, the stream it relays, the table of
message URLs, which lasts until the daemon is restarted; clients connect, post and leave,
also in the middle of a request. `ProxyFairness` says only that the idle thread accepts who
waits: the upstream stream is read without a timeout (186), and so is the body of a POST
(241), so a request may keep the thread for ever, and `ClientsAreServed` says so (section 6).

### RunCommand, Dispatch (`CLI/commands/run_cmd.py`, `context_cmd.py`, `SDK/dispatch`, `run_dispatch`, `discovery`, `context_lifecycle`)

`Dispatch` has the answers of POST /mcp/v1/runs/start and what the dispatcher makes of one;
three modules extend it. `RunCommand` follows `keyhole run` to the request it sends:
`LoadEnvelope` and `LoadResult` (the cache is read twice), `Fetch`, `OpenCache` and
`WriteCache` (in place, dated at the writing), `CheckRun`, `CheckContext`, `ReadSession`
(once more), `Compile` for `--context auto`, `Dispatch`; and `context compile` and
`inspect` with the file of the recent context (inspect goes to the server with what it was
given, the word auto too). What follows the request is `RunRecords`. A
context is named after the process that had it compiled.

### RepoGovernance (`CLI/commands/repo_attach_cmd.py`, `gaps_cmd.py`, `governance_context_cmd.py`, `SDK/gap_closure.py`, `repo_identity`)

Seven commands as processes over one working copy whose origin the user may change, and a
boundary that does, queues, refuses or answers oddly, and loses answers. A binding is
identified with its remote. Every request is one send, whose retries are
`GovernedTransport`'s. "failed" stands for a reported failure, an exception and a kill.
The origin and the stored binding are read in one step.

### ProofChain (`CLI/commands/proof_cmd.py`, `receipt_cmd.py`, `capability_cmd.py`, `dependency_resolve_cmd.py`, `SDK/capability`)

Submissions, verifications, registrations and additions to the two lists as processes,
while the gate writes results anew, also results that cannot be decoded: `receipt verify`
takes such a one for absent and checks neither its hash nor its invariant. A result is
identified with its hash, a submission with its process. One capability name may occur in the text of another (v1 in v10), which
matters where the code searches text. A server may reject a submission later.

### FirstApp (`SDK/governed_demo.py`)

Three commands and the three files between them, each truncated and then written; two
writers leave a mixture, which is no JSON. An object of the server is identified with the
place of its request in `served`, so that "the context was compiled for the registration of
another process" can be said. A deadline or HTTP error ends a command like a kill.

### Declarations, Adoption (`CLI/commands/init_vertical.py`, `passport_cmd.py`, `validate_cmd.py`, `ingest_cmd.py`, `repo_register_cmd.py`, `align_cmd.py`, `SDK/passport`, `validation`, `ingest`, `registration`, `alignment`)

Of a content only what the commands tell apart is kept: missing, cut, mixed, generated, of
a scaffold, or of a user (nothing to complain of, a warning, invalid); the issues of a
validation are their worst severity. The four declarations that commands read stand for
the scaffold; its directories and READMEs are left out. `Adoption` extends `Declarations`:
an ingestion is identified with its process and known by two ids, and any id may be passed
to a command. It assumes that a boundary that refuses says rejected, error or failed; any
other word counts as success in the code.

### Doctor (`CLI/doctor`, `CLI/commands/doctor.py`, `launch_doctor.py`, `auth_doctor.py`)

What can be probed is a set of conditions. A command probes one after the other
(`Probe`) while they change, reports (`ReportEnvironment`, `ReportChecks`), the user follows
the plan, a set of steps taken in the order of repair, perhaps with other changes in between, and runs it again. The grouping
of failures under roots and the plan are operators over the facts; a call of the library
may have any facts.

### Hosts (`SDK/host`, `doctor`, `connection_identity`, `CLI/commands/host_install.py`, `connection_*.py`)

A settings file is absent, unreadable, or a pair of Keyhole's entry and what its owner put
there. Installations truncate, write and back up; editors connect; rebind and invalidate
ask the server; `reconcile` reads session, inventory and connections in the order in which
its callers gather them. Two places of VS Code stand for five, a user and the user's
profile are one name. An edit is `exposed` while two write or when its backup failed;
JetBrains settings have no backup. The comparison of three layers is the nested conditions
of the code and agrees with a table written from its documentation.

### Account (`SDK/onboarding`, `deregister`, `CLI/commands/register.py`, `verify.py`, `deregister.py`)

Commands of one person, answers of the server reduced to their status and the words that
count, three of the eleven files of the onboarding proof. An answer to `verify` without ids
goes to `get_status` whatever its status (`AsksStatus`), and any 2xx to a removal is an
acceptance, also one with ok false. `told` and `refusal` are histories of these two cases, in
which the client reports what the server has not said. The server is taken at its word
where it refuses with an error status.

### ProofRunners (`SDK/smoke`, `demo`, `governance`, `proof`, `context/client.py`)

One runner object whose `run` may be called twice. Its phases are actions, and the
verification pass is split where it reads the world: `CaptureSource`, then `Collect` for
each collector, then the end of the pass (`VerificationEnds`, `BundleEnds`,
`SubmitProofEnds`). The developer, the server and the token move at any moment; trees and
contract versions are numbered as they come, so "newer" can be said. Adapters answer not
supported, failed or success. `ContextClient` takes any JSON object at 200, 201 or 202 for the
result of a call, refusals with ok false among them (context/client.py:173-198), so a phase
that passed was `answered`, not granted.

### LocalRuntime (`CLI/commands/runtime.py`, `smoke.py`)

Containers are down, starting or up; something else may answer at the endpoint. Commands
probe, call docker compose, poll up to a deadline. Each call may fail or be lost, before or
after its effect, and a command that met a fault remembers it. The verdict of the doctor
inside smoke is arbitrary.

### Modules for TLC

Some MC modules put parts that share no state into one run as the sum of their behaviours:
a variable `part` says which of them moves, and what the others own stays where it began.
That shows each part alone, which is all there is to show, as neither reads what the other
writes. `MCFirstApp`: `TestRuntime` and `FirstApp` (of whose runtime any answer is taken).
`MCGovernedTransport`: `GovernedTransport` and `McpProxy` (which takes any answer of the
credential file). `MCProofChain`: `ProofChain` and `Login`, whose instance is `MCLogin`.
`MCAdoption`: `RunRecords`, `Declarations`, `Adoption`. `MCCredentialFile`:
`CredentialFile`, `Doctor`, `Hosts`, `Account`. `MCRunCommand`: `RunCommand`,
`ProofRunners`, `LocalRuntime`. Where commands are many, scenes say which of them run
together; each scene is a question about a pair that shares a file or a server object.

## 4. Runs

| Run | Shows | Instance and bounds |
|---|---|---|
| `runtime` | every realize request is answered, and the runtime implements the ledger; what the first-app commands send is a chain of what the server granted, and their files are its answers | two requests, two digests, all modes, one reply for each way a handler can end: handlers interact through one digest, so two of them show every race at the await. Three processes (one that registers, one that compiles, and one of either or a run), five requests executed, two context digests, two gaps |
| `transport` | calls end; `IdempotentWrite` is implemented; the proxy's messages reach their session and who connects is answered | two calls, every policy, minted and caller keys, two payloads, one retry: a late first attempt behind a retry, a shared key with another payload. `MCInit` fixes the payload of one call, as nothing tells payloads apart. Two clients, three sessions, three messages, restarts |
| `flow_safety` | no id in a checkpoint that the server did not grant; a process that is not interrupted submits nothing twice | two gaps, four submissions, two interruptions, torn writes, forgotten runs, results flat inside or missing. A claim, its interruption, recovery and a second claim need four runs. `FewTroubles`: after the server has forgotten the saved run at most one interruption is followed |
| `flow_live` | a flow that keeps being resumed gets a receipt | one gap, fifteen submissions, two interruptions, a server that completes what it accepts with whole results |
| `credentials` | four parts: the newest token is kept; failures are attributed, a plan that was followed is not repeated, a verdict is of the world; edits of settings are recoverable, a split identity is told; verified identities were active, deletions are true | two processes, two logins, two grants in a session, one crash, a server that rotates or not, every overlap of commands; `MCFileNext` stops where the file has been open twice and every session is spoiled, of which nothing is claimed (any number of processes and grants is proved). Four doctors, three modes, two runs, one change nobody planned. Four host scenes of three processes, two users, two events. Nine account scenes of two processes, two accounts, two codes |
| `credentials_torn` | refuted: credentials.json is a whole document at every moment | two refreshes of one session, a server that rotates or not, nobody cut short |
| `run_records` | a terminal status in a record is the server's; a scaffold that succeeds is whole, what passes can be registered, guidance and references are of ingestions the boundary answered | two runs, two processes, four commands of which two overlap. Two processes over declarations in five scenes, six initial trees, one of three edits. One ingestion with one registration or alignment |
| `device_auth` | ends of logins are true, only the active attempt gets a token, logins end | two attempts, one with a cancel token; times in units of the smallest interval: code life 1, interval up to 2, two failures in a row |
| `workstation_pkce_ends` | refuted: a login ends | two commands |
| `repo_governance` | the binding file is granted, success is backed, a closure record is evidence, commands end | two processes that may run any of the seven commands, one gap, three remotes (one that only the server knows as the platform), one poll, one change of origin |
| `proof_chain` | a receipt is of the submission it names, what verifies was submitted, what was added stays; a login that reports success is coherent | three processes in three scenes, two invariants, two results, two capabilities of which one occurs in the other's text; beside two submissions the verification names no invariant, beside one its invariant or none. The gate runs where somebody submits, and lists have entries where somebody adds to them, as nobody else reads them. Three commands that log in, attest, refresh or sign out, three principals, one with an incomplete identity; three flows |
| `run_command` | a run type was served, a refusal is live, a run is bound to its context and principal; a passed proof run is of this run, provenance is true; reports of the local runtime are true | two processes in four scenes, four contracts (one of them ambiguous, one with a moved alias), one tick with a time to live of one, one change of contract and of session. Four kinds of runner, two collectors, two runs, two moves of the world. Three shells in four scenes, two polls, two faults |

Deadlock is not checked: in every model the system may come to rest (commands end, all is
answered, the bound on commands, submissions or grants is reached).

Bounds are CONSTANTS or named definitions: `MaxRetries`, `MaxPolls` (the client's own),
`MaxRuns`, `MaxEnds`, `FewTroubles`, `MaxSessions`, `MaxGrants`, `MaxCuts`, `MaxCommands`,
`MaxAttempts`, `MaxPosts`, `MaxServed`, `MaxDigests`, `MaxEdits`, `MaxChanges`, `MaxEvents`,
`MaxAccounts`, `MaxCodes`, `MaxMoves`, `MaxResults`, `MaxTime`, `MaxHealthPolls`,
`MaxFaults`. The proofs hold for every value of the constants among them. Symmetry is used
in runs without liveness, over processes, runs, principals, invariants and providers that
nothing orders.

Properties of reports except what the code cannot know: a command that met a fault, two
writers at once, a death in the middle of a write. Each exception is a history variable of
its module, and says in its comment what happens then; section 6 lists those that matter.

### Fairness

- `TestRuntime`: weak fairness of `Resume \/ GovernanceCheckFails` for each handler. The
  event loop resumes what is ready and `httpx.AsyncClient(timeout=...)` ends each wait
  (bridge.py:175). Nothing is assumed of the controller.
- `GovernedTransport`: weak fairness of sending and of `TransportFailure \/ Receive`:
  the loop goes on and each request has a timeout (client.py:184-190). Nothing is assumed
  of the server or the network.
- `GovernedFlow` (`flow_live` only): the process goes on, an operator resumes ("Common
  Recovery Path" of the guide), and an accepted run ends. The last two are assumptions on
  the environment; without either of them there is no receipt. Interruptions are bounded,
  and the server forgets no run: see section 6 for what happens if it does.
- `DeviceAuth`: weak fairness of each poller, a thread whose requests have a timeout.
- `Login` (`workstation_pkce_ends` only): a login that was started goes on. So the
  counterexample waits in the code, not for a user.
- `McpProxy`: weak fairness of `AcceptConnection`: serve_forever accepts as soon as it is
  idle. Nothing is assumed of what a handler does, as its reads have no timeout.
- `RepoGovernance`: weak fairness of each started command; every call has a timeout and
  every sleep ends. Nothing is assumed of the user or of queued runs.

The other modules state safety only; a process there may stop anywhere.

## 5. Proofs

Everything is proved by tlapm to the last leaf, with the constants' assumptions as only
premises except where stated.

Eight modules hold the proofs. Where a proof module extends several components, they share
no state and their theorems are about specifications of their own (`AppSpec`, `ChainSpec`,
`CommandSpec`, ...).

- `TestRuntimeProofs`: `TypeCorrect`; `RealizationIsIdempotent` (`LedgerAligned`,
  `RealizedOnce`, `AnswersMatchLedger`); `GateHolds`; `RuntimeImplementsLedger`, the
  refinement. `RealizedOnce` is not inductive alone: a second ACCEPT is excluded by the
  ledger only if every ACCEPT has an entry there, so `IInv` joins ledger, answers, gate and
  `HandlerShape` (a handler at the await is in governed mode and has a digest).
  - `FirstApp`: `AppTypeCorrect`, `AppRequestsAreChained`, `AppFilesAreAnswers`. The server
    keeps what it has served, so what a command has read stays an answer; `AppInv` says so
    of every file that is not mixed and of what each command holds where it stands.
  - `ProofChain`: `ReceiptsAreOfSubmissions`, `VerifiedAsSubmitted`, `AddedEntriesStay`.
    What was submitted stays so (`SubmissionsGo`); a receipt that is held or whole on disk
    is of a submission that was judged; and while a list is not `mixed`, at most one
    command stands between its read and its write. A verification says nothing of a result
    that it could not load, which is excepted as in the code.
- `GovernedTransportProofs`: `TypeCorrect`, `AtMostOnce`, `ReportedSuccessIsTrue`,
  `MintedKeysNeverCollide`, `AttemptsAreCounted`, `TransportImplementsIdempotentWrite`.
  `IInv` adds that every request of a call is the one its attempt builds
  (`RequestsAreFixed`), that the store holds a key once and nothing that is still on the
  wire (`StoreIsKeyed`), the budget, and that a reply not yet read tells the truth about
  the store (`RepliesAreTrue`). For the refinement the effects of an identity are counted
  over a finite store, and what a caller sees changes in three places only: where execute
  begins, where the server executes, where execute ends; every other step stutters.
  - `LocalRuntime`: `LocalReportsAreTrue`. A busy command has lived through the state the
    services are in, and every answer, or lack of one, that it met without a fault is of a
    state it has lived through.
  - `ProofRunners`: `PassesAreOfTheirRun`, `ProvenanceStaysTrue`. A result is tied to its
    place in the phases, what a phase said is true of what the runner still holds, and
    nothing the runner holds is newer than the world. What a phase asked was answered in its
    run, which is not to say granted.
- `GovernedFlowProofs`: `TypeCorrect`, `CheckpointsAreBacked`, `RecoveryMatchesStep`,
  `ServerSeesStepsInOrder`, for all commands, outcomes and flags. Recovery stores the
  saved run under the saved step, so `Sound` requires of every checkpoint that can be left
  behind that the two belong together, and `ProcessShape` that a process stands at a stage
  only with what the stage builds on. `StepsAreNotRepeated`, where `dryRun` is not among
  the commands: what was submitted last is in the checkpoint, or a process is at it, or one
  has ended without completing (`CountsHold`), because a step is submitted only while its
  field is empty (`AtWhatIsLacking`) and recovery stores no claim, registration or
  compilation over another (`FilledInOrder`). The premise is needed: a dry run may replace
  the checkpoint (section 6), and then a claim is submitted again.
- `CredentialFileProofs`: `TypeCorrect`, `FileIsWhole`, `WritesAreAtomic`,
  `NewestIsNotLost`, `RefusedIsOvertaken`, for any commands in any overlap and on a server
  that rotates or not. What the code breaks is an exception in the statement, by a history
  that says when: the file is whole, and changes by rename and removal only, until two
  processes have had credentials.tmp at once (that this does cut the file is the run
  `credentials_torn`); and the newest token is kept for the sessions that no crossing of
  saves, no login that saves back what it had loaded before, and no death of a saver has
  spoiled. The argument: who has credentials.tmp alone puts in place what it wrote
  (`OwnFile`, `TmpOwned`); and a process that saves an older grant than another is either a
  login that was overtaken or stood with the other in credentials.tmp, which is when its
  session is entered in `spoiled` (`BehindSpoiled`, `Ahead`, `LoginKept`).
  - `Account`: `VerifiedIsActive`, `DeletedIsGone`. That a deletion is true needs that the
    command knew the identity when it asked, which `AccountInv` carries from there. Excepted,
    by histories, are the reports that rest on no word of the server: a 200 without ids
    whose status cannot be had, and a refusal at 200 that counts as accepted.
  - `Doctor`: `FailuresHaveOneRoot`, `FollowedPlansHelp`, `QuietVerdictsAreTrue`. What a
    followed step repairs holds, and while nothing but the plan changes the world, what was
    probed stays so (`DoctorInv`).
  - `Hosts`: `OwnEditsSurvive`, `SplitsAreTold`. `HostsInv` says where an owner's edit is
    (settings, backup, or an installation's memory), that a connection is one the server
    granted, and what of a report was read while nothing else moved; the last is a history
    of each process (`still`), as one process at rest says nothing of another.
- `RunRecordsProofs`: `TypeCorrect`, `SameRun`, `NotAhead`, `LineageKept`,
  `OverwrittenByOverlapOnly`. Four invariants build on each other: `Typed` (what a command
  holds where it stands), `Faithful` (held outcomes are the server's), `Linked` (until
  `keyhole run` has written the record no other command has touched a file of the run;
  then every command on it holds the lineage), `Undisturbed` (a command that ran alone
  holds what is latest).
  - `Declarations`: `DeclTypeCorrect`, `ScaffoldsAreWhole`. Who is not `beside` another is
    alone (`DeclAlone`), so what it has written is there (`Scaffolds`) and what it has found
    still holds (`Validates`).
  - `Adoption`: `AdoptTypeCorrect`, `CitedAsIngested`, `ValidatedCanRegister`. An ingestion
    that was answered is settled (`Settled`, `Ingests`); what a later command cites is
    settled (`CitesTruly`), and what it read of the declarations is fresh while nobody
    edits them (`ReadsFresh`).
- `DeviceAuthProofs`: `TypeCorrect`, `OnlyOneIsPending`, `DeadlineIsKept`,
  `TokenIsForActive`, `LoginsAreTold`, for any number of logins and whatever the server
  says of intervals and lifetimes. A pending attempt is the active one because every start
  supersedes under the lock; that the deadline is kept rests on the poller's reckoning of
  the time left before each sleep and request.
  - `RunCommand`: `TypesWereServed`, `RefusalsAreLive`, `RunsAreBound`. Unless one was
    stored late, the date of a snapshot is TTL after a tick at which the server had it, and
    what was served at a tick stays so (`HistoryIsTrue`); on this rests what a command holds
    where it stands (`HasLooked`, `HasAsked`, `HasContext`). TTL must not be 0, or even
    a live answer would not be less than TTL old; the code's default is an hour.
- `LoginProofs`: `TypeCorrect`, `OnlyVerifiedCredentials`, `ReportedLoginsAreCoherent`,
  `RecoveredWasAccepted`, and, where the listener of the port can be found,
  `StaleIsNotInTheWay`. A coherent report is no invariant of the files alone: a login may
  be overtaken by an attestation, and its guard may not have been able to read; so the
  invariant keeps who wrote last and whether its guard saw the attestation there is
  (`unaware`).
  - `McpProxy`: `MessagesReachTheirSession`, `OneClientIsStreamed`. A client has at most one
    open request that connects, and an answer to a request of an earlier connection is none
    to the client that has connected again.
- `RepoGovernanceProofs`: `TypeCorrect`, `BindingsAreGranted`, `SuccessesAreBacked`,
  `ClosureRecordsAreEvidence`. What a command may report or write at a place was so at the
  server when it came there, and the server takes nothing back (`Grows`), so it is still so
  when it is written, after any number of polls and whatever other commands do.

The theorems state all the safety properties that the runs check. Besides, without a run of
their own, they state the type invariants of most modules, that a digest is realized once
and a write executed once (`AnswersMatchLedger`, `WriteExecutedOnce`), the truth of reported
successes, the order of the steps at the server, a whole credential file and atomic writes
until two write at once, the lineage of records, and that credentials, pending attempts and recovered
identities are backed.

Only model-checked: liveness (`EveryRequestAnswered`, `CallsEnd`, `FlowEndsWithReceipt`,
`LoginsEnd`, `ClientsAreServed`, `CommandsEnd`), as fairness is out of the prover's reach.
Nothing is proved about `Dispatch`: it is a table of answers.

## 6. Where code and documents disagree

Shown by a run: a PKCE login never ends (`workstation_pkce_ends`). `wait_for_callback`
calls `server.shutdown()`, which waits for a `serve_forever` that is never called, though
its docstring says it returns the code or raises (pkce.py:270 against 237-238). The tests
replace the function.

Shown by a run: credentials.json is torn (`credentials_torn`). All processes write the one
name credentials.tmp before they rename it (token_refresh.py:65-69), so of two refreshes one
renames what the other has just truncated, against "Atomic write (temp-file rename) to avoid
partial-write corruption" and "Thread-safe: concurrent calls are safe" (14-15). With a server
that rotates, two logins do the same.

Met while reading and modelling; the models have the code's side of each.

Transport, flow, records, credentials:

- A 4xx on a retry is reported as NOT_SENT though the first attempt was executed
  (client.py:268 against sdk-client-15.md:428). Headers that a caller passes to `execute`
  are popped inside the retry loop and are missing from every retry (client.py:164).
  Retry-After is used without an upper bound (retry.py:67).
- A require_governed realization passes the evidence check with a verdict and drift
  state the controller never sent (routes.py:112 and 128 against the defaults in
  bridge.py:75), and a reply with ok true and verdict REJECT is realized (bridge.py:181).
- Resuming while the saved claim is still running claims again (governed_flow.py:259
  against sdk-client-17.md:221). A dry run with an asynchronous gap discovery replaces the
  checkpoint (governed_flow.py:580). A saved run that the server has forgotten fails every
  resume in the same place (627). With `--gap-id` a recovered claim may be stored beside
  another gap (133). The context compiled for a claim is filed on recovery as the
  repository's (700). latest.json is written in place (82).
- A login that reuses the stored session saves what it loaded over a newer token
  (client.py:136-148). A refresh in flight during sign-out
  signs the user in again (token_refresh.py:166 against auth_state.py:19-20). A process that
  dies after the server has rotated loses the session.
- A resume that meets a cut record writes a bare one over it (resume.py:106 against
  resume.py:6).

Login, proxy:

- Login persists credentials before it checks host coherence (login.py:248 against
  login.py:12-15 and story sdk-client-23 §F): a blocked or killed login leaves them.
- A guard that cannot read the attestations or the policy accepts the login (login.py:292-297).
- An override policy is never cleared, and one override accepts every conflict (story,
  AC7). The saved hint of a principal is never used: the lookup raises a NameError that is
  swallowed (login.py:37). Two PKCE logins race for one port and the OSError is not caught
  (pkce.py:249).
- The proxy's one thread is held by GET /sse for as long as the stream lives
  (mcp_proxy_cmd.py:290). Neither the stream (186) nor the body of a POST (241) is read with a
  timeout, so one request may starve everybody else.

Dispatch, context, governance, proofs:

- A 200 with ok false is classified as success (dispatcher.py:103, while
  governance_context_cmd.py:109-110 looks at ok). A queued run that failed when polled is
  reported as accepted (governance_context_cmd.py:94 against its comment 424-425).
- The binding id of another origin is used after the origin has changed, and attach reports
  success without a binding on ACCEPTED. `gaps close` lets exceptions of requests and of the
  repository identity through, and a closure whose answer was lost can never be recorded.
- An OSError while live capabilities are cached discards them, and the name that the server
  has just confirmed is refused (run_cmd.py:290 against cache.py:8, "Live discovery is
  authoritative"). The table of known mistakes is changed through a shallow copy
  (validator.py:200). After a sign-out in between, a run with an explicit context is sent
  without a token (preflight.py:63).
- A compilation that is accepted, queued or answered ok false without a digest counts as a
  success of `context compile`; inspect falls back to the digest asked for.
- A receipt says ACCEPTED for a submission that is queued or has no verdict
  (proof_cmd.py:262); registration accepts a receipt of any capability (docstring of
  capability_cmd.py, "No verified governed receipt, no registration"); verification skips
  the hash when the server does not echo it (receipt_cmd.py:196-202), and hash and invariant
  when the result cannot be decoded (43-46).
- An unknown status at 200 is a resolved dependency with provider "" (resolver.py:112-125
  against "Fail-closed", 30). An entry counts as present when capability and provider are
  found in different entries, or within a longer name (materializer.py:178,
  capability_cmd.py:316). Of two writers of dependencies.yaml or the passport one loses its
  entry.

First app, declarations, adoption:

- A receipt's governance_context_id is not compared with the one sent; the gate over
  declared invariants falls back to the first local one; a cut state file raises a
  JSONDecodeError that no command catches; a rerun after a lost answer repeats a claim,
  registration or realization under a new key.
- `init` looks only at keyhole.yaml, the seventh of eight files: a second init, also under
  another name, completes what a killed one has left and skips its cut files; a kill while
  keyhole.yaml is written leaves "Already initialized".
- A fresh scaffold, and a generated passport, are rejected by `keyhole validate`.
  "native_ready" means two different things in validate and in register.
- `repo register --from-ingest` looks under another id than the proofs are filed under, and
  not found is still INGESTION_READY (readiness.py:171). Neither that the ingestion is of
  this repository nor that it succeeded is checked. "replayed" and unknown words are
  successes. A YAML list raises an uncaught ValidationError.
- `align` truncates and sanitises ids differently and files two alignments in one
  directory; its readiness RUN_READY needs a gap besides no issues (ranker.py:112).
- The scanner prunes a directory by any pattern that matches it, and with it files that
  classification would include.

Doctor, hosts, account:

- A governed run with a config and without --runtime-url plans "keyhole runtime start" however
  often that is followed (facts.py). Creating the MCP config turns auto into governed, and
  may turn ACCEPT into REJECT. `--mode host_inventory` runs no inventory; `--fix`, `--host`,
  `--profile` are ignored; macOS is in the list of platforms and refused.
- The installer and the inventory look at the places of VS Code in opposite orders
  (installer.py:56, host_inventory.py:48): with both, an installed entry is not seen. A cut
  settings file is reported as not configured. JetBrains settings have no backup. A split
  identity is not seen when the file that is read has no entry (INV-SDK-CLIENT-01-C-001).
  With default detectors the summary is never better than DEGRADED. No command calls
  `reconcile`.
- Rebind passes the acting user's id as the target and verifies against it; an unknown word
  at 200 is accepted; invalidate never verifies (INV-SDK-CLIENT-01-C-004).
- register defaults to realm kh-dev and deregister to kh-prod (cli.py:404, 505): "Already
  deleted" while the account lives, and also for an id that never existed. Verify reports
  success whatever state the answer names, and "verified_active" does not suggest a login
  (verify.py:125). A 200 without ids is taken for "already verified", and when the status cannot
  be had it is reported verified_active (onboarding/client.py:120-137). A removal refused with
  ok false at 200 is reported as accepted (deregister/client.py:156-163). A registration id is lost with its answer. Local credentials survive a
  deregistration.

Runners, local runtime:

- demo runs its collectors twice, so that the outputs it reports and the bundle it hands
  over can disagree, and it passes with a failing bundle ("assemble proof bundle from
  results", demo/runner.py:12). A whoami body that is no object raises in demo and not in
  smoke.
- governance submits the bundle of the run before when verification raises; adapters that
  fail count as scaffolded, so LAUNCH-READY can be said over them, and its promotion is
  always scaffolded, so SUCCESS cannot be reached. A local run emits
  "context.compile.resolved". A bundle's "Git commit SHA at the time of proof assembly" is
  read before the collectors.
- ContextClient takes ok false or status rejected at 200, 201 or 202 for success
  (context/client.py:173-198), so smoke, demo and governance pass on phases that were refused.
- ContextClient leaves its Authorization header on the shared session: a second run's
  discovery is authenticated.
- `runtime stop` says "already stopped" when docker compose ps fails, and "stopped" while
  something else serves the endpoint; a timeout of docker is not caught (TimeoutExpired).

## 7. Not modelled

- The server's own governance, and its guarantees beyond the idempotency contract.
- Durations other than those of `DeviceAuth` and the time to live of the cache: backoff,
  Retry-After and deadlines are "some time".
- Two governed flows at once in one repository, and a restart of the test runtime, which
  loses its state by design.
- Document formats, redaction, rendering, exit codes, the grammar of names, the schemas of
  parameters (they only warn when there are none); proof files that nothing reads.
- Negotiation, budget, explain and the shared contract package: functions from documents to
  documents, or constants. The direct runtime client: single calls without retries, whose
  server side is `TestRuntime`.
- Of modelled components what the notes in `PROJECT.json` name: the advisory sections of the
  doctor, eight files of the onboarding proof, three places of VS Code, the branch beside
  the commit, suggestions for mistyped names.
- `cli.py` and the `__init__` modules: argument parsing and exports.
