# Verification of premiere-pro-full-mcp

TLA+ models of the bridge between an MCP server and Adobe Premiere Pro, the TLC
runs that check them, and theorems checked by TLAPS. Paths below are relative to
the repository root.

## The system

| Component | Source | State it keeps | Operations | What makes it correct |
|---|---|---|---|---|
| Operation coordinator | `src/operations/coordinator.ts` | `#active`, `#unknown`, `#usedOperationIds`, `#terminalResults`, `#loaded`, the mutation lease and the CEP lease | load, begin, execute, end, acknowledge, status, compare | one mutation at a time in the host; an outcome that is not known blocks later mutations until a human acknowledges it; nothing is forgotten over a crash; every call comes back |
| Operation ledger | `src/operations/ledger.ts` | a JSON-lines file, a promise chain for appends | append, readEntries, unresolvedUnknown, operationIds | append order is file order; a torn last line loses that entry and nothing else |
| CEP relay | `src/bridge/ws-host.ts` (`WsHost`) | the panel's socket and session, `#pending`, `#late`, `#cepTail`, `#activeWireOperations`, readiness and reconciliation records | message dispatch, adopt panel, relay response, socket close, snapshots, recovery | each request is answered once; answers of an old panel never settle a new request; an operation whose owner is gone is ended |
| UXP bridge host | `src/bridge/uxp-host.ts` | panel socket, session, `#pending` | hello/connect handshake, dispatch, response, close | a command is settled exactly once, and by its own session |
| Bridge client | `src/bridge/ws-client.ts` | socket, `#connecting`, `#pending` | open, request, message, close | a request is settled once; unknown outcomes are marked as such |
| MCP server | `src/server.ts` (`runTool`) | per-call operation context | begin, run the tool, end | every operation that was begun is ended, and UNKNOWN when it has to be |
| CEP panel | `cep-plugin/main.ws.js` | socket, retry timer | connect, retry, execute, probe | one answer per request, then at most one late completion |
| UXP panel | `uxp-plugin/main.cjs` | socket, session id, reconnect timer, handle table | connect, reconnect, command | one live connection; handles live as long as the session |
| Tool policy | `src/operations/tool-policy.ts` | none | classification and limits | pure |
| Daemon start, installers, packaging | `src/daemon.ts`, `src/auto-start.ts`, `scripts/` | pid and endpoint files | start, discover | I/O |
| Vendored | `vendor/upstream`, `cep-plugin/CSInterface.js` | – | script text | third-party |

How they interact: an MCP tool call (`runTool`) sends `begin_operation` over a
WebSocket to the daemon's relay, which asks the coordinator. For a mutation the
coordinator records QUEUED in the ledger, waits for the mutation lease, has the
relay take a preflight snapshot of the project, records RUNNING and answers. The
tool then sends CEP (`execute`) and UXP sub-requests, which the relay passes
through `OperationCoordinator.execute`; a CEP one holds the CEP lease and then
takes its turn in the relay's own queue to the panel. The tool ends with
`end_operation`; the coordinator takes a postflight snapshot and records the
terminal status. A lost socket, a timeout or a crash turns a mutation UNKNOWN:
it then keeps the mutation lease, and `begin` refuses mutations, until
`acknowledge_recovery` matches the fingerprint of the current project.

Hard behaviours: everything between two `await`s is atomic and everything else
interleaves; timers race answers; an executor is not stopped by its timer;
several parties end the same operation; the daemon restarts while Premiere still
runs a script; an append to the ledger fails. `PROJECT.json` lists them as
hazards, each at its line.

## Modules

| Module | Models |
|---|---|
| `DeadlineMutex` | class `DeadlineMutex`: `Acquire`, `Expire` (a waiter's timer), `Release`, as operators on a value `[holder, waiters]` |
| `OperationCoordinator` | class `OperationCoordinator`, the ledger as the latest durable status per operation, and the order in which the relay's dispatchers validate, verify and send |
| `QuarantinedMutation` | abstract specification: the life of each mutation, and when a mutation may start executing |
| `CoordinatorInvariant` | the inductive invariants `IInv` and, when appends may fail, `FailureInv` |
| `MCOperationCoordinator` | instances for TLC, with the symmetry sets |
| `OperationLedger` | class `OperationLedger`: the file, the append chain, reading and truncation |
| `CepRelay` | class `WsHost` towards the CEP panel (adoption, queue, pending and late requests, readiness) together with the panel, `cep-plugin/main.ws.js` |
| `Session` | `runTool`, class `BridgeClient`, and the wire operations and recovery of `WsHost` |
| `UxpOperations` | the operations of the UXP panel: what each needs, changes and checks, and what it answers |
| `UxpBridge` | `dispatchUxp`, class `UxpBridgeHost`, the connection, handle table and commands of `uxp-plugin/main.cjs`, and Premiere's timeline |
| `MCUxpBridge` | scenarios of `UxpBridge` for TLC |
| `DeadlineMutexProofs` | lemmas on the mutex operators, for queues of any length |
| `OperationCoordinatorProofs` | types of the coordinator; `FailureInv` is inductive, and what follows from it |
| `CoordinatorSafetyProofs` | `IInv` is inductive, and what follows from it |
| `CoordinatorPromiseProofs` | the coordinator implements `QuarantinedMutation` |
| `CepRelayProofs` | `RelayInv` is inductive, and what follows from it |
| `OperationLedgerProofs` | `LedgerInv` is inductive, and what follows from it |
| `SessionProofs` | the session's `IInv` is inductive, and what follows from it |
| `UxpBridgeProofs` | the bridge's `IInv`, `LinkInv` and counters are inductive, and what follows from them |

The modules meet at their borders: an operation of `Session` is one of
`OperationCoordinator` reduced to its status; a script of `Session` is an `Executes`
job of `CepRelay`; a call of `UxpBridge` is a sub-request the coordinator let
through. Each module leaves to the other what it does not model as a choice that
may go either way (`Session`: `BeginRefused` or `Begun`; `CepRelay`: `DispatchExecute`
may be refused).

### OperationCoordinator: state and steps

A step is what the daemon's thread runs between two awaits. The program counter
of each asynchronous call is a variable:

| Variable | Code |
|---|---|
| `ledger[o]` | the status of the last line for `o` in the file; the only thing that survives `Crash` |
| `loaded`, `load[l]`, `stale[l]` | `#loaded`; a caller inside `#load`, and the entries it has still to promote |
| `used`, `unknown`, `active` | `#usedOperationIds`, the keys of `#unknown` and of `#active` |
| `begin[o]` | `beginOperation`: `queuing` (append QUEUED), `acquiring` (lease and preflight), `recording` (append RUNNING), `begun`, `failing` (append FAILED), `refused` |
| `fin[o]` | `active.finalization` and `#terminalResults`: `open`, `postflight`, `recording` (append), `registering` (the read of the ledger after UNKNOWN), `done`, `broken` (the append was rejected and the rejected promise is kept) |
| `acking` | `acknowledgeUnknown` waiting for its append |
| `mutation`, `cep`, `parked[o]` | the two leases; `active.deferredReleases` |
| `call[r]`, `exec[r]`, `opOf[r]` | `execute` for sub-request `r`; what its executor has got to (`preparing`: verifying the target or waiting in the relay's queue; `dispatched`: sent); its operation |

`LoadStart` … `LoadFinish` are `#load`; `BeginOperation`, `RecordQueued`,
`BeginLeaseExpires`, `Preflight`, `RecordRunning`, `RecordRefusal`, `BeginAgain`
are `beginOperation`; `EndOperation`, `Postflight`, `RecordTerminal`,
`RegisterUnknown` are `endOperation` and `#finalizeOperation`; `Execute`,
`CepLeaseExpires`, `StartExecutor`, `UxpChecked`, `Dispatch`,
`ExecutionSettles`, `ExecutionTimesOut`, `LateExecution` are `execute` with the
executors of `#dispatchExecute` and `#dispatchUxp`; `AcknowledgeUnknown`,
`RecordAcknowledged` are `acknowledgeUnknown`; `Crash` is the end of the process
and a new start.

Assumptions on the environment:

- The owner of an operation sends sub-requests after its begin has come back
  (`OwnerMaySend`; `runTool`, `src/server.ts` 326–354).
- `HonestOwners`, a constant: the owner reports SUCCEEDED or FAILED only when no
  sub-request is under way in the daemon, and sends none afterwards; an owner that gave up
  on one reports UNKNOWN (`errorOutcome` in `src/server.ts`). `endOperation` does not check
  it, and `media_batch_relink` breaks it (finding 5). Only `NoOverlappingMutations` needs it
  (with FALSE, TLC finds it violated):
  it is TRUE in `coordinator_safety` and in the coordinator's violation runs, whose counterexamples
  do not rest on a dishonest owner, and FALSE in the other runs. The
  relay can end an operation UNKNOWN at any time (`#finalizeOrphanOperation`).
- One call of `beginOperation` at a time for each operation id: a retry comes after the
  first call was refused (`BeginAgain`). The code also answers a second call while
  the first one waits for RUNNING to be recorded.
- Acknowledgements carry the right fingerprint; whether a human should have
  given one is outside the model. `NoOverlappingMutations` says so: an
  acknowledged outcome ends the promise for that operation.
- Scripts already sent survive a crash of the daemon, because Premiere runs them.
- The order in which `#load` promotes entries is left open.

Abstracted: payloads, tool policy, fingerprints, the text of errors (a failure is
known or unknown, chosen freely where the code decides by the error's text).

### OperationLedger: state and steps

`lines` is what `raw.split("\n")` makes of the file: the last element follows the last
newline. A line is the sequence of pieces written to it, so that two entries on one
line and an entry after a torn piece can be told from an entry: `e` is entry `e`, `-e` the
beginning of it. `outcome` is how far each append has come; those that have not settled, in their
order, are the chain of `#tail`. `AppendEntry` is the call of `append`; `OpenFile`,
`WriteFile` (whole, or first a part), `WriteRest`, `SyncFile` are the steps of its `write`,
any of which may reject (`WriteFails`). `ReadEntries` is the call, `ReadFile` the continuation
after `await this.#tail` with the parse loop, `Truncate` the cut; they interleave with the
write of an append that was called after the read, as coordinator.ts:273 lets them. The cut goes to
the place the reader has computed, whatever the file has become meanwhile (`TruncateAt`,
`Remains`). `Crash` leaves what has landed. `cut` is a history variable: the entries a
truncation has damaged although the read it belongs to was called before their append.

### CepRelay: state and steps

| Variable | Code |
|---|---|
| `conn`, `inbox` | a connection of the panel, as its own side (`closing`) and then the daemon (`closed`) see it; messages to the daemon, in order |
| `cepSocket` | `#cepSocket`; connections are numbered, so that it also stands for `#hostSession` |
| `queue`, `stage` | the promises chained in `#cepTail`; where each job is |
| `pending`, `late` | the socket of the entry in `#pending`, and in `#late` |
| `result`, `reported` | the first answer of the caller; whether a late completion was passed on |
| `readiness` | `#domReadiness` with the session it is of |
| `script`, `ran` | the request in the panel, and the socket it came over (`ownerSocket`) |

`DispatchExecute`, `CaptureSnapshot`, `DispatchDomReadinessProbe` enqueue; `TakeTurn` is the
start of a turn in `#withCepQueue` or `#withCepQueueBudget` (`SkipTurn` when the budget is
over) with `#executeCep` and `#reservePending`; `BudgetExpires`, `PendingTimeout`,
`LateExpires` are timers; `AdoptCep`, `RelayResponse`, `RelayLateCompletion`,
`HandleSocketClose` the handlers. `Settle` is the settlement of a pending entry with the
`finally` blocks it sets off: the turn ends in the same step, because nothing else can
run between the promise's settlement and its continuations. `Connect`, `PanelCloses`,
`EvalReturns`, `EvalTimesOut`, `EvalReturnsLate` are the panel. A request is sent and
arrives in one step: the panel takes it at once or never answers. Premiere's
callback may never come.

### Session: state and steps

`conn`, `ws`, `connecting` are the client's connections, `#ws` and `#connecting`; `link` the
same connections in the daemon. `step` and `wait` say where `runTool` is and which request
it waits for, `requests` counts a call's requests (the count is the `requestId`),
`verdict` is the status it reports, `outcome` what its caller gets. `op`, `source`, `script`
are the daemon's view of an operation, the connection in `#activeWireOperations`, and
whether its script may still start or run. `reconciliation` and `refreshing` are
`#reconciliation` and the list `#refreshReconnectStatus` works through.
`Fails` gathers what a rejected request does to every kind of call. `Finalized` is the
end of an operation that reports success: a postflight snapshot that fails makes a mutation
UNKNOWN, and `runTool` returns its success all the same. `Batches` are the calls of
`media_batch_relink`, whose failures lose their code (`Uncoded`). `refreshing` has a list for each
refresh that is under way, since `#adoptCep` starts one for every adoption without
waiting for the last; TLC has one (two take longer than five minutes), the theorem
`SessionReports` covers any number. `TakeEnd` is one step: the awaits of `endOperation`
are in `OperationCoordinator`. Assumed: one
script per call, so that a batch is one relink; a connection attempt is refused only when the daemon has no open
link; the five-minute timer of an end fires only after the request has arrived over a
connection that the daemon still has (`RequestTimer`): a loopback connection delivers, or the
client sees that it is lost, long before. `overlapped` is a history variable: the client has opened a
connection while it had another.

### UxpBridge: state and steps

`call` is `dispatchUxp` of a tool call: `locate` (the CEP script that finds the clip's
coordinates), `find`, `edit`. `current`, `pending`, `hostSide` are the host's `#socket`,
`#pending` and connections; `panelSide`, `sock`, `session`, `authenticated`, `connects`, `identity`,
`timers`, `timer`, `reshow` the connection variables of the panel, one action per callback.
`exec` is `handleCommand` of each command: reading the key, capturing the context,
checking, calling Premiere, reading back. `handles`, `issued`, `loads` are the handle table, `handleCounter`
and the session prefix, which changes with every load of the panel. `track`, `active`,
`itemState` are Premiere; `UserEdits` changes them.

`UxpOperations` describes the twenty-five kinds of operation by what tells them apart when
something goes wrong. The tool routes of `src/server.ts` use nine of them; the others are
reachable through the client's `uxp` request and are modelled alike. Abstracted: argument
checks (`Refuse`, at any point before Premiere is called), `expectedRevision` (no route
sends it), event subscriptions, page offsets, the expiry of a handle by time (the same
as its eviction). The host's failing `ws.send` settles like a close. That both ends compute the same
proof from the shared key is assumed.

## Runs

Constants of the coordinator's runs: `Ops` are operation ids, `Mutations` those that mutate (`m1`, `m2`),
the others (`d1`) read; `Requests` are sub-requests, `c1`, `c2` over CEP, `u1`
over UXP. `MaxCrashes` and `MaxAppendFailures` bound the only unbounded counters.
Deadlock checking is off in all runs: the models stop when every operation is over
and no crash, connection or fault is left.

| Run | Instance | Shows |
|---|---|---|
| `coordinator_safety` | 2 mutations, 3 requests, 2 crashes, honest owners | `NoOverlappingMutations`, `QuarantineExcludesMutation`, `NoForgottenMutation`, `NoLeaseLost`, `TerminalOutcomeIsFinal`, `OnlyCrashLeftPromoted` (with one caller of `#load`), the inductive invariant `IInv`, and `KeepsPromise`, the refinement of `QuarantinedMutation` |
| `coordinator_append_failures` | 2 mutations, 1 read, 2 requests, 1 crash, 1 failing append, any owners | `TypeOK`, `NoLostWaiter`, `QuarantineIsDurable`, `LoadLeavesNothing` survive a failing append; the inductive invariant `FailureInv` |
| `coordinator_liveness` | 2 mutations, 2 requests, 1 crash, any owners, `FairSpec` | `BeginSettles`, `EndSettles`, `RequestSettles` |
| `ledger_file` | 3 appends, 2 readers, 1 failing write, 1 crash | `DurableStays`, `ReadIsComplete`, `ReadInOrder`, `AppendSettles`, `ReadSettles` |
| `cep_relay` | a script, a snapshot with a budget, a probe, 2 connections | `PendingOnCurrentPanel`, `OneAtATime`, `StreakOfThisPanel`, `LateFollowsOpenAnswer`, `QueueMovesOn` |
| `session` | a mutation that is no batch, a recovery tool, 2 connections, 1 refresh at a time | `HonestOutcome`, `SuccessIsNotFailure`, `ActiveIsOwned`, `ReportedIsUnresolved`, `CallReturns` |
| `uxp_bridge` | 2 calls, 2 connections, a handle table of 1; four scenarios | `PendingOnCurrentSocket`, `ConnectedPanelIsCurrent`, `FailedEditedNothing`, `EditsWhatWasFound` |
| `cep_lease_leak` | violation | `CepLeaseReturned` is false |
| `dispatch_without_lease` | violation | `DispatchHoldsLease` is false |
| `concurrent_load` | violation, 2 callers of `#load` | `OnlyCrashLeftPromoted` is false |
| `overlap_after_append_failure` | violation, 1 failing append | `NoOverlappingMutations` needs the ledger to accept its appends |
| `batch_outcome_lost` | violation, a batch of one relink | `TimedOutIsUnknown` is false |

Why these bounds. The coordinator: every property is about one operation or a pair; two mutations
and two requests for one lease put a waiter behind a holder, two crashes let a
crash interrupt the recovery from a crash, and one failing append meets every
append of the model. Longer queues are covered by the lemmas of
`DeadlineMutexProofs`. Symmetry is used in safety runs only: mutations, reads
and the requests of one backend are interchangeable. The ledger: a torn line needs a
crash or a failing write, one that is glued to it another append, and what follows it a third;
two readers find the same torn end and both cut it off, before and after it has been
written on; the proofs cover every number of each. The relay: two connections are one replacement
or one loss with a return; one job of each kind is enough for a queue of three
with an expired turn in the middle, and the proofs cover the rest. The session: a
close event that comes late needs two connections; the recovery tool meets the
mutation in every state. The UXP bridge: each fault meets every operation
alone; a table of one handle makes every second find step an eviction; its four
scenarios are initial states, because the combination of all is too large, and only the one
with faults of the connection starts at the load of the panel (`connected = FALSE`).

The passing runs have one caller of `#load` (`Loaders = {a}`): with two the
coordinator misbehaves, which is what `concurrent_load` shows.

Fairness. The coordinator (`FairSpec`): weak fairness of the continuation of each call that has
started, per operation and per request. It is what the code provides: the event
loop runs what is ready, an append completes or rejects, snapshots have a budget
(`#snapshotBudgetMs`), and every wait for a lease and every execution has a
timer. Nothing is assumed of callers, of a human's acknowledgement, of Premiere
(an execution ends by its timer) or of crashes. The ledger: file operations complete
or reject. The relay: the promise chain of the queue goes on and the timers of pending requests fire; nothing
of the panel. The session: `runTool` goes on, request timers fire, a connection
attempt ends, and the daemon takes the messages of a connection that stays open; nothing of the coordinator or of
Premiere. `UxpBridge` has no liveness property: `dispatch` settles by its timer,
and that is all a liveness property could say.

### Findings

1. `cep_lease_leak`: `execute` parks the CEP lease of a failed sub-request in
   `deferredReleases` (coordinator.ts:329) also when the finalization that
   empties it is already over. Reads then run into their queue deadlines until
   the outcome is acknowledged, against the comment at coordinator.ts:275–276.
2. `dispatch_without_lease`: an executor that waits for its target snapshot or
   for the CEP queue is not stopped by its timer (ws-host.ts:568–571) and can
   send a mutation after the acknowledgement has released the lease
   (README.md:32–33 of the repository).
3. `concurrent_load`: `#load` is re-entrant (coordinator.ts:150–163), and its
   second caller can promote an operation that was just begun.
4. `overlap_after_append_failure`: a failing append of RUNNING leaves the
   operation in `#active` without its lease (coordinator.ts:230–238). A similar
   loss follows a failing append of a terminal status: the rejected
   `finalization` is kept and the lease is never released.
5. `batch_outcome_lost`: `media_batch_relink` returns a failure without the `code` and
   `outcomeUnknown` of its relinks (server.ts:711–729), so that `operationFailure` sees
   `TOOL_FAILED` and `runTool` ends the operation FAILED after the client's timer or a lost
   connection, while the script may still run. README.md:30–31 of the repository says that
   timed-out mutations are recorded as `UNKNOWN`.

Found while modelling, without a run of their own:

- Ledger: when the torn line is the only line, the truncation leaves an empty file,
  and the next `readEntries` refuses it ("Invalid blank operation ledger line 1",
  ledger.ts:96); a crash between `open` and `writeFile` of the first append does the same.
  A last line that is complete but for its newline is kept as an entry, the next
  append is glued to it, and the ledger is corrupt from then on. In `OperationLedger`
  every read of it is refused (`Corrupt`). If the append that is glued to it is torn too, the truncation
  takes both, and an entry that an earlier read returned is gone; its append was never
  reported durable.
- Ledger: a read that was called before an append may see a part of the line that is being
  written, take it for a torn end, and truncate there after the entry was reported durable
  (ledger.ts:104–109; the read after an UNKNOWN end, coordinator.ts:273, runs beside
  the appends of other operations). Without the exception `cut`, TLC finds `DurableStays`
  violated in nine states, and a later read that lacks an entry in fifteen. No
  comment or doc of the repository speaks of reads beside appends.
- Routes of clips: when `resolveNodeIdInSequence` does not find the clip, the route sends
  `clipIndex: args.clip_index ?? 0` (server.ts:1014 and the other clip routes), and the panel
  takes the first clip of the track; the comment at server.ts:1076–1077 says "the caller
  then lets the UXP find step return an honest error or falls back to CEP". A single call shows
  it, so it has no run.
- Bridge client: the close event of an old connection rejects requests pending on a
  newer one, and clears its `#connecting`, so that a third connection can be opened
  beside the second (ws-client.ts:82–90). Then the begin of an operation may have gone over
  one and its end over the other; when the end is lost, the operation stays active, with the lease,
  as long as the first stays open. `ActiveIsOwned` has the exception
  (`overlapped`); the two connections of `session` cannot show it, TLC finds it with three
  and a second local tool.
  `HonestOutcome` and `CallReturns` hold all the same.
- Bridge client: if the timer of an end fired before the client saw its connection close, a
  plain error would be reported where the close leaves the status open
  (ws-client.ts:126–135, 83–92), and a mutation ended UNKNOWN could be ended FAILED.
  The guard of `RequestTimer` excludes that order; without it TLC finds
  `HonestOutcome` violated with three connections.
- Relay: after the daemon's timer a panel's ordinary response is dropped although a
  late completion is awaited; only a `late_completion` message is passed on.
- Relay: when a comparison of `#refreshReconnectStatus` fails, `FAILED` is recorded also for
  operations that were acknowledged meanwhile (ws-host.ts:868); for that reason
  `ReportedIsUnresolved` speaks of `PENDING` and of comparisons only.
- Session: a begin that the client has given up may succeed in the daemon; the operation then
  holds the lease until its connection closes (`begin_lost` in `ActiveIsOwned`).
- `runTool`: when the first end is refused or lost, the second one takes its status from
  that failure, not from the tool's result (server.ts:350–352).
- UXP panel: trim, effect, transition, move and remove report "verified" without reading
  the timeline back; operations without the dispatch flag report `not_dispatched`
  after an edit when a later await throws. `FailedEditedNothing` is therefore about the
  operations with the flag. And "verified" of one that reads back says that the state
  asked for is there, not that the call made it: a track that was muted before, a
  path that was linked before, or a file that was there before compare as well
  (main.cjs:714, 733, 762, 1169). No property says what a success has changed.
- UXP panel: `connect` awaits the identity between closing the old socket and creating
  the new one, so that two sockets can be created when the panel loads (main.js:27–29 says
  it never does); the host keeps the last one, and `ConnectedPanelIsCurrent` holds.
- UXP panel: a refused handle is reported with the word "unknown", which the server
  reads as an unknown outcome; `project.checkpoint` is always refused over
  `UxpBridgeHost`, which sends neither `planHash` nor `routeBinding`.

## Proofs

TLAPS checks the theorems below for every value of the constants: any number of
operations, sub-requests, callers and crashes, queues of any length.

`DeadlineMutexProofs` states what the mutex operators return: types, FIFO
well-formedness (`IsFifo`), and how each operator changes the holder and the set
of waiters. The other proofs cite these lemmas and never look into a queue.

`OperationCoordinatorProofs`: `TypeCorrect`, `Spec => []TypeOK`, with no assumption
beyond the named assumptions on the constants; appends may fail and several callers
may be inside `#load`. The other theorems of the module let appends fail too, but assume
`SerialLoad` (one caller of `#load` at a time).

| Theorem | Says |
|---|---|
| `FailureInvariance` | `FailureInv` is an invariant |
| `WaitersKept` | `[]NoLostWaiter`, for both leases |
| `LoadIsComplete` | `[]LoadLeavesNothing` |
| `QuarantineDurable` | `[]QuarantineIsDurable` |
| `PromotesOnlyCrashLeft` | `OnlyCrashLeftPromoted`, which `concurrent_load` refutes without `SerialLoad` |

The argument. `NoLostWaiter` says of each caller whether it is in the queue; inductive is
what a mutex says of all of them, `Queued(m, S)`: those who want it, except its holder, are
in the queue, once each. `MutationWait` has it for the begin calls, `CepWait` for the
sub-requests; the lemmas `QueuedAcquire`, `QueuedExpire`, `QueuedRelease` say what a step
on the mutex does to `S`. That a lease is asked for by nobody who has it already needs the
stage of the holder; that a parked request does not wait needs that it was answered. `CallOf`
keeps the durable status of an operation of this process apart from UNKNOWN until its end is
recorded, so that what is recorded next cannot undo an entry of the quarantine, and an
acknowledgement never meets a begin call that is waiting.

`CoordinatorSafetyProofs` and `CoordinatorPromiseProofs` assume `SerialLoad` and
`ReliableLedger` (no append fails). Both are needed:
`concurrent_load` and `overlap_after_append_failure` are the counterexamples without
them. `NoOverlap` also assumes `HonestOwners`; the others do not.

| Theorem | Says |
|---|---|
| `Invariance` | `IInv` is an invariant |
| `NoOverlap` | `[]NoOverlappingMutations` |
| `QuarantineExcludes` | `[]QuarantineExcludesMutation` |
| `NoneForgotten` | `[]NoForgottenMutation` |
| `LeaseNeverLost` | `[]NoLeaseLost` |
| `OutcomeIsFinal` | `TerminalOutcomeIsFinal` |
| `PromiseKept` | `KeepsPromise`: the coordinator implements `QuarantinedMutation` |

The argument. `NoOverlappingMutations` is not inductive by itself: it says nothing
of a sub-request that is about to be sent. `IInv` adds what makes that safe.

- `RequestState`: with honest owners, a sub-request that the host may still carry out belongs to an
  operation that is in `#active` and can only end UNKNOWN, or is a script that a
  crash left behind, whose ledger entry is then RUNNING or UNKNOWN. Here it matters
  that a timed-out call of a mutation starts the UNKNOWN finalization in the same step.
- `LeaseState`: a mutation in `#active` has the lease.
- `QuarantineState`: while the lease is held nothing else is unresolved, and while
  something is unresolved and the lease is free nobody is on the way to it; that is
  why the check at the start of `beginOperation` is enough, although the lease is
  granted long after it.
- `LoadState`, `BeginState`, `FinState` tie the ledger to the stage of each call, so
  that what `#load` finds after a crash is what was live before it.

Together (`LiveMutationIsAlone`): when a sub-request of a live mutation is sent, any
other script in the host belongs to a live mutation (which would have the same
lease), to a crash-left one (which is in the quarantine, and the quarantine is
empty but for the holder), or to an acknowledged one.

`PromiseKept` goes step by step: `PhaseMeaning` reads `Phase` off the state under
`IInv`; one lemma per step of `QuarantinedMutation` recognises it by the phases it
changes (`AcceptSeen`, `LeaveSeen`, ...); `ReleaseGrants` shows that giving the lease
back lets at most one pending mutation through. Every other step leaves the phases
alone.

`CepRelayProofs` proves the relay safe with no assumption beyond `RelayAssumption`: any
number of jobs of each kind, any number of connections.

| Theorem | Says |
|---|---|
| `RelayInvariance` | `RelayInv` is an invariant |
| `RelayTypeCorrect` | `[]TypeOK` |
| `PendingIsCurrent` | `[]PendingOnCurrentPanel` |
| `TurnsExclude` | `[]OneAtATime` |
| `StreakIsOfThisPanel` | `[]StreakOfThisPanel` |
| `LateIsForOpenAnswers` | `[]LateFollowsOpenAnswer` |

The argument. `RelayInv` adds two parts to the properties: `PanelIsThere`, and
`RequestState`, which ties what is known of a request in the queue, in `#pending`, in
`#late` and in the panel. By `OneAtATime` at most one request is pending, so
that settling it leaves none (`AllSettledLemma`) and the replacement of a panel cannot
leave one behind. A late entry is made only in the step that answers its request
with an open outcome, and `RequestState` says that such a request is over, so that no later
step answers it again. The streak is bounded by the number of probes the
panel has answered (`Good`); each step adds one probe to that set when it adds one to the
streak, or starts the streak again (`StreakGrows`, `StreakKept`).

`OperationLedgerProofs` is about any number of appends, readers, failing writes and crashes,
with no assumption beyond `LedgerAssumption`: appends go on while files are read and
truncated.

| Theorem | Says |
|---|---|
| `LedgerInvariance` | `LedgerInv` is an invariant |
| `LedgerTypeCorrect` | `[]TypeOK` |
| `ReadsAreComplete` | `[]ReadIsComplete` |
| `ReadsAreInOrder` | `[]ReadInOrder` |
| `DurableEntriesStay` | `[]DurableStays` |

The argument. `ChainState`: what has settled was called before what has not, and of that only the
first is under way. `FileState`: of an entry there is nothing in the file before its write
has begun; once it has landed it is on a line that is terminated, unless it was cut; while a part
of it is there that part is the end of the file; the lines follow the order of the calls. The
next write is the oldest append of the chain, so that its entry is after all that is there
(`WriteFileStep`, `CompletedLemma`). What is not terminated is on the last line, which holds no
entry that has landed, so that leaving it out loses none (`ParsedLemma`). `ReaderState`
says that a reader about to truncate still knows, by their contents, the lines up to
each durable entry it waited for (`Known`): what is written comes after them, and
another truncation leaves them or has cut the entry itself. So the place of the cut, however
stale, is behind those entries (`TruncatedLemma`, `TruncateStep`); what it damages was
appended later, and is in `cut`. The file is seen through `On(f, p, i)`, piece `p` is on line
`i`; `GluedLemma`, `BlankLemma` and `RelinedIsExtended` say how a write changes it.

`UxpBridgeProofs` is about any number of calls, connections, handles, reloads, faults and
user edits (the bounds of `Scenarios` are parameters), with no assumption beyond
`UxpAssumption`.

| Theorem | Says |
|---|---|
| `BridgeInvariance` | `IInv` is an invariant |
| `NothingPendingElsewhere` | `[]PendingOnCurrentSocket` |
| `HandlesAreFaithful` | `[]EditsWhatWasFound` |
| `FailuresAreClean` | `[]FailedEditedNothing` |
| `ConnectedIsCurrent` | `[]ConnectedPanelIsCurrent` |
| `BridgeTypes` | `[]TypeOK` |

The argument. A call has one token at a time (`OneToken`): its command on the way to the
panel, the panel at work on it, or the response on its way back, so a timed-out step that is
still executed is never joined by a second one. `ToolState` says what is known of a call where
its token is: a command of a find step is of a call that has found nothing (`CommandState`),
the panel has changed nothing before `readback` and then only what it resolved (`ExecState`),
and a refusal of a flagged operation is of one that has changed nothing (`ResponseState`). A call that is recorded FAILED or
SUCCEEDED has no token left, so that nothing can happen after the record. `Denotes` is the
heart of `HandlesAreFaithful`: an id, kept by the server or in a response, is of this load or
an earlier one and not beyond the counter, and any entry of the table with that id is what the
call has found. Dropping the table, evicting its oldest entry, a reload (`loads` grows, so no
old id is of this load) and a new entry (beyond the counter) all keep that (`MeansKept`).
`Quietly`, `OneCall`, `PanelWorks` and `Responds` state what an action must show, so that
each action has a lemma of a few lines.

`ConnectedPanelIsCurrent` needs the life of a connection on its own (`LinkInv`): the
connections are used in their order (`Used`), a socket that is not open at the panel is not at
the host either, and one that was greeted, be the message still on its way (`Greeted`) or
taken (`session`), is the host's current one or one the host has begun to close. `TypeOK`
is the sum of four small invariants: `FindInv` (no more handles were issued than calls
have found something, for which the proof counts the set of those calls and `Tools` is assumed
finite), `FlagInv`, `CounterInv`, `TableInv`.

`SessionProofs` is about any number of calls, mutating, reading or local, and any number of
connections, with no assumption beyond `SessionAssumption` (`Calls` is finite).

| Theorem | Says |
|---|---|
| `SessionInvariant` | `IInv` is an invariant |
| `SessionTypes` | `[]TypeOK` |
| `SessionHonest` | `[]HonestOutcome` |
| `SessionSuccess` | `[]SuccessIsNotFailure` |
| `SessionOwned` | `[]ActiveIsOwned` |
| `SessionReports` | `[]ReportedIsUnresolved` |

`HonestOutcome` leaves out the batches of relinks, for which `batch_outcome_lost` refutes it;
the other theorems are about them too.

The argument. `HonestOutcome` is about the record and the script; what makes it inductive is
where the call's messages are. `CallInv` says it for each call in eight parts. `StepInv`: how
many requests a call can have made at each step, so that a response with the id of the current
request answers that request. `RequestInv` and `OnceInv`: a begin or a script that is
still on its way is the only one, and of a call that has not got further, unless it was given
up. `AskedInv` and `AnswerInv`: what the daemon is working at, and what an answer on its way
says of the operation. `EndInv`: an end that is waited for over an open connection
is on its way, or the operation is no longer active; this is where the guard of `RequestTimer`
is needed. `OutcomeInv`: while an operation is active and its call has decided for SUCCEEDED or
FAILED, no script of it runs or is on its way (`NoRun`); the record follows from that
when the end arrives, and from the daemon's own choice of UNKNOWN for an orphan with an
open script. `OwnerInv`: while the client has one connection at a time, a call waits on
the connection its operation is tied to. `ConnInv` and `WaitInv` are the connections:
nothing is on its way over a link that is not open, and a request is in a queue once.
A step changes one call and at most one queue; `OtherCall` carries the invariant of
every other call over it, so that each action has one lemma about its own call.

Only model-checked: liveness (`BeginSettles`, `EndSettles`, `RequestSettles`, `QueueMovesOn`,
`CallReturns`, `AppendSettles`, `ReadSettles`), which is beyond the prover. Every safety invariant and every
action property of the passing runs is a theorem.

## Not modelled, and plan

- Coordinator: `execute` outside an operation (called by tests only), failing
  reads of the ledger, the eviction of terminal results beyond 1024. A rejected append that
  reached the file all the same is in `OperationLedger` but not in the coordinator.
- Relay: the checks of the upgrade request, the contents of snapshots and fingerprints, UXP
  dispatch (in `OperationCoordinator` and `UxpBridge`), capability reports.
- Client: what is done with a late completion once it has arrived.
- Panels: user interface, parsing of arguments and of the endpoint and key files, event
  subscriptions, page offsets.
- Tool policy, result formatting, the tool catalogue and the vendored script builder are
  pure functions of text; installers and packaging are scripts around file copies.

Next: the refinement of the coordinator's `ledger` by the file of `OperationLedger`, and of
the coordinator by the operations that `Session` sees.
