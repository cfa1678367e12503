------------------------ MODULE OperationCoordinator ------------------------
(***************************************************************************)
(* The operation coordinator of the bridge daemon: class                   *)
(* OperationCoordinator of src/operations/coordinator.ts, with the durable *)
(* ledger of src/operations/ledger.ts as far as the coordinator reads it   *)
(* back, and the order in which the daemon's dispatchers                   *)
(* (src/bridge/ws-host.ts) validate, verify and send a sub-request.        *)
(*                                                                         *)
(* The daemon is one JavaScript thread.  A step of this module is what     *)
(* runs between two awaits; every await on the ledger, on a lease, on      *)
(* Premiere or on a timer is a point where other calls interleave.         *)
(***************************************************************************)
EXTENDS DeadlineMutex

CONSTANTS
  Ops,                \* operation ids that callers may begin
  Mutations,          \* those whose mode is "mutate"; the others are reads
  Requests,           \* host sub-requests, each sent at most once
  UxpRequests,        \* those for the UXP panel; the others are for CEP
  Loaders,            \* callers that can be inside #load at the same time
  HonestOwners,       \* no owner settles an operation before its sub-requests
  MaxCrashes,         \* bound: crashes of the daemon
  MaxAppendFailures   \* bound: ledger appends that fail

ASSUME OpsAssumption ==
  /\ Mutations \subseteq Ops
  /\ UxpRequests \subseteq Requests
  /\ NoOne \notin Ops
  /\ NoOne \notin Requests
ASSUME OwnersAssumption == HonestOwners \in BOOLEAN
ASSUME BoundsAssumption == MaxCrashes \in Nat /\ MaxAppendFailures \in Nat

VARIABLES
  ledger,     \* durable: the latest status recorded for each operation
  crashes, appendFailures,
  loaded,     \* #loaded
  load,       \* where each caller of #load is
  stale,      \* the crash-left operations a caller of #load has still to promote
  used,       \* #usedOperationIds
  unknown,    \* the keys of #unknown: unresolved outcomes, the quarantine
  active,     \* the keys of #active
  begin,      \* where the beginOperation call of each operation is
  fin,        \* active.finalization and #terminalResults: [step, status]
  acking,     \* operations whose acknowledgement is being recorded
  mutation,   \* the mutation lease
  cep,        \* the CEP execution lease
  parked,     \* active.deferredReleases: requests whose CEP lease waits for the end
  call,       \* where the execute call of each request is
  exec,       \* what the executor of each request has got to in the host
  opOf        \* the operation each sent request belongs to

bookkeeping == <<crashes, appendFailures>>
loading     == <<loaded, load, stale>>
requests    == <<call, exec, opOf>>
vars == <<ledger, bookkeeping, loading, used, unknown, active, begin, fin,
          acking, mutation, cep, parked, requests>>

Terminal == {"SUCCEEDED", "FAILED", "UNKNOWN"}
Status   == Terminal \union {"none", "QUEUED", "RUNNING", "ACKNOWLEDGED"}

LoadStep  == {"idle", "ids", "scan", "promoting"}
BeginStep == {"idle", "queuing", "acquiring", "recording", "begun", "failing", "refused"}
FinStep   == {"open", "postflight", "recording", "registering", "done", "broken"}
CallStep  == {"idle", "checking", "acquiring", "racing", "done"}
ExecStep  == {"idle", "preparing", "dispatched", "finished"}

Open == [step |-> "open", status |-> "none"]

TypeOK ==
  /\ ledger \in [Ops -> Status]
  /\ crashes \in 0 .. MaxCrashes
  /\ appendFailures \in 0 .. MaxAppendFailures
  /\ loaded \in BOOLEAN
  /\ load \in [Loaders -> LoadStep]
  /\ stale \in [Loaders -> SUBSET Mutations]
  /\ used \subseteq Ops
  /\ unknown \subseteq Mutations
  /\ active \subseteq Ops
  /\ begin \in [Ops -> BeginStep]
  /\ fin \in [Ops -> [step : FinStep, status : Terminal \union {"none"}]]
  /\ acking \subseteq Mutations
  /\ mutation \in Mutex(Mutations)
  /\ cep \in Mutex(Requests)
  /\ parked \in [Ops -> SUBSET Requests]
  /\ call \in [Requests -> CallStep]
  /\ exec \in [Requests -> ExecStep]
  /\ opOf \in [Requests -> Ops \union {NoOne}]

Init ==
  /\ ledger = [o \in Ops |-> "none"]
  /\ crashes = 0
  /\ appendFailures = 0
  /\ loaded = FALSE
  /\ load = [l \in Loaders |-> "idle"]
  /\ stale = [l \in Loaders |-> {}]
  /\ used = {}
  /\ unknown = {}
  /\ active = {}
  /\ begin = [o \in Ops |-> "idle"]
  /\ fin = [o \in Ops |-> Open]
  /\ acking = {}
  /\ mutation = Unlocked
  /\ cep = Unlocked
  /\ parked = [o \in Ops |-> {}]
  /\ call = [r \in Requests |-> "idle"]
  /\ exec = [r \in Requests |-> "idle"]
  /\ opOf = [r \in Requests |-> NoOne]

(***************************************************************************)
(* The ledger.  An append either makes the entry durable or rejects.       *)
(***************************************************************************)
Record(o, s) ==
  /\ ledger' = [ledger EXCEPT ![o] = s]
  /\ UNCHANGED appendFailures

AppendFails ==
  /\ appendFailures < MaxAppendFailures
  /\ appendFailures' = appendFailures + 1
  /\ UNCHANGED ledger

(***************************************************************************)
(* #load: reads the ids, promotes the mutations a crash left QUEUED or     *)
(* RUNNING, then collects the unresolved outcomes.  Nothing keeps a second *)
(* caller out until the first one has finished.                            *)
(***************************************************************************)
(* Mutant: only RUNNING is taken for crash-left.                          *)
MutantCrashLeftForgetsQueued == {o \in Mutations : ledger[o] = "RUNNING"}
(* Mutant: reads are promoted as well.                                     *)
MutantCrashLeftTakesReads == {o \in Ops : ledger[o] \in {"QUEUED", "RUNNING"}}
(* Mutant: entries are promoted without a look at their status.           *)
MutantCrashLeftRewritesHistory ==
  {o \in Mutations : ledger[o] \notin {"none", "ACKNOWLEDGED"}}
CrashLeft == {o \in Mutations : ledger[o] \in {"QUEUED", "RUNNING"}}

(* Mutant: an acknowledgement does not resolve an outcome.                *)
MutantUnresolvedForgetsAcks ==
  {o \in Mutations : ledger[o] \in {"UNKNOWN", "ACKNOWLEDGED"}}
Unresolved == {o \in Mutations : ledger[o] = "UNKNOWN"}

(* Mutant: a load does not look whether one has been done.                *)
MutantLoadAgain(l) ==
  /\ load[l] = "idle"
  /\ load' = [load EXCEPT ![l] = "ids"]
  /\ UNCHANGED <<ledger, bookkeeping, loaded, stale, used, unknown, active, begin,
                 fin, acking, mutation, cep, parked, requests>>
LoadStart(l) ==
  /\ ~loaded
  /\ load[l] = "idle"
  /\ load' = [load EXCEPT ![l] = "ids"]
  /\ UNCHANGED <<ledger, bookkeeping, loaded, stale, used, unknown, active, begin,
                 fin, acking, mutation, cep, parked, requests>>

LoadIds(l) ==
  /\ load[l] = "ids"
  /\ used' = {o \in Ops : ledger[o] # "none"}
  /\ load' = [load EXCEPT ![l] = "scan"]
  /\ UNCHANGED <<ledger, bookkeeping, loaded, stale, unknown, active, begin,
                 fin, acking, mutation, cep, parked, requests>>

LoadScan(l) ==
  /\ load[l] = "scan"
  /\ stale' = [stale EXCEPT ![l] = CrashLeft]
  /\ load' = [load EXCEPT ![l] = "promoting"]
  /\ UNCHANGED <<ledger, bookkeeping, loaded, used, unknown, active, begin,
                 fin, acking, mutation, cep, parked, requests>>

(* Mutant: a promotion whose append fails is skipped.                     *)
MutantPromoteSwallowsFailures(l) ==
  /\ load[l] = "promoting"
  /\ \E o \in stale[l] :
       /\ Record(o, "UNKNOWN") \/ AppendFails
       /\ stale' = [stale EXCEPT ![l] = @ \ {o}]
  /\ UNCHANGED <<crashes, loaded, load, used, unknown, active, begin, fin, acking,
                 mutation, cep, parked, requests>>
LoadPromote(l) ==
  /\ load[l] = "promoting"
  /\ \E o \in stale[l] :
       /\ \/ /\ Record(o, "UNKNOWN")
             /\ stale' = [stale EXCEPT ![l] = @ \ {o}]
             /\ UNCHANGED load
          \/ /\ AppendFails
             /\ stale' = [stale EXCEPT ![l] = {}]
             /\ load' = [load EXCEPT ![l] = "idle"]
  /\ UNCHANGED <<crashes, loaded, used, unknown, active, begin, fin, acking,
                 mutation, cep, parked, requests>>

LoadFinish(l) ==
  /\ load[l] = "promoting"
  /\ stale[l] = {}
  /\ unknown' = unknown \union Unresolved
  /\ loaded' = TRUE
  /\ load' = [load EXCEPT ![l] = "idle"]
  /\ UNCHANGED <<ledger, bookkeeping, stale, used, active, begin, fin, acking,
                 mutation, cep, parked, requests>>

(***************************************************************************)
(* beginOperation                                                          *)
(***************************************************************************)

(* Mutant: begin does not look at the quarantine.                         *)
MutantNoQuarantine(o) == FALSE
Quarantined(o) == o \in Mutations /\ unknown # {}

(* A quarantined mutation and a reused id are rejected here, with nothing  *)
(* recorded.                                                               *)
BeginOperation(o) ==
  /\ loaded
  /\ begin[o] = "idle"
  /\ o \notin used
  /\ ~Quarantined(o)
  /\ used' = used \union {o}
  /\ begin' = [begin EXCEPT ![o] = "queuing"]
  /\ UNCHANGED <<ledger, bookkeeping, loading, unknown, active, fin, acking,
                 mutation, cep, parked, requests>>

(* QUEUED becomes durable and a mutation asks for the lease; a failed      *)
(* append ends the call before there is anything to undo.                  *)
RecordQueued(o) ==
  /\ begin[o] = "queuing"
  /\ \/ /\ Record(o, "QUEUED")
        /\ begin' = [begin EXCEPT ![o] = "acquiring"]
        /\ mutation' = IF o \in Mutations THEN Acquire(mutation, o) ELSE mutation
     \/ /\ AppendFails
        /\ begin' = [begin EXCEPT ![o] = "refused"]
        /\ UNCHANGED mutation
  /\ UNCHANGED <<crashes, loading, used, unknown, active, fin, acking, cep,
                 parked, requests>>

(* Mutant: begin does not wait for the lease.                             *)
MutantNoLease(o) == TRUE
HasMutationLease(o) == o \in Mutations => mutation.holder = o

BeginLeaseExpires(o) ==
  /\ begin[o] = "acquiring"
  /\ \E i \in DOMAIN mutation.waiters :
       /\ mutation.waiters[i] = o
       /\ mutation' = Expire(mutation, i)
  /\ begin' = [begin EXCEPT ![o] = "failing"]
  /\ UNCHANGED <<ledger, bookkeeping, loading, used, unknown, active, fin, acking,
                 cep, parked, requests>>

(* The preflight snapshot answers.  A read has no preflight, and cannot    *)
(* fail here.                                                              *)
Preflight(o) ==
  /\ begin[o] = "acquiring"
  /\ HasMutationLease(o)
  /\ \/ /\ active' = active \union {o}
        /\ begin' = [begin EXCEPT ![o] = "recording"]
        /\ UNCHANGED mutation
     \/ /\ o \in Mutations
        /\ mutation' = Release(mutation, o)
        /\ begin' = [begin EXCEPT ![o] = "failing"]
        /\ UNCHANGED active
  /\ UNCHANGED <<ledger, bookkeeping, loading, used, unknown, fin, acking, cep,
                 parked, requests>>

(* When the append of RUNNING fails the lease goes back, but the operation *)
(* stays in #active.                                                       *)
RecordRunning(o) ==
  /\ begin[o] = "recording"
  /\ \/ /\ Record(o, "RUNNING")
        /\ begin' = [begin EXCEPT ![o] = "begun"]
        /\ UNCHANGED mutation
     \/ /\ AppendFails
        /\ begin' = [begin EXCEPT ![o] = "failing"]
        /\ mutation' = Release(mutation, o)
  /\ UNCHANGED <<crashes, loading, used, unknown, active, fin, acking, cep,
                 parked, requests>>

RecordRefusal(o) ==
  /\ begin[o] = "failing"
  /\ begin' = [begin EXCEPT ![o] = "refused"]
  /\ Record(o, "FAILED") \/ AppendFails
  /\ UNCHANGED <<crashes, loading, used, unknown, active, fin, acking, mutation,
                 cep, parked, requests>>

(* A caller may retry under the id it chose, once its call was refused: an *)
(* id that is in #active is taken for an operation that has begun.  The    *)
(* code answers a second call so also while the first one waits for        *)
(* RUNNING to be recorded; two calls under one id at once are left out.    *)
BeginAgain(o) ==
  /\ begin[o] = "refused"
  /\ o \in active
  /\ begin' = [begin EXCEPT ![o] = "begun"]
  /\ UNCHANGED <<ledger, bookkeeping, loading, used, unknown, active, fin, acking,
                 mutation, cep, parked, requests>>

(***************************************************************************)
(* endOperation and #finalizeOperation.  The first caller starts the       *)
(* finalization; every later one is answered with its result.              *)
(***************************************************************************)
InFlight(o) == \E r \in Requests : opOf[r] = o /\ call[r] \notin {"idle", "done"}

EndedUnknown(o) == fin[o].status = "UNKNOWN" /\ fin[o].step \in {"registering", "done"}

(* What a first end starts: a successful mutation takes its postflight     *)
(* snapshot, anything else goes to the ledger.  A read is never UNKNOWN.   *)
Finalization(o, s) ==
  CASE s = "SUCCEEDED" /\ o \in Mutations  -> [step |-> "postflight", status |-> s]
    [] s = "UNKNOWN" /\ o \notin Mutations -> [step |-> "recording", status |-> "FAILED"]
    [] OTHER                               -> [step |-> "recording", status |-> s]

(* UNKNOWN comes from an owner that gave up on a sub-request, or from the  *)
(* relay when it loses the owner, at any time.  An honest owner reports    *)
(* SUCCEEDED or FAILED once its sub-requests have settled; nothing here    *)
(* checks that it is, and a batch of relinks is not (Session!Uncoded).     *)
EndOperation(o) ==
  /\ begin[o] = "begun"
  /\ o \in active
  /\ fin[o] = Open
  /\ \E s \in Terminal :
       /\ HonestOwners => s = "UNKNOWN" \/ ~InFlight(o)
       /\ fin' = [fin EXCEPT ![o] = Finalization(o, s)]
  /\ UNCHANGED <<ledger, bookkeeping, loading, used, unknown, active, begin, acking,
                 mutation, cep, parked, requests>>

Postflight(o) ==
  /\ fin[o].step = "postflight"
  /\ \E s \in {"SUCCEEDED", "UNKNOWN"} :
       fin' = [fin EXCEPT ![o] = [step |-> "recording", status |-> s]]
  /\ UNCHANGED <<ledger, bookkeeping, loading, used, unknown, active, begin, acking,
                 mutation, cep, parked, requests>>

(* The parked CEP leases of o go back.                                     *)
ReleaseParked(o) ==
  /\ cep' = IF cep.holder \in parked[o] THEN Release(cep, cep.holder) ELSE cep
  /\ parked' = [parked EXCEPT ![o] = {}]

(* The terminal status becomes durable.  A mutation whose outcome is       *)
(* UNKNOWN keeps its lease and stays in #active; a failed append leaves a  *)
(* finalization that every later end gets to see as rejected.              *)
RecordTerminal(o) ==
  /\ fin[o].step = "recording"
  /\ \/ /\ Record(o, fin[o].status)
        /\ fin[o].status = "UNKNOWN"
        /\ fin' = [fin EXCEPT ![o].step = "registering"]
        /\ UNCHANGED <<active, mutation, cep, parked>>
     \/ /\ Record(o, fin[o].status)
        /\ fin[o].status # "UNKNOWN"
        /\ fin' = [fin EXCEPT ![o].step = "done"]
        /\ active' = active \ {o}
        /\ mutation' = Release(mutation, o)
        /\ ReleaseParked(o)
     \/ /\ AppendFails
        /\ fin' = [fin EXCEPT ![o].step = "broken"]
        /\ UNCHANGED <<active, mutation, cep, parked>>
  /\ UNCHANGED <<crashes, loading, used, unknown, begin, acking, requests>>

RegisterUnknown(o) ==
  /\ fin[o].step = "registering"
  /\ fin' = [fin EXCEPT ![o].step = "done"]
  /\ unknown' = unknown \union ({o} \intersect Unresolved)
  /\ ReleaseParked(o)
  /\ UNCHANGED <<ledger, bookkeeping, loading, used, active, begin, acking,
                 mutation, requests>>

(***************************************************************************)
(* execute, for a sub-request of an operation that has begun.  An honest   *)
(* owner sends none after it has ended the operation; it may have given up *)
(* on an earlier one that the daemon is still working on, or for which the *)
(* daemon is finalizing the operation as UNKNOWN.                          *)
(***************************************************************************)
OwnerMaySend(o) ==
  /\ begin[o] = "begun"
  /\ HonestOwners => fin[o].status \in {"none", "UNKNOWN"}

(* The sub-request arrives and is validated.  One for CEP asks for the CEP *)
(* lease, one for UXP first checks its target.                             *)
Execute(r, o) ==
  /\ call[r] = "idle"
  /\ OwnerMaySend(o)
  /\ o \in active
  /\ ~EndedUnknown(o)
  /\ opOf' = [opOf EXCEPT ![r] = o]
  /\ \/ /\ r \in UxpRequests
        /\ call' = [call EXCEPT ![r] = "checking"]
        /\ UNCHANGED cep
     \/ /\ r \notin UxpRequests
        /\ call' = [call EXCEPT ![r] = "acquiring"]
        /\ cep' = Acquire(cep, r)
  /\ UNCHANGED <<ledger, bookkeeping, loading, used, unknown, active, begin, fin,
                 acking, mutation, parked, exec>>

CepLeaseExpires(r) ==
  /\ call[r] = "acquiring"
  /\ \E i \in DOMAIN cep.waiters :
       /\ cep.waiters[i] = r
       /\ cep' = Expire(cep, i)
  /\ call' = [call EXCEPT ![r] = "done"]
  /\ UNCHANGED <<ledger, bookkeeping, loading, used, unknown, active, begin, fin,
                 acking, mutation, parked, exec, opOf>>

(* The CEP lease is granted and the executor starts, in a race with the    *)
(* execution timer.  For a mutation it looks its target up first, which is *)
(* refused when the operation is gone.                                     *)
StartExecutor(r) ==
  /\ call[r] = "acquiring"
  /\ cep.holder = r
  /\ \/ /\ opOf[r] \in Mutations
        /\ opOf[r] \notin active
        /\ call' = [call EXCEPT ![r] = "done"]
        /\ cep' = Release(cep, r)
        /\ UNCHANGED exec
     \/ /\ opOf[r] \notin Mutations \/ opOf[r] \in active
        /\ call' = [call EXCEPT ![r] = "racing"]
        /\ exec' = [exec EXCEPT ![r] = "preparing"]
        /\ UNCHANGED cep
  /\ UNCHANGED <<ledger, bookkeeping, loading, used, unknown, active, begin, fin,
                 acking, mutation, parked, opOf>>

(* A UXP request has checked its target: it is validated again and, with   *)
(* no lease of its own, sent to the panel.                                 *)
UxpChecked(r) ==
  /\ call[r] = "checking"
  /\ \/ /\ opOf[r] \in active
        /\ ~EndedUnknown(opOf[r])
        /\ call' = [call EXCEPT ![r] = "racing"]
        /\ exec' = [exec EXCEPT ![r] = "dispatched"]
     \/ /\ call' = [call EXCEPT ![r] = "done"]     \* refused, or validation failed
        /\ UNCHANGED exec
  /\ UNCHANGED <<ledger, bookkeeping, loading, used, unknown, active, begin, fin,
                 acking, mutation, cep, parked, opOf>>

(* The target has been verified and the relay's queue to the panel has let *)
(* it through: the script is sent to Premiere, whatever has become of the  *)
(* call and of the operation in the meantime.                              *)
Dispatch(r) ==
  /\ exec[r] = "preparing"
  /\ exec' = [exec EXCEPT ![r] = "dispatched"]
  /\ UNCHANGED <<ledger, bookkeeping, loading, used, unknown, active, begin, fin,
                 acking, mutation, cep, parked, call, opOf>>

(* The call ends with a result or a definite failure: its lease goes back. *)
SettleKnown(r) ==
  /\ cep' = Release(cep, r)
  /\ UNCHANGED <<fin, parked>>

(* The call of a mutation ends without a known outcome: its CEP lease is   *)
(* left to the finalization of the operation, which it starts unless       *)
(* another end was first.                                                  *)
SettleUnknown(r) ==
  LET o == opOf[r] IN
  /\ o \in Mutations
  /\ parked' = IF o \in active /\ cep.holder = r
                 THEN [parked EXCEPT ![o] = @ \union {r}] ELSE parked
  /\ fin' = IF o \in active /\ fin[o] = Open
              THEN [fin EXCEPT ![o] = Finalization(o, "UNKNOWN")] ELSE fin
  /\ UNCHANGED cep

(* Premiere, the panel or the verification answers while the call waits.   *)
ExecutionSettles(r) ==
  /\ call[r] = "racing"
  /\ exec[r] \in {"preparing", "dispatched"}
  /\ call' = [call EXCEPT ![r] = "done"]
  /\ exec' = [exec EXCEPT ![r] = "finished"]
  /\ SettleKnown(r) \/ SettleUnknown(r)
  /\ UNCHANGED <<ledger, bookkeeping, loading, used, unknown, active, begin,
                 acking, mutation, opOf>>

(* The execution timer wins the race.  Nothing stops the executor.         *)
ExecutionTimesOut(r) ==
  /\ call[r] = "racing"
  /\ call' = [call EXCEPT ![r] = "done"]
  /\ IF opOf[r] \in Mutations THEN SettleUnknown(r) ELSE SettleKnown(r)
  /\ UNCHANGED <<ledger, bookkeeping, loading, used, unknown, active, begin,
                 acking, mutation, exec, opOf>>

(* The executor ends after its call has.                                   *)
LateExecution(r) ==
  /\ call[r] = "done"
  /\ exec[r] \in {"preparing", "dispatched"}
  /\ exec' = [exec EXCEPT ![r] = "finished"]
  /\ UNCHANGED <<ledger, bookkeeping, loading, used, unknown, active, begin, fin,
                 acking, mutation, cep, parked, call, opOf>>

(***************************************************************************)
(* acknowledgeUnknown, with matching fingerprints (it is rejected before   *)
(* it changes anything otherwise).                                         *)
(***************************************************************************)
AcknowledgeUnknown(o) ==
  /\ o \in unknown
  /\ o \notin acking
  /\ acking' = acking \union {o}
  /\ UNCHANGED <<ledger, bookkeeping, loading, used, unknown, active, begin, fin,
                 mutation, cep, parked, requests>>

RecordAcknowledged(o) ==
  /\ o \in acking
  /\ acking' = acking \ {o}
  /\ \/ /\ Record(o, "ACKNOWLEDGED")
        /\ unknown' = unknown \ {o}
        /\ active' = active \ {o}
        /\ mutation' = Release(mutation, o)
        /\ ReleaseParked(o)
     \/ /\ AppendFails
        /\ UNCHANGED <<unknown, active, mutation, cep, parked>>
  /\ UNCHANGED <<crashes, loading, used, begin, fin, requests>>

(***************************************************************************)
(* The daemon process dies and is started again.  Everything but the       *)
(* ledger is lost; scripts already sent go on running in Premiere.         *)
(***************************************************************************)
Crash ==
  /\ crashes < MaxCrashes
  /\ crashes' = crashes + 1
  /\ loaded' = FALSE
  /\ load' = [l \in Loaders |-> "idle"]
  /\ stale' = [l \in Loaders |-> {}]
  /\ used' = {}
  /\ unknown' = {}
  /\ active' = {}
  /\ begin' = [o \in Ops |-> "idle"]
  /\ fin' = [o \in Ops |-> Open]
  /\ acking' = {}
  /\ mutation' = Unlocked
  /\ cep' = Unlocked
  /\ parked' = [o \in Ops |-> {}]
  /\ call' = [r \in Requests |-> IF call[r] = "idle" THEN "idle" ELSE "done"]
  /\ exec' = [r \in Requests |-> IF exec[r] = "preparing" THEN "finished" ELSE exec[r]]
  /\ UNCHANGED <<ledger, appendFailures, opOf>>

(***************************************************************************)
(* Specification                                                           *)
(***************************************************************************)
LoadProgress(l) == LoadIds(l) \/ LoadScan(l) \/ LoadPromote(l) \/ LoadFinish(l)

(* Mutant: waiting for the mutation lease has no timer.                   *)
MutantNoLeaseDeadline(o) ==
  RecordQueued(o) \/ Preflight(o) \/ RecordRunning(o) \/ RecordRefusal(o)
BeginProgress(o) ==
  RecordQueued(o) \/ BeginLeaseExpires(o) \/ Preflight(o) \/ RecordRunning(o) \/ RecordRefusal(o)

(* Mutant: the postflight snapshot has no timer.                          *)
MutantPostflightUnbounded(o) == RecordTerminal(o) \/ RegisterUnknown(o)
FinProgress(o) == Postflight(o) \/ RecordTerminal(o) \/ RegisterUnknown(o)

(* Mutant: waiting for the CEP lease has no timer.                        *)
MutantNoCepDeadline(r) ==
  StartExecutor(r) \/ UxpChecked(r) \/ ExecutionSettles(r) \/ ExecutionTimesOut(r)
CallProgress(r) ==
  \/ CepLeaseExpires(r) \/ StartExecutor(r) \/ UxpChecked(r)
  \/ ExecutionSettles(r) \/ ExecutionTimesOut(r)

Next ==
  \/ \E l \in Loaders : LoadStart(l) \/ LoadProgress(l)
  \/ \E o \in Ops : BeginOperation(o) \/ BeginProgress(o) \/ BeginAgain(o)
  \/ \E o \in Ops : EndOperation(o) \/ FinProgress(o)
  \/ \E r \in Requests : CallProgress(r) \/ Dispatch(r) \/ LateExecution(r)
  \/ \E r \in Requests, o \in Ops : Execute(r, o)
  \/ \E o \in Mutations : AcknowledgeUnknown(o) \/ RecordAcknowledged(o)
  \/ Crash

Spec == Init /\ [][Next]_vars

(***************************************************************************)
(* Fairness: the thread runs what is ready, appends complete or reject,    *)
(* snapshots are bounded by their budget, every wait has a timer.  What a  *)
(* caller does next, and crashes, are left to them.                        *)
(***************************************************************************)
FairSpec ==
  /\ Spec
  /\ \A l \in Loaders : WF_vars(LoadProgress(l))
  /\ \A o \in Ops : WF_vars(BeginProgress(o)) /\ WF_vars(FinProgress(o))
  /\ \A r \in Requests : WF_vars(CallProgress(r))

(***************************************************************************)
(* Safety                                                                  *)
(***************************************************************************)
InHost(o) == \E r \in Requests : opOf[r] = o /\ exec[r] = "dispatched"

(* The scripts of two mutations are in the host together only if a human   *)
(* has acknowledged the outcome of one of them: neither a timeout, nor a   *)
(* lost owner, nor a restart of the daemon while Premiere still runs a     *)
(* script lets a second mutation in.                                       *)
NoOverlappingMutations ==
  \A o, p \in Mutations :
    o # p /\ InHost(o) /\ InHost(p) => "ACKNOWLEDGED" \in {ledger[o], ledger[p]}

(* While a mutation has the lease no other outcome is unresolved: the      *)
(* quarantine check at the start of begin is enough, although the lease is *)
(* granted long after it.                                                  *)
QuarantineExcludesMutation ==
  \A o \in Mutations : mutation.holder = o => unknown \subseteq {o}

(* Once the daemon is up, a mutation that the ledger shows in progress is  *)
(* one it is working on, never one it has forgotten.                       *)
NoForgottenMutation ==
  \A o \in Mutations :
    loaded /\ ledger[o] \in {"QUEUED", "RUNNING"} =>
      begin[o] \in {"acquiring", "recording", "failing"} \/ o \in active

(* A load that did finish has resolved everything an earlier process left  *)
(* in progress, also when an append failed half way through an earlier     *)
(* attempt.                                                                *)
LoadLeavesNothing ==
  \A o \in Mutations : loaded /\ ledger[o] \in {"QUEUED", "RUNNING"} => begin[o] # "idle"

(* The quarantine in memory and the one the ledger would restore after a   *)
(* crash are the same, but for an outcome that is just being registered.   *)
QuarantineIsDurable ==
  \A o \in Mutations :
    /\ o \in unknown => ledger[o] = "UNKNOWN"
    /\ loaded /\ ledger[o] = "UNKNOWN" => o \in unknown \/ fin[o].step = "registering"

(* Whoever holds the mutation lease still has something to come that gives *)
(* it back: its begin call, its end, or an acknowledgement.                *)
NoLeaseLost ==
  \A o \in Mutations :
    mutation.holder = o =>
      \/ begin[o] \in {"acquiring", "recording"}
      \/ begin[o] = "begun" /\ o \in active /\ fin[o].step # "broken"

(* A mutation waits for the lease exactly as long as it is in the queue:   *)
(* no expired waiter can be granted the lease, none is dropped.            *)
NoLostWaiter ==
  /\ \A o \in Mutations :
       o \in Waiting(mutation) <=> begin[o] = "acquiring" /\ mutation.holder # o
  /\ \A r \in Requests :
       r \in Waiting(cep) <=> call[r] = "acquiring" /\ cep.holder # r
  /\ Waiting(mutation) # {} => IsLocked(mutation)
  /\ Waiting(cep) # {} => IsLocked(cep)

(* The first terminal outcome of an operation that is recorded stands:     *)
(* later ends, late answers and restarts do not overwrite it.  UNKNOWN     *)
(* changes only by being acknowledged.                                     *)
TerminalOutcomeIsFinal ==
  [][\A o \in Ops :
       /\ ledger[o] \in {"SUCCEEDED", "FAILED", "ACKNOWLEDGED"} => ledger'[o] = ledger[o]
       /\ ledger[o] = "UNKNOWN" => ledger'[o] \in {"UNKNOWN", "ACKNOWLEDGED"}]_ledger

(* A CEP lease that is held belongs to a call that is still running or is  *)
(* parked with a finalization that is still to give it back, so that       *)
(* diagnostic reads can run while mutations are quarantined.               *)
CepLeaseReturned ==
  \A r \in Requests :
    cep.holder = r =>
      \/ call[r] \in {"acquiring", "racing"}
      \/ \E o \in Ops : r \in parked[o] /\ fin[o].step \in {"postflight", "recording", "registering"}

(* A mutation is sent to the host only while its operation has the         *)
(* mutation lease.                                                         *)
DispatchHoldsLease ==
  [][\A r \in Requests :
       exec[r] # "dispatched" /\ exec'[r] = "dispatched" /\ opOf[r] \in Mutations
         => mutation.holder = opOf[r]]_vars

(* #load promotes what an earlier process left behind, never an operation  *)
(* of the running one.                                                     *)
OnlyCrashLeftPromoted ==
  [][\A o \in Mutations :
       ledger[o] \in {"QUEUED", "RUNNING"} /\ ledger'[o] = "UNKNOWN"
         => begin[o] = "idle" \/ fin[o].step = "recording"]_vars

(* The coordinator keeps the promise of QuarantinedMutation.               *)
Phase(o) ==
  CASE ledger[o] = "ACKNOWLEDGED" -> "acknowledged"
    [] o \in unknown -> "unresolved"
    [] begin[o] = "idle" /\ ledger[o] \in {"QUEUED", "RUNNING", "UNKNOWN"} -> "unresolved"
    [] o \notin unknown /\ begin[o] # "idle" /\ mutation.holder = o -> "executing"
    [] ledger[o] \in {"SUCCEEDED", "FAILED"} -> "settled"
    [] begin[o] = "idle" /\ ledger[o] = "none" -> "new"
    [] OTHER -> "pending"

Promise == INSTANCE QuarantinedMutation WITH phase <- [o \in Mutations |-> Phase(o)]

KeepsPromise == Promise!Spec

(***************************************************************************)
(* Liveness: under FairSpec every call is answered.                        *)
(***************************************************************************)

(* A begin call comes back: it gets the lease or its deadline passes, and  *)
(* its records are written, or a crash takes it away.                      *)
BeginSettles ==
  \A o \in Ops :
    begin[o] \notin {"idle", "begun", "refused"} ~> begin[o] \in {"idle", "begun", "refused"}

(* A sub-request comes back, also one that waits for a CEP lease nobody    *)
(* returns.                                                                *)
RequestSettles ==
  \A r \in Requests : call[r] \notin {"idle", "done"} ~> call[r] = "done"

(* An operation that somebody ends, be it the owner, the relay for a lost  *)
(* owner or a sub-request without a known outcome, gets a durable terminal *)
(* status, which for UNKNOWN includes the quarantine.                      *)
EndSettles ==
  \A o \in Ops :
    fin[o].step # "open" ~> fin[o].step \in {"open", "done"}
=============================================================================
