---------------------- MODULE OperationCoordinatorProofs ----------------------
(***************************************************************************)
(* Theorems about the operation coordinator, for any operations, requests, *)
(* callers and bounds.                                                     *)
(***************************************************************************)
EXTENDS CoordinatorInvariant, DeadlineMutexProofs

LedgerType == /\ ledger \in [Ops -> Status]
              /\ appendFailures \in 0 .. MaxAppendFailures

LEMMA RecordType ==
  ASSUME LedgerType, NEW o \in Ops, NEW s \in Status, Record(o, s)
  PROVE  LedgerType'
BY DEF LedgerType, Record

LEMMA AppendFailsType ==
  ASSUME LedgerType, AppendFails
  PROVE  LedgerType'
BY BoundsAssumption DEF LedgerType, AppendFails

(* Every step keeps every variable in its type, also when appends fail and *)
(* several callers are inside #load.                                       *)
LEMMA TypeStep == TypeOK /\ [Next]_vars => TypeOK'
<1> SUFFICES ASSUME TypeOK, [Next]_vars PROVE TypeOK'
  OBVIOUS
<1> USE OpsAssumption, BoundsAssumption DEF TypeOK
<1>t. LedgerType
  BY DEF LedgerType
<1> USE DEF bookkeeping, loading, requests, Terminal, Status, LoadStep, BeginStep,
            FinStep, CallStep, ExecStep, Open
<1>l. ASSUME NEW l \in Loaders, LoadStart(l) \/ LoadProgress(l) PROVE TypeOK'
  <2>1. CASE LoadStart(l) BY <2>1 DEF LoadStart
  <2>2. CASE LoadIds(l) BY <2>2 DEF LoadIds
  <2>3. CASE LoadScan(l) BY <2>3 DEF LoadScan, CrashLeft
  <2>4. CASE LoadPromote(l)
    <3> USE <2>4 DEF LoadPromote
    <3>1. LedgerType'
      BY <1>t, RecordType, AppendFailsType
    <3>2. stale' \in [Loaders -> SUBSET Mutations] /\ load' \in [Loaders -> LoadStep]
      OBVIOUS
    <3> QED BY <3>1, <3>2 DEF LedgerType
  <2>5. CASE LoadFinish(l) BY <2>5 DEF LoadFinish, Unresolved
  <2> QED BY <1>l, <2>1, <2>2, <2>3, <2>4, <2>5 DEF LoadProgress
<1>b. ASSUME NEW o \in Ops, BeginOperation(o) \/ BeginProgress(o) \/ BeginAgain(o)
      PROVE  TypeOK'
  <2>1. CASE BeginOperation(o) BY <2>1 DEF BeginOperation
  <2>2. CASE RecordQueued(o)
    <3> USE <2>2 DEF RecordQueued
    <3>1. LedgerType'
      BY <1>t, RecordType, AppendFailsType
    <3>2. begin' \in [Ops -> BeginStep]
      OBVIOUS
    <3>3. mutation' \in Mutex(Mutations)
      BY AcquireType
    <3> QED BY <3>1, <3>2, <3>3 DEF LedgerType
  <2>3. CASE BeginLeaseExpires(o) BY <2>3, ExpireLemma DEF BeginLeaseExpires
  <2>4. CASE Preflight(o) BY <2>4, ReleaseType DEF Preflight
  <2>5. CASE RecordRunning(o)
    <3> USE <2>5 DEF RecordRunning
    <3>1. LedgerType'
      BY <1>t, RecordType, AppendFailsType
    <3>2. begin' \in [Ops -> BeginStep]
      OBVIOUS
    <3>3. mutation' \in Mutex(Mutations)
      BY ReleaseType
    <3> QED BY <3>1, <3>2, <3>3 DEF LedgerType
  <2>6. CASE RecordRefusal(o) BY <2>6, <1>t, RecordType, AppendFailsType DEF RecordRefusal, LedgerType
  <2>7. CASE BeginAgain(o) BY <2>7 DEF BeginAgain
  <2> QED
    BY <1>b, <2>1, <2>2, <2>3, <2>4, <2>5, <2>6, <2>7 DEF BeginProgress
<1>e. ASSUME NEW o \in Ops, EndOperation(o) \/ FinProgress(o) PROVE TypeOK'
  <2>1. CASE EndOperation(o) BY <2>1 DEF EndOperation, Finalization
  <2>2. CASE Postflight(o) BY <2>2 DEF Postflight
  <2>3. CASE RecordTerminal(o)
    <3> USE <2>3 DEF RecordTerminal, ReleaseParked
    <3>1. LedgerType'
      BY <1>t, RecordType, AppendFailsType
    <3>2. fin' \in [Ops -> [step : FinStep, status : Terminal \union {"none"}]]
      OBVIOUS
    <3>3. mutation' \in Mutex(Mutations) /\ cep' \in Mutex(Requests)
      BY ReleaseType
    <3>4. active' \subseteq Ops /\ parked' \in [Ops -> SUBSET Requests]
      OBVIOUS
    <3> QED BY <3>1, <3>2, <3>3, <3>4 DEF LedgerType
  <2>4. CASE RegisterUnknown(o)
    <3> USE <2>4 DEF RegisterUnknown, ReleaseParked
    <3>1. fin' \in [Ops -> [step : FinStep, status : Terminal \union {"none"}]]
      OBVIOUS
    <3>2. cep' \in Mutex(Requests)
      BY ReleaseType
    <3>3. unknown' \subseteq Mutations /\ parked' \in [Ops -> SUBSET Requests]
      BY DEF Unresolved
    <3> QED BY <3>1, <3>2, <3>3
  <2> QED BY <1>e, <2>1, <2>2, <2>3, <2>4 DEF FinProgress
<1>c. ASSUME NEW r \in Requests, CallProgress(r) \/ Dispatch(r) \/ LateExecution(r)
      PROVE  TypeOK'
  <2>1. CASE CepLeaseExpires(r) BY <2>1, ExpireLemma DEF CepLeaseExpires
  <2>2. CASE StartExecutor(r) BY <2>2, ReleaseType DEF StartExecutor
  <2>3. CASE UxpChecked(r)
    <3> USE <2>3 DEF UxpChecked
    <3>1. call' \in [Requests -> CallStep]
      OBVIOUS
    <3>2. exec' \in [Requests -> ExecStep]
      OBVIOUS
    <3> QED BY <3>1, <3>2
  <2>4. CASE ExecutionSettles(r)
    <3> USE <2>4 DEF ExecutionSettles, SettleKnown, SettleUnknown
    <3>1. fin' \in [Ops -> [step : FinStep, status : Terminal \union {"none"}]]
      BY DEF Finalization
    <3>2. cep' \in Mutex(Requests)
      BY ReleaseType
    <3>3. parked' \in [Ops -> SUBSET Requests]
      OBVIOUS
    <3>4. call' \in [Requests -> CallStep] /\ exec' \in [Requests -> ExecStep]
      OBVIOUS
    <3> QED BY <3>1, <3>2, <3>3, <3>4
  <2>5. CASE ExecutionTimesOut(r)
    <3> USE <2>5 DEF ExecutionTimesOut, SettleKnown, SettleUnknown
    <3>1. fin' \in [Ops -> [step : FinStep, status : Terminal \union {"none"}]]
      BY DEF Finalization
    <3>2. cep' \in Mutex(Requests)
      BY ReleaseType
    <3>3. parked' \in [Ops -> SUBSET Requests]
      OBVIOUS
    <3>4. call' \in [Requests -> CallStep]
      OBVIOUS
    <3> QED BY <3>1, <3>2, <3>3, <3>4
  <2>6. CASE Dispatch(r) BY <2>6 DEF Dispatch
  <2>7. CASE LateExecution(r) BY <2>7 DEF LateExecution
  <2> QED
    BY <1>c, <2>1, <2>2, <2>3, <2>4, <2>5, <2>6, <2>7 DEF CallProgress
<1>x. ASSUME NEW r \in Requests, NEW o \in Ops, Execute(r, o) PROVE TypeOK'
  <2> USE <1>x DEF Execute
  <2>1. call' \in [Requests -> CallStep] /\ opOf' \in [Requests -> Ops \union {NoOne}]
    OBVIOUS
  <2>2. cep' \in Mutex(Requests)
    BY AcquireType
  <2> QED BY <2>1, <2>2
<1>a. ASSUME NEW o \in Mutations, AcknowledgeUnknown(o) \/ RecordAcknowledged(o)
      PROVE  TypeOK'
  <2>1. CASE AcknowledgeUnknown(o) BY <2>1 DEF AcknowledgeUnknown
  <2>2. CASE RecordAcknowledged(o)
    <3> USE <2>2 DEF RecordAcknowledged, ReleaseParked
    <3>1. LedgerType'
      BY <1>t, RecordType, AppendFailsType
    <3>2. mutation' \in Mutex(Mutations) /\ cep' \in Mutex(Requests)
      BY ReleaseType
    <3>3. unknown' \subseteq Mutations /\ active' \subseteq Ops /\ parked' \in [Ops -> SUBSET Requests]
      OBVIOUS
    <3> QED BY <3>1, <3>2, <3>3 DEF LedgerType
  <2> QED BY <1>a, <2>1, <2>2
<1>s. CASE Crash
  <2> USE <1>s DEF Crash
  <2>1. mutation' \in Mutex(Mutations) /\ cep' \in Mutex(Requests)
    BY UnlockedIsMutex
  <2>2. fin' \in [Ops -> [step : FinStep, status : Terminal \union {"none"}]]
    OBVIOUS
  <2>3. call' \in [Requests -> CallStep] /\ exec' \in [Requests -> ExecStep]
    OBVIOUS
  <2>4. crashes' \in 0 .. MaxCrashes
    OBVIOUS
  <2> QED BY <2>1, <2>2, <2>3, <2>4
<1>u. CASE UNCHANGED vars
  BY <1>u DEF vars
<1> QED
  BY <1>l, <1>b, <1>e, <1>c, <1>x, <1>a, <1>s, <1>u DEF Next

LEMMA InitType == Init => TypeOK
<1> SUFFICES ASSUME Init PROVE TypeOK
  OBVIOUS
<1>1. mutation \in Mutex(Mutations) /\ cep \in Mutex(Requests)
  BY UnlockedIsMutex DEF Init
<1>2. crashes \in 0 .. MaxCrashes /\ appendFailures \in 0 .. MaxAppendFailures
  BY BoundsAssumption DEF Init
<1>3. fin \in [Ops -> [step : FinStep, status : Terminal \union {"none"}]]
  BY DEF Init, Open, FinStep
<1> QED
  BY <1>1, <1>2, <1>3 DEF Init, TypeOK, Status, LoadStep, BeginStep, CallStep, ExecStep

(* The state of the coordinator is always of its type, whatever fails.     *)
THEOREM TypeCorrect == Spec => []TypeOK
BY InitType, TypeStep, PTL DEF Spec

(***************************************************************************)
(* What holds also when appends fail.                                      *)
(***************************************************************************)

(* An append that succeeds changes one entry.                              *)
LEMMA RecordEffect ==
  ASSUME TypeOK, NEW o \in Ops, NEW s, Record(o, s)
  PROVE  /\ ledger'[o] = s
         /\ \A p \in Ops : p # o => ledger'[p] = ledger[p]
BY DEF TypeOK, Record

(* Before the ledger is loaded no call of this process exists.             *)
LEMMA LoadedFirst ==
  ASSUME FailureInv
  PROVE  /\ \A o \in Ops : begin[o] # "idle" \/ fin[o] # Open \/ o \in active => loaded
         /\ acking # {} \/ unknown # {} => loaded
         /\ \A r \in Requests : call[r] \notin {"idle", "done"} => loaded
<1> USE DEF FailureInv, NothingBeforeLoad
<1>1. \A o \in Ops : begin[o] # "idle" \/ fin[o] # Open \/ o \in active => loaded
  BY DEF Resolution, CallOf
<1>2. acking # {} \/ unknown # {} => loaded
  OBVIOUS
<1>3. \A r \in Requests : call[r] \notin {"idle", "done"} => loaded
  BY DEF CepWait
<1> QED BY <1>1, <1>2, <1>3

(* A step of a daemon that is up keeps what the load has established.      *)
LEMMA LoadedFrame ==
  ASSUME FailureInv, loaded, UNCHANGED loading, used \subseteq used',
         \A o \in Ops : ledger'[o] # "none" => ledger[o] # "none" \/ o \in used
  PROVE  NothingBeforeLoad' /\ LoadState'
BY DEF FailureInv, NothingBeforeLoad, LoadState, loading

LEMMA LoadFrame ==
  ASSUME FailureInv,
         UNCHANGED <<ledger, loading, used, unknown, acking, active, mutation, begin>>
  PROVE  NothingBeforeLoad' /\ LoadState'
BY DEF FailureInv, NothingBeforeLoad, LoadState, CrashLeft, loading

LEMMA MutationFrame ==
  ASSUME MutationWait, UNCHANGED <<mutation, begin>>
  PROVE  MutationWait'
BY DEF MutationWait, Beginning, Queued, IsFifo, Waiting, IsLocked

LEMMA CepFrame ==
  ASSUME CepWait, TypeOK, UNCHANGED <<cep, call, parked, opOf>>,
         \A o \in Ops : begin[o] = "begun" => begin'[o] = "begun"
  PROVE  CepWait'
BY DEF CepWait, CepCallers, Queued, IsFifo, Waiting, IsLocked

LEMMA ResolutionFrame ==
  ASSUME Resolution, UNCHANGED <<ledger, loaded, used, unknown, acking, active, begin, fin>>
  PROVE  Resolution'
BY DEF Resolution, CallOf, QuarantineIsDurable, LoadLeavesNothing

(* A release of the mutation lease by one that does not wait for it.       *)
LEMMA MutationReleased ==
  ASSUME TypeOK, MutationWait, NEW o \in Ops, mutation' = Release(mutation, o),
         o \in Beginning => mutation.holder = o,
         Beginning' = Beginning \ {o},
         \A p \in Mutations : begin'[p] \in {"idle", "queuing"} => begin[p] = begin'[p]
  PROVE  MutationWait'
<1>1. /\ mutation \in Mutex(Mutations) /\ NoOne \notin Mutations
      /\ Beginning \in SUBSET Mutations /\ Queued(mutation, Beginning)
  BY OpsAssumption DEF TypeOK, MutationWait, Beginning
<1>2. /\ Queued(mutation', Beginning \ {o})
      /\ mutation'.holder \in {mutation.holder, NoOne} \union (Beginning \ {o})
  BY <1>1, QueuedRelease
<1>3. Queued(mutation', Beginning')
  BY <1>2
<1>4. ASSUME NEW p \in Mutations, mutation'.holder = p
      PROVE  begin'[p] \notin {"idle", "queuing"}
  BY <1>1, <1>2, <1>4 DEF MutationWait, Beginning
<1> QED BY <1>3, <1>4 DEF MutationWait

(* A release of the CEP lease by a request that is not waiting for it.     *)
LEMMA CepReleased ==
  ASSUME TypeOK, CepWait, NEW r, cep' = Release(cep, r),
         r \in CepCallers => cep.holder = r,
         CepCallers' = CepCallers \ {r},
         \A q \in Requests : call'[q] = "idle" => call[q] = "idle"
  PROVE  /\ Queued(cep', CepCallers')
         /\ \A q \in Requests : cep'.holder = q => call'[q] # "idle"
<1>1. /\ cep \in Mutex(Requests) /\ NoOne \notin Requests
      /\ CepCallers \in SUBSET Requests /\ Queued(cep, CepCallers)
  BY OpsAssumption DEF TypeOK, CepWait, CepCallers
<1>2. /\ Queued(cep', CepCallers \ {r})
      /\ cep'.holder \in {cep.holder, NoOne} \union (CepCallers \ {r})
  BY <1>1, QueuedRelease
<1>3. Queued(cep', CepCallers')
  BY <1>2
<1>4. ASSUME NEW q \in Requests, cep'.holder = q
      PROVE  call'[q] # "idle"
  BY <1>1, <1>2, <1>4 DEF CepWait, CepCallers
<1> QED BY <1>3, <1>4

(* The parked requests have been answered, so none of them is waiting.     *)
LEMMA ParkedReleased ==
  ASSUME TypeOK, CepWait, NEW o \in Ops, ReleaseParked(o), UNCHANGED <<call, opOf, begin>>
  PROVE  CepWait'
<1>1. CepCallers' = CepCallers
  BY DEF CepCallers
<1>2. Queued(cep', CepCallers') /\ \A q \in Requests : cep'.holder = q => call'[q] # "idle"
  <2>1. CASE cep.holder \in parked[o]
    <3>1. cep.holder \in Requests /\ call[cep.holder] = "done" /\ cep' = Release(cep, cep.holder)
      BY <2>1 DEF TypeOK, CepWait, ReleaseParked
    <3>2. cep.holder \notin CepCallers
      BY <3>1 DEF CepCallers
    <3> QED BY <1>1, <3>1, <3>2, CepReleased
  <2>2. CASE cep.holder \notin parked[o]
    BY <1>1, <2>2 DEF CepWait, ReleaseParked
  <2> QED BY <2>1, <2>2
<1>3. \A p \in Ops : \A r \in parked'[p] : call'[r] = "done"
  BY DEF TypeOK, CepWait, ReleaseParked
<1> QED BY <1>2, <1>3 DEF CepWait

(* One caller inside #load: what it is promoting is all that is left.      *)
LEMMA LoadFailure ==
  ASSUME SerialLoad, FailureInv, TypeOK', NEW l \in Loaders, LoadStart(l) \/ LoadProgress(l)
  PROVE  FailureInv'
<1>1. UNCHANGED <<acking, active, begin, fin, mutation, cep, parked, requests>> /\ ~loaded
  BY DEF LoadStart, LoadProgress, LoadIds, LoadScan, LoadPromote, LoadFinish, FailureInv, LoadState
<1>2. MutationWait' /\ CepWait'
  BY <1>1, MutationFrame, CepFrame DEF FailureInv, requests
<1>3. /\ \A o \in Ops : begin[o] = "idle" /\ fin[o] = Open /\ o \notin active
      /\ acking = {} /\ unknown = {} /\ active = {} /\ mutation = Unlocked
  BY <1>1, LoadedFirst DEF FailureInv, NothingBeforeLoad
<1> USE SerialLoad, <1>1, <1>3 DEF FailureInv, LoadState, LoadProgress, bookkeeping, loading
<1>4. \A o \in Ops : CallOf(o)'
  BY DEF CallOf, Open
<1>5. CASE LoadStart(l)
  BY <1>2, <1>4, <1>5 DEF LoadStart, NothingBeforeLoad, TypeOK, CrashLeft, Resolution,
                          QuarantineIsDurable, LoadLeavesNothing
<1>6. CASE LoadIds(l)
  BY <1>2, <1>4, <1>6 DEF LoadIds, NothingBeforeLoad, TypeOK, CrashLeft, Resolution,
                          QuarantineIsDurable, LoadLeavesNothing
<1>7. CASE LoadScan(l)
  BY <1>2, <1>4, <1>7 DEF LoadScan, NothingBeforeLoad, TypeOK, CrashLeft, Resolution,
                          QuarantineIsDurable, LoadLeavesNothing
<1>8. CASE LoadPromote(l)
  <2> USE <1>8 DEF LoadPromote
  <2>1. NothingBeforeLoad' /\ Resolution'
    BY <1>4 DEF NothingBeforeLoad, Resolution, QuarantineIsDurable, LoadLeavesNothing
  <2>2. PICK o \in stale[l] :
          \/ /\ Record(o, "UNKNOWN")
             /\ stale' = [stale EXCEPT ![l] = @ \ {o}]
             /\ UNCHANGED load
          \/ /\ AppendFails
             /\ stale' = [stale EXCEPT ![l] = {}]
             /\ load' = [load EXCEPT ![l] = "idle"]
    OBVIOUS
  <2>3. stale[l] = CrashLeft /\ o \in Mutations /\ o \in Ops /\ ledger[o] \in {"QUEUED", "RUNNING"}
    BY OpsAssumption DEF CrashLeft
  <2>4. CASE /\ Record(o, "UNKNOWN")
             /\ stale' = [stale EXCEPT ![l] = @ \ {o}]
             /\ UNCHANGED load
    <3>1. ledger'[o] = "UNKNOWN" /\ \A p \in Ops : p # o => ledger'[p] = ledger[p]
      BY <2>3, <2>4, RecordEffect
    <3>2. CrashLeft' = CrashLeft \ {o}
      BY <2>3, <3>1, OpsAssumption DEF CrashLeft
    <3>3. stale'[l] = CrashLeft' /\ \A k \in Loaders : k = l
      BY <2>3, <2>4, <3>2 DEF TypeOK, SerialLoad
    <3> HIDE DEF CrashLeft
    <3>4. LoadState'
      BY <2>3, <2>4, <3>1, <3>3
    <3> QED BY <1>2, <2>1, <3>4
  <2>5. CASE /\ AppendFails
             /\ stale' = [stale EXCEPT ![l] = {}]
             /\ load' = [load EXCEPT ![l] = "idle"]
    <3>1. LoadState'
      BY <2>5 DEF TypeOK, SerialLoad
    <3> QED BY <1>2, <2>1, <3>1
  <2> QED BY <2>2, <2>4, <2>5
<1>9. CASE LoadFinish(l)
  <2> USE <1>9 DEF LoadFinish
  <2>1. CrashLeft = {} /\ UNCHANGED ledger
    OBVIOUS
  <2>2. NothingBeforeLoad' /\ LoadState'
    BY DEF NothingBeforeLoad, TypeOK, SerialLoad
  <2>3. unknown' = Unresolved
    OBVIOUS
  <2>4. Resolution'
    BY <1>4, <2>1, <2>3 DEF Resolution, QuarantineIsDurable, LoadLeavesNothing, CrashLeft, Unresolved
  <2> QED BY <1>2, <2>2, <2>4
<1> QED BY <1>5, <1>6, <1>7, <1>8, <1>9

(* The steps of a begin call.                                              *)
LEMMA BeginFailure ==
  ASSUME FailureInv, TypeOK', NEW o \in Ops,
         BeginOperation(o) \/ BeginProgress(o) \/ BeginAgain(o)
  PROVE  FailureInv'
<1>1. /\ UNCHANGED <<loading, unknown, fin, acking, cep, parked, requests>>
      /\ used \subseteq used' /\ loaded
      /\ begin[o] # "begun"
  BY LoadedFirst DEF BeginOperation, BeginProgress, BeginAgain, RecordQueued, BeginLeaseExpires,
     Preflight, RecordRunning, RecordRefusal, loading, requests
<1>2. /\ begin' = [begin EXCEPT ![o] = begin'[o]] /\ begin'[o] # "idle" /\ o \in used'
      /\ \A p \in Ops : p # o => begin'[p] = begin[p]
  BY DEF BeginOperation, BeginProgress, BeginAgain, RecordQueued, BeginLeaseExpires, Preflight,
         RecordRunning, RecordRefusal, FailureInv, TypeOK, Resolution, CallOf
<1>3. CepWait'
  BY <1>1, <1>2, CepFrame DEF FailureInv, requests
<1>4. CallOf(o) /\ fin[o] = Open /\ fin[o].step = "open"
  BY <1>1 DEF FailureInv, Resolution, CallOf, Open
<1>5. /\ \A p \in Ops : p # o => ledger'[p] = ledger[p] /\ (p \in active' <=> p \in active)
      /\ ledger'[o] \in {ledger[o], "QUEUED", "RUNNING", "FAILED"}
      /\ begin'[o] = "queuing" => ledger'[o] = "none"
  <2> USE DEF FailureInv, TypeOK, Record, AppendFails
  <2>1. CASE BeginOperation(o) BY <1>1, <2>1 DEF BeginOperation, LoadState
  <2>2. CASE RecordQueued(o) BY <2>2 DEF RecordQueued
  <2>3. CASE BeginLeaseExpires(o) BY <2>3 DEF BeginLeaseExpires
  <2>4. CASE Preflight(o) BY <2>4 DEF Preflight
  <2>5. CASE RecordRunning(o) BY <2>5 DEF RecordRunning
  <2>6. CASE RecordRefusal(o) BY <2>6 DEF RecordRefusal
  <2>7. CASE BeginAgain(o) BY <2>7 DEF BeginAgain
  <2> QED BY <2>1, <2>2, <2>3, <2>4, <2>5, <2>6, <2>7 DEF BeginProgress
<1>6. ledger[o] \notin {"UNKNOWN", "ACKNOWLEDGED"}
  <2>1. CASE BeginOperation(o)
    BY <1>1, <2>1 DEF BeginOperation, FailureInv, LoadState
  <2>2. CASE ~BeginOperation(o)
    BY <1>4, <2>2 DEF BeginProgress, BeginAgain, RecordQueued, BeginLeaseExpires,
                      Preflight, RecordRunning, RecordRefusal, CallOf
  <2> QED BY <2>1, <2>2
<1>7. NothingBeforeLoad' /\ LoadState'
  BY <1>1, <1>2, <1>5 DEF FailureInv, NothingBeforeLoad, LoadState, loading
<1>8. Resolution'
  <2>1. CallOf(o)'
    BY <1>1, <1>2, <1>4, <1>5, <1>6 DEF CallOf, Open
  <2>2. ASSUME NEW p \in Ops, p # o PROVE CallOf(p)'
    BY <1>1, <1>2, <1>5, <2>2 DEF FailureInv, Resolution, CallOf, Open
  <2>3. o \notin unknown
    BY <1>6 DEF FailureInv, TypeOK, Resolution, QuarantineIsDurable
  <2>4. QuarantineIsDurable' /\ LoadLeavesNothing'
    BY <1>1, <1>2, <1>5, <1>6, <2>3, OpsAssumption
    DEF FailureInv, Resolution, QuarantineIsDurable, LoadLeavesNothing, loading
  <2> QED BY <1>1, <2>1, <2>2, <2>4 DEF FailureInv, Resolution
<1>9. MutationWait'
  <2> USE OpsAssumption DEF FailureInv
  <2>m. /\ mutation \in Mutex(Mutations) /\ NoOne \notin Mutations
        /\ Beginning \in SUBSET Mutations /\ Queued(mutation, Beginning)
    BY DEF TypeOK, MutationWait, Beginning
  <2>b. Beginning' = IF o \in Mutations /\ begin'[o] = "acquiring"
                       THEN Beginning \union {o} ELSE Beginning \ {o}
    BY <1>2 DEF Beginning
  <2>1. CASE BeginOperation(o) \/ RecordRefusal(o) \/ BeginAgain(o)
    <3>1. begin[o] # "acquiring" /\ begin'[o] # "acquiring" /\ UNCHANGED mutation
          /\ (begin'[o] = "queuing" => begin[o] = "idle")
      BY <2>1 DEF BeginOperation, RecordRefusal, BeginAgain, TypeOK
    <3>2. Beginning' = Beginning
      BY <2>b, <3>1 DEF Beginning
    <3> QED BY <1>2, <2>m, <3>1, <3>2 DEF MutationWait
  <2>2. CASE RecordQueued(o)
    <3>1. CASE begin'[o] = "acquiring" /\ o \in Mutations
      <4>1. mutation' = Acquire(mutation, o) /\ begin[o] = "queuing"
        BY <2>2, <3>1 DEF RecordQueued, TypeOK
      <4>2. o \notin Beginning /\ o # mutation.holder
        BY <3>1, <4>1 DEF MutationWait, Beginning
      <4>3. /\ Queued(mutation', Beginning \union {o})
            /\ mutation'.holder \in {mutation.holder, o}
        BY <2>m, <3>1, <4>1, <4>2, QueuedAcquire
      <4>4. Queued(mutation', Beginning')
        BY <2>b, <3>1, <4>3
      <4> QED BY <1>2, <3>1, <4>3, <4>4 DEF MutationWait
    <3>2. CASE ~(begin'[o] = "acquiring" /\ o \in Mutations)
      <4>1. /\ UNCHANGED mutation /\ begin[o] = "queuing" /\ begin'[o] \in {"acquiring", "refused"}
        BY <2>2, <3>2 DEF RecordQueued, TypeOK
      <4>2. Beginning' = Beginning
        BY <2>b, <3>2, <4>1 DEF Beginning
      <4> QED BY <1>2, <2>m, <4>1, <4>2 DEF MutationWait
    <3> QED BY <3>1, <3>2
  <2>3. CASE BeginLeaseExpires(o)
    <3>1. PICK i \in DOMAIN mutation.waiters :
            mutation.waiters[i] = o /\ mutation' = Expire(mutation, i)
      BY <2>3 DEF BeginLeaseExpires
    <3>2. Queued(mutation', Beginning \ {o}) /\ mutation'.holder = mutation.holder
      BY <2>m, <3>1, QueuedExpire
    <3>3. begin'[o] = "failing"
      BY <2>3 DEF BeginLeaseExpires, TypeOK
    <3>4. Queued(mutation', Beginning')
      BY <2>b, <3>2, <3>3
    <3> QED BY <1>2, <3>2, <3>3, <3>4 DEF MutationWait
  <2>4. CASE Preflight(o)
    <3>1. /\ begin[o] = "acquiring" /\ begin'[o] \in {"recording", "failing"}
          /\ o \in Mutations => mutation.holder = o
          /\ UNCHANGED mutation \/ mutation' = Release(mutation, o)
      BY <2>4 DEF Preflight, HasMutationLease, TypeOK
    <3>2. Beginning' = Beginning \ {o}
      BY <2>b, <3>1
    <3>3. CASE mutation' = Release(mutation, o)
      BY <1>2, <3>1, <3>2, <3>3, MutationReleased DEF Beginning
    <3>4. CASE UNCHANGED mutation
      <4>1. Queued(mutation, Beginning \ {o})
        BY <2>m, <3>1 DEF Queued, Beginning
      <4> QED BY <1>2, <3>1, <3>2, <3>4, <4>1 DEF MutationWait
    <3> QED BY <3>1, <3>3, <3>4
  <2>5. CASE RecordRunning(o)
    <3>1. /\ begin[o] = "recording" /\ begin'[o] \in {"begun", "failing"}
          /\ UNCHANGED mutation \/ mutation' = Release(mutation, o)
      BY <2>5 DEF RecordRunning, TypeOK
    <3>2. Beginning' = Beginning \ {o} /\ Beginning' = Beginning
      BY <2>b, <3>1 DEF Beginning
    <3>3. CASE mutation' = Release(mutation, o)
      BY <1>2, <3>1, <3>2, <3>3, MutationReleased DEF Beginning
    <3>4. CASE UNCHANGED mutation
      BY <1>2, <2>m, <3>1, <3>2, <3>4 DEF MutationWait
    <3> QED BY <3>1, <3>3, <3>4
  <2> QED BY <2>1, <2>2, <2>3, <2>4, <2>5 DEF BeginProgress
<1> QED BY <1>3, <1>7, <1>8, <1>9 DEF FailureInv

(* The steps of an end.                                                    *)
LEMMA EndFailure ==
  ASSUME FailureInv, TypeOK', NEW o \in Ops, EndOperation(o) \/ FinProgress(o)
  PROVE  FailureInv'
<1>1. /\ UNCHANGED <<loading, used, begin, acking, requests>>
      /\ begin[o] = "begun" /\ loaded
  BY LoadedFirst DEF EndOperation, FinProgress, Postflight, RecordTerminal, RegisterUnknown,
     loading, requests, FailureInv, Resolution, CallOf, Open
<1>2. \A p \in Ops : p # o => ledger'[p] = ledger[p] /\ fin'[p] = fin[p] /\ (p \in active' <=> p \in active)
  BY DEF EndOperation, FinProgress, Postflight, RecordTerminal, RegisterUnknown,
     FailureInv, TypeOK, Record, AppendFails
<1>3. /\ CallOf(o) /\ o \in used
      /\ ledger'[o] \in {"UNKNOWN", "ACKNOWLEDGED"} =>
           \/ fin'[o].step \in {"registering", "done"} /\ ledger'[o] = "UNKNOWN"
           \/ fin'[o].step = "done" /\ ledger'[o] = ledger[o]
  <2> USE <1>1 DEF FailureInv, Resolution, CallOf, TypeOK, Record, AppendFails, Open
  <2>1. CASE EndOperation(o) BY <2>1 DEF EndOperation
  <2>2. CASE Postflight(o) BY <2>2 DEF Postflight
  <2>3. CASE RecordTerminal(o)
    <3>1. CallOf(o) /\ o \in used /\ ledger[o] \notin {"UNKNOWN", "ACKNOWLEDGED"}
      BY <2>3 DEF RecordTerminal
    <3>2. CASE AppendFails
      BY <3>1, <3>2
    <3>3. CASE Record(o, fin[o].status) /\ fin[o].status = "UNKNOWN"
      <4>1. fin'[o].step \in {"registering", "done"}
        BY <2>3, <3>3 DEF RecordTerminal
      <4> QED BY <3>1, <3>3, <4>1
    <3>4. CASE Record(o, fin[o].status) /\ fin[o].status # "UNKNOWN"
      <4>1. ledger'[o] = fin[o].status /\ fin[o].status \in Terminal \union {"none"}
        BY <3>4
      <4> QED BY <3>1, <3>4, <4>1 DEF Terminal
    <3> QED BY <2>3, <3>2, <3>3, <3>4 DEF RecordTerminal
  <2>4. CASE RegisterUnknown(o) BY <2>4 DEF RegisterUnknown
  <2> QED BY <2>1, <2>2, <2>3, <2>4 DEF FinProgress
<1>4. NothingBeforeLoad' /\ LoadState'
  BY <1>1, <1>2, <1>3 DEF FailureInv, NothingBeforeLoad, LoadState, loading
<1>5. MutationWait'
  <2>1. CASE UNCHANGED mutation
    BY <1>1, <2>1, MutationFrame DEF FailureInv
  <2>2. CASE mutation' = Release(mutation, o)
    <3>1. o \notin Beginning /\ Beginning' = Beginning \ {o} /\ begin' = begin
      BY <1>1 DEF Beginning
    <3> QED BY <2>2, <3>1, MutationReleased DEF FailureInv
  <2> QED BY <2>1, <2>2 DEF EndOperation, FinProgress, Postflight, RecordTerminal, RegisterUnknown
<1>6. CepWait'
  <2>1. CASE UNCHANGED <<cep, parked>>
    BY <1>1, <2>1, CepFrame DEF FailureInv, requests
  <2>2. CASE ReleaseParked(o)
    BY <1>1, <2>2, ParkedReleased DEF FailureInv, requests
  <2> QED BY <2>1, <2>2 DEF EndOperation, FinProgress, Postflight, RecordTerminal, RegisterUnknown
<1>7. Resolution'
  <2>1. \A p \in Ops : CallOf(p)'
    BY <1>1, <1>2, <1>3 DEF FailureInv, Resolution, CallOf
  <2>2. unknown \subseteq unknown' /\ unknown' \subseteq unknown \union {o}
    BY DEF EndOperation, FinProgress, Postflight, RecordTerminal, RegisterUnknown
  <2>3. o \in Mutations /\ o \in unknown' => ledger'[o] = "UNKNOWN"
    <3>1. CASE o \in unknown
      <4>1. o \in Mutations => ledger[o] = "UNKNOWN"
        BY <3>1 DEF FailureInv, Resolution, QuarantineIsDurable
      <4>2. o \in Mutations => ~RecordTerminal(o)
        BY <1>1, <1>3, <4>1 DEF RecordTerminal, CallOf
      <4> QED BY <4>1, <4>2 DEF EndOperation, FinProgress, Postflight, RegisterUnknown
    <3>2. CASE o \notin unknown
      BY <3>2 DEF EndOperation, FinProgress, Postflight, RecordTerminal, RegisterUnknown, Unresolved
    <3> QED BY <3>1, <3>2
  <2>4. o \in Mutations /\ ledger'[o] = "UNKNOWN" => o \in unknown' \/ fin'[o].step = "registering"
    <3> USE <1>1, <1>3 DEF FailureInv, Resolution, QuarantineIsDurable, TypeOK, CallOf
    <3>1. CASE EndOperation(o) BY <3>1 DEF EndOperation, Open
    <3>2. CASE Postflight(o) BY <3>2 DEF Postflight
    <3>3. CASE RecordTerminal(o) BY <3>3 DEF RecordTerminal, Record, AppendFails
    <3>4. CASE RegisterUnknown(o) BY <3>4 DEF RegisterUnknown, Unresolved
    <3> QED BY <3>1, <3>2, <3>3, <3>4 DEF FinProgress
  <2>5. QuarantineIsDurable'
    BY <1>1, <1>2, <2>2, <2>3, <2>4, OpsAssumption
    DEF FailureInv, Resolution, QuarantineIsDurable, loading
  <2>6. LoadLeavesNothing'
    BY <1>1, <1>2, OpsAssumption DEF FailureInv, Resolution, LoadLeavesNothing, loading
  <2> QED BY <1>1, <2>1, <2>2, <2>5, <2>6 DEF FailureInv, Resolution
<1> QED BY <1>4, <1>5, <1>6, <1>7 DEF FailureInv

(* The steps of a sub-request.  One without a known outcome may start the  *)
(* finalization of its operation.                                          *)
LEMMA CallFailure ==
  ASSUME FailureInv, TypeOK', NEW r \in Requests,
         \/ CallProgress(r) \/ Dispatch(r) \/ LateExecution(r)
         \/ \E o \in Ops : Execute(r, o)
  PROVE  FailureInv'
<1>1. UNCHANGED <<ledger, loading, used, unknown, acking, active, mutation, begin>>
  BY DEF CallProgress, CepLeaseExpires, StartExecutor, UxpChecked, ExecutionSettles,
     ExecutionTimesOut, Dispatch, LateExecution, Execute
<1>2. NothingBeforeLoad' /\ LoadState' /\ MutationWait'
  BY <1>1, LoadFrame, MutationFrame DEF FailureInv
<1>3. \/ fin' = fin
      \/ \E o \in Ops : /\ fin[o] = Open /\ begin[o] = "begun"
                        /\ fin' = [fin EXCEPT ![o] = [step |-> "recording", status |-> "UNKNOWN"]]
  <2>1. CASE ExecutionSettles(r) \/ ExecutionTimesOut(r)
    <3>1. opOf[r] \in Ops /\ begin[opOf[r]] = "begun"
      BY <2>1 DEF ExecutionSettles, ExecutionTimesOut, FailureInv, CepWait
    <3> QED BY <2>1, <3>1 DEF ExecutionSettles, ExecutionTimesOut, SettleKnown, SettleUnknown, Finalization
  <2>2. CASE ~(ExecutionSettles(r) \/ ExecutionTimesOut(r))
    BY <2>2 DEF CallProgress, CepLeaseExpires, StartExecutor, UxpChecked, Dispatch, LateExecution, Execute
  <2> QED BY <2>1, <2>2
<1>4. Resolution'
  <2>1. CASE fin' = fin
    BY <1>1, <2>1, ResolutionFrame DEF FailureInv, loading
  <2>2. ASSUME NEW o \in Ops, fin[o] = Open, begin[o] = "begun",
               fin' = [fin EXCEPT ![o] = [step |-> "recording", status |-> "UNKNOWN"]]
        PROVE  Resolution'
    <3>1. /\ fin'[o].step = "recording" /\ fin[o].step = "open" /\ \A p \in Ops : p # o => fin'[p] = fin[p]
      BY <2>2 DEF FailureInv, TypeOK, Open
    <3>2. \A p \in Ops : CallOf(p)'
      BY <1>1, <2>2, <3>1 DEF FailureInv, Resolution, CallOf, Open
    <3>3. QuarantineIsDurable'
      BY <1>1, <3>1, OpsAssumption DEF FailureInv, Resolution, QuarantineIsDurable, loading
    <3>4. LoadLeavesNothing'
      BY <1>1 DEF FailureInv, Resolution, LoadLeavesNothing, loading
    <3> QED BY <1>1, <3>2, <3>3, <3>4 DEF FailureInv, Resolution
  <2> QED BY <1>3, <2>1, <2>2
<1>5. CepWait'
  <2> USE OpsAssumption DEF FailureInv
  <2>c. /\ cep \in Mutex(Requests) /\ NoOne \notin Requests
        /\ CepCallers \in SUBSET Requests /\ Queued(cep, CepCallers)
    BY DEF TypeOK, CepWait, CepCallers
  <2>1. CASE Dispatch(r) \/ LateExecution(r)
    BY <1>1, <2>1, CepFrame DEF Dispatch, LateExecution
  <2>2. ASSUME NEW o \in Ops, Execute(r, o) PROVE CepWait'
    <3> USE <2>2 DEF Execute
    <3>0. /\ call[r] = "idle" /\ cep.holder # r /\ r \notin CepCallers
          /\ call'[r] \in {"checking", "acquiring"} /\ opOf'[r] = o /\ begin'[o] = "begun"
          /\ \A q \in Requests : q # r => call'[q] = call[q] /\ opOf'[q] = opOf[q]
      BY <1>1 DEF TypeOK, CepWait, CepCallers, OwnerMaySend
    <3>1. /\ \A p \in Ops : \A q \in parked'[p] : call'[q] = "done"
          /\ \A q \in Requests :
               call'[q] \notin {"idle", "done"} => opOf'[q] \in Ops /\ begin'[opOf'[q]] = "begun"
      BY <1>1, <3>0 DEF TypeOK, CepWait
    <3>2. CASE call'[r] = "acquiring"
      <4>1. cep' = Acquire(cep, r) /\ CepCallers' = CepCallers \union {r}
        BY <3>0, <3>2 DEF TypeOK, CepCallers
      <4>2. Queued(cep', CepCallers \union {r}) /\ cep'.holder \in {cep.holder, r}
        BY <2>c, <3>0, <4>1, QueuedAcquire
      <4>3. Queued(cep', CepCallers')
        BY <4>1, <4>2
      <4> QED BY <3>0, <3>1, <4>2, <4>3 DEF CepWait
    <3>3. CASE call'[r] = "checking"
      <4>1. cep' = cep /\ CepCallers' = CepCallers
        BY <3>0, <3>3 DEF TypeOK, CepCallers
      <4>2. Queued(cep', CepCallers')
        BY <2>c, <4>1
      <4> QED BY <3>0, <3>1, <4>1, <4>2 DEF CepWait
    <3> QED BY <3>0, <3>2, <3>3
  <2>3. CASE CallProgress(r)
    <3>0. /\ call[r] \in {"acquiring", "checking", "racing"} /\ call'[r] \in {"racing", "done"}
          /\ UNCHANGED opOf /\ \A q \in Requests : q # r => call'[q] = call[q]
      BY <2>3 DEF CallProgress, CepLeaseExpires, StartExecutor, UxpChecked, ExecutionSettles,
                  ExecutionTimesOut, TypeOK
    <3>1. CepCallers' = CepCallers \ {r}
      BY <3>0 DEF CepCallers
    <3>2. \A q \in Requests :
            call'[q] \notin {"idle", "done"} => opOf'[q] \in Ops /\ begin'[opOf'[q]] = "begun"
      BY <1>1, <3>0 DEF CepWait
    <3>3. /\ \A q \in Requests : call'[q] = "idle" => call[q] = "idle"
          /\ \A q \in Requests : call[q] = "done" => call'[q] = "done"
      BY <3>0
    <3>4. \A p \in Ops : \A q \in parked'[p] : call'[q] = "done"
      <4>1. CASE UNCHANGED parked
        BY <3>3, <4>1 DEF CepWait, TypeOK
      <4>2. CASE SettleUnknown(r) /\ call'[r] = "done"
        BY <3>3, <4>2 DEF CepWait, SettleUnknown, TypeOK
      <4>3. UNCHANGED parked \/ (SettleUnknown(r) /\ call'[r] = "done")
        BY <2>3 DEF CallProgress, CepLeaseExpires, StartExecutor, UxpChecked, ExecutionSettles,
                    ExecutionTimesOut, TypeOK, SettleKnown
      <4> QED BY <4>1, <4>2, <4>3
    <3>5. Queued(cep', CepCallers') /\ \A q \in Requests : cep'.holder = q => call'[q] # "idle"
      <4>1. CASE cep' = Release(cep, r) /\ (call[r] = "acquiring" => cep.holder = r)
        BY <3>1, <3>3, <4>1, CepReleased DEF CepCallers
      <4>2. CASE UNCHANGED cep /\ (call[r] = "acquiring" => cep.holder = r)
        <5>1. Queued(cep, CepCallers \ {r})
          BY <2>c, <4>2 DEF Queued, CepCallers
        <5>2. Queued(cep', CepCallers')
          BY <3>1, <4>2, <5>1
        <5> QED BY <3>3, <4>2, <5>2 DEF CepWait
      <4>3. CASE CepLeaseExpires(r)
        <5>1. PICK i \in DOMAIN cep.waiters : cep.waiters[i] = r /\ cep' = Expire(cep, i)
          BY <4>3 DEF CepLeaseExpires
        <5>2. Queued(cep', CepCallers \ {r}) /\ cep'.holder = cep.holder
          BY <2>c, <5>1, QueuedExpire
        <5>3. Queued(cep', CepCallers')
          BY <3>1, <5>2
        <5> QED BY <3>3, <5>2, <5>3 DEF CepWait
      <4> QED BY <2>3, <4>1, <4>2, <4>3 DEF CallProgress, StartExecutor, UxpChecked, ExecutionSettles,
                                            ExecutionTimesOut, SettleKnown, SettleUnknown
    <3> QED BY <3>2, <3>4, <3>5 DEF CepWait
  <2> QED BY <2>1, <2>2, <2>3
<1> QED BY <1>2, <1>4, <1>5 DEF FailureInv

(* The steps of an acknowledgement: what is acknowledged is not waiting.   *)
LEMMA AcknowledgeFailure ==
  ASSUME FailureInv, TypeOK', NEW o \in Mutations, AcknowledgeUnknown(o) \/ RecordAcknowledged(o)
  PROVE  FailureInv'
<1>1. UNCHANGED <<loading, used, begin, fin, requests>> /\ o \in Ops /\ o \in unknown /\ loaded
  BY OpsAssumption, LoadedFirst
  DEF AcknowledgeUnknown, RecordAcknowledged, FailureInv, Resolution, loading, requests
<1>2. /\ ledger[o] = "UNKNOWN"
      /\ begin[o] # "idle" => begin[o] = "begun" /\ fin[o].step \in {"registering", "done"}
      /\ ledger[o] # "none" => o \in used
  BY <1>1 DEF FailureInv, Resolution, QuarantineIsDurable, CallOf, Open, LoadState
<1>3. /\ \A p \in Ops : p # o => ledger'[p] = ledger[p] /\ (p \in unknown' <=> p \in unknown)
                                 /\ (p \in active' <=> p \in active)
      /\ active' \subseteq active
      /\ acking' \subseteq unknown'
      /\ \/ ledger'[o] = "UNKNOWN" /\ o \in unknown'
         \/ ledger'[o] = "ACKNOWLEDGED" /\ o \notin unknown'
  BY <1>1, <1>2
  DEF AcknowledgeUnknown, RecordAcknowledged, FailureInv, TypeOK, Resolution, Record, AppendFails
<1>4. NothingBeforeLoad' /\ LoadState'
  BY <1>1, <1>2, <1>3 DEF FailureInv, NothingBeforeLoad, LoadState, loading
<1>5. MutationWait'
  <2>1. CASE UNCHANGED mutation
    BY <1>1, <2>1, MutationFrame DEF FailureInv
  <2>2. CASE mutation' = Release(mutation, o)
    <3>1. o \notin Beginning /\ Beginning' = Beginning \ {o} /\ begin' = begin
      BY <1>1, <1>2 DEF Beginning
    <3> QED BY <1>1, <2>2, <3>1, MutationReleased DEF FailureInv
  <2> QED BY <2>1, <2>2 DEF AcknowledgeUnknown, RecordAcknowledged
<1>6. CepWait'
  <2>1. CASE UNCHANGED <<cep, parked>>
    BY <1>1, <2>1, CepFrame DEF FailureInv, requests
  <2>2. CASE ReleaseParked(o)
    BY <1>1, <2>2, ParkedReleased DEF FailureInv, requests
  <2> QED BY <2>1, <2>2 DEF AcknowledgeUnknown, RecordAcknowledged
<1>7. Resolution'
  <2>1. \A p \in Ops : CallOf(p)'
    BY <1>1, <1>2, <1>3 DEF FailureInv, Resolution, CallOf
  <2>2. QuarantineIsDurable' /\ LoadLeavesNothing'
    BY <1>1, <1>3, OpsAssumption
    DEF FailureInv, Resolution, QuarantineIsDurable, LoadLeavesNothing, loading
  <2> QED BY <1>3, <2>1, <2>2 DEF FailureInv, Resolution
<1> QED BY <1>4, <1>5, <1>6, <1>7 DEF FailureInv

LEMMA QueuedNobody == Queued(Unlocked, {}) /\ Unlocked.holder = NoOne
BY QueuedUnlocked DEF Unlocked

LEMMA CrashFailure ==
  ASSUME FailureInv, TypeOK', Crash
  PROVE  FailureInv'
<1> USE DEF Crash
<1>1. NothingBeforeLoad' /\ LoadState'
  BY DEF NothingBeforeLoad, LoadState
<1>2. MutationWait'
  <2>1. Beginning' = {} /\ mutation' = Unlocked
    BY OpsAssumption DEF Beginning
  <2> QED BY <2>1, QueuedNobody, OpsAssumption DEF MutationWait
<1>3. CepWait'
  <2>1. CepCallers' = {} /\ cep' = Unlocked
    BY DEF CepCallers
  <2>2. \A r \in Requests : call'[r] \in {"idle", "done"}
    OBVIOUS
  <2>3. \A o \in Ops : parked'[o] = {}
    OBVIOUS
  <2> QED BY <2>1, <2>2, <2>3, QueuedNobody, OpsAssumption DEF CepWait
<1>4. Resolution'
  BY DEF Resolution, CallOf, QuarantineIsDurable, LoadLeavesNothing
<1> QED BY <1>1, <1>2, <1>3, <1>4 DEF FailureInv

(* Appends may fail at any time.                                           *)
THEOREM FailureInvariance ==
  ASSUME SerialLoad
  PROVE  Spec => []FailureInv
<1>1. Init => FailureInv
  <2> SUFFICES ASSUME Init PROVE FailureInv
    OBVIOUS
  <2>1. TypeOK
    BY InitType
  <2> USE DEF Init
  <2>2. NothingBeforeLoad /\ LoadState
    BY DEF NothingBeforeLoad, LoadState
  <2>3. Beginning = {} /\ CepCallers = {}
    BY OpsAssumption DEF Beginning, CepCallers
  <2>4. MutationWait /\ CepWait
    BY <2>3, QueuedNobody, OpsAssumption DEF MutationWait, CepWait
  <2>5. Resolution
    BY OpsAssumption DEF Resolution, CallOf, QuarantineIsDurable, LoadLeavesNothing
  <2> QED BY <2>1, <2>2, <2>4, <2>5 DEF FailureInv
<1>2. FailureInv /\ [Next]_vars => FailureInv'
  <2> SUFFICES ASSUME FailureInv, [Next]_vars PROVE FailureInv'
    OBVIOUS
  <2>0. TypeOK'
    BY TypeStep DEF FailureInv
  <2>1. CASE Next
    BY <2>0, <2>1, LoadFailure, BeginFailure, EndFailure, CallFailure, AcknowledgeFailure, CrashFailure
    DEF Next
  <2>2. CASE UNCHANGED vars
    <3> USE <2>2 DEF vars, FailureInv, loading, requests
    <3>1. NothingBeforeLoad' /\ LoadState'
      BY LoadFrame
    <3>2. MutationWait' /\ CepWait' /\ Resolution'
      BY MutationFrame, CepFrame, ResolutionFrame
    <3> QED BY <2>0, <3>1, <3>2
  <2> QED BY <2>1, <2>2
<1> QED BY <1>1, <1>2, PTL DEF Spec

(* A caller waits for a lease exactly as long as it is in the queue: no    *)
(* waiter is dropped, none whose deadline has passed is granted the lease, *)
(* and a lease somebody waits for is held, also when appends fail.         *)
THEOREM WaitersKept ==
  ASSUME SerialLoad
  PROVE  Spec => []NoLostWaiter
<1>1. FailureInv => NoLostWaiter
  <2> SUFFICES ASSUME FailureInv PROVE NoLostWaiter
    OBVIOUS
  <2>1. /\ IsFifo(mutation) /\ Waiting(mutation) = Beginning \ {mutation.holder}
        /\ IsFifo(cep) /\ Waiting(cep) = CepCallers \ {cep.holder}
    BY DEF FailureInv, MutationWait, CepWait, Queued
  <2> QED BY <2>1 DEF NoLostWaiter, Beginning, CepCallers, IsFifo
<1> QED BY <1>1, FailureInvariance, PTL

(* A load that finishes has resolved everything an earlier process left in *)
(* progress, also if an append failed in an earlier attempt.               *)
THEOREM LoadIsComplete ==
  ASSUME SerialLoad
  PROVE  Spec => []LoadLeavesNothing
<1>1. FailureInv => LoadLeavesNothing
  BY DEF FailureInv, Resolution
<1> QED BY <1>1, FailureInvariance, PTL

(* The quarantine in memory is the one a restart would restore, also when  *)
(* appends fail.                                                           *)
THEOREM QuarantineDurable ==
  ASSUME SerialLoad
  PROVE  Spec => []QuarantineIsDurable
<1>1. FailureInv => QuarantineIsDurable
  BY DEF FailureInv, Resolution
<1> QED BY <1>1, FailureInvariance, PTL

(* With one caller at a time inside #load, only what an earlier process    *)
(* left behind is promoted to UNKNOWN, never an operation of this one,     *)
(* also when appends fail.                                                 *)
THEOREM PromotesOnlyCrashLeft ==
  ASSUME SerialLoad
  PROVE  Spec => OnlyCrashLeftPromoted
<1> DEFINE Spares == \A o \in Mutations :
             ledger[o] \in {"QUEUED", "RUNNING"} /\ ledger'[o] = "UNKNOWN"
               => begin[o] = "idle" \/ fin[o].step = "recording"
<1>1. FailureInv /\ [Next]_vars => [Spares]_vars
  <2> SUFFICES ASSUME FailureInv, [Next]_vars, NEW p \in Mutations,
                      ledger[p] \in {"QUEUED", "RUNNING"}, ledger'[p] = "UNKNOWN"
               PROVE  begin[p] = "idle" \/ fin[p].step = "recording"
    OBVIOUS
  <2>0. p \in Ops /\ Mutations \subseteq Ops
    BY OpsAssumption DEF FailureInv
  <2>1. ASSUME NEW o \in Ops, NEW s, Record(o, s), s # "UNKNOWN"
        PROVE  FALSE
    BY <2>0, <2>1, RecordEffect DEF FailureInv
  <2>f. ledger' # ledger /\ ~AppendFails
    BY DEF AppendFails
  <2>2. CASE \E l \in Loaders : LoadStart(l) \/ LoadProgress(l)
    <3>1. ~loaded
      BY <2>f, <2>2 DEF LoadStart, LoadProgress, LoadIds, LoadScan, LoadPromote, LoadFinish,
                        FailureInv, LoadState
    <3> QED BY <2>0, <3>1 DEF FailureInv, NothingBeforeLoad
  <2>3. CASE \E o \in Ops : BeginOperation(o) \/ BeginProgress(o) \/ BeginAgain(o)
    <3> PICK o \in Ops : BeginOperation(o) \/ BeginProgress(o) \/ BeginAgain(o)
      BY <2>3
    <3>1. \E s \in {"QUEUED", "RUNNING", "FAILED"} : Record(o, s)
      BY <2>f DEF BeginOperation, BeginProgress, BeginAgain, RecordQueued,
                  BeginLeaseExpires, Preflight, RecordRunning, RecordRefusal
    <3> QED BY <2>1, <3>1
  <2>4. CASE \E o \in Ops : EndOperation(o) \/ FinProgress(o)
    <3> PICK o \in Ops : EndOperation(o) \/ FinProgress(o)
      BY <2>4
    <3>1. CASE RecordTerminal(o)
      <4>1. fin[o].step = "recording" /\ Record(o, fin[o].status)
        BY <2>f, <3>1 DEF RecordTerminal
      <4>2. o = p
        BY <2>0, <4>1, RecordEffect DEF FailureInv
      <4> QED BY <4>1, <4>2
    <3>2. CASE EndOperation(o) \/ Postflight(o) \/ RegisterUnknown(o)
      BY <3>2 DEF EndOperation, Postflight, RegisterUnknown
    <3> QED BY <3>1, <3>2 DEF FinProgress
  <2>5. CASE \E o \in Mutations : AcknowledgeUnknown(o) \/ RecordAcknowledged(o)
    BY <2>0, <2>1, <2>5, <2>f DEF AcknowledgeUnknown, RecordAcknowledged
  <2>6. CASE \/ \E r \in Requests : CallProgress(r) \/ Dispatch(r) \/ LateExecution(r)
             \/ \E r \in Requests, o \in Ops : Execute(r, o)
             \/ Crash
             \/ UNCHANGED vars
    BY <2>6 DEF CallProgress, CepLeaseExpires, StartExecutor, UxpChecked, ExecutionSettles,
                ExecutionTimesOut, Dispatch, LateExecution, Execute, Crash, vars
  <2> QED BY <2>2, <2>3, <2>4, <2>5, <2>6 DEF Next
<1> QED BY <1>1, FailureInvariance, PTL DEF Spec, OnlyCrashLeftPromoted
=============================================================================
