------------------------ MODULE CoordinatorSafetyProofs ------------------------
(***************************************************************************)
(* The safety of the operation coordinator, for any operations and         *)
(* requests and any number of crashes, as long as one caller at a time is  *)
(* inside #load and the ledger takes every append.                         *)
(***************************************************************************)
EXTENDS OperationCoordinatorProofs

(* With a reliable ledger an append only ever records its entry.           *)
LEMMA NoAppendFails ==
  ASSUME TypeOK, ReliableLedger
  PROVE  ~AppendFails
BY BoundsAssumption DEF TypeOK, ReliableLedger, AppendFails

(* Whoever a release lets in was waiting, and whoever releases is out.     *)
LEMMA LeaseReleased ==
  ASSUME TypeOK, LeaseState, BeginState, NEW o \in Ops, mutation' = Release(mutation, o)
  PROVE  /\ IsFifo(mutation')
         /\ mutation.holder # o => mutation' = mutation
         /\ mutation.holder = o =>
              /\ o \in Mutations
              /\ \/ ~IsLocked(mutation') /\ Waiting(mutation') = {}
                 \/ /\ mutation'.holder \in Mutations \ {o}
                    /\ begin[mutation'.holder] = "acquiring"
                    /\ mutation'.holder \in Waiting(mutation)
                    /\ mutation'.holder \notin Waiting(mutation')
              /\ Waiting(mutation') \subseteq Waiting(mutation) \ {o}
              /\ \A p \in Mutations : p # o => p \notin active
<1>1. mutation \in Mutex(Mutations) /\ NoOne \notin Mutations /\ Mutations \subseteq Ops
  BY OpsAssumption DEF TypeOK
<1>2. IsFifo(mutation)
  BY DEF LeaseState
<1>3. /\ IsFifo(mutation')
      /\ mutation.holder # o => mutation' = mutation
      /\ mutation.holder = o /\ Waiting(mutation) = {} => mutation' = Unlocked
      /\ mutation.holder = o /\ Waiting(mutation) # {} =>
           /\ mutation'.holder \in Waiting(mutation)
           /\ Waiting(mutation') = Waiting(mutation) \ {mutation'.holder}
  BY <1>1, <1>2, ReleaseLemma
<1>4. mutation.holder = o => o \in Mutations
  BY <1>1, OpsAssumption DEF Mutex
<1>5. Waiting(mutation) \subseteq Mutations
  BY <1>1 DEF Waiting, Mutex
<1>6. mutation.holder \notin Waiting(mutation)
  BY <1>2 DEF IsFifo
<1>7. \A p \in Waiting(mutation) : begin[p] = "acquiring"
  BY <1>5 DEF LeaseState
<1>8. \A p \in Mutations : p \in active => mutation.holder = p
  BY DEF LeaseState
<1>9. mutation' = Unlocked => ~IsLocked(mutation') /\ Waiting(mutation') = {}
  BY UnlockedIsMutex DEF IsLocked, Unlocked
<1> QED
  BY <1>3, <1>4, <1>5, <1>6, <1>7, <1>8, <1>9

(* An operation whose sub-request is about to reach the host is alone: any *)
(* other script in the host belongs to an acknowledged mutation.           *)
LEMMA LiveMutationIsAlone ==
  ASSUME IInv, HonestOwners, NEW o \in Mutations, NEW p \in Mutations, o # p,
         o \in active, InHost(p)
  PROVE  ledger[p] = "ACKNOWLEDGED"
<1> SUFFICES ASSUME ledger[p] # "ACKNOWLEDGED" PROVE FALSE
  OBVIOUS
<1>0. o \in Ops /\ p \in Ops /\ p # NoOne
  BY OpsAssumption
<1>1. mutation.holder = o /\ unknown \subseteq {o}
  BY DEF IInv, LeaseState, QuarantineState, QuarantineExcludesMutation
<1>2. loaded
  BY DEF IInv, NothingBeforeLoad
<1>3. PICK r \in Requests : opOf[r] = p /\ exec[r] = "dispatched"
  BY DEF InHost
<1>4. Busy(r)
  BY <1>3 DEF Busy
<1>5. CASE begin[p] = "idle"
  <2>1. ledger[p] \in {"RUNNING", "UNKNOWN"}
    BY <1>3, <1>4, <1>5 DEF IInv, RequestState
  <2>2. ledger[p] = "UNKNOWN"
    BY <1>2, <1>5, <2>1 DEF IInv, QuarantineState, CrashLeft
  <2>3. fin[p].step # "registering"
    BY <1>0, <1>5 DEF IInv, BeginState, Open
  <2> QED
    BY <1>1, <1>2, <2>2, <2>3 DEF IInv, QuarantineState, QuarantineIsDurable
<1>6. CASE begin[p] # "idle"
  <2>1. p \in active
    BY <1>3, <1>4, <1>6 DEF IInv, RequestState
  <2> QED
    BY <1>1, <2>1 DEF IInv, LeaseState
<1> QED
  BY <1>5, <1>6

(* The steps of a sub-request leave everything else alone, but for the     *)
(* finalization that an unknown outcome starts.                            *)
LEMMA RequestFrame ==
  ASSUME IInv, TypeOK',
         UNCHANGED <<ledger, loading, used, unknown, active, begin, acking, mutation, fin>>
  PROVE  /\ NothingBeforeLoad' /\ LoadState' /\ BeginState' /\ FinState'
         /\ LeaseState' /\ QuarantineState'
<1> USE DEF IInv, loading
<1>1. NothingBeforeLoad' BY DEF NothingBeforeLoad
<1>2. LoadState' BY DEF LoadState, CrashLeft
<1>3. BeginState' BY DEF BeginState
<1>4. FinState' BY DEF FinState
<1>5. LeaseState' BY DEF LeaseState, IsFifo, Waiting, IsLocked
<1>6. QuarantineState'
  BY DEF QuarantineState, QuarantineIsDurable, QuarantineExcludesMutation, CrashLeft, IsLocked
<1> QED BY <1>1, <1>2, <1>3, <1>4, <1>5, <1>6

LEMMA RequestSteps ==
  ASSUME IInv, TypeOK', NEW r \in Requests,
         CepLeaseExpires(r) \/ StartExecutor(r) \/ UxpChecked(r) \/ Dispatch(r) \/ LateExecution(r)
  PROVE  IInv'
<1>1. UNCHANGED <<ledger, loading, used, unknown, active, begin, acking, mutation, fin, opOf>>
  BY DEF CepLeaseExpires, StartExecutor, UxpChecked, Dispatch, LateExecution
<1>2. /\ NothingBeforeLoad' /\ LoadState' /\ BeginState' /\ FinState'
      /\ LeaseState' /\ QuarantineState'
  BY <1>1, RequestFrame
<1>3. RequestState'
  <2> USE <1>1 DEF IInv, RequestState, TypeOK, Busy
  <2>1. CASE CepLeaseExpires(r) BY <2>1 DEF CepLeaseExpires
  <2>2. CASE StartExecutor(r) BY <2>2, OpsAssumption DEF StartExecutor
  <2>3. CASE UxpChecked(r) BY <2>3 DEF UxpChecked
  <2>4. CASE Dispatch(r) BY <2>4 DEF Dispatch
  <2>5. CASE LateExecution(r) BY <2>5 DEF LateExecution
  <2> QED BY <2>1, <2>2, <2>3, <2>4, <2>5
<1>4. \A q \in Requests : exec'[q] = "dispatched" =>
        \/ exec[q] = "dispatched"
        \/ /\ q = r
           /\ Busy(r)
           /\ ~(call[r] = "done" /\ exec[r] = "dispatched")
  <2> USE DEF IInv, TypeOK, Busy
  <2>1. CASE CepLeaseExpires(r) BY <2>1 DEF CepLeaseExpires
  <2>2. CASE StartExecutor(r) BY <2>2 DEF StartExecutor
  <2>3. CASE UxpChecked(r) BY <2>3 DEF UxpChecked
  <2>4. CASE Dispatch(r) BY <2>4 DEF Dispatch
  <2>5. CASE LateExecution(r) BY <2>5 DEF LateExecution
  <2> QED BY <2>1, <2>2, <2>3, <2>4, <2>5
<1>5. MutationsExclude'
  <2> SUFFICES ASSUME HonestOwners, NEW o \in Mutations, NEW p \in Mutations, o # p,
                      InHost(o)', InHost(p)',
                      ledger[o] # "ACKNOWLEDGED", ledger[p] # "ACKNOWLEDGED"
               PROVE  FALSE
    BY <1>1 DEF MutationsExclude, NoOverlappingMutations
  <2>1. ASSUME NEW x \in Mutations, InHost(x)', ~InHost(x), ledger[x] # "ACKNOWLEDGED"
        PROVE  opOf[r] = x /\ x \in active
    BY <1>1, <1>4, <2>1 DEF InHost, IInv, RequestState
  <2>2. CASE InHost(o) /\ InHost(p)
    BY <2>2 DEF IInv, MutationsExclude, NoOverlappingMutations
  <2>3. CASE ~InHost(o)
    <3>1. InHost(p)
      BY <2>1, <2>3
    <3> QED BY <2>1, <2>3, <3>1, LiveMutationIsAlone
  <2>4. CASE InHost(o) /\ ~InHost(p)
    BY <2>1, <2>4, LiveMutationIsAlone
  <2> QED BY <2>2, <2>3, <2>4
<1> QED
  BY <1>2, <1>3, <1>5 DEF IInv

(* A step that sends nothing to the host cannot make two mutations overlap. *)
LEMMA HostFrame ==
  ASSUME NoOverlappingMutations,
         \A q \in Requests :
           exec'[q] = "dispatched" => exec[q] = "dispatched" /\ opOf'[q] = opOf[q],
         \A o \in Mutations : ledger[o] = "ACKNOWLEDGED" => ledger'[o] = "ACKNOWLEDGED"
  PROVE  NoOverlappingMutations'
BY DEF NoOverlappingMutations, InHost

(* A call that ends, with a known outcome or without.  Only an operation   *)
(* that is still open gets a finalization from it.                         *)
LEMMA SettleSteps ==
  ASSUME IInv, TypeOK', NEW r \in Requests,
         ExecutionSettles(r) \/ ExecutionTimesOut(r)
  PROVE  IInv'
<1> DEFINE o == opOf[r]
<1>1. /\ UNCHANGED <<ledger, loading, used, unknown, active, begin, acking, mutation, opOf>>
      /\ call[r] = "racing"
      /\ call' = [call EXCEPT ![r] = "done"]
      /\ exec' = exec \/ exec' = [exec EXCEPT ![r] = "finished"]
  BY DEF ExecutionSettles, ExecutionTimesOut
<1>2. o \in Ops /\ begin[o] = "begun" /\ loaded
  BY <1>1 DEF IInv, TypeOK, RequestState, NothingBeforeLoad
<1>3. \/ fin' = fin
      \/ /\ o \in Mutations /\ o \in active /\ fin[o] = Open
         /\ fin' = [fin EXCEPT ![o] = [step |-> "recording", status |-> "UNKNOWN"]]
  BY DEF ExecutionSettles, ExecutionTimesOut, SettleKnown, SettleUnknown, Finalization
<1>4. /\ exec'[r] = "finished"
      \/ /\ o \notin Mutations
      \/ /\ o \in Mutations
         /\ o \in active => fin'[o] # Open
         /\ exec' = exec
  <2>1. CASE ExecutionSettles(r)
    BY <2>1 DEF ExecutionSettles, IInv, TypeOK
  <2>2. CASE ExecutionTimesOut(r)
    BY <2>2, <1>2 DEF ExecutionTimesOut, SettleUnknown, IInv, TypeOK, Open, Finalization
  <2> QED BY <2>1, <2>2
<1> HIDE DEF o
<1>5. NothingBeforeLoad' /\ LoadState' /\ LeaseState'
  BY <1>1 DEF IInv, NothingBeforeLoad, LoadState, CrashLeft, LeaseState, IsFifo, Waiting,
              IsLocked, loading
<1>6. BeginState'
  BY <1>1, <1>2, <1>3 DEF IInv, TypeOK, BeginState
<1>7. FinState'
  BY <1>1, <1>2, <1>3 DEF IInv, TypeOK, FinState, Open
<1>8. QuarantineState'
  <2>1. \A p \in Ops : fin[p].step = "registering" => fin'[p].step = "registering"
    BY <1>2, <1>3 DEF IInv, TypeOK, Open
  <2> QED
    BY <1>1, <2>1, OpsAssumption DEF IInv, QuarantineState, QuarantineIsDurable,
         QuarantineExcludesMutation, CrashLeft, IsLocked, loading
<1>9. RequestState'
  <2>1. \A q \in Requests :
          opOf[q] \in Mutations /\ fin[opOf[q]].status \in {"none", "UNKNOWN"} =>
            /\ fin'[opOf[q]].status \in {"none", "UNKNOWN"}
            /\ fin[opOf[q]].status = "UNKNOWN" => fin'[opOf[q]].status = "UNKNOWN"
    BY <1>2, <1>3, OpsAssumption DEF IInv, TypeOK, Open
  <2>2. o \in Mutations /\ o \in active /\ fin'[o] # Open /\ fin[o].status \in {"none", "UNKNOWN"}
          => fin'[o].status = "UNKNOWN"
    BY <1>2, <1>3 DEF IInv, TypeOK, FinState, FinStep, Open
  <2> QED
    BY <1>1, <1>2, <1>4, <2>1, <2>2 DEF IInv, TypeOK, RequestState, Busy, o
<1>10. MutationsExclude'
  BY <1>1, HostFrame DEF IInv, MutationsExclude, TypeOK
<1> QED
  BY <1>5, <1>6, <1>7, <1>8, <1>9, <1>10 DEF IInv

LEMMA ExecuteStep ==
  ASSUME IInv, TypeOK', NEW r \in Requests, NEW o \in Ops, Execute(r, o)
  PROVE  IInv'
<1>1. /\ UNCHANGED <<ledger, loading, used, unknown, active, begin, acking, mutation, fin, exec>>
      /\ call[r] = "idle"
      /\ call'[r] \in {"checking", "acquiring"}
      /\ opOf'[r] = o
      /\ \A q \in Requests \ {r} : call'[q] = call[q] /\ opOf'[q] = opOf[q]
      /\ begin[o] = "begun" /\ o \in active
      /\ HonestOwners => fin[o].status \in {"none", "UNKNOWN"}
  BY DEF Execute, OwnerMaySend, IInv, TypeOK
<1>2. /\ NothingBeforeLoad' /\ LoadState' /\ BeginState' /\ FinState'
      /\ LeaseState' /\ QuarantineState'
  BY <1>1, RequestFrame
<1>3. exec[r] = "idle"
  BY <1>1 DEF IInv, RequestState
<1>4. RequestState'
  BY <1>1, <1>3, OpsAssumption DEF IInv, RequestState, Busy, Open
<1>5. MutationsExclude'
  BY <1>1, <1>3, HostFrame DEF IInv, MutationsExclude
<1> QED
  BY <1>2, <1>4, <1>5 DEF IInv

(* A first end.  When it reports a known outcome the sub-requests of the   *)
(* operation have settled, and none of them is left in the host: had one   *)
(* timed out, the finalization would have been started as UNKNOWN.         *)
LEMMA EndSteps ==
  ASSUME IInv, TypeOK', NEW o \in Ops, EndOperation(o) \/ Postflight(o)
  PROVE  IInv'
<1>1. /\ UNCHANGED <<ledger, loading, used, unknown, active, begin, acking, mutation,
                    call, exec, opOf>>
      /\ \A p \in Ops \ {o} : fin'[p] = fin[p]
  BY DEF EndOperation, Postflight, IInv, TypeOK, requests
<1>2. begin[o] = "begun" /\ fin[o].step \in {"open", "postflight"}
  BY DEF EndOperation, Postflight, IInv, BeginState, Open
<1>3. /\ fin'[o].step \in {"postflight", "recording"}
      /\ fin'[o].status \in Terminal
      /\ fin'[o].status = "UNKNOWN" => o \in Mutations
      /\ fin'[o].step = "postflight" => fin'[o].status = "SUCCEEDED" /\ o \in Mutations
  <2>1. CASE EndOperation(o)
    BY <2>1 DEF EndOperation, Finalization, IInv, TypeOK, Terminal
  <2>2. CASE Postflight(o)
    BY <2>2 DEF Postflight, IInv, TypeOK, FinState, Terminal
  <2> QED BY <2>1, <2>2
<1>4. ASSUME HonestOwners, NEW q \in Requests, opOf[q] = o, Busy(q), o \in Mutations,
             ledger[o] # "ACKNOWLEDGED"
      PROVE  fin'[o].status = "UNKNOWN"
  <2>1. /\ fin[o].status \in {"none", "UNKNOWN"}
        /\ call[q] = "done" => fin[o].status = "UNKNOWN"
    BY <1>2, <1>4 DEF IInv, RequestState
  <2>2. fin[o] = Open
    BY <1>2, <2>1 DEF IInv, FinState
  <2>3. InFlight(o)
    BY <1>4, <2>1, <2>2 DEF InFlight, Open, IInv, RequestState, Busy
  <2>4. EndOperation(o)
    BY <2>2 DEF Postflight, Open
  <2>5. fin' = [fin EXCEPT ![o] = Finalization(o, "UNKNOWN")]
    BY <1>4, <2>3, <2>4 DEF EndOperation
  <2>6. Finalization(o, "UNKNOWN") = [step |-> "recording", status |-> "UNKNOWN"]
    BY <1>4 DEF Finalization
  <2> QED BY <2>5, <2>6 DEF IInv, TypeOK
<1>5. NothingBeforeLoad' /\ LoadState' /\ LeaseState'
  BY <1>1 DEF IInv, NothingBeforeLoad, LoadState, CrashLeft, LeaseState, IsFifo, Waiting,
              IsLocked, loading
<1>6. BeginState'
  BY <1>1, <1>2 DEF IInv, BeginState
<1>7. FinState'
  BY <1>1, <1>2, <1>3 DEF IInv, FinState, Open, Terminal
<1>8. QuarantineState'
  BY <1>1, <1>2, OpsAssumption DEF IInv, QuarantineState, QuarantineIsDurable,
       QuarantineExcludesMutation, CrashLeft, IsLocked, loading
<1>9. RequestState'
  BY <1>1, <1>4, OpsAssumption DEF IInv, RequestState, Busy
<1>10. MutationsExclude'
  BY <1>1, HostFrame DEF IInv, MutationsExclude
<1> QED
  BY <1>5, <1>6, <1>7, <1>8, <1>9, <1>10 DEF IInv

LEMMA AcknowledgeStep ==
  ASSUME IInv, TypeOK', NEW o \in Mutations, AcknowledgeUnknown(o)
  PROVE  IInv'
<1>1. /\ UNCHANGED <<ledger, loading, used, unknown, active, begin, fin, mutation,
                    call, exec, opOf>>
      /\ acking' = acking \union {o}
      /\ o \in unknown
  BY DEF AcknowledgeUnknown, requests
<1>2. NothingBeforeLoad' /\ LoadState' /\ LeaseState'
  BY <1>1 DEF IInv, NothingBeforeLoad, LoadState, CrashLeft, LeaseState, IsFifo, Waiting,
              IsLocked, loading
<1>3. BeginState' /\ FinState'
  BY <1>1 DEF IInv, BeginState, FinState
<1>4. QuarantineState'
  BY <1>1 DEF IInv, QuarantineState, QuarantineIsDurable,
       QuarantineExcludesMutation, CrashLeft, IsLocked, loading
<1>5. RequestState' /\ MutationsExclude'
  BY <1>1, HostFrame DEF IInv, MutationsExclude, RequestState, Busy
<1> QED
  BY <1>2, <1>3, <1>4, <1>5 DEF IInv

(* A crash.  What is left of a live mutation is a script in the host and   *)
(* its RUNNING or UNKNOWN in the ledger.                                   *)
LEMMA CrashStep ==
  ASSUME IInv, TypeOK', Crash
  PROVE  IInv'
<1>1. /\ ~loaded' /\ unknown' = {} /\ acking' = {} /\ active' = {} /\ mutation' = Unlocked
      /\ \A o \in Ops : begin'[o] = "idle" /\ fin'[o] = Open
      /\ \A l \in Loaders : load'[l] = "idle"
      /\ UNCHANGED <<ledger, opOf>>
  BY DEF Crash
<1>2. \A r \in Requests :
        /\ call'[r] = IF call[r] = "idle" THEN "idle" ELSE "done"
        /\ exec'[r] = IF exec[r] = "preparing" THEN "finished" ELSE exec[r]
  BY DEF Crash
<1>3. NothingBeforeLoad' /\ LoadState'
  BY <1>1 DEF NothingBeforeLoad, LoadState
<1>4. BeginState' /\ FinState'
  BY <1>1 DEF BeginState, FinState, Open
<1>5. LeaseState'
  <2>1. mutation'.holder = NoOne /\ NoOne \notin Mutations
    BY <1>1, OpsAssumption DEF Unlocked
  <2> QED BY <1>1, <2>1, UnlockedIsMutex DEF LeaseState
<1>6. QuarantineState'
  BY <1>1 DEF QuarantineState, QuarantineIsDurable, QuarantineExcludesMutation
<1>7. RequestState'
  <2>1. \A r \in Requests : call[r] = "idle" => exec[r] = "idle" /\ opOf[r] = NoOne
    BY DEF IInv, RequestState
  <2>2. ASSUME HonestOwners, NEW r \in Requests, exec[r] = "dispatched",
               opOf[r] \in Mutations, ledger[opOf[r]] # "ACKNOWLEDGED"
        PROVE  ledger[opOf[r]] \in {"RUNNING", "UNKNOWN"}
    <3> DEFINE o == opOf[r]
    <3>1. CASE begin[o] = "idle"
      BY <2>2, <3>1 DEF IInv, RequestState, Busy
    <3>2. CASE begin[o] # "idle"
      <4>1. /\ o \in active /\ begin[o] = "begun" /\ o \in Ops
            /\ fin[o].status \in {"none", "UNKNOWN"}
        BY <2>2, <3>2, OpsAssumption DEF IInv, RequestState, Busy
      <4>2. fin[o].step \in FinStep
        BY <4>1 DEF IInv, TypeOK
      <4> QED BY <2>2, <4>1, <4>2 DEF IInv, FinState, FinStep
    <3> QED BY <3>1, <3>2
  <2>3. \A r \in Requests : opOf[r] \in Mutations => opOf[r] \in Ops
    BY OpsAssumption
  <2> QED BY <1>1, <1>2, <2>1, <2>2, <2>3 DEF RequestState, Busy, IInv
<1>8. MutationsExclude'
  BY <1>1, <1>2, HostFrame DEF IInv, MutationsExclude
<1> QED
  BY <1>3, <1>4, <1>5, <1>6, <1>7, <1>8 DEF IInv

(***************************************************************************)
(* #load                                                                   *)
(***************************************************************************)
LEMMA LoadSteps ==
  ASSUME SerialLoad, ReliableLedger, IInv, TypeOK', NEW l \in Loaders,
         LoadStart(l) \/ LoadProgress(l)
  PROVE  IInv'
<1>1. ~loaded
  BY DEF LoadStart, LoadProgress, LoadIds, LoadScan, LoadPromote, LoadFinish, IInv, LoadState
<1>2. /\ unknown = {} /\ acking = {} /\ active = {} /\ mutation = Unlocked
      /\ \A o \in Ops : begin[o] = "idle" /\ fin[o] = Open
  BY <1>1 DEF IInv, NothingBeforeLoad, BeginState
<1>3. UNCHANGED <<active, begin, fin, acking, mutation, call, exec, opOf>>
  BY DEF LoadStart, LoadProgress, LoadIds, LoadScan, LoadPromote, LoadFinish, requests
<1>4. \A k \in Loaders : k = l
  BY DEF SerialLoad
<1>5. \/ ledger' = ledger
      \/ \E o \in CrashLeft :
           /\ ledger'[o] = "UNKNOWN"
           /\ \A p \in Ops : p # o => ledger'[p] = ledger[p]
  <2>1. CASE LoadPromote(l)
    BY <2>1, NoAppendFails, RecordEffect, OpsAssumption
       DEF LoadPromote, IInv, LoadState, TypeOK, CrashLeft
  <2>2. CASE LoadStart(l) \/ LoadIds(l) \/ LoadScan(l) \/ LoadFinish(l)
    BY <2>2 DEF LoadStart, LoadIds, LoadScan, LoadFinish
  <2> QED BY <2>1, <2>2 DEF LoadProgress
<1>6. CrashLeft \subseteq Ops /\ Mutations \subseteq Ops /\ NoOne \notin Ops
  BY OpsAssumption DEF CrashLeft
<1>7. \/ ~loaded' /\ unknown' = unknown
      \/ /\ loaded' /\ unknown' = Unresolved /\ ledger' = ledger
         /\ CrashLeft = {} /\ load'[l] = "idle"
  BY <1>1, <1>2 DEF LoadStart, LoadProgress, LoadIds, LoadScan, LoadPromote, LoadFinish,
     IInv, TypeOK, LoadState, loading
<1>8. NothingBeforeLoad'
  BY <1>2, <1>3, <1>7 DEF NothingBeforeLoad
<1>9. LoadState'
  <2>1. loaded' => \A k \in Loaders : load'[k] = "idle"
    BY <1>4, <1>7
  <2>2. load'[l] = "promoting" => stale'[l] = CrashLeft'
    <3>1. CASE LoadPromote(l)
      <4>1. PICK o \in stale[l] :
              Record(o, "UNKNOWN") /\ stale'[l] = stale[l] \ {o}
        BY <3>1, NoAppendFails DEF LoadPromote, IInv, TypeOK
      <4>2. stale[l] = CrashLeft /\ o \in CrashLeft
        BY <3>1, <4>1 DEF LoadPromote, IInv, LoadState
      <4>3. ledger'[o] = "UNKNOWN" /\ \A p \in Ops : p # o => ledger'[p] = ledger[p]
        BY <1>6, <4>1, <4>2, RecordEffect DEF IInv
      <4> QED BY <1>6, <4>1, <4>2, <4>3 DEF CrashLeft
    <3>2. CASE LoadScan(l)
      BY <3>2 DEF LoadScan, CrashLeft, IInv, TypeOK
    <3>3. CASE LoadStart(l) \/ LoadIds(l) \/ LoadFinish(l)
      BY <3>3 DEF LoadStart, LoadIds, LoadFinish, IInv, TypeOK
    <3> QED BY <3>1, <3>2, <3>3 DEF LoadProgress
  <2>3. loaded' \/ load'[l] \in {"scan", "promoting"} =>
          \A o \in Ops : ledger'[o] # "none" => o \in used'
    <3>1. CASE LoadIds(l)
      BY <3>1 DEF LoadIds, IInv, TypeOK
    <3>2. CASE LoadStart(l)
      BY <1>1, <3>2 DEF LoadStart, IInv, TypeOK
    <3>3. CASE LoadScan(l) \/ LoadPromote(l) \/ LoadFinish(l)
      <4>1. load[l] \in {"scan", "promoting"} /\ used' = used
        BY <3>3 DEF LoadScan, LoadPromote, LoadFinish
      <4>2. \A o \in Ops : ledger[o] # "none" => o \in used
        BY <4>1 DEF IInv, LoadState
      <4>3. \A o \in Ops : ledger'[o] # "none" => ledger[o] # "none"
        BY <1>5, <1>6 DEF CrashLeft
      <4> QED BY <4>1, <4>2, <4>3
    <3> QED BY <3>1, <3>2, <3>3 DEF LoadProgress
  <2> QED BY <1>4, <2>1, <2>2, <2>3 DEF LoadState
<1>10. BeginState' /\ FinState'
  BY <1>2, <1>3 DEF BeginState, FinState, Open
<1>11. LeaseState'
  BY <1>2, <1>3 DEF IInv, LeaseState
<1>12. QuarantineState'
  <2>1. CASE ~loaded'
    BY <1>2, <1>3, <1>7, <2>1 DEF QuarantineState, QuarantineIsDurable, QuarantineExcludesMutation
  <2>2. CASE loaded'
    <3>1. QuarantineIsDurable'
      BY <1>7, <2>2 DEF QuarantineIsDurable, Unresolved
    <3>2. QuarantineExcludesMutation'
      BY <1>2, <1>3, <1>6 DEF QuarantineExcludesMutation, Unlocked
    <3>3. CrashLeft' = {}
      BY <1>7, <2>2 DEF CrashLeft
    <3> QED BY <1>2, <1>3, <1>6, <3>1, <3>2, <3>3 DEF QuarantineState
  <2> QED BY <2>1, <2>2
<1>13. RequestState'
  BY <1>2, <1>3, <1>5, <1>6 DEF IInv, RequestState, Busy, CrashLeft
<1>14. MutationsExclude'
  <2>1. \A o \in Mutations : ledger[o] = "ACKNOWLEDGED" => ledger'[o] = "ACKNOWLEDGED"
    BY <1>5, <1>6 DEF CrashLeft
  <2> QED BY <1>3, <2>1, HostFrame DEF IInv, MutationsExclude
<1> QED
  BY <1>8, <1>9, <1>10, <1>11, <1>12, <1>13, <1>14 DEF IInv

(***************************************************************************)
(* beginOperation                                                          *)
(***************************************************************************)

(* Nothing is admitted past the quarantine: the part of QuarantineState    *)
(* that the mutation lease can disturb.                                    *)
NoneAdmitted ==
  /\ QuarantineExcludesMutation
  /\ unknown # {} /\ ~IsLocked(mutation) =>
       \A o \in Mutations : begin[o] \notin {"queuing", "acquiring"}

(* What the ledger shows of an operation that is beginning or has begun.   *)
Begun(o) ==
  /\ begin[o] # "idle"
  /\ o \in used
  /\ begin[o] = "queuing" => ledger[o] = "none"
  /\ begin[o] \in {"acquiring", "recording", "failing"} => ledger[o] = "QUEUED"
  /\ begin[o] = "begun" => ledger[o] = "RUNNING"
  /\ begin[o] = "refused" => ledger[o] = "FAILED"
  /\ o \in active <=> begin[o] \in {"recording", "begun"}

LEMMA BeginFrame ==
  ASSUME IInv, TypeOK', NEW o \in Ops,
         loaded, ledger[o] \in {"none", "QUEUED"}, begin[o] # "begun", Begun(o)',
         UNCHANGED <<loaded, load, stale, unknown, fin, acking, call, exec, opOf>>,
         used \subseteq used',
         \A p \in Ops \ {o} : /\ begin'[p] = begin[p]
                              /\ ledger'[p] = ledger[p]
                              /\ p \in active' <=> p \in active,
         LeaseState', NoneAdmitted'
  PROVE  IInv'
<1>1. fin[o] = Open /\ o \notin unknown
  BY OpsAssumption DEF IInv, BeginState, QuarantineState, QuarantineIsDurable, TypeOK
<1>2. ledger'[o] \notin {"UNKNOWN", "ACKNOWLEDGED"}
  BY DEF Begun, TypeOK, BeginStep
<1>3. \A l \in Loaders : load[l] = "idle"
  BY DEF IInv, LoadState
<1>4. NothingBeforeLoad'
  BY DEF NothingBeforeLoad
<1>5. LoadState'
  BY <1>3 DEF IInv, LoadState, Begun
<1>6. BeginState'
  BY <1>1 DEF IInv, BeginState, Begun
<1>7. FinState'
  BY <1>1 DEF IInv, FinState, Open, Begun
<1>8. QuarantineState'
  <2>1. acking' \subseteq unknown'
    BY DEF IInv, QuarantineState
  <2>2. QuarantineIsDurable'
    BY <1>1, <1>2, OpsAssumption DEF IInv, QuarantineState, QuarantineIsDurable
  <2>3. \A p \in CrashLeft' : begin'[p] # "idle"
    BY OpsAssumption DEF IInv, QuarantineState, CrashLeft, Begun
  <2> QED BY <2>1, <2>2, <2>3 DEF QuarantineState, NoneAdmitted
<1>9. RequestState'
  <2>1. \A r \in Requests : opOf[r] \in Ops \/ opOf[r] = NoOne
    BY DEF IInv, TypeOK
  <2>2. \A r \in Requests : Busy(r)' <=> Busy(r)
    BY DEF Busy
  <2>3. ASSUME HonestOwners, NEW r \in Requests, opOf[r] = o, o \in Mutations
        PROVE  ~Busy(r)
    BY <2>3 DEF IInv, RequestState
  <2>4. ASSUME NEW r \in Requests, call[r] \notin {"idle", "done"}
        PROVE  begin'[opOf[r]] = "begun"
    BY <2>1, <2>4 DEF IInv, RequestState
  <2> QED BY <2>1, <2>2, <2>3, <2>4, OpsAssumption DEF IInv, RequestState
<1>10. MutationsExclude'
  BY HostFrame, OpsAssumption DEF IInv, MutationsExclude
<1> QED
  BY <1>4, <1>5, <1>6, <1>7, <1>8, <1>9, <1>10 DEF IInv

(* A begin call that does not touch the lease.                             *)
LEMMA BeginWithoutLease ==
  ASSUME ReliableLedger, IInv, TypeOK', NEW o \in Ops,
         BeginOperation(o) \/ RecordRunning(o) \/ RecordRefusal(o) \/ BeginAgain(o)
  PROVE  IInv'
<1>1. ~AppendFails
  BY NoAppendFails DEF IInv
<1>2. ~BeginAgain(o)
  BY DEF BeginAgain, IInv, BeginState
<1>3. loaded
  BY <1>2 DEF BeginOperation, RecordRunning, RecordRefusal, IInv, NothingBeforeLoad
<1>4. /\ UNCHANGED <<loaded, load, stale, unknown, active, fin, acking, mutation,
                    call, exec, opOf>>
      /\ \A p \in Ops \ {o} : begin'[p] = begin[p] /\ ledger'[p] = ledger[p]
      /\ begin'[o] \in {"queuing", "begun", "refused"}
      /\ used \subseteq used'
  <2>1. CASE BeginOperation(o)
    BY <2>1 DEF BeginOperation, IInv, TypeOK, loading, requests
  <2>2. CASE RecordRunning(o)
    BY <1>1, <2>2, RecordEffect DEF RecordRunning, IInv, TypeOK, loading, requests
  <2>3. CASE RecordRefusal(o)
    BY <1>1, <2>3, RecordEffect DEF RecordRefusal, IInv, TypeOK, loading, requests
  <2> QED BY <1>2, <2>1, <2>2, <2>3
<1>5. ledger[o] \in {"none", "QUEUED"} /\ begin[o] \notin {"begun", "acquiring", "queuing"}
  <2>1. CASE BeginOperation(o)
    BY <1>3, <2>1 DEF BeginOperation, IInv, LoadState
  <2>2. CASE RecordRunning(o) \/ RecordRefusal(o)
    BY <2>2 DEF RecordRunning, RecordRefusal, IInv, BeginState
  <2> QED BY <1>2, <2>1, <2>2
<1>6. Begun(o)'
  <2>1. CASE BeginOperation(o)
    BY <1>3, <2>1 DEF BeginOperation, IInv, TypeOK, LoadState, BeginState, Begun
  <2>2. CASE RecordRunning(o)
    BY <1>1, <2>2, RecordEffect DEF RecordRunning, IInv, TypeOK, BeginState, Begun
  <2>3. CASE RecordRefusal(o)
    BY <1>1, <2>3, RecordEffect DEF RecordRefusal, IInv, TypeOK, BeginState, Begun
  <2> QED BY <1>2, <2>1, <2>2, <2>3
<1>7. LeaseState'
  BY <1>4, <1>5, OpsAssumption DEF IInv, LeaseState, IsFifo, Waiting, IsLocked
<1>8. NoneAdmitted'
  <2>1. begin'[o] = "queuing" /\ o \in Mutations => unknown = {}
    <3>1. CASE BeginOperation(o)
      BY <3>1 DEF BeginOperation, Quarantined
    <3>2. CASE RecordRunning(o) \/ RecordRefusal(o)
      BY <3>2 DEF RecordRunning, RecordRefusal, IInv, TypeOK
    <3> QED BY <1>2, <3>1, <3>2
  <2> QED
    BY <1>4, <2>1, OpsAssumption
       DEF IInv, QuarantineState, NoneAdmitted, QuarantineExcludesMutation, IsLocked
<1> QED
  BY <1>3, <1>4, <1>5, <1>6, <1>7, <1>8, BeginFrame

(* The lease is asked for: it is free only when nothing is unresolved.     *)
LEMMA QueuedStep ==
  ASSUME ReliableLedger, IInv, TypeOK', NEW o \in Ops, RecordQueued(o)
  PROVE  IInv'
<1>1. /\ Record(o, "QUEUED")
      /\ begin[o] = "queuing"
      /\ begin' = [begin EXCEPT ![o] = "acquiring"]
      /\ mutation' = IF o \in Mutations THEN Acquire(mutation, o) ELSE mutation
      /\ UNCHANGED <<loaded, load, stale, used, unknown, active, fin, acking, call, exec, opOf>>
  BY NoAppendFails DEF RecordQueued, IInv, loading, requests
<1>2. /\ begin'[o] = "acquiring"
      /\ ledger'[o] = "QUEUED"
      /\ \A p \in Ops \ {o} : begin'[p] = begin[p] /\ ledger'[p] = ledger[p]
  BY <1>1, RecordEffect DEF IInv, TypeOK
<1>3. loaded /\ ledger[o] = "none" /\ o \in used /\ o \notin active
  BY <1>1 DEF IInv, NothingBeforeLoad, BeginState
<1>4. Begun(o)'
  BY <1>1, <1>2, <1>3 DEF Begun
<1>5. \/ o \notin Mutations /\ mutation' = mutation
      \/ /\ o \in Mutations
         /\ IsFifo(mutation')
         /\ \/ /\ ~IsLocked(mutation)
               /\ mutation'.holder = o /\ Waiting(mutation') = {}
            \/ /\ IsLocked(mutation)
               /\ mutation'.holder = mutation.holder
               /\ Waiting(mutation') = Waiting(mutation) \union {o}
  <2>1. o \in Mutations => o # mutation.holder /\ o \notin Waiting(mutation)
    BY <1>1, <1>3 DEF IInv, LeaseState
  <2>2. NoOne \notin Mutations /\ mutation \in Mutex(Mutations) /\ IsFifo(mutation)
    BY OpsAssumption DEF IInv, TypeOK, LeaseState
  <2> QED BY <1>1, <2>1, <2>2, AcquireLemma
<1>6. LeaseState'
  <2>1. CASE o \notin Mutations /\ mutation' = mutation
    BY <1>1, <1>2, <2>1, OpsAssumption DEF IInv, LeaseState, IsFifo, Waiting, IsLocked
  <2>2. CASE o \in Mutations
    <3>1. IsFifo(mutation')
      BY <1>5, <2>2
    <3>2. ASSUME NEW p \in Mutations
          PROVE  /\ mutation'.holder = p => begin'[p] = "acquiring" \/ p \in active'
                 /\ p \in active' => mutation'.holder = p
                 /\ p \in Waiting(mutation') => begin'[p] = "acquiring"
      <4>1. NoOne \notin Mutations /\ p \in Ops
        BY OpsAssumption
      <4> QED BY <1>1, <1>2, <1>3, <1>5, <2>2, <4>1 DEF IInv, LeaseState, IsLocked
    <3> QED BY <3>1, <3>2 DEF LeaseState
  <2> QED BY <1>5, <2>1, <2>2
<1>7. NoneAdmitted'
  <2>1. CASE o \notin Mutations /\ mutation' = mutation
    BY <1>1, <1>2, <2>1, OpsAssumption
       DEF IInv, QuarantineState, NoneAdmitted, QuarantineExcludesMutation, IsLocked
  <2>2. CASE o \in Mutations
    <3>1. ~IsLocked(mutation) => unknown = {}
      BY <1>1, <2>2 DEF IInv, QuarantineState
    <3>2. IsLocked(mutation')
      BY <1>5, <2>2, OpsAssumption DEF IsLocked
    <3>3. QuarantineExcludesMutation'
      BY <1>1, <1>5, <2>2, <3>1 DEF IInv, QuarantineState, QuarantineExcludesMutation
    <3> QED BY <3>2, <3>3 DEF NoneAdmitted
  <2> QED BY <1>5, <2>1, <2>2
<1> QED
  BY <1>1, <1>2, <1>3, <1>4, <1>6, <1>7, BeginFrame

(* A deadline passes in the queue.                                         *)
LEMMA LeaseExpiresStep ==
  ASSUME IInv, TypeOK', NEW o \in Ops, BeginLeaseExpires(o)
  PROVE  IInv'
<1>1. /\ begin[o] = "acquiring"
      /\ begin' = [begin EXCEPT ![o] = "failing"]
      /\ UNCHANGED <<ledger, loaded, load, stale, used, unknown, active, fin, acking,
                    call, exec, opOf>>
  BY DEF BeginLeaseExpires, loading, requests
<1>2. /\ begin'[o] = "failing"
      /\ \A p \in Ops \ {o} : begin'[p] = begin[p]
  BY <1>1 DEF IInv, TypeOK
<1>3. PICK i \in DOMAIN mutation.waiters :
        mutation.waiters[i] = o /\ mutation' = Expire(mutation, i)
  BY DEF BeginLeaseExpires
<1>4. o \in Waiting(mutation) /\ IsFifo(mutation) /\ mutation \in Mutex(Mutations)
  BY <1>3 DEF Waiting, IInv, LeaseState, TypeOK
<1>5. /\ mutation'.holder = mutation.holder /\ mutation.holder # o
      /\ IsFifo(mutation')
      /\ Waiting(mutation') = Waiting(mutation) \ {o}
      /\ IsLocked(mutation)
  BY <1>3, <1>4, ExpireLemma DEF IsFifo
<1>6. loaded /\ ledger[o] = "QUEUED" /\ o \in used /\ o \notin active
  BY <1>1 DEF IInv, NothingBeforeLoad, BeginState
<1>7. Begun(o)'
  BY <1>1, <1>2, <1>6 DEF Begun
<1>8. LeaseState'
  BY <1>1, <1>2, <1>5, OpsAssumption DEF IInv, LeaseState
<1>9. NoneAdmitted'
  BY <1>1, <1>5 DEF IInv, QuarantineState, QuarantineExcludesMutation, NoneAdmitted, IsLocked
<1> QED
  BY <1>1, <1>2, <1>6, <1>7, <1>8, <1>9, BeginFrame

(* With the lease held nothing else is unresolved: when the holder gives   *)
(* it back and is not unresolved itself, whoever is let in next finds the  *)
(* quarantine empty.                                                       *)
LEMMA ReleasedToNext ==
  ASSUME IInv, NEW o \in Ops, mutation' = Release(mutation, o),
         unknown' \subseteq unknown, o \notin unknown',
         \A p \in Mutations :
           begin'[p] \in {"queuing", "acquiring"} => begin[p] \in {"queuing", "acquiring"}
  PROVE  NoneAdmitted'
<1>1. CASE mutation.holder # o
  <2>1. mutation' = mutation
    BY <1>1, LeaseReleased DEF IInv
  <2> QED BY <2>1 DEF IInv, QuarantineState, NoneAdmitted, QuarantineExcludesMutation, IsLocked
<1>2. CASE mutation.holder = o
  <2>1. o \in Mutations
    BY <1>2, LeaseReleased DEF IInv
  <2>2. unknown \subseteq {o}
    BY <1>2, <2>1 DEF IInv, QuarantineState, QuarantineExcludesMutation
  <2>3. unknown' = {}
    BY <2>2
  <2> QED BY <2>3 DEF NoneAdmitted, QuarantineExcludesMutation
<1> QED BY <1>1, <1>2

(* The preflight answers, or fails and gives the lease back.               *)
LEMMA PreflightStep ==
  ASSUME IInv, TypeOK', NEW o \in Ops, Preflight(o)
  PROVE  IInv'
<1>1. /\ begin[o] = "acquiring"
      /\ HasMutationLease(o)
      /\ UNCHANGED <<ledger, loaded, load, stale, used, unknown, fin, acking, call, exec, opOf>>
  BY DEF Preflight, loading, requests
<1>2. /\ begin'[o] \in {"recording", "failing"}
      /\ \A p \in Ops \ {o} : begin'[p] = begin[p] /\ (p \in active' <=> p \in active)
      /\ o \in active' <=> begin'[o] = "recording"
  BY <1>1 DEF Preflight, IInv, TypeOK, BeginState
<1>3. loaded /\ ledger[o] = "QUEUED" /\ o \in used /\ o \notin active
  BY <1>1 DEF IInv, NothingBeforeLoad, BeginState
<1>4. Begun(o)'
  BY <1>1, <1>2, <1>3 DEF Begun
<1>5. o \notin unknown
  BY <1>3 DEF IInv, TypeOK, QuarantineState, QuarantineIsDurable
<1>6. LeaseState' /\ NoneAdmitted'
  <2>1. CASE mutation' = mutation /\ begin'[o] = "recording"
    <3>1. LeaseState'
      <4>1. o \in Mutations => mutation.holder = o /\ o \notin Waiting(mutation)
        BY <1>1 DEF HasMutationLease, IInv, LeaseState, IsFifo
      <4>2. IsFifo(mutation')
        BY <2>1 DEF IInv, LeaseState
      <4> QED BY <1>2, <2>1, <4>1, <4>2, OpsAssumption DEF IInv, LeaseState
    <3>2. NoneAdmitted'
      BY <1>1, <1>2, <2>1, OpsAssumption
         DEF IInv, QuarantineState, QuarantineExcludesMutation, NoneAdmitted, IsLocked
    <3> QED BY <3>1, <3>2
  <2>2. CASE /\ o \in Mutations /\ mutation' = Release(mutation, o)
             /\ begin'[o] = "failing"
    <3>1. mutation.holder = o
      BY <1>1, <2>2 DEF HasMutationLease
    <3>2. LeaseState'
      <4>1. IsFifo(mutation')
        BY <2>2, LeaseReleased DEF IInv
      <4>2. ASSUME NEW p \in Mutations
            PROVE  /\ mutation'.holder = p => begin'[p] = "acquiring" \/ p \in active'
                   /\ p \in active' => mutation'.holder = p
                   /\ p \in Waiting(mutation') => begin'[p] = "acquiring"
        <5>1. p \in Ops /\ NoOne \notin Mutations
          BY OpsAssumption
        <5>2. p \notin active'
          BY <1>2, <2>2, <3>1, <5>1, LeaseReleased DEF IInv
        <5>3. mutation'.holder = p => p # o /\ begin[p] = "acquiring"
          BY <2>2, <3>1, <5>1, LeaseReleased DEF IInv, IsLocked
        <5>4. p \in Waiting(mutation') => p # o /\ begin[p] = "acquiring"
          BY <2>2, <3>1, LeaseReleased DEF IInv, LeaseState
        <5> QED BY <1>2, <5>1, <5>2, <5>3, <5>4
      <4> QED BY <4>1, <4>2 DEF LeaseState
    <3>3. NoneAdmitted'
      BY <1>1, <1>2, <1>5, <2>2, OpsAssumption, ReleasedToNext
    <3> QED BY <3>2, <3>3
  <2> QED BY <2>1, <2>2 DEF Preflight, IInv, TypeOK
<1> QED
  BY <1>1, <1>2, <1>3, <1>4, <1>6, BeginFrame

(***************************************************************************)
(* The end of an operation, and the acknowledgement of an unknown one      *)
(***************************************************************************)

(* An operation that leaves #active gives the lease back.                  *)
LEMMA LeaseOfEnded ==
  ASSUME IInv, NEW o \in Ops, begin[o] # "acquiring",
         mutation' = Release(mutation, o), active' = active \ {o}, begin' = begin
  PROVE  LeaseState'
<1>1. IsFifo(mutation')
  BY LeaseReleased DEF IInv
<1>2. ASSUME NEW p \in Mutations
      PROVE  /\ mutation'.holder = p => begin'[p] = "acquiring" \/ p \in active'
             /\ p \in active' => mutation'.holder = p
             /\ p \in Waiting(mutation') => begin'[p] = "acquiring"
  <2>0. p \in Ops /\ NoOne \notin Mutations
    BY OpsAssumption
  <2>1. CASE mutation.holder # o
    <3>1. mutation' = mutation
      BY <2>1, LeaseReleased DEF IInv
    <3> QED BY <2>1, <3>1 DEF IInv, LeaseState
  <2>2. CASE mutation.holder = o
    <3>1. p \notin active'
      BY <2>2, LeaseReleased DEF IInv
    <3>2. mutation'.holder = p => begin[p] = "acquiring"
      BY <2>0, <2>2, LeaseReleased DEF IInv, IsLocked
    <3>3. p \in Waiting(mutation') => begin[p] = "acquiring"
      BY <2>2, LeaseReleased DEF IInv, LeaseState
    <3> QED BY <3>1, <3>2, <3>3
  <2> QED BY <2>1, <2>2
<1> QED BY <1>1, <1>2 DEF LeaseState

(* The terminal status is recorded: UNKNOWN with the lease kept, anything  *)
(* else with the lease given back, and then no script is left in the host. *)
LEMMA TerminalStep ==
  ASSUME ReliableLedger, IInv, TypeOK', NEW o \in Ops, RecordTerminal(o)
  PROVE  IInv'
<1> DEFINE s == fin[o].status
<1>1. /\ fin[o].step = "recording"
      /\ Record(o, s)
      /\ UNCHANGED <<loaded, load, stale, used, unknown, begin, acking, call, exec, opOf>>
      /\ \A p \in Ops \ {o} : fin'[p] = fin[p]
      /\ fin'[o].status = s
      /\ \/ /\ s = "UNKNOWN" /\ fin'[o].step = "registering"
            /\ UNCHANGED <<active, mutation>>
         \/ /\ s # "UNKNOWN" /\ fin'[o].step = "done"
            /\ active' = active \ {o}
            /\ mutation' = Release(mutation, o)
  BY NoAppendFails DEF RecordTerminal, IInv, TypeOK, loading, requests
<1>2. begin[o] = "begun" /\ o \in active /\ ledger[o] = "RUNNING" /\ loaded /\ o \in used
  BY <1>1 DEF IInv, BeginState, FinState, NothingBeforeLoad, Open
<1>3. s \in Terminal /\ (s = "UNKNOWN" => o \in Mutations)
  BY <1>1 DEF IInv, FinState, TypeOK
<1>4. ledger'[o] = s /\ \A p \in Ops \ {o} : ledger'[p] = ledger[p]
  BY <1>1, RecordEffect DEF IInv, TypeOK
<1>5. o \notin unknown
  BY <1>2 DEF IInv, TypeOK, QuarantineState, QuarantineIsDurable
<1> HIDE DEF s
<1>6. NothingBeforeLoad' /\ LoadState'
  <2>1. \A l \in Loaders : load'[l] = "idle"
    BY <1>1, <1>2 DEF IInv, LoadState
  <2>2. \A p \in Ops : ledger'[p] # "none" => p \in used'
    BY <1>1, <1>2, <1>4 DEF IInv, LoadState
  <2> QED BY <1>1, <1>2, <2>1, <2>2 DEF NothingBeforeLoad, LoadState
<1>7. BeginState'
  BY <1>1, <1>2, <1>4 DEF IInv, BeginState
<1>8. FinState'
  BY <1>1, <1>2, <1>3, <1>4, <1>5 DEF IInv, FinState, Terminal, Open
<1>9. LeaseState'
  <2>1. CASE UNCHANGED <<active, mutation>>
    BY <1>1, <2>1 DEF IInv, LeaseState, IsFifo, Waiting, IsLocked
  <2>2. CASE active' = active \ {o} /\ mutation' = Release(mutation, o)
    BY <1>1, <1>2, <2>2, LeaseOfEnded
  <2> QED BY <1>1, <2>1, <2>2
<1>10. QuarantineState'
  <2>1. QuarantineIsDurable'
    BY <1>1, <1>4, <1>5, OpsAssumption DEF IInv, QuarantineState, QuarantineIsDurable
  <2>2. NoneAdmitted'
    <3>1. CASE UNCHANGED <<active, mutation>>
      BY <1>1, <3>1
         DEF IInv, QuarantineState, QuarantineExcludesMutation, NoneAdmitted, IsLocked
    <3>2. CASE active' = active \ {o} /\ mutation' = Release(mutation, o)
      BY <1>1, <1>5, <3>2, ReleasedToNext
    <3> QED BY <1>1, <3>1, <3>2
  <2>3. \A p \in CrashLeft' : begin'[p] # "idle"
    BY <1>1, <1>2, <1>4, OpsAssumption DEF IInv, QuarantineState, CrashLeft
  <2> QED BY <1>1, <2>1, <2>2, <2>3 DEF IInv, QuarantineState, NoneAdmitted
<1>11. RequestState'
  <2>1. \A r \in Requests : Busy(r)' <=> Busy(r)
    BY <1>1 DEF Busy
  <2>2. ASSUME HonestOwners, NEW r \in Requests, opOf[r] = o, o \in Mutations, Busy(r)
        PROVE  s = "UNKNOWN"
    <3>1. fin[o].status \in {"none", "UNKNOWN"}
      BY <1>2, <2>2 DEF IInv, RequestState
    <3> QED BY <1>3, <3>1 DEF s, Terminal
  <2> QED BY <1>1, <1>2, <1>4, <2>1, <2>2, OpsAssumption DEF IInv, RequestState
<1>12. MutationsExclude'
  <2>1. \A p \in Mutations : ledger[p] = "ACKNOWLEDGED" => ledger'[p] = "ACKNOWLEDGED"
    BY <1>2, <1>4, OpsAssumption
  <2> QED BY <1>1, <2>1, HostFrame DEF IInv, MutationsExclude
<1> QED
  BY <1>6, <1>7, <1>8, <1>9, <1>10, <1>11, <1>12 DEF IInv

(* The unknown outcome enters the quarantine, with the lease still held.   *)
LEMMA RegisterStep ==
  ASSUME IInv, TypeOK', NEW o \in Ops, RegisterUnknown(o)
  PROVE  IInv'
<1>1. /\ fin[o].step = "registering"
      /\ UNCHANGED <<ledger, loaded, load, stale, used, active, begin, acking, mutation,
                    call, exec, opOf>>
      /\ \A p \in Ops \ {o} : fin'[p] = fin[p]
      /\ fin'[o].status = fin[o].status /\ fin'[o].step = "done"
      /\ unknown' = unknown \union ({o} \intersect Unresolved)
  BY DEF RegisterUnknown, bookkeeping, loading, requests, IInv, TypeOK
<1>2. /\ o \in Mutations /\ o \in active /\ ledger[o] = "UNKNOWN"
      /\ fin[o].status = "UNKNOWN" /\ begin[o] = "begun"
  BY <1>1 DEF IInv, FinState, BeginState, Open
<1>3. unknown' = unknown \union {o}
  BY <1>1, <1>2 DEF Unresolved
<1>4. mutation.holder = o /\ loaded
  BY <1>2 DEF IInv, LeaseState, NothingBeforeLoad
<1>5. NothingBeforeLoad' /\ LoadState' /\ LeaseState'
  BY <1>1, <1>4 DEF IInv, NothingBeforeLoad, LoadState, CrashLeft, LeaseState, IsFifo, Waiting,
              IsLocked
<1>6. BeginState' /\ FinState'
  <2>1. BeginState'
    BY <1>1, <1>2 DEF IInv, BeginState
  <2>2. FinState'
    BY <1>1, <1>2, <1>3 DEF IInv, FinState, Open
  <2> QED BY <2>1, <2>2
<1>7. QuarantineState'
  <2>1. QuarantineIsDurable'
    BY <1>1, <1>2, <1>3, OpsAssumption DEF IInv, QuarantineState, QuarantineIsDurable
  <2>2. QuarantineExcludesMutation'
    BY <1>1, <1>3, <1>4 DEF IInv, QuarantineState, QuarantineExcludesMutation
  <2>3. IsLocked(mutation')
    BY <1>1, <1>2, <1>4, OpsAssumption DEF IsLocked
  <2> QED
    BY <1>1, <1>3, <2>1, <2>2, <2>3 DEF IInv, QuarantineState, CrashLeft
<1>8. RequestState' /\ MutationsExclude'
  <2>1. \A p \in Ops : fin'[p].status = fin[p].status
    BY <1>1
  <2> QED
    BY <1>1, <2>1, HostFrame, OpsAssumption DEF IInv, MutationsExclude, RequestState, Busy
<1> QED
  BY <1>5, <1>6, <1>7, <1>8 DEF IInv

(* The acknowledgement is recorded and the operation is forgotten.         *)
LEMMA AcknowledgedStep ==
  ASSUME ReliableLedger, IInv, TypeOK', NEW o \in Mutations, RecordAcknowledged(o)
  PROVE  IInv'
<1>0. o \in Ops
  BY OpsAssumption
<1>1. /\ o \in acking
      /\ Record(o, "ACKNOWLEDGED")
      /\ acking' = acking \ {o}
      /\ unknown' = unknown \ {o}
      /\ active' = active \ {o}
      /\ mutation' = Release(mutation, o)
      /\ UNCHANGED <<loaded, load, stale, used, begin, fin, call, exec, opOf>>
  BY NoAppendFails DEF RecordAcknowledged, loading, requests, IInv
<1>2. o \in unknown /\ ledger[o] = "UNKNOWN" /\ loaded
  BY <1>1 DEF IInv, QuarantineState, QuarantineIsDurable, NothingBeforeLoad
<1>3. ledger'[o] = "ACKNOWLEDGED" /\ \A p \in Ops \ {o} : ledger'[p] = ledger[p]
  BY <1>0, <1>1, RecordEffect DEF IInv, TypeOK
<1>4. begin[o] \in {"idle", "begun"}
  BY <1>0, <1>2 DEF IInv, BeginState, TypeOK, BeginStep
<1>5. NothingBeforeLoad' /\ LoadState'
  <2>1. \A l \in Loaders : load'[l] = "idle"
    BY <1>1, <1>2 DEF IInv, LoadState
  <2>2. \A p \in Ops : ledger'[p] # "none" => p \in used'
    BY <1>1, <1>2, <1>3 DEF IInv, LoadState
  <2> QED BY <1>1, <1>2, <2>1, <2>2 DEF NothingBeforeLoad, LoadState
<1>6. BeginState'
  BY <1>1, <1>3, <1>4 DEF IInv, BeginState
<1>7. FinState'
  BY <1>1, <1>2, <1>3 DEF IInv, FinState
<1>8. LeaseState'
  BY <1>0, <1>1, <1>4, LeaseOfEnded
<1>9. QuarantineState'
  <2>1. QuarantineIsDurable'
    BY <1>1, <1>3, OpsAssumption DEF IInv, QuarantineState, QuarantineIsDurable
  <2>2. NoneAdmitted'
    BY <1>0, <1>1, ReleasedToNext
  <2>3. \A p \in CrashLeft' : begin'[p] # "idle"
    BY <1>1, <1>2, <1>3, OpsAssumption DEF IInv, QuarantineState, CrashLeft
  <2> QED BY <1>1, <2>1, <2>2, <2>3 DEF IInv, QuarantineState, NoneAdmitted
<1>10. RequestState'
  BY <1>1, <1>3, OpsAssumption DEF IInv, RequestState, Busy
<1>11. MutationsExclude'
  <2>1. \A p \in Mutations : ledger[p] = "ACKNOWLEDGED" => ledger'[p] = "ACKNOWLEDGED"
    BY <1>3, OpsAssumption
  <2> QED BY <1>1, <2>1, HostFrame DEF IInv, MutationsExclude
<1> QED
  BY <1>5, <1>6, <1>7, <1>8, <1>9, <1>10, <1>11 DEF IInv

(***************************************************************************)
(* The invariant, and what follows from it                                 *)
(***************************************************************************)
LEMMA InitIInv ==
  ASSUME Init, TypeOK
  PROVE  IInv
<1>1. mutation.holder = NoOne /\ NoOne \notin Mutations /\ Mutations \subseteq Ops
  BY OpsAssumption DEF Init, Unlocked
<1>2. Waiting(mutation) = {} /\ IsFifo(mutation)
  BY UnlockedIsMutex DEF Init
<1>3. NothingBeforeLoad /\ LoadState /\ BeginState /\ FinState
  BY DEF Init, NothingBeforeLoad, LoadState, BeginState, FinState, Open
<1>4. LeaseState
  BY <1>1, <1>2 DEF Init, LeaseState
<1>5. QuarantineState
  BY <1>1 DEF Init, QuarantineState, QuarantineIsDurable, QuarantineExcludesMutation
<1>6. RequestState /\ MutationsExclude
  BY DEF Init, RequestState, Busy, MutationsExclude, NoOverlappingMutations, InHost
<1> QED
  BY <1>3, <1>4, <1>5, <1>6 DEF IInv

LEMMA IInvStep ==
  ASSUME SerialLoad, ReliableLedger, IInv, [Next]_vars
  PROVE  IInv'
<1>t. TypeOK'
  BY TypeStep DEF IInv
<1>1. ASSUME NEW l \in Loaders, LoadStart(l) \/ LoadProgress(l) PROVE IInv'
  BY <1>t, <1>1, LoadSteps
<1>2. ASSUME NEW o \in Ops, BeginOperation(o) \/ BeginProgress(o) \/ BeginAgain(o)
      PROVE  IInv'
  BY <1>t, <1>2, BeginWithoutLease, QueuedStep, LeaseExpiresStep, PreflightStep
     DEF BeginProgress
<1>3. ASSUME NEW o \in Ops, EndOperation(o) \/ FinProgress(o) PROVE IInv'
  BY <1>t, <1>3, EndSteps, TerminalStep, RegisterStep DEF FinProgress
<1>4. ASSUME NEW r \in Requests, CallProgress(r) \/ Dispatch(r) \/ LateExecution(r)
      PROVE  IInv'
  BY <1>t, <1>4, RequestSteps, SettleSteps DEF CallProgress
<1>5. ASSUME NEW r \in Requests, NEW o \in Ops, Execute(r, o) PROVE IInv'
  BY <1>t, <1>5, ExecuteStep
<1>6. ASSUME NEW o \in Mutations, AcknowledgeUnknown(o) \/ RecordAcknowledged(o)
      PROVE  IInv'
  BY <1>t, <1>6, AcknowledgeStep, AcknowledgedStep
<1>7. CASE Crash
  BY <1>t, <1>7, CrashStep
<1>8. CASE UNCHANGED vars
  <2>1. UNCHANGED <<ledger, loaded, load, stale, used, unknown, active, begin, fin, acking,
                    mutation, call, exec, opOf>>
    BY <1>8 DEF vars, loading, requests
  <2>2. /\ NothingBeforeLoad' /\ LoadState' /\ BeginState' /\ FinState'
        /\ LeaseState' /\ QuarantineState'
    BY <1>t, <2>1, RequestFrame DEF loading
  <2>3. RequestState' /\ MutationsExclude'
    BY <2>1, HostFrame DEF IInv, MutationsExclude, RequestState, Busy
  <2> QED BY <1>t, <2>2, <2>3 DEF IInv
<1> QED
  BY <1>1, <1>2, <1>3, <1>4, <1>5, <1>6, <1>7, <1>8 DEF Next

(* The inductive invariant of the coordinator: what the ledger, the        *)
(* leases, the quarantine and the host have to do with each other.         *)
THEOREM Invariance ==
  ASSUME SerialLoad, ReliableLedger
  PROVE  Spec => []IInv
<1>1. Init => IInv
  BY InitType, InitIInv
<1>2. IInv /\ [Next]_vars => IInv'
  BY IInvStep
<1> QED
  BY <1>1, <1>2, PTL DEF Spec

(* The scripts of two mutations are never in the host together, unless the *)
(* outcome of one of them has been acknowledged: however many mutations    *)
(* and sub-requests there are, and however often the daemon crashes, as    *)
(* long as no owner reports a known outcome of what has not settled.       *)
THEOREM NoOverlap ==
  ASSUME SerialLoad, ReliableLedger, HonestOwners
  PROVE  Spec => []NoOverlappingMutations
<1>1. IInv => NoOverlappingMutations
  BY DEF IInv, MutationsExclude
<1> QED
  BY <1>1, Invariance, PTL

(* Nobody gets the mutation lease while the outcome of another mutation is *)
(* unresolved, also if it asked before that outcome was lost.              *)
THEOREM QuarantineExcludes ==
  ASSUME SerialLoad, ReliableLedger
  PROVE  Spec => []QuarantineExcludesMutation
<1>1. IInv => QuarantineExcludesMutation
  BY DEF IInv, QuarantineState
<1> QED BY <1>1, Invariance, PTL

(* Every mutation that the ledger shows in progress is being worked on.    *)
THEOREM NoneForgotten ==
  ASSUME SerialLoad, ReliableLedger
  PROVE  Spec => []NoForgottenMutation
<1>1. IInv => NoForgottenMutation
  <2> SUFFICES ASSUME IInv, NEW o \in Mutations, loaded, ledger[o] \in {"QUEUED", "RUNNING"}
               PROVE  begin[o] \in {"acquiring", "recording", "failing"} \/ o \in active
    BY DEF NoForgottenMutation
  <2>1. o \in Ops /\ begin[o] # "idle" /\ begin[o] \in BeginStep
    BY OpsAssumption DEF IInv, QuarantineState, CrashLeft, TypeOK
  <2>2. CASE begin[o] = "begun"
    <3>1. fin[o].step \in FinStep /\ fin[o].status \in Terminal \union {"none"}
      BY <2>1 DEF IInv, TypeOK
    <3> QED BY <2>1, <2>2, <3>1 DEF IInv, FinState, FinStep, Terminal
  <2>3. CASE begin[o] \in {"queuing", "refused"}
    BY <2>1, <2>3 DEF IInv, BeginState
  <2> QED BY <2>1, <2>2, <2>3 DEF BeginStep
<1> QED BY <1>1, Invariance, PTL

(* Whoever holds the mutation lease still has something to come that gives *)
(* it back.                                                                *)
THEOREM LeaseNeverLost ==
  ASSUME SerialLoad, ReliableLedger
  PROVE  Spec => []NoLeaseLost
<1>1. IInv => NoLeaseLost
  <2> SUFFICES ASSUME IInv, NEW o \in Mutations, mutation.holder = o
               PROVE  \/ begin[o] \in {"acquiring", "recording"}
                      \/ begin[o] = "begun" /\ o \in active /\ fin[o].step # "broken"
    BY DEF NoLeaseLost
  <2> QED BY OpsAssumption DEF IInv, LeaseState, BeginState, FinState
<1> QED BY <1>1, Invariance, PTL

(* A recorded outcome stands: SUCCEEDED, FAILED and ACKNOWLEDGED are never *)
(* overwritten, UNKNOWN only by an acknowledgement.                        *)
THEOREM OutcomeIsFinal ==
  ASSUME SerialLoad, ReliableLedger
  PROVE  Spec => TerminalOutcomeIsFinal
<1> DEFINE Stands == \A o \in Ops :
             /\ ledger[o] \in {"SUCCEEDED", "FAILED", "ACKNOWLEDGED"} => ledger'[o] = ledger[o]
             /\ ledger[o] = "UNKNOWN" => ledger'[o] \in {"UNKNOWN", "ACKNOWLEDGED"}
<1>1. IInv /\ [Next]_vars => [Stands]_ledger
  <2> SUFFICES ASSUME IInv, [Next]_vars PROVE [Stands]_ledger
    OBVIOUS
  <2>0. ~AppendFails /\ Mutations \subseteq Ops
    BY NoAppendFails, OpsAssumption DEF IInv
  <2>1. ASSUME NEW o \in Ops, NEW s, Record(o, s),
               \/ ledger[o] \in {"none", "QUEUED", "RUNNING"}
               \/ ledger[o] = "UNKNOWN" /\ s = "ACKNOWLEDGED"
        PROVE  Stands
    BY <2>1, RecordEffect DEF IInv
  <2>2. CASE \E l \in Loaders : LoadStart(l) \/ LoadProgress(l)
    <3> PICK l \in Loaders : LoadStart(l) \/ LoadProgress(l)
      BY <2>2
    <3>1. CASE LoadPromote(l)
      BY <2>0, <2>1, <3>1 DEF LoadPromote, IInv, LoadState, CrashLeft
    <3>2. CASE LoadStart(l) \/ LoadIds(l) \/ LoadScan(l) \/ LoadFinish(l)
      BY <3>2 DEF LoadStart, LoadIds, LoadScan, LoadFinish
    <3> QED BY <3>1, <3>2 DEF LoadProgress
  <2>3. CASE \E o \in Ops : BeginOperation(o) \/ BeginProgress(o) \/ BeginAgain(o)
    <3> PICK o \in Ops : BeginOperation(o) \/ BeginProgress(o) \/ BeginAgain(o)
      BY <2>3
    <3>1. CASE RecordQueued(o) \/ RecordRunning(o) \/ RecordRefusal(o)
      BY <2>0, <2>1, <3>1 DEF RecordQueued, RecordRunning, RecordRefusal, IInv, BeginState
    <3>2. CASE BeginOperation(o) \/ BeginLeaseExpires(o) \/ Preflight(o) \/ BeginAgain(o)
      BY <3>2 DEF BeginOperation, BeginLeaseExpires, Preflight, BeginAgain
    <3> QED BY <3>1, <3>2 DEF BeginProgress
  <2>4. CASE \E o \in Ops : EndOperation(o) \/ FinProgress(o)
    <3> PICK o \in Ops : EndOperation(o) \/ FinProgress(o)
      BY <2>4
    <3>1. CASE RecordTerminal(o)
      <4>1. ledger[o] = "RUNNING"
        BY <3>1 DEF RecordTerminal, IInv, BeginState, FinState, Open
      <4> QED BY <2>0, <2>1, <3>1, <4>1 DEF RecordTerminal
    <3>2. CASE EndOperation(o) \/ Postflight(o) \/ RegisterUnknown(o)
      BY <3>2 DEF EndOperation, Postflight, RegisterUnknown
    <3> QED BY <3>1, <3>2 DEF FinProgress
  <2>5. CASE \E o \in Mutations : AcknowledgeUnknown(o) \/ RecordAcknowledged(o)
    <3> PICK o \in Mutations : AcknowledgeUnknown(o) \/ RecordAcknowledged(o)
      BY <2>5
    <3>1. CASE RecordAcknowledged(o)
      <4>1. ledger[o] = "UNKNOWN"
        BY <3>1 DEF RecordAcknowledged, IInv, QuarantineState, QuarantineIsDurable
      <4> QED BY <2>0, <2>1, <3>1, <4>1 DEF RecordAcknowledged
    <3>2. CASE AcknowledgeUnknown(o)
      BY <3>2 DEF AcknowledgeUnknown
    <3> QED BY <3>1, <3>2
  <2>6. CASE \/ \E r \in Requests : CallProgress(r) \/ Dispatch(r) \/ LateExecution(r)
             \/ \E r \in Requests, o \in Ops : Execute(r, o)
             \/ Crash
             \/ UNCHANGED vars
    <3>1. UNCHANGED ledger
      BY <2>6 DEF CallProgress, CepLeaseExpires, StartExecutor, UxpChecked, ExecutionSettles,
                  ExecutionTimesOut, Dispatch, LateExecution, Execute, Crash, vars
    <3> QED BY <3>1
  <2> QED BY <2>2, <2>3, <2>4, <2>5, <2>6 DEF Next
<1> QED BY <1>1, Invariance, PTL DEF Spec, TerminalOutcomeIsFinal
=============================================================================
