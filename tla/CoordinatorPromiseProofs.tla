----------------------- MODULE CoordinatorPromiseProofs -----------------------
(***************************************************************************)
(* The operation coordinator implements QuarantinedMutation: every step of *)
(* the coordinator is a step of the promise, seen through Phase, or leaves *)
(* the phases of all mutations alone.                                      *)
(***************************************************************************)
EXTENDS CoordinatorSafetyProofs

phases == [o \in Mutations |-> Phase(o)]

(* The mutations outside S stay in their phase.                            *)
Unmoved(S) == \A p \in Mutations \ S : Phase(p)' = Phase(p)

NoneUnresolved == \A p \in Mutations : Phase(p) # "unresolved"

(* The phases in terms of the coordinator's state, in any reachable state. *)
LEMMA PhaseMeaning ==
  ASSUME IInv, NEW o \in Mutations
  PROVE  /\ Phase(o) = "acknowledged" <=> ledger[o] = "ACKNOWLEDGED"
         /\ Phase(o) = "unresolved" <=>
              \/ o \in unknown
              \/ begin[o] = "idle" /\ ledger[o] \in {"QUEUED", "RUNNING", "UNKNOWN"}
         /\ Phase(o) = "executing" <=> mutation.holder = o /\ o \notin unknown
         /\ Phase(o) = "settled" <=> ledger[o] \in {"SUCCEEDED", "FAILED"}
         /\ Phase(o) = "new" <=> begin[o] = "idle" /\ ledger[o] = "none"
         /\ Phase(o) \in Promise!Phases
<1>1. /\ o \in Ops /\ ledger[o] \in Status
      /\ o \in unknown => ledger[o] = "UNKNOWN"
  BY OpsAssumption DEF IInv, TypeOK, QuarantineState, QuarantineIsDurable
<1>2. mutation.holder = o =>
        begin[o] # "idle" /\ ledger[o] \in {"QUEUED", "RUNNING", "UNKNOWN"}
  <2> SUFFICES ASSUME mutation.holder = o
               PROVE  begin[o] # "idle" /\ ledger[o] \in {"QUEUED", "RUNNING", "UNKNOWN"}
    OBVIOUS
  <2>1. begin[o] \in {"acquiring", "recording"} \/ (begin[o] = "begun" /\ o \in active)
    BY <1>1 DEF IInv, LeaseState, BeginState
  <2>2. fin[o].step \in FinStep /\ fin[o].status \in Terminal \union {"none"}
    BY <1>1 DEF IInv, TypeOK
  <2>3. CASE begin[o] = "begun" /\ o \in active
    BY <1>1, <2>2, <2>3 DEF IInv, FinState, FinStep, Terminal
  <2>4. CASE begin[o] \in {"acquiring", "recording"}
    BY <1>1, <2>4 DEF IInv, BeginState
  <2> QED BY <2>1, <2>3, <2>4
<1> QED
  BY <1>1, <1>2 DEF Phase, Promise!Phases, Status, Terminal

(* Once the ledger is loaded, unresolved means in the quarantine.          *)
LEMMA QuarantineSeen ==
  ASSUME IInv, loaded
  PROVE  \A o \in Mutations : Phase(o) = "unresolved" <=> o \in unknown
<1> SUFFICES ASSUME NEW o \in Mutations, begin[o] = "idle",
                    ledger[o] \in {"QUEUED", "RUNNING", "UNKNOWN"}
             PROVE  o \in unknown
  BY PhaseMeaning
<1>1. fin[o] = Open /\ o \in Ops
  BY OpsAssumption DEF IInv, BeginState
<1>2. ledger[o] = "UNKNOWN"
  BY DEF IInv, QuarantineState, CrashLeft
<1> QED
  BY <1>1, <1>2 DEF IInv, QuarantineState, QuarantineIsDurable, Open

(***************************************************************************)
(* The steps of the promise, recognised by what they do to the phases      *)
(***************************************************************************)
LEMMA AcceptSeen ==
  ASSUME NEW o \in Mutations, Phase(o) = "new", Phase(o)' = "pending",
         Unmoved({o}), NoneUnresolved
  PROVE  Promise!Next
<1>1. phases' = [phases EXCEPT ![o] = "pending"]
  BY DEF phases, Unmoved
<1>2. Promise!With(phases, "unresolved") = {}
  BY DEF phases, NoneUnresolved, Promise!With
<1>3. phases[o] = "new"
  BY DEF phases
<1>4. Promise!Accept(o)
  BY <1>1, <1>2, <1>3 DEF phases, Promise!Accept
<1> QED
  BY <1>4 DEF Promise!Next

LEMMA RefuseSeen ==
  ASSUME NEW o \in Mutations, Phase(o) = "pending", Phase(o)' = "settled", Unmoved({o})
  PROVE  Promise!Next
<1>1. phases' = [phases EXCEPT ![o] = "settled"] /\ phases[o] = "pending"
  BY DEF phases, Unmoved
<1>2. Promise!Refuse(o)
  BY <1>1 DEF phases, Promise!Refuse
<1> QED
  BY <1>2 DEF Promise!Next

LEMMA LoseSeen ==
  ASSUME NEW o \in Mutations, Phase(o) = "executing", Phase(o)' = "unresolved", Unmoved({o})
  PROVE  Promise!Next
<1>1. phases' = [phases EXCEPT ![o] = "unresolved"] /\ phases[o] = "executing"
  BY DEF phases, Unmoved
<1>2. Promise!LoseOutcome(o)
  BY <1>1 DEF phases, Promise!LoseOutcome
<1> QED
  BY <1>2 DEF Promise!Next

(* Any other mutation that changes phase is a pending one that is let      *)
(* through, and it is let through only if nobody executes or is unresolved. *)
OneGranted(o) ==
  \/ Unmoved({o})
  \/ \E p \in Mutations \ {o} :
       /\ Phase(p) = "pending" /\ Phase(p)' = "executing"
       /\ Unmoved({o, p})
       /\ \A q \in Mutations \ {o} : Phase(q) \notin {"executing", "unresolved"}

LEMMA GrantedSeen ==
  ASSUME NEW o \in Mutations, NEW s \in {"pending", "settled", "acknowledged"},
         Phase(o)' = s, OneGranted(o)
  PROVE  phases' \in Promise!Granted([phases EXCEPT ![o] = s])
<1> DEFINE g == [phases EXCEPT ![o] = s]
<1>1. g \in [Mutations -> {g[q] : q \in Mutations}]
      /\ \A q \in Mutations : g[q] = IF q = o THEN s ELSE Phase(q)
  BY DEF phases
<1>2. CASE Unmoved({o})
  <2>1. phases' = g
    BY <1>2 DEF phases, Unmoved
  <2> QED BY <2>1 DEF Promise!Granted
<1>3. CASE ~Unmoved({o})
  <2>1. PICK p \in Mutations \ {o} :
          /\ Phase(p) = "pending" /\ Phase(p)' = "executing"
          /\ Unmoved({o, p})
          /\ \A q \in Mutations \ {o} : Phase(q) \notin {"executing", "unresolved"}
    BY <1>3 DEF OneGranted
  <2>2. phases' = [g EXCEPT ![p] = "executing"]
    BY <2>1 DEF phases, Unmoved
  <2> HIDE DEF g
  <2>3. p \in Promise!With(g, "pending")
    BY <1>1, <2>1 DEF Promise!With
  <2>4. Promise!With(g, "executing") \union Promise!With(g, "unresolved") = {}
    BY <1>1, <2>1 DEF Promise!With
  <2>5. phases' \in Promise!Granted(g)
    BY <2>2, <2>3, <2>4 DEF Promise!Granted
  <2> QED BY <2>5 DEF g
<1> QED
  BY <1>2, <1>3

LEMMA LeaveSeen ==
  ASSUME NEW o \in Mutations, Phase(o) = "executing", Phase(o)' \in {"pending", "settled"},
         OneGranted(o)
  PROVE  Promise!Next
<1>1. PICK s \in {"pending", "settled"} : Phase(o)' = s
  OBVIOUS
<1>2. phases' \in Promise!Granted([phases EXCEPT ![o] = s]) /\ phases[o] = "executing"
  BY <1>1, GrantedSeen DEF phases
<1>3. Promise!Leave(o)
  BY <1>2 DEF phases, Promise!Leave
<1> QED
  BY <1>3 DEF Promise!Next

LEMMA AcknowledgeSeen ==
  ASSUME NEW o \in Mutations, Phase(o) = "unresolved", Phase(o)' = "acknowledged",
         OneGranted(o)
  PROVE  Promise!Next
<1>1. phases' \in Promise!Granted([phases EXCEPT ![o] = "acknowledged"])
      /\ phases[o] = "unresolved"
  BY GrantedSeen DEF phases
<1>2. Promise!Acknowledge(o)
  BY <1>1 DEF phases, Promise!Acknowledge
<1> QED
  BY <1>2 DEF Promise!Next

LEMMA GrantSeen ==
  ASSUME NEW o \in Mutations, Phase(o) = "pending", Phase(o)' = "executing", Unmoved({o}),
         \A p \in Mutations : Phase(p) \notin {"executing", "unresolved"}
  PROVE  Promise!Next
<1>1. phases' = [phases EXCEPT ![o] = "executing"]
  BY DEF phases, Unmoved
<1>2. o \in Promise!With(phases, "pending")
  BY DEF phases, Promise!With
<1>3. Promise!With(phases, "executing") \union Promise!With(phases, "unresolved") = {}
  BY DEF phases, Promise!With
<1>4. phases' \in Promise!Granted(phases)
  BY <1>1, <1>2, <1>3 DEF Promise!Granted
<1>5. Promise!Grant
  BY <1>4 DEF phases, Promise!Grant
<1> QED
  BY <1>5 DEF Promise!Next

LEMMA CrashSeen ==
  ASSUME \A o \in Mutations :
           /\ Phase(o)' \in Promise!Phases
           /\ Phase(o) = "executing" => Phase(o)' = "unresolved"
           /\ Phase(o) = "pending" => Phase(o)' \in {"new", "unresolved"}
           /\ Phase(o) \notin {"executing", "pending"} => Phase(o)' = Phase(o)
  PROVE  Promise!Next
<1>1. phases' \in [Mutations -> Promise!Phases]
  BY DEF phases
<1>2. \A o \in Mutations : phases[o] = Phase(o) /\ phases'[o] = Phase(o)'
  BY DEF phases
<1>3. Promise!Crash
  BY <1>1, <1>2 DEF phases, Promise!Crash
<1> QED
  BY <1>3 DEF Promise!Next

(***************************************************************************)
(* The steps of the coordinator, seen as steps of the promise              *)
(***************************************************************************)
LEMMA PhaseFrame ==
  ASSUME NEW p \in Mutations,
         ledger'[p] = ledger[p], begin'[p] = begin[p],
         p \in unknown' <=> p \in unknown,
         mutation'.holder = p <=> mutation.holder = p
  PROVE  Phase(p)' = Phase(p)
BY DEF Phase

(* Giving the lease back lets at most one pending mutation through.        *)
LEMMA ReleaseGrants ==
  ASSUME IInv, IInv', NEW o \in Mutations, mutation' = Release(mutation, o),
         begin' = begin \/ (mutation.holder = o /\ begin' = [begin EXCEPT ![o] = "failing"]),
         \A p \in Mutations \ {o} : ledger'[p] = ledger[p] /\ (p \in unknown' <=> p \in unknown),
         loaded
  PROVE  OneGranted(o)
<1>0. Mutations \subseteq Ops /\ NoOne \notin Mutations
  BY OpsAssumption
<1>1. \A p \in Mutations \ {o} : begin'[p] = begin[p]
  BY <1>0 DEF IInv, TypeOK
<1>2. CASE mutation.holder # o
  <2>1. mutation' = mutation
    BY <1>0, <1>2, LeaseReleased DEF IInv
  <2>2. Unmoved({o})
    BY <1>1, <2>1, PhaseFrame DEF Unmoved
  <2> QED BY <2>2 DEF OneGranted
<1>3. CASE mutation.holder = o /\ ~IsLocked(mutation')
  <2>1. \A p \in Mutations \ {o} : mutation.holder # p /\ mutation'.holder # p
    BY <1>0, <1>3 DEF IsLocked
  <2>2. Unmoved({o})
    BY <1>1, <2>1, PhaseFrame DEF Unmoved
  <2> QED BY <2>2 DEF OneGranted
<1>4. CASE mutation.holder = o /\ IsLocked(mutation')
  <2>1. PICK p \in Mutations \ {o} : mutation'.holder = p /\ begin[p] = "acquiring"
    BY <1>0, <1>4, LeaseReleased DEF IInv
  <2>2. unknown \subseteq {o}
    BY <1>4 DEF IInv, QuarantineState, QuarantineExcludesMutation
  <2>3. \A q \in Mutations \ {o} : Phase(q) \notin {"executing", "unresolved"}
    BY <1>4, <2>2, PhaseMeaning, QuarantineSeen
  <2>4. Phase(p) = "pending"
    <3>1. ledger[p] = "QUEUED"
      BY <1>0, <2>1 DEF IInv, BeginState
    <3> QED BY <2>1, <2>3, <3>1, PhaseMeaning DEF Promise!Phases
  <2>5. Phase(p)' = "executing"
    <3>1. p \notin unknown'
      BY <2>1, <2>2
    <3>2. p \notin unknown /\ begin'[p] = "acquiring" /\ ledger'[p] = "QUEUED"
      BY <1>0, <1>1, <2>1, <2>2 DEF IInv, BeginState
    <3> QED BY <2>1, <3>1, <3>2 DEF Phase
  <2>6. Unmoved({o, p})
    BY <1>1, <1>4, <2>1, PhaseFrame DEF Unmoved
  <2> QED BY <2>1, <2>3, <2>4, <2>5, <2>6 DEF OneGranted
<1> QED
  BY <1>2, <1>3, <1>4

LEMMA LoadSeen ==
  ASSUME SerialLoad, ReliableLedger, IInv, IInv', NEW l \in Loaders,
         LoadStart(l) \/ LoadProgress(l)
  PROVE  Unmoved({})
<1>1. ~loaded
  BY DEF LoadStart, LoadProgress, LoadIds, LoadScan, LoadPromote, LoadFinish, IInv, LoadState
<1>2. /\ unknown = {} /\ mutation = Unlocked
      /\ \A o \in Ops : begin[o] = "idle"
  BY <1>1 DEF IInv, NothingBeforeLoad
<1>3. UNCHANGED <<begin, mutation>>
  BY DEF LoadStart, LoadProgress, LoadIds, LoadScan, LoadPromote, LoadFinish, requests
<1>4. \/ unknown' \subseteq {o \in Mutations : ledger[o] = "UNKNOWN"} /\ ledger' = ledger
      \/ unknown' = unknown /\ ledger' = ledger
      \/ /\ unknown' = unknown
         /\ \E o \in CrashLeft :
              /\ ledger'[o] = "UNKNOWN"
              /\ \A p \in Ops : p # o => ledger'[p] = ledger[p]
  <2>1. CASE LoadPromote(l)
    BY <2>1, NoAppendFails, RecordEffect, OpsAssumption
       DEF LoadPromote, IInv, LoadState, TypeOK, CrashLeft
  <2>2. CASE LoadStart(l) \/ LoadIds(l) \/ LoadScan(l)
    BY <2>2 DEF LoadStart, LoadIds, LoadScan
  <2>3. CASE LoadFinish(l)
    BY <1>2, <2>3 DEF LoadFinish, Unresolved
  <2> QED BY <2>1, <2>2, <2>3 DEF LoadProgress
<1>5. ASSUME NEW o \in Mutations PROVE Phase(o)' = Phase(o)
  <2>1. o \in Ops /\ begin[o] = "idle" /\ begin'[o] = "idle"
    BY <1>2, <1>3, OpsAssumption
  <2>2. \/ ledger'[o] = ledger[o] /\ (o \in unknown' => ledger[o] = "UNKNOWN")
        \/ ledger[o] \in {"QUEUED", "RUNNING"} /\ ledger'[o] = "UNKNOWN"
    BY <1>2, <1>4, <2>1 DEF CrashLeft
  <2> QED BY <1>2, <1>3, <2>1, <2>2 DEF Phase
<1> QED
  BY <1>5 DEF Unmoved

LEMMA RequestsSeen ==
  ASSUME \/ \E r \in Requests : CallProgress(r) \/ Dispatch(r) \/ LateExecution(r)
         \/ \E r \in Requests, o \in Ops : Execute(r, o)
         \/ \E o \in Ops : EndOperation(o) \/ Postflight(o)
         \/ \E o \in Mutations : AcknowledgeUnknown(o)
         \/ UNCHANGED vars
  PROVE  Unmoved({})
<1>1. UNCHANGED <<ledger, unknown, begin, mutation>>
  BY DEF CallProgress, CepLeaseExpires, StartExecutor, UxpChecked, ExecutionSettles,
         ExecutionTimesOut, Dispatch, LateExecution, Execute, EndOperation, Postflight,
         AcknowledgeUnknown, vars
<1> QED
  BY <1>1, PhaseFrame DEF Unmoved

LEMMA BeginSeen ==
  ASSUME ReliableLedger, IInv, IInv', NEW o \in Ops,
         BeginOperation(o) \/ BeginProgress(o) \/ BeginAgain(o)
  PROVE  Promise!Next \/ Unmoved({})
<1>0. /\ ~AppendFails /\ Mutations \subseteq Ops /\ NoOne \notin Mutations
      /\ ~BeginAgain(o)
  BY NoAppendFails, OpsAssumption DEF IInv, BeginAgain, BeginState
<1>1. loaded /\ unknown' = unknown
  BY <1>0 DEF BeginOperation, BeginProgress, RecordQueued, BeginLeaseExpires, Preflight,
              RecordRunning, RecordRefusal, IInv, NothingBeforeLoad
<1>2. \A p \in Ops \ {o} : begin'[p] = begin[p] /\ ledger'[p] = ledger[p]
  <2>1. ledger' = ledger \/ \E s : Record(o, s)
    BY <1>0 DEF BeginOperation, BeginProgress, RecordQueued, BeginLeaseExpires, Preflight,
                RecordRunning, RecordRefusal
  <2>2. \A p \in Ops \ {o} : ledger'[p] = ledger[p]
    BY <2>1, RecordEffect DEF IInv
  <2>3. \E b \in BeginStep : begin' = [begin EXCEPT ![o] = b]
    BY <1>0 DEF BeginOperation, BeginProgress, RecordQueued, BeginLeaseExpires, Preflight,
                RecordRunning, RecordRefusal, BeginStep
  <2> QED BY <2>2, <2>3 DEF IInv, TypeOK
<1>3. CASE BeginOperation(o)
  <2>1. begin[o] = "idle" /\ ledger[o] = "none" /\ begin'[o] = "queuing" /\ ledger' = ledger
        /\ mutation' = mutation
    BY <1>1, <1>3 DEF BeginOperation, IInv, TypeOK, LoadState
  <2>2. Unmoved({o})
    BY <1>0, <1>1, <1>2, <2>1, PhaseFrame DEF Unmoved
  <2>3. CASE o \notin Mutations
    BY <2>2, <2>3 DEF Unmoved
  <2>4. CASE o \in Mutations
    <3>1. Phase(o) = "new" /\ o \notin unknown /\ mutation.holder # o
      BY <2>1, <2>4, PhaseMeaning DEF IInv, LeaseState, BeginState, QuarantineState, QuarantineIsDurable
    <3>2. Phase(o)' = "pending"
      BY <1>1, <2>1, <3>1 DEF Phase
    <3>3. NoneUnresolved
      BY <1>1, <1>3, <2>4, QuarantineSeen DEF BeginOperation, Quarantined, NoneUnresolved
    <3> QED BY <2>2, <2>4, <3>1, <3>2, <3>3, AcceptSeen
  <2> QED BY <2>3, <2>4
<1>4. CASE RecordQueued(o)
  <2>1. /\ begin[o] = "queuing" /\ ledger[o] = "none" /\ begin'[o] = "acquiring"
        /\ ledger'[o] = "QUEUED" /\ o \notin active
        /\ mutation' = IF o \in Mutations THEN Acquire(mutation, o) ELSE mutation
    BY <1>0, <1>4, RecordEffect DEF RecordQueued, IInv, TypeOK, BeginState
  <2>2. CASE o \notin Mutations
    BY <1>0, <1>1, <1>2, <2>1, <2>2, PhaseFrame DEF Unmoved
  <2>3. CASE o \in Mutations
    <3>1. o \notin unknown /\ mutation.holder # o /\ o \notin Waiting(mutation)
      BY <2>1, <2>3 DEF IInv, LeaseState, QuarantineState, QuarantineIsDurable
    <3>2. Phase(o) = "pending"
      BY <2>1, <2>3, <3>1, PhaseMeaning DEF Promise!Phases
    <3>3. mutation \in Mutex(Mutations) /\ IsFifo(mutation)
      BY DEF IInv, TypeOK, LeaseState
    <3>4. CASE IsLocked(mutation)
      <4>1. mutation'.holder = mutation.holder
        BY <1>0, <2>1, <2>3, <3>1, <3>3, <3>4, AcquireLemma
      <4>2. Unmoved({o})
        BY <1>0, <1>1, <1>2, <4>1, PhaseFrame DEF Unmoved
      <4>3. Phase(o)' = "pending"
        BY <1>1, <2>1, <3>1, <4>1 DEF Phase
      <4> QED BY <3>2, <4>2, <4>3 DEF Unmoved
    <3>5. CASE ~IsLocked(mutation)
      <4>1. mutation'.holder = o /\ mutation.holder = NoOne
        BY <1>0, <2>1, <2>3, <3>1, <3>3, <3>5, AcquireLemma DEF IsLocked
      <4>2. Unmoved({o})
        BY <1>0, <1>1, <1>2, <4>1, PhaseFrame DEF Unmoved
      <4>3. Phase(o)' = "executing"
        BY <1>1, <2>1, <3>1, <4>1 DEF Phase
      <4>4. unknown = {}
        BY <2>1, <2>3, <3>5 DEF IInv, QuarantineState
      <4>5. \A p \in Mutations : Phase(p) \notin {"executing", "unresolved"}
        BY <1>0, <1>1, <4>1, <4>4, PhaseMeaning, QuarantineSeen
      <4> QED BY <2>3, <3>2, <4>2, <4>3, <4>5, GrantSeen
    <3> QED BY <3>4, <3>5
  <2> QED BY <2>2, <2>3
<1>5. CASE BeginLeaseExpires(o)
  <2>1. mutation'.holder = mutation.holder
    BY <1>5, ExpireLemma DEF BeginLeaseExpires, IInv, TypeOK
  <2>2. begin[o] = "acquiring" /\ begin'[o] = "failing" /\ ledger' = ledger
    BY <1>5 DEF BeginLeaseExpires, IInv, TypeOK
  <2>3. \A p \in Mutations : Phase(p)' = Phase(p)
    <3>1. \A p \in Mutations \ {o} : Phase(p)' = Phase(p)
      BY <1>0, <1>1, <1>2, <2>1, <2>2, PhaseFrame
    <3>2. Phase(o)' = Phase(o)
      BY <1>1, <2>1, <2>2 DEF Phase
    <3> QED BY <3>1, <3>2
  <2> QED BY <2>3 DEF Unmoved
<1>6. CASE Preflight(o)
  <2>1. begin[o] = "acquiring" /\ ledger' = ledger /\ ledger[o] = "QUEUED" /\ HasMutationLease(o)
    BY <1>6 DEF Preflight, IInv, BeginState
  <2>2. CASE mutation' = mutation /\ begin'[o] = "recording"
    <3>1. \A p \in Mutations \ {o} : Phase(p)' = Phase(p)
      BY <1>0, <1>1, <1>2, <2>2, PhaseFrame
    <3>2. Phase(o)' = Phase(o)
      BY <1>1, <2>1, <2>2 DEF Phase
    <3> QED BY <3>1, <3>2 DEF Unmoved
  <2>3. CASE /\ o \in Mutations /\ mutation' = Release(mutation, o)
             /\ begin' = [begin EXCEPT ![o] = "failing"]
    <3>1. mutation.holder = o /\ o \notin unknown
      BY <2>1, <2>3 DEF HasMutationLease, IInv, QuarantineState, QuarantineIsDurable
    <3>2. Phase(o) = "executing"
      BY <2>3, <3>1, PhaseMeaning
    <3>3. mutation'.holder # o
      BY <1>0, <2>3, <3>1, LeaseReleased DEF IInv, IsLocked
    <3>4. begin'[o] = "failing"
      BY <2>3 DEF IInv, TypeOK
    <3>5. Phase(o)' = "pending"
      BY <1>1, <2>1, <3>1, <3>3, <3>4 DEF Phase
    <3>6. OneGranted(o)
      BY <1>0, <1>1, <1>2, <2>1, <2>3, <3>1, ReleaseGrants
    <3> QED BY <2>3, <3>2, <3>5, <3>6, LeaveSeen
  <2> QED BY <1>6, <2>2, <2>3 DEF Preflight, IInv, TypeOK
<1>7. CASE RecordRunning(o)
  <2>1. begin[o] = "recording" /\ begin'[o] = "begun" /\ ledger[o] = "QUEUED"
        /\ ledger'[o] = "RUNNING" /\ mutation' = mutation
    BY <1>0, <1>7, RecordEffect DEF RecordRunning, IInv, TypeOK, BeginState
  <2>2. \A p \in Mutations \ {o} : Phase(p)' = Phase(p)
    BY <1>0, <1>1, <1>2, <2>1, PhaseFrame
  <2>3. Phase(o)' = Phase(o)
    BY <1>1, <2>1 DEF Phase
  <2> QED BY <2>2, <2>3 DEF Unmoved
<1>8. CASE RecordRefusal(o)
  <2>1. begin[o] = "failing" /\ begin'[o] = "refused" /\ ledger[o] = "QUEUED"
        /\ ledger'[o] = "FAILED" /\ mutation' = mutation /\ o \notin active
    BY <1>0, <1>8, RecordEffect DEF RecordRefusal, IInv, TypeOK, BeginState
  <2>2. Unmoved({o})
    BY <1>0, <1>1, <1>2, <2>1, PhaseFrame DEF Unmoved
  <2>3. CASE o \notin Mutations
    BY <2>2, <2>3 DEF Unmoved
  <2>4. CASE o \in Mutations
    <3>1. o \notin unknown /\ mutation.holder # o
      BY <2>1, <2>4 DEF IInv, LeaseState, QuarantineState, QuarantineIsDurable
    <3>2. Phase(o) = "pending"
      BY <2>1, <2>4, <3>1, PhaseMeaning DEF Promise!Phases
    <3>3. Phase(o)' = "settled"
      BY <1>1, <2>1, <3>1 DEF Phase
    <3> QED BY <2>2, <2>4, <3>2, <3>3, RefuseSeen
  <2> QED BY <2>3, <2>4
<1> QED
  BY <1>0, <1>3, <1>4, <1>5, <1>6, <1>7, <1>8 DEF BeginProgress

LEMMA EndSeen ==
  ASSUME ReliableLedger, IInv, IInv', NEW o \in Ops, RecordTerminal(o) \/ RegisterUnknown(o)
  PROVE  Promise!Next \/ Unmoved({})
<1>0. ~AppendFails /\ Mutations \subseteq Ops /\ NoOne \notin Mutations
  BY NoAppendFails, OpsAssumption DEF IInv
<1>1. /\ fin[o] # Open /\ begin[o] = "begun" /\ o \in active /\ loaded
      /\ begin' = begin
  BY DEF RecordTerminal, RegisterUnknown, IInv, BeginState, FinState, NothingBeforeLoad, Open
<1>2. o \in Mutations => mutation.holder = o
  BY <1>1 DEF IInv, LeaseState
<1>3. CASE RecordTerminal(o)
  <2>1. ledger[o] = "RUNNING" /\ ledger'[o] = fin[o].status
        /\ \A p \in Ops \ {o} : ledger'[p] = ledger[p]
    BY <1>0, <1>1, <1>3, RecordEffect DEF RecordTerminal, IInv, FinState
  <2>2. unknown' = unknown
    BY <1>3 DEF RecordTerminal
  <2>3. o \in Mutations => o \notin unknown
    BY <2>1 DEF IInv, QuarantineState, QuarantineIsDurable
  <2>4. CASE fin[o].status = "UNKNOWN" /\ mutation' = mutation
    <3>1. \A p \in Mutations \ {o} : Phase(p)' = Phase(p)
      BY <1>0, <1>1, <2>1, <2>2, <2>4, PhaseFrame
    <3>2. o \in Mutations => Phase(o)' = Phase(o)
      BY <1>1, <1>2, <2>1, <2>2, <2>3, <2>4 DEF Phase
    <3> QED BY <3>1, <3>2 DEF Unmoved
  <2>5. CASE fin[o].status # "UNKNOWN" /\ mutation' = Release(mutation, o)
    <3>1. CASE o \notin Mutations
      <4>1. mutation' = mutation
        BY <2>5, <3>1, LeaseReleased DEF IInv
      <4> QED BY <1>0, <1>1, <2>1, <2>2, <3>1, <4>1, PhaseFrame DEF Unmoved
    <3>2. CASE o \in Mutations
      <4>1. fin[o].status \in {"SUCCEEDED", "FAILED"}
        BY <1>3, <2>5 DEF RecordTerminal, IInv, TypeOK, FinState, Terminal
      <4>2. Phase(o) = "executing"
        BY <1>2, <2>3, <3>2, PhaseMeaning
      <4>3. Phase(o)' = "settled"
        BY <2>1, <3>2, <4>1, PhaseMeaning DEF Phase
      <4>4. OneGranted(o)
        BY <1>0, <1>1, <2>1, <2>2, <2>5, <3>2, ReleaseGrants
      <4> QED BY <3>2, <4>2, <4>3, <4>4, LeaveSeen
    <3> QED BY <3>1, <3>2
  <2> QED BY <1>0, <1>3, <2>4, <2>5 DEF RecordTerminal
<1>4. CASE RegisterUnknown(o)
  <2>1. /\ o \in Mutations /\ ledger[o] = "UNKNOWN" /\ o \notin unknown
        /\ ledger' = ledger /\ mutation' = mutation
        /\ unknown' = unknown \union {o}
    BY <1>4 DEF RegisterUnknown, bookkeeping, IInv, FinState, TypeOK, Unresolved
  <2>2. Phase(o) = "executing"
    BY <1>2, <2>1, PhaseMeaning
  <2>3. Phase(o)' = "unresolved"
    BY <1>1, <2>1 DEF Phase
  <2>4. Unmoved({o})
    BY <1>1, <2>1, PhaseFrame DEF Unmoved
  <2> QED BY <2>1, <2>2, <2>3, <2>4, LoseSeen
<1> QED
  BY <1>3, <1>4

LEMMA AcknowledgedSeen ==
  ASSUME ReliableLedger, IInv, IInv', NEW o \in Mutations, RecordAcknowledged(o)
  PROVE  Promise!Next
<1>0. ~AppendFails /\ Mutations \subseteq Ops
  BY NoAppendFails, OpsAssumption DEF IInv
<1>1. /\ o \in unknown /\ loaded /\ begin' = begin
      /\ Record(o, "ACKNOWLEDGED")
      /\ unknown' = unknown \ {o}
      /\ mutation' = Release(mutation, o)
  BY <1>0 DEF RecordAcknowledged, IInv, QuarantineState, NothingBeforeLoad
<1>2. ledger'[o] = "ACKNOWLEDGED" /\ \A p \in Ops \ {o} : ledger'[p] = ledger[p]
  BY <1>0, <1>1, RecordEffect DEF IInv
<1>3. Phase(o) = "unresolved"
  BY <1>1, PhaseMeaning
<1>4. Phase(o)' = "acknowledged"
  <2>1. mutation'.holder # o
    BY <1>0, <1>1, LeaseReleased, OpsAssumption DEF IInv, IsLocked
  <2> QED BY <1>1, <1>2, <2>1 DEF Phase
<1>5. OneGranted(o)
  BY <1>0, <1>1, <1>2, ReleaseGrants
<1> QED
  BY <1>3, <1>4, <1>5, AcknowledgeSeen

(* After a crash what was executing is in the ledger as in progress or as  *)
(* UNKNOWN; what was pending is there too, unless it was still queuing.    *)
LEMMA CrashIsSeen ==
  ASSUME IInv, IInv', Crash
  PROVE  Promise!Next
<1> SUFFICES ASSUME NEW o \in Mutations
             PROVE  /\ Phase(o)' \in Promise!Phases
                    /\ Phase(o) = "executing" => Phase(o)' = "unresolved"
                    /\ Phase(o) = "pending" => Phase(o)' \in {"new", "unresolved"}
                    /\ Phase(o) \notin {"executing", "pending"} => Phase(o)' = Phase(o)
  BY CrashSeen
<1>1. /\ ledger' = ledger /\ begin'[o] = "idle" /\ unknown' = {}
      /\ mutation'.holder # o
  BY OpsAssumption DEF Crash, Unlocked
<1>2. o \in Ops /\ ledger[o] \in Status /\ (o \in unknown => ledger[o] = "UNKNOWN")
  BY OpsAssumption DEF IInv, TypeOK, QuarantineState, QuarantineIsDurable
<1>3. Phase(o)' = CASE ledger[o] = "ACKNOWLEDGED" -> "acknowledged"
                    [] ledger[o] \in {"QUEUED", "RUNNING", "UNKNOWN"} -> "unresolved"
                    [] ledger[o] \in {"SUCCEEDED", "FAILED"} -> "settled"
                    [] ledger[o] = "none" -> "new"
  BY <1>1, <1>2 DEF Phase, Status, Terminal
<1>4. /\ Phase(o) = "acknowledged" <=> ledger[o] = "ACKNOWLEDGED"
      /\ Phase(o) = "unresolved" =>  ledger[o] \in {"QUEUED", "RUNNING", "UNKNOWN"}
      /\ Phase(o) = "settled" <=> ledger[o] \in {"SUCCEEDED", "FAILED"}
      /\ Phase(o) = "new" => ledger[o] = "none"
      /\ Phase(o) \in Promise!Phases
  BY <1>2, PhaseMeaning
<1>5. Phase(o) = "executing" => ledger[o] \in {"QUEUED", "RUNNING", "UNKNOWN"}
  <2> SUFFICES ASSUME mutation.holder = o
               PROVE  ledger[o] \in {"QUEUED", "RUNNING", "UNKNOWN"}
    BY PhaseMeaning
  <2>1. begin[o] = "acquiring" \/ o \in active
    BY DEF IInv, LeaseState
  <2>2. begin[o] \in {"acquiring", "recording"} => ledger[o] = "QUEUED"
    BY <1>2 DEF IInv, BeginState
  <2>3. fin[o].step \in FinStep /\ fin[o].status \in Terminal \union {"none"}
    BY <1>2 DEF IInv, TypeOK
  <2>4. begin[o] = "begun" /\ o \in active => ledger[o] \in {"RUNNING", "UNKNOWN"}
    BY <1>2, <2>3 DEF IInv, FinState, FinStep, Terminal
  <2> QED BY <1>2, <2>1, <2>2, <2>4 DEF IInv, BeginState
<1> QED
  BY <1>2, <1>3, <1>4, <1>5 DEF Promise!Phases, Status, Terminal

(* The coordinator implements the promise, whatever the number of          *)
(* mutations, sub-requests and crashes: an unresolved outcome keeps every  *)
(* other mutation out until it is acknowledged.                            *)
THEOREM PromiseKept ==
  ASSUME SerialLoad, ReliableLedger
  PROVE  Spec => KeepsPromise
<1>1. Init => Promise!Init
  <2> SUFFICES ASSUME Init PROVE \A o \in Mutations : Phase(o) = "new"
    BY DEF Promise!Init
  <2>1. IInv
    BY InitType, InitIInv
  <2> QED BY <2>1, PhaseMeaning, OpsAssumption DEF Init
<1>2. ASSUME IInv, IInv', [Next]_vars
      PROVE  Promise!Next \/ Unmoved({})
  <2>1. CASE \E l \in Loaders : LoadStart(l) \/ LoadProgress(l)
    BY <1>2, <2>1, LoadSeen
  <2>2. CASE \E o \in Ops : BeginOperation(o) \/ BeginProgress(o) \/ BeginAgain(o)
    BY <1>2, <2>2, BeginSeen
  <2>3. CASE \E o \in Ops : RecordTerminal(o) \/ RegisterUnknown(o)
    BY <1>2, <2>3, EndSeen
  <2>4. CASE \E o \in Mutations : RecordAcknowledged(o)
    BY <1>2, <2>4, AcknowledgedSeen
  <2>5. CASE Crash
    BY <1>2, <2>5, CrashIsSeen
  <2>6. CASE \/ \E r \in Requests : CallProgress(r) \/ Dispatch(r) \/ LateExecution(r)
             \/ \E r \in Requests, o \in Ops : Execute(r, o)
             \/ \E o \in Ops : EndOperation(o) \/ Postflight(o)
             \/ \E o \in Mutations : AcknowledgeUnknown(o)
             \/ UNCHANGED vars
    BY <2>6, RequestsSeen
  <2> QED BY <1>2, <2>1, <2>2, <2>3, <2>4, <2>5, <2>6 DEF Next, FinProgress
<1>3. IInv /\ IInv' /\ [Next]_vars => [Promise!Next]_([o \in Mutations |-> Phase(o)])
  <2>1. Unmoved({}) => UNCHANGED [o \in Mutations |-> Phase(o)]
    BY DEF Unmoved
  <2> QED BY <1>2, <2>1
<1> QED
  BY <1>1, <1>3, Invariance, PTL DEF Spec, KeepsPromise, Promise!Spec
=============================================================================
