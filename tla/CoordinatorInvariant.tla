------------------------ MODULE CoordinatorInvariant ------------------------
(***************************************************************************)
(* The inductive invariants of the operation coordinator.  IInv holds for  *)
(* behaviours in which no two callers are inside #load together and no     *)
(* ledger append fails; without either the coordinator has reachable       *)
(* states that break it (see the violation runs).  Two of its conjuncts,   *)
(* on scripts in flight and on the exclusion of mutations, also need that  *)
(* no owner settles an operation before its sub-requests (HonestOwners).   *)
(* FailureInv is what is left when appends may fail.                       *)
(***************************************************************************)
EXTENDS OperationCoordinator

SerialLoad == \A l1, l2 \in Loaders : l1 = l2

ReliableLedger == MaxAppendFailures = 0

(* Until the ledger is loaded there is nothing in memory.                  *)
NothingBeforeLoad ==
  ~loaded =>
    /\ unknown = {} /\ acking = {} /\ active = {}
    /\ mutation = Unlocked
    /\ \A o \in Ops : begin[o] = "idle"

LoadState ==
  /\ loaded => \A l \in Loaders : load[l] = "idle"
  /\ \A l \in Loaders : load[l] = "promoting" => stale[l] = CrashLeft
  /\ loaded \/ (\E l \in Loaders : load[l] \in {"scan", "promoting"}) =>
       \A o \in Ops : ledger[o] # "none" => o \in used

(* What the ledger shows at each stage of a begin call.                    *)
BeginState ==
  \A o \in Ops :
    /\ begin[o] = "idle" => fin[o] = Open /\ o \notin active
    /\ begin[o] # "idle" => o \in used
    /\ begin[o] = "queuing" => ledger[o] = "none"
    /\ begin[o] \in {"acquiring", "recording", "failing"} => ledger[o] = "QUEUED"
    /\ begin[o] = "refused" => ledger[o] = "FAILED"
    /\ fin[o] # Open => begin[o] = "begun"
    /\ o \in active => begin[o] \in {"recording", "begun"}
    /\ begin[o] = "recording" => o \in active

(* What the ledger shows at each stage of a finalization.                  *)
FinState ==
  \A o \in Ops :
    /\ fin[o].step # "broken"
    /\ fin[o].status = "UNKNOWN" => o \in Mutations
    /\ begin[o] = "begun" /\ fin[o].step \in {"open", "postflight", "recording"} =>
         o \in active /\ ledger[o] = "RUNNING"
    /\ fin[o].step = "open" => fin[o] = Open
    /\ fin[o].step = "postflight" => fin[o].status = "SUCCEEDED" /\ o \in Mutations
    /\ fin[o].step \in {"recording", "registering", "done"} => fin[o].status # "none"
    /\ fin[o].step = "registering" =>
         fin[o].status = "UNKNOWN" /\ o \in active \ unknown /\ ledger[o] = "UNKNOWN"
    /\ fin[o].step = "done" /\ fin[o].status # "UNKNOWN" =>
         o \notin active /\ ledger[o] = fin[o].status
    /\ fin[o].step = "done" /\ fin[o].status = "UNKNOWN" =>
         \/ o \in active /\ ledger[o] = "UNKNOWN"
         \/ o \notin active /\ ledger[o] = "ACKNOWLEDGED"

(* Who has the mutation lease and who waits for it.                        *)
LeaseState ==
  /\ IsFifo(mutation)
  /\ \A o \in Mutations :
       /\ mutation.holder = o => begin[o] = "acquiring" \/ o \in active
       /\ o \in active => mutation.holder = o
       /\ o \in Waiting(mutation) => begin[o] = "acquiring"

(* The quarantine: what is unresolved, and that it keeps mutations out.    *)
QuarantineState ==
  /\ acking \subseteq unknown
  /\ QuarantineIsDurable
  /\ QuarantineExcludesMutation
  /\ unknown # {} /\ ~IsLocked(mutation) =>
       \A o \in Mutations : begin[o] \notin {"queuing", "acquiring"}
  /\ loaded => \A o \in CrashLeft : begin[o] # "idle"

Busy(r) ==
  exec[r] \in {"preparing", "dispatched"} \/ call[r] \in {"checking", "acquiring", "racing"}

(* A sub-request of a mutation that the host may still carry out, if the   *)
(* owners are honest: either its operation is live, has the lease and can  *)
(* only end UNKNOWN, or it is a script that a crash left behind, or the    *)
(* outcome was acknowledged.                                               *)
RequestState ==
  \A r \in Requests :
    /\ call[r] = "idle" <=> opOf[r] = NoOne
    /\ call[r] \in {"idle", "checking", "acquiring"} => exec[r] = "idle"
    /\ HonestOwners /\ Busy(r) /\ opOf[r] \in Mutations /\ ledger[opOf[r]] # "ACKNOWLEDGED" =>
         IF begin[opOf[r]] = "idle"
           THEN /\ call[r] = "done" /\ exec[r] = "dispatched"
                /\ ledger[opOf[r]] \in {"RUNNING", "UNKNOWN"}
           ELSE /\ opOf[r] \in active
                /\ begin[opOf[r]] = "begun"
                /\ fin[opOf[r]].status \in {"none", "UNKNOWN"}
                /\ call[r] = "done" => fin[opOf[r]].status = "UNKNOWN"
    /\ call[r] \notin {"idle", "done"} => begin[opOf[r]] = "begun"

MutationsExclude == HonestOwners => NoOverlappingMutations

IInv ==
  /\ TypeOK
  /\ NothingBeforeLoad
  /\ LoadState
  /\ BeginState
  /\ FinState
  /\ LeaseState
  /\ QuarantineState
  /\ RequestState
  /\ MutationsExclude

(***************************************************************************)
(* What holds also when appends fail, as long as one caller at a time is   *)
(* inside #load.                                                           *)
(***************************************************************************)
Beginning  == {o \in Mutations : begin[o] = "acquiring"}
CepCallers == {r \in Requests : call[r] = "acquiring"}

(* Who waits for the leases, and who may have one.                         *)
MutationWait ==
  /\ Queued(mutation, Beginning)
  /\ \A o \in Mutations : mutation.holder = o => begin[o] \notin {"idle", "queuing"}

CepWait ==
  /\ Queued(cep, CepCallers)
  /\ \A r \in Requests : cep.holder = r => call[r] # "idle"
  /\ \A o \in Ops : \A r \in parked[o] : call[r] = "done"
  /\ \A r \in Requests :
       call[r] \notin {"idle", "done"} => opOf[r] \in Ops /\ begin[opOf[r]] = "begun"

(* An operation of this process is not unresolved before its end has been  *)
(* recorded.                                                               *)
CallOf(o) ==
  /\ begin[o] = "idle" => fin[o] = Open /\ o \notin active
  /\ begin[o] # "idle" => o \in used
  /\ fin[o] # Open => begin[o] = "begun"
  /\ begin[o] = "queuing" => ledger[o] = "none"
  /\ begin[o] # "idle" /\ fin[o].step \notin {"registering", "done"} =>
       ledger[o] \notin {"UNKNOWN", "ACKNOWLEDGED"}

Resolution ==
  /\ \A o \in Ops : CallOf(o)
  /\ acking \subseteq unknown
  /\ QuarantineIsDurable
  /\ LoadLeavesNothing

FailureInv ==
  /\ TypeOK
  /\ NothingBeforeLoad /\ LoadState
  /\ MutationWait
  /\ CepWait
  /\ Resolution
=============================================================================
