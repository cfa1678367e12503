--------------------------- MODULE CepRelayProofs ---------------------------
(***************************************************************************)
(* Theorems about the relay to the CEP panel, for any jobs, any number of  *)
(* connections and queues and messages of any length.                      *)
(***************************************************************************)
EXTENDS CepRelay, FiniteSetTheorems, SequenceTheorems, TLAPS

LEMMA RelayInvInit == Init => RelayInv
<1> SUFFICES ASSUME Init PROVE RelayInv
  OBVIOUS
<1> USE RelayAssumption DEF Init, RelayInv
<1>1. Cardinality(DomProbes) \in Nat
  BY FS_CardinalityType
<1>2. TypeOK
  BY <1>1 DEF TypeOK, Unprobed, Panels, NoPanel, Jobs, Failures, Message
<1>3. RequestState
  BY DEF RequestState, NoPanel, Panels
<1> QED
  BY <1>2, <1>3 DEF PanelIsThere, PendingOnCurrentPanel, OneAtATime, StreakOfThisPanel,
     LateFollowsOpenAnswer, Unprobed, NoPanel

(* The probes that the panel of now has answered well.                     *)
Good == {d \in DomProbes : ran[d] = cepSocket /\ result[d] = "ok"}

LEMMA GoodSize == /\ IsFiniteSet(Good)
                  /\ Cardinality(DomProbes) \in Nat
                  /\ Cardinality(Good) \in 0 .. Cardinality(DomProbes)
BY RelayAssumption, FS_Subset, FS_CardinalityType DEF Good

LEMMA GoodSizePrimed == /\ IsFiniteSet(Good')
                        /\ Cardinality(Good') \in 0 .. Cardinality(DomProbes)
<1>1. Good' \subseteq DomProbes
  BY DEF Good
<1> QED
  BY <1>1, RelayAssumption, FS_Subset, FS_CardinalityType

ReadinessType == readiness \in [ready : {"unknown", "yes", "no"},
                                streak : 0 .. Cardinality(DomProbes),
                                session : Panels \union {NoPanel}]

LEMMA StreakOfGood == StreakOfThisPanel <=>
  (readiness.streak > 0 => readiness.session = cepSocket /\ readiness.streak <= Cardinality(Good))
BY DEF StreakOfThisPanel, Good

LEMMA StreakOfGoodPrimed == StreakOfThisPanel' <=>
  (readiness'.streak > 0 => readiness'.session = cepSocket' /\ readiness'.streak <= Cardinality(Good'))
BY DEF StreakOfThisPanel, Good

(* A step that starts the streak again, or leaves it and the probes that   *)
(* succeeded as they were, keeps it sound.                                 *)
LEMMA StreakKept ==
  ASSUME RelayInv,
         \/ readiness' = readiness /\ cepSocket' = cepSocket
         \/ /\ readiness'.streak = 0
            /\ readiness' \in [ready : {"unknown", "yes", "no"}, streak : {0},
                               session : Panels \union {NoPanel}],
         Good \subseteq Good' \/ cepSocket' # cepSocket
  PROVE  ReadinessType' /\ StreakOfThisPanel'
<1>1. CASE readiness'.streak = 0
  <2>1. readiness' \in [ready : {"unknown", "yes", "no"}, streak : {0},
                        session : Panels \union {NoPanel}]
    BY <1>1 DEF RelayInv, TypeOK
  <2> QED
    BY <1>1, <2>1, StreakOfGoodPrimed, GoodSize DEF ReadinessType
<1>2. CASE readiness' = readiness /\ cepSocket' = cepSocket
  <2>1. Cardinality(Good) <= Cardinality(Good')
    BY <1>2, GoodSizePrimed, FS_Subset
  <2> QED
    BY <1>2, <2>1, StreakOfGood, StreakOfGoodPrimed, GoodSize, GoodSizePrimed
       DEF ReadinessType, RelayInv, TypeOK
<1> QED
  BY <1>1, <1>2

(* A probe that succeeds makes the streak longer by one.                   *)
LEMMA StreakGrows ==
  ASSUME RelayInv, NEW d \in DomProbes, d \notin Good,
         cepSocket \in Panels, cepSocket' = cepSocket,
         readiness' = [ready |-> "yes", streak |-> readiness.streak + 1, session |-> cepSocket],
         Good \union {d} \subseteq Good'
  PROVE  ReadinessType' /\ StreakOfThisPanel'
<1>1. Cardinality(Good \union {d}) = Cardinality(Good) + 1
  BY GoodSize, FS_AddElement
<1>2. Cardinality(Good \union {d}) <= Cardinality(Good')
  BY GoodSizePrimed, FS_Subset
<1>3. readiness.streak <= Cardinality(Good) /\ readiness.streak \in Nat
  BY StreakOfGood, GoodSize DEF RelayInv, TypeOK
<1>4. readiness.streak + 1 <= Cardinality(Good') /\ readiness.streak + 1 \in 0 .. Cardinality(DomProbes)
  BY <1>1, <1>2, <1>3, GoodSize, GoodSizePrimed
<1>5. readiness'.session = cepSocket' /\ readiness'.streak = readiness.streak + 1
  OBVIOUS
<1> QED
  BY <1>4, <1>5, StreakOfGoodPrimed DEF ReadinessType

(* The queue without its head, and with a new job at its end.              *)
LEMMA QueueType ==
  ASSUME queue \in Seq(Jobs)
  PROVE  /\ queue # <<>> => Tail(queue) \in Seq(Jobs) /\ Head(queue) \in Jobs
         /\ \A j \in Jobs : /\ Append(queue, j) \in Seq(Jobs)
                            /\ Append(queue, j) # <<>>
                            /\ queue # <<>> => Head(Append(queue, j)) = Head(queue)
BY HeadTailProperties, AppendProperties, EmptySeq, ElementOfSeq

(* At most one request is pending, and its job has the turn; jobs that     *)
(* have had their turn, with all that is pending among them, settle.       *)
LEMMA SettleLemma ==
  ASSUME RelayInv, NEW J \in SUBSET Jobs, NEW r \in Failures \union {"ok"}, r # "expired",
         \A j \in Jobs : pending[j] # NoPanel => j \in J,
         \A j \in J : stage[j] \in {"queued", "working"},
         Settle(J, r)
  PROVE  /\ pending' = [j \in Jobs |-> NoPanel]
         /\ result' \in [Jobs -> Failures \union {"none", "ok"}]
         /\ stage' \in [Jobs -> {"idle", "queued", "working", "over"}]
         /\ queue' \in Seq(Jobs)
         /\ \A j \in J : stage'[j] = "over" /\ result'[j] = IF result[j] = "none" THEN r ELSE "expired"
         /\ \A j \in Jobs \ J : stage'[j] = stage[j] /\ result'[j] = result[j]
<1> USE DEF RelayInv, TypeOK
<1>1. queue' \in Seq(Jobs)
  BY QueueType DEF Settle
<1>2. \A j \in J : result[j] \in {"none", "expired"}
  BY DEF RequestState
<1> QED
  BY <1>1, <1>2 DEF Settle, Failures

(***************************************************************************)
(* The queue                                                               *)
(***************************************************************************)

LEMMA EnqueueKeeps ==
  ASSUME RelayInv, NEW j \in Jobs, stage[j] = "idle", Enqueue(j)
  PROVE  RelayInv'
<1> USE DEF RelayInv, Enqueue, panel
<1>1. TypeOK'
  BY QueueType DEF TypeOK
<1>2. RequestState' /\ PanelIsThere' /\ PendingOnCurrentPanel' /\ LateFollowsOpenAnswer'
  BY DEF RequestState, PanelIsThere, PendingOnCurrentPanel, LateFollowsOpenAnswer, TypeOK
<1>3. OneAtATime'
  BY QueueType DEF OneAtATime, TypeOK
<1>4. StreakOfThisPanel'
  BY DEF StreakOfThisPanel
<1> QED
  BY <1>1, <1>2, <1>3, <1>4

LEMMA RefuseKeeps ==
  ASSUME RelayInv, NEW j \in Jobs, NEW r \in {"failed", "not_connected"},
         stage[j] = "idle", Refuse(j, r)
  PROVE  RelayInv'
<1> USE DEF RelayInv, Refuse, panel
<1>1. TypeOK'
  BY DEF TypeOK, Failures
<1>2. RequestState' /\ PanelIsThere' /\ PendingOnCurrentPanel' /\ OneAtATime'
  BY DEF RequestState, PanelIsThere, PendingOnCurrentPanel, OneAtATime, TypeOK
<1>3. LateFollowsOpenAnswer'
  BY DEF LateFollowsOpenAnswer, RequestState, TypeOK
<1>4. StreakOfThisPanel'
  <2>1. Good \subseteq Good'
    BY DEF Good, RequestState, TypeOK, Jobs
  <2> QED
    BY <2>1, StreakKept
<1> QED
  BY <1>1, <1>2, <1>3, <1>4

LEMMA SkipTurnKeeps ==
  ASSUME RelayInv, NEW j \in Jobs, stage[j] = "queued", queue # <<>>, Head(queue) = j, SkipTurn(j)
  PROVE  RelayInv'
<1> USE DEF RelayInv, SkipTurn, panel
<1>1. TypeOK'
  BY QueueType DEF TypeOK
<1>2. \A i \in Jobs : pending[i] = NoPanel
  BY DEF OneAtATime, RequestState
<1>3. RequestState' /\ PanelIsThere' /\ PendingOnCurrentPanel' /\ OneAtATime'
  BY <1>2 DEF RequestState, PanelIsThere, PendingOnCurrentPanel, OneAtATime, TypeOK
<1>4. LateFollowsOpenAnswer'
  BY DEF LateFollowsOpenAnswer
<1>5. StreakOfThisPanel'
  BY DEF StreakOfThisPanel
<1> QED
  BY <1>1, <1>3, <1>4, <1>5

(* Readiness changes with probes only, and starts again unless one is ok.  *)
LEMMA ReadinessLemma ==
  ASSUME RelayInv, NEW J, NEW r, NEW p \in Panels \union {NoPanel}
  PROVE  \/ Readiness(J, r, p) = readiness
         \/ /\ Readiness(J, r, p).streak = 0
            /\ Readiness(J, r, p) \in [ready : {"unknown", "yes", "no"}, streak : {0},
                                       session : Panels \union {NoPanel}]
         \/ r = "ok" /\ J \intersect DomProbes # {}
BY DEF Readiness

Restarted == /\ readiness'.streak = 0
             /\ readiness' \in [ready : {"unknown", "yes", "no"}, streak : {0},
                                session : Panels \union {NoPanel}]

(* A step settles all that is pending; what that leaves.                   *)
SettlesAll(J, r) ==
  /\ J \in SUBSET Jobs /\ r \in (Failures \union {"ok"}) \ {"expired"}
  /\ \A j \in Jobs : pending[j] # NoPanel => j \in J
  /\ \A j \in J : stage[j] \in {"queued", "working"}
  /\ Settle(J, r)
  /\ ran' = ran
  /\ \/ Restarted
     \/ readiness' = readiness /\ cepSocket' = cepSocket
     \/ ReadinessType' /\ StreakOfThisPanel'

AllSettled(J, r) ==
  /\ pending' = [j \in Jobs |-> NoPanel]
  /\ result' \in [Jobs -> Failures \union {"none", "ok"}]
  /\ stage' \in [Jobs -> {"idle", "queued", "working", "over"}]
  /\ queue' \in Seq(Jobs)
  /\ ReadinessType'
  /\ StreakOfThisPanel' /\ PendingOnCurrentPanel' /\ OneAtATime'
  /\ \A j \in J : stage'[j] = "over" /\ result'[j] = IF result[j] = "none" THEN r ELSE "expired"
  /\ \A j \in Jobs \ J : stage'[j] = stage[j] /\ result'[j] = result[j]

LEMMA AllSettledLemma ==
  ASSUME RelayInv, NEW J, NEW r, SettlesAll(J, r)
  PROVE  AllSettled(J, r)
<1> USE DEF SettlesAll
<1>1. /\ pending' = [j \in Jobs |-> NoPanel]
      /\ result' \in [Jobs -> Failures \union {"none", "ok"}]
      /\ stage' \in [Jobs -> {"idle", "queued", "working", "over"}]
      /\ queue' \in Seq(Jobs)
      /\ \A j \in J : stage'[j] = "over" /\ result'[j] = IF result[j] = "none" THEN r ELSE "expired"
      /\ \A j \in Jobs \ J : stage'[j] = stage[j] /\ result'[j] = result[j]
  BY SettleLemma
<1>2. Good \subseteq Good' \/ cepSocket' # cepSocket
  BY <1>1 DEF Good, RelayInv, RequestState, Jobs
<1>3. ReadinessType' /\ StreakOfThisPanel'
  BY <1>2, StreakKept DEF Restarted
<1> QED
  BY <1>1, <1>3 DEF PendingOnCurrentPanel, OneAtATime, AllSettled

(* ... and what else such a step may do.                                   *)
RestFollows(J, r) ==
  /\ UNCHANGED <<script, ran, reported>>
  /\ conn' \in [Panels -> {"none", "open", "closing", "closed"}]
  /\ inbox' \in [Panels -> Seq(Message)]
  /\ \A p \in Panels : inbox'[p] \in {inbox[p], Tail(inbox[p]), <<>>}
  /\ cepSocket' \in Panels \union {NoPanel}
  /\ late' \in [Jobs -> Panels \union {NoPanel}]
  /\ PanelIsThere'
  /\ \A j \in Jobs : late'[j] # NoPanel =>
       /\ late'[j] = late[j] \/ (j \in J \intersect Executes /\ r \in {"timeout", "unknown"})
       /\ conn'[late'[j]] # "closed"

(* A late message that is left was there before.                           *)
LEMMA MessagesKept ==
  ASSUME RelayInv, inbox' \in [Panels -> Seq(Message)],
         \A p \in Panels : inbox'[p] \in {inbox[p], Tail(inbox[p]), <<>>}
  PROVE  \A p \in Panels : \A i \in DOMAIN inbox'[p] :
           inbox'[p][i].kind = "late" => script[inbox'[p][i].job] = "done"
<1>1. \A p \in Panels : \A i \in DOMAIN inbox'[p] :
         \E k \in DOMAIN inbox[p] : inbox'[p][i] = inbox[p][k]
  <2> SUFFICES ASSUME NEW p \in Panels, NEW i \in DOMAIN inbox'[p]
               PROVE  \E k \in DOMAIN inbox[p] : inbox'[p][i] = inbox[p][k]
    OBVIOUS
  <2>1. inbox[p] \in Seq(Message) /\ inbox'[p] \in Seq(Message)
    BY DEF RelayInv, TypeOK
  <2>2. CASE inbox'[p] = inbox[p]
    BY <2>2
  <2>3. CASE inbox'[p] = <<>>
    BY <2>3
  <2>4. CASE inbox[p] # <<>> /\ inbox'[p] = Tail(inbox[p])
    BY <2>1, <2>4, HeadTailProperties
  <2>5. CASE inbox[p] = <<>> /\ inbox'[p] = Tail(inbox[p])
    BY <2>5
  <2> QED
    BY <2>2, <2>3, <2>4, <2>5
<1> QED
  BY <1>1 DEF RelayInv, RequestState

LEMMA AllSettledKeeps ==
  ASSUME RelayInv, NEW J, NEW r, SettlesAll(J, r), RestFollows(J, r)
  PROVE  RelayInv'
<1>0. AllSettled(J, r)
  BY AllSettledLemma
<1>r. \A j \in Jobs : late'[j] # NoPanel =>
        late'[j] = late[j] \/ (j \in J /\ j \in Executes /\ r \in {"timeout", "unknown"})
  BY DEF RestFollows
<1> USE <1>0 DEF RestFollows
<1>s. J \in SUBSET Jobs /\ r # "expired" /\ \A j \in J : stage[j] \in {"queued", "working"}
  BY DEF SettlesAll
<1> USE DEF RelayInv
<1>1. TypeOK'
  BY DEF TypeOK, AllSettled, ReadinessType
<1>3. RequestState'
  <2>1. \A p \in Panels : \A i \in DOMAIN inbox'[p] :
          inbox'[p][i].kind = "late" => script[inbox'[p][i].job] = "done"
    BY MessagesKept
  <2>2. ASSUME NEW j \in Jobs
        PROVE  /\ stage'[j] \in {"idle", "queued"} => script[j] = "none"
               /\ script[j] # "none" => ran[j] # NoPanel
               /\ stage'[j] = "idle" => result'[j] = "none"
               /\ stage'[j] \in {"idle", "queued", "working"} => result'[j] \in {"none", "expired"}
               /\ result'[j] = "expired" => j \in Preflights
               /\ pending'[j] = NoPanel
               /\ late'[j] # NoPanel \/ j \in reported => stage'[j] = "over"
               /\ late'[j] # NoPanel => j \in Executes
    <3>1. CASE j \in J
      <4>1. stage'[j] = "over" /\ result'[j] = IF result[j] = "none" THEN r ELSE "expired"
        BY <3>1 DEF AllSettled
      <4>2. result[j] \in {"none", "expired"} /\ (result[j] = "expired" => j \in Preflights)
        BY <1>s, <3>1 DEF RequestState
      <4>3. late[j] = NoPanel /\ j \notin reported
        BY <1>s, <3>1 DEF RequestState
      <4> QED
        BY <1>r, <1>s, <4>1, <4>2, <4>3 DEF AllSettled, RequestState
    <3>2. CASE j \notin J
      <4>1. stage'[j] = stage[j] /\ result'[j] = result[j] /\ pending'[j] = NoPanel
        BY <3>2 DEF AllSettled
      <4>2. late'[j] # NoPanel => late'[j] = late[j]
        BY <1>r, <3>2
      <4> QED
        BY <4>1, <4>2 DEF RequestState
    <3> QED
      BY <3>1, <3>2
  <2> QED
    BY <2>1, <2>2 DEF RequestState
<1>4. LateFollowsOpenAnswer'
  <2> SUFFICES ASSUME NEW j \in Jobs
               PROVE  /\ late'[j] # NoPanel => result'[j] \in {"timeout", "unknown"} /\ conn'[late'[j]] # "closed"
                      /\ j \in reported => result'[j] \in {"timeout", "unknown"} /\ script[j] = "done"
    BY DEF LateFollowsOpenAnswer
  <2>1. CASE j \notin J
    BY <2>1 DEF AllSettled, LateFollowsOpenAnswer
  <2>2. CASE j \in J
    <3>1. stage[j] # "over"
      BY <1>s, <2>2
    <3>2. late[j] = NoPanel /\ j \notin reported
      BY <3>1 DEF RequestState
    <3>3. j \in Executes => result'[j] = r
      BY <1>s, <2>2, RelayAssumption DEF AllSettled, RequestState
    <3> QED
      BY <3>2, <3>3
  <2> QED
    BY <2>1, <2>2
<1> QED
  BY <1>1, <1>3, <1>4 DEF AllSettled

LEMMA ExecuteCepKeeps ==
  ASSUME RelayInv, NEW j \in Jobs, stage[j] = "queued", queue # <<>>, Head(queue) = j, ExecuteCep(j)
  PROVE  RelayInv'
<1>1. result[j] = "none"
  BY DEF ExecuteCep
<1>2. \A i \in Jobs : pending[i] = NoPanel
  BY DEF OneAtATime, RequestState, RelayInv
<1>a. CASE cepSocket = NoPanel
  <2>1. /\ Settle({j}, "not_connected")
        /\ readiness' = Readiness({j}, "not_connected", NoPanel)
        /\ UNCHANGED <<script, ran, conn, inbox, cepSocket, late, reported>>
    BY <1>a DEF ExecuteCep
  <2>2. Restarted \/ readiness' = readiness
    BY <2>1, ReadinessLemma DEF Restarted
  <2>3. SettlesAll({j}, "not_connected")
    BY <1>2, <2>1, <2>2 DEF SettlesAll, Failures
  <2>4. RestFollows({j}, "not_connected")
    BY <2>1 DEF RestFollows, RelayInv, TypeOK, PanelIsThere, LateFollowsOpenAnswer
  <2> QED
    BY <2>3, <2>4, AllSettledKeeps
<1>b. CASE cepSocket # NoPanel
  <2> USE <1>b DEF RelayInv
  <2>1. /\ pending' = [pending EXCEPT ![j] = cepSocket]
        /\ ran' = [ran EXCEPT ![j] = cepSocket]
        /\ script' = [script EXCEPT ![j] = "running"]
        /\ stage' = [stage EXCEPT ![j] = "working"]
        /\ UNCHANGED <<queue, result, readiness, conn, inbox, cepSocket, late, reported>>
    BY DEF ExecuteCep
  <2>2. TypeOK'
    BY <2>1 DEF TypeOK
  <2>3. Good \subseteq Good'
    BY <1>1, <2>1 DEF Good, TypeOK
  <2>4. StreakOfThisPanel'
    BY <2>1, <2>3, StreakKept
  <2>5. PanelIsThere' /\ PendingOnCurrentPanel' /\ OneAtATime'
    BY <1>2, <2>1 DEF PanelIsThere, PendingOnCurrentPanel, OneAtATime, TypeOK
  <2>6. RequestState'
    BY <1>1, <2>1 DEF RequestState, TypeOK
  <2>7. LateFollowsOpenAnswer'
    BY <1>1, <2>1 DEF RequestState, LateFollowsOpenAnswer, TypeOK
  <2> QED
    BY <2>2, <2>4, <2>5, <2>6, <2>7
<1> QED
  BY <1>a, <1>b

LEMMA BudgetExpiresKeeps ==
  ASSUME RelayInv, NEW j \in Jobs, BudgetExpires(j)
  PROVE  RelayInv'
<1> USE DEF RelayInv, BudgetExpires, panel
<1>1. TypeOK'
  BY DEF TypeOK, Failures
<1>2. RequestState' /\ PanelIsThere' /\ PendingOnCurrentPanel' /\ OneAtATime'
  BY DEF RequestState, PanelIsThere, PendingOnCurrentPanel, OneAtATime, TypeOK
<1>3. LateFollowsOpenAnswer'
  BY DEF LateFollowsOpenAnswer, TypeOK
<1>4. StreakOfThisPanel'
  <2>1. Good \subseteq Good'
    BY DEF Good, TypeOK
  <2> QED
    BY <2>1, StreakKept
<1> QED
  BY <1>1, <1>2, <1>3, <1>4

LEMMA LateExpiresKeeps ==
  ASSUME RelayInv, NEW j \in Jobs, LateExpires(j)
  PROVE  RelayInv'
<1> USE DEF RelayInv, LateExpires, panel
<1>1. TypeOK'
  BY DEF TypeOK
<1>2. RequestState' /\ LateFollowsOpenAnswer'
  BY DEF RequestState, LateFollowsOpenAnswer, TypeOK
<1>3. PanelIsThere' /\ PendingOnCurrentPanel' /\ OneAtATime' /\ StreakOfThisPanel'
  BY DEF PanelIsThere, PendingOnCurrentPanel, OneAtATime, StreakOfThisPanel
<1> QED
  BY <1>1, <1>2, <1>3

(***************************************************************************)
(* Pending requests and messages                                           *)
(***************************************************************************)

(* One job at most is pending: the one that has the turn.                  *)
LEMMA OnePending ==
  ASSUME RelayInv, NEW j \in Jobs, pending[j] # NoPanel
  PROVE  /\ \A i \in Jobs : pending[i] # NoPanel => i = j
         /\ stage[j] = "working" /\ ran[j] = cepSocket /\ pending[j] = cepSocket
         /\ cepSocket \in Panels /\ conn[cepSocket] \in {"open", "closing"}
         /\ late[j] = NoPanel /\ result[j] \in {"none", "expired"}
         /\ j \notin Preflights => result[j] = "none"
<1>1. \A i \in Jobs : pending[i] # NoPanel => i = j
  BY DEF RelayInv, OneAtATime
<1>2. stage[j] = "working" /\ ran[j] = pending[j]
  BY DEF RelayInv, RequestState
<1>3. /\ late[j] = NoPanel /\ result[j] \in {"none", "expired"}
      /\ j \notin Preflights => result[j] = "none"
  BY <1>2 DEF RelayInv, RequestState
<1>4. pending[j] = cepSocket /\ cepSocket \in Panels /\ conn[cepSocket] \in {"open", "closing"}
  BY DEF RelayInv, PendingOnCurrentPanel, PanelIsThere, TypeOK
<1> QED
  BY <1>1, <1>2, <1>3, <1>4

LEMMA PendingTimeoutKeeps ==
  ASSUME RelayInv, NEW j \in Jobs, PendingTimeout(j)
  PROVE  RelayInv'
<1>1. /\ pending[j] # NoPanel
      /\ Settle({j}, "timeout")
      /\ RememberLate(j)
      /\ readiness' = Readiness({j}, "timeout", cepSocket)
      /\ UNCHANGED <<conn, inbox, script, cepSocket, ran, reported>>
  BY DEF PendingTimeout, panel
<1>2. Restarted \/ (readiness' = readiness /\ cepSocket' = cepSocket)
  BY <1>1, ReadinessLemma DEF Restarted, RelayInv, TypeOK
<1>3. SettlesAll({j}, "timeout")
  BY <1>1, <1>2, OnePending DEF SettlesAll, Failures
<1>4. RestFollows({j}, "timeout")
  <2>1. late' \in [Jobs -> Panels \union {NoPanel}]
    BY <1>1 DEF RememberLate, RelayInv, TypeOK
  <2>2. ASSUME NEW i \in Jobs, late'[i] # NoPanel
        PROVE  /\ late'[i] = late[i]
                    \/ (i \in {j} \intersect Executes /\ "timeout" \in {"timeout", "unknown"})
               /\ conn'[late'[i]] # "closed"
    <3>1. late \in [Jobs -> Panels \union {NoPanel}] /\ conn' = conn
      BY <1>1 DEF RelayInv, TypeOK
    <3>2. CASE late'[i] = late[i]
      BY <2>2, <3>1, <3>2 DEF LateFollowsOpenAnswer, RelayInv
    <3>3. CASE late'[i] # late[i]
      <4>1. i = j /\ j \in Executes /\ late'[i] = pending[j]
        BY <1>1, <3>1, <3>3 DEF RememberLate
      <4>2. conn[pending[j]] # "closed"
        BY <1>1, OnePending
      <4> QED
        BY <3>1, <4>1, <4>2
    <3> QED
      BY <3>2, <3>3
  <2>3. /\ conn' \in [Panels -> {"none", "open", "closing", "closed"}]
        /\ inbox' \in [Panels -> Seq(Message)]
        /\ cepSocket' \in Panels \union {NoPanel}
    BY <1>1 DEF RelayInv, TypeOK
  <2>4. \A p \in Panels : inbox'[p] \in {inbox[p], Tail(inbox[p]), <<>>}
    BY <1>1
  <2>5. PanelIsThere'
    BY <1>1 DEF RelayInv, PanelIsThere
  <2>6. UNCHANGED <<script, ran, reported>>
    BY <1>1
  <2> QED
    BY <2>1, <2>2, <2>3, <2>4, <2>5, <2>6 DEF RestFollows
<1> QED
  BY <1>3, <1>4, AllSettledKeeps

(* Taking the first message from a connection.                             *)
LEMMA TakeMessage ==
  ASSUME RelayInv, NEW p \in Panels, NEW kinds, IsNext(p, kinds),
         inbox' = [inbox EXCEPT ![p] = Tail(@)]
  PROVE  /\ inbox' \in [Panels -> Seq(Message)]
         /\ \A q \in Panels : inbox'[q] \in {inbox[q], Tail(inbox[q]), <<>>}
         /\ Head(inbox[p]) \in Message /\ Head(inbox[p]).kind \in kinds
         /\ Head(inbox[p]) = inbox[p][1] /\ 1 \in DOMAIN inbox[p]
         /\ conn[p] \in {"open", "closing"}
<1>1. inbox[p] \in Seq(Message) /\ inbox[p] # <<>>
  BY DEF RelayInv, TypeOK, IsNext
<1>2. Tail(inbox[p]) \in Seq(Message) /\ Head(inbox[p]) \in Message /\ Len(inbox[p]) >= 1
      /\ Head(inbox[p]) = inbox[p][1] /\ 1 \in DOMAIN inbox[p]
  BY <1>1, HeadTailProperties, LenProperties
<1> QED
  BY <1>2 DEF RelayInv, TypeOK, IsNext

(* A step that takes a message, or makes a panel the current one while     *)
(* nothing is pending on another.                                          *)
LEMMA AdoptionKeeps ==
  ASSUME RelayInv,
         UNCHANGED <<conn, script, queue, stage, result, pending, late, ran, reported>>,
         inbox' \in [Panels -> Seq(Message)],
         \A p \in Panels : inbox'[p] \in {inbox[p], Tail(inbox[p]), <<>>},
         cepSocket' \in Panels \union {NoPanel},
         PanelIsThere',
         cepSocket' = cepSocket \/ (\A j \in Jobs : pending[j] = NoPanel),
         Restarted \/ (readiness' = readiness /\ cepSocket' = cepSocket)
  PROVE  RelayInv'
<1> USE DEF RelayInv
<1>1. Good \subseteq Good' \/ cepSocket' # cepSocket
  BY DEF Good
<1>2. ReadinessType' /\ StreakOfThisPanel'
  BY <1>1, StreakKept DEF Restarted
<1>3. TypeOK'
  BY <1>2 DEF TypeOK, ReadinessType
<1>4. RequestState'
  BY MessagesKept DEF RequestState
<1>5. PendingOnCurrentPanel' /\ OneAtATime' /\ LateFollowsOpenAnswer'
  BY DEF PendingOnCurrentPanel, OneAtATime, LateFollowsOpenAnswer
<1> QED
  BY <1>2, <1>3, <1>4, <1>5

LEMMA AdoptCepKeeps ==
  ASSUME RelayInv, NEW p \in Panels, AdoptCep(p)
  PROVE  RelayInv'
<1>1. /\ IsNext(p, {"ready"})
      /\ inbox' = [inbox EXCEPT ![p] = Tail(@)]
      /\ UNCHANGED <<conn, script, late, ran, reported>>
  BY DEF AdoptCep
<1>2. /\ inbox' \in [Panels -> Seq(Message)]
      /\ \A q \in Panels : inbox'[q] \in {inbox[q], Tail(inbox[q]), <<>>}
      /\ conn[p] \in {"open", "closing"}
  BY <1>1, TakeMessage
<1>a. CASE UNCHANGED <<cepSocket, queue, stage, result, pending, readiness>>
  BY <1>1, <1>2, <1>a, AdoptionKeeps DEF RelayInv, TypeOK, PanelIsThere
<1>b. CASE cepSocket' = p /\ ~UNCHANGED <<cepSocket, queue, stage, result, pending, readiness>>
  <2> DEFINE lost == IF cepSocket \in {NoPanel, p} THEN {} ELSE PendingOn(cepSocket)
  <2>1. /\ \/ lost = {} /\ UNCHANGED <<queue, stage, result, pending>>
           \/ lost # {} /\ Settle(lost, "replaced")
        /\ readiness' = IF lost \intersect DomProbes = {} THEN Unprobed(p)
                          ELSE Readiness(lost, "replaced", p)
    BY <1>b DEF AdoptCep
  <2>2. Restarted
    BY <2>1 DEF Restarted, Unprobed, Readiness
  <2>3. PanelIsThere'
    BY <1>1, <1>2, <1>b DEF PanelIsThere
  <2>4. ASSUME NEW j \in Jobs, pending[j] # NoPanel, cepSocket # p
        PROVE  j \in lost
    BY <2>4, OnePending DEF PendingOn, NoPanel, Panels
  <2>5. CASE lost = {} /\ UNCHANGED <<queue, stage, result, pending>>
    BY <1>1, <1>2, <1>b, <2>2, <2>3, <2>4, <2>5, AdoptionKeeps
  <2>6. CASE lost # {} /\ Settle(lost, "replaced")
    <3>1. cepSocket # p /\ lost \in SUBSET Jobs /\ \A j \in lost : stage[j] = "working"
      BY <2>6, OnePending DEF PendingOn
    <3>2. SettlesAll(lost, "replaced")
      BY <1>1, <2>2, <2>4, <2>6, <3>1 DEF SettlesAll, Failures
    <3>3. RestFollows(lost, "replaced")
      BY <1>1, <1>2, <1>b, <2>3 DEF RestFollows, RelayInv, TypeOK, LateFollowsOpenAnswer
    <3> QED
      BY <3>2, <3>3, AllSettledKeeps
  <2> QED
    BY <2>1, <2>5, <2>6
<1> QED
  BY <1>a, <1>b DEF AdoptCep

LEMMA RelayResponseKeeps ==
  ASSUME RelayInv, NEW p \in Panels, RelayResponse(p)
  PROVE  RelayInv'
<1> DEFINE m == Head(inbox[p])
           j == m.job
<1>1. /\ IsNext(p, {"ok", "failed", "unknown"})
      /\ inbox' = [inbox EXCEPT ![p] = Tail(@)]
      /\ UNCHANGED <<conn, script, cepSocket, ran, reported>>
  BY DEF RelayResponse
<1>2. /\ inbox' \in [Panels -> Seq(Message)]
      /\ \A q \in Panels : inbox'[q] \in {inbox[q], Tail(inbox[q]), <<>>}
      /\ m \in Message /\ m.kind \in {"ok", "failed", "unknown"}
  BY <1>1, TakeMessage
<1>3. j \in Jobs
  BY <1>2 DEF Message
<1>a. CASE UNCHANGED <<queue, stage, result, pending, late, readiness>>
  BY <1>1, <1>2, <1>a, AdoptionKeeps DEF RelayInv, TypeOK, PanelIsThere
<1>b. CASE /\ pending[j] = p
           /\ Settle({j}, m.kind)
           /\ IF m.kind = "unknown" THEN RememberLate(j) ELSE UNCHANGED late
           /\ readiness' = Readiness({j}, m.kind, cepSocket)
  <2> HIDE DEF j, m
  <2>1. /\ pending[j] # NoPanel /\ stage[j] = "working"
        /\ \A i \in Jobs : pending[i] # NoPanel => i = j
        /\ late[j] = NoPanel /\ result[j] \in {"none", "expired"} /\ ran[j] = cepSocket
        /\ cepSocket \in Panels /\ pending[j] = cepSocket /\ conn[cepSocket] # "closed"
        /\ j \notin Preflights => result[j] = "none"
    BY <1>3, <1>b, OnePending DEF Panels, NoPanel
  <2>2. m.kind \in (Failures \union {"ok"}) \ {"expired"}
    BY <1>2 DEF Failures
  <2>3. \/ Restarted
        \/ readiness' = readiness /\ cepSocket' = cepSocket
        \/ ReadinessType' /\ StreakOfThisPanel'
    <3>1. CASE ~(m.kind = "ok" /\ j \in DomProbes)
      BY <1>1, <1>b, <2>1, <3>1, ReadinessLemma DEF Restarted
    <3>2. CASE m.kind = "ok" /\ j \in DomProbes
      <4>1. result[j] = "none"
        BY <2>1, <3>2, RelayAssumption
      <4>2. readiness' = [ready |-> "yes", streak |-> readiness.streak + 1, session |-> cepSocket]
        BY <1>b, <3>2 DEF Readiness
      <4>3. \A i \in Jobs : result'[i] = IF i = j THEN "ok" ELSE result[i]
        BY <1>b, <3>2, <4>1 DEF Settle
      <4>4. Good \union {j} \subseteq Good' /\ j \notin Good
        BY <1>1, <2>1, <3>2, <4>1, <4>3 DEF Good, Jobs
      <4> QED
        BY <1>1, <2>1, <3>2, <4>2, <4>4, StreakGrows
    <3> QED
      BY <3>1, <3>2
  <2>4. SettlesAll({j}, m.kind)
    BY <1>1, <1>3, <1>b, <2>1, <2>2, <2>3 DEF SettlesAll
  <2>5. RestFollows({j}, m.kind)
    <3>1. late' \in [Jobs -> Panels \union {NoPanel}]
      BY <1>b DEF RememberLate, RelayInv, TypeOK
    <3>2. ASSUME NEW i \in Jobs, late'[i] # NoPanel
          PROVE  /\ late'[i] = late[i] \/ (i \in {j} \intersect Executes /\ m.kind \in {"timeout", "unknown"})
                 /\ conn'[late'[i]] # "closed"
      BY <1>1, <1>b, <2>1, <3>2 DEF RememberLate, LateFollowsOpenAnswer, RelayInv, TypeOK
    <3> QED
      BY <1>1, <1>2, <3>1, <3>2 DEF RestFollows, RelayInv, TypeOK, PanelIsThere
  <2> QED
    BY <2>4, <2>5, AllSettledKeeps
<1> QED
  BY <1>a, <1>b DEF RelayResponse

LEMMA RelayLateCompletionKeeps ==
  ASSUME RelayInv, NEW p \in Panels, RelayLateCompletion(p)
  PROVE  RelayInv'
<1> DEFINE m == Head(inbox[p])
           j == m.job
<1>1. /\ IsNext(p, {"late"})
      /\ inbox' = [inbox EXCEPT ![p] = Tail(@)]
      /\ reported' = IF late[j] = p THEN reported \union {j} ELSE reported
      /\ late' = IF late[j] = p THEN [late EXCEPT ![j] = NoPanel] ELSE late
      /\ UNCHANGED <<conn, script, cepSocket, queue, stage, result, pending, readiness, ran>>
  BY DEF RelayLateCompletion
<1>2. /\ inbox' \in [Panels -> Seq(Message)]
      /\ \A q \in Panels : inbox'[q] \in {inbox[q], Tail(inbox[q]), <<>>}
      /\ Head(inbox[p]) \in Message /\ Head(inbox[p]).kind \in {"late"}
      /\ Head(inbox[p]) = inbox[p][1] /\ 1 \in DOMAIN inbox[p]
  BY <1>1, TakeMessage
<1>3. j \in Jobs /\ script[j] = "done"
  BY <1>2 DEF Message, RelayInv, RequestState
<1>4. late[j] = p => j \in Executes /\ result[j] \in {"timeout", "unknown"} /\ stage[j] = "over"
  BY <1>3 DEF RelayInv, LateFollowsOpenAnswer, RequestState, Panels, NoPanel
<1> HIDE DEF j, m
<1>5. TypeOK'
  BY <1>1, <1>2, <1>3, <1>4 DEF RelayInv, TypeOK
<1>6. RequestState'
  <2>1. \A q \in Panels : \A i \in DOMAIN inbox'[q] :
          inbox'[q][i].kind = "late" => script[inbox'[q][i].job] = "done"
    BY <1>2, MessagesKept
  <2> QED
    BY <1>1, <1>3, <1>4, <2>1 DEF RelayInv, RequestState, TypeOK
<1>7. LateFollowsOpenAnswer'
  BY <1>1, <1>3, <1>4 DEF RelayInv, LateFollowsOpenAnswer, TypeOK
<1>8. PanelIsThere' /\ PendingOnCurrentPanel' /\ OneAtATime' /\ StreakOfThisPanel'
  BY <1>1 DEF RelayInv, PanelIsThere, PendingOnCurrentPanel, OneAtATime, StreakOfThisPanel
<1> QED
  BY <1>5, <1>6, <1>7, <1>8 DEF RelayInv

(***************************************************************************)
(* Connections                                                             *)
(***************************************************************************)

LEMMA HandleSocketCloseKeeps ==
  ASSUME RelayInv, NEW p \in Panels, HandleSocketClose(p)
  PROVE  RelayInv'
<1>1. /\ conn' = [conn EXCEPT ![p] = "closed"]
      /\ inbox' = [inbox EXCEPT ![p] = <<>>]
      /\ late' = [j \in Jobs |-> IF late[j] = p THEN NoPanel ELSE late[j]]
      /\ UNCHANGED <<script, ran, reported>>
  BY DEF HandleSocketClose, ForgetLate
<1>2. /\ conn' \in [Panels -> {"none", "open", "closing", "closed"}]
      /\ inbox' \in [Panels -> Seq(Message)]
      /\ \A q \in Panels : inbox'[q] \in {inbox[q], Tail(inbox[q]), <<>>}
      /\ late' \in [Jobs -> Panels \union {NoPanel}]
  BY <1>1 DEF RelayInv, TypeOK
<1>3. \A j \in Jobs : late'[j] # NoPanel => late'[j] = late[j] /\ conn'[late'[j]] # "closed"
  BY <1>1 DEF RelayInv, TypeOK, LateFollowsOpenAnswer
<1>a. CASE /\ cepSocket = p
           /\ cepSocket' = NoPanel
           /\ Settle(PendingOn(p), "disconnected")
           /\ readiness' = [ready |-> "no", streak |-> 0, session |-> NoPanel]
  <2>1. SettlesAll(PendingOn(p), "disconnected")
    BY <1>1, <1>a, OnePending DEF SettlesAll, PendingOn, Failures, Restarted, Panels, NoPanel
  <2>2. RestFollows(PendingOn(p), "disconnected")
    BY <1>1, <1>2, <1>3, <1>a DEF RestFollows, PanelIsThere
  <2> QED
    BY <2>1, <2>2, AllSettledKeeps
<1>b. CASE /\ cepSocket # p
           /\ UNCHANGED <<cepSocket, queue, stage, result, pending, readiness>>
  <2> USE <1>1, <1>2, <1>3, <1>b DEF RelayInv
  <2>1. TypeOK'
    BY DEF TypeOK
  <2>2. RequestState'
    BY MessagesKept DEF RequestState
  <2>3. PanelIsThere' /\ LateFollowsOpenAnswer'
    BY DEF PanelIsThere, LateFollowsOpenAnswer, TypeOK
  <2>4. PendingOnCurrentPanel' /\ OneAtATime' /\ StreakOfThisPanel'
    BY DEF PendingOnCurrentPanel, OneAtATime, StreakOfThisPanel
  <2> QED
    BY <2>1, <2>2, <2>3, <2>4
<1> QED
  BY <1>a, <1>b DEF HandleSocketClose

LEMMA ConnectKeeps ==
  ASSUME RelayInv, NEW p \in Panels, Connect(p)
  PROVE  RelayInv'
<1> USE DEF RelayInv, Connect, daemon
<1>1. TypeOK'
  <2>1. <<[kind |-> "ready", job |-> NoPanel]>> \in Seq(Message)
    BY DEF Message
  <2> QED
    BY <2>1 DEF TypeOK
<1>2. RequestState'
  BY DEF RequestState, TypeOK
<1>3. PanelIsThere' /\ LateFollowsOpenAnswer'
  BY DEF PanelIsThere, LateFollowsOpenAnswer, TypeOK
<1>4. PendingOnCurrentPanel' /\ OneAtATime' /\ StreakOfThisPanel'
  BY DEF PendingOnCurrentPanel, OneAtATime, StreakOfThisPanel
<1> QED
  BY <1>1, <1>2, <1>3, <1>4

LEMMA PanelClosesKeeps ==
  ASSUME RelayInv, NEW p \in Panels, PanelCloses(p)
  PROVE  RelayInv'
<1> USE DEF RelayInv, PanelCloses, daemon
<1>1. TypeOK'
  BY DEF TypeOK
<1>2. RequestState' /\ PanelIsThere' /\ LateFollowsOpenAnswer'
  BY DEF RequestState, PanelIsThere, LateFollowsOpenAnswer, TypeOK
<1>3. PendingOnCurrentPanel' /\ OneAtATime' /\ StreakOfThisPanel'
  BY DEF PendingOnCurrentPanel, OneAtATime, StreakOfThisPanel
<1> QED
  BY <1>1, <1>2, <1>3

(***************************************************************************)
(* The panel                                                               *)
(***************************************************************************)

(* The script of j, which was sent, gets on, and a message may go out.     *)
LEMMA EvalKeeps ==
  ASSUME RelayInv, NEW j \in Jobs, script[j] \in {"running", "timedOut"},
         NEW s \in {"timedOut", "done"}, script' = [script EXCEPT ![j] = s],
         NEW kind \in {"ok", "failed", "unknown", "late"}, kind = "late" => s = "done",
         inbox' = inbox \/ SendOn(ran[j], kind, j),
         UNCHANGED <<conn, daemon>>
  PROVE  RelayInv'
<1> USE DEF RelayInv, daemon
<1>1. ran[j] \in Panels /\ stage[j] \notin {"idle", "queued"}
  BY DEF RequestState, TypeOK
<1> DEFINE Sound == /\ inbox' \in [Panels -> Seq(Message)]
                    /\ \A p \in Panels : \A i \in DOMAIN inbox'[p] :
                         inbox'[p][i].kind = "late" => script'[inbox'[p][i].job] = "done"
<1>2. ASSUME inbox' # inbox, conn[ran[j]] = "open" PROVE Sound
  <2> DEFINE m == [kind |-> kind, job |-> j]
  <2>1. inbox' = [inbox EXCEPT ![ran[j]] = Append(@, m)]
    BY <1>2 DEF SendOn
  <2>2. inbox[ran[j]] \in Seq(Message) /\ m \in Message
    BY <1>1 DEF TypeOK, Message
  <2>3. /\ Append(inbox[ran[j]], m) \in Seq(Message)
        /\ \A i \in DOMAIN Append(inbox[ran[j]], m) :
             \/ i \in DOMAIN inbox[ran[j]] /\ Append(inbox[ran[j]], m)[i] = inbox[ran[j]][i]
             \/ Append(inbox[ran[j]], m)[i] = m
    BY <2>2, AppendProperties
  <2>4. inbox' \in [Panels -> Seq(Message)]
    BY <1>1, <2>1, <2>3 DEF TypeOK
  <2>5. \A p \in Panels : \A i \in DOMAIN inbox'[p] :
          inbox'[p][i].kind = "late" => script'[inbox'[p][i].job] = "done"
    <3> SUFFICES ASSUME NEW p \in Panels, NEW i \in DOMAIN inbox'[p], inbox'[p][i].kind = "late"
                 PROVE  script'[inbox'[p][i].job] = "done"
      OBVIOUS
    <3>1. CASE i \in DOMAIN inbox[p] /\ inbox'[p][i] = inbox[p][i]
      BY <3>1 DEF RequestState
    <3>2. CASE p = ran[j] /\ inbox'[p][i] = m
      BY <3>2 DEF TypeOK
    <3> QED
      BY <1>1, <2>1, <2>3, <3>1, <3>2 DEF TypeOK
  <2> QED
    BY <2>4, <2>5
<1>3. ASSUME inbox' = inbox PROVE Sound
  BY <1>3 DEF TypeOK, RequestState
<1>4. Sound
  BY <1>2, <1>3 DEF SendOn
<1>5. TypeOK'
  BY <1>4 DEF TypeOK
<1>6. RequestState'
  BY <1>1, <1>4 DEF RequestState, TypeOK
<1>7. LateFollowsOpenAnswer'
  BY DEF LateFollowsOpenAnswer, TypeOK
<1>8. PanelIsThere' /\ PendingOnCurrentPanel' /\ OneAtATime' /\ StreakOfThisPanel'
  BY DEF PanelIsThere, PendingOnCurrentPanel, OneAtATime, StreakOfThisPanel
<1> QED
  BY <1>5, <1>6, <1>7, <1>8

(***************************************************************************)
(* Theorems                                                                *)
(***************************************************************************)

LEMMA JobStep ==
  ASSUME RelayInv, NEW j \in Jobs, Request(j) \/ TakeTurn(j) \/ Timer(j) \/ Eval(j)
  PROVE  RelayInv'
<1>1. CASE DispatchExecute(j)
  BY <1>1, EnqueueKeeps, RefuseKeeps DEF DispatchExecute
<1>2. CASE CaptureSnapshot(j)
  BY <1>2, EnqueueKeeps, RefuseKeeps DEF CaptureSnapshot
<1>3. CASE DispatchDomReadinessProbe(j)
  BY <1>3, EnqueueKeeps DEF DispatchDomReadinessProbe
<1>4. CASE TakeTurn(j)
  BY <1>4, SkipTurnKeeps, ExecuteCepKeeps DEF TakeTurn
<1>5. CASE PendingTimeout(j)
  BY <1>5, PendingTimeoutKeeps
<1>6. CASE BudgetExpires(j)
  BY <1>6, BudgetExpiresKeeps
<1>7. CASE LateExpires(j)
  BY <1>7, LateExpiresKeeps
<1>8. CASE EvalReturns(j)
  BY <1>8, EvalKeeps DEF EvalReturns
<1>9. CASE EvalTimesOut(j)
  BY <1>9, EvalKeeps DEF EvalTimesOut
<1>10. CASE EvalReturnsLate(j)
  BY <1>10, EvalKeeps DEF EvalReturnsLate
<1> QED
  BY <1>1, <1>2, <1>3, <1>4, <1>5, <1>6, <1>7, <1>8, <1>9, <1>10 DEF Request, Timer, Eval

LEMMA RelayInvStep == RelayInv /\ [Next]_vars => RelayInv'
<1> SUFFICES ASSUME RelayInv, [Next]_vars PROVE RelayInv'
  OBVIOUS
<1>1. ASSUME NEW p \in Panels, Deliver(p) \/ HandleSocketClose(p) \/ Connect(p) \/ PanelCloses(p)
      PROVE  RelayInv'
  BY <1>1, AdoptCepKeeps, RelayResponseKeeps, RelayLateCompletionKeeps, HandleSocketCloseKeeps,
     ConnectKeeps, PanelClosesKeeps DEF Deliver
<1>2. CASE UNCHANGED vars
  BY <1>2 DEF vars, panel, RelayInv, TypeOK, RequestState, PanelIsThere, PendingOnCurrentPanel,
     OneAtATime, StreakOfThisPanel, LateFollowsOpenAnswer
<1> QED
  BY <1>1, <1>2, JobStep DEF Next

(* The inductive invariant of the relay.                                   *)
THEOREM RelayInvariance == Spec => []RelayInv
BY RelayInvInit, RelayInvStep, PTL DEF Spec

(* Every variable of the relay keeps its type; with it, the streak is      *)
(* bounded by the probes there are.                                        *)
THEOREM RelayTypeCorrect == Spec => []TypeOK
BY RelayInvariance, PTL DEF RelayInv

(* What is pending is pending on the current panel: over replacements and  *)
(* late closes an answer is credited to the panel that gave it.            *)
THEOREM PendingIsCurrent == Spec => []PendingOnCurrentPanel
BY RelayInvariance, PTL DEF RelayInv

(* The panel has one request at a time, whatever has timed out.            *)
THEOREM TurnsExclude == Spec => []OneAtATime
BY RelayInvariance, PTL DEF RelayInv

(* The streak counts probes that the panel of now has answered.            *)
THEOREM StreakIsOfThisPanel == Spec => []StreakOfThisPanel
BY RelayInvariance, PTL DEF RelayInv

(* A late completion follows an answer that left the outcome open.         *)
THEOREM LateIsForOpenAnswers == Spec => []LateFollowsOpenAnswer
BY RelayInvariance, PTL DEF RelayInv
=============================================================================
