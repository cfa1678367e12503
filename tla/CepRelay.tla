------------------------------ MODULE CepRelay ------------------------------
(***************************************************************************)
(* The relay between the daemon and the CEP panel: WsHost of               *)
(* src/bridge/ws-host.ts (panel adoption, the queue to the panel, pending  *)
(* and late requests, readiness) with the panel, cep-plugin/main.ws.js.    *)
(*                                                                         *)
(* A job is one use of the queue.  A panel is one connection of the CEP    *)
(* panel; connections are numbered, and the number of an adopted one is    *)
(* its host session.  Both ends are single threads: a step is a message, a *)
(* timer or a callback, with the promise continuations it sets off.        *)
(***************************************************************************)
EXTENDS Integers, Sequences, FiniteSets

CONSTANTS
  Executes,     \* scripts of coordinated operations
  Preflights,   \* snapshots with a budget for queue and execution together
  DomProbes,    \* dom_readiness_probe requests
  Others,       \* host probes, and snapshots without a budget
  MaxPanels     \* bound: connections of the panel

Jobs     == Executes \union Preflights \union DomProbes \union Others
Panels   == 1 .. MaxPanels
NoPanel  == 0

ASSUME RelayAssumption ==
  /\ MaxPanels \in Nat
  /\ IsFiniteSet(DomProbes)
  /\ Executes \intersect (Preflights \union DomProbes \union Others) = {}
  /\ DomProbes \intersect Preflights = {}

VARIABLES
  conn,        \* the connections, as the panel sees them and then the daemon
  inbox,       \* messages of each connection on their way to the daemon
  cepSocket,   \* #cepSocket, and #hostSession with it
  queue,       \* #cepTail: the jobs whose turn is not over
  stage,       \* where each job is
  result,      \* what its caller got
  pending,     \* #pending: the connection each request is pending on
  late,        \* #late: the connection a late completion is awaited from
  readiness,   \* #domReadiness
  script,      \* the request in the panel, or on its way there
  ran,         \* the connection the request was sent on
  reported     \* jobs whose late completion was relayed

panel == <<conn, inbox, script>>
vars  == <<panel, cepSocket, queue, stage, result, pending, late, readiness, ran, reported>>

Failures == {"failed", "unknown", "timeout", "expired", "disconnected", "replaced",
             "not_connected"}
Message  == [kind : {"ready"}, job : {NoPanel}]
              \union [kind : {"ok", "failed", "unknown", "late"}, job : Jobs]

TypeOK ==
  /\ conn \in [Panels -> {"none", "open", "closing", "closed"}]
  /\ inbox \in [Panels -> Seq(Message)]
  /\ cepSocket \in Panels \union {NoPanel}
  /\ queue \in Seq(Jobs)
  /\ stage \in [Jobs -> {"idle", "queued", "working", "over"}]
  /\ result \in [Jobs -> Failures \union {"none", "ok"}]
  /\ pending \in [Jobs -> Panels \union {NoPanel}]
  /\ late \in [Jobs -> Panels \union {NoPanel}]
  /\ readiness \in [ready : {"unknown", "yes", "no"}, streak : 0 .. Cardinality(DomProbes),
                    session : Panels \union {NoPanel}]
  /\ script \in [Jobs -> {"none", "running", "timedOut", "done"}]
  /\ ran \in [Jobs -> Panels \union {NoPanel}]
  /\ reported \subseteq Executes

Unprobed(p) == [ready |-> "unknown", streak |-> 0, session |-> p]

Init ==
  /\ conn = [p \in Panels |-> "none"]
  /\ inbox = [p \in Panels |-> <<>>]
  /\ cepSocket = NoPanel
  /\ queue = <<>>
  /\ stage = [j \in Jobs |-> "idle"]
  /\ result = [j \in Jobs |-> "none"]
  /\ pending = [j \in Jobs |-> NoPanel]
  /\ late = [j \in Jobs |-> NoPanel]
  /\ readiness = Unprobed(NoPanel)
  /\ script = [j \in Jobs |-> "none"]
  /\ ran = [j \in Jobs |-> NoPanel]
  /\ reported = {}

(***************************************************************************)
(* The queue: withCepQueue and withCepQueueBudget                          *)
(***************************************************************************)
Enqueue(j) ==
  /\ queue' = Append(queue, j)
  /\ stage' = [stage EXCEPT ![j] = "queued"]
  /\ UNCHANGED <<panel, cepSocket, result, pending, late, readiness, ran, reported>>

Refuse(j, r) ==
  /\ stage' = [stage EXCEPT ![j] = "over"]
  /\ result' = [result EXCEPT ![j] = r]
  /\ UNCHANGED <<panel, cepSocket, queue, pending, late, readiness, ran, reported>>

(* A script goes through the coordinator, which may refuse it, to the queue.*)
DispatchExecute(j) ==
  /\ j \in Executes
  /\ stage[j] = "idle"
  /\ Enqueue(j) \/ Refuse(j, "failed")

(* A snapshot is not tried without a panel.                                *)
CaptureSnapshot(j) ==
  /\ j \in Preflights \union Others
  /\ stage[j] = "idle"
  /\ IF cepSocket = NoPanel THEN Refuse(j, "not_connected") ELSE Enqueue(j)

DispatchDomReadinessProbe(j) ==
  /\ j \in DomProbes
  /\ stage[j] = "idle"
  /\ Enqueue(j)

(* Mutant: every request that is answered counts as a readiness probe.     *)
MutantReadinessOfAny(J, r, p) ==
  IF J = {} THEN readiness
  ELSE IF r = "ok" THEN [ready |-> "yes", streak |-> readiness.streak + 1, session |-> p]
  ELSE [ready |-> "no", streak |-> 0, session |-> p]
(* What is known of the panel after jobs J ended with r while session p    *)
(* was the current one.                                                    *)
Readiness(J, r, p) ==
  IF J \intersect DomProbes = {} THEN readiness
  ELSE IF r = "ok" THEN [ready |-> "yes", streak |-> readiness.streak + 1, session |-> p]
  ELSE [ready |-> "no", streak |-> 0, session |-> p]

(* The jobs J settle with r: their turns are over, and the queue goes on   *)
(* when the one that has the turn is among them.                           *)
(* A preflight whose budget has expired has had its answer before.         *)
Settle(J, r) ==
  /\ pending' = [j \in Jobs |-> IF j \in J THEN NoPanel ELSE pending[j]]
  /\ result' = [j \in Jobs |-> IF j \in J /\ result[j] = "none" THEN r ELSE result[j]]
  /\ stage' = [j \in Jobs |-> IF j \in J THEN "over" ELSE stage[j]]
  /\ queue' = IF queue # <<>> /\ Head(queue) \in J THEN Tail(queue) ELSE queue

(* Mutant: the turn of an expired preflight is not passed on.              *)
MutantExpiredTurnKept(j) ==
  /\ result[j] = "expired"
  /\ stage' = [stage EXCEPT ![j] = "over"]
  /\ UNCHANGED <<panel, cepSocket, queue, result, pending, late, readiness, ran, reported>>
SkipTurn(j) ==
  /\ result[j] = "expired"
  /\ stage' = [stage EXCEPT ![j] = "over"]
  /\ queue' = Tail(queue)
  /\ UNCHANGED <<panel, cepSocket, result, pending, late, readiness, ran, reported>>

(* #executeCep and #reservePending.                                        *)
ExecuteCep(j) ==
  /\ result[j] = "none"
  /\ \/ /\ cepSocket = NoPanel
        /\ Settle({j}, "not_connected")
        /\ readiness' = Readiness({j}, "not_connected", NoPanel)
        /\ UNCHANGED <<script, ran>>
     \/ /\ cepSocket # NoPanel
        /\ pending' = [pending EXCEPT ![j] = cepSocket]
        /\ ran' = [ran EXCEPT ![j] = cepSocket]
        /\ script' = [script EXCEPT ![j] = "running"]
        /\ stage' = [stage EXCEPT ![j] = "working"]
        /\ UNCHANGED <<queue, result, readiness>>
  /\ UNCHANGED <<conn, inbox, cepSocket, late, reported>>

TakeTurn(j) ==
  /\ stage[j] = "queued"
  /\ queue # <<>> /\ Head(queue) = j
  /\ SkipTurn(j) \/ ExecuteCep(j)

(* Mutant: the budget ends the turn of a preflight that is being executed. *)
MutantBudgetFreesQueue(j) ==
  /\ j \in Preflights
  /\ stage[j] \in {"queued", "working"}
  /\ result[j] = "none"
  /\ result' = [result EXCEPT ![j] = "expired"]
  /\ queue' = SelectSeq(queue, LAMBDA i : i # j)
  /\ stage' = [stage EXCEPT ![j] = "over"]
  /\ UNCHANGED <<panel, cepSocket, pending, late, readiness, ran, reported>>
(* The caller of a preflight gets its answer when the budget is used up,   *)
(* queued or not; the turn is passed on when it comes to its end.          *)
BudgetExpires(j) ==
  /\ j \in Preflights
  /\ stage[j] \in {"queued", "working"}
  /\ result[j] = "none"
  /\ result' = [result EXCEPT ![j] = "expired"]
  /\ UNCHANGED <<panel, cepSocket, queue, stage, pending, late, readiness, ran, reported>>

(***************************************************************************)
(* Pending requests                                                        *)
(***************************************************************************)

(* Only a script of an operation has somebody to tell of a late completion. *)
RememberLate(j) ==
  late' = IF j \in Executes THEN [late EXCEPT ![j] = pending[j]] ELSE late

PendingTimeout(j) ==
  /\ pending[j] # NoPanel
  /\ Settle({j}, "timeout")
  /\ RememberLate(j)
  /\ readiness' = Readiness({j}, "timeout", cepSocket)
  /\ UNCHANGED <<panel, cepSocket, ran, reported>>

(* A late completion is awaited for five minutes.                          *)
LateExpires(j) ==
  /\ late[j] # NoPanel
  /\ late' = [late EXCEPT ![j] = NoPanel]
  /\ UNCHANGED <<panel, cepSocket, queue, stage, result, pending, readiness, ran, reported>>

(* The jobs pending on panel p, which is lost or replaced.                 *)
PendingOn(p) == {j \in Jobs : pending[j] = p}

(***************************************************************************)
(* Messages of connection p to the daemon                                  *)
(***************************************************************************)
IsNext(p, kinds) == conn[p] \in {"open", "closing"} /\ inbox[p] # <<>> /\ Head(inbox[p]).kind \in kinds

(* Mutant: what is pending on the replaced panel stays pending.            *)
MutantAdoptKeepsPending(p) ==
  /\ IsNext(p, {"ready"})
  /\ inbox' = [inbox EXCEPT ![p] = Tail(@)]
  /\ cepSocket' = p
  /\ readiness' = Unprobed(p)
  /\ UNCHANGED <<conn, script, queue, stage, result, pending, late, ran, reported>>
(* A panel with the wrong identity is told so and left alone.  Any other   *)
(* becomes the panel, with a session of its own; a probe that was pending  *)
(* on the one before fails, and is recorded, under the new session.        *)
AdoptCep(p) ==
  /\ IsNext(p, {"ready"})
  /\ inbox' = [inbox EXCEPT ![p] = Tail(@)]
  /\ \/ UNCHANGED <<cepSocket, queue, stage, result, pending, readiness>>
     \/ LET lost == IF cepSocket \in {NoPanel, p} THEN {} ELSE PendingOn(cepSocket) IN
        /\ cepSocket' = p
        /\ \/ lost = {} /\ UNCHANGED <<queue, stage, result, pending>>
           \/ lost # {} /\ Settle(lost, "replaced")
        /\ readiness' = IF lost \intersect DomProbes = {} THEN Unprobed(p)
                          ELSE Readiness(lost, "replaced", p)
  /\ UNCHANGED <<conn, script, late, ran, reported>>

(* A response settles the request that is pending on this connection, and  *)
(* no other.                                                               *)
RelayResponse(p) ==
  /\ IsNext(p, {"ok", "failed", "unknown"})
  /\ inbox' = [inbox EXCEPT ![p] = Tail(@)]
  /\ LET m == Head(inbox[p]) IN
     \/ /\ pending[m.job] = p
        /\ Settle({m.job}, m.kind)
        /\ IF m.kind = "unknown" THEN RememberLate(m.job) ELSE UNCHANGED late
        /\ readiness' = Readiness({m.job}, m.kind, cepSocket)
     \/ /\ pending[m.job] # p
        /\ UNCHANGED <<queue, stage, result, pending, late, readiness>>
  /\ UNCHANGED <<conn, script, cepSocket, ran, reported>>

RelayLateCompletion(p) ==
  /\ IsNext(p, {"late"})
  /\ inbox' = [inbox EXCEPT ![p] = Tail(@)]
  /\ LET j == Head(inbox[p]).job IN
     /\ reported' = IF late[j] = p THEN reported \union {j} ELSE reported
     /\ late' = IF late[j] = p THEN [late EXCEPT ![j] = NoPanel] ELSE late
  /\ UNCHANGED <<conn, script, cepSocket, queue, stage, result, pending, readiness, ran>>

(* Mutant: readiness outlives the panel.                                   *)
MutantCloseKeepsReadiness(p) ==
  /\ conn[p] \in {"open", "closing"}
  /\ conn' = [conn EXCEPT ![p] = "closed"]
  /\ inbox' = [inbox EXCEPT ![p] = <<>>]
  /\ late' = [j \in Jobs |-> IF late[j] = p THEN NoPanel ELSE late[j]]
  /\ IF cepSocket = p THEN Settle(PendingOn(p), "disconnected") /\ cepSocket' = NoPanel
     ELSE UNCHANGED <<cepSocket, queue, stage, result, pending>>
  /\ UNCHANGED <<script, readiness, ran, reported>>
(* Mutant: a closed connection keeps its late requests.                    *)
MutantKeepLate(p) == late' = late
ForgetLate(p) == late' = [j \in Jobs |-> IF late[j] = p THEN NoPanel ELSE late[j]]

(* The daemon sees the connection close, or terminates it because it does  *)
(* not answer pings.  Only the panel's own close loses the session.        *)
HandleSocketClose(p) ==
  /\ conn[p] \in {"open", "closing"}
  /\ conn' = [conn EXCEPT ![p] = "closed"]
  /\ inbox' = [inbox EXCEPT ![p] = <<>>]
  /\ ForgetLate(p)
  /\ \/ /\ cepSocket = p
        /\ cepSocket' = NoPanel
        /\ Settle(PendingOn(p), "disconnected")
        /\ readiness' = [ready |-> "no", streak |-> 0, session |-> NoPanel]
     \/ /\ cepSocket # p
        /\ UNCHANGED <<cepSocket, queue, stage, result, pending, readiness>>
  /\ UNCHANGED <<script, ran, reported>>

(***************************************************************************)
(* The CEP panel                                                           *)
(***************************************************************************)
daemon == <<cepSocket, queue, stage, result, pending, late, readiness, ran, reported>>

(* sendOn drops what goes to a connection that is not open: the rest of a  *)
(* script's life concerns nobody then, and is left out.                    *)
SendOn(p, kind, j) ==
  /\ conn[p] = "open"
  /\ inbox' = [inbox EXCEPT ![p] = Append(@, [kind |-> kind, job |-> j])]

(* connect: one connection at a time; the retry timer opens the next one   *)
(* when this one has closed, which the daemon may notice later.            *)
Connect(p) ==
  /\ conn[p] = "none"
  /\ \A q \in 1 .. p - 1 : conn[q] \in {"closing", "closed"}
  /\ conn' = [conn EXCEPT ![p] = "open"]
  /\ inbox' = [inbox EXCEPT ![p] = <<[kind |-> "ready", job |-> NoPanel]>>]
  /\ UNCHANGED <<script, daemon>>

PanelCloses(p) ==
  /\ conn[p] = "open"
  /\ conn' = [conn EXCEPT ![p] = "closing"]
  /\ UNCHANGED <<inbox, script, daemon>>

(* handleExecute: evalScript calls back, with a result or an error, which  *)
(* make a difference to a probe only.                                      *)
EvalReturns(j) ==
  /\ script[j] = "running"
  /\ script' = [script EXCEPT ![j] = "done"]
  /\ (SendOn(ran[j], "ok", j) \/ (j \in DomProbes /\ SendOn(ran[j], "failed", j)))
  /\ UNCHANGED <<conn, daemon>>

(* The panel's own timer.  For a probe that is a plain failure.            *)
EvalTimesOut(j) ==
  /\ script[j] = "running"
  /\ script' = [script EXCEPT ![j] = IF j \in DomProbes THEN "done" ELSE "timedOut"]
  /\ SendOn(ran[j], IF j \in DomProbes THEN "failed" ELSE "unknown", j)
  /\ UNCHANGED <<conn, daemon>>

(* evalScript calls back after the timer.                                  *)
EvalReturnsLate(j) ==
  /\ script[j] = "timedOut"
  /\ script' = [script EXCEPT ![j] = "done"]
  /\ SendOn(ran[j], "late", j)
  /\ UNCHANGED <<conn, daemon>>

(***************************************************************************)
(* Specification                                                           *)
(***************************************************************************)
Request(j) == DispatchExecute(j) \/ CaptureSnapshot(j) \/ DispatchDomReadinessProbe(j)
Timer(j)   == PendingTimeout(j) \/ BudgetExpires(j) \/ LateExpires(j)
Deliver(p) == AdoptCep(p) \/ RelayResponse(p) \/ RelayLateCompletion(p)
Eval(j)    == EvalReturns(j) \/ EvalTimesOut(j) \/ EvalReturnsLate(j)

Next ==
  \/ \E j \in Jobs : Request(j) \/ TakeTurn(j) \/ Timer(j) \/ Eval(j)
  \/ \E p \in Panels : Deliver(p) \/ HandleSocketClose(p) \/ Connect(p) \/ PanelCloses(p)

Spec == Init /\ [][Next]_vars

(* Fairness: the daemon's timers fire and its promise chain goes on.       *)
(* Nothing is assumed of the panel or of Premiere.                         *)
FairSpec ==
  Spec /\ WF_vars(\E j \in Jobs : TakeTurn(j)) /\ WF_vars(\E j \in Jobs : PendingTimeout(j))

(***************************************************************************)
(* Properties                                                              *)
(***************************************************************************)

(* What is pending is pending on the current panel, so that an answer,     *)
(* which is passed on with the session of the moment, is credited to the   *)
(* panel that gave it, over any replacement and any late close.            *)
PendingOnCurrentPanel ==
  \A j \in Jobs : pending[j] # NoPanel => pending[j] = cepSocket

(* One request at a time is with the panel, whatever budget or timer has   *)
(* expired meanwhile: whoever is pending has the turn.                     *)
OneAtATime ==
  \A j \in Jobs : pending[j] # NoPanel => queue # <<>> /\ Head(queue) = j

(* A streak of successful probes is one of the panel that is connected now. *)
StreakOfThisPanel ==
  readiness.streak > 0 =>
    /\ readiness.session = cepSocket
    /\ readiness.streak <= Cardinality({d \in DomProbes : ran[d] = cepSocket /\ result[d] = "ok"})

(* A late completion is awaited, and passed on, only for a request whose   *)
(* caller was told that its outcome is open, and is not awaited from a     *)
(* connection that is gone.                                                *)
LateFollowsOpenAnswer ==
  \A j \in Jobs :
    /\ late[j] # NoPanel => result[j] \in {"timeout", "unknown"} /\ conn[late[j]] # "closed"
    /\ j \in reported => result[j] \in {"timeout", "unknown"} /\ script[j] = "done"

(* What the parts know of a request: one that has not had its turn was not *)
(* sent; one that is pending was sent on the connection it is pending on,  *)
(* and nobody but the budget of a preflight has answered it; a late        *)
(* completion concerns a turn that is over, and comes from a script that   *)
(* is.                                                                     *)
RequestState ==
  /\ \A j \in Jobs :
       /\ stage[j] \in {"idle", "queued"} => script[j] = "none"
       /\ script[j] # "none" => ran[j] # NoPanel
       /\ stage[j] = "idle" => result[j] = "none"
       /\ stage[j] \in {"idle", "queued", "working"} => result[j] \in {"none", "expired"}
       /\ result[j] = "expired" => j \in Preflights
       /\ pending[j] # NoPanel => stage[j] = "working" /\ ran[j] = pending[j]
       /\ late[j] # NoPanel \/ j \in reported => stage[j] = "over"
       /\ late[j] # NoPanel => j \in Executes
  /\ \A p \in Panels : \A i \in DOMAIN inbox[p] :
       inbox[p][i].kind = "late" => script[inbox[p][i].job] = "done"

PanelIsThere == cepSocket # NoPanel => conn[cepSocket] \in {"open", "closing"}

(* The inductive invariant.                                                *)
RelayInv ==
  /\ TypeOK /\ RequestState /\ PanelIsThere
  /\ PendingOnCurrentPanel /\ OneAtATime /\ StreakOfThisPanel /\ LateFollowsOpenAnswer

(* Every job gets an answer and hands the queue on, without a panel, with  *)
(* a panel that never answers, and when its own budget ended long before   *)
(* its turn.                                                               *)
QueueMovesOn ==
  \A j \in Jobs : stage[j] = "queued" ~> result[j] # "none" /\ stage[j] = "over"
=============================================================================
