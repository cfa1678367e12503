------------------------------ MODULE Session ------------------------------
(***************************************************************************)
(* One MCP server and the daemon: runTool of src/server.ts brackets a tool *)
(* with begin and end, BridgeClient of src/bridge/ws-client.ts carries its *)
(* requests over connections that come and go, and the wire operations of  *)
(* WsHost in src/bridge/ws-host.ts tie an operation to the connection that *)
(* began it.  The coordinator is reduced to an operation's status (its own *)
(* module has the rest), Premiere to scripts that are running or not.      *)
(***************************************************************************)
EXTENDS Integers, Sequences, FiniteSets, SequencesExt

CONSTANTS
  Calls,        \* tool calls
  Mutations,    \* the calls of tools with policy mutate
  Batches,      \* those of media_batch_relink, here of one relink
  Locals,       \* the calls of tools with policy local
  MaxConns,     \* bound: connections of the client; then the daemon is out of reach
  MaxRefreshes  \* bound: calls of refreshReconnectStatus that are under way at once

Conns  == 1 .. MaxConns
Lists  == 1 .. MaxRefreshes
NoConn == 0

ASSUME SessionAssumption ==
  /\ Mutations \subseteq Calls
  /\ Batches \subseteq Mutations
  /\ Locals \subseteq Calls \ Mutations
  /\ MaxConns \in Nat /\ MaxRefreshes \in Nat
  /\ IsFiniteSet(Calls)

VARIABLES
  conn,         \* each connection as the client sees it
  ws,           \* #ws
  connecting,   \* #connecting: the connection whose opening is awaited
  overlapped,   \* history: it has opened a connection while it had another
  step,         \* where runTool is with each call
  wait,         \* what it waits for, and on which connection
  requests,     \* number of requests of each call; the last has this requestId
  verdict,      \* the status runTool reports for the operation
  outcome,      \* what the caller of the tool gets; of a local tool, that it came back
  link,         \* each connection as the daemon sees it
  toDaemon,     \* requests on their way
  toClient,     \* responses on their way
  op,           \* the operation of each call in the daemon
  source,       \* #activeWireOperations: the connection an operation is tied to
  asked,        \* the request of each call the daemon is working at
  script,       \* the script of each call: open while it may start or run
  reconciliation, \* #reconciliation
  refreshing    \* the list of each refreshReconnectStatus, and what is left of it

client   == <<conn, ws, connecting, overlapped>>
tool     == <<step, wait, requests, verdict, outcome>>
recovery == <<reconciliation, refreshing>>
daemon   == <<op, source, asked, script, recovery>>
wire     == <<toDaemon, toClient>>
vars     == <<client, tool, link, wire, daemon>>

Requests  == 1 .. 4  \* begin, one script, end, and end once more
Final     == {"SUCCEEDED", "FAILED", "UNKNOWN"}
NoRequest == [conn |-> NoConn, id |-> 0]
Not       == [for |-> "nothing", conn |-> NoConn]

TypeOK ==
  /\ conn \in [Conns -> {"none", "connecting", "open", "closing", "closed"}]
  /\ link \in [Conns -> {"none", "open", "closed"}]
  /\ {ws, connecting} \subseteq Conns \union {NoConn} /\ overlapped \in BOOLEAN
  /\ step \in [Calls -> {"idle", "begin", "run", "end", "fail", "over"}]
  /\ wait \in [Calls -> [for : {"nothing", "opening", "answer"}, conn : Conns \union {NoConn}]]
  /\ requests \in [Calls -> Requests \union {0}]
  /\ verdict \in [Calls -> Final \union {"none"}]
  /\ outcome \in [Calls -> {"none", "success", "failure", "error", "begin_lost", "local"}]
  /\ \A k \in Conns :
       /\ \A m \in Range(toDaemon[k]) :
            m \in [call : Calls, id : Requests, step : {"begin", "run", "end", "fail"},
                   verdict : Final \union {"none"}]
       /\ \A m \in Range(toClient[k]) :
            m \in [call : Calls, id : Requests, answer : {"ok", "failed", "unknown"}]
  /\ op \in [Calls -> Final \union {"none", "beginning", "active", "refused", "ACKNOWLEDGED"}]
  /\ source \in [Calls -> Conns \union {NoConn}]
  /\ asked \in [Calls -> [conn : Conns \union {NoConn}, id : Requests \union {0}]]
  /\ script \in [Calls -> {"none", "open", "late", "done"}]
  /\ reconciliation \in [Mutations -> {"none", "PENDING", "COMPARED", "FAILED"}]
  /\ refreshing \in [Lists -> [Mutations -> {"no", "left", "compared"}]]

Init ==
  /\ conn = [k \in Conns |-> "none"] /\ ws = NoConn /\ connecting = NoConn
  /\ overlapped = FALSE
  /\ step = [c \in Calls |-> "idle"]
  /\ wait = [c \in Calls |-> Not]
  /\ requests = [c \in Calls |-> 0]
  /\ verdict = [c \in Calls |-> "none"]
  /\ outcome = [c \in Calls |-> "none"]
  /\ link = [k \in Conns |-> "none"]
  /\ toDaemon = [k \in Conns |-> <<>>] /\ toClient = [k \in Conns |-> <<>>]
  /\ op = [c \in Calls |-> "none"]
  /\ source = [c \in Calls |-> NoConn]
  /\ asked = [c \in Calls |-> NoRequest]
  /\ script = [c \in Calls |-> "none"]
  /\ reconciliation = [c \in Mutations |-> "none"]
  /\ refreshing = [f \in Lists |-> [c \in Mutations |-> "no"]]

(***************************************************************************)
(* runTool                                                                 *)
(***************************************************************************)

(* The policy refuses the call, or lets it through; a local tool is not    *)
(* bracketed.                                                              *)
RunTool(c) ==
  /\ step[c] = "idle"
  /\ \/ step' = [step EXCEPT ![c] = "over"] /\ outcome' = [outcome EXCEPT ![c] = "error"]
     \/ step' = [step EXCEPT ![c] = IF c \in Locals THEN "run" ELSE "begin"] /\ UNCHANGED outcome
  /\ UNCHANGED <<client, wait, requests, verdict, link, wire, daemon>>

(* The failure of a relink does not reach operationFailure.                *)
Uncoded(c) == c \in Batches /\ step[c] = "run"

(* Mutant: errorOutcome sees no difference between a failure and an        *)
(* outcome that is not known.                                              *)
MutantErrorOutcome(c, unknown) == "FAILED"
(* errorOutcome and operationFailure: the status of an operation whose     *)
(* tool has failed.  A read is never unknown, nor is a failed batch, which *)
(* returns how many of its relinks have failed, and not their codes.       *)
ErrorOutcome(c, unknown) ==
  IF unknown /\ c \in Mutations /\ ~Uncoded(c) THEN "UNKNOWN" ELSE "FAILED"

(* The requests the calls C wait for have failed, those of U with an       *)
(* unknown outcome, those of L without an answer from the daemon.  A begin *)
(* is given up; a tool throws, or returns the failure, and the operation is *)
(* ended with it; an end that fails is tried once more, and given up.      *)
Fails(C, U, L) ==
  /\ \E throws \in BOOLEAN :
       step' = [c \in Calls |->
         IF c \notin C THEN step[c]
         ELSE IF c \in Locals \/ step[c] \in {"begin", "fail"} THEN "over"
         ELSE IF step[c] = "end" \/ (throws /\ ~Uncoded(c)) THEN "fail" ELSE "end"]
  /\ outcome' = [c \in Calls |->
       IF c \notin C THEN outcome[c]
       ELSE IF c \in Locals THEN "local"
       ELSE IF step[c] = "begin" /\ c \in L THEN "begin_lost"
       ELSE IF step[c] \in {"begin", "fail"} THEN "error" ELSE outcome[c]]
  /\ verdict' = [c \in Calls |->
       IF c \in C \ Locals /\ step[c] \in {"run", "end"} THEN ErrorOutcome(c, c \in U) ELSE verdict[c]]
  /\ wait' = [c \in Calls |-> IF c \in C THEN Not ELSE wait[c]]

(* The request call c waits for was answered as it should.                 *)
Succeeds(c) ==
  /\ wait' = [wait EXCEPT ![c] = Not]
  /\ \/ /\ c \in Locals
        /\ step' = [step EXCEPT ![c] = "over"]
        /\ outcome' = [outcome EXCEPT ![c] = "local"]
        /\ UNCHANGED verdict
     \/ /\ c \notin Locals
        /\ step[c] = "begin"
        /\ step' = [step EXCEPT ![c] = "run"]
        /\ UNCHANGED <<outcome, verdict>>
     \/ /\ c \notin Locals
        /\ step[c] = "run"
        /\ step' = [step EXCEPT ![c] = "end"]
        /\ verdict' = [verdict EXCEPT ![c] = "SUCCEEDED"]
        /\ UNCHANGED outcome
     \/ /\ step[c] \in {"end", "fail"}
        /\ step' = [step EXCEPT ![c] = "over"]
        /\ outcome' = [outcome EXCEPT ![c] =
             IF step[c] = "fail" THEN "error" ELSE IF verdict[c] = "SUCCEEDED" THEN "success" ELSE "failure"]
        /\ UNCHANGED verdict

(***************************************************************************)
(* BridgeClient                                                            *)
(***************************************************************************)
Waiting(for, k) == {c \in Calls : wait[c] = [for |-> for, conn |-> k]}
Pending         == {c \in Calls : wait[c].for = "answer"}

(* The calls C send their requests on connection k.                        *)
SendOn(k, C) ==
  /\ requests' = [c \in Calls |-> IF c \in C THEN requests[c] + 1 ELSE requests[c]]
  /\ wait' = [c \in Calls |-> IF c \in C THEN [for |-> "answer", conn |-> k] ELSE wait[c]]
  /\ toDaemon' = IF link'[k] # "open" THEN toDaemon
       ELSE [toDaemon EXCEPT ![k] = @ \o
              [i \in 1 .. Cardinality(C) |->
                 LET c == SetToSeq(C)[i] IN
                 [call |-> c, id |-> requests[c] + 1, step |-> step[c], verdict |-> verdict[c]]]]

ReadyToSend(c) == step[c] \in {"begin", "run", "end", "fail"} /\ wait[c] = Not
HasOpen        == ws # NoConn /\ conn[ws] = "open"

(* #request on the open connection.                                        *)
Request(c) ==
  /\ ReadyToSend(c)
  /\ HasOpen
  /\ UNCHANGED <<client, step, verdict, outcome, link, toClient, daemon>>
  /\ SendOn(ws, {c})

(* The loopback port refuses a connection only when the daemon is gone,    *)
(* and its connections with it; another may close before it opens.         *)
Refusals == IF \A k \in Conns : link[k] # "open" THEN BOOLEAN ELSE {FALSE}

(* #open: join the connection that is being opened, or open the next one.  *)
Open(c) ==
  /\ ReadyToSend(c)
  /\ ~HasOpen
  /\ \/ /\ connecting # NoConn
        /\ wait' = [wait EXCEPT ![c] = [for |-> "opening", conn |-> connecting]]
        /\ UNCHANGED <<client, step, verdict, outcome>>
     \/ /\ connecting = NoConn
        /\ \E k \in Conns :
             /\ conn[k] = "none" /\ \A j \in 1 .. k - 1 : conn[j] # "none"
             /\ conn' = [conn EXCEPT ![k] = "connecting"]
             /\ ws' = k
             /\ connecting' = k
             /\ overlapped' = (overlapped \/ \E j \in Conns : conn[j] \in {"connecting", "open"})
             /\ wait' = [wait EXCEPT ![c] = [for |-> "opening", conn |-> k]]
        /\ UNCHANGED <<step, verdict, outcome>>
     \/ /\ connecting = NoConn
        /\ \A k \in Conns : conn[k] # "none"
        /\ \E refused \in Refusals : Fails({c}, IF refused THEN {} ELSE {c}, {})
        /\ UNCHANGED client
  /\ UNCHANGED <<requests, link, wire, daemon>>

Opened(k) ==
  /\ conn[k] = "connecting"
  /\ conn' = [conn EXCEPT ![k] = "open"]
  /\ link' = [link EXCEPT ![k] = "open"]
  /\ ws' = k
  /\ connecting' = NoConn
  /\ SendOn(k, Waiting("opening", k))
  /\ UNCHANGED <<overlapped, step, verdict, outcome, toClient, daemon>>

(* The close event of any connection rejects all that is pending, be it    *)
(* pending on a newer connection, and forgets a newer one's opening.  W are *)
(* calls that waited for k to open; nothing was sent for them.             *)
CloseEvent(k, W, refused) ==
  /\ conn' = [conn EXCEPT ![k] = "closed"]
  /\ ws' = IF ws = k THEN NoConn ELSE ws
  /\ connecting' = NoConn /\ UNCHANGED overlapped
  /\ Fails(W \union Pending, IF refused THEN Pending ELSE W \union Pending, Pending)
  /\ UNCHANGED <<requests, link, wire, daemon>>

(* Mutant: an attempt that fails is not passed on to those who wait.       *)
MutantConnectFails(k) == conn[k] = "connecting" /\ CloseEvent(k, {}, FALSE)
ConnectFails(k) ==
  /\ conn[k] = "connecting"
  /\ \E refused \in Refusals : CloseEvent(k, Waiting("opening", k), refused)

Closing(k) ==
  /\ conn[k] = "open"
  /\ conn' = [conn EXCEPT ![k] = "closing"]
  /\ toClient' = [toClient EXCEPT ![k] = <<>>]
  /\ UNCHANGED <<ws, connecting, overlapped, tool, link, toDaemon, daemon>>

Closed(k) == conn[k] = "closing" /\ CloseEvent(k, {}, FALSE)

(* The timer of a request.  The one of end, five minutes, is longer than a *)
(* request takes to arrive on its loopback connection, and than the client *)
(* takes to see that connection lost with the request.                     *)
RequestTimer(c) ==
  /\ wait[c].for = "answer"
  /\ step[c] \in {"end", "fail"} =>
       /\ link[wait[c].conn] = "open"
       /\ \A m \in Range(toDaemon[wait[c].conn]) : m.call # c \/ m.id # requests[c]
  /\ Fails({c}, {d \in {c} : step[d] = "run"}, {c})
  /\ UNCHANGED <<client, requests, link, wire, daemon>>

(* A response settles the request with its id, whatever connection it came *)
(* on.                                                                     *)
OnMessage(k) ==
  /\ conn[k] = "open"
  /\ toClient[k] # <<>>
  /\ toClient' = [toClient EXCEPT ![k] = Tail(@)]
  /\ LET m == Head(toClient[k]) IN
     \/ /\ wait[m.call].for = "answer" /\ requests[m.call] = m.id
        /\ \/ m.answer = "ok" /\ Succeeds(m.call)
           \/ m.answer # "ok" /\ Fails({m.call}, {d \in {m.call} : m.answer = "unknown"}, {})
     \/ /\ wait[m.call].for # "answer" \/ requests[m.call] # m.id
        /\ UNCHANGED <<step, wait, verdict, outcome>>
  /\ UNCHANGED <<client, requests, link, toDaemon, daemon>>

(***************************************************************************)
(* The wire operations of the daemon                                       *)
(***************************************************************************)

(* The daemon takes the next request off connection k; what happens to     *)
(* other calls is none of its business.                                    *)
Takes(k, steps) ==
  /\ link[k] = "open"
  /\ toDaemon[k] # <<>>
  /\ Head(toDaemon[k]).step \in steps
  /\ toDaemon' = [toDaemon EXCEPT ![k] = Tail(@)]
  /\ UNCHANGED <<client, tool, link>>

Unresolved == {c \in Mutations : op[c] = "UNKNOWN"}

(* #sendSuccess and #sendFailure, to a source that is still there; a client *)
(* that has begun to close does not read any more.                         *)
Reply(k, c, id, answer) ==
  toClient' = IF k # NoConn /\ link[k] = "open" /\ conn[k] = "open"
              THEN [toClient EXCEPT ![k] = Append(@, [call |-> c, id |-> id, answer |-> answer])]
              ELSE toClient
Answer(c, answer) == Reply(asked[c].conn, c, asked[c].id, answer)

(* A request of a local tool.  A recovery request is taken when the        *)
(* snapshot it captures is there.                                          *)
TakeLocal(k, answer) ==
  /\ Takes(k, {"run"})
  /\ LET m == Head(toDaemon[k]) IN m.call \in Locals /\ Reply(k, m.call, m.id, answer)
  /\ UNCHANGED <<source, asked, script, refreshing>>

(* A probe or a status report; or a recovery request without a panel, with *)
(* another fingerprint, or for an operation that is not unresolved.        *)
Reports(k) ==
  /\ \E answer \in {"ok", "failed"} : TakeLocal(k, answer)
  /\ UNCHANGED <<op, reconciliation>>

RecoverySnapshot(k) ==
  /\ TakeLocal(k, "ok")
  /\ \E c \in Unresolved : reconciliation' = [reconciliation EXCEPT ![c] = "COMPARED"]
  /\ UNCHANGED op

AcknowledgeRecovery(k) ==
  /\ TakeLocal(k, "ok")
  /\ \E c \in Unresolved :
       /\ op' = [op EXCEPT ![c] = "ACKNOWLEDGED"]
       /\ reconciliation' = [reconciliation EXCEPT ![c] = "none"]

TakeBegin(k) ==
  /\ Takes(k, {"begin"})
  /\ LET m == Head(toDaemon[k]) IN
     /\ op' = [op EXCEPT ![m.call] = "beginning"]
     /\ asked' = [asked EXCEPT ![m.call] = [conn |-> k, id |-> m.id]]
  /\ UNCHANGED <<toClient, source, script, recovery>>

BeginRefused(c) ==
  /\ op[c] = "beginning"
  /\ op' = [op EXCEPT ![c] = "refused"]
  /\ asked' = [asked EXCEPT ![c] = NoRequest]
  /\ Answer(c, "failed")
  /\ UNCHANGED <<client, tool, link, toDaemon, source, script, recovery>>

(* Mutant: an operation whose source has gone is failed, like a read.      *)
MutantOrphaned(c) == "FAILED"
(* Mutant: the failure code is taken for the status.                       *)
MutantOrphanedCode(c) == "SOURCE_DISCONNECTED"
(* #finalizeOrphanOperation.                                               *)
Orphaned(c) == IF c \in Mutations THEN "UNKNOWN" ELSE "FAILED"

(* Mutant: the source is not looked at again after the lease was awaited.  *)
MutantBegun(c) ==
  /\ op[c] = "beginning"
  /\ asked' = [asked EXCEPT ![c] = NoRequest]
  /\ op' = [op EXCEPT ![c] = "active"]
  /\ source' = [source EXCEPT ![c] = asked[c].conn]
  /\ Answer(c, "ok")
  /\ UNCHANGED <<client, tool, link, toDaemon, script, recovery>>
(* The lease is granted, the preflight made.  The source may have gone.    *)
Begun(c) ==
  /\ op[c] = "beginning"
  /\ asked' = [asked EXCEPT ![c] = NoRequest]
  /\ \/ /\ link[asked[c].conn] = "open"
        /\ op' = [op EXCEPT ![c] = "active"]
        /\ source' = [source EXCEPT ![c] = asked[c].conn]
        /\ Answer(c, "ok")
     \/ /\ link[asked[c].conn] # "open"
        /\ op' = [op EXCEPT ![c] = Orphaned(c)]
        /\ UNCHANGED <<source, toClient>>
  /\ UNCHANGED <<client, tool, link, toDaemon, script, recovery>>

(* A script for an operation that is not active is refused; one whose      *)
(* outcome is unknown says so.                                             *)
TakeRun(k) ==
  /\ Takes(k, {"run"})
  /\ LET m == Head(toDaemon[k]) IN
     /\ m.call \notin Locals
     /\ \/ /\ op[m.call] = "active"
           /\ script' = [script EXCEPT ![m.call] = "open"]
           /\ asked' = [asked EXCEPT ![m.call] = [conn |-> k, id |-> m.id]]
           /\ UNCHANGED toClient
        \/ /\ op[m.call] # "active"
           /\ Reply(k, m.call, m.id, IF op[m.call] = "UNKNOWN" THEN "unknown" ELSE "failed")
           /\ UNCHANGED <<script, asked>>
  /\ UNCHANGED <<op, source, recovery>>

(* The lease or the target verification refuses the script, or it has run. *)
(* The answer to a script that ends late is not for the tool.              *)
ScriptEnds(c) ==
  /\ \/ script[c] = "open" /\ \E answer \in {"ok", "failed"} : Answer(c, answer)
     \/ script[c] = "late" /\ UNCHANGED toClient
  /\ script' = [script EXCEPT ![c] = "done"]
  /\ asked' = [asked EXCEPT ![c] = NoRequest]
  /\ UNCHANGED <<client, tool, link, toDaemon, op, source, recovery>>

(* A timer, or the loss of the panel, ends a request whose script may      *)
(* still start, or run: the operation of a mutation is UNKNOWN.            *)
ScriptUnknown(c) ==
  /\ script[c] = "open"
  /\ script' = [script EXCEPT ![c] = "late"]
  /\ asked' = [asked EXCEPT ![c] = NoRequest]
  /\ op' = [op EXCEPT ![c] = IF c \in Mutations /\ @ = "active" THEN "UNKNOWN" ELSE @]
  /\ Answer(c, IF c \in Mutations THEN "unknown" ELSE "failed")
  /\ UNCHANGED <<client, tool, link, toDaemon, source, recovery>>

(* #finalizeOperation: a mutation that is said to have succeeded is        *)
(* UNKNOWN when its postflight snapshot cannot be made.  The status is in  *)
(* the answer, and runTool does not read it.                               *)
Finalized(c, status) ==
  {status} \union IF c \in Mutations /\ status = "SUCCEEDED" THEN {"UNKNOWN"} ELSE {}

(* #endOperation: the first end decides; the others learn what it was.  It *)
(* is one step here: OperationCoordinator has the awaits in it, and who    *)
(* else may end the operation, or ask it for more, between them.           *)
TakeEnd(k) ==
  /\ Takes(k, {"end", "fail"})
  /\ LET m == Head(toDaemon[k]) IN
     /\ \E status \in IF op[m.call] = "active" THEN Finalized(m.call, m.verdict) ELSE {op[m.call]} :
          op' = [op EXCEPT ![m.call] = status]
     /\ source' = [source EXCEPT ![m.call] = NoConn]
     /\ Reply(k, m.call, m.id,
              IF op[m.call] \in Final \union {"active", "ACKNOWLEDGED"} THEN "ok" ELSE "failed")
  /\ UNCHANGED <<asked, script, recovery>>

(* #handleSocketClose: the operations tied to the connection are orphans.  *)
(* The daemon may be the first to see the connection go.                   *)
HandleSocketClose(k) ==
  /\ link[k] = "open"
  /\ link' = [link EXCEPT ![k] = "closed"]
  /\ toDaemon' = [toDaemon EXCEPT ![k] = <<>>]
  /\ op' = [c \in Calls |-> IF source[c] = k /\ op[c] = "active" THEN Orphaned(c) ELSE op[c]]
  /\ source' = [c \in Calls |-> IF source[c] = k THEN NoConn ELSE source[c]]
  /\ UNCHANGED <<client, tool, toClient, asked, script, recovery>>

(***************************************************************************)
(* #refreshReconnectStatus                                                 *)
(***************************************************************************)
(* A panel has connected; the refresh for an earlier one may still be      *)
(* under way, and is not waited for.                                       *)
Idle(f) == \A c \in Mutations : refreshing[f][c] = "no"

RefreshStarts(f) ==
  /\ Idle(f) /\ \A g \in 1 .. f - 1 : ~Idle(g)
  /\ Unresolved # {}
  /\ refreshing' = [refreshing EXCEPT ![f] =
                      [c \in Mutations |-> IF c \in Unresolved THEN "left" ELSE "no"]]
  /\ reconciliation' = [c \in Mutations |->
                          IF c \in Unresolved THEN "PENDING" ELSE reconciliation[c]]
  /\ UNCHANGED <<client, tool, link, wire, op, source, asked, script>>

Compared(f, c) ==
  refreshing' = [refreshing EXCEPT ![f] =
                  IF \E d \in Mutations \ {c} : @[d] = "left"
                  THEN [@ EXCEPT ![c] = "compared"]
                  ELSE [d \in Mutations |-> "no"]]

(* Mutant: an operation is compared although it has been resolved.         *)
MutantRefreshCompares(f, c) ==
  /\ refreshing[f][c] = "left"
  /\ Compared(f, c)
  /\ reconciliation' = [reconciliation EXCEPT ![c] = "COMPARED"]
  /\ UNCHANGED <<client, tool, link, wire, op, source, asked, script>>
RefreshCompares(f, c) ==
  /\ refreshing[f][c] = "left"
  /\ c \in Unresolved
  /\ Compared(f, c)
  /\ reconciliation' = [reconciliation EXCEPT ![c] = "COMPARED"]
  /\ UNCHANGED <<client, tool, link, wire, op, source, asked, script>>

(* A snapshot or a comparison fails: FAILED for the whole list, with the   *)
(* operations that were acknowledged meanwhile.                            *)
RefreshFails(f) ==
  /\ \E c \in Mutations : refreshing[f][c] = "left"
  /\ reconciliation' = [c \in Mutations |->
                          IF refreshing[f][c] # "no" THEN "FAILED" ELSE reconciliation[c]]
  /\ refreshing' = [refreshing EXCEPT ![f] = [c \in Mutations |-> "no"]]
  /\ UNCHANGED <<client, tool, link, wire, op, source, asked, script>>

(***************************************************************************)
(* Specification                                                           *)
(***************************************************************************)
Steps(c)    == RunTool(c) \/ Request(c) \/ Open(c)
Connects(k) == Opened(k) \/ ConnectFails(k)
Closes(k)   == (link[k] = "closed" /\ Closing(k)) \/ Closed(k)
Handles(k)  == \/ TakeBegin(k) \/ TakeRun(k) \/ TakeEnd(k)
               \/ Reports(k) \/ RecoverySnapshot(k) \/ AcknowledgeRecovery(k)
Works(c)    == \/ BeginRefused(c) \/ Begun(c)
               \/ ScriptEnds(c) \/ ScriptUnknown(c)

Next ==
  \/ \E c \in Calls : Steps(c) \/ RequestTimer(c) \/ Works(c)
  \/ \E k \in Conns : \/ Connects(k) \/ Closing(k) \/ Closed(k) \/ OnMessage(k)
                      \/ Handles(k) \/ HandleSocketClose(k)
  \/ \E f \in Lists : \/ RefreshStarts(f) \/ RefreshFails(f)
                      \/ \E c \in Mutations : RefreshCompares(f, c)

Spec == Init /\ [][Next]_vars

(* Fairness: the two event loops go on, timers fire, an attempt to connect *)
(* ends, and so does the closing of a connection, which begins when the    *)
(* daemon has closed it.  Nothing is assumed of the coordinator, of        *)
(* Premiere, or of the life of a connection.                               *)
FairSpec ==
  /\ Spec
  /\ \A c \in Calls : WF_vars(Steps(c)) /\ WF_vars(RequestTimer(c))
  /\ \A k \in Conns : WF_vars(Connects(k) \/ Closes(k)) /\ WF_vars(Handles(k))

(***************************************************************************)
(* Properties                                                              *)
(***************************************************************************)

(* None of the scripts of these calls can still change the project when    *)
(* they are recorded SUCCEEDED or FAILED.                                  *)
Honest(C) == \A c \in C : op[c] \in {"SUCCEEDED", "FAILED"} => script[c] \in {"none", "done"}

(* A mutation other than a batch is recorded SUCCEEDED or FAILED only when *)
(* its script can change nothing any more: a lost connection or a timer on *)
(* either side makes it UNKNOWN, however late the news arrives.            *)
HonestOutcome == Honest(Mutations \ Batches)

(* The README: timed-out mutations are recorded as UNKNOWN.  All of them.  *)
TimedOutIsUnknown == Honest(Mutations)

(* What a tool returns as a success is never recorded as a failure: the    *)
(* daemon, which may have lost sight of the server, has it as SUCCEEDED or *)
(* leaves it open.                                                         *)
SuccessIsNotFailure ==
  \A c \in Mutations : outcome[c] = "success" => op[c] \in {"SUCCEEDED", "UNKNOWN", "ACKNOWLEDGED"}

(* An operation that is active, and holds the lease, has somebody to end   *)
(* it: its call, or the connection it is tied to.  Only a begin the client *)
(* has given up may be left to its connection alone, and an operation whose *)
(* ends were lost with another connection that overlapped with its own.    *)
ActiveIsOwned ==
  \A c \in Calls : op[c] = "active" =>
    /\ source[c] # NoConn /\ link[source[c]] = "open"
    /\ \/ step[c] # "over" \/ outcome[c] = "begin_lost" \/ overlapped
       \/ conn[source[c]] # "open"
       \/ \E k \in Conns : \E m \in Range(toDaemon[k]) : m.call = c /\ m.step \in {"end", "fail"}

(* What is reported of an operation as pending or compared is reported of  *)
(* one that is still unresolved, over acknowledgements and snapshots that  *)
(* come between the comparisons of a reconnect.                            *)
ReportedIsUnresolved ==
  \A c \in Mutations : reconciliation[c] \in {"PENDING", "COMPARED"} => c \in Unresolved

(* Every call of a tool comes back.                                        *)
CallReturns == \A c \in Calls : step[c] \in {"begin", "run"} ~> step[c] = "over"
=============================================================================
