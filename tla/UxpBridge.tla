------------------------------ MODULE UxpBridge ------------------------------
(***************************************************************************)
(* The UXP track: dispatchUxp of src/server.ts turns a tool call into one  *)
(* or two commands, UxpBridgeHost of src/bridge/uxp-host.ts sends them to  *)
(* the panel that is connected, and uxp-plugin/main.cjs connects, keeps    *)
(* the object handles and executes.  Premiere is a timeline of clips in    *)
(* each project, which the user edits as well.                             *)
(*                                                                         *)
(* The client link between the server and the daemon, and the lanes of the *)
(* coordinator a command waits in, are modules of their own (Session,      *)
(* OperationCoordinator).                                                  *)
(***************************************************************************)
EXTENDS Integers, Sequences, FiniteSets, SequencesExt, UxpOperations

CONSTANTS
  Tools,        \* tool calls
  Nodes,        \* the clips that calls name; Gone is none of them
  Gone,
  MaxConns,     \* bound: connections of the panel
  MaxHandles,   \* 1024 in the code
  Scenarios     \* bounds: the operations each call may be of (ops), what may happen
                \* once (faults), how often the user changes something (edits), and
                \* whether the panel has connected by then (connected)

Conns  == 1 .. MaxConns
NoConn == 0
Clips  == {"a", "b", "c", "new"}
Projects == {"p", "q"}
(* A link drops, the panel is reloaded, Connect is clicked, or the files   *)
(* of bridgeIdentity or the key file cannot be used.                       *)
Faults == {"drop", "reload", "click", "identity", "key"}

ASSUME UxpAssumption ==
  /\ Nodes \subseteq Clips \union {Gone} /\ Gone \notin Clips
  /\ MaxConns \in Nat \ {0} /\ MaxHandles \in Nat \ {0} /\ IsFiniteSet(Tools)
  /\ \A s \in Scenarios : /\ s.ops \in [Tools -> SUBSET Operations]
                          /\ s.faults \subseteq Faults /\ s.edits \in Nat
                          /\ s.connected \in BOOLEAN

VARIABLES
  call,         \* dispatchUxp of each tool call
  current,      \* #socket, and #sessionId, which is new with every #socket
  pending,      \* #pending: the connection the command of each call was sent over
  hostSide,     \* each connection as the host sees it
  panelSide,    \* ... and as the panel sees it
  up, down,     \* messages to the host, and to the panel
  sock,         \* the panel's socket
  session,      \* connectedSessionId
  authenticated, \* the connections whose `authenticated` is set
  connects,     \* number of connect() calls that wait for bridgeIdentity
  identity,     \* bridgeIdentityPromise is cached
  timers,       \* reconnections that are scheduled
  timer,        \* reconnectTimer is one of them
  reshow,       \* the reconnect() that main.js asks for 50 ms after loading main.cjs
  exec,         \* the command of each call in the panel
  handles,      \* the handle table, in the order of insertion
  issued,       \* handleCounter
  loads,        \* how often the panel was loaded: sessionPrefix
  track,        \* the clips on the track of each project
  active,       \* the active project
  itemState,    \* changes of the user to project items
  scenario, failed, edits

host    == <<current, pending, hostSide>>
wire    == <<up, down>>
socket  == <<panelSide, sock, session, authenticated, connects, identity, timers, timer, reshow>>
panel   == <<socket, exec, handles, issued, loads>>
premiere == <<track, active, itemState>>
bounds  == <<scenario, failed, edits>>
vars    == <<call, host, wire, panel, premiere, bounds>>

NoOp     == Operation("none", "nothing", {"none"})
NoId     == [load |-> 0, n |-> 0]
NoTarget == [clip |-> "none", project |-> "none"]
NotAsked == [at |-> "none"]
(* A call before dispatchUxp; found and touched record what the find step  *)
(* resolved and what Premiere changed for the call.                        *)
NotCalled == [step |-> "idle", op |-> NoOp, node |-> Gone, index |-> 0, handle |-> NoId,
              found |-> NoTarget, touched |-> NoTarget, status |-> "none"]

Ids == [load : 0 .. 2, n : 0 .. Cardinality(Tools)]

TypeOK ==
  /\ \A t \in Tools :
       /\ call[t].step \in {"idle", "locate", "find", "edit", "over"}
       /\ call[t].op \in Operations \union {NoOp} /\ call[t].handle \in Ids
       /\ call[t].status \in {"none", "SUCCEEDED", "FAILED", "UNKNOWN"}
       /\ exec[t].at \in {"none", "key", "context", "checks", "premiere", "readback"}
  /\ {current, sock, session} \subseteq Conns \union {NoConn}
  /\ pending \in [Tools -> Conns \union {NoConn}]
  /\ hostSide \in [Conns -> {"none", "open", "closing", "closed"}]
  /\ panelSide \in [Conns -> {"none", "opening", "open", "closing", "closed"}]
  /\ authenticated \subseteq Conns /\ connects \in 0 .. MaxConns
  /\ {identity, timer, reshow} \subseteq BOOLEAN /\ timers \in Nat
  /\ Len(handles) <= MaxHandles
  /\ \A i, j \in DOMAIN handles : handles[i].id = handles[j].id => i = j
  /\ issued \in 0 .. Cardinality(Tools) /\ loads \in 1 .. 2
  /\ scenario \in Scenarios /\ failed \in BOOLEAN /\ edits \in 0 .. scenario.edits

(* The panel is loaded and connects: the module does, and main.js will.    *)
Loading ==
  /\ current = NoConn /\ sock = NoConn /\ session = NoConn /\ authenticated = {}
  /\ hostSide = [k \in Conns |-> "none"] /\ panelSide = [k \in Conns |-> "none"]
  /\ connects = 1 /\ identity = FALSE /\ reshow = TRUE

(* Its first connection is authenticated, and main.js has looked at it.    *)
Connected ==
  /\ current = 1 /\ sock = 1 /\ session = 1 /\ authenticated = {1}
  /\ hostSide = [k \in Conns |-> IF k = 1 THEN "open" ELSE "none"] /\ panelSide = hostSide
  /\ connects = 0 /\ identity = TRUE /\ reshow = FALSE

Init ==
  /\ scenario \in Scenarios
  /\ IF scenario.connected THEN Connected ELSE Loading
  /\ call = [t \in Tools |-> NotCalled]
  /\ pending = [t \in Tools |-> NoConn] /\ exec = [t \in Tools |-> NotAsked]
  /\ up = [k \in Conns |-> <<>>] /\ down = [k \in Conns |-> <<>>]
  /\ timers = 0 /\ timer = FALSE
  /\ handles = <<>> /\ issued = 0 /\ loads = 1
  /\ track = [p |-> <<"a", "b">>, q |-> <<"c">>] /\ active = "p" /\ itemState = 0
  /\ failed = FALSE /\ edits = 0

(***************************************************************************)
(* dispatchUxp                                                             *)
(***************************************************************************)

Mutates(op) == op.effect # "nothing"
Underway(t) == call[t].step \in {"locate", "find", "edit"}

(* A tool whose operation needs a handle takes a find step first.  A clip  *)
(* that is named by its node is located over CEP before.  The coordinator  *)
(* lets one mutation in at a time, the next one after the end of the last, *)
(* or its acknowledgement when its outcome is not known.                   *)
UseTool(t) ==
  /\ call[t].step = "idle"
  /\ \E op \in scenario.ops[t], node \in Nodes :
       /\ Mutates(op) => \A u \in Tools : Underway(u) => ~Mutates(call[u].op)
       /\ call' = [call EXCEPT ![t].op = op, ![t].node = node,
                  ![t].step = CASE op.handle = "none" -> "edit"
                                [] op.handle = "item" -> "locate"
                                [] OTHER -> "find"]
  /\ UNCHANGED <<host, wire, panel, premiere, bounds>>

IndexOf(clip, clips) == SelectInSeq(clips, LAMBDA c : c = clip)

(* resolveNodeIdInSequence: the index of the node, none (0) when it is not *)
(* on the timeline, and an error when the script fails.                    *)
Locate(t) ==
  /\ call[t].step = "locate"
  /\ \/ call' = [call EXCEPT ![t].step = "find", ![t].index =
                   IF active = "none" THEN 0 ELSE IndexOf(call[t].node, track[active])]
     \/ \E status \in {"FAILED", "UNKNOWN"} :
          call' = [call EXCEPT ![t].step = "over", ![t].status = status]
  /\ UNCHANGED <<host, wire, panel, premiere, bounds>>

MutantStatus(answer) == CASE answer = "ok" -> "SUCCEEDED" [] OTHER -> "FAILED"
(* errorOutcome, for the codes of the panel and of the host: a code or a   *)
(* message that has "timeout", "closed", "unknown" and the like in it is   *)
(* an unknown outcome even without the flag.                               *)
Status(answer) ==
  CASE answer = "ok" -> "SUCCEEDED"
    [] answer \in {"refused", "UXP_UNAVAILABLE"} -> "FAILED"
    [] answer \in {"unknown", "lost_handle", "UXP_TIMEOUT", "UXP_CLOSED", "UXP_DISCONNECTED", "UXP_REPLACED"} -> "UNKNOWN"

(* The commands of the calls T are settled with an answer: the first step  *)
(* of two leads to the second, with the handle it got.                     *)
Settled(T, answer, handle) ==
  [t \in Tools |->
     IF t \notin T THEN call[t]
     ELSE IF answer = "ok" /\ call[t].step = "find"
     THEN [call[t] EXCEPT !.step = "edit", !.handle = handle]
     ELSE [call[t] EXCEPT !.step = "over", !.status = Status(answer)]]

(***************************************************************************)
(* UxpBridgeHost                                                           *)
(***************************************************************************)

connected == current # NoConn /\ hostSide[current] = "open"

(* The command of a call is sent to the connected panel.                   *)
Dispatch(t) ==
  /\ call[t].step \in {"find", "edit"} /\ pending[t] = NoConn
  /\ IF connected
     THEN /\ pending' = [pending EXCEPT ![t] = current]
          /\ down' = [down EXCEPT ![current] = Append(@,
                         [type |-> "command", call |-> t, step |-> call[t].step])]
          /\ UNCHANGED call
     ELSE /\ call' = Settled({t}, "UXP_UNAVAILABLE", NoId)
          /\ UNCHANGED <<pending, down>>
  /\ UNCHANGED <<current, hostSide, up, panel, premiere, bounds>>

TimesOut(t) ==
  /\ pending[t] # NoConn
  /\ pending' = [pending EXCEPT ![t] = NoConn]
  /\ call' = Settled({t}, "UXP_TIMEOUT", NoId)
  /\ UNCHANGED <<current, hostSide, wire, panel, premiere, bounds>>

PendingFor(k) == {t \in Tools : pending[t] = k}

(* #settlePendingForSocket                                                 *)
MutantSettlePendingForSocket(k, code) == UNCHANGED <<pending, call>>
SettlePendingForSocket(k, code) ==
  /\ pending' = [t \in Tools |-> IF pending[t] = k THEN NoConn ELSE pending[t]]
  /\ call' = Settled(PendingFor(k), code, NoId)

FromPanel(k, type) ==
  /\ hostSide[k] \in {"open", "closing"} /\ up[k] # <<>> /\ Head(up[k]).type = type
  /\ up' = [up EXCEPT ![k] = Tail(@)]

(* hello: the nonces are kept on the socket, and answered with a proof.    *)
HandleHello(k) ==
  /\ FromPanel(k, "hello")
  /\ down' = [down EXCEPT ![k] = Append(@, [type |-> "challenge"])]
  /\ UNCHANGED <<call, host, panel, premiere, bounds>>

(* connect, with the proof the nonces call for: this socket replaces the   *)
(* one there was.                                                          *)
HandleConnect(k) ==
  /\ FromPanel(k, "connect")
  /\ IF current \notin {NoConn, k}
     THEN /\ SettlePendingForSocket(current, "UXP_REPLACED")
          /\ hostSide' = [hostSide EXCEPT ![current] = "closing"]
     ELSE UNCHANGED <<pending, call, hostSide>>
  /\ current' = k
  /\ down' = [down EXCEPT ![k] = Append(@, [type |-> "connected"])]
  /\ UNCHANGED <<panel, premiere, bounds>>

(* A response counts for the connection and the session its command was    *)
(* sent in, as long as the command is pending.                             *)
HandleResponse(k) ==
  /\ FromPanel(k, "response")
  /\ LET m == Head(up[k])
     IN IF pending[m.call] = k /\ m.session = k
        THEN /\ pending' = [pending EXCEPT ![m.call] = NoConn]
             /\ call' = Settled({m.call}, m.answer, m.handle)
        ELSE UNCHANGED <<pending, call>>
  /\ UNCHANGED <<current, hostSide, down, panel, premiere, bounds>>

(* The close event of the host's socket, once the panel has closed it or   *)
(* the link is gone.                                                       *)
MutantHostCloses(k) ==
  /\ hostSide[k] \in {"open", "closing"} /\ up[k] = <<>>
  /\ panelSide[k] \in {"closing", "closed"}
  /\ hostSide' = [hostSide EXCEPT ![k] = "closed"]
  /\ SettlePendingForSocket(current, "UXP_DISCONNECTED") /\ current' = NoConn
  /\ UNCHANGED <<wire, panel, premiere, bounds>>

HostCloses(k) ==
  /\ hostSide[k] \in {"open", "closing"} /\ up[k] = <<>>
  /\ panelSide[k] \in {"closing", "closed"}
  /\ hostSide' = [hostSide EXCEPT ![k] = "closed"]
  /\ IF current = k
     THEN SettlePendingForSocket(k, "UXP_DISCONNECTED") /\ current' = NoConn
     ELSE UNCHANGED <<current, pending, call>>
  /\ UNCHANGED <<wire, panel, premiere, bounds>>

(***************************************************************************)
(* The panel: connections                                                  *)
(***************************************************************************)

MayHappen(fault) == fault \in scenario.faults /\ ~failed /\ failed' = TRUE

NextConn == 1 + Cardinality({k \in Conns : panelSide[k] # "none"})
Live(k)  == k # NoConn /\ panelSide[k] \in {"opening", "open"}
Closing(k) == IF Live(k) THEN [panelSide EXCEPT ![k] = "closing"] ELSE panelSide

(* connect(): a scheduled reconnection is dropped and the socket closed;   *)
(* the new one is made once the identity is known, at once when it is      *)
(* cached.                                                                 *)
Connect(scheduled, known) ==
  /\ timers' = IF known THEN scheduled - 1 ELSE scheduled
  /\ timer' = FALSE
  /\ IF identity
     THEN /\ NextConn \in Conns
          /\ panelSide' = [Closing(sock) EXCEPT ![NextConn] = "opening"]
          /\ sock' = NextConn
          /\ UNCHANGED connects
     ELSE /\ connects < MaxConns
          /\ panelSide' = Closing(sock)
          /\ connects' = connects + 1
          /\ UNCHANGED sock

(* The button, the timer, and main.js when the panel was shown, which      *)
(* leaves a connected panel alone.                                         *)
Click ==
  /\ MayHappen("click")
  /\ Connect(timers, timer)
  /\ UNCHANGED <<call, host, wire, session, authenticated, identity, reshow,
                 exec, handles, issued, loads, premiere, scenario, edits>>

TimerFires ==
  /\ timers > 0
  /\ Connect(timers - 1, FALSE)
  /\ UNCHANGED <<call, host, wire, session, authenticated, identity, reshow,
                 exec, handles, issued, loads, premiere, bounds>>

Reconnect ==
  /\ reshow /\ reshow' = FALSE
  /\ IF sock # NoConn /\ panelSide[sock] = "open" /\ session # NoConn
     THEN UNCHANGED <<panelSide, sock, connects, timers, timer>>
     ELSE Connect(timers, timer)
  /\ UNCHANGED <<call, host, wire, session, authenticated, identity,
                 exec, handles, issued, loads, premiere, bounds>>

(* bridgeIdentity() has read the files, for one connect() that waits for it. *)
IdentityRead ==
  /\ connects > 0 /\ NextConn \in Conns
  /\ connects' = connects - 1 /\ identity' = TRUE
  /\ panelSide' = [panelSide EXCEPT ![NextConn] = "opening"] /\ sock' = NextConn
  /\ UNCHANGED <<call, host, wire, session, authenticated, timers, timer, reshow,
                 exec, handles, issued, loads, premiere, bounds>>

IdentityFails ==
  /\ connects > 0
  /\ connects' = connects - 1 /\ identity' = FALSE
  /\ timers' = timers + 1 /\ timer' = TRUE
  /\ MayHappen("identity")
  /\ UNCHANGED <<call, host, wire, panelSide, sock, session, authenticated, reshow,
                 exec, handles, issued, loads, premiere, scenario, edits>>

(* The socket is open: the host knows it, and the panel says hello on the  *)
(* socket that is still its own.                                           *)
Opens(k) ==
  /\ panelSide[k] = "opening"
  /\ panelSide' = [panelSide EXCEPT ![k] = "open"]
  /\ hostSide' = [hostSide EXCEPT ![k] = "open"]
  /\ up' = IF sock = k THEN [up EXCEPT ![k] = Append(@, [type |-> "hello"])] ELSE up
  /\ UNCHANGED <<call, current, pending, down, sock, session, authenticated, connects, identity,
                 timers, timer, reshow, exec, handles, issued, loads, premiere, bounds>>

(* A link drops: what is on its way is lost, and both sides will know.     *)
Drops(k) ==
  /\ Live(k)
  /\ MayHappen("drop")
  /\ panelSide' = Closing(k)
  /\ hostSide' = [hostSide EXCEPT ![k] = IF @ = "open" THEN "closing" ELSE @]
  /\ up' = [up EXCEPT ![k] = <<>>] /\ down' = [down EXCEPT ![k] = <<>>]
  /\ UNCHANGED <<call, current, pending, sock, session, authenticated, connects, identity,
                 timers, timer, reshow, exec, handles, issued, loads, premiere, scenario, edits>>

(* The close event of the panel's socket.  Only the socket that is still   *)
(* its own ends the session: what belonged to it is dropped and a new      *)
(* connection scheduled.                                                   *)
PanelCloses(k) ==
  /\ \/ panelSide[k] = "closing"
     \/ panelSide[k] = "open" /\ hostSide[k] = "closing" /\ down[k] = <<>>
  /\ panelSide' = [panelSide EXCEPT ![k] = "closed"]
  /\ IF sock = k
     THEN /\ session' = NoConn /\ handles' = <<>>
          /\ identity' = (identity /\ k \in authenticated)
          /\ timers' = timers + 1 /\ timer' = TRUE
     ELSE UNCHANGED <<session, handles, identity, timers, timer>>
  /\ UNCHANGED <<call, host, wire, sock, authenticated, connects, reshow,
                 exec, issued, loads, premiere, bounds>>

(* The panel is loaded anew: nothing of it is left, and it connects.       *)
Reloads ==
  /\ MayHappen("reload")
  /\ panelSide' = [k \in Conns |-> IF Live(k) THEN "closing" ELSE panelSide[k]]
  /\ sock' = NoConn /\ session' = NoConn /\ authenticated' = {}
  /\ connects' = 1 /\ identity' = FALSE /\ timers' = 0 /\ timer' = FALSE /\ reshow' = TRUE
  /\ exec' = [t \in Tools |-> NotAsked]
  /\ handles' = <<>> /\ issued' = 0 /\ loads' = loads + 1
  /\ UNCHANGED <<call, host, wire, premiere, scenario, edits>>

(***************************************************************************)
(* The panel: messages                                                     *)
(***************************************************************************)

FromHost(k, type) ==
  /\ panelSide[k] = "open" /\ down[k] # <<>> /\ Head(down[k]).type = type
  /\ down' = [down EXCEPT ![k] = Tail(@)]

(* The server has proved that it knows the secret; so does the panel.      *)
TakeChallenge(k) ==
  /\ FromHost(k, "challenge")
  /\ up' = IF sock = k THEN [up EXCEPT ![k] = Append(@, [type |-> "connect"])] ELSE up
  /\ UNCHANGED <<call, host, panel, premiere, bounds>>

TakeConnected(k) ==
  /\ FromHost(k, "connected")
  /\ IF sock = k
     THEN session' = k /\ authenticated' = authenticated \union {k}
     ELSE UNCHANGED <<session, authenticated>>
  /\ UNCHANGED <<call, host, up, panelSide, sock, connects, identity, timers, timer, reshow,
                 exec, handles, issued, loads, premiere, bounds>>

(* A command is taken in the session it is for, and the key file read.     *)
TakeCommand(k) ==
  /\ FromHost(k, "command")
  /\ LET m == Head(down[k])
     IN IF sock # k THEN UNCHANGED <<panelSide, exec>>
        ELSE IF k \in authenticated /\ session = k
        THEN /\ exec' = [exec EXCEPT ![m.call] =
                           [at |-> "key", step |-> m.step, conn |-> k, session |-> NoConn,
                            project |-> "none", target |-> NoTarget, did |-> "nothing"]]
             /\ UNCHANGED panelSide
        ELSE panelSide' = Closing(k) /\ UNCHANGED exec
  /\ UNCHANGED <<call, host, up, sock, session, authenticated, connects, identity, timers, timer,
                 reshow, handles, issued, loads, premiere, bounds>>

(* The key is still the one of the handshake: handleCommand starts, and    *)
(* notes the session there is now.                                         *)
KeyRead(t) ==
  /\ exec[t].at = "key"
  /\ exec' = [exec EXCEPT ![t].at = "context", ![t].session = session]
  /\ UNCHANGED <<call, host, wire, socket, handles, issued, loads, premiere, bounds>>

(* It has changed, or cannot be read: the connection is closed.            *)
KeyFails(t) ==
  /\ exec[t].at = "key"
  /\ MayHappen("key")
  /\ exec' = [exec EXCEPT ![t] = NotAsked]
  /\ panelSide' = Closing(exec[t].conn)
  /\ identity' \in {identity, FALSE}
  /\ UNCHANGED <<call, host, wire, sock, session, authenticated, connects, timers, timer, reshow,
                 handles, issued, loads, premiere, scenario, edits>>

(***************************************************************************)
(* The panel: commands                                                     *)
(***************************************************************************)

(* The answer goes out over the socket the panel has now, if it is open.   *)
Respond(t, answer, id) ==
  /\ exec' = [exec EXCEPT ![t] = NotAsked]
  /\ up' = IF sock # NoConn /\ panelSide[sock] = "open"
           THEN [up EXCEPT ![sock] = Append(@, [type |-> "response", call |-> t,
                   session |-> exec[t].session, answer |-> answer, handle |-> id])]
           ELSE up

(* An argument, a missing API or an error before Premiere is called.       *)
Refuse(t) ==
  /\ exec[t].at \in {"context", "checks", "premiere"}
  /\ Respond(t, "refused", NoId)
  /\ UNCHANGED <<call, host, down, socket, handles, issued, loads, premiere, bounds>>

(* activeContext(): the project the command is about.                      *)
CaptureContext(t) ==
  /\ exec[t].at = "context" /\ ~call[t].op.bound
  /\ active = "none" => call[t].op.effect = "nothing" /\ call[t].op.handle = "none"
  /\ exec' = [exec EXCEPT ![t].project = active,
                ![t].target = [clip |-> "none", project |-> active],
                ![t].at = IF call[t].op.handle = "none" THEN "premiere" ELSE "checks"]
  /\ UNCHANGED <<call, host, wire, socket, handles, issued, loads, premiere, bounds>>

IdOf(n) == [load |-> loads, n |-> n]

(* semanticStateMaterial: what a handle's state token is made of.          *)
StateMaterial == itemState

(* registerHandle: the oldest handle makes place for the new one.          *)
MutantRegistered(clip, project) ==
  Append(handles, [id |-> IdOf(issued + 1), clip |-> clip, project |-> project, seen |-> StateMaterial])

Registered(clip, project) ==
  Append(IF Len(handles) >= MaxHandles THEN Tail(handles) ELSE handles,
         [id |-> IdOf(issued + 1), clip |-> clip, project |-> project, seen |-> StateMaterial])

(* timeline.clip.find takes the clip at the index, the first one when no   *)
(* index was sent; another handle is one of those a read member returned.  *)
Find(t) ==
  /\ exec[t].at = "checks" /\ exec[t].step = "find"
  /\ LET clips == track[exec[t].project]
     IN \E i \in DOMAIN clips :
          /\ call[t].op.handle = "item" => i = IF call[t].index = 0 THEN 1 ELSE call[t].index
          /\ handles' = Registered(clips[i], exec[t].project)
          /\ issued' = issued + 1
          /\ Respond(t, "ok", IdOf(issued + 1))
          /\ call' = [call EXCEPT ![t].found = [clip |-> clips[i], project |-> exec[t].project]]
  /\ UNCHANGED <<host, down, socket, loads, premiere, bounds>>

(* handleRecord: a handle of this load of the panel that is in the table.  *)
MutantHandleRecord(id) == {h \in Range(handles) : h.id.n = id.n}
HandleRecord(id) == {h \in Range(handles) : id.load = loads /\ h.id = id}

(* semanticHandle: the object is of the captured project, and when it has  *)
(* a state token, as it was when the handle was issued.                    *)
Resolve(t) ==
  /\ exec[t].at = "checks" /\ exec[t].step = "edit"
  /\ \E h \in HandleRecord(call[t].handle) :
       /\ call[t].op.handle # "raw" => h.project = exec[t].project
       /\ call[t].op.handle = "token" => h.seen = StateMaterial
       /\ exec' = [exec EXCEPT ![t].at = "premiere",
                     ![t].target = [clip |-> h.clip, project |-> h.project]]
  /\ UNCHANGED <<call, host, wire, socket, handles, issued, loads, premiere, bounds>>

(* A handle of this load that is no longer in the table is refused with a  *)
(* message that says "unknown", which the server reads in it.              *)
LostHandle(t) ==
  /\ exec[t].at = "checks" /\ exec[t].step = "edit"
  /\ call[t].handle.load = loads /\ HandleRecord(call[t].handle) = {}
  /\ Respond(t, "lost_handle", NoId)
  /\ UNCHANGED <<call, host, down, socket, handles, issued, loads, premiere, bounds>>

(* What an edit does to the timeline.                                      *)
Changed(op, target) ==
  /\ track' = CASE op.effect = "removes" -> [track EXCEPT ![target.project] =
                                               SelectSeq(@, LAMBDA c : c # target.clip)]
                [] op.effect = "inserts" -> [track EXCEPT ![target.project] = <<"new">> \o @]
                [] op.effect = "closes" -> [track EXCEPT ![target.project] = <<>>]
                [] OTHER -> track
  /\ active' = IF op.effect = "closes" /\ active = target.project THEN "none" ELSE active
  /\ UNCHANGED itemState

(* Premiere is called; a clip that is gone cannot be edited.               *)
CallPremiere(t) ==
  /\ exec[t].at = "premiere"
  /\ LET op == call[t].op  target == exec[t].target
         there == target.clip = "none" \/ target.clip \in Range(track[target.project])
     IN \E did \in {"applied", "declined", "lost", "threw"}, takesEffect \in BOOLEAN :
          /\ did = "applied" => takesEffect
          /\ did \in {"declined", "lost"} => ~takesEffect
          /\ takesEffect => there
          /\ exec' = [exec EXCEPT ![t].at = "readback", ![t].did = did]
          /\ IF takesEffect /\ op.effect # "nothing"
             THEN call' = [call EXCEPT ![t].touched = target] /\ Changed(op, target)
             ELSE UNCHANGED <<call, premiere>>
  /\ UNCHANGED <<host, wire, socket, handles, issued, loads, bounds>>

(* The state is read back, the context read again, and the answer sent.    *)
(* What is compared is the state that was asked for and not a change: a    *)
(* track may have been muted, or a medium linked to the path, before.      *)
Answer(t) ==
  /\ exec[t].at = "readback"
  /\ \E compares, throws \in BOOLEAN :
       /\ throws => call[t].op.looksAfter
       /\ Respond(t, Verdict(call[t].op, exec[t].did, compares, throws), NoId)
  /\ UNCHANGED <<call, host, down, socket, handles, issued, loads, premiere, bounds>>

(***************************************************************************)
(* The user works in Premiere as well.                                     *)
(***************************************************************************)

UserEdits ==
  /\ edits < scenario.edits /\ active # "none"
  /\ edits' = edits + 1
  /\ \/ /\ track[active] # <<>>
        /\ track' = [track EXCEPT ![active] = Tail(@)] /\ UNCHANGED <<active, itemState>>
     \/ active' \in Projects \ {active} /\ UNCHANGED <<track, itemState>>
     \/ itemState' = itemState + 1 /\ UNCHANGED <<track, active>>
  /\ UNCHANGED <<call, host, wire, panel, scenario, failed>>

ServerSteps(t) == UseTool(t) \/ Locate(t) \/ Dispatch(t) \/ TimesOut(t)
HostSteps(k)   == HandleHello(k) \/ HandleConnect(k) \/ HandleResponse(k) \/ HostCloses(k)
PanelSteps(k)  == Opens(k) \/ PanelCloses(k) \/ TakeChallenge(k) \/ TakeConnected(k) \/ TakeCommand(k)
Executes(t)    == \/ KeyRead(t) \/ Refuse(t) \/ CaptureContext(t) \/ Find(t)
                  \/ Resolve(t) \/ LostHandle(t) \/ CallPremiere(t) \/ Answer(t)

Next ==
  \/ \E t \in Tools : ServerSteps(t) \/ Executes(t) \/ KeyFails(t)
  \/ \E k \in Conns : HostSteps(k) \/ PanelSteps(k) \/ Drops(k)
  \/ Click \/ TimerFires \/ Reconnect \/ IdentityRead \/ IdentityFails \/ Reloads
  \/ UserEdits

Spec == Init /\ [][Next]_vars

(***************************************************************************)
(* Properties                                                              *)
(***************************************************************************)

(* A command that is waited for was sent over the connection the host has  *)
(* now: replacing or losing a connection settles all of its commands.      *)
PendingOnCurrentSocket ==
  \A t \in Tools : pending[t] # NoConn => pending[t] = current /\ call[t].step \in {"find", "edit"}

(* A panel that takes itself for connected is the one the host talks to,   *)
(* unless its connection is being closed: the end of another connection    *)
(* does not take the session from it.                                      *)
ConnectedPanelIsCurrent ==
  sock # NoConn /\ session = sock /\ panelSide[sock] = "open"
    => current = sock \/ hostSide[sock] = "closing"

(* A call of an operation with the dispatch flag that is recorded FAILED   *)
(* has changed nothing in Premiere, and will not: whatever drops, times    *)
(* out or throws after the dispatch makes it UNKNOWN.                      *)
FailedEditedNothing ==
  \A t \in Tools : call[t].status = "FAILED" /\ call[t].op.flagged => call[t].touched = NoTarget

(* A call edits the object its find step resolved, in the project it was   *)
(* found in: across reconnects, reloads of the panel that start the        *)
(* handle counter again, evicted handles and a change of the project.      *)
EditsWhatWasFound ==
  \A t \in Tools : call[t].touched # NoTarget /\ call[t].op.handle # "none"
                     => call[t].touched = call[t].found
=============================================================================
