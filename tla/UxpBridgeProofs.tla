--------------------------- MODULE UxpBridgeProofs ---------------------------
(***************************************************************************)
(* Theorems about the UXP track, for any calls, clips, connections,        *)
(* handles and scenarios, and messages of any number.                      *)
(***************************************************************************)
EXTENDS UxpBridge, SequenceTheorems, FiniteSetTheorems, TLAPS

(***************************************************************************)
(* Types.  Records are described by their fields, because what Premiere    *)
(* has on its timelines is of no concern here.                             *)
(***************************************************************************)
Answers == {"ok", "refused", "unknown", "lost_handle"}
AnyId   == [load : Nat, n : Nat]
ToHost  == [type : {"hello", "connect"}] \union
           [type : {"response"}, call : Tools, session : Conns \union {NoConn},
            answer : Answers, handle : AnyId]
ToPanel == [type : {"challenge", "connected"}] \union
           [type : {"command"}, call : Tools, step : {"find", "edit"}]

IsCall(c) ==
  c \in [step : {c.step}, op : {c.op}, node : {c.node}, index : {c.index}, handle : {c.handle},
         found : {c.found}, touched : {c.touched}, status : {c.status}]
IsExec(e) ==
  \/ e = NotAsked
  \/ /\ e \in [at : {"key", "context", "checks", "premiere", "readback"}, step : {"find", "edit"},
               conn : Conns, session : Conns \union {NoConn},
               project : {e.project}, target : {e.target}, did : {e.did}]
IsSequence(s) == s \in Seq({s[i] : i \in DOMAIN s})

CallType ==
  /\ call = [t \in Tools |-> call[t]]
  /\ \A t \in Tools : /\ IsCall(call[t])
                      /\ call[t].step \in {"idle", "locate", "find", "edit", "over"}
                      /\ call[t].op \in Operations \union {NoOp}
                      /\ call[t].handle \in AnyId
ExecType == exec = [t \in Tools |-> exec[t]] /\ \A t \in Tools : IsExec(exec[t])
WireType ==
  /\ up \in [Conns -> Seq(ToHost)] /\ down \in [Conns -> Seq(ToPanel)]
  /\ pending \in [Tools -> Conns \union {NoConn}]
  /\ {current, sock, session} \subseteq Conns \union {NoConn}

(***************************************************************************)
(* A call has one token: its command on the way to the panel, the panel at *)
(* work, or the response on its way back.                                  *)
(***************************************************************************)
Is(m, y, t)   == m.type = y /\ m.call = t
Has(q, y, t)  == \E i \in 1 .. Len(q) : Is(q[i], y, t)
Once(q, y, t) == \A i, j \in 1 .. Len(q) : Is(q[i], y, t) /\ Is(q[j], y, t) => i = j

Sent(k, t)     == Has(down[k], "command", t)
Answered(k, t) == Has(up[k], "response", t)
InPanel(t)     == exec[t].at # "none"
NoToken(t)     == ~InPanel(t) /\ \A k \in Conns : ~Sent(k, t) /\ ~Answered(k, t)

OneToken(t) ==
  /\ \A k \in Conns : Once(down[k], "command", t) /\ Once(up[k], "response", t)
  /\ \A k, l \in Conns :
       /\ Sent(k, t) /\ Sent(l, t) => k = l
       /\ Answered(k, t) /\ Answered(l, t) => k = l
       /\ ~(Sent(k, t) /\ Answered(l, t))
  /\ InPanel(t) => \A k \in Conns : ~Sent(k, t) /\ ~Answered(k, t)

(***************************************************************************)
(* What is known of a call where its token is                              *)
(***************************************************************************)

(* An id stands for what the call has found, or for nothing.               *)
Denotes(table, load, n, id, target) ==
  /\ id \in AnyId /\ id.load <= load /\ (id.load = load => id.n <= n)
  /\ \A i \in DOMAIN table : table[i].id = id =>
       [clip |-> table[i].clip, project |-> table[i].project] = target
Means(id, target) == Denotes(handles, loads, issued, id, target)

HandleTable ==
  /\ loads \in Nat \ {0} /\ issued \in Nat /\ IsSequence(handles)
  /\ \A i \in DOMAIN handles :
       /\ handles[i].id \in AnyId /\ handles[i].id.load = loads
       /\ handles[i].id.n > 0 /\ handles[i].id.n <= issued
       /\ handles[i].project # "none"

(* A command of a find step is of a call that has found nothing yet.       *)
Expected(c, s) ==
  /\ c.step \in {s, "over"}
  /\ s = "find" => c.handle = NoId /\ c.touched = NoTarget /\ c.op.handle # "none"

CommandState(c, m) == Expected(c, m.step) /\ c.touched = NoTarget

ExecState(c, e) ==
  /\ Expected(c, e.step)
  /\ e.at # "readback" => c.touched = NoTarget
  /\ e.at = "checks" => c.op.handle # "none" /\ e.project # "none"
  /\ e.at \in {"premiere", "readback"} => e.step = "edit"
  /\ e.at = "premiere" /\ c.op.handle # "none" => e.target = c.found
  /\ e.at = "premiere" /\ c.op.effect # "nothing" => e.target # NoTarget

ResponseState(c, m) == m.answer = "refused" /\ c.op.flagged => c.touched = NoTarget

CallState(c) ==
  /\ c.step \in {"idle", "locate", "find"} => c.handle = NoId /\ c.touched = NoTarget
  /\ c.step \in {"locate", "find"} => c.op.handle # "none"
  /\ c.status # "none" => c.step = "over"
  /\ c.status = "FAILED" /\ c.op.flagged => c.touched = NoTarget
  /\ c.touched # NoTarget /\ c.op.handle # "none" => c.touched = c.found

ToolState(t) ==
  /\ CallState(call[t])
  /\ pending[t] # NoConn => pending[t] = current /\ call[t].step \in {"find", "edit"}
  /\ call[t].step # "over" /\ pending[t] = NoConn => NoToken(t) /\ call[t].touched = NoTarget
  /\ call[t].status \in {"FAILED", "SUCCEEDED"} => NoToken(t)
  /\ OneToken(t)
  /\ Means(call[t].handle, call[t].found)
  /\ InPanel(t) => ExecState(call[t], exec[t])
  /\ \A k \in Conns :
       /\ \A i \in 1 .. Len(down[k]) :
            Is(down[k][i], "command", t) => CommandState(call[t], down[k][i])
       /\ \A i \in 1 .. Len(up[k]) :
            Is(up[k][i], "response", t) =>
              ResponseState(call[t], up[k][i]) /\ Means(up[k][i].handle, call[t].found)

BridgeInv ==
  CallType /\ ExecType /\ WireType /\ HandleTable /\ \A t \in Tools : ToolState(t)

(***************************************************************************)
(* Queues                                                                  *)
(***************************************************************************)

(* Queue p has no more messages of a kind for a call than q, and the same. *)
Fewer(p, q, y, t) ==
  /\ \A i \in 1 .. Len(p) : Is(p[i], y, t) => \E j \in 1 .. Len(q) : q[j] = p[i]
  /\ Once(q, y, t) => Once(p, y, t)

LEMMA FewerSame == ASSUME NEW q, NEW y, NEW t PROVE Fewer(q, q, y, t)
BY DEF Fewer

LEMMA FewerEmpty == ASSUME NEW q, NEW y, NEW t PROVE Fewer(<<>>, q, y, t)
BY EmptySeq DEF Fewer, Once

LEMMA TailQueue ==
  ASSUME NEW M, NEW q \in Seq(M), q # <<>>
  PROVE  /\ Tail(q) \in Seq(M) /\ Head(q) \in M
         /\ \E i \in 1 .. Len(q) : q[i] = Head(q)
         /\ \A y, t : /\ Fewer(Tail(q), q, y, t)
                      /\ Once(q, y, t) /\ Is(Head(q), y, t) => ~Has(Tail(q), y, t)
<1>1. /\ Tail(q) \in Seq(M) /\ Head(q) \in M /\ Head(q) = q[1]
      /\ Len(q) \in Nat \ {0} /\ Len(Tail(q)) = Len(q) - 1
      /\ \A i \in 1 .. Len(Tail(q)) : Tail(q)[i] = q[i + 1]
  BY HeadTailProperties, LenProperties, EmptySeq
<1>2. ASSUME NEW i \in 1 .. Len(Tail(q))
      PROVE  i + 1 \in 1 .. Len(q) /\ i + 1 # 1 /\ Tail(q)[i] = q[i + 1]
  BY <1>1
<1>3. 1 \in 1 .. Len(q)
  BY <1>1
<1>4. ASSUME NEW y, NEW t PROVE Fewer(Tail(q), q, y, t)
  <2>1. ASSUME Once(q, y, t), NEW i \in 1 .. Len(Tail(q)), NEW j \in 1 .. Len(Tail(q)),
               Is(Tail(q)[i], y, t), Is(Tail(q)[j], y, t)
        PROVE  i = j
    <3>1. i + 1 = j + 1
      BY <1>2, <2>1 DEF Once
    <3> QED BY <3>1, <1>1
  <2> QED BY <1>2, <2>1 DEF Fewer, Once
<1>5. ASSUME NEW y, NEW t, Once(q, y, t), Is(Head(q), y, t) PROVE ~Has(Tail(q), y, t)
  BY <1>1, <1>2, <1>3, <1>5 DEF Once, Has
<1> QED BY <1>1, <1>3, <1>4, <1>5

LEMMA AppendQueue ==
  ASSUME NEW M, NEW q \in Seq(M), NEW m \in M
  PROVE  /\ Append(q, m) \in Seq(M)
         /\ \A y, t :
              /\ ~Is(m, y, t) => Fewer(Append(q, m), q, y, t)
              /\ Is(m, y, t) /\ ~Has(q, y, t) =>
                   /\ Once(Append(q, m), y, t)
                   /\ \A i \in 1 .. Len(Append(q, m)) :
                        Is(Append(q, m)[i], y, t) => Append(q, m)[i] = m
<1> DEFINE p == Append(q, m)
<1>1. /\ p \in Seq(M) /\ Len(q) \in Nat /\ Len(p) = Len(q) + 1
      /\ \A i \in 1 .. Len(q) : p[i] = q[i]
      /\ p[Len(q) + 1] = m
  BY AppendProperties, LenProperties
<1> HIDE DEF p
<1>2. \A i \in 1 .. Len(p) : (i \in 1 .. Len(q) /\ p[i] = q[i]) \/ (i = Len(q) + 1 /\ p[i] = m)
  BY <1>1
<1>3. \A y, t : ~Is(m, y, t) => Fewer(p, q, y, t)
  BY <1>2 DEF Fewer, Once
<1>4. \A y, t : Is(m, y, t) /\ ~Has(q, y, t) =>
        Once(p, y, t) /\ \A i \in 1 .. Len(p) : Is(p[i], y, t) => p[i] = m
  BY <1>2 DEF Once, Has
<1> QED BY <1>1, <1>3, <1>4 DEF p

(* The queues of all connections, when a message is put in the one of k,   *)
(* taken from it, or when all of its messages are lost.                    *)
LEMMA Puts ==
  ASSUME NEW M, NEW f \in [Conns -> Seq(M)], NEW k \in Conns, NEW m \in M
  PROVE  LET g == [f EXCEPT ![k] = Append(@, m)] IN
         /\ g \in [Conns -> Seq(M)]
         /\ \A y, t : ~Is(m, y, t) => \A l \in Conns : Fewer(g[l], f[l], y, t)
         /\ \A y, t : Is(m, y, t) /\ (\A l \in Conns : ~Has(f[l], y, t)) =>
              \A l \in Conns : /\ Once(g[l], y, t)
                               /\ Has(g[l], y, t) => l = k
                               /\ \A i \in 1 .. Len(g[l]) : Is(g[l][i], y, t) => g[l][i] = m
<1> DEFINE g == [f EXCEPT ![k] = Append(@, m)]
<1>1. /\ g \in [Conns -> Seq(M)] /\ g[k] = Append(f[k], m)
      /\ \A l \in Conns \ {k} : g[l] = f[l]
  BY AppendQueue
<1> HIDE DEF g
<1>2. \A y, t : /\ ~Is(m, y, t) => Fewer(g[k], f[k], y, t)
                /\ Is(m, y, t) /\ ~Has(f[k], y, t) =>
                     /\ Once(g[k], y, t)
                     /\ \A i \in 1 .. Len(g[k]) : Is(g[k][i], y, t) => g[k][i] = m
  BY <1>1, AppendQueue
<1>3. \A y, t : ~Is(m, y, t) => \A l \in Conns : Fewer(g[l], f[l], y, t)
  BY <1>1, <1>2, FewerSame
<1>4. ASSUME NEW y, NEW t, Is(m, y, t), \A l \in Conns : ~Has(f[l], y, t), NEW l \in Conns
      PROVE  /\ Once(g[l], y, t)
             /\ Has(g[l], y, t) => l = k
             /\ \A i \in 1 .. Len(g[l]) : Is(g[l][i], y, t) => g[l][i] = m
  <2>1. CASE l = k
    BY <1>2, <1>4, <2>1
  <2>2. CASE l # k
    BY <1>1, <1>4, <2>2 DEF Has, Once
  <2> QED BY <2>1, <2>2
<1> QED BY <1>1, <1>3, <1>4 DEF g

(* The same, named, for the queues of one direction.                       *)
Queues(f, M)       == f \in [Conns -> Seq(M)]
PutIn(f, g, k, m)  == g = [f EXCEPT ![k] = Append(@, m)]
NoneAdded(f, g, y) == \A t, l : l \in Conns => Fewer(g[l], f[l], y, t)

(* A message that is no token of any call adds none.                       *)
LEMMA PutsOther ==
  ASSUME NEW M, NEW f, Queues(f, M), NEW k \in Conns, NEW m \in M, NEW y,
         \A t : ~Is(m, y, t), NEW g, PutIn(f, g, k, m)
  PROVE  Queues(g, M) /\ NoneAdded(f, g, y)
<1>1. /\ g \in [Conns -> Seq(M)]
      /\ \A z, t : ~Is(m, z, t) => \A l \in Conns : Fewer(g[l], f[l], z, t)
  BY Puts DEF Queues, PutIn
<1>2. ASSUME NEW t, NEW l \in Conns PROVE Fewer(g[l], f[l], y, t)
  BY <1>1
<1> QED BY <1>1, <1>2 DEF Queues, NoneAdded

LEMMA Pulls ==
  ASSUME NEW M, NEW f \in [Conns -> Seq(M)], NEW k \in Conns, f[k] # <<>>
  PROVE  LET g == [f EXCEPT ![k] = Tail(@)] IN
         /\ g \in [Conns -> Seq(M)]
         /\ Head(f[k]) \in M /\ \E i \in 1 .. Len(f[k]) : f[k][i] = Head(f[k])
         /\ \A y, t, l : l \in Conns => Fewer(g[l], f[l], y, t)
         /\ \A y, t : /\ Is(Head(f[k]), y, t) /\ Once(f[k], y, t)
                      /\ \A l \in Conns : Has(f[l], y, t) => l = k
                      => \A l \in Conns : ~Has(g[l], y, t)
<1> DEFINE g == [f EXCEPT ![k] = Tail(@)]
<1>1. /\ Tail(f[k]) \in Seq(M) /\ Head(f[k]) \in M
      /\ \E i \in 1 .. Len(f[k]) : f[k][i] = Head(f[k])
      /\ \A y, t : /\ Fewer(Tail(f[k]), f[k], y, t)
                   /\ Once(f[k], y, t) /\ Is(Head(f[k]), y, t) => ~Has(Tail(f[k]), y, t)
  BY TailQueue
<1>2. /\ g \in [Conns -> Seq(M)] /\ g[k] = Tail(f[k])
      /\ \A l \in Conns \ {k} : g[l] = f[l]
  BY <1>1
<1> HIDE DEF g
<1>3. \A y, t, l : l \in Conns => Fewer(g[l], f[l], y, t)
  BY <1>1, <1>2, FewerSame
<1>4. \A y, t : /\ Is(Head(f[k]), y, t) /\ Once(f[k], y, t)
                /\ \A l \in Conns : Has(f[l], y, t) => l = k
                => \A l \in Conns : ~Has(g[l], y, t)
  BY <1>1, <1>2
<1> QED BY <1>1, <1>2, <1>3, <1>4 DEF g

LEMMA Empties ==
  ASSUME NEW M, NEW f \in [Conns -> Seq(M)], NEW k \in Conns
  PROVE  LET g == [f EXCEPT ![k] = <<>>] IN
         /\ g \in [Conns -> Seq(M)]
         /\ \A y, t, l : l \in Conns => Fewer(g[l], f[l], y, t)
<1> DEFINE g == [f EXCEPT ![k] = <<>>]
<1>1. <<>> \in Seq(M)
  BY EmptySeq
<1>2. /\ g \in [Conns -> Seq(M)] /\ g[k] = <<>>
      /\ \A l \in Conns \ {k} : g[l] = f[l]
  BY <1>1
<1> HIDE DEF g
<1> QED BY <1>2, FewerSame, FewerEmpty DEF g

(***************************************************************************)
(* What stays                                                              *)
(***************************************************************************)
MeansKept == \A id, target : Means(id, target) => Denotes(handles', loads', issued', id, target)

LEMMA TableSame ==
  ASSUME HandleTable, UNCHANGED <<handles, issued, loads>>
  PROVE  HandleTable' /\ MeansKept
BY DEF HandleTable, MeansKept, Means, Denotes

(* A call that is left alone, or given up with an unknown outcome.         *)
LeftAlone(t) ==
  /\ call'[t] = call[t] /\ pending'[t] = pending[t]
  /\ pending'[t] # NoConn => current' = current
GivenUp(t) ==
  /\ call'[t] = [call[t] EXCEPT !.step = "over", !.status = "UNKNOWN"]
  /\ pending'[t] = NoConn

(* What holds of a call, other than of its token.                          *)
FieldsKept(t) ==
  /\ call'[t].op = call[t].op /\ call'[t].handle = call[t].handle
  /\ call'[t].found = call[t].found /\ call'[t].touched = call[t].touched
  /\ \/ /\ call'[t].step = call[t].step /\ call'[t].status = call[t].status
        /\ pending'[t] = pending[t] /\ (pending'[t] # NoConn => current' = current)
     \/ /\ call'[t].step = "over" /\ call'[t].status = "UNKNOWN"
        /\ pending'[t] = NoConn

LEMMA AloneKept ==
  ASSUME CallType, NEW t \in Tools, LeftAlone(t) \/ GivenUp(t)
  PROVE  FieldsKept(t) /\ IsCall(call'[t])
<1>1. IsCall(call[t])
  BY DEF CallType
<1>2. CASE LeftAlone(t)
  BY <1>1, <1>2 DEF LeftAlone, FieldsKept
<1>3. CASE GivenUp(t)
  <2>1. call'[t] = [call[t] EXCEPT !.step = "over", !.status = "UNKNOWN"]
    BY <1>3 DEF GivenUp
  <2>2. /\ IsCall(call'[t]) /\ call'[t].step = "over" /\ call'[t].status = "UNKNOWN"
        /\ call'[t].op = call[t].op /\ call'[t].handle = call[t].handle
        /\ call'[t].found = call[t].found /\ call'[t].touched = call[t].touched
    BY <1>1, <2>1 DEF IsCall
  <2> QED BY <1>3, <2>2 DEF GivenUp, FieldsKept
<1> QED BY <1>2, <1>3

WireKept(t) == \A k \in Conns : /\ Fewer(down'[k], down[k], "command", t)
                                /\ Fewer(up'[k], up[k], "response", t)

LEMMA WireKeptTokens ==
  ASSUME NEW t \in Tools, WireKept(t)
  PROVE  /\ \A k \in Conns : /\ Sent(k, t)' => Sent(k, t)
                             /\ Answered(k, t)' => Answered(k, t)
         /\ (\A k \in Conns : Once(down[k], "command", t) /\ Once(up[k], "response", t))
              => (\A k \in Conns : Once(down'[k], "command", t) /\ Once(up'[k], "response", t))
<1>1. ASSUME NEW p, NEW q, NEW y, Fewer(p, q, y, t) PROVE Has(p, y, t) => Has(q, y, t)
  BY <1>1 DEF Fewer, Has
<1>2. \A k \in Conns : /\ Has(down'[k], "command", t) => Has(down[k], "command", t)
                       /\ Has(up'[k], "response", t) => Has(up[k], "response", t)
  BY <1>1 DEF WireKept
<1> QED BY <1>2 DEF WireKept, Fewer, Sent, Answered

LEMMA ToolKept ==
  ASSUME NEW t \in Tools, ToolState(t), FieldsKept(t), MeansKept, WireKept(t),
         exec'[t] = exec[t] \/ exec'[t] = NotAsked
  PROVE  ToolState(t)'
<1>1. /\ \A k \in Conns : (Sent(k, t)' => Sent(k, t)) /\ (Answered(k, t)' => Answered(k, t))
      /\ (\A k \in Conns : Once(down[k], "command", t) /\ Once(up[k], "response", t))
           => (\A k \in Conns : Once(down'[k], "command", t) /\ Once(up'[k], "response", t))
  BY WireKeptTokens
<1>2. /\ InPanel(t)' => InPanel(t) /\ exec'[t] = exec[t]
      /\ NoToken(t) => NoToken(t)'
  BY <1>1 DEF InPanel, NoToken, NotAsked
<1>3. OneToken(t)'
  BY <1>1, <1>2 DEF ToolState, OneToken
<1>4. CallState(call[t])'
  BY DEF ToolState, CallState, FieldsKept
<1>5. /\ (pending[t] # NoConn => pending[t] = current /\ call[t].step \in {"find", "edit"})'
      /\ (call[t].step # "over" /\ pending[t] = NoConn => NoToken(t) /\ call[t].touched = NoTarget)'
      /\ (call[t].status \in {"FAILED", "SUCCEEDED"} => NoToken(t))'
  BY <1>2 DEF ToolState, FieldsKept
<1>6. Means(call[t].handle, call[t].found)'
  <2>1. Means(call[t].handle, call[t].found)
    BY DEF ToolState
  <2> DEFINE id == call[t].handle
             target == call[t].found
  <2>2. call'[t].handle = call[t].handle /\ call'[t].found = call[t].found
    BY DEF FieldsKept
  <2> QED BY <2>1, <2>2 DEF MeansKept, Means
<1>7. (InPanel(t) => ExecState(call[t], exec[t]))'
  BY <1>2 DEF ToolState, FieldsKept, ExecState, Expected
<1>8. ASSUME NEW k \in Conns
      PROVE  /\ \A i \in 1 .. Len(down'[k]) :
                  Is(down'[k][i], "command", t) => CommandState(call'[t], down'[k][i])
             /\ \A i \in 1 .. Len(up'[k]) :
                  Is(up'[k][i], "response", t) =>
                    ResponseState(call'[t], up'[k][i]) /\ Means(up[k][i].handle, call[t].found)'
  <2>1. ASSUME NEW m, CommandState(call[t], m) PROVE CommandState(call'[t], m)
    BY <2>1 DEF CommandState, Expected, FieldsKept
  <2>2. ASSUME NEW m, ResponseState(call[t], m) PROVE ResponseState(call'[t], m)
    BY <2>2 DEF ResponseState, FieldsKept
  <2>3. ASSUME NEW i \in 1 .. Len(down'[k]), Is(down'[k][i], "command", t)
        PROVE  CommandState(call'[t], down'[k][i])
    BY <2>1, <2>3 DEF WireKept, Fewer, ToolState
  <2>4. ASSUME NEW i \in 1 .. Len(up'[k]), Is(up'[k][i], "response", t)
        PROVE  ResponseState(call'[t], up'[k][i]) /\ Means(up[k][i].handle, call[t].found)'
    <3>1. PICK j \in 1 .. Len(up[k]) : up[k][j] = up'[k][i]
      BY <2>4 DEF WireKept, Fewer
    <3>2. ResponseState(call[t], up'[k][i]) /\ Means(up'[k][i].handle, call[t].found)
      BY <3>1, <2>4 DEF ToolState
    <3>3. call'[t].found = call[t].found
      BY DEF FieldsKept
    <3> QED BY <3>2, <3>3, <2>2 DEF MeansKept, Means
  <2> QED BY <2>3, <2>4
<1> QED BY <1>3, <1>4, <1>5, <1>6, <1>7, <1>8 DEF ToolState

(* Steps in which no call but those that are given up is touched.          *)
LEMMA Quietly ==
  ASSUME BridgeInv, CallType', ExecType', WireType', HandleTable', MeansKept,
         \A t \in Tools : LeftAlone(t) \/ GivenUp(t),
         \A t \in Tools : WireKept(t) /\ (exec'[t] = exec[t] \/ exec'[t] = NotAsked)
  PROVE  BridgeInv'
<1>1. ASSUME NEW t \in Tools PROVE ToolState(t)'
  <2>1. ToolState(t) /\ FieldsKept(t)
    BY AloneKept DEF BridgeInv
  <2> QED BY <2>1, ToolKept
<1> QED BY <1>1 DEF BridgeInv

LEMMA WireSame == ASSUME UNCHANGED <<up, down>> PROVE \A t \in Tools : WireKept(t)
BY FewerSame DEF WireKept

LEMMA Untouched ==
  ASSUME UNCHANGED <<call, pending, current>>
  PROVE  /\ \A t \in Tools : LeftAlone(t)
         /\ CallType => CallType'
BY DEF LeftAlone, CallType

LEMMA SameExec == ASSUME ExecType, exec' = exec PROVE ExecType'
BY DEF ExecType

(* The panel's connections come and go, or the user edits.                 *)
LEMMA SocketStep ==
  ASSUME BridgeInv, UNCHANGED <<call, current, pending, up, down, exec, handles, issued, loads>>,
         sock' \in Conns \union {NoConn}, session' \in Conns \union {NoConn}
  PROVE  BridgeInv'
<1>1. CallType' /\ \A t \in Tools : LeftAlone(t)
  BY Untouched DEF BridgeInv
<1>2. ExecType'
  BY SameExec DEF BridgeInv
<1>3. WireType'
  BY DEF BridgeInv, WireType
<1>4. HandleTable' /\ MeansKept
  BY TableSame DEF BridgeInv
<1> QED BY <1>1, <1>2, <1>3, <1>4, WireSame, Quietly

LEMMA ConnectSocket ==
  ASSUME BridgeInv, NEW s, NEW known, Connect(s, known)
  PROVE  sock' \in Conns \union {NoConn}
BY DEF Connect, BridgeInv, WireType

LEMMA SocketSteps ==
  ASSUME BridgeInv,
         \/ Click \/ TimerFires \/ Reconnect \/ IdentityRead \/ IdentityFails \/ UserEdits
         \/ UNCHANGED vars
  PROVE  BridgeInv'
<1>0. {sock, session} \subseteq Conns \union {NoConn}
  BY DEF BridgeInv, WireType
<1>1. sock' \in Conns \union {NoConn} /\ session' \in Conns \union {NoConn}
  BY <1>0, ConnectSocket DEF Click, TimerFires, Reconnect, IdentityRead, IdentityFails, UserEdits,
       vars, panel, socket
<1>2. UNCHANGED <<call, current, pending, up, down, exec, handles, issued, loads>>
  BY DEF Click, TimerFires, Reconnect, IdentityRead, IdentityFails, UserEdits, vars, panel, host, wire
<1> QED BY <1>1, <1>2, SocketStep

(* A message that is not about a call is put on the wire or taken off it,  *)
(* or a link drops.                                                        *)
LEMMA WireStep ==
  ASSUME BridgeInv, UNCHANGED <<call, current, pending, exec, handles, issued, loads>>,
         sock' \in Conns \union {NoConn}, session' \in Conns \union {NoConn},
         up' \in [Conns -> Seq(ToHost)], down' \in [Conns -> Seq(ToPanel)],
         \A t \in Tools : WireKept(t)
  PROVE  BridgeInv'
<1>1. CallType' /\ \A t \in Tools : LeftAlone(t)
  BY Untouched DEF BridgeInv
<1>2. ExecType'
  BY SameExec DEF BridgeInv
<1>3. WireType'
  BY DEF BridgeInv, WireType
<1>4. HandleTable' /\ MeansKept
  BY TableSame DEF BridgeInv
<1> QED BY <1>1, <1>2, <1>3, <1>4, Quietly

LEMMA OpensKeeps == ASSUME BridgeInv, NEW k \in Conns, Opens(k) PROVE BridgeInv'
<1> DEFINE m == [type |-> "hello"]
<1>0. /\ up \in [Conns -> Seq(ToHost)] /\ down \in [Conns -> Seq(ToPanel)]
      /\ {sock, session} \subseteq Conns \union {NoConn}
  BY DEF BridgeInv, WireType
<1>1. m \in ToHost /\ \A t : ~Is(m, "response", t)
  BY DEF ToHost, Is
<1> HIDE DEF m
<1>2. CASE up' = [up EXCEPT ![k] = Append(@, m)]
  <2>1. Queues(up, ToHost) /\ PutIn(up, up', k, m)
    BY <1>0, <1>2 DEF Queues, PutIn
  <2>2. Queues(up', ToHost) /\ NoneAdded(up, up', "response")
    BY <1>1, <2>1, PutsOther
  <2>3. \A t \in Tools : WireKept(t)
    BY <2>2, FewerSame DEF WireKept, NoneAdded, Opens
  <2> QED BY <1>0, <2>2, <2>3, WireStep DEF Opens, Queues
<1>3. CASE up' = up
  BY <1>0, <1>3, SocketStep DEF Opens
<1> QED BY <1>2, <1>3 DEF Opens, m

LEMMA DropsKeeps == ASSUME BridgeInv, NEW k \in Conns, Drops(k) PROVE BridgeInv'
<1>0. /\ up \in [Conns -> Seq(ToHost)] /\ down \in [Conns -> Seq(ToPanel)]
      /\ {sock, session} \subseteq Conns \union {NoConn}
  BY DEF BridgeInv, WireType
<1>1. up' = [up EXCEPT ![k] = <<>>] /\ down' = [down EXCEPT ![k] = <<>>]
  BY DEF Drops
<1>2. up' \in [Conns -> Seq(ToHost)] /\ down' \in [Conns -> Seq(ToPanel)]
  BY <1>0, <1>1, Empties
<1>3. \A t \in Tools : WireKept(t)
  BY <1>0, <1>1, Empties DEF WireKept
<1> QED BY <1>0, <1>2, <1>3, WireStep DEF Drops

LEMMA HandleHelloKeeps == ASSUME BridgeInv, NEW k \in Conns, HandleHello(k) PROVE BridgeInv'
<1> DEFINE m == [type |-> "challenge"]
<1>0. /\ up \in [Conns -> Seq(ToHost)] /\ down \in [Conns -> Seq(ToPanel)]
      /\ {sock, session} \subseteq Conns \union {NoConn}
  BY DEF BridgeInv, WireType
<1>1. m \in ToPanel /\ \A t : ~Is(m, "command", t)
  BY DEF ToPanel, Is
<1>2. /\ up[k] # <<>> /\ up' = [up EXCEPT ![k] = Tail(@)]
      /\ down' = [down EXCEPT ![k] = Append(@, m)]
      /\ UNCHANGED <<call, current, pending, sock, session, exec, handles, issued, loads>>
  BY DEF HandleHello, FromPanel, host, panel, socket
<1> HIDE DEF m
<1>3. /\ up' \in [Conns -> Seq(ToHost)]
      /\ \A y, t, l : l \in Conns => Fewer(up'[l], up[l], y, t)
  BY <1>0, <1>2, Pulls
<1>4. /\ down' \in [Conns -> Seq(ToPanel)]
      /\ \A t, l : l \in Conns => Fewer(down'[l], down[l], "command", t)
  <2>1. Queues(down, ToPanel) /\ PutIn(down, down', k, m)
    BY <1>0, <1>2 DEF Queues, PutIn
  <2>2. Queues(down', ToPanel) /\ NoneAdded(down, down', "command")
    BY <1>1, <2>1, PutsOther
  <2> QED BY <2>2 DEF Queues, NoneAdded
<1> QED BY <1>0, <1>2, <1>3, <1>4, WireStep DEF WireKept

LEMMA TakeChallengeKeeps == ASSUME BridgeInv, NEW k \in Conns, TakeChallenge(k) PROVE BridgeInv'
<1> DEFINE m == [type |-> "connect"]
<1>0. /\ up \in [Conns -> Seq(ToHost)] /\ down \in [Conns -> Seq(ToPanel)]
      /\ {sock, session} \subseteq Conns \union {NoConn}
  BY DEF BridgeInv, WireType
<1>1. m \in ToHost /\ \A t : ~Is(m, "response", t)
  BY DEF ToHost, Is
<1>2. /\ down[k] # <<>> /\ down' = [down EXCEPT ![k] = Tail(@)]
      /\ (up' = [up EXCEPT ![k] = Append(@, m)]) \/ up' = up
      /\ UNCHANGED <<call, current, pending, sock, session, exec, handles, issued, loads>>
  BY DEF TakeChallenge, FromHost, host, panel, socket
<1> HIDE DEF m
<1>3. /\ down' \in [Conns -> Seq(ToPanel)]
      /\ \A y, t, l : l \in Conns => Fewer(down'[l], down[l], y, t)
  BY <1>0, <1>2, Pulls
<1>4. /\ up' \in [Conns -> Seq(ToHost)]
      /\ \A t, l : l \in Conns => Fewer(up'[l], up[l], "response", t)
  <2>1. CASE up' = up
    BY <1>0, <2>1, FewerSame
  <2>2. CASE up' = [up EXCEPT ![k] = Append(@, m)]
    <3>1. Queues(up, ToHost) /\ PutIn(up, up', k, m)
      BY <1>0, <2>2 DEF Queues, PutIn
    <3>2. Queues(up', ToHost) /\ NoneAdded(up, up', "response")
      BY <1>1, <3>1, PutsOther
    <3> QED BY <3>2 DEF Queues, NoneAdded
  <2> QED BY <1>2, <2>1, <2>2
<1> QED BY <1>0, <1>2, <1>3, <1>4, WireStep DEF WireKept

LEMMA TakeConnectedKeeps == ASSUME BridgeInv, NEW k \in Conns, TakeConnected(k) PROVE BridgeInv'
<1>0. /\ up \in [Conns -> Seq(ToHost)] /\ down \in [Conns -> Seq(ToPanel)]
      /\ {sock, session} \subseteq Conns \union {NoConn}
  BY DEF BridgeInv, WireType
<1>1. /\ down[k] # <<>> /\ down' = [down EXCEPT ![k] = Tail(@)] /\ up' = up
      /\ UNCHANGED <<call, current, pending, sock, exec, handles, issued, loads>>
      /\ session' \in {k, session}
  BY DEF TakeConnected, FromHost, host
<1>2. /\ down' \in [Conns -> Seq(ToPanel)]
      /\ \A y, t, l : l \in Conns => Fewer(down'[l], down[l], y, t)
  BY <1>0, <1>1, Pulls
<1>3. \A t \in Tools : WireKept(t)
  BY <1>1, <1>2, FewerSame DEF WireKept
<1>4. sock' \in Conns \union {NoConn} /\ session' \in Conns \union {NoConn}
  BY <1>0, <1>1
<1> QED BY <1>0, <1>1, <1>2, <1>3, <1>4, WireStep

(* The panel closes, is reloaded, or gives a command up: the calls stay as *)
(* they are, and no handle comes to mean anything else.                    *)
LEMMA PanelStep ==
  ASSUME BridgeInv, UNCHANGED <<call, current, pending, up, down>>,
         sock' \in Conns \union {NoConn}, session' \in Conns \union {NoConn},
         exec' = [t \in Tools |-> exec'[t]], HandleTable', MeansKept,
         \A t \in Tools : exec'[t] = exec[t] \/ exec'[t] = NotAsked
  PROVE  BridgeInv'
<1>1. CallType' /\ \A t \in Tools : LeftAlone(t)
  BY Untouched DEF BridgeInv
<1>2. ExecType'
  BY DEF BridgeInv, ExecType, IsExec
<1>3. WireType'
  BY DEF BridgeInv, WireType
<1> QED BY <1>1, <1>2, <1>3, WireSame, Quietly

LEMMA TableEmpty ==
  ASSUME HandleTable, handles' = <<>>,
         \/ UNCHANGED <<issued, loads>>
         \/ issued' = 0 /\ loads' = loads + 1
  PROVE  HandleTable' /\ MeansKept
<1>1. DOMAIN handles' = {}
  OBVIOUS
<1>2. IsSequence(handles')
  BY EmptySeq DEF IsSequence
<1>3. loads \in Nat \ {0} /\ issued \in Nat /\ loads' \in Nat \ {0} /\ issued' \in Nat
  BY DEF HandleTable
<1>4. HandleTable'
  BY <1>1, <1>2, <1>3 DEF HandleTable
<1>5. ASSUME NEW id, NEW target, Means(id, target)
      PROVE  Denotes(handles', loads', issued', id, target)
  <2>1. id \in AnyId /\ id.load <= loads /\ (id.load = loads => id.n <= issued)
    BY <1>5 DEF Means, Denotes
  <2>2. id.load \in Nat
    BY <2>1 DEF AnyId
  <2>3. id.load <= loads' /\ (id.load = loads' => id.n <= issued')
    BY <1>3, <2>1, <2>2
  <2> QED BY <1>1, <2>1, <2>3 DEF Denotes
<1> QED BY <1>4, <1>5 DEF MeansKept

LEMMA PanelClosesKeeps == ASSUME BridgeInv, NEW k \in Conns, PanelCloses(k) PROVE BridgeInv'
<1>0. {sock, session} \subseteq Conns \union {NoConn} /\ HandleTable /\ ExecType
  BY DEF BridgeInv, WireType
<1>1. /\ UNCHANGED <<call, current, pending, up, down, exec, sock, issued, loads>>
      /\ session' \in {NoConn, session}
      /\ handles' = <<>> \/ handles' = handles
  BY DEF PanelCloses, host, wire
<1>2. HandleTable' /\ MeansKept
  BY <1>0, <1>1, TableSame, TableEmpty
<1>3. exec' = [t \in Tools |-> exec'[t]]
  BY <1>0, <1>1 DEF ExecType
<1> QED BY <1>0, <1>1, <1>2, <1>3, PanelStep

LEMMA ReloadsKeeps == ASSUME BridgeInv, Reloads PROVE BridgeInv'
<1>1. /\ UNCHANGED <<call, current, pending, up, down>>
      /\ sock' = NoConn /\ session' = NoConn
      /\ exec' = [t \in Tools |-> NotAsked]
      /\ handles' = <<>> /\ issued' = 0 /\ loads' = loads + 1
  BY DEF Reloads, host, wire
<1>2. HandleTable' /\ MeansKept
  BY <1>1, TableEmpty DEF BridgeInv
<1> QED BY <1>1, <1>2, PanelStep

LEMMA KeyFailsKeeps == ASSUME BridgeInv, NEW t \in Tools, KeyFails(t) PROVE BridgeInv'
<1>0. {sock, session} \subseteq Conns \union {NoConn} /\ HandleTable /\ ExecType
  BY DEF BridgeInv, WireType
<1>1. /\ UNCHANGED <<call, current, pending, up, down, sock, session, handles, issued, loads>>
      /\ exec' = [exec EXCEPT ![t] = NotAsked]
  BY DEF KeyFails, host, wire
<1>2. exec' = [u \in Tools |-> exec'[u]] /\ \A u \in Tools : exec'[u] = exec[u] \/ exec'[u] = NotAsked
  BY <1>0, <1>1 DEF ExecType
<1>3. HandleTable' /\ MeansKept
  BY <1>0, <1>1, TableSame
<1> QED BY <1>0, <1>1, <1>2, <1>3, PanelStep

(***************************************************************************)
(* The host gives calls up                                                 *)
(***************************************************************************)
LEMMA SettledUnknown ==
  ASSUME CallType, NEW T \in SUBSET Tools, NEW code, code # "ok", Status(code) = "UNKNOWN",
         call' = Settled(T, code, NoId),
         \A t \in Tools : /\ t \in T => pending'[t] = NoConn
                          /\ t \notin T => LeftAlone(t)
  PROVE  CallType' /\ \A t \in Tools : LeftAlone(t) \/ GivenUp(t)
<1>1. ASSUME NEW t \in Tools PROVE LeftAlone(t) \/ GivenUp(t)
  BY <1>1 DEF Settled, GivenUp
<1>2. ASSUME NEW t \in Tools
      PROVE  /\ IsCall(call'[t]) /\ call'[t].step \in {"idle", "locate", "find", "edit", "over"}
             /\ call'[t].op \in Operations \union {NoOp} /\ call'[t].handle \in AnyId
  BY <1>1, AloneKept DEF FieldsKept, CallType
<1>3. call' = [t \in Tools |-> call'[t]]
  BY DEF Settled
<1> QED BY <1>1, <1>2, <1>3 DEF CallType

(* The host's side of a connection, without a response in it.              *)
LEMMA HostStep ==
  ASSUME BridgeInv, CallType', \A t \in Tools : LeftAlone(t) \/ GivenUp(t),
         pending' \in [Tools -> Conns \union {NoConn}], current' \in Conns \union {NoConn},
         up' \in [Conns -> Seq(ToHost)], down' \in [Conns -> Seq(ToPanel)],
         \A t \in Tools : WireKept(t),
         UNCHANGED <<exec, sock, session, handles, issued, loads>>
  PROVE  BridgeInv'
<1>2. ExecType'
  BY SameExec DEF BridgeInv
<1>3. WireType'
  BY DEF BridgeInv, WireType
<1>4. HandleTable' /\ MeansKept
  BY TableSame DEF BridgeInv
<1> QED BY <1>2, <1>3, <1>4, Quietly

LEMMA TimesOutKeeps == ASSUME BridgeInv, NEW t \in Tools, TimesOut(t) PROVE BridgeInv'
<1>0. CallType /\ WireType
  BY DEF BridgeInv
<1>1. /\ pending' = [pending EXCEPT ![t] = NoConn] /\ call' = Settled({t}, "UXP_TIMEOUT", NoId)
      /\ UNCHANGED <<current, up, down, exec, sock, session, handles, issued, loads>>
  BY DEF TimesOut, wire, panel, socket
<1>2. Status("UXP_TIMEOUT") = "UNKNOWN"
  BY DEF Status
<1>3. \A u \in Tools : /\ u \in {t} => pending'[u] = NoConn
                       /\ u \notin {t} => LeftAlone(u)
  BY <1>0, <1>1 DEF WireType, LeftAlone, Settled
<1>4. CallType' /\ \A u \in Tools : LeftAlone(u) \/ GivenUp(u)
  BY <1>0, <1>1, <1>2, <1>3, SettledUnknown
<1>5. /\ pending' \in [Tools -> Conns \union {NoConn}] /\ current' \in Conns \union {NoConn}
      /\ up' \in [Conns -> Seq(ToHost)] /\ down' \in [Conns -> Seq(ToPanel)]
  BY <1>0, <1>1 DEF WireType
<1> QED BY <1>1, <1>4, <1>5, WireSame, HostStep

(* When the host's connection ends, or is replaced, everything that is     *)
(* pending is settled.                                                     *)
LEMMA SettlesAll ==
  ASSUME BridgeInv, NEW code, code \in {"UXP_REPLACED", "UXP_DISCONNECTED"}, current # NoConn,
         SettlePendingForSocket(current, code)
  PROVE  /\ CallType' /\ \A t \in Tools : LeftAlone(t) \/ GivenUp(t)
         /\ pending' \in [Tools -> Conns \union {NoConn}]
<1>0. CallType /\ WireType /\ \A t \in Tools : pending[t] # NoConn => pending[t] = current
  BY DEF BridgeInv, ToolState
<1>1. Status(code) = "UNKNOWN" /\ code # "ok"
  BY DEF Status
<1>2. /\ call' = Settled(PendingFor(current), code, NoId)
      /\ pending' = [t \in Tools |-> IF pending[t] = current THEN NoConn ELSE pending[t]]
  BY DEF SettlePendingForSocket
<1>3. \A t \in Tools : pending'[t] = NoConn
  BY <1>0, <1>2
<1>4. \A t \in Tools : t \notin PendingFor(current) => LeftAlone(t)
  BY <1>0, <1>2, <1>3 DEF LeftAlone, Settled, PendingFor
<1>5. PendingFor(current) \in SUBSET Tools
  BY DEF PendingFor
<1>6. CallType' /\ \A t \in Tools : LeftAlone(t) \/ GivenUp(t)
  BY <1>0, <1>1, <1>2, <1>3, <1>4, <1>5, SettledUnknown
<1>7. pending' \in [Tools -> Conns \union {NoConn}]
  BY <1>2, <1>3
<1> QED BY <1>6, <1>7

LEMMA HostClosesKeeps == ASSUME BridgeInv, NEW k \in Conns, HostCloses(k) PROVE BridgeInv'
<1>0. WireType
  BY DEF BridgeInv
<1>1. UNCHANGED <<up, down, exec, sock, session, handles, issued, loads>>
  BY DEF HostCloses, wire, panel, socket
<1>2. CASE current = k
  <2>1. current # NoConn /\ SettlePendingForSocket(current, "UXP_DISCONNECTED") /\ current' = NoConn
    BY <1>2 DEF HostCloses, Conns, NoConn
  <2>2. /\ CallType' /\ \A t \in Tools : LeftAlone(t) \/ GivenUp(t)
        /\ pending' \in [Tools -> Conns \union {NoConn}]
    BY <2>1, SettlesAll
  <2>3. up' \in [Conns -> Seq(ToHost)] /\ down' \in [Conns -> Seq(ToPanel)]
    BY <1>0, <1>1 DEF WireType
  <2> QED BY <1>1, <2>1, <2>2, <2>3, WireSame, HostStep
<1>3. CASE current # k
  <2>1. UNCHANGED <<call, current, pending>>
    BY <1>3 DEF HostCloses
  <2>2. sock' \in Conns \union {NoConn} /\ session' \in Conns \union {NoConn}
    BY <1>0, <1>1 DEF WireType
  <2> QED BY <1>1, <2>1, <2>2, SocketStep
<1> QED BY <1>2, <1>3

LEMMA HandleConnectKeeps == ASSUME BridgeInv, NEW k \in Conns, HandleConnect(k) PROVE BridgeInv'
<1> DEFINE m == [type |-> "connected"]
<1>0. /\ up \in [Conns -> Seq(ToHost)] /\ down \in [Conns -> Seq(ToPanel)]
      /\ {sock, session, current} \subseteq Conns \union {NoConn} /\ CallType
      /\ \A t \in Tools : pending[t] # NoConn => pending[t] = current
      /\ pending \in [Tools -> Conns \union {NoConn}]
  BY DEF BridgeInv, WireType, ToolState
<1>1. m \in ToPanel /\ \A t : ~Is(m, "command", t)
  BY DEF ToPanel, Is
<1>2. /\ up[k] # <<>> /\ up' = [up EXCEPT ![k] = Tail(@)]
      /\ down' = [down EXCEPT ![k] = Append(@, m)]
      /\ UNCHANGED <<exec, sock, session, handles, issued, loads>>
      /\ current' = k
  BY DEF HandleConnect, FromPanel, panel, socket
<1> HIDE DEF m
<1>3. /\ up' \in [Conns -> Seq(ToHost)]
      /\ \A y, t, l : l \in Conns => Fewer(up'[l], up[l], y, t)
  BY <1>0, <1>2, Pulls
<1>4. /\ down' \in [Conns -> Seq(ToPanel)]
      /\ \A t, l : l \in Conns => Fewer(down'[l], down[l], "command", t)
  <2>1. Queues(down, ToPanel) /\ PutIn(down, down', k, m)
    BY <1>0, <1>2 DEF Queues, PutIn
  <2>2. Queues(down', ToPanel) /\ NoneAdded(down, down', "command")
    BY <1>1, <2>1, PutsOther
  <2> QED BY <2>2 DEF Queues, NoneAdded
<1>5. /\ CallType' /\ \A t \in Tools : LeftAlone(t) \/ GivenUp(t)
      /\ pending' \in [Tools -> Conns \union {NoConn}]
  <2>1. CASE current \notin {NoConn, k}
    <3>1. current # NoConn /\ SettlePendingForSocket(current, "UXP_REPLACED")
      BY <2>1 DEF HandleConnect
    <3> QED BY <3>1, SettlesAll
  <2>2. CASE current \in {NoConn, k}
    <3>1. UNCHANGED <<pending, call>>
      BY <2>2 DEF HandleConnect
    <3>2. \A t \in Tools : LeftAlone(t)
      BY <1>0, <1>2, <2>2, <3>1 DEF LeftAlone
    <3> QED BY <1>0, <3>1, <3>2 DEF CallType
  <2> QED BY <2>1, <2>2
<1> QED BY <1>0, <1>2, <1>3, <1>4, <1>5, HostStep DEF WireKept

(***************************************************************************)
(* Steps of one call                                                       *)
(***************************************************************************)
Others(t) == \A u \in Tools \ {t} : LeftAlone(u) /\ WireKept(u) /\ exec'[u] = exec[u]

LEMMA OneCall ==
  ASSUME BridgeInv, CallType', ExecType', WireType', HandleTable', MeansKept,
         NEW t \in Tools, Others(t), ToolState(t)'
  PROVE  BridgeInv'
<1>1. ASSUME NEW u \in Tools \ {t} PROVE ToolState(u)'
  <2>1. LeftAlone(u) /\ WireKept(u) /\ exec'[u] = exec[u]
    BY DEF Others
  <2>2. ToolState(u) /\ CallType
    BY DEF BridgeInv
  <2>3. FieldsKept(u)
    BY <2>1, <2>2, AloneKept
  <2> QED BY <2>1, <2>2, <2>3, ToolKept
<1> QED BY <1>1 DEF BridgeInv

(* A call that has no token yet, or no more.                               *)
LEMMA NoTokenCall ==
  ASSUME NEW t \in Tools, ToolState(t), MeansKept, WireKept(t), exec'[t] = exec[t],
         call[t].step # "over", pending[t] = NoConn, pending'[t] = NoConn,
         call'[t].handle = call[t].handle, call'[t].found = call[t].found,
         call'[t].touched = call[t].touched, CallState(call'[t])
  PROVE  ToolState(t)'
<1>1. NoToken(t) /\ call[t].touched = NoTarget /\ Means(call[t].handle, call[t].found)
  BY DEF ToolState
<1>2. NoToken(t)'
  <2>1. \A k \in Conns : (Sent(k, t)' => Sent(k, t)) /\ (Answered(k, t)' => Answered(k, t))
    BY WireKeptTokens
  <2> QED BY <1>1, <2>1 DEF NoToken, InPanel
<1>3. ~InPanel(t)' /\ \A k \in Conns :
        /\ \A i \in 1 .. Len(down'[k]) : ~Is(down'[k][i], "command", t)
        /\ \A i \in 1 .. Len(up'[k]) : ~Is(up'[k][i], "response", t)
  BY <1>2 DEF NoToken, Sent, Answered, Has
<1>4. OneToken(t)'
  BY <1>3 DEF OneToken, Once, Sent, Answered, Has
<1>5. Means(call[t].handle, call[t].found)'
  BY <1>1 DEF MeansKept, Means
<1>6. CallState(call[t])'
  OBVIOUS
<1> QED BY <1>1, <1>2, <1>3, <1>4, <1>5, <1>6 DEF ToolState

(* One entry of the calls is changed.                                      *)
LEMMA CallChanges ==
  ASSUME CallType, NEW t \in Tools, call' = [call EXCEPT ![t] = call'[t]],
         IsCall(call'[t]), call'[t].step \in {"idle", "locate", "find", "edit", "over"},
         call'[t].op \in Operations \union {NoOp}, call'[t].handle \in AnyId
  PROVE  CallType' /\ \A u \in Tools \ {t} : call'[u] = call[u]
<1>1. call = [u \in Tools |-> call[u]]
  BY DEF CallType
<1>2. /\ call' = [u \in Tools |-> call'[u]]
      /\ \A u \in Tools \ {t} : call'[u] = call[u]
  BY <1>1
<1>3. ASSUME NEW u \in Tools
      PROVE  /\ IsCall(call'[u]) /\ call'[u].step \in {"idle", "locate", "find", "edit", "over"}
             /\ call'[u].op \in Operations \union {NoOp} /\ call'[u].handle \in AnyId
  <2>1. CASE u = t
    BY <2>1
  <2>2. CASE u # t
    BY <1>2, <2>2 DEF CallType
  <2> QED BY <2>1, <2>2
<1> QED BY <1>2, <1>3 DEF CallType

(* What the server does with a call that is not on its way.                *)
LEMMA ServerStep ==
  ASSUME BridgeInv, NEW t \in Tools, call[t].step # "over", pending[t] = NoConn,
         call' = [call EXCEPT ![t] = call'[t]], IsCall(call'[t]),
         call'[t].handle = call[t].handle, call'[t].found = call[t].found,
         call'[t].touched = call[t].touched,
         call'[t].step \in {"locate", "find", "edit", "over"},
         call'[t].op \in Operations \union {NoOp},
         call[t].step = "idle" \/ call'[t].op = call[t].op,
         call'[t].step \in {"locate", "find"} =>
           call'[t].op.handle # "none" /\ call[t].step \in {"idle", "locate"},
         \/ call'[t].status = call[t].status
         \/ call'[t].step = "over" /\ call'[t].status \in {"FAILED", "UNKNOWN"},
         UNCHANGED <<current, pending, up, down, sock, session, exec, handles, issued, loads>>
  PROVE  BridgeInv'
<1>1. CallType /\ ExecType /\ WireType /\ HandleTable /\ ToolState(t)
  BY DEF BridgeInv
<1>2. CallType' /\ \A u \in Tools \ {t} : call'[u] = call[u]
  <2>1. call[t].handle \in AnyId
    BY <1>1 DEF CallType
  <2> QED BY <1>1, <2>1, CallChanges
<1>3. HandleTable' /\ MeansKept
  BY <1>1, TableSame
<1>4. ToolState(t)'
  <2>1. call[t].touched = NoTarget /\ CallState(call[t])
    BY <1>1 DEF ToolState
  <2>2. CallState(call'[t])
    BY <2>1 DEF CallState
  <2> QED BY <1>1, <1>3, <2>2, WireSame, NoTokenCall
<1>5. ExecType' /\ WireType' /\ Others(t)
  BY <1>1, <1>2, SameExec, WireSame DEF WireType, Others, LeftAlone
<1> QED BY <1>2, <1>3, <1>4, <1>5, OneCall

LEMMA UseToolKeeps ==
  ASSUME BridgeInv, scenario \in Scenarios, NEW t \in Tools, UseTool(t) PROVE BridgeInv'
<1>1. /\ call[t].step = "idle" /\ ToolState(t)
      /\ UNCHANGED <<current, pending, up, down, sock, session, exec, handles, issued, loads>>
  BY DEF UseTool, host, wire, panel, socket, BridgeInv
<1>2. pending[t] = NoConn
  BY <1>1 DEF ToolState
<1>3. PICK op \in scenario.ops[t], node \in Nodes :
        call' = [call EXCEPT ![t].op = op, ![t].node = node,
                   ![t].step = CASE op.handle = "none" -> "edit"
                                 [] op.handle = "item" -> "locate"
                                 [] OTHER -> "find"]
  BY DEF UseTool
<1>4. op \in Operations
  BY UxpAssumption
<1>5. /\ call = [u \in Tools |-> call[u]] /\ IsCall(call[t])
  BY DEF BridgeInv, CallType
<1> DEFINE step == CASE op.handle = "none" -> "edit"
                     [] op.handle = "item" -> "locate"
                     [] OTHER -> "find"
<1>6. step \in {"locate", "find", "edit"} /\ (step \in {"locate", "find"} => op.handle # "none")
  OBVIOUS
<1>7. call'[t] = [call[t] EXCEPT !.op = op, !.node = node, !.step = step]
  BY <1>3, <1>5
<1> HIDE DEF step
<1>8. /\ IsCall(call'[t]) /\ call'[t].step = step /\ call'[t].op = op
      /\ call'[t].handle = call[t].handle /\ call'[t].found = call[t].found
      /\ call'[t].touched = call[t].touched /\ call'[t].status = call[t].status
  BY <1>5, <1>7 DEF IsCall
<1>9. call' = [call EXCEPT ![t] = call'[t]]
  BY <1>3, <1>5
<1> QED BY <1>1, <1>2, <1>4, <1>6, <1>8, <1>9, ServerStep

LEMMA LocateKeeps == ASSUME BridgeInv, NEW t \in Tools, Locate(t) PROVE BridgeInv'
<1>1. /\ call[t].step = "locate" /\ ToolState(t)
      /\ UNCHANGED <<current, pending, up, down, sock, session, exec, handles, issued, loads>>
  BY DEF Locate, host, wire, panel, socket, BridgeInv
<1>2. pending[t] = NoConn /\ call[t].op.handle # "none"
  BY <1>1 DEF ToolState, CallState
<1>3. call = [u \in Tools |-> call[u]] /\ IsCall(call[t]) /\ call[t].op \in Operations \union {NoOp}
  BY DEF BridgeInv, CallType
<1>4. CASE \E index : call' = [call EXCEPT ![t].step = "find", ![t].index = index]
  <2>1. PICK index : call' = [call EXCEPT ![t].step = "find", ![t].index = index]
    BY <1>4
  <2>2. call'[t] = [call[t] EXCEPT !.step = "find", !.index = index]
    BY <1>3, <2>1
  <2>3. /\ IsCall(call'[t]) /\ call'[t].step = "find" /\ call'[t].op = call[t].op
        /\ call'[t].handle = call[t].handle /\ call'[t].found = call[t].found
        /\ call'[t].touched = call[t].touched /\ call'[t].status = call[t].status
    BY <1>3, <2>2 DEF IsCall
  <2>4. call' = [call EXCEPT ![t] = call'[t]]
    BY <1>3, <2>1
  <2> QED BY <1>1, <1>2, <1>3, <2>3, <2>4, ServerStep
<1>5. CASE \E status \in {"FAILED", "UNKNOWN"} :
             call' = [call EXCEPT ![t].step = "over", ![t].status = status]
  <2>1. PICK status \in {"FAILED", "UNKNOWN"} :
             call' = [call EXCEPT ![t].step = "over", ![t].status = status]
    BY <1>5
  <2>2. call'[t] = [call[t] EXCEPT !.step = "over", !.status = status]
    BY <1>3, <2>1
  <2>3. /\ IsCall(call'[t]) /\ call'[t].step = "over" /\ call'[t].op = call[t].op
        /\ call'[t].handle = call[t].handle /\ call'[t].found = call[t].found
        /\ call'[t].touched = call[t].touched /\ call'[t].status = status
    BY <1>3, <2>2 DEF IsCall
  <2>4. call' = [call EXCEPT ![t] = call'[t]]
    BY <1>3, <2>1
  <2> QED BY <1>1, <1>2, <1>3, <2>3, <2>4, ServerStep
<1> QED BY <1>4, <1>5 DEF Locate

LEMMA DispatchFails ==
  ASSUME BridgeInv, NEW t \in Tools, Dispatch(t), ~connected PROVE BridgeInv'
<1>1. /\ call[t].step \in {"find", "edit"} /\ pending[t] = NoConn
      /\ UNCHANGED <<current, pending, up, down, sock, session, exec, handles, issued, loads>>
      /\ call' = Settled({t}, "UXP_UNAVAILABLE", NoId)
  BY DEF Dispatch, panel, socket
<1>2. call = [u \in Tools |-> call[u]] /\ IsCall(call[t]) /\ call[t].op \in Operations \union {NoOp}
  BY DEF BridgeInv, CallType
<1>3. Status("UXP_UNAVAILABLE") = "FAILED"
  BY DEF Status
<1>4. call'[t] = [call[t] EXCEPT !.step = "over", !.status = "FAILED"]
  BY <1>1, <1>3 DEF Settled
<1>5. /\ IsCall(call'[t]) /\ call'[t].step = "over" /\ call'[t].op = call[t].op
      /\ call'[t].handle = call[t].handle /\ call'[t].found = call[t].found
      /\ call'[t].touched = call[t].touched /\ call'[t].status = "FAILED"
  BY <1>2, <1>4 DEF IsCall
<1>6. call' = [call EXCEPT ![t] = call'[t]]
  BY <1>1, <1>2 DEF Settled
<1> QED BY <1>1, <1>2, <1>5, <1>6, ServerStep

(* The token of a call is put in a queue.                                  *)
TokenPut(f, g, k, m, y, t) ==
  /\ \A l \in Conns : /\ Once(g[l], y, t)
                      /\ Has(g[l], y, t) => l = k
                      /\ \A i \in 1 .. Len(g[l]) : Is(g[l][i], y, t) => g[l][i] = m
  /\ \A u, l : u # t /\ l \in Conns => Fewer(g[l], f[l], y, u)

LEMMA PutsToken ==
  ASSUME NEW M, NEW f, Queues(f, M), NEW k \in Conns, NEW m \in M, NEW y, NEW t,
         Is(m, y, t), \A l \in Conns : ~Has(f[l], y, t), NEW g, PutIn(f, g, k, m)
  PROVE  Queues(g, M) /\ TokenPut(f, g, k, m, y, t)
<1>1. /\ g \in [Conns -> Seq(M)]
      /\ \A z, u : ~Is(m, z, u) => \A l \in Conns : Fewer(g[l], f[l], z, u)
      /\ \A z, u : Is(m, z, u) /\ (\A l \in Conns : ~Has(f[l], z, u)) =>
           \A l \in Conns : /\ Once(g[l], z, u)
                            /\ Has(g[l], z, u) => l = k
                            /\ \A i \in 1 .. Len(g[l]) : Is(g[l][i], z, u) => g[l][i] = m
  BY Puts DEF Queues, PutIn
<1>2. \A l \in Conns : /\ Once(g[l], y, t)
                       /\ Has(g[l], y, t) => l = k
                       /\ \A i \in 1 .. Len(g[l]) : Is(g[l][i], y, t) => g[l][i] = m
  BY <1>1
<1>3. ASSUME NEW u, u # t, NEW l \in Conns PROVE Fewer(g[l], f[l], y, u)
  <2>1. ~Is(m, y, u)
    BY <1>3 DEF Is
  <2> QED BY <1>1, <2>1
<1> QED BY <1>1, <1>2, <1>3 DEF TokenPut, Queues

LEMMA DispatchSends ==
  ASSUME BridgeInv, NEW t \in Tools, Dispatch(t), connected PROVE BridgeInv'
<1> DEFINE m == [type |-> "command", call |-> t, step |-> call[t].step]
<1>1. /\ call[t].step \in {"find", "edit"} /\ pending[t] = NoConn /\ current # NoConn
      /\ UNCHANGED <<call, current, up, sock, session, exec, handles, issued, loads>>
      /\ pending' = [pending EXCEPT ![t] = current]
      /\ down' = [down EXCEPT ![current] = Append(@, m)]
  BY DEF Dispatch, connected, panel, socket
<1>2. CallType /\ ExecType /\ WireType /\ HandleTable /\ ToolState(t)
  BY DEF BridgeInv
<1>3. /\ NoToken(t) /\ call[t].touched = NoTarget /\ CallState(call[t])
      /\ Means(call[t].handle, call[t].found) /\ call[t].status \notin {"SUCCEEDED", "FAILED"}
  BY <1>1, <1>2 DEF ToolState, CallState
<1>4. m \in ToPanel /\ Is(m, "command", t) /\ CommandState(call[t], m)
  BY <1>1, <1>3 DEF ToPanel, Is, CommandState, Expected, CallState
<1> HIDE DEF m
<1>5. /\ down \in [Conns -> Seq(ToPanel)] /\ current \in Conns /\ up \in [Conns -> Seq(ToHost)]
      /\ pending \in [Tools -> Conns \union {NoConn}]
      /\ {sock, session} \subseteq Conns \union {NoConn}
  BY <1>1, <1>2 DEF WireType
<1>6. \A l \in Conns : ~Has(down[l], "command", t)
  BY <1>3 DEF NoToken, Sent
<1>7. down' \in [Conns -> Seq(ToPanel)] /\ TokenPut(down, down', current, m, "command", t)
  <2>1. Queues(down, ToPanel) /\ PutIn(down, down', current, m)
    BY <1>1, <1>5 DEF Queues, PutIn
  <2>2. Queues(down', ToPanel) /\ TokenPut(down, down', current, m, "command", t)
    BY <1>4, <1>5, <1>6, <2>1, PutsToken
  <2> QED BY <2>2 DEF Queues
<1>8. CallType' /\ ExecType' /\ WireType' /\ HandleTable' /\ MeansKept
  BY <1>1, <1>2, <1>5, <1>7, SameExec, TableSame DEF CallType, WireType
<1>9. Others(t)
  BY <1>1, <1>5, <1>7, FewerSame DEF Others, LeftAlone, WireKept, TokenPut
<1>10. ToolState(t)'
  <2>1. /\ pending'[t] = current' /\ pending'[t] # NoConn /\ ~InPanel(t)'
        /\ \A k \in Conns : ~Answered(k, t)'
    BY <1>1, <1>3, <1>5 DEF NoToken, InPanel, Answered
  <2>2. \A k \in Conns : \A i \in 1 .. Len(up'[k]) : ~Is(up'[k][i], "response", t)
    BY <2>1 DEF Answered, Has
  <2>3. OneToken(t)'
    BY <1>7, <2>1, <2>2 DEF OneToken, Sent, Once, TokenPut
  <2>4. Means(call[t].handle, call[t].found)'
    BY <1>1, <1>3 DEF Means
  <2> QED BY <1>1, <1>3, <1>4, <1>7, <2>1, <2>2, <2>3, <2>4 DEF ToolState, TokenPut
<1> QED BY <1>8, <1>9, <1>10, OneCall

(* The token of a call is taken from a queue.                              *)
LEMMA TakesResponse ==
  ASSUME BridgeInv, NEW k \in Conns, up[k] # <<>>, Head(up[k]).type = "response",
         up' = [up EXCEPT ![k] = Tail(@)]
  PROVE  LET m == Head(up[k]) IN
         /\ m.call \in Tools /\ m.answer \in Answers /\ m.handle \in AnyId
         /\ ~NoToken(m.call) /\ ~InPanel(m.call)
         /\ ResponseState(call[m.call], m) /\ Means(m.handle, call[m.call].found)
         /\ up' \in [Conns -> Seq(ToHost)]
         /\ \A l \in Conns : ~Sent(l, m.call) /\ ~Has(up'[l], "response", m.call)
         /\ \A y, u, l : l \in Conns => Fewer(up'[l], up[l], y, u)
<1> DEFINE m == Head(up[k])
<1>1. up \in [Conns -> Seq(ToHost)]
  BY DEF BridgeInv, WireType
<1>2. /\ up' \in [Conns -> Seq(ToHost)] /\ m \in ToHost
      /\ \E i \in 1 .. Len(up[k]) : up[k][i] = m
      /\ \A y, u, l : l \in Conns => Fewer(up'[l], up[l], y, u)
      /\ \A y, u : /\ Is(m, y, u) /\ Once(up[k], y, u)
                   /\ \A l \in Conns : Has(up[l], y, u) => l = k
                   => \A l \in Conns : ~Has(up'[l], y, u)
  BY <1>1, Pulls
<1>3. /\ m.call \in Tools /\ m.answer \in Answers /\ m.handle \in AnyId
      /\ Is(m, "response", m.call)
  BY <1>2 DEF ToHost, Is
<1> HIDE DEF m
<1>4. PICK i \in 1 .. Len(up[k]) : up[k][i] = m
  BY <1>2
<1>5. ToolState(m.call)
  BY <1>3 DEF BridgeInv
<1>6. /\ ResponseState(call[m.call], m) /\ Means(m.handle, call[m.call].found)
      /\ Answered(k, m.call) /\ OneToken(m.call)
  BY <1>3, <1>4, <1>5 DEF ToolState, Answered, Has
<1>7. /\ ~NoToken(m.call) /\ ~InPanel(m.call) /\ Once(up[k], "response", m.call)
      /\ \A l \in Conns : ~Sent(l, m.call) /\ (Has(up[l], "response", m.call) => l = k)
  BY <1>6 DEF OneToken, NoToken, Answered
<1>8. \A l \in Conns : ~Has(up'[l], "response", m.call)
  BY <1>2, <1>3, <1>7
<1> QED BY <1>2, <1>3, <1>6, <1>7, <1>8 DEF m

LEMMA TakesCommand ==
  ASSUME BridgeInv, NEW k \in Conns, down[k] # <<>>, Head(down[k]).type = "command",
         down' = [down EXCEPT ![k] = Tail(@)]
  PROVE  LET m == Head(down[k]) IN
         /\ m.call \in Tools /\ m.step \in {"find", "edit"}
         /\ ~NoToken(m.call) /\ CommandState(call[m.call], m)
         /\ down' \in [Conns -> Seq(ToPanel)]
         /\ \A l \in Conns : ~Answered(l, m.call) /\ ~Has(down'[l], "command", m.call)
         /\ \A y, u, l : l \in Conns => Fewer(down'[l], down[l], y, u)
<1> DEFINE m == Head(down[k])
<1>1. down \in [Conns -> Seq(ToPanel)]
  BY DEF BridgeInv, WireType
<1>2. /\ down' \in [Conns -> Seq(ToPanel)] /\ m \in ToPanel
      /\ \E i \in 1 .. Len(down[k]) : down[k][i] = m
      /\ \A y, u, l : l \in Conns => Fewer(down'[l], down[l], y, u)
      /\ \A y, u : /\ Is(m, y, u) /\ Once(down[k], y, u)
                   /\ \A l \in Conns : Has(down[l], y, u) => l = k
                   => \A l \in Conns : ~Has(down'[l], y, u)
  BY <1>1, Pulls
<1>3. m.call \in Tools /\ m.step \in {"find", "edit"} /\ Is(m, "command", m.call)
  BY <1>2 DEF ToPanel, Is
<1> HIDE DEF m
<1>4. PICK i \in 1 .. Len(down[k]) : down[k][i] = m
  BY <1>2
<1>5. ToolState(m.call)
  BY <1>3 DEF BridgeInv
<1>6. CommandState(call[m.call], m) /\ Sent(k, m.call) /\ OneToken(m.call)
  BY <1>3, <1>4, <1>5 DEF ToolState, Sent, Has
<1>7. /\ ~NoToken(m.call) /\ Once(down[k], "command", m.call)
      /\ \A l \in Conns : ~Answered(l, m.call) /\ (Has(down[l], "command", m.call) => l = k)
  BY <1>6 DEF OneToken, NoToken, Sent
<1>8. \A l \in Conns : ~Has(down'[l], "command", m.call)
  BY <1>2, <1>3, <1>7
<1> QED BY <1>2, <1>3, <1>6, <1>7, <1>8 DEF m

LEMMA HandleResponseKeeps == ASSUME BridgeInv, NEW k \in Conns, HandleResponse(k) PROVE BridgeInv'
<1>0. PICK m : m = Head(up[k])
  OBVIOUS
<1> DEFINE u == m.call
<1>1. /\ up[k] # <<>> /\ m.type = "response" /\ up' = [up EXCEPT ![k] = Tail(@)]
      /\ UNCHANGED <<current, down, sock, session, exec, handles, issued, loads>>
      /\ IF pending[u] = k /\ m.session = k
         THEN /\ pending' = [pending EXCEPT ![u] = NoConn]
              /\ call' = Settled({u}, m.answer, m.handle)
         ELSE UNCHANGED <<pending, call>>
  BY <1>0 DEF HandleResponse, FromPanel, panel, socket
<1>2. /\ u \in Tools /\ m.answer \in Answers /\ m.handle \in AnyId
      /\ ~NoToken(u) /\ ~InPanel(u)
      /\ ResponseState(call[u], m) /\ Means(m.handle, call[u].found)
      /\ up' \in [Conns -> Seq(ToHost)]
      /\ \A l \in Conns : ~Sent(l, u) /\ ~Has(up'[l], "response", u)
      /\ \A y, t, l : l \in Conns => Fewer(up'[l], up[l], y, t)
  BY <1>0, <1>1, TakesResponse
<1> HIDE DEF u
<1>3. CallType /\ ExecType /\ WireType /\ HandleTable /\ ToolState(u)
  BY <1>2 DEF BridgeInv
<1>4. \A t \in Tools : WireKept(t)
  BY <1>1, <1>2, FewerSame DEF WireKept
<1>5. CASE ~(pending[u] = k /\ m.session = k)
  <2>1. UNCHANGED <<call, pending>>
    BY <1>1, <1>5
  <2> QED BY <1>1, <1>2, <1>3, <1>4, <2>1, WireStep DEF WireType
<1>6. CASE pending[u] = k /\ m.session = k
  <2>1. /\ pending' = [pending EXCEPT ![u] = NoConn]
        /\ call' = Settled({u}, m.answer, m.handle)
    BY <1>1, <1>6
  <2>2. /\ k # NoConn /\ call[u].step \in {"find", "edit"} /\ CallState(call[u]) /\ IsCall(call[u])
        /\ call[u].status \notin {"FAILED", "SUCCEEDED"} /\ call[u].op \in Operations \union {NoOp}
        /\ Means(call[u].handle, call[u].found) /\ call[u].handle \in AnyId
    BY <1>2, <1>3, <1>6 DEF ToolState, CallState, CallType, Conns, NoConn
  <2>3. ASSUME m.answer = "ok" /\ call[u].step = "find"
        PROVE  /\ IsCall(call'[u]) /\ call'[u].step = "edit" /\ call'[u].handle = m.handle
               /\ call'[u].op = call[u].op /\ call'[u].found = call[u].found
               /\ call'[u].touched = call[u].touched /\ call'[u].status = call[u].status
    <3>1. call'[u] = [call[u] EXCEPT !.step = "edit", !.handle = m.handle]
      BY <1>2, <2>1, <2>3 DEF Settled
    <3> QED BY <2>2, <3>1 DEF IsCall
  <2>4. ASSUME ~(m.answer = "ok" /\ call[u].step = "find")
        PROVE  /\ IsCall(call'[u]) /\ call'[u].step = "over" /\ call'[u].handle = call[u].handle
               /\ call'[u].op = call[u].op /\ call'[u].found = call[u].found
               /\ call'[u].touched = call[u].touched /\ call'[u].status = Status(m.answer)
    <3>1. call'[u] = [call[u] EXCEPT !.step = "over", !.status = Status(m.answer)]
      BY <1>2, <2>1, <2>4 DEF Settled
    <3> QED BY <2>2, <3>1 DEF IsCall
  <2>5. CallState(call'[u])
    <3>1. CASE m.answer = "ok" /\ call[u].step = "find"
      BY <2>2, <2>3, <3>1 DEF CallState
    <3>2. CASE m.answer = "ok" /\ call[u].step = "edit"
      <4>1. Status(m.answer) = "SUCCEEDED"
        BY <3>2 DEF Status
      <4> QED BY <2>2, <2>4, <3>2, <4>1 DEF CallState
    <3>3. CASE m.answer = "refused"
      <4>1. Status(m.answer) = "FAILED"
        BY <3>3 DEF Status
      <4>2. call[u].op.flagged => call[u].touched = NoTarget
        BY <1>2, <3>3 DEF ResponseState
      <4> QED BY <2>2, <2>4, <3>3, <4>1, <4>2 DEF CallState
    <3>4. CASE m.answer \in {"unknown", "lost_handle"}
      <4>1. Status(m.answer) = "UNKNOWN"
        BY <3>4 DEF Status
      <4> QED BY <2>2, <2>4, <3>4, <4>1 DEF CallState
    <3> QED BY <1>2, <2>2, <3>1, <3>2, <3>3, <3>4 DEF Answers
  <2>6. /\ IsCall(call'[u]) /\ call'[u].step \in {"idle", "locate", "find", "edit", "over"}
        /\ call'[u].op \in Operations \union {NoOp} /\ call'[u].handle \in AnyId
        /\ call'[u].found = call[u].found
        /\ call'[u].step # "over" => call'[u].touched = NoTarget
    BY <1>2, <2>2, <2>3, <2>4 DEF CallState
  <2>7. CallType' /\ \A t \in Tools \ {u} : call'[t] = call[t]
    <3>1. call' = [call EXCEPT ![u] = call'[u]]
      BY <1>2, <1>3, <2>1 DEF Settled, CallType
    <3> QED BY <1>2, <1>3, <2>6, <3>1, CallChanges
  <2>8. HandleTable' /\ MeansKept
    BY <1>1, <1>3, TableSame
  <2>9. ExecType' /\ WireType' /\ Others(u)
    BY <1>1, <1>2, <1>3, <1>4, <2>1, <2>7, SameExec DEF WireType, Others, LeftAlone
  <2>10. ToolState(u)'
    <3>1. /\ pending'[u] = NoConn /\ ~InPanel(u)'
          /\ \A l \in Conns : ~Sent(l, u)' /\ ~Answered(l, u)'
      BY <1>1, <1>2, <1>3, <2>1 DEF WireType, InPanel, Sent, Answered
    <3>2. NoToken(u)' /\ \A l \in Conns :
            /\ \A i \in 1 .. Len(down'[l]) : ~Is(down'[l][i], "command", u)
            /\ \A i \in 1 .. Len(up'[l]) : ~Is(up'[l][i], "response", u)
      BY <3>1 DEF NoToken, Sent, Answered, Has
    <3>3. OneToken(u)'
      BY <3>1, <3>2 DEF OneToken, Once
    <3>4. Denotes(handles', loads', issued', call'[u].handle, call'[u].found)
      BY <1>2, <2>2, <2>3, <2>4, <2>8 DEF MeansKept
    <3> QED BY <2>5, <2>6, <3>1, <3>2, <3>3, <3>4 DEF ToolState, Means
  <2> QED BY <1>2, <2>7, <2>8, <2>9, <2>10, OneCall
<1> QED BY <1>5, <1>6

(* A call whose token moves on.                                            *)
LEMMA BusyCall ==
  ASSUME NEW t \in Tools, ToolState(t), ~NoToken(t),
         pending'[t] = pending[t], current' = current,
         call'[t].step = call[t].step, call'[t].status = call[t].status,
         CallState(call'[t]), Denotes(handles', loads', issued', call'[t].handle, call'[t].found),
         OneToken(t)', InPanel(t)' => ExecState(call'[t], exec'[t]),
         \A k \in Conns :
           /\ \A i \in 1 .. Len(down'[k]) :
                Is(down'[k][i], "command", t) => CommandState(call'[t], down'[k][i])
           /\ \A i \in 1 .. Len(up'[k]) :
                Is(up'[k][i], "response", t) =>
                  /\ ResponseState(call'[t], up'[k][i])
                  /\ Denotes(handles', loads', issued', up'[k][i].handle, call'[t].found)
  PROVE  ToolState(t)'
<1>1. /\ ~(call[t].step # "over" /\ pending[t] = NoConn)
      /\ call[t].status \notin {"FAILED", "SUCCEEDED"}
      /\ pending[t] # NoConn => pending[t] = current /\ call[t].step \in {"find", "edit"}
  BY DEF ToolState
<1> QED BY <1>1 DEF ToolState, Means

LEMMA TakeCommandKeeps == ASSUME BridgeInv, NEW k \in Conns, TakeCommand(k) PROVE BridgeInv'
<1>0. PICK m : m = Head(down[k])
  OBVIOUS
<1> DEFINE u == m.call
           e == [at |-> "key", step |-> m.step, conn |-> k, session |-> NoConn,
                 project |-> "none", target |-> NoTarget, did |-> "nothing"]
<1>1. /\ down[k] # <<>> /\ m.type = "command" /\ down' = [down EXCEPT ![k] = Tail(@)]
      /\ UNCHANGED <<call, current, pending, up, sock, session, handles, issued, loads>>
      /\ exec' = exec \/ exec' = [exec EXCEPT ![u] = e]
  BY <1>0 DEF TakeCommand, FromHost, host
<1>2. /\ u \in Tools /\ m.step \in {"find", "edit"}
      /\ ~NoToken(u) /\ CommandState(call[u], m)
      /\ down' \in [Conns -> Seq(ToPanel)]
      /\ \A l \in Conns : ~Answered(l, u) /\ ~Has(down'[l], "command", u)
      /\ \A y, t, l : l \in Conns => Fewer(down'[l], down[l], y, t)
  BY <1>0, <1>1, TakesCommand
<1> HIDE DEF u
<1>3. CallType /\ ExecType /\ WireType /\ HandleTable /\ ToolState(u)
  BY <1>2 DEF BridgeInv
<1>4. \A t \in Tools : WireKept(t)
  BY <1>1, <1>2, FewerSame DEF WireKept
<1>5. CASE exec' = exec
  BY <1>1, <1>2, <1>3, <1>4, <1>5, WireStep DEF WireType
<1>6. CASE exec' = [exec EXCEPT ![u] = e]
  <2>1. /\ e.at = "key" /\ e.step = m.step /\ e.project = "none" /\ IsExec(e)
    BY <1>2 DEF IsExec
  <2> HIDE DEF e
  <2>2. /\ exec' = [t \in Tools |-> exec'[t]] /\ exec'[u] = e
        /\ \A t \in Tools \ {u} : exec'[t] = exec[t]
    BY <1>2, <1>3, <1>6 DEF ExecType
  <2>3. ExecType'
    <3>1. \A t \in Tools : IsExec(exec'[t])
      BY <1>3, <2>1, <2>2 DEF ExecType
    <3> QED BY <2>2, <3>1 DEF ExecType
  <2>4. CallType' /\ WireType' /\ HandleTable' /\ MeansKept
    BY <1>1, <1>2, <1>3, TableSame DEF CallType, WireType
  <2>5. Others(u)
    BY <1>1, <1>4, <2>2 DEF Others, LeftAlone
  <2>6. ToolState(u)'
    <3>1. /\ \A l \in Conns : ~Sent(l, u)' /\ ~Answered(l, u)'
          /\ \A l \in Conns :
               /\ \A i \in 1 .. Len(down'[l]) : ~Is(down'[l][i], "command", u)
               /\ \A i \in 1 .. Len(up'[l]) : ~Is(up'[l][i], "response", u)
      BY <1>1, <1>2 DEF Sent, Answered, Has
    <3>2. OneToken(u)'
      BY <3>1 DEF OneToken, Once
    <3>3. ExecState(call'[u], exec'[u])
      BY <1>1, <1>2, <2>1, <2>2 DEF ExecState, CommandState, Expected
    <3>4. CallState(call'[u]) /\ Denotes(handles', loads', issued', call'[u].handle, call'[u].found)
      BY <1>1, <1>3 DEF ToolState, Means
    <3> QED BY <1>1, <1>2, <1>3, <3>1, <3>2, <3>3, <3>4, BusyCall
  <2> QED BY <1>2, <2>3, <2>4, <2>5, <2>6, OneCall
<1> QED BY <1>1, <1>5, <1>6

(* The panel goes on with a command.                                       *)
LEMMA PanelWorks ==
  ASSUME BridgeInv, NEW t \in Tools, InPanel(t),
         UNCHANGED <<current, pending, up, down, sock, session, handles, issued, loads>>,
         exec' = [exec EXCEPT ![t] = exec'[t]], IsExec(exec'[t]), ExecState(call'[t], exec'[t]),
         call' = [call EXCEPT ![t] = call'[t]], IsCall(call'[t]), CallState(call'[t]),
         call'[t].step = call[t].step, call'[t].op = call[t].op, call'[t].handle = call[t].handle,
         call'[t].found = call[t].found, call'[t].status = call[t].status,
         exec'[t].at # "none"
  PROVE  BridgeInv'
<1>1. CallType /\ ExecType /\ WireType /\ HandleTable /\ ToolState(t)
  BY DEF BridgeInv
<1>2. /\ ~NoToken(t) /\ \A k \in Conns : ~Sent(k, t) /\ ~Answered(k, t)
  BY <1>1 DEF ToolState, OneToken, NoToken
<1>3. CallType' /\ \A u \in Tools \ {t} : call'[u] = call[u]
  <2>1. /\ call[t].step \in {"idle", "locate", "find", "edit", "over"}
        /\ call[t].op \in Operations \union {NoOp} /\ call[t].handle \in AnyId
    BY <1>1 DEF CallType
  <2> QED BY <1>1, <2>1, CallChanges
<1>4. ExecType' /\ \A u \in Tools \ {t} : exec'[u] = exec[u]
  <2>1. /\ exec' = [u \in Tools |-> exec'[u]]
        /\ \A u \in Tools \ {t} : exec'[u] = exec[u]
    BY <1>1 DEF ExecType
  <2>2. \A u \in Tools : IsExec(exec'[u])
    BY <1>1, <2>1 DEF ExecType
  <2> QED BY <2>1, <2>2 DEF ExecType
<1>5. WireType' /\ HandleTable' /\ MeansKept /\ Others(t)
  BY <1>1, <1>3, <1>4, TableSame, WireSame DEF WireType, Others, LeftAlone
<1>6. ToolState(t)'
  <2>1. /\ \A l \in Conns : ~Sent(l, t)' /\ ~Answered(l, t)'
        /\ \A l \in Conns :
             /\ \A i \in 1 .. Len(down'[l]) : ~Is(down'[l][i], "command", t)
             /\ \A i \in 1 .. Len(up'[l]) : ~Is(up'[l][i], "response", t)
    BY <1>2 DEF Sent, Answered, Has
  <2>2. OneToken(t)'
    BY <2>1 DEF OneToken, Once
  <2>3. Denotes(handles', loads', issued', call'[t].handle, call'[t].found)
    BY <1>1, <1>5 DEF ToolState, MeansKept
  <2> QED BY <1>1, <1>2, <2>1, <2>2, <2>3, BusyCall
<1> QED BY <1>3, <1>4, <1>5, <1>6, OneCall

LEMMA AtWork ==
  ASSUME BridgeInv, NEW t \in Tools, InPanel(t)
  PROVE  /\ IsExec(exec[t]) /\ exec[t] # NotAsked /\ ExecState(call[t], exec[t])
         /\ exec[t] \in [at : {"key", "context", "checks", "premiere", "readback"},
                         step : {"find", "edit"}, conn : Conns, session : Conns \union {NoConn},
                         project : {exec[t].project}, target : {exec[t].target}, did : {exec[t].did}]
         /\ exec = [u \in Tools |-> exec[u]]
         /\ call = [u \in Tools |-> call[u]] /\ IsCall(call[t])
         /\ call[t].op \in Operations \union {NoOp} /\ CallState(call[t])
         /\ Means(call[t].handle, call[t].found) /\ call[t].handle \in AnyId
<1>1. IsExec(exec[t]) /\ exec[t] # NotAsked /\ exec = [u \in Tools |-> exec[u]]
  BY DEF BridgeInv, ExecType, InPanel, NotAsked
<1>2. ToolState(t)
  BY DEF BridgeInv
<1> QED BY <1>1, <1>2 DEF BridgeInv, CallType, ToolState, IsExec

(* A step of the panel that leaves the call itself as it is.               *)
LEMMA PanelAdvances ==
  ASSUME BridgeInv, NEW t \in Tools, InPanel(t),
         UNCHANGED <<call, current, pending, up, down, sock, session, handles, issued, loads>>,
         NEW e, exec' = [exec EXCEPT ![t] = e], IsExec(e), e.at # "none", ExecState(call[t], e)
  PROVE  BridgeInv'
<1>1. exec = [u \in Tools |-> exec[u]] /\ call = [u \in Tools |-> call[u]]
  BY AtWork
<1>2. exec'[t] = e
  BY <1>1
<1>3. exec' = [exec EXCEPT ![t] = exec'[t]]
  BY <1>2
<1>4. call' = [call EXCEPT ![t] = call'[t]]
  BY <1>1
<1> QED BY <1>2, <1>3, <1>4, AtWork, PanelWorks

LEMMA KeyReadKeeps == ASSUME BridgeInv, NEW t \in Tools, KeyRead(t) PROVE BridgeInv'
<1> DEFINE e == [exec[t] EXCEPT !.at = "context", !.session = session]
<1>1. /\ exec[t].at = "key" /\ InPanel(t)
      /\ UNCHANGED <<call, current, pending, up, down, sock, session, handles, issued, loads>>
  BY DEF KeyRead, InPanel, host, wire, socket
<1>2. exec' = [exec EXCEPT ![t] = e]
  BY <1>1, AtWork DEF KeyRead
<1>3. session \in Conns \union {NoConn}
  BY DEF BridgeInv, WireType
<1>4. IsExec(e) /\ e.at = "context" /\ e.step = exec[t].step
  BY <1>1, <1>3, AtWork DEF IsExec
<1> HIDE DEF e
<1>5. ExecState(call[t], e)
  BY <1>1, <1>4, AtWork DEF ExecState, Expected
<1> QED BY <1>1, <1>2, <1>4, <1>5, PanelAdvances

LEMMA CaptureContextKeeps == ASSUME BridgeInv, NEW t \in Tools, CaptureContext(t) PROVE BridgeInv'
<1> DEFINE target == [clip |-> "none", project |-> active]
           at == IF call[t].op.handle = "none" THEN "premiere" ELSE "checks"
           e == [exec[t] EXCEPT !.project = active, !.target = target, !.at = at]
<1>1. /\ exec[t].at = "context" /\ InPanel(t)
      /\ UNCHANGED <<call, current, pending, up, down, sock, session, handles, issued, loads>>
      /\ active = "none" => call[t].op.effect = "nothing" /\ call[t].op.handle = "none"
  BY DEF CaptureContext, InPanel, host, wire, socket
<1>2. exec' = [exec EXCEPT ![t] = e]
  BY <1>1, AtWork DEF CaptureContext
<1>3. active # "none" => target # NoTarget
  BY DEF NoTarget
<1> HIDE DEF target
<1>4. /\ IsExec(e) /\ e.at = at /\ e.step = exec[t].step /\ e.project = active
      /\ e.target = target /\ e.step \in {"find", "edit"}
  BY <1>1, AtWork DEF IsExec
<1> HIDE DEF e
<1>5. ExecState(call[t], e)
  BY <1>1, <1>3, <1>4, AtWork DEF ExecState, Expected
<1> QED BY <1>1, <1>2, <1>4, <1>5, PanelAdvances

(* A handle that is in the table stands for what the call has found.       *)
LEMMA ResolveKeeps == ASSUME BridgeInv, NEW t \in Tools, Resolve(t) PROVE BridgeInv'
<1>1. /\ exec[t].at = "checks" /\ exec[t].step = "edit" /\ InPanel(t)
      /\ UNCHANGED <<call, current, pending, up, down, sock, session, handles, issued, loads>>
  BY DEF Resolve, InPanel, host, wire, socket
<1>2. PICK h \in HandleRecord(call[t].handle) :
        exec' = [exec EXCEPT ![t].at = "premiere",
                    ![t].target = [clip |-> h.clip, project |-> h.project]]
  BY DEF Resolve
<1> DEFINE target == [clip |-> h.clip, project |-> h.project]
           e == [exec[t] EXCEPT !.at = "premiere", !.target = target]
<1>3. PICK i \in DOMAIN handles : h = handles[i] /\ handles[i].id = call[t].handle
  BY DEF HandleRecord, Range
<1>4. target = call[t].found /\ target # NoTarget
  <2>1. target = call[t].found
    BY <1>1, <1>3, AtWork DEF Means, Denotes
  <2>2. h.project # "none"
    BY <1>3 DEF BridgeInv, HandleTable
  <2> QED BY <2>1, <2>2 DEF NoTarget
<1>5. exec' = [exec EXCEPT ![t] = e]
  BY <1>1, <1>2, AtWork
<1> HIDE DEF target
<1>6. IsExec(e) /\ e.at = "premiere" /\ e.step = "edit" /\ e.target = target
  BY <1>1, AtWork DEF IsExec
<1> HIDE DEF e
<1>7. ExecState(call[t], e)
  BY <1>1, <1>4, <1>6, AtWork DEF ExecState, Expected
<1> QED BY <1>1, <1>5, <1>6, <1>7, PanelAdvances

LEMMA CallPremiereKeeps == ASSUME BridgeInv, NEW t \in Tools, CallPremiere(t) PROVE BridgeInv'
<1>1. /\ exec[t].at = "premiere" /\ InPanel(t)
      /\ UNCHANGED <<current, pending, up, down, sock, session, handles, issued, loads>>
  BY DEF CallPremiere, InPanel, host, wire, socket
<1>2. PICK did \in {"applied", "declined", "lost", "threw"}, takesEffect \in BOOLEAN :
        /\ did = "applied" => takesEffect
        /\ exec' = [exec EXCEPT ![t].at = "readback", ![t].did = did]
        /\ IF takesEffect /\ call[t].op.effect # "nothing"
           THEN call' = [call EXCEPT ![t].touched = exec[t].target]
           ELSE UNCHANGED call
  BY DEF CallPremiere
<1> DEFINE e == [exec[t] EXCEPT !.at = "readback", !.did = did]
<1>3. exec' = [exec EXCEPT ![t] = e] /\ exec'[t] = e
  BY <1>1, <1>2, AtWork
<1>4. IsExec(e) /\ e.at = "readback" /\ e.step = exec[t].step /\ e.did = did /\ e.step = "edit"
  BY <1>1, AtWork DEF IsExec, ExecState
<1> HIDE DEF e
<1>5. /\ call[t].touched = NoTarget /\ call[t].step \in {"edit", "over"}
      /\ call[t].op.handle # "none" => exec[t].target = call[t].found
      /\ call[t].op.effect # "nothing" => exec[t].target # NoTarget
  BY <1>1, <1>4, AtWork DEF ExecState, Expected
<1>6. CASE takesEffect /\ call[t].op.effect # "nothing"
  <2>1. call'[t] = [call[t] EXCEPT !.touched = exec[t].target]
    BY <1>1, <1>2, <1>6, AtWork
  <2>2. /\ IsCall(call'[t]) /\ call'[t].touched = exec[t].target
        /\ call'[t].step = call[t].step /\ call'[t].op = call[t].op
        /\ call'[t].handle = call[t].handle /\ call'[t].found = call[t].found
        /\ call'[t].status = call[t].status
    BY <1>1, <2>1, AtWork DEF IsCall
  <2>3. call' = [call EXCEPT ![t] = call'[t]]
    BY <1>1, <1>2, <1>6, AtWork
  <2>4. call[t].status \notin {"FAILED", "SUCCEEDED"}
    <3>1. ToolState(t) /\ ~NoToken(t)
      BY <1>1 DEF BridgeInv, NoToken
    <3> QED BY <3>1 DEF ToolState
  <2>5. CallState(call'[t])
    BY <1>1, <1>5, <2>2, <2>4, AtWork DEF CallState
  <2>6. ExecState(call'[t], e)
    BY <1>4, <1>5, <1>6, <2>2 DEF ExecState, Expected
  <2>7. IsExec(exec'[t]) /\ exec'[t].at # "none" /\ exec' = [exec EXCEPT ![t] = exec'[t]]
        /\ ExecState(call'[t], exec'[t])
    BY <1>3, <1>4, <2>6
  <2> QED BY <1>1, <2>2, <2>3, <2>5, <2>7, PanelWorks
<1>7. CASE ~(takesEffect /\ call[t].op.effect # "nothing")
  <2>1. UNCHANGED call
    BY <1>2, <1>7
  <2>2. ExecState(call[t], e)
    BY <1>2, <1>4, <1>5, <1>7 DEF ExecState, Expected
  <2> QED BY <1>1, <1>3, <1>4, <2>1, <2>2, PanelAdvances
<1> QED BY <1>6, <1>7

(***************************************************************************)
(* The panel answers                                                       *)
(***************************************************************************)
LEMMA Responds ==
  ASSUME BridgeInv, NEW t \in Tools, InPanel(t),
         NEW answer \in Answers, NEW id \in AnyId, Respond(t, answer, id),
         UNCHANGED <<current, pending, down, sock, session>>, HandleTable', MeansKept,
         call' = [call EXCEPT ![t] = call'[t]], IsCall(call'[t]), CallState(call'[t]),
         call'[t].step = call[t].step, call'[t].op = call[t].op, call'[t].handle = call[t].handle,
         call'[t].status = call[t].status,
         answer = "refused" /\ call'[t].op.flagged => call'[t].touched = NoTarget,
         Denotes(handles', loads', issued', call'[t].handle, call'[t].found),
         Denotes(handles', loads', issued', id, call'[t].found)
  PROVE  BridgeInv'
<1> DEFINE m == [type |-> "response", call |-> t, session |-> exec[t].session,
                 answer |-> answer, handle |-> id]
<1>1. CallType /\ ExecType /\ WireType /\ HandleTable /\ ToolState(t)
  BY DEF BridgeInv
<1>2. ~NoToken(t) /\ \A k \in Conns : ~Sent(k, t) /\ ~Answered(k, t)
  BY <1>1 DEF ToolState, OneToken, NoToken
<1>3. /\ m \in ToHost /\ Is(m, "response", t) /\ m.handle = id /\ m.answer = answer
  BY AtWork DEF ToHost, Is
<1>4. exec' = [exec EXCEPT ![t] = NotAsked] /\ (up' = up \/ (sock # NoConn /\ PutIn(up, up', sock, m)))
  BY DEF Respond, PutIn
<1> HIDE DEF m
<1>5. ResponseState(call'[t], m)
  BY <1>3 DEF ResponseState
<1>6. /\ up \in [Conns -> Seq(ToHost)] /\ Queues(up, ToHost)
      /\ sock # NoConn => sock \in Conns
  BY <1>1 DEF WireType, Queues
<1>7. /\ up' \in [Conns -> Seq(ToHost)]
      /\ \A k, l \in Conns :
           /\ Has(up'[k], "response", t) /\ Has(up'[l], "response", t) => k = l
           /\ Once(up'[l], "response", t)
           /\ \A i \in 1 .. Len(up'[l]) : Is(up'[l][i], "response", t) => up'[l][i] = m
      /\ \A u, l : u # t /\ l \in Conns => Fewer(up'[l], up[l], "response", u)
  <2>1. CASE up' = up
    <3>1. \A l \in Conns : \A i \in 1 .. Len(up'[l]) : ~Is(up'[l][i], "response", t)
      BY <1>2, <2>1 DEF Answered, Has
    <3> QED BY <1>6, <2>1, <3>1, FewerSame DEF Has, Once
  <2>2. CASE sock # NoConn /\ PutIn(up, up', sock, m)
    <3>1. \A l \in Conns : ~Has(up[l], "response", t)
      BY <1>2 DEF Answered
    <3>2. Queues(up', ToHost) /\ TokenPut(up, up', sock, m, "response", t)
      BY <1>3, <1>6, <2>2, <3>1, PutsToken
    <3> QED BY <3>2 DEF Queues, TokenPut
  <2> QED BY <1>4, <2>1, <2>2
<1>8. CallType' /\ \A u \in Tools \ {t} : call'[u] = call[u]
  BY <1>1, AtWork, CallChanges DEF CallType
<1>9. /\ ExecType' /\ exec'[t] = NotAsked
      /\ \A u \in Tools \ {t} : exec'[u] = exec[u]
  <2>1. /\ exec' = [u \in Tools |-> exec'[u]] /\ exec'[t] = NotAsked
        /\ \A u \in Tools \ {t} : exec'[u] = exec[u]
    BY <1>1, <1>4 DEF ExecType
  <2>2. \A u \in Tools : IsExec(exec'[u])
    BY <1>1, <2>1 DEF ExecType, IsExec
  <2> QED BY <2>1, <2>2 DEF ExecType
<1>10. WireType' /\ Others(t)
  BY <1>1, <1>7, <1>8, <1>9, FewerSame DEF WireType, Others, LeftAlone, WireKept
<1>11. ToolState(t)'
  <2>1. ~InPanel(t)' /\ \A l \in Conns : ~Sent(l, t)'
    BY <1>2, <1>9 DEF InPanel, NotAsked, Sent
  <2>2. \A l \in Conns : \A i \in 1 .. Len(down'[l]) : ~Is(down'[l][i], "command", t)
    BY <2>1 DEF Sent, Has
  <2>3. OneToken(t)'
    BY <1>7, <2>1, <2>2 DEF OneToken, Once, Answered
  <2> QED BY <1>1, <1>2, <1>3, <1>5, <1>7, <2>1, <2>2, <2>3, BusyCall
<1> QED BY <1>8, <1>9, <1>10, <1>11, OneCall

(* An answer without a handle leaves the call as it is.                    *)
LEMMA RespondsOnly ==
  ASSUME BridgeInv, NEW t \in Tools, InPanel(t), NEW answer \in Answers, Respond(t, answer, NoId),
         UNCHANGED <<call, current, pending, down, sock, session, handles, issued, loads>>,
         answer = "refused" /\ call[t].op.flagged => call[t].touched = NoTarget
  PROVE  BridgeInv'
<1>1. HandleTable' /\ MeansKept /\ NoId \in AnyId
  BY TableSame DEF BridgeInv, NoId, AnyId
<1>2. Means(NoId, call[t].found)
  BY <1>1 DEF Means, Denotes, NoId, BridgeInv, HandleTable
<1>3. /\ Denotes(handles', loads', issued', NoId, call'[t].found)
      /\ Denotes(handles', loads', issued', call'[t].handle, call'[t].found)
  BY <1>1, <1>2, AtWork DEF MeansKept
<1>4. call' = [call EXCEPT ![t] = call'[t]]
  BY AtWork
<1>5. IsCall(call'[t]) /\ CallState(call'[t])
  BY AtWork
<1> QED BY <1>1, <1>3, <1>4, <1>5, Responds

LEMMA RefuseKeeps == ASSUME BridgeInv, NEW t \in Tools, Refuse(t) PROVE BridgeInv'
<1>1. /\ InPanel(t) /\ exec[t].at # "readback" /\ Respond(t, "refused", NoId)
      /\ UNCHANGED <<call, current, pending, down, sock, session, handles, issued, loads>>
  BY DEF Refuse, InPanel, host, socket
<1>2. call[t].touched = NoTarget
  BY <1>1, AtWork DEF ExecState
<1>3. "refused" \in Answers
  BY DEF Answers
<1> QED BY <1>1, <1>2, <1>3, RespondsOnly

LEMMA LostHandleKeeps == ASSUME BridgeInv, NEW t \in Tools, LostHandle(t) PROVE BridgeInv'
<1>1. /\ InPanel(t) /\ Respond(t, "lost_handle", NoId)
      /\ UNCHANGED <<call, current, pending, down, sock, session, handles, issued, loads>>
  BY DEF LostHandle, InPanel, host, socket
<1>2. "lost_handle" \in Answers
  BY DEF Answers
<1> QED BY <1>1, <1>2, RespondsOnly

LEMMA AnswerKeeps == ASSUME BridgeInv, NEW t \in Tools, Answer(t) PROVE BridgeInv'
<1>1. /\ InPanel(t) /\ exec[t].at = "readback"
      /\ UNCHANGED <<call, current, pending, down, sock, session, handles, issued, loads>>
  BY DEF Answer, InPanel, host, socket
<1>2. PICK compares \in BOOLEAN, throws \in BOOLEAN :
        Respond(t, Verdict(call[t].op, exec[t].did, compares, throws), NoId)
  BY DEF Answer
<1> DEFINE answer == Verdict(call[t].op, exec[t].did, compares, throws)
<1>3. /\ answer \in {"ok", "refused", "unknown"}
      /\ answer = "refused" => ~call[t].op.flagged
  BY DEF Verdict
<1> HIDE DEF answer
<1>4. answer \in Answers /\ Respond(t, answer, NoId)
  BY <1>2, <1>3 DEF Answers, answer
<1> QED BY <1>1, <1>3, <1>4, RespondsOnly

(***************************************************************************)
(* The handle table                                                        *)
(***************************************************************************)
Adds(p, q, h) ==
  IsSequence(p) /\ \A i \in DOMAIN p : p[i] = h \/ \E j \in 1 .. Len(q) : p[i] = q[j]

LEMMA AppendedTable ==
  ASSUME NEW S, NEW q \in Seq(S), NEW h \in S
  PROVE  Adds(Append(q, h), q, h)
<1> DEFINE p == Append(q, h)
<1>1. /\ p \in Seq(S) /\ Len(q) \in Nat /\ Len(p) = Len(q) + 1
      /\ \A i \in 1 .. Len(q) : p[i] = q[i]
      /\ p[Len(q) + 1] = h
  BY AppendProperties, LenProperties
<1> HIDE DEF p
<1>2. DOMAIN p = 1 .. Len(p) /\ p = [i \in 1 .. Len(p) |-> p[i]] /\ Len(p) \in Nat
  BY <1>1, LenProperties
<1>3. \A i \in 1 .. Len(p) : i \in 1 .. Len(q) \/ i = Len(q) + 1
  BY <1>1
<1>4. IsSequence(p)
  <2> DEFINE T == {p[i] : i \in DOMAIN p}
  <2>1. p \in [1 .. Len(p) -> T]
    BY <1>2
  <2> HIDE DEF T
  <2>2. p \in Seq(T)
    BY <1>2, <2>1, SeqDef
  <2> QED BY <2>2 DEF IsSequence, T
<1> QED BY <1>1, <1>2, <1>3, <1>4 DEF Adds, p

LEMMA RegisteredTable ==
  ASSUME HandleTable, NEW h, h.id = IdOf(issued + 1), h.project # "none",
         handles' = Append(IF Len(handles) >= MaxHandles THEN Tail(handles) ELSE handles, h),
         issued' = issued + 1, loads' = loads
  PROVE  /\ HandleTable' /\ MeansKept
         /\ Denotes(handles', loads', issued', h.id, [clip |-> h.clip, project |-> h.project])
<1> DEFINE S == {handles[i] : i \in DOMAIN handles} \union {h}
           old == IF Len(handles) >= MaxHandles THEN Tail(handles) ELSE handles
<1>1. /\ loads \in Nat \ {0} /\ issued \in Nat /\ handles \in Seq(S)
      /\ \A i \in DOMAIN handles :
           /\ handles[i].id \in AnyId /\ handles[i].id.load = loads
           /\ handles[i].id.n > 0 /\ handles[i].id.n <= issued
           /\ handles[i].project # "none"
  <2>1. handles \in Seq({handles[i] : i \in DOMAIN handles})
    BY DEF HandleTable, IsSequence
  <2>2. handles \in Seq(S)
    BY <2>1
  <2> QED BY <2>2 DEF HandleTable
<1>2. /\ old \in Seq(S)
      /\ \A i \in 1 .. Len(old) : \E j \in DOMAIN handles : old[i] = handles[j]
  <2>1. CASE Len(handles) >= MaxHandles
    <3>1. Len(handles) \in Nat /\ DOMAIN handles = 1 .. Len(handles) /\ handles # <<>>
      BY <1>1, <2>1, UxpAssumption, LenProperties, EmptySeq
    <3>2. /\ Tail(handles) \in Seq(S) /\ Len(Tail(handles)) = Len(handles) - 1
          /\ \A i \in 1 .. Len(Tail(handles)) : Tail(handles)[i] = handles[i + 1]
      BY <1>1, <3>1, HeadTailProperties
    <3>3. \A i \in 1 .. Len(Tail(handles)) : i + 1 \in DOMAIN handles
      BY <3>1, <3>2
    <3> QED BY <2>1, <3>2, <3>3
  <2>2. CASE ~(Len(handles) >= MaxHandles)
    BY <1>1, <2>2, LenProperties
  <2> QED BY <2>1, <2>2
<1>3. /\ IsSequence(handles')
      /\ \A i \in DOMAIN handles' : handles'[i] = h \/ \E j \in DOMAIN handles : handles'[i] = handles[j]
  <2>1. handles' = Append(old, h) /\ h \in S
    OBVIOUS
  <2> HIDE DEF old, S
  <2>2. Adds(Append(old, h), old, h)
    BY <1>2, <2>1, AppendedTable
  <2>3. Adds(handles', old, h)
    BY <2>1, <2>2
  <2> QED BY <1>2, <2>3 DEF Adds
<1> HIDE DEF S, old
<1>4. h.id \in AnyId /\ h.id.load = loads /\ h.id.n = issued + 1
  BY <1>1 DEF IdOf, AnyId
<1>6. HandleTable'
  <2>1. ASSUME NEW i \in DOMAIN handles'
        PROVE  /\ handles'[i].id \in AnyId /\ handles'[i].id.load = loads'
               /\ handles'[i].id.n > 0 /\ handles'[i].id.n <= issued'
               /\ handles'[i].project # "none"
    <3>1. CASE handles'[i] = h
      BY <1>1, <1>4, <3>1
    <3>2. CASE \E j \in DOMAIN handles : handles'[i] = handles[j]
      <4>1. PICK j \in DOMAIN handles : handles'[i] = handles[j]
        BY <3>2
      <4>2. handles[j].id.n \in Nat
        BY <1>1 DEF AnyId
      <4> QED BY <1>1, <4>1, <4>2
    <3> QED BY <1>3, <2>1, <3>1, <3>2
  <2> QED BY <1>1, <1>3, <2>1 DEF HandleTable
<1>7. ASSUME NEW id, NEW target, Means(id, target)
      PROVE  Denotes(handles', loads', issued', id, target)
  <2>1. /\ id \in AnyId /\ id.load <= loads /\ (id.load = loads => id.n <= issued)
        /\ \A i \in DOMAIN handles : handles[i].id = id =>
             [clip |-> handles[i].clip, project |-> handles[i].project] = target
    BY <1>7 DEF Means, Denotes
  <2>2. id.n \in Nat
    BY <2>1 DEF AnyId
  <2>3. h.id # id /\ id.load <= loads' /\ (id.load = loads' => id.n <= issued')
    BY <1>1, <1>4, <2>1, <2>2
  <2>4. \A i \in DOMAIN handles' : handles'[i].id = id =>
             [clip |-> handles'[i].clip, project |-> handles'[i].project] = target
    BY <1>3, <2>1, <2>3
  <2> QED BY <2>1, <2>3, <2>4 DEF Denotes
<1>8. Denotes(handles', loads', issued', h.id, [clip |-> h.clip, project |-> h.project])
  <2>1. \A j \in DOMAIN handles : handles[j].id.n \in Nat /\ handles[j].id # h.id
    BY <1>1, <1>4 DEF AnyId
  <2>2. loads \in Nat /\ h.id.load <= loads' /\ h.id.n <= issued'
    BY <1>1, <1>4
  <2> QED BY <1>3, <1>4, <2>1, <2>2 DEF Denotes
<1> QED BY <1>6, <1>7, <1>8 DEF MeansKept

LEMMA FindKeeps == ASSUME BridgeInv, NEW t \in Tools, Find(t) PROVE BridgeInv'
<1> DEFINE id == IdOf(issued + 1)
<1>1. /\ exec[t].at = "checks" /\ exec[t].step = "find" /\ InPanel(t)
      /\ UNCHANGED <<current, pending, down, sock, session, loads>>
      /\ issued' = issued + 1 /\ Respond(t, "ok", id)
  BY DEF Find, InPanel, host, socket
<1>2. PICK clip :
        /\ handles' = Registered(clip, exec[t].project)
        /\ call' = [call EXCEPT ![t].found = [clip |-> clip, project |-> exec[t].project]]
  BY DEF Find
<1> DEFINE target == [clip |-> clip, project |-> exec[t].project]
           h == [id |-> id, clip |-> clip, project |-> exec[t].project, seen |-> StateMaterial]
<1>3. /\ exec[t].project # "none" /\ call[t].handle = NoId /\ call[t].touched = NoTarget
      /\ call[t].step \in {"find", "over"}
  BY <1>1, AtWork DEF ExecState, Expected
<1>4. h.id = id /\ h.clip = clip /\ h.project = exec[t].project
  OBVIOUS
<1>5. handles' = Append(IF Len(handles) >= MaxHandles THEN Tail(handles) ELSE handles, h)
  BY <1>2 DEF Registered
<1> HIDE DEF h
<1>6. /\ HandleTable' /\ MeansKept
      /\ Denotes(handles', loads', issued', id, target)
  <2>1. HandleTable /\ loads' = loads /\ h.project # "none"
    BY <1>1, <1>3, <1>4 DEF BridgeInv
  <2>2. [clip |-> h.clip, project |-> h.project] = target
    BY <1>4
  <2> HIDE DEF target
  <2> QED BY <1>1, <1>4, <1>5, <2>1, <2>2, RegisteredTable
<1> HIDE DEF id, target
<1>7. call'[t] = [call[t] EXCEPT !.found = target]
  BY <1>1, <1>2, AtWork DEF target
<1>8. /\ IsCall(call'[t]) /\ call'[t].found = target
      /\ call'[t].step = call[t].step /\ call'[t].op = call[t].op
      /\ call'[t].handle = call[t].handle /\ call'[t].touched = call[t].touched
      /\ call'[t].status = call[t].status
  BY <1>1, <1>7, AtWork DEF IsCall
<1>9. call' = [call EXCEPT ![t] = call'[t]]
  BY <1>1, <1>2, AtWork
<1>10. CallState(call'[t])
  BY <1>1, <1>3, <1>8, AtWork DEF CallState
<1>11. Denotes(handles', loads', issued', call'[t].handle, call'[t].found)
  BY <1>3, <1>6, <1>8 DEF Denotes, NoId, AnyId, HandleTable
<1>12. "ok" \in Answers /\ id \in AnyId
  BY <1>6 DEF Answers, Denotes
<1> QED BY <1>1, <1>3, <1>6, <1>8, <1>9, <1>10, <1>11, <1>12, Responds

(***************************************************************************)
(* The invariant                                                           *)
(***************************************************************************)
IInv == BridgeInv /\ scenario \in Scenarios

LEMMA InitIInv == Init => IInv
<1> SUFFICES ASSUME Init PROVE IInv
  OBVIOUS
<1>1. /\ call = [t \in Tools |-> NotCalled] /\ exec = [t \in Tools |-> NotAsked]
      /\ pending = [t \in Tools |-> NoConn]
      /\ up = [k \in Conns |-> <<>>] /\ down = [k \in Conns |-> <<>>]
      /\ handles = <<>> /\ issued = 0 /\ loads = 1 /\ scenario \in Scenarios
  BY DEF Init
<1>2. {current, sock, session} \subseteq Conns \union {NoConn}
  BY UxpAssumption DEF Init, Loading, Connected, Conns, NoConn
<1>3. CallType
  <2>1. IsCall(NotCalled) /\ NotCalled.handle \in AnyId
    BY DEF IsCall, NotCalled, NoId, AnyId
  <2>2. NotCalled.step = "idle" /\ NotCalled.op \in Operations \union {NoOp}
    BY DEF NotCalled
  <2> QED BY <1>1, <2>1, <2>2 DEF CallType
<1>4. ExecType
  BY <1>1 DEF ExecType, IsExec
<1>5. WireType
  BY <1>1, <1>2, EmptySeq DEF WireType
<1>6. HandleTable
  BY <1>1, EmptySeq DEF HandleTable, IsSequence
<1>7. ASSUME NEW t \in Tools PROVE ToolState(t)
  <2>1. call[t] = NotCalled /\ exec[t] = NotAsked /\ pending[t] = NoConn
    BY <1>1
  <2>2. /\ NotCalled.step = "idle" /\ NotCalled.status = "none" /\ NotCalled.handle = NoId
        /\ NotCalled.touched = NoTarget
    BY DEF NotCalled
  <2>3. CallState(call[t])
    BY <2>1, <2>2 DEF CallState
  <2>4. \A k \in Conns : /\ \A i \in 1 .. Len(down[k]) : FALSE
                         /\ \A i \in 1 .. Len(up[k]) : FALSE
    BY <1>1, EmptySeq
  <2>5. ~InPanel(t) /\ NoToken(t)
    BY <2>1, <2>4 DEF InPanel, NotAsked, NoToken, Sent, Answered, Has
  <2>6. OneToken(t)
    BY <2>4, <2>5 DEF OneToken, NoToken, Once
  <2>7. Means(call[t].handle, call[t].found)
    BY <1>1, <2>1, <2>2 DEF Means, Denotes, NoId, AnyId
  <2> QED BY <2>1, <2>2, <2>3, <2>4, <2>5, <2>6, <2>7 DEF ToolState
<1> QED BY <1>1, <1>3, <1>4, <1>5, <1>6, <1>7 DEF IInv, BridgeInv

LEMMA ScenarioStays == [Next]_vars => scenario' = scenario
<1> SUFFICES ASSUME [Next]_vars PROVE scenario' = scenario
  OBVIOUS
<1>1. ASSUME NEW t \in Tools, ServerSteps(t) \/ Executes(t) \/ KeyFails(t) PROVE scenario' = scenario
  BY <1>1 DEF ServerSteps, Executes, UseTool, Locate, Dispatch, TimesOut, KeyRead, Refuse,
     CaptureContext, Find, Resolve, LostHandle, CallPremiere, Answer, KeyFails, bounds
<1>2. ASSUME NEW k \in Conns, HostSteps(k) \/ PanelSteps(k) \/ Drops(k) PROVE scenario' = scenario
  BY <1>2 DEF HostSteps, PanelSteps, HandleHello, HandleConnect, HandleResponse, HostCloses, Opens,
     PanelCloses, TakeChallenge, TakeConnected, TakeCommand, Drops, bounds
<1>3. ASSUME Click \/ TimerFires \/ Reconnect \/ IdentityRead \/ IdentityFails \/ Reloads \/ UserEdits
      PROVE  scenario' = scenario
  BY <1>3 DEF Click, TimerFires, Reconnect, IdentityRead, IdentityFails, Reloads, UserEdits, bounds
<1> QED BY <1>1, <1>2, <1>3 DEF Next, vars, bounds

LEMMA NextIInv == IInv /\ [Next]_vars => IInv'
<1> SUFFICES ASSUME IInv, [Next]_vars PROVE IInv'
  OBVIOUS
<1>0. BridgeInv /\ scenario \in Scenarios /\ scenario' = scenario
  BY ScenarioStays DEF IInv
<1>1. ASSUME NEW t \in Tools, ServerSteps(t) PROVE BridgeInv'
  BY <1>0, <1>1, UseToolKeeps, LocateKeeps, DispatchFails, DispatchSends, TimesOutKeeps DEF ServerSteps
<1>2. ASSUME NEW t \in Tools, Executes(t) \/ KeyFails(t) PROVE BridgeInv'
  BY <1>0, <1>2, KeyReadKeeps, RefuseKeeps, CaptureContextKeeps, FindKeeps, ResolveKeeps,
     LostHandleKeeps, CallPremiereKeeps, AnswerKeeps, KeyFailsKeeps DEF Executes
<1>3. ASSUME NEW k \in Conns, HostSteps(k) PROVE BridgeInv'
  BY <1>0, <1>3, HandleHelloKeeps, HandleConnectKeeps, HandleResponseKeeps, HostClosesKeeps DEF HostSteps
<1>4. ASSUME NEW k \in Conns, PanelSteps(k) \/ Drops(k) PROVE BridgeInv'
  BY <1>0, <1>4, OpensKeeps, PanelClosesKeeps, TakeChallengeKeeps, TakeConnectedKeeps,
     TakeCommandKeeps, DropsKeeps DEF PanelSteps
<1>5. ASSUME Reloads PROVE BridgeInv'
  BY <1>0, <1>5, ReloadsKeeps
<1>6. ASSUME \/ Click \/ TimerFires \/ Reconnect \/ IdentityRead \/ IdentityFails \/ UserEdits
             \/ UNCHANGED vars
      PROVE  BridgeInv'
  BY <1>0, <1>6, SocketSteps
<1> QED BY <1>0, <1>1, <1>2, <1>3, <1>4, <1>5, <1>6 DEF IInv, Next

(* The invariant holds of the UXP track.                                   *)
THEOREM BridgeInvariance == Spec => []IInv
BY InitIInv, NextIInv, PTL DEF Spec

(* Every command the host waits for was sent over the connection it has    *)
(* now (#settlePendingForSocket settles the others).                       *)
THEOREM NothingPendingElsewhere == Spec => []PendingOnCurrentSocket
<1>1. IInv => PendingOnCurrentSocket
  BY DEF IInv, BridgeInv, ToolState, PendingOnCurrentSocket
<1> QED BY <1>1, BridgeInvariance, PTL

(* A call edits the object its find step resolved, for any number of       *)
(* reloads, reconnects, evictions and changes by the user (semanticHandle, *)
(* handleRecord and sessionPrefix).                                        *)
THEOREM HandlesAreFaithful == Spec => []EditsWhatWasFound
<1>1. IInv => EditsWhatWasFound
  BY DEF IInv, BridgeInv, ToolState, CallState, EditsWhatWasFound
<1> QED BY <1>1, BridgeInvariance, PTL

(* A flagged operation that is recorded FAILED has changed nothing, and no *)
(* command of it is left that could (errorOutcome and the flag the panel   *)
(* sets before it calls Premiere).                                         *)
THEOREM FailuresAreClean == Spec => []FailedEditedNothing
<1>1. IInv => FailedEditedNothing
  BY DEF IInv, BridgeInv, ToolState, CallState, FailedEditedNothing
<1> QED BY <1>1, BridgeInvariance, PTL

(***************************************************************************)
(* Both sides of the connections                                           *)
(***************************************************************************)

(* A panel is told on a connection that it is connected.                   *)
Greeted(k) == \E i \in 1 .. Len(down[k]) : down[k][i].type = "connected"
SideType ==
  /\ hostSide \in [Conns -> {"none", "open", "closing", "closed"}]
  /\ panelSide \in [Conns -> {"none", "opening", "open", "closing", "closed"}]

(* The connections are used in their order.                                *)
Used(n) == \A k \in Conns : panelSide[k] # "none" <=> k <= n
LinkState(k) ==
  /\ panelSide[k] \in {"none", "opening"} => hostSide[k] = "none"
  /\ hostSide[k] = "closed" => panelSide[k] \in {"closing", "closed"}
  /\ current = k => hostSide[k] \in {"open", "closing"}
  /\ session = k \/ Greeted(k) => current = k \/ hostSide[k] \in {"closing", "closed"}
LinkInv == SideType /\ (\E n \in 0 .. MaxConns : Used(n)) /\ (\A k \in Conns : LinkState(k))

(* What is taken from a queue or lost greets nobody; other messages greet  *)
(* as little.                                                              *)
LEMMA GreetsLess ==
  ASSUME WireType, NEW k \in Conns,
         \/ down' = down
         \/ down[k] # <<>> /\ down' = [down EXCEPT ![k] = Tail(@)]
         \/ down' = [down EXCEPT ![k] = <<>>]
         \/ \E m \in ToPanel : m.type # "connected" /\ down' = [down EXCEPT ![k] = Append(@, m)]
  PROVE  \A l \in Conns : Greeted(l)' => Greeted(l)
<1>0. down \in [Conns -> Seq(ToPanel)]
  BY DEF WireType
<1>1. CASE down' = down
  BY <1>1 DEF Greeted
<1>2. ASSUME down[k] # <<>>, down' = [down EXCEPT ![k] = Tail(@)], NEW l \in Conns, Greeted(l)' PROVE Greeted(l)
  <2>1. /\ Len(down[k]) \in Nat \ {0} /\ Len(Tail(down[k])) = Len(down[k]) - 1
        /\ \A i \in 1 .. Len(Tail(down[k])) : Tail(down[k])[i] = down[k][i + 1]
    BY <1>0, <1>2, HeadTailProperties, LenProperties, EmptySeq
  <2>2. CASE l = k
    <3>1. PICK i \in 1 .. Len(Tail(down[k])) : Tail(down[k])[i].type = "connected"
      BY <1>0, <1>2, <2>2 DEF Greeted
    <3>2. i + 1 \in 1 .. Len(down[k]) /\ down[k][i + 1].type = "connected"
      BY <2>1, <3>1
    <3> QED BY <2>2, <3>2 DEF Greeted
  <2>3. CASE l # k
    BY <1>0, <1>2, <2>3 DEF Greeted
  <2> QED BY <2>2, <2>3
<1>3. ASSUME down' = [down EXCEPT ![k] = <<>>], NEW l \in Conns, Greeted(l)' PROVE Greeted(l)
  <2>1. ~(\E i \in 1 .. Len(<<>>) : TRUE)
    BY EmptySeq
  <2>2. l # k
    BY <1>0, <1>3, <2>1 DEF Greeted
  <2> QED BY <1>0, <1>3, <2>2 DEF Greeted
<1>4. ASSUME NEW m \in ToPanel, m.type # "connected", down' = [down EXCEPT ![k] = Append(@, m)],
             NEW l \in Conns, Greeted(l)'
      PROVE  Greeted(l)
  <2>1. /\ Len(down[k]) \in Nat /\ Len(Append(down[k], m)) = Len(down[k]) + 1
        /\ \A i \in 1 .. Len(down[k]) : Append(down[k], m)[i] = down[k][i]
        /\ Append(down[k], m)[Len(down[k]) + 1] = m
    BY <1>0, AppendProperties, LenProperties
  <2>2. CASE l = k
    <3>1. PICK i \in 1 .. Len(down[k]) + 1 : Append(down[k], m)[i].type = "connected"
      BY <1>0, <1>4, <2>1, <2>2 DEF Greeted
    <3>2. i \in 1 .. Len(down[k])
      BY <1>4, <2>1, <3>1
    <3> QED BY <2>1, <2>2, <3>1, <3>2 DEF Greeted
  <2>3. CASE l # k
    BY <1>0, <1>4, <2>3 DEF Greeted
  <2> QED BY <2>2, <2>3
<1> QED BY <1>1, <1>2, <1>3, <1>4

(* A connection is closed, or not, on the panel's side.                    *)
Moves(f, g) ==
  /\ g \in [Conns -> {"none", "opening", "open", "closing", "closed"}]
  /\ \A k \in Conns : g[k] = f[k] \/ (f[k] # "none" /\ f[k] # "closed" /\ g[k] \in {"closing", "closed"})

LEMMA LinksStay ==
  ASSUME LinkInv, Moves(panelSide, panelSide'), UNCHANGED <<hostSide, current>>,
         session' \in {session, NoConn}, \A k \in Conns : Greeted(k)' => Greeted(k)
  PROVE  LinkInv'
<1>1. SideType' /\ \E n \in 0 .. MaxConns : Used(n)'
  BY DEF LinkInv, SideType, Used, Moves
<1>2. ASSUME NEW k \in Conns PROVE LinkState(k)'
  <2>1. LinkState(k) /\ k # NoConn
    BY DEF LinkInv, Conns, NoConn
  <2> QED BY <2>1 DEF LinkState, Moves
<1> QED BY <1>1, <1>2 DEF LinkInv

(* The connections are used in their order.                                *)
LEMMA NextIsUnused ==
  ASSUME LinkInv
  PROVE  \E n \in 0 .. MaxConns : Used(n) /\ NextConn = n + 1
<1>1. PICK n \in 0 .. MaxConns : Used(n)
  BY DEF LinkInv
<1>2. {k \in Conns : panelSide[k] # "none"} = 1 .. n
  BY <1>1, UxpAssumption DEF Used, Conns
<1>3. Cardinality(1 .. n) = n
  BY <1>1, FS_Interval
<1>4. NextConn = 1 + Cardinality(1 .. n)
  BY <1>2 DEF NextConn
<1> QED BY <1>1, <1>3, <1>4

LEMMA LinkOpens ==
  ASSUME LinkInv, NEW f, Moves(panelSide, f), NextConn \in Conns,
         panelSide' = [f EXCEPT ![NextConn] = "opening"],
         UNCHANGED <<hostSide, current, session, down>>
  PROVE  LinkInv'
<1>1. PICK n \in 0 .. MaxConns : Used(n) /\ NextConn = n + 1
  BY NextIsUnused
<1>2. n + 1 \in Conns /\ panelSide[n + 1] = "none"
  BY <1>1 DEF Used
<1>3. \A k \in Conns : panelSide'[k] = IF k = n + 1 THEN "opening" ELSE f[k]
  BY <1>1 DEF Moves
<1>4. SideType'
  BY <1>1 DEF LinkInv, SideType, Moves
<1>5. Used(n + 1)' /\ n + 1 \in 0 .. MaxConns
  BY <1>1, <1>2, <1>3 DEF Used, Moves, Conns
<1>6. ASSUME NEW k \in Conns PROVE LinkState(k)'
  <2>1. LinkState(k) /\ (Greeted(k)' <=> Greeted(k))
    BY DEF LinkInv, Greeted
  <2>2. CASE k = n + 1
    BY <1>2, <1>3, <2>1, <2>2 DEF LinkState
  <2>3. CASE k # n + 1
    BY <1>3, <2>1, <2>3 DEF LinkState, Moves
  <2> QED BY <2>2, <2>3
<1> QED BY <1>4, <1>5, <1>6 DEF LinkInv

(* The panel connects, or is about to.                                     *)
LEMMA ConnectLinks ==
  ASSUME LinkInv, WireType, NEW s, NEW known, Connect(s, known),
         UNCHANGED <<hostSide, current, session, down>>
  PROVE  LinkInv'
<1>1. Moves(panelSide, Closing(sock))
  BY DEF Moves, Closing, Live, LinkInv, SideType, WireType
<1>2. CASE identity
  BY <1>1, <1>2, LinkOpens DEF Connect
<1>3. CASE ~identity
  <2>1. panelSide' = Closing(sock)
    BY <1>3 DEF Connect
  <2> QED BY <1>1, <2>1, LinksStay DEF Greeted
<1> QED BY <1>2, <1>3

LEMMA SocketLinks ==
  ASSUME LinkInv, WireType, Click \/ TimerFires \/ Reconnect \/ IdentityRead \/ IdentityFails \/ UserEdits
  PROVE  LinkInv'
<1>1. UNCHANGED <<hostSide, current, session, down>> 
  BY DEF Click, TimerFires, Reconnect, IdentityRead, IdentityFails, UserEdits, host, wire, panel, socket
<1>2. Moves(panelSide, panelSide)
  BY DEF Moves, LinkInv, SideType
<1>3. CASE UNCHANGED panelSide
  BY <1>1, <1>2, <1>3, LinksStay DEF Greeted
<1>4. CASE \E s, known : Connect(s, known)
  BY <1>1, <1>4, ConnectLinks
<1>5. CASE IdentityRead
  BY <1>1, <1>2, <1>5, LinkOpens DEF IdentityRead
<1> QED BY <1>3, <1>4, <1>5 DEF Click, TimerFires, Reconnect, IdentityFails, UserEdits, panel, socket

(* The panel's side is closed, is loaded anew, or takes a message.         *)
LEMMA PanelLinks ==
  ASSUME LinkInv, WireType,
         \/ Reloads \/ (\E t \in Tools : KeyFails(t))
         \/ \E k \in Conns : PanelCloses(k) \/ TakeChallenge(k) \/ TakeCommand(k)
  PROVE  LinkInv'
<1>0. UNCHANGED <<hostSide, current>> /\ session' \in {session, NoConn}
  BY DEF Reloads, KeyFails, PanelCloses, TakeChallenge, TakeCommand, host, panel, socket
<1>1. panelSide \in [Conns -> {"none", "opening", "open", "closing", "closed"}]
  BY DEF LinkInv, SideType
<1>2. \A k \in Conns : Moves(panelSide, Closing(k)) /\ Moves(panelSide, panelSide)
  BY <1>1 DEF Moves, Closing, Live
<1>3. CASE Reloads
  <2>1. panelSide' = [k \in Conns |-> IF Live(k) THEN "closing" ELSE panelSide[k]] /\ down' = down
    BY <1>3 DEF Reloads, wire
  <2>2. Moves(panelSide, panelSide')
    BY <1>1, <2>1 DEF Moves, Live
  <2> QED BY <1>0, <2>1, <2>2, LinksStay DEF Greeted
<1>4. ASSUME NEW t \in Tools, KeyFails(t) PROVE LinkInv'
  <2>1. panelSide' = Closing(exec[t].conn) /\ down' = down
    BY <1>4 DEF KeyFails, wire
  <2>2. Moves(panelSide, panelSide')
    BY <1>1, <2>1 DEF Moves, Closing, Live
  <2> QED BY <1>0, <2>1, <2>2, LinksStay DEF Greeted
<1>5. ASSUME NEW k \in Conns, PanelCloses(k) PROVE LinkInv'
  <2>1. panelSide' = [panelSide EXCEPT ![k] = "closed"] /\ panelSide[k] \in {"open", "closing"} /\ down' = down
    BY <1>5 DEF PanelCloses, wire
  <2>2. Moves(panelSide, panelSide')
    BY <1>1, <2>1 DEF Moves
  <2> QED BY <1>0, <2>1, <2>2, LinksStay DEF Greeted
<1>6. ASSUME NEW k \in Conns, TakeChallenge(k) \/ TakeCommand(k) PROVE LinkInv'
  <2>1. /\ down[k] # <<>> /\ down' = [down EXCEPT ![k] = Tail(@)]
        /\ panelSide' \in {panelSide, Closing(k)}
    BY <1>6 DEF TakeChallenge, TakeCommand, FromHost, panel, socket
  <2>2. \A l \in Conns : Greeted(l)' => Greeted(l)
    BY <2>1, GreetsLess
  <2> QED BY <1>0, <1>2, <2>1, <2>2, LinksStay
<1> QED BY <1>3, <1>4, <1>5, <1>6

(* The panel is told that it is connected.                                 *)
LEMMA ConnectedLinks ==
  ASSUME LinkInv, WireType, NEW k \in Conns, TakeConnected(k)
  PROVE  LinkInv'
<1>1. /\ panelSide[k] = "open" /\ down[k] # <<>> /\ Head(down[k]).type = "connected"
      /\ down' = [down EXCEPT ![k] = Tail(@)]
      /\ session' \in {session, k} /\ UNCHANGED <<hostSide, current, panelSide>>
  BY DEF TakeConnected, FromHost, host
<1>2. Greeted(k)
  <2>1. down[k] \in Seq(ToPanel)
    BY DEF WireType
  <2>2. Len(down[k]) \in Nat \ {0} /\ Head(down[k]) = down[k][1]
    BY <1>1, <2>1, HeadTailProperties, LenProperties, EmptySeq
  <2>3. 1 \in 1 .. Len(down[k])
    BY <2>2
  <2> QED BY <1>1, <2>2, <2>3 DEF Greeted
<1>3. \A l \in Conns : Greeted(l)' => Greeted(l)
  BY <1>1, GreetsLess
<1>4. ASSUME NEW l \in Conns PROVE LinkState(l)'
  BY <1>1, <1>2, <1>3 DEF LinkInv, LinkState
<1> QED BY <1>1, <1>4 DEF LinkInv, SideType, Used

(* A connection opens, or is lost.                                         *)
LEMMA OpensLinks ==
  ASSUME LinkInv, WireType, NEW k \in Conns, Opens(k) \/ Drops(k)
  PROVE  LinkInv'
<1>1. CASE Opens(k)
  <2>1. /\ panelSide[k] = "opening" /\ panelSide' = [panelSide EXCEPT ![k] = "open"]
        /\ hostSide' = [hostSide EXCEPT ![k] = "open"] /\ UNCHANGED <<current, session, down>>
    BY <1>1 DEF Opens
  <2>2. SideType' /\ \E n \in 0 .. MaxConns : Used(n)'
    BY <2>1 DEF LinkInv, SideType, Used
  <2>3. ASSUME NEW l \in Conns PROVE LinkState(l)'
    <3>1. LinkState(l) /\ (Greeted(l)' <=> Greeted(l))
      BY <2>1 DEF LinkInv, Greeted
    <3> QED BY <2>1, <3>1 DEF LinkState, LinkInv, SideType
  <2> QED BY <2>2, <2>3 DEF LinkInv
<1>2. CASE Drops(k)
  <2>1. /\ panelSide' = [panelSide EXCEPT ![k] = "closing"] /\ panelSide[k] \in {"opening", "open"}
        /\ hostSide' = [hostSide EXCEPT ![k] = IF @ = "open" THEN "closing" ELSE @]
        /\ down' = [down EXCEPT ![k] = <<>>] /\ UNCHANGED <<current, session>>
    BY <1>2 DEF Drops, Closing, Live
  <2>2. SideType' /\ \E n \in 0 .. MaxConns : Used(n)'
    BY <2>1 DEF LinkInv, SideType, Used
  <2>3. \A l \in Conns : Greeted(l)' => Greeted(l)
    BY <2>1, GreetsLess
  <2>4. ASSUME NEW l \in Conns PROVE LinkState(l)'
    BY <2>1, <2>3 DEF LinkInv, LinkState, SideType
  <2> QED BY <2>2, <2>4 DEF LinkInv
<1> QED BY <1>1, <1>2

(* The host's side of a connection.                                        *)
LEMMA HostLinks ==
  ASSUME LinkInv, WireType, NEW k \in Conns, HostSteps(k)
  PROVE  LinkInv'
<1>0. panelSide' = panelSide /\ session' = session
  BY DEF HostSteps, HandleHello, HandleConnect, HandleResponse, HostCloses, panel, socket
<1>1. Moves(panelSide, panelSide')
  BY <1>0 DEF Moves, LinkInv, SideType
<1>2. CASE HandleHello(k)
  <2>1. [type |-> "challenge"] \in ToPanel
    BY DEF ToPanel
  <2>2. down' = [down EXCEPT ![k] = Append(@, [type |-> "challenge"])] /\ UNCHANGED <<hostSide, current>>
    BY <1>2 DEF HandleHello, host
  <2>3. \A l \in Conns : Greeted(l)' => Greeted(l)
    BY <2>1, <2>2, GreetsLess
  <2> QED BY <1>0, <1>1, <2>2, <2>3, LinksStay
<1>3. CASE HandleResponse(k)
  BY <1>0, <1>1, <1>3, LinksStay DEF HandleResponse, Greeted
<1>4. CASE HostCloses(k)
  <2>1. /\ panelSide[k] \in {"closing", "closed"} /\ hostSide' = [hostSide EXCEPT ![k] = "closed"]
        /\ current' = IF current = k THEN NoConn ELSE current
        /\ down' = down
    BY <1>4 DEF HostCloses, wire
  <2>2. ASSUME NEW l \in Conns PROVE LinkState(l)'
    <3>1. LinkState(l) /\ (Greeted(l)' <=> Greeted(l)) /\ l # NoConn
      BY <2>1 DEF LinkInv, Greeted, Conns, NoConn
    <3> QED BY <1>0, <2>1, <3>1 DEF LinkState, LinkInv, SideType
  <2> QED BY <1>0, <2>1, <2>2 DEF LinkInv, SideType, Used
<1>5. CASE HandleConnect(k)
  <2>1. /\ hostSide[k] \in {"open", "closing"}
        /\ hostSide' = IF current \notin {NoConn, k} THEN [hostSide EXCEPT ![current] = "closing"] ELSE hostSide
        /\ current' = k
        /\ down' = [down EXCEPT ![k] = Append(@, [type |-> "connected"])]
    BY <1>5 DEF HandleConnect, FromPanel
  <2>2. \A l \in Conns : l # k /\ Greeted(l)' => Greeted(l)
    BY <2>1 DEF WireType, Greeted
  <2>3. current \in Conns \union {NoConn}
    BY DEF WireType
  <2>4. ASSUME NEW l \in Conns PROVE LinkState(l)'
    <3>1. LinkState(l) /\ l # NoConn /\ LinkState(k)
      BY DEF LinkInv, Conns, NoConn
    <3> QED BY <1>0, <2>1, <2>2, <2>3, <3>1 DEF LinkState, LinkInv, SideType
  <2> QED BY <1>0, <2>1, <2>3, <2>4 DEF LinkInv, SideType, Used
<1> QED BY <1>2, <1>3, <1>4, <1>5 DEF HostSteps

(* The server's steps, and the panel at work.                              *)
LEMMA WorkLinks ==
  ASSUME LinkInv, WireType, NEW t \in Tools, ServerSteps(t) \/ Executes(t)
  PROVE  LinkInv'
<1>1. UNCHANGED <<hostSide, current, panelSide, session>>
  BY DEF ServerSteps, UseTool, Locate, Dispatch, TimesOut, Executes, KeyRead, Refuse, CaptureContext, Find,
     Resolve, LostHandle, CallPremiere, Answer, host, panel, socket
<1>2. Moves(panelSide, panelSide')
  BY <1>1 DEF Moves, LinkInv, SideType
<1>3. CASE down' = down
  BY <1>1, <1>2, <1>3, LinksStay DEF Greeted
<1>4. CASE Dispatch(t) /\ down' # down
  <2>1. /\ down' = [down EXCEPT ![current] = Append(@, [type |-> "command", call |-> t, step |-> call[t].step])]
        /\ current \in Conns /\ call[t].step \in {"find", "edit"}
    BY <1>4 DEF Dispatch, connected, WireType
  <2>2. [type |-> "command", call |-> t, step |-> call[t].step] \in ToPanel
    BY <2>1 DEF ToPanel
  <2>3. \A l \in Conns : Greeted(l)' => Greeted(l)
    BY <2>1, <2>2, GreetsLess
  <2> QED BY <1>1, <1>2, <2>3, LinksStay
<1> QED BY <1>3, <1>4 DEF ServerSteps, UseTool, Locate, TimesOut, Executes, KeyRead, Refuse, CaptureContext,
      Find, Resolve, LostHandle, CallPremiere, Answer, wire

LEMMA InitLinkInv == ASSUME Init PROVE LinkInv
<1>1. MaxConns \in Nat \ {0}
  BY UxpAssumption
<1>2. \A k \in Conns : ~Greeted(k)
  BY EmptySeq DEF Init, Greeted
<1>3. CASE Loading
  <2>1. Used(0) /\ 0 \in 0 .. MaxConns
    BY <1>1, <1>3 DEF Loading, Used, Conns
  <2> QED BY <1>2, <1>3, <2>1 DEF Loading, LinkInv, SideType, LinkState, Conns, NoConn
<1>4. CASE Connected
  <2>1. Used(1) /\ 1 \in 0 .. MaxConns
    BY <1>1, <1>4 DEF Connected, Used, Conns
  <2> QED BY <1>2, <1>4, <2>1 DEF Connected, LinkInv, SideType, LinkState, Conns, NoConn
<1> QED BY <1>3, <1>4 DEF Init

LEMMA NextLinkInv == ASSUME LinkInv, WireType, [Next]_vars PROVE LinkInv'
<1>1. CASE UNCHANGED vars
  BY <1>1 DEF LinkInv, SideType, Used, LinkState, Greeted, vars, host, wire, panel, socket
<1>2. ASSUME NEW t \in Tools, ServerSteps(t) \/ Executes(t) \/ KeyFails(t) PROVE LinkInv'
  BY <1>2, WorkLinks, PanelLinks
<1>3. ASSUME NEW k \in Conns, HostSteps(k) \/ PanelSteps(k) \/ Drops(k) PROVE LinkInv'
  BY <1>3, HostLinks, PanelLinks, ConnectedLinks, OpensLinks DEF PanelSteps
<1> QED BY <1>1, <1>2, <1>3, SocketLinks, PanelLinks DEF Next

(* A panel that takes itself for connected is on the connection the host   *)
(* has, or on one it is closing (#handleConnect and the close handlers of  *)
(* both sides), for any number of connections.                             *)
THEOREM ConnectedIsCurrent == Spec => []ConnectedPanelIsCurrent
<1>1. Init => LinkInv
  BY InitLinkInv
<1>2. IInv /\ LinkInv /\ [Next]_vars => LinkInv'
  BY NextLinkInv DEF IInv, BridgeInv
<1>3. LinkInv /\ IInv => ConnectedPanelIsCurrent
  BY DEF LinkInv, LinkState, ConnectedPanelIsCurrent, IInv, BridgeInv, WireType
<1> QED BY <1>1, <1>2, <1>3, BridgeInvariance, PTL DEF Spec

(***************************************************************************)
(* Messages: those of g are those of f, or of X.                           *)
(***************************************************************************)
From(f, g, X) ==
  \A l \in Conns : \A i \in 1 .. Len(g[l]) : g[l][i] \in X \/ \E j \in 1 .. Len(f[l]) : f[l][j] = g[l][i]

LEMMA NewMessages ==
  ASSUME NEW M, NEW f \in [Conns -> Seq(M)], NEW k \in Conns, NEW g, NEW X,
         \/ g = f
         \/ f[k] # <<>> /\ g = [f EXCEPT ![k] = Tail(@)]
         \/ g = [f EXCEPT ![k] = <<>>]
         \/ \E m \in M \intersect X : g = [f EXCEPT ![k] = Append(@, m)]
  PROVE  From(f, g, X)
<1>1. CASE g = f
  BY <1>1 DEF From
<1>2. CASE f[k] # <<>> /\ g = [f EXCEPT ![k] = Tail(@)]
  <2>1. /\ Len(f[k]) \in Nat \ {0} /\ Len(Tail(f[k])) = Len(f[k]) - 1
        /\ \A i \in 1 .. Len(Tail(f[k])) : Tail(f[k])[i] = f[k][i + 1]
    BY <1>2, HeadTailProperties, LenProperties, EmptySeq
  <2>2. \A i \in 1 .. Len(Tail(f[k])) : i + 1 \in 1 .. Len(f[k])
    BY <2>1
  <2> QED BY <1>2, <2>1, <2>2 DEF From
<1>3. CASE g = [f EXCEPT ![k] = <<>>]
  <2>1. \A i \in 1 .. Len(<<>>) : FALSE
    BY EmptySeq
  <2> QED BY <1>3, <2>1 DEF From
<1>4. ASSUME NEW m \in M \intersect X, g = [f EXCEPT ![k] = Append(@, m)] PROVE From(f, g, X)
  <2>1. /\ Len(f[k]) \in Nat /\ Len(Append(f[k], m)) = Len(f[k]) + 1
        /\ \A i \in 1 .. Len(f[k]) : Append(f[k], m)[i] = f[k][i]
        /\ Append(f[k], m)[Len(f[k]) + 1] = m
    BY AppendProperties, LenProperties
  <2>2. ASSUME NEW i \in 1 .. Len(g[k]) PROVE g[k][i] \in X \/ \E j \in 1 .. Len(f[k]) : f[k][j] = g[k][i]
    <3>1. g[k] = Append(f[k], m) /\ (i \in 1 .. Len(f[k]) \/ i = Len(f[k]) + 1)
      BY <1>4, <2>1, <2>2
    <3> QED BY <2>1, <3>1
  <2>3. \A l \in Conns : l # k => g[l] = f[l]
    BY <1>4
  <2> QED BY <2>2, <2>3 DEF From
<1> QED BY <1>1, <1>2, <1>3, <1>4

LEMMA FirstMessage ==
  ASSUME NEW M, NEW f \in [Conns -> Seq(M)], NEW k \in Conns, f[k] # <<>>
  PROVE  Head(f[k]) \in M /\ \E i \in 1 .. Len(f[k]) : f[k][i] = Head(f[k])
<1>1. /\ Len(f[k]) \in Nat \ {0} /\ Head(f[k]) \in M /\ Head(f[k]) = f[k][1]
  BY HeadTailProperties, LenProperties, EmptySeq
<1>2. 1 \in 1 .. Len(f[k])
  BY <1>1
<1> QED BY <1>1, <1>2

(***************************************************************************)
(* A call finds an object once, so that no load of the panel issues more   *)
(* handles than there are calls.                                           *)
(***************************************************************************)
HasFound == {t \in Tools : call[t].found # NoTarget}

FindState(t) ==
  /\ call[t].status \in {"none", "SUCCEEDED", "FAILED", "UNKNOWN"}
  /\ call[t].handle.n <= Cardinality(Tools)
  /\ call[t].step \in {"idle", "locate"} => call[t].found = NoTarget
  /\ call[t].step = "find" /\ pending[t] = NoConn => call[t].found = NoTarget
  /\ InPanel(t) /\ exec[t].step = "find" => call[t].found = NoTarget
CommandToFind(m)  == m.type = "command" /\ m.step = "find" => call[m.call].found = NoTarget
ResponseCounts(m) == m.type = "response" => m.handle.n <= Cardinality(Tools)

FindInv ==
  /\ issued <= Cardinality(HasFound)
  /\ \A t \in Tools : FindState(t)
  /\ \A k \in Conns : /\ \A i \in 1 .. Len(down[k]) : CommandToFind(down[k][i])
                      /\ \A i \in 1 .. Len(up[k]) : ResponseCounts(up[k][i])

ToFind == {m \in ToPanel : CommandToFind(m)}
Counts == {m \in ToHost : ResponseCounts(m)}

LEMMA Counted ==
  /\ Cardinality(Tools) \in Nat /\ Cardinality(HasFound) \in Nat
  /\ Cardinality(HasFound) <= Cardinality(Tools)
  /\ IsFiniteSet(HasFound)
BY UxpAssumption, FS_Subset, FS_CardinalityType DEF HasFound

LEMMA FoundStays ==
  ASSUME FindInv, WireType, \A t \in Tools : call'[t].found = call[t].found /\ FindState(t)',
         From(down, down', ToFind), From(up, up', Counts), issued' \in {issued, 0}
  PROVE  FindInv'
<1>1. HasFound' = HasFound
  BY DEF HasFound
<1>2. issued' <= Cardinality(HasFound)
  BY Counted DEF FindInv
<1>3. ASSUME NEW k \in Conns, NEW i \in 1 .. Len(down'[k]) PROVE CommandToFind(down[k][i])'
  <2>1. \A j \in 1 .. Len(down[k]) : down[k][j] \in ToPanel
    BY ElementOfSeq DEF WireType
  <2>2. CommandToFind(down'[k][i]) /\ down'[k][i] \in ToPanel
    BY <1>3, <2>1 DEF From, ToFind, FindInv
  <2>3. down'[k][i].type = "command" => down'[k][i].call \in Tools
    BY <2>2 DEF ToPanel
  <2> QED BY <2>2, <2>3 DEF CommandToFind
<1>4. ASSUME NEW k \in Conns, NEW i \in 1 .. Len(up'[k]) PROVE ResponseCounts(up[k][i])'
  BY <1>4 DEF From, Counts, FindInv, ResponseCounts
<1> QED BY <1>1, <1>2, <1>3, <1>4 DEF FindInv

(* Steps that leave the calls alone.                                       *)
LEMMA CallsAlone ==
  ASSUME FindInv, WireType, UNCHANGED <<call, pending, exec>>,
         From(down, down', ToFind), From(up, up', Counts), issued' \in {issued, 0}
  PROVE  FindInv'
<1>1. \A t \in Tools : call'[t].found = call[t].found /\ FindState(t)'
  BY DEF FindInv, FindState, InPanel
<1> QED BY <1>1, FoundStays

LEMMA WireAlone == ASSUME UNCHANGED <<up, down>> PROVE From(down, down', ToFind) /\ From(up, up', Counts)
BY DEF From

LEMMA SocketFind ==
  ASSUME FindInv, WireType,
         \/ Click \/ TimerFires \/ Reconnect \/ IdentityRead \/ IdentityFails \/ UserEdits
         \/ UNCHANGED vars \/ \E k \in Conns : PanelCloses(k)
  PROVE  FindInv'
<1>1. UNCHANGED <<call, pending, up, down, exec, issued>>
  BY DEF Click, TimerFires, Reconnect, IdentityRead, IdentityFails, UserEdits, PanelCloses, vars, panel, host, wire
<1> QED BY <1>1, CallsAlone, WireAlone

LEMMA WireFind ==
  ASSUME FindInv, WireType, NEW k \in Conns,
         Opens(k) \/ Drops(k) \/ HandleHello(k) \/ TakeChallenge(k) \/ TakeConnected(k)
  PROVE  FindInv'
<1>1. UNCHANGED <<call, pending, exec, issued>>
  BY DEF Opens, Drops, HandleHello, TakeChallenge, TakeConnected, host, panel, socket
<1> DEFINE hello == [type |-> "hello"]
           proof == [type |-> "connect"]
           challenge == [type |-> "challenge"]
<1>2. /\ hello \in ToHost \intersect Counts /\ proof \in ToHost \intersect Counts
      /\ challenge \in ToPanel \intersect ToFind
  BY DEF ToHost, ToPanel, Counts, ToFind, ResponseCounts, CommandToFind
<1>3. up \in [Conns -> Seq(ToHost)] /\ down \in [Conns -> Seq(ToPanel)]
  BY DEF WireType
<1>4. CASE Opens(k)
  <2>1. down' = down /\ (up' = up \/ up' = [up EXCEPT ![k] = Append(@, hello)])
    BY <1>4 DEF Opens
  <2> HIDE DEF hello
  <2> QED BY <1>1, <1>2, <1>3, <2>1, NewMessages, CallsAlone
<1>5. CASE Drops(k)
  <2>1. down' = [down EXCEPT ![k] = <<>>] /\ up' = [up EXCEPT ![k] = <<>>]
    BY <1>5 DEF Drops
  <2> QED BY <1>1, <1>3, <2>1, NewMessages, CallsAlone
<1>6. CASE HandleHello(k)
  <2>1. /\ up[k] # <<>> /\ up' = [up EXCEPT ![k] = Tail(@)]
        /\ down' = [down EXCEPT ![k] = Append(@, challenge)]
    BY <1>6 DEF HandleHello, FromPanel
  <2> HIDE DEF challenge
  <2> QED BY <1>1, <1>2, <1>3, <2>1, NewMessages, CallsAlone
<1>7. CASE TakeChallenge(k) \/ TakeConnected(k)
  <2>1. /\ down[k] # <<>> /\ down' = [down EXCEPT ![k] = Tail(@)]
        /\ up' = up \/ up' = [up EXCEPT ![k] = Append(@, proof)]
    BY <1>7 DEF TakeChallenge, TakeConnected, FromHost
  <2> HIDE DEF proof
  <2> QED BY <1>1, <1>2, <1>3, <2>1, NewMessages, CallsAlone
<1> QED BY <1>4, <1>5, <1>6, <1>7

(* What is known of a call that is settled, and of one that is not.        *)
LEMMA SettledFind ==
  ASSUME FindInv, CallType, NEW T, NEW answer, NEW handle,
         answer \in Answers \union {"UXP_UNAVAILABLE", "UXP_TIMEOUT", "UXP_CLOSED", "UXP_DISCONNECTED", "UXP_REPLACED"},
         handle.n <= Cardinality(Tools),
         call' = Settled(T, answer, handle), exec' = exec,
         \A t \in Tools : t \notin T => pending'[t] = pending[t]
  PROVE  \A t \in Tools : call'[t].found = call[t].found /\ FindState(t)'
<1>1. SUFFICES ASSUME NEW t \in Tools PROVE call'[t].found = call[t].found /\ FindState(t)'
  OBVIOUS
<1>2. FindState(t) /\ IsCall(call[t])
  BY DEF FindInv, CallType
<1>3. CASE t \notin T
  <2>1. call'[t] = call[t] /\ pending'[t] = pending[t]
    BY <1>3 DEF Settled
  <2> QED BY <1>2, <2>1 DEF FindState, InPanel
<1>4. CASE t \in T /\ answer = "ok" /\ call[t].step = "find"
  <2>1. call'[t] = [call[t] EXCEPT !.step = "edit", !.handle = handle]
    BY <1>4 DEF Settled
  <2>2. /\ call'[t].step = "edit" /\ call'[t].handle = handle /\ call'[t].found = call[t].found
        /\ call'[t].status = call[t].status
    BY <1>2, <2>1 DEF IsCall
  <2> QED BY <1>2, <2>2 DEF FindState, InPanel
<1>5. CASE t \in T /\ ~(answer = "ok" /\ call[t].step = "find")
  <2>1. call'[t] = [call[t] EXCEPT !.step = "over", !.status = Status(answer)]
    BY <1>5 DEF Settled
  <2>2. /\ call'[t].step = "over" /\ call'[t].handle = call[t].handle /\ call'[t].found = call[t].found
        /\ call'[t].status = Status(answer)
    BY <1>2, <2>1 DEF IsCall
  <2>3. Status(answer) \in {"none", "SUCCEEDED", "FAILED", "UNKNOWN"}
    BY DEF Status, Answers
  <2> QED BY <1>2, <2>2, <2>3 DEF FindState, InPanel
<1> QED BY <1>3, <1>4, <1>5

LEMMA NoIdCounts == NoId.n <= Cardinality(Tools)
BY Counted DEF NoId

LEMMA TimesOutFind ==
  ASSUME FindInv, CallType, WireType, NEW t \in Tools, TimesOut(t)
  PROVE  FindInv'
<1>1. /\ pending' = [pending EXCEPT ![t] = NoConn] /\ call' = Settled({t}, "UXP_TIMEOUT", NoId)
      /\ UNCHANGED <<up, down, exec, issued>>
  BY DEF TimesOut, wire, panel
<1>2. \A u \in Tools : u \notin {t} => pending'[u] = pending[u]
  BY <1>1 DEF WireType
<1>3. \A u \in Tools : call'[u].found = call[u].found /\ FindState(u)'
  BY <1>1, <1>2, SettledFind, NoIdCounts
<1> QED BY <1>1, <1>3, FoundStays, WireAlone

LEMMA SettlesFind ==
  ASSUME FindInv, CallType, NEW k, NEW code, code \in {"UXP_REPLACED", "UXP_DISCONNECTED"},
         SettlePendingForSocket(k, code), exec' = exec
  PROVE  \A t \in Tools : call'[t].found = call[t].found /\ FindState(t)'
<1>1. /\ call' = Settled(PendingFor(k), code, NoId)
      /\ \A t \in Tools : t \notin PendingFor(k) => pending'[t] = pending[t]
  BY DEF SettlePendingForSocket, PendingFor
<1> QED BY <1>1, SettledFind, NoIdCounts

LEMMA HostFind ==
  ASSUME FindInv, CallType, WireType, NEW k \in Conns, HostCloses(k) \/ HandleConnect(k)
  PROVE  FindInv'
<1>1. UNCHANGED <<exec, issued>>
  BY DEF HostCloses, HandleConnect, panel
<1>2. \A t \in Tools : call'[t].found = call[t].found /\ FindState(t)'
  <2>1. CASE UNCHANGED <<call, pending>>
    BY <1>1, <2>1 DEF FindInv, FindState, InPanel
  <2>2. CASE \E j, code : code \in {"UXP_REPLACED", "UXP_DISCONNECTED"} /\ SettlePendingForSocket(j, code)
    BY <1>1, <2>2, SettlesFind
  <2> QED BY <2>1, <2>2 DEF HostCloses, HandleConnect
<1>3. From(down, down', ToFind) /\ From(up, up', Counts)
  <2>1. CASE HostCloses(k)
    BY <2>1, WireAlone DEF HostCloses, wire
  <2>2. CASE HandleConnect(k)
    <3>1. /\ up[k] # <<>> /\ up' = [up EXCEPT ![k] = Tail(@)]
          /\ down' = [down EXCEPT ![k] = Append(@, [type |-> "connected"])]
      BY <2>2 DEF HandleConnect, FromPanel
    <3>2. [type |-> "connected"] \in ToPanel \intersect ToFind
      BY DEF ToPanel, ToFind, CommandToFind
    <3>3. up \in [Conns -> Seq(ToHost)] /\ down \in [Conns -> Seq(ToPanel)]
      BY DEF WireType
    <3>4. From(up, up', Counts)
      BY <3>1, <3>3, NewMessages
    <3>5. From(down, down', ToFind)
      BY <3>1, <3>2, <3>3, NewMessages
    <3> QED BY <3>4, <3>5
  <2> QED BY <2>1, <2>2
<1> QED BY <1>1, <1>2, <1>3, FoundStays

(* The panel at work on a command, and what it gives up.                   *)
SameFind ==
  /\ pending' = pending
  /\ \A t \in Tools : /\ call'[t].found = call[t].found /\ call'[t].step = call[t].step
                      /\ call'[t].handle = call[t].handle /\ call'[t].status = call[t].status
SameSteps == \A t \in Tools : exec'[t].at # "none" => InPanel(t) /\ exec'[t].step = exec[t].step

LEMMA WorkFind ==
  ASSUME FindInv, WireType, SameFind, SameSteps,
         From(down, down', ToFind), From(up, up', Counts), issued' \in {issued, 0}
  PROVE  FindInv'
<1>1. \A t \in Tools : call'[t].found = call[t].found /\ FindState(t)'
  BY DEF FindInv, FindState, InPanel, SameFind, SameSteps
<1> QED BY <1>1, FoundStays

LEMMA StepStays ==
  ASSUME ExecType, NEW t \in Tools, NEW e, exec' = [exec EXCEPT ![t] = e],
         e.at # "none" => InPanel(t) /\ e.step = exec[t].step
  PROVE  SameSteps
<1>1. exec'[t] = e /\ \A u \in Tools \ {t} : exec'[u] = exec[u]
  BY DEF ExecType
<1> QED BY <1>1 DEF SameSteps, InPanel

LEMMA AdvancesFind ==
  ASSUME FindInv, BridgeInv, NEW t \in Tools, KeyRead(t) \/ CaptureContext(t) \/ Resolve(t)
  PROVE  FindInv'
<1>1. InPanel(t) /\ UNCHANGED <<call, pending, up, down, issued>>
  BY DEF KeyRead, CaptureContext, Resolve, InPanel, host, wire
<1>2. SameFind
  BY <1>1 DEF SameFind
<1>3. \E e : exec' = [exec EXCEPT ![t] = e] /\ e.step = exec[t].step
  <2>1. CASE KeyRead(t)
    <3> DEFINE e == [exec[t] EXCEPT !.at = "context", !.session = session]
    <3>1. exec' = [exec EXCEPT ![t] = e] /\ e.step = exec[t].step
      BY <1>1, <2>1, AtWork DEF KeyRead
    <3> QED BY <3>1
  <2>2. CASE CaptureContext(t)
    <3> DEFINE at == IF call[t].op.handle = "none" THEN "premiere" ELSE "checks"
               e == [exec[t] EXCEPT !.project = active,
                                    !.target = [clip |-> "none", project |-> active], !.at = at]
    <3>1. exec' = [exec EXCEPT ![t] = e] /\ e.step = exec[t].step
      BY <1>1, <2>2, AtWork DEF CaptureContext
    <3> QED BY <3>1
  <2>3. CASE Resolve(t)
    <3>1. PICK h : exec' = [exec EXCEPT ![t].at = "premiere",
                              ![t].target = [clip |-> h.clip, project |-> h.project]]
      BY <2>3 DEF Resolve
    <3> DEFINE e == [exec[t] EXCEPT !.at = "premiere", !.target = [clip |-> h.clip, project |-> h.project]]
    <3>2. exec' = [exec EXCEPT ![t] = e] /\ e.step = exec[t].step
      BY <1>1, <3>1, AtWork
    <3> QED BY <3>2
  <2> QED BY <2>1, <2>2, <2>3
<1>4. SameSteps
  BY <1>1, <1>3, StepStays DEF BridgeInv
<1> QED BY <1>1, <1>2, <1>4, WorkFind, WireAlone DEF BridgeInv

LEMMA CallPremiereFind == ASSUME FindInv, BridgeInv, NEW t \in Tools, CallPremiere(t) PROVE FindInv'
<1>1. InPanel(t) /\ UNCHANGED <<pending, up, down, issued>>
  BY DEF CallPremiere, InPanel, host, wire
<1>2. PICK did : /\ exec' = [exec EXCEPT ![t].at = "readback", ![t].did = did]
                 /\ call' = call \/ call' = [call EXCEPT ![t].touched = exec[t].target]
  BY DEF CallPremiere
<1> DEFINE e == [exec[t] EXCEPT !.at = "readback", !.did = did]
<1>3. exec' = [exec EXCEPT ![t] = e] /\ e.step = exec[t].step
  BY <1>1, <1>2, AtWork
<1> HIDE DEF e
<1>4. SameSteps
  BY <1>1, <1>3, StepStays DEF BridgeInv
<1>5. SameFind
  <2>1. CASE call' = call
    BY <1>1, <2>1 DEF SameFind
  <2>2. CASE call' = [call EXCEPT ![t].touched = exec[t].target]
    <3>1. call'[t] = [call[t] EXCEPT !.touched = exec[t].target] /\ \A u \in Tools \ {t} : call'[u] = call[u]
      BY <1>1, <2>2, AtWork
    <3>2. /\ call'[t].found = call[t].found /\ call'[t].step = call[t].step
          /\ call'[t].handle = call[t].handle /\ call'[t].status = call[t].status
      BY <1>1, <3>1, AtWork DEF IsCall
    <3> QED BY <1>1, <3>1, <3>2 DEF SameFind
  <2> QED BY <1>2, <2>1, <2>2
<1> QED BY <1>1, <1>4, <1>5, WorkFind, WireAlone DEF BridgeInv

LEMMA GivesUpFind ==
  ASSUME FindInv, BridgeInv, Reloads \/ \E t \in Tools : KeyFails(t) PROVE FindInv'
<1>1. UNCHANGED <<call, pending, up, down>> /\ issued' \in {issued, 0}
  BY DEF Reloads, KeyFails, host, wire
<1>2. SameFind
  BY <1>1 DEF SameFind
<1>3. SameSteps
  <2>1. CASE Reloads
    BY <2>1 DEF Reloads, SameSteps, NotAsked
  <2>2. ASSUME NEW t \in Tools, KeyFails(t) PROVE SameSteps
    <3>1. exec' = [exec EXCEPT ![t] = NotAsked] /\ NotAsked.at = "none"
      BY <2>2 DEF KeyFails, NotAsked
    <3> QED BY <3>1, StepStays DEF BridgeInv
  <2> QED BY <2>1, <2>2
<1> QED BY <1>1, <1>2, <1>3, WorkFind, WireAlone DEF BridgeInv

(* A response that is sent has a handle that counts.                       *)
LEMMA RespondFind ==
  ASSUME BridgeInv, NEW t \in Tools, InPanel(t), NEW answer \in Answers, NEW id \in AnyId,
         id.n <= Cardinality(Tools), Respond(t, answer, id)
  PROVE  From(up, up', Counts) /\ SameSteps
<1> DEFINE m == [type |-> "response", call |-> t, session |-> exec[t].session,
                 answer |-> answer, handle |-> id]
<1>1. m \in ToHost \intersect Counts
  <2>1. exec[t].session \in Conns \union {NoConn}
    BY AtWork
  <2> QED BY <2>1 DEF ToHost, Counts, ResponseCounts
<1>2. /\ up' = up \/ (sock \in Conns /\ up' = [up EXCEPT ![sock] = Append(@, m)])
      /\ exec' = [exec EXCEPT ![t] = NotAsked]
  BY DEF Respond, BridgeInv, WireType
<1> HIDE DEF m
<1>3. From(up, up', Counts)
  <2>1. CASE up' = up
    BY <2>1 DEF From
  <2>2. CASE sock \in Conns /\ up' = [up EXCEPT ![sock] = Append(@, m)]
    BY <1>1, <2>2, NewMessages DEF BridgeInv, WireType
  <2> QED BY <1>2, <2>1, <2>2
<1>4. SameSteps
  BY <1>2, StepStays DEF BridgeInv, NotAsked
<1> QED BY <1>3, <1>4

LEMMA AnswersFind ==
  ASSUME FindInv, BridgeInv, NEW t \in Tools, Refuse(t) \/ LostHandle(t) \/ Answer(t)
  PROVE  FindInv'
<1>1. InPanel(t) /\ UNCHANGED <<call, pending, down, issued>>
  BY DEF Refuse, LostHandle, Answer, InPanel, host
<1>2. PICK answer \in Answers : Respond(t, answer, NoId)
  <2>1. \A did, compares, throws : Verdict(call[t].op, did, compares, throws) \in Answers
    BY DEF Verdict, Answers
  <2> QED BY <2>1 DEF Refuse, LostHandle, Answer, Answers
<1>3. From(up, up', Counts) /\ SameSteps
  BY <1>1, <1>2, NoIdCounts, RespondFind DEF NoId, AnyId
<1>4. SameFind /\ From(down, down', ToFind)
  BY <1>1 DEF SameFind, From
<1> QED BY <1>1, <1>3, <1>4, WorkFind DEF BridgeInv

(* A call before its command: it has found nothing.                        *)
LEMMA ServerFind ==
  ASSUME FindInv, BridgeInv, NEW t \in Tools, UseTool(t) \/ Locate(t) PROVE FindInv'
<1>1. /\ call[t].step \in {"idle", "locate"} /\ UNCHANGED <<pending, up, down, exec, issued>>
  BY DEF UseTool, Locate, host, wire, panel
<1>2. /\ IsCall(call[t]) /\ call = [u \in Tools |-> call[u]]
      /\ FindState(t) /\ call[t].found = NoTarget
  BY <1>1 DEF BridgeInv, CallType, FindInv, FindState
<1>3. /\ call'[t].found = call[t].found /\ call'[t].handle = call[t].handle
      /\ call'[t].status \in {"none", "SUCCEEDED", "FAILED", "UNKNOWN"}
      /\ \A u \in Tools \ {t} : call'[u] = call[u]
  <2>1. CASE UseTool(t)
    <3>1. PICK op, node, step : call' = [call EXCEPT ![t].op = op, ![t].node = node, ![t].step = step]
      BY <2>1 DEF UseTool
    <3>2. /\ call'[t] = [call[t] EXCEPT !.op = op, !.node = node, !.step = step]
          /\ \A u \in Tools \ {t} : call'[u] = call[u]
      BY <1>2, <3>1
    <3>3. call'[t].found = call[t].found /\ call'[t].handle = call[t].handle /\ call'[t].status = call[t].status
      BY <1>2, <3>2 DEF IsCall
    <3> QED BY <1>2, <3>2, <3>3 DEF FindState
  <2>2. CASE Locate(t)
    <3>1. \/ \E index : call' = [call EXCEPT ![t].step = "find", ![t].index = index]
          \/ \E status \in {"FAILED", "UNKNOWN"} : call' = [call EXCEPT ![t].step = "over", ![t].status = status]
      BY <2>2 DEF Locate
    <3>2. ASSUME NEW index, call' = [call EXCEPT ![t].step = "find", ![t].index = index]
          PROVE  /\ call'[t] = [call[t] EXCEPT !.step = "find", !.index = index]
                 /\ \A u \in Tools \ {t} : call'[u] = call[u]
      BY <1>2, <3>2
    <3>3. ASSUME NEW index, call'[t] = [call[t] EXCEPT !.step = "find", !.index = index]
          PROVE  call'[t].found = call[t].found /\ call'[t].handle = call[t].handle /\ call'[t].status = call[t].status
      BY <1>2, <3>3 DEF IsCall
    <3>4. ASSUME NEW status, call' = [call EXCEPT ![t].step = "over", ![t].status = status]
          PROVE  /\ call'[t] = [call[t] EXCEPT !.step = "over", !.status = status]
                 /\ \A u \in Tools \ {t} : call'[u] = call[u]
      BY <1>2, <3>4
    <3>5. ASSUME NEW status, call'[t] = [call[t] EXCEPT !.step = "over", !.status = status]
          PROVE  call'[t].found = call[t].found /\ call'[t].handle = call[t].handle /\ call'[t].status = status
      BY <1>2, <3>5 DEF IsCall
    <3> QED BY <1>2, <3>1, <3>2, <3>3, <3>4, <3>5 DEF FindState
  <2> QED BY <2>1, <2>2
<1>4. ASSUME NEW u \in Tools PROVE call'[u].found = call[u].found /\ FindState(u)'
  <2>1. CASE u = t
    BY <1>1, <1>2, <1>3, <2>1 DEF FindState, InPanel
  <2>2. CASE u # t
    BY <1>1, <1>3, <2>2 DEF FindInv, FindState, InPanel
  <2> QED BY <2>1, <2>2
<1> QED BY <1>1, <1>4, FoundStays, WireAlone DEF BridgeInv

LEMMA DispatchFind == ASSUME FindInv, BridgeInv, NEW t \in Tools, Dispatch(t) PROVE FindInv'
<1>0. /\ call[t].step \in {"find", "edit"} /\ pending[t] = NoConn /\ UNCHANGED <<up, exec, issued>>
      /\ FindState(t)
  BY DEF Dispatch, panel, FindInv
<1>1. CASE connected
  <2> DEFINE m == [type |-> "command", call |-> t, step |-> call[t].step]
  <2>1. /\ current \in Conns /\ pending' = [pending EXCEPT ![t] = current] /\ call' = call
        /\ down' = [down EXCEPT ![current] = Append(@, m)]
    BY <1>1 DEF Dispatch, connected, BridgeInv, WireType
  <2>2. m \in ToPanel \intersect ToFind
    BY <1>0 DEF ToPanel, ToFind, CommandToFind, FindState
  <2> HIDE DEF m
  <2>3. From(down, down', ToFind)
    BY <2>1, <2>2, NewMessages DEF BridgeInv, WireType
  <2>4. \A u \in Tools : pending'[u] = NoConn => pending[u] = NoConn
    BY <1>0, <2>1 DEF BridgeInv, WireType
  <2>5. \A u \in Tools : call'[u].found = call[u].found /\ FindState(u)'
    BY <1>0, <2>1, <2>4 DEF FindInv, FindState, InPanel
  <2> QED BY <1>0, <2>3, <2>5, FoundStays DEF BridgeInv, From
<1>2. CASE ~connected
  <2>1. call' = Settled({t}, "UXP_UNAVAILABLE", NoId) /\ UNCHANGED <<pending, down>>
    BY <1>2 DEF Dispatch
  <2>2. \A u \in Tools : call'[u].found = call[u].found /\ FindState(u)'
    BY <1>0, <2>1, SettledFind, NoIdCounts DEF BridgeInv
  <2> QED BY <1>0, <2>1, <2>2, FoundStays, WireAlone DEF BridgeInv
<1> QED BY <1>1, <1>2

LEMMA ResponseFind == ASSUME FindInv, BridgeInv, NEW k \in Conns, HandleResponse(k) PROVE FindInv'
<1> DEFINE m == Head(up[k])
<1>1. /\ up[k] # <<>> /\ m.type = "response" /\ up' = [up EXCEPT ![k] = Tail(@)]
      /\ UNCHANGED <<down, exec, issued>>
      /\ \/ /\ pending' = [pending EXCEPT ![m.call] = NoConn]
            /\ call' = Settled({m.call}, m.answer, m.handle)
         \/ UNCHANGED <<pending, call>>
  BY DEF HandleResponse, FromPanel, panel
<1>2. m \in ToHost /\ \E i \in 1 .. Len(up[k]) : up[k][i] = m
  BY <1>1, FirstMessage DEF BridgeInv, WireType
<1> HIDE DEF m
<1>3. m.answer \in Answers /\ m.call \in Tools /\ m.handle.n <= Cardinality(Tools)
  BY <1>1, <1>2 DEF ToHost, FindInv, ResponseCounts
<1>4. From(up, up', Counts) /\ From(down, down', ToFind)
  BY <1>1, NewMessages DEF BridgeInv, WireType, From
<1>5. CASE UNCHANGED <<pending, call>>
  BY <1>1, <1>4, <1>5, CallsAlone DEF BridgeInv
<1>6. CASE /\ pending' = [pending EXCEPT ![m.call] = NoConn]
           /\ call' = Settled({m.call}, m.answer, m.handle)
  <2>1. \A u \in Tools : u \notin {m.call} => pending'[u] = pending[u]
    BY <1>6 DEF BridgeInv, WireType
  <2>2. \A u \in Tools : call'[u].found = call[u].found /\ FindState(u)'
    BY <1>1, <1>3, <1>6, <2>1, SettledFind DEF BridgeInv
  <2> QED BY <1>1, <1>4, <2>2, FoundStays DEF BridgeInv
<1> QED BY <1>1, <1>5, <1>6

LEMMA CommandFind == ASSUME FindInv, BridgeInv, NEW k \in Conns, TakeCommand(k) PROVE FindInv'
<1> DEFINE m == Head(down[k])
           e == [at |-> "key", step |-> m.step, conn |-> k, session |-> NoConn,
                 project |-> "none", target |-> NoTarget, did |-> "nothing"]
<1>1. /\ down[k] # <<>> /\ m.type = "command" /\ down' = [down EXCEPT ![k] = Tail(@)]
      /\ UNCHANGED <<call, pending, up, issued>>
      /\ exec' = exec \/ exec' = [exec EXCEPT ![m.call] = e]
  BY DEF TakeCommand, FromHost, host
<1>2. m \in ToPanel /\ \E i \in 1 .. Len(down[k]) : down[k][i] = m
  BY <1>1, FirstMessage DEF BridgeInv, WireType
<1>3. e.step = m.step
  OBVIOUS
<1> HIDE DEF m, e
<1>4. m.call \in Tools /\ (m.step = "find" => call[m.call].found = NoTarget)
  BY <1>1, <1>2 DEF ToPanel, FindInv, CommandToFind
<1>5. From(up, up', Counts) /\ From(down, down', ToFind)
  BY <1>1, NewMessages DEF BridgeInv, WireType, From
<1>6. CASE exec' = exec
  BY <1>1, <1>5, <1>6, CallsAlone DEF BridgeInv
<1>7. CASE exec' = [exec EXCEPT ![m.call] = e]
  <2>1. exec'[m.call] = e /\ \A u \in Tools \ {m.call} : exec'[u] = exec[u]
    BY <1>4, <1>7 DEF BridgeInv, ExecType
  <2>2. ASSUME NEW u \in Tools PROVE call'[u].found = call[u].found /\ FindState(u)'
    BY <1>1, <1>3, <1>4, <2>1 DEF FindInv, FindState, InPanel
  <2> QED BY <1>1, <1>5, <2>2, FoundStays DEF BridgeInv
<1> QED BY <1>1, <1>6, <1>7

(* The find step: a call that had found nothing has, and gets a handle.    *)
LEMMA FindFind == ASSUME FindInv, BridgeInv, NEW t \in Tools, Find(t) PROVE FindInv'
<1>1. /\ exec[t].at = "checks" /\ exec[t].step = "find" /\ InPanel(t)
      /\ UNCHANGED <<pending, down>> /\ issued' = issued + 1 /\ Respond(t, "ok", IdOf(issued + 1))
  BY DEF Find, InPanel, host
<1>2. PICK target : target.project = exec[t].project /\ call' = [call EXCEPT ![t].found = target]
  <2>1. PICK clip : call' = [call EXCEPT ![t].found = [clip |-> clip, project |-> exec[t].project]]
    BY DEF Find
  <2>2. [clip |-> clip, project |-> exec[t].project].project = exec[t].project
    OBVIOUS
  <2> QED BY <2>1, <2>2
<1>3. target # NoTarget
  BY <1>1, <1>2, AtWork DEF ExecState, NoTarget
<1>4. /\ call'[t] = [call[t] EXCEPT !.found = target] /\ \A u \in Tools \ {t} : call'[u] = call[u]
  BY <1>1, <1>2, AtWork
<1>5. /\ call'[t].found = target /\ call'[t].step = call[t].step
      /\ call'[t].handle = call[t].handle /\ call'[t].status = call[t].status
  BY <1>1, <1>4, AtWork DEF IsCall
<1>6. t \notin HasFound /\ HasFound' = HasFound \union {t}
  <2>1. t \notin HasFound
    BY <1>1 DEF FindInv, FindState, HasFound
  <2>2. HasFound' = HasFound \union {t}
    BY <1>3, <1>4, <1>5 DEF HasFound
  <2> QED BY <2>1, <2>2
<1>7. issued' <= Cardinality(HasFound') /\ issued + 1 <= Cardinality(Tools)
  <2>1. Cardinality(HasFound \union {t}) = Cardinality(HasFound) + 1
    BY <1>6, Counted, FS_AddElement
  <2>2. Cardinality(HasFound \union {t}) <= Cardinality(Tools)
    <3>1. HasFound \union {t} \subseteq Tools
      BY DEF HasFound
    <3> QED BY <3>1, UxpAssumption, FS_Subset
  <2>3. Cardinality(HasFound') = Cardinality(HasFound) + 1
    BY <1>6, <2>1
  <2> QED BY <1>1, <2>1, <2>2, <2>3, Counted DEF FindInv, BridgeInv, HandleTable
<1>8. From(up, up', Counts) /\ SameSteps
  <2>1. IdOf(issued + 1) \in AnyId /\ IdOf(issued + 1).n = issued + 1
    BY DEF IdOf, AnyId, BridgeInv, HandleTable
  <2> QED BY <1>1, <1>7, <2>1, RespondFind DEF Answers
<1>9. exec'[t] = NotAsked /\ exec'[t].at = "none"
  BY <1>1, AtWork DEF Respond, NotAsked
<1>10. ToolState(t) /\ FindState(t) /\ call[t].step \in {"find", "over"} /\ ~NoToken(t)
  BY <1>1, AtWork DEF BridgeInv, FindInv, ExecState, Expected, NoToken
<1>11. ASSUME NEW u \in Tools PROVE FindState(u)'
  <2>1. CASE u = t
    BY <1>1, <1>5, <1>9, <1>10, <2>1 DEF FindState, InPanel, ToolState
  <2>2. CASE u # t
    BY <1>1, <1>4, <1>8, <2>2 DEF FindInv, FindState, InPanel, SameSteps
  <2> QED BY <2>1, <2>2
<1>12. ASSUME NEW k \in Conns, NEW i \in 1 .. Len(down'[k]) PROVE CommandToFind(down[k][i])'
  <2>1. down[k][i] \in ToPanel /\ CommandToFind(down[k][i]) /\ i \in 1 .. Len(down[k]) /\ down' = down
    BY <1>1, <1>12, ElementOfSeq DEF BridgeInv, WireType, FindInv
  <2>2. down[k][i].type = "command" => down[k][i].call \in Tools /\ down[k][i].call # t
    BY <1>1, <1>10, <2>1 DEF ToPanel, ToolState, OneToken, Sent, Has, Is
  <2> QED BY <1>4, <2>1, <2>2 DEF CommandToFind
<1>13. ASSUME NEW k \in Conns, NEW i \in 1 .. Len(up'[k]) PROVE ResponseCounts(up[k][i])'
  BY <1>8, <1>13 DEF From, Counts, FindInv, ResponseCounts
<1> QED BY <1>7, <1>11, <1>12, <1>13 DEF FindInv

LEMMA InitFindInv == ASSUME Init PROVE FindInv
<1>1. issued = 0 /\ \A t \in Tools : call[t] = NotCalled /\ exec[t] = NotAsked
  BY DEF Init
<1>2. \A k \in Conns : (\A i \in 1 .. Len(down[k]) : FALSE) /\ (\A i \in 1 .. Len(up[k]) : FALSE)
  BY EmptySeq DEF Init
<1>3. NotCalled.status = "none" /\ NotCalled.handle = NoId /\ NotCalled.found = NoTarget
  BY DEF NotCalled
<1>4. \A t \in Tools : FindState(t)
  BY <1>1, <1>3, NoIdCounts DEF FindState
<1> QED BY <1>1, <1>2, <1>4, Counted DEF FindInv

LEMMA NextFindInv == ASSUME FindInv, BridgeInv, [Next]_vars PROVE FindInv'
<1>0. CallType /\ WireType
  BY DEF BridgeInv
<1>1. ASSUME NEW t \in Tools, ServerSteps(t) PROVE FindInv'
  BY <1>0, <1>1, ServerFind, DispatchFind, TimesOutFind DEF ServerSteps
<1>2. ASSUME NEW t \in Tools, Executes(t) \/ KeyFails(t) PROVE FindInv'
  BY <1>2, AdvancesFind, CallPremiereFind, AnswersFind, FindFind, GivesUpFind DEF Executes
<1>3. ASSUME NEW k \in Conns, HostSteps(k) PROVE FindInv'
  BY <1>0, <1>3, WireFind, HostFind, ResponseFind DEF HostSteps
<1>4. ASSUME NEW k \in Conns, PanelSteps(k) \/ Drops(k) PROVE FindInv'
  BY <1>0, <1>4, WireFind, SocketFind, CommandFind DEF PanelSteps
<1> QED BY <1>0, <1>1, <1>2, <1>3, <1>4, SocketFind, GivesUpFind DEF Next

(***************************************************************************)
(* The panel's counters, and the handle table                              *)
(***************************************************************************)

FlagInv ==
  authenticated \subseteq Conns /\ {identity, reshow, timer, failed} \subseteq BOOLEAN

(* The reconnection of reconnectTimer is one of those that are scheduled,  *)
(* and the panel is reloaded once.                                         *)
CounterInv ==
  /\ connects \in 0 .. MaxConns
  /\ timers \in Nat /\ (timer = TRUE => timers > 0)
  /\ loads \in 1 .. 2 /\ (loads = 2 => failed = TRUE)
  /\ edits \in 0 .. scenario.edits

LEMMA InitFlags == ASSUME Init PROVE FlagInv
<1>1. timer = FALSE /\ failed = FALSE
  BY DEF Init
<1>2. 1 \in Conns
  BY UxpAssumption DEF Conns
<1>3. CASE Loading
  BY <1>1, <1>3 DEF Loading, FlagInv
<1>4. CASE Connected
  BY <1>1, <1>2, <1>4 DEF Connected, FlagInv
<1> QED BY <1>3, <1>4 DEF Init

LEMMA NextFlags == ASSUME FlagInv, [Next]_vars PROVE FlagInv'
<1>1. \/ authenticated' \in {authenticated, {}}
      \/ \E k \in Conns : authenticated' = authenticated \union {k}
  <2>1. ASSUME NEW t \in Tools, ServerSteps(t) \/ Executes(t) \/ KeyFails(t) PROVE authenticated' = authenticated
    BY <2>1 DEF ServerSteps, Executes, UseTool, Locate, Dispatch, TimesOut, KeyRead, Refuse,
       CaptureContext, Find, Resolve, LostHandle, CallPremiere, Answer, KeyFails, panel, socket
  <2>2. ASSUME NEW k \in Conns, HostSteps(k) \/ PanelSteps(k) \/ Drops(k)
        PROVE  authenticated' \in {authenticated, authenticated \union {k}}
    BY <2>2 DEF HostSteps, PanelSteps, HandleHello, HandleConnect, HandleResponse, HostCloses, Opens,
       PanelCloses, TakeChallenge, TakeConnected, TakeCommand, Drops, panel, socket
  <2>3. ASSUME Click \/ TimerFires \/ Reconnect \/ IdentityRead \/ IdentityFails \/ Reloads \/ UserEdits
        PROVE  authenticated' \in {authenticated, {}}
    BY <2>3 DEF Click, TimerFires, Reconnect, IdentityRead, IdentityFails, Reloads, UserEdits, panel, socket
  <2> QED BY <2>1, <2>2, <2>3 DEF Next, vars, panel, socket
<1>2. identity' \in {identity, TRUE, FALSE} \/ \E k : identity' = (identity /\ k \in authenticated)
  <2>1. ASSUME NEW t \in Tools, ServerSteps(t) \/ Executes(t) \/ KeyFails(t) PROVE identity' \in {identity, FALSE}
    BY <2>1 DEF ServerSteps, Executes, UseTool, Locate, Dispatch, TimesOut, KeyRead, Refuse,
       CaptureContext, Find, Resolve, LostHandle, CallPremiere, Answer, KeyFails, panel, socket
  <2>2. ASSUME NEW k \in Conns, HostSteps(k) \/ PanelSteps(k) \/ Drops(k)
        PROVE  identity' = identity \/ \E l : identity' = (identity /\ l \in authenticated)
    <3>1. CASE PanelCloses(k)
      BY <3>1 DEF PanelCloses
    <3>2. CASE HostSteps(k) \/ Opens(k) \/ TakeChallenge(k) \/ TakeConnected(k) \/ TakeCommand(k) \/ Drops(k)
      BY <3>2 DEF HostSteps, HandleHello, HandleConnect, HandleResponse, HostCloses, Opens,
         TakeChallenge, TakeConnected, TakeCommand, Drops, panel, socket
    <3> QED BY <2>2, <3>1, <3>2 DEF PanelSteps
  <2>3. ASSUME Click \/ TimerFires \/ Reconnect \/ IdentityRead \/ IdentityFails \/ Reloads \/ UserEdits
        PROVE  identity' \in {identity, TRUE, FALSE}
    BY <2>3 DEF Click, TimerFires, Reconnect, IdentityRead, IdentityFails, Reloads, UserEdits, panel, socket
  <2> QED BY <2>1, <2>2, <2>3 DEF Next, vars, panel, socket
<1>3. timer' \in {timer, TRUE, FALSE} /\ reshow' \in {reshow, TRUE, FALSE} /\ failed' \in {failed, TRUE}
  <2>1. ASSUME NEW t \in Tools, ServerSteps(t) \/ Executes(t) \/ KeyFails(t)
        PROVE  UNCHANGED <<timer, reshow>> /\ failed' \in {failed, TRUE}
    BY <2>1 DEF ServerSteps, Executes, UseTool, Locate, Dispatch, TimesOut, KeyRead, Refuse, CaptureContext,
       Find, Resolve, LostHandle, CallPremiere, Answer, KeyFails, panel, socket, bounds, MayHappen
  <2>2. ASSUME NEW k \in Conns, HostSteps(k) \/ PanelSteps(k) \/ Drops(k)
        PROVE  timer' \in {timer, TRUE} /\ reshow' = reshow /\ failed' \in {failed, TRUE}
    BY <2>2 DEF HostSteps, PanelSteps, HandleHello, HandleConnect, HandleResponse, HostCloses, Opens,
       PanelCloses, TakeChallenge, TakeConnected, TakeCommand, Drops, panel, socket, bounds, MayHappen
  <2>3. ASSUME Click \/ TimerFires \/ Reconnect \/ IdentityRead \/ IdentityFails \/ Reloads \/ UserEdits
        PROVE  timer' \in {timer, TRUE, FALSE} /\ reshow' \in {reshow, TRUE, FALSE} /\ failed' \in {failed, TRUE}
    BY <2>3 DEF Click, TimerFires, Reconnect, IdentityRead, IdentityFails, Reloads, UserEdits, Connect,
       panel, socket, bounds, MayHappen
  <2> QED BY <2>1, <2>2, <2>3 DEF Next, vars, panel, socket, bounds
<1>4. authenticated' \subseteq Conns
  BY <1>1 DEF FlagInv
<1>5. identity' \in BOOLEAN
  BY <1>2 DEF FlagInv
<1>6. timer' \in BOOLEAN /\ reshow' \in BOOLEAN /\ failed' \in BOOLEAN
  BY <1>3 DEF FlagInv
<1> QED BY <1>4, <1>5, <1>6 DEF FlagInv

LEMMA InitCounters == ASSUME Init PROVE CounterInv
<1>1. MaxConns \in Nat \ {0} /\ scenario.edits \in Nat
  BY UxpAssumption DEF Init
<1>2. timers = 0 /\ timer = FALSE /\ loads = 1 /\ failed = FALSE /\ edits = 0 /\ connects \in {0, 1}
  BY DEF Init, Loading, Connected
<1> QED BY <1>1, <1>2 DEF CounterInv

LEMMA ConnectCounters ==
  ASSUME CounterInv, NEW scheduled \in Nat, NEW known, known = TRUE => scheduled > 0,
         known \in BOOLEAN, Connect(scheduled, known)
  PROVE  connects' \in 0 .. MaxConns /\ timers' \in Nat /\ timer' = FALSE
<1>1. MaxConns \in Nat
  BY UxpAssumption
<1>2. connects' \in 0 .. MaxConns
  BY <1>1 DEF Connect, CounterInv
<1>3. timers' \in Nat
  <2>1. CASE known = TRUE
    BY <2>1 DEF Connect
  <2>2. CASE known = FALSE
    BY <2>2 DEF Connect
  <2> QED BY <2>1, <2>2
<1>4. timer' = FALSE
  BY DEF Connect
<1> QED BY <1>2, <1>3, <1>4

LEMMA NextCounters == ASSUME CounterInv, FlagInv, scenario \in Scenarios, [Next]_vars PROVE CounterInv'
<1>0. scenario' = scenario /\ MaxConns \in Nat \ {0} /\ scenario.edits \in Nat
  BY ScenarioStays, UxpAssumption
<1>1. ASSUME NEW t \in Tools, ServerSteps(t) \/ Executes(t) \/ KeyFails(t) PROVE CounterInv'
  <2>1. UNCHANGED <<connects, timers, timer, loads, edits>> /\ failed' \in {failed, TRUE}
    BY <1>1 DEF ServerSteps, Executes, UseTool, Locate, Dispatch, TimesOut, KeyRead, Refuse, CaptureContext,
       Find, Resolve, LostHandle, CallPremiere, Answer, KeyFails, MayHappen, panel, socket, bounds
  <2> QED BY <1>0, <2>1 DEF CounterInv
<1>2. ASSUME NEW k \in Conns, HostSteps(k) \/ PanelSteps(k) \/ Drops(k) PROVE CounterInv'
  <2>1. /\ UNCHANGED <<connects, loads, edits>> /\ failed' \in {failed, TRUE}
        /\ UNCHANGED <<timers, timer>> \/ timers' = timers + 1
    BY <1>2 DEF HostSteps, PanelSteps, HandleHello, HandleConnect, HandleResponse, HostCloses, Opens,
       PanelCloses, TakeChallenge, TakeConnected, TakeCommand, Drops, panel, socket, bounds, MayHappen
  <2>2. timers' \in Nat /\ (timer' = TRUE => timers' > 0)
    BY <2>1 DEF CounterInv
  <2>3. loads' = 2 => failed' = TRUE
    BY <2>1 DEF CounterInv
  <2> QED BY <1>0, <2>1, <2>2, <2>3 DEF CounterInv
<1>3. CASE Click
  <2>1. Connect(timers, timer) /\ failed' = TRUE /\ UNCHANGED <<loads, edits>>
    BY <1>3 DEF Click, MayHappen
  <2>2. connects' \in 0 .. MaxConns /\ timers' \in Nat /\ timer' = FALSE
    BY <2>1, ConnectCounters DEF CounterInv, FlagInv
  <2> QED BY <1>0, <2>1, <2>2 DEF CounterInv
<1>4. CASE TimerFires
  <2>1. timers > 0 /\ Connect(timers - 1, FALSE) /\ UNCHANGED <<loads, failed, edits>>
    BY <1>4 DEF TimerFires, bounds
  <2>2. timers - 1 \in Nat
    BY <2>1 DEF CounterInv
  <2>3. connects' \in 0 .. MaxConns /\ timers' \in Nat /\ timer' = FALSE
    BY <2>1, <2>2, ConnectCounters
  <2> QED BY <1>0, <2>1, <2>3 DEF CounterInv
<1>5. CASE Reconnect
  <2>1. UNCHANGED <<loads, failed, edits>> /\ (UNCHANGED <<connects, timers, timer>> \/ Connect(timers, timer))
    BY <1>5 DEF Reconnect, bounds
  <2>2. UNCHANGED <<connects, timers, timer>> \/ (connects' \in 0 .. MaxConns /\ timers' \in Nat /\ timer' = FALSE)
    BY <2>1, ConnectCounters DEF CounterInv, FlagInv
  <2>3. CASE UNCHANGED <<connects, timers, timer>>
    BY <1>0, <2>1, <2>3 DEF CounterInv
  <2>4. CASE connects' \in 0 .. MaxConns /\ timers' \in Nat /\ timer' = FALSE
    BY <1>0, <2>1, <2>4 DEF CounterInv
  <2> QED BY <2>2, <2>3, <2>4
<1>6. CASE IdentityRead \/ IdentityFails
  <2>1. /\ connects > 0 /\ connects' = connects - 1 /\ failed' \in {failed, TRUE}
        /\ UNCHANGED <<timers, timer>> \/ timers' = timers + 1
        /\ UNCHANGED <<loads, edits>>
    BY <1>6 DEF IdentityRead, IdentityFails, MayHappen, bounds
  <2>2. timers' \in Nat /\ (timer' = TRUE => timers' > 0)
    BY <2>1 DEF CounterInv
  <2>3. loads' = 2 => failed' = TRUE
    BY <2>1 DEF CounterInv
  <2> QED BY <1>0, <2>1, <2>2, <2>3 DEF CounterInv
<1>7. CASE Reloads
  <2>1. /\ connects' = 1 /\ timers' = 0 /\ timer' = FALSE
        /\ loads' = loads + 1 /\ ~failed /\ failed' = TRUE /\ UNCHANGED edits
    BY <1>7 DEF Reloads, MayHappen
  <2>2. loads # 2
    BY <2>1 DEF CounterInv
  <2> QED BY <1>0, <2>1, <2>2 DEF CounterInv
<1>8. CASE UserEdits
  <2>1. /\ edits < scenario.edits /\ edits' = edits + 1
        /\ UNCHANGED <<connects, timers, timer, loads, failed>>
    BY <1>8 DEF UserEdits, panel, socket
  <2> QED BY <1>0, <2>1 DEF CounterInv
<1>9. CASE UNCHANGED vars
  BY <1>0, <1>9 DEF vars, panel, socket, bounds, CounterInv
<1> QED BY <1>1, <1>2, <1>3, <1>4, <1>5, <1>6, <1>7, <1>8, <1>9 DEF Next

(* registerHandle keeps the table within its bound, and no id is in it     *)
(* twice.                                                                  *)
TableInv ==
  /\ Len(handles) <= MaxHandles
  /\ \A i, j \in DOMAIN handles : handles[i].id = handles[j].id => i = j

(* The elements at two places of a sequence are different.                 *)
Distinct(q) == \A i, j \in 1 .. Len(q) : q[i].id = q[j].id => i = j

LEMMA TailDistinct ==
  ASSUME NEW S, NEW q \in Seq(S), q # <<>>, Distinct(q)
  PROVE  /\ Tail(q) \in Seq(S) /\ Len(Tail(q)) = Len(q) - 1 /\ Distinct(Tail(q))
         /\ \A i \in 1 .. Len(Tail(q)) : \E j \in 1 .. Len(q) : Tail(q)[i] = q[j]
<1>1. /\ Tail(q) \in Seq(S) /\ Len(Tail(q)) = Len(q) - 1 /\ Len(q) \in Nat
      /\ \A i \in 1 .. Len(Tail(q)) : Tail(q)[i] = q[i + 1]
  BY HeadTailProperties, LenProperties
<1>2. \A i \in 1 .. Len(Tail(q)) : i + 1 \in 1 .. Len(q)
  BY <1>1
<1>3. ASSUME NEW i \in 1 .. Len(Tail(q)), NEW j \in 1 .. Len(Tail(q)), Tail(q)[i].id = Tail(q)[j].id PROVE i = j
  <2>1. i + 1 = j + 1
    BY <1>1, <1>2, <1>3 DEF Distinct
  <2> QED BY <1>1, <2>1
<1> QED BY <1>1, <1>2, <1>3 DEF Distinct

LEMMA AppendDistinct ==
  ASSUME NEW S, NEW q \in Seq(S), NEW h \in S, Distinct(q), \A i \in 1 .. Len(q) : q[i].id # h.id
  PROVE  Len(Append(q, h)) = Len(q) + 1 /\ Distinct(Append(q, h))
<1> DEFINE p == Append(q, h)
<1>1. /\ Len(p) = Len(q) + 1 /\ Len(q) \in Nat /\ p[Len(q) + 1] = h
      /\ \A i \in 1 .. Len(q) : p[i] = q[i]
  BY AppendProperties, LenProperties
<1> HIDE DEF p
<1>2. \A i \in 1 .. Len(p) : i \in 1 .. Len(q) \/ i = Len(q) + 1
  BY <1>1
<1>3. Distinct(p)
  BY <1>1, <1>2 DEF Distinct
<1> QED BY <1>1, <1>3 DEF p

LEMMA FindTable == ASSUME TableInv, HandleTable, NEW t \in Tools, Find(t) PROVE TableInv'
<1>1. PICK clip : handles' = Registered(clip, exec[t].project)
  BY DEF Find
<1> DEFINE h == [id |-> IdOf(issued + 1), clip |-> clip, project |-> exec[t].project, seen |-> StateMaterial]
           S == {handles[i] : i \in DOMAIN handles} \union {h}
           old == IF Len(handles) >= MaxHandles THEN Tail(handles) ELSE handles
<1>2. handles' = Append(old, h) /\ h.id = IdOf(issued + 1) /\ h \in S
  BY <1>1 DEF Registered
<1>3. handles \in Seq(S)
  <2>1. handles \in Seq({handles[i] : i \in DOMAIN handles})
    BY DEF HandleTable, IsSequence
  <2> QED BY <2>1
<1> HIDE DEF h, S
<1>4. /\ Len(handles) \in Nat /\ DOMAIN handles = 1 .. Len(handles) /\ Distinct(handles)
      /\ MaxHandles \in Nat \ {0} /\ Len(handles) <= MaxHandles
  BY <1>3, LenProperties, UxpAssumption DEF TableInv, Distinct
<1>5. \A i \in 1 .. Len(handles) : handles[i].id # h.id
  <2>1. ASSUME NEW i \in 1 .. Len(handles) PROVE handles[i].id.n # h.id.n
    <3>1. handles[i].id.n \in Nat /\ handles[i].id.n <= issued /\ issued \in Nat
      BY <1>4 DEF HandleTable, AnyId
    <3> QED BY <1>2, <3>1 DEF IdOf
  <2> QED BY <2>1
<1>6. /\ old \in Seq(S) /\ Distinct(old) /\ Len(old) + 1 <= MaxHandles /\ Len(old) \in Nat
      /\ \A i \in 1 .. Len(old) : old[i].id # h.id
  <2>1. CASE Len(handles) >= MaxHandles
    <3>1. handles # <<>>
      BY <1>4, <2>1, EmptySeq
    <3>2. /\ Tail(handles) \in Seq(S) /\ Len(Tail(handles)) = Len(handles) - 1 /\ Distinct(Tail(handles))
          /\ \A i \in 1 .. Len(Tail(handles)) : \E j \in 1 .. Len(handles) : Tail(handles)[i] = handles[j]
      BY <1>3, <1>4, <3>1, TailDistinct
    <3>3. old = Tail(handles) /\ \A i \in 1 .. Len(Tail(handles)) : Tail(handles)[i].id # h.id
      BY <1>5, <2>1, <3>2
    <3> QED BY <1>4, <2>1, <3>2, <3>3
  <2>2. CASE ~(Len(handles) >= MaxHandles)
    BY <1>3, <1>4, <1>5, <2>2
  <2> QED BY <2>1, <2>2
<1> HIDE DEF old
<1>7. /\ Append(old, h) \in Seq(S) /\ Len(Append(old, h)) = Len(old) + 1 /\ Distinct(Append(old, h))
  BY <1>2, <1>6, AppendDistinct, AppendProperties
<1>8. DOMAIN handles' = 1 .. Len(handles') /\ Len(handles') <= MaxHandles /\ Distinct(handles')
  BY <1>2, <1>6, <1>7, LenProperties
<1> QED BY <1>8 DEF TableInv, Distinct

LEMMA NextTable == ASSUME TableInv, HandleTable, [Next]_vars PROVE TableInv'
<1>1. ASSUME NEW t \in Tools, Find(t) PROVE TableInv'
  BY <1>1, FindTable
<1>2. CASE handles' = handles
  BY <1>2 DEF TableInv
<1>3. CASE handles' = <<>>
  <2>1. Len(<<>>) = 0 /\ DOMAIN <<>> = 1 .. 0 /\ MaxHandles \in Nat
    BY EmptySeq, UxpAssumption
  <2> QED BY <1>3, <2>1 DEF TableInv
<1>4. (\E t \in Tools : Find(t)) \/ handles' \in {handles, <<>>}
  <2>1. ASSUME NEW t \in Tools, ServerSteps(t) \/ Executes(t) \/ KeyFails(t) PROVE Find(t) \/ handles' = handles
    BY <2>1 DEF ServerSteps, Executes, UseTool, Locate, Dispatch, TimesOut, KeyRead, Refuse,
       CaptureContext, Resolve, LostHandle, CallPremiere, Answer, KeyFails, panel
  <2>2. ASSUME NEW k \in Conns, HostSteps(k) \/ PanelSteps(k) \/ Drops(k) PROVE handles' \in {handles, <<>>}
    BY <2>2 DEF HostSteps, PanelSteps, HandleHello, HandleConnect, HandleResponse, HostCloses, Opens,
       PanelCloses, TakeChallenge, TakeConnected, TakeCommand, Drops, panel
  <2>3. ASSUME Click \/ TimerFires \/ Reconnect \/ IdentityRead \/ IdentityFails \/ Reloads \/ UserEdits
        PROVE  handles' \in {handles, <<>>}
    BY <2>3 DEF Click, TimerFires, Reconnect, IdentityRead, IdentityFails, Reloads, UserEdits, panel
  <2> QED BY <2>1, <2>2, <2>3 DEF Next, vars, panel
<1> QED BY <1>1, <1>2, <1>3, <1>4

LEMMA InitTable == ASSUME Init PROVE TableInv
<1>1. handles = <<>> /\ Len(<<>>) = 0 /\ DOMAIN <<>> = 1 .. 0 /\ MaxHandles \in Nat
  BY EmptySeq, UxpAssumption DEF Init
<1> QED BY <1>1 DEF TableInv

(* The types of the UXP track: no load of the panel issues more handles    *)
(* than there are calls, the table keeps to MAX_HANDLE_COUNT and has every *)
(* id once (registerHandle), and no connect() waits unseen.                *)
THEOREM BridgeTypes == Spec => []TypeOK
<1>1. Init => IInv /\ LinkInv /\ FindInv /\ FlagInv /\ CounterInv /\ TableInv
  BY InitIInv, InitLinkInv, InitFindInv, InitFlags, InitCounters, InitTable
<1>2. IInv /\ LinkInv /\ FindInv /\ FlagInv /\ CounterInv /\ TableInv /\ [Next]_vars
        => (IInv /\ LinkInv /\ FindInv /\ FlagInv /\ CounterInv /\ TableInv)'
  <2> SUFFICES ASSUME IInv, LinkInv, FindInv, FlagInv, CounterInv, TableInv, [Next]_vars
               PROVE  (IInv /\ LinkInv /\ FindInv /\ FlagInv /\ CounterInv /\ TableInv)'
    OBVIOUS
  <2>1. BridgeInv /\ WireType /\ HandleTable /\ scenario \in Scenarios
    BY DEF IInv, BridgeInv
  <2> QED BY <2>1, NextIInv, NextLinkInv, NextFindInv, NextFlags, NextCounters, NextTable
<1>3. IInv /\ LinkInv /\ FindInv /\ FlagInv /\ CounterInv /\ TableInv => TypeOK
  <2> SUFFICES ASSUME IInv, LinkInv, FindInv, FlagInv, CounterInv, TableInv PROVE TypeOK
    OBVIOUS
  <2>1. issued \in 0 .. Cardinality(Tools)
    BY Counted DEF FindInv, IInv, BridgeInv, HandleTable
  <2>2. ASSUME NEW t \in Tools
        PROVE  /\ call[t].step \in {"idle", "locate", "find", "edit", "over"}
               /\ call[t].op \in Operations \union {NoOp} /\ call[t].handle \in Ids
               /\ call[t].status \in {"none", "SUCCEEDED", "FAILED", "UNKNOWN"}
               /\ exec[t].at \in {"none", "key", "context", "checks", "premiere", "readback"}
    <3>1. /\ call[t].step \in {"idle", "locate", "find", "edit", "over"}
          /\ call[t].op \in Operations \union {NoOp} /\ IsExec(exec[t])
      BY DEF IInv, BridgeInv, CallType, ExecType
    <3>2. call[t].status \in {"none", "SUCCEEDED", "FAILED", "UNKNOWN"} /\ call[t].handle.n <= Cardinality(Tools)
      BY DEF FindInv, FindState
    <3>3. call[t].handle \in AnyId /\ call[t].handle.load <= loads /\ loads \in 1 .. 2
      BY DEF IInv, BridgeInv, ToolState, Means, Denotes, CounterInv
    <3>4. call[t].handle \in Ids
      BY <3>2, <3>3, Counted DEF AnyId, Ids
    <3>5. exec[t].at \in {"none", "key", "context", "checks", "premiere", "readback"}
      BY <3>1 DEF IsExec, NotAsked
    <3> QED BY <3>1, <3>2, <3>4, <3>5
  <2>3. {current, sock, session} \subseteq Conns \union {NoConn} /\ pending \in [Tools -> Conns \union {NoConn}]
    BY DEF IInv, BridgeInv, WireType
  <2>4. /\ hostSide \in [Conns -> {"none", "open", "closing", "closed"}]
        /\ panelSide \in [Conns -> {"none", "opening", "open", "closing", "closed"}]
    BY DEF LinkInv, SideType
  <2>5. {identity, timer, reshow} \subseteq BOOLEAN /\ failed \in BOOLEAN /\ authenticated \subseteq Conns
    BY DEF FlagInv
  <2> QED BY <2>1, <2>2, <2>3, <2>4, <2>5 DEF TypeOK, CounterInv, TableInv, IInv
<1> QED BY <1>1, <1>2, <1>3, PTL DEF Spec
=============================================================================
