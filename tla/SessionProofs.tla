---------------------------- MODULE SessionProofs ----------------------------
(***************************************************************************)
(* Theorems about the session of an MCP server and the daemon, for any     *)
(* number of calls and of connections: the types, and the four safety      *)
(* invariants of module Session.                                           *)
(***************************************************************************)
EXTENDS Session, FiniteSetTheorems, FunctionTheorems, SequenceTheorems, TLAPS

(***************************************************************************)
(* Types                                                                   *)
(***************************************************************************)
RequestMessage ==
  [call : Calls, id : Requests, step : {"begin", "run", "end", "fail"},
   verdict : Final \union {"none"}]
ResponseMessage == [call : Calls, id : Requests, answer : {"ok", "failed", "unknown"}]

ClientType ==
  /\ conn \in [Conns -> {"none", "connecting", "open", "closing", "closed"}]
  /\ {ws, connecting} \subseteq Conns \union {NoConn} /\ overlapped \in BOOLEAN
ToolType ==
  /\ step \in [Calls -> {"idle", "begin", "run", "end", "fail", "over"}]
  /\ wait \in [Calls -> [for : {"nothing", "opening", "answer"}, conn : Conns \union {NoConn}]]
  /\ requests \in [Calls -> Requests \union {0}]
  /\ verdict \in [Calls -> Final \union {"none"}]
  /\ outcome \in [Calls -> {"none", "success", "failure", "error", "begin_lost", "local"}]
WireType ==
  /\ link \in [Conns -> {"none", "open", "closed"}]
  /\ toDaemon \in [Conns -> Seq(RequestMessage)]
  /\ toClient \in [Conns -> Seq(ResponseMessage)]
DaemonType ==
  /\ op \in [Calls -> Final \union {"none", "beginning", "active", "refused", "ACKNOWLEDGED"}]
  /\ source \in [Calls -> Conns \union {NoConn}]
  /\ asked \in [Calls -> [conn : Conns \union {NoConn}, id : Requests \union {0}]]
  /\ script \in [Calls -> {"none", "open", "late", "done"}]
RecoveryType ==
  /\ reconciliation \in [Mutations -> {"none", "PENDING", "COMPARED", "FAILED"}]
  /\ refreshing \in [Lists -> [Mutations -> {"no", "left", "compared"}]]
TypeInv == ClientType /\ ToolType /\ WireType /\ DaemonType /\ RecoveryType

(***************************************************************************)
(* Connections.  Without an overlap the client has one connection, and     *)
(* writes to it; a request is on its way only over an open link, and once. *)
(***************************************************************************)
Sent(k) == Range(toDaemon[k])
Back(k) == Range(toClient[k])

ConnInv ==
  /\ \A k \in Conns : conn[k] \in {"none", "connecting"} => link[k] = "none"
  /\ \A k \in Conns : link[k] # "open" => toDaemon[k] = <<>>
  /\ ~overlapped => \A k \in Conns : conn[k] \in {"connecting", "open"} => ws = k
  /\ \A k \in Conns : IsInjective(toDaemon[k])

(***************************************************************************)
(* A call, its requests on the way, and its operation in the daemon.       *)
(***************************************************************************)
Unsettled == {"SUCCEEDED", "FAILED"}    \* what must not be said while a script may run
NotActive == {"none", "beginning", "refused"}  \* an operation that has never been active
Ends(m)   == m.step \in {"end", "fail"}
Asks(c)   == wait[c].for = "answer"
Current(c, id) == Asks(c) /\ id = requests[c]

Cap(s) == CASE s = "idle" -> 0 [] s = "begin" -> 1 [] s = "run" -> 2
            [] s = "end" -> 3 [] OTHER -> 4

(* How far the call has come.                                              *)
StepInv(c) ==
  /\ requests[c] <= Cap(step[c])
  /\ step[c] # "over" /\ ~Asks(c) => requests[c] < Cap(step[c]) \/ step[c] = "idle"
  /\ Asks(c) => wait[c].conn \in Conns
  /\ wait[c].for = "nothing" => wait[c] = Not
  /\ step[c] \in {"idle", "over"} => wait[c] = Not
  /\ verdict[c] # "none" => step[c] \in {"end", "fail", "over"}
  /\ step[c] \in {"end", "fail"} => verdict[c] \in Final
  /\ (step[c] = "idle" \/ (step[c] = "begin" /\ ~Asks(c))) => op[c] = "none"
  /\ c \in Locals => op[c] = "none" /\ step[c] \in {"idle", "run", "over"} /\ verdict[c] = "none"
  /\ c \notin Locals /\ step[c] \in {"run", "end", "fail"} => op[c] \notin NotActive
  /\ op[c] \in NotActive => script[c] = "none" /\ verdict[c] = "none"
  /\ script[c] # "none" => step[c] \in {"end", "fail", "over"} \/ (step[c] = "run" /\ Asks(c))

(* What its requests on the way say, and when they were sent.              *)
RequestInv(c) ==
  \A k \in Conns : \A m \in Sent(k) : m.call = c =>
    /\ m.id <= requests[c]
    /\ Current(c, m.id) => wait[c].conn = k /\ m.step = step[c] /\ m.verdict = verdict[c]
    /\ m.step = "begin" =>
         /\ c \notin Locals /\ op[c] = "none"
         /\ step[c] = "begin" \/ (step[c] = "over" /\ outcome[c] = "begin_lost")
    /\ m.step = "run" =>
         /\ script[c] = "none"
         /\ step[c] \in {"end", "fail", "over"} \/ (step[c] = "run" /\ Asks(c))
    /\ Ends(m) => /\ c \notin Locals /\ step[c] \in {"end", "fail", "over"}
                  /\ m.verdict \in Final
                  /\ (step[c] = "end" => Current(c, m.id))
    /\ c \notin Locals /\ m.step # "begin" => op[c] \notin NotActive

(* There is one begin, and one run.                                        *)
OnceInv(c) ==
  \A k, l \in Conns : \A m \in Sent(k), n \in Sent(l) :
    m.call = c /\ n.call = c /\ m.step = n.step /\ m.step \in {"begin", "run"} => k = l /\ m = n

(* The request the daemon is working at.                                   *)
AskedInv(c) ==
  /\ asked[c].id <= requests[c]
  /\ op[c] = "beginning" =>
       /\ asked[c].conn \in Conns /\ asked[c].id # 0
       /\ (step[c] = "over" => outcome[c] = "begin_lost")
  /\ script[c] = "open" => asked[c].id # 0
  /\ (op[c] = "beginning" \/ script[c] = "open") /\ Current(c, asked[c].id) =>
       wait[c].conn = asked[c].conn
  /\ script[c] = "open" /\ Current(c, asked[c].id) => step[c] = "run"

(* What the answers on the way say of the operation.                       *)
AnswerInv(c) ==
  \A k \in Conns : \A m \in Back(k) : m.call = c =>
    /\ m.id <= requests[c]
    /\ Current(c, m.id) =>
         /\ step[c] = "begin" =>
              IF m.answer = "ok" THEN op[c] \notin NotActive ELSE op[c] = "refused"
         /\ step[c] = "run" /\ c \in Mutations /\ m.answer # "unknown" =>
              op[c] # "active" \/ script[c] = "done"
         /\ step[c] \in {"end", "fail"} => op[c] # "active"

(* The end of an active operation that its call waits for is on the way, or *)
(* was lost with its connection.                                           *)
EndOnWay(c, k) == \E m \in Sent(k) : m.call = c /\ Ends(m)
EndInv(c) ==
  op[c] = "active" /\ step[c] \in {"end", "fail"} /\ Asks(c) /\ link[wait[c].conn] = "open" =>
    \E m \in Sent(wait[c].conn) : m.call = c /\ m.id = requests[c]

(* What is known of a mutation whose outcome is about to be said, if it is *)
(* not a batch.                                                            *)
NoRun(c) ==
  /\ script[c] \in {"none", "done"}
  /\ \A k \in Conns : \A m \in Sent(k) : m.call = c => m.step # "run"
OutcomeInv(c) ==
  c \in Mutations =>
    /\ c \notin Batches =>
         /\ op[c] \in Unsettled => script[c] \in {"none", "done"}
         /\ op[c] = "active" /\ verdict[c] \in Unsettled => NoRun(c)
         /\ \A k \in Conns : \A m \in Sent(k) :
              m.call = c /\ op[c] = "active" /\ Ends(m) /\ m.verdict \in Unsettled => NoRun(c)
    /\ op[c] = "FAILED" =>
         step[c] \in {"end", "fail", "over"} /\ ~(step[c] = "end" /\ verdict[c] = "SUCCEEDED")
    /\ outcome[c] = "success" => op[c] \in {"SUCCEEDED", "UNKNOWN", "ACKNOWLEDGED"}

(* Who will end an operation that is active.                               *)
OwnerInv(c) ==
  op[c] = "active" =>
    /\ source[c] # NoConn /\ link[source[c]] = "open"
    /\ ~overlapped /\ conn[source[c]] = "open" =>
         /\ Asks(c) => wait[c].conn = source[c]
         /\ step[c] = "over" => outcome[c] = "begin_lost" \/ EndOnWay(c, source[c])

CallInv(c) ==
  /\ StepInv(c) /\ RequestInv(c) /\ OnceInv(c) /\ AskedInv(c)
  /\ AnswerInv(c) /\ EndInv(c) /\ OutcomeInv(c) /\ OwnerInv(c)

CallsInv == \A c \in Calls : CallInv(c)

(* An answer is awaited on a connection that has been opened.              *)
WaitInv == \A c \in Calls : Asks(c) => conn[wait[c].conn] \notin {"none", "connecting"}

IInv == TypeInv /\ ConnInv /\ WaitInv /\ CallsInv /\ ReportedIsUnresolved

(***************************************************************************)
(* What the queues hold                                                    *)
(***************************************************************************)

(* A queue without its head holds what it held without the head, which is  *)
(* not in it twice.                                                        *)
LEMMA TailElements ==
  ASSUME NEW S, NEW q \in Seq(S), q # <<>>
  PROVE  /\ Head(q) \in S /\ Tail(q) \in Seq(S)
         /\ Range(q) = Range(Tail(q)) \union {Head(q)}
         /\ IsInjective(q) => IsInjective(Tail(q)) /\ Head(q) \notin Range(Tail(q))
<1>1. /\ Head(q) \in S /\ Tail(q) \in Seq(S)
      /\ Len(Tail(q)) = Len(q) - 1
      /\ \A i \in 1 .. Len(Tail(q)) : Tail(q)[i] = q[i + 1]
  BY HeadTailProperties
<1>2. Len(q) \in Nat \ {0} /\ DOMAIN q = 1 .. Len(q) /\ DOMAIN Tail(q) = 1 .. Len(q) - 1
  BY <1>1, LenProperties, EmptySeq
<1>3. Head(q) = q[1]
  OBVIOUS
<1>4. ASSUME NEW x \in Range(q) PROVE x \in Range(Tail(q)) \union {Head(q)}
  <2>1. PICK i \in 1 .. Len(q) : x = q[i]
    BY <1>2 DEF Range
  <2>2. CASE i = 1
    BY <2>1, <2>2, <1>3
  <2>3. CASE i # 1
    <3>1. i - 1 \in 1 .. Len(q) - 1 /\ Tail(q)[i - 1] = q[i]
      BY <1>1, <1>2, <2>3
    <3>2. QED
      BY <3>1, <2>1, <1>2 DEF Range
  <2>4. QED
    BY <2>2, <2>3
<1>5. ASSUME NEW x \in Range(Tail(q)) \union {Head(q)} PROVE x \in Range(q)
  <2>1. CASE x = Head(q)
    BY <2>1, <1>2, <1>3 DEF Range
  <2>2. CASE x # Head(q)
    <3>1. PICK i \in 1 .. Len(q) - 1 : x = Tail(q)[i]
      BY <2>2, <1>2 DEF Range
    <3>2. i + 1 \in 1 .. Len(q) /\ q[i + 1] = x
      BY <3>1, <1>1, <1>2
    <3>3. QED
      BY <3>2, <1>2 DEF Range
  <2>3. QED
    BY <2>1, <2>2
<1>6. ASSUME IsInjective(q) PROVE IsInjective(Tail(q))
  <2>1. SUFFICES ASSUME NEW i \in 1 .. Len(q) - 1, NEW j \in 1 .. Len(q) - 1, Tail(q)[i] = Tail(q)[j]
                 PROVE  i = j
    BY <1>2 DEF IsInjective
  <2>2. i + 1 \in 1 .. Len(q) /\ j + 1 \in 1 .. Len(q) /\ q[i + 1] = q[j + 1]
    BY <1>1, <1>2, <2>1
  <2>3. i + 1 = j + 1
    BY <2>2, <1>2, <1>6 DEF IsInjective
  <2>4. QED
    BY <2>3
<1>7. ASSUME IsInjective(q), Head(q) \in Range(Tail(q)) PROVE FALSE
  <2>1. PICK i \in 1 .. Len(q) - 1 : Head(q) = Tail(q)[i]
    BY <1>7, <1>2 DEF Range
  <2>2. i + 1 \in 1 .. Len(q) /\ 1 \in 1 .. Len(q) /\ q[i + 1] = q[1]
    BY <2>1, <1>1, <1>2, <1>3
  <2>3. i + 1 = 1
    BY <2>2, <1>2, <1>7 DEF IsInjective
  <2>4. QED
    BY <2>3
<1>8. QED
  BY <1>1, <1>4, <1>5, <1>6, <1>7

(* Appending adds an element.                                              *)
LEMMA AppendElements ==
  ASSUME NEW S, NEW q \in Seq(S), NEW e \in S
  PROVE  Append(q, e) \in Seq(S) /\ Range(Append(q, e)) = Range(q) \union {e}
<1>1. /\ Append(q, e) \in Seq(S)
      /\ Len(Append(q, e)) = Len(q) + 1
      /\ \A i \in 1 .. Len(q) : Append(q, e)[i] = q[i]
      /\ Append(q, e)[Len(q) + 1] = e
  BY AppendProperties
<1>2. /\ Len(q) \in Nat /\ DOMAIN q = 1 .. Len(q)
      /\ DOMAIN Append(q, e) = 1 .. Len(q) + 1
  BY <1>1, LenProperties
<1>3. ASSUME NEW x \in Range(Append(q, e)) PROVE x \in Range(q) \union {e}
  <2>1. PICK i \in 1 .. Len(q) + 1 : x = Append(q, e)[i]
    BY <1>2 DEF Range
  <2>2. QED
    BY <2>1, <1>1, <1>2 DEF Range
<1>4. ASSUME NEW x \in Range(q) \union {e} PROVE x \in Range(Append(q, e))
  <2>1. CASE x = e
    BY <2>1, <1>1, <1>2 DEF Range
  <2>2. CASE x \in Range(q)
    <3>1. PICK i \in 1 .. Len(q) : x = q[i]
      BY <2>2, <1>2 DEF Range
    <3>2. i \in 1 .. Len(q) + 1 /\ Append(q, e)[i] = x
      BY <3>1, <1>1, <1>2
    <3>3. QED
      BY <3>2, <1>2 DEF Range
  <2>3. QED
    BY <2>1, <2>2
<1>5. QED
  BY <1>1, <1>3, <1>4

(* A concatenation holds the elements of both; none twice, when neither    *)
(* holds any twice and they have none in common.                           *)
LEMMA ConcatElements ==
  ASSUME NEW S, NEW q \in Seq(S), NEW r \in Seq(S)
  PROVE  /\ q \o r \in Seq(S) /\ Range(q \o r) = Range(q) \union Range(r)
         /\ IsInjective(q) /\ IsInjective(r) /\ Range(q) \intersect Range(r) = {} =>
              IsInjective(q \o r)
<1>1. /\ q \o r \in Seq(S)
      /\ Len(q \o r) = Len(q) + Len(r)
      /\ \A i \in 1 .. Len(q) + Len(r) : (q \o r)[i] = IF i <= Len(q) THEN q[i] ELSE r[i - Len(q)]
  BY ConcatProperties
<1>2. /\ Len(q) \in Nat /\ DOMAIN q = 1 .. Len(q)
      /\ Len(r) \in Nat /\ DOMAIN r = 1 .. Len(r)
      /\ DOMAIN (q \o r) = 1 .. Len(q) + Len(r)
  BY <1>1, LenProperties
<1>a. ASSUME NEW i \in 1 .. Len(q) + Len(r)
      PROVE  \/ i \in 1 .. Len(q) /\ (q \o r)[i] = q[i] /\ q[i] \in Range(q)
             \/ i - Len(q) \in 1 .. Len(r) /\ (q \o r)[i] = r[i - Len(q)] /\ r[i - Len(q)] \in Range(r)
  BY <1>1, <1>2 DEF Range
<1>3. ASSUME NEW x \in Range(q \o r) PROVE x \in Range(q) \union Range(r)
  <2>1. PICK i \in 1 .. Len(q) + Len(r) : x = (q \o r)[i]
    BY <1>2 DEF Range
  <2>2. QED
    BY <2>1, <1>a
<1>4. ASSUME NEW x \in Range(q) \union Range(r) PROVE x \in Range(q \o r)
  <2>1. CASE x \in Range(q)
    <3>1. PICK i \in 1 .. Len(q) : x = q[i]
      BY <2>1, <1>2 DEF Range
    <3>2. i \in 1 .. Len(q) + Len(r) /\ (q \o r)[i] = x
      BY <3>1, <1>1, <1>2
    <3>3. QED
      BY <3>2, <1>2 DEF Range
  <2>2. CASE x \in Range(r)
    <3>1. PICK i \in 1 .. Len(r) : x = r[i]
      BY <2>2, <1>2 DEF Range
    <3>2. i + Len(q) \in 1 .. Len(q) + Len(r) /\ (q \o r)[i + Len(q)] = x
      BY <3>1, <1>1, <1>2
    <3>3. QED
      BY <3>2, <1>2 DEF Range
  <2>3. QED
    BY <2>1, <2>2
<1>5. ASSUME IsInjective(q), IsInjective(r), Range(q) \intersect Range(r) = {}
      PROVE  IsInjective(q \o r)
  <2>1. SUFFICES ASSUME NEW i \in 1 .. Len(q) + Len(r), NEW j \in 1 .. Len(q) + Len(r),
                        (q \o r)[i] = (q \o r)[j]
                 PROVE  i = j
    BY <1>2 DEF IsInjective
  <2>2. CASE i \in 1 .. Len(q) /\ j \in 1 .. Len(q)
    BY <2>1, <2>2, <1>1, <1>2, <1>5 DEF IsInjective
  <2>3. CASE i \notin 1 .. Len(q) /\ j \notin 1 .. Len(q)
    <3>1. i - Len(q) \in 1 .. Len(r) /\ j - Len(q) \in 1 .. Len(r) /\ r[i - Len(q)] = r[j - Len(q)]
      BY <2>1, <2>3, <1>1, <1>2
    <3>2. i - Len(q) = j - Len(q)
      BY <3>1, <1>2, <1>5 DEF IsInjective
    <3>3. QED
      BY <3>2, <1>2
  <2>4. QED
    BY <2>1, <2>2, <2>3, <1>a, <1>5
<1>6. QED
  BY <1>1, <1>3, <1>4, <1>5

(* SetToSeq lists a finite set, each element once.                         *)
LEMMA Enumeration ==
  ASSUME NEW S, IsFiniteSet(S)
  PROVE  /\ Cardinality(S) \in Nat
         /\ SetToSeq(S) \in [1 .. Cardinality(S) -> S] /\ IsInjective(SetToSeq(S))
         /\ \A x \in S : \E i \in 1 .. Cardinality(S) : SetToSeq(S)[i] = x
<1>1. Cardinality(S) \in Nat /\ ExistsBijection(1 .. Cardinality(S), S)
  BY FS_CardinalityType
<1>2. \E f \in [1 .. Cardinality(S) -> S] : IsInjective(f)
  BY <1>1 DEF ExistsBijection, Bijection, Injection
<1>3. SetToSeq(S) \in [1 .. Cardinality(S) -> S] /\ IsInjective(SetToSeq(S))
  BY <1>2 DEF SetToSeq
<1>4. SetToSeq(S) \in Injection(1 .. Cardinality(S), S)
  BY <1>3 DEF Injection
<1>5. Cardinality(1 .. Cardinality(S)) = Cardinality(S)
  BY <1>1, FS_Interval
<1>6. SetToSeq(S) \in Surjection(1 .. Cardinality(S), S)
  BY <1>4, <1>5, FS_Injection
<1>7. QED
  BY <1>1, <1>3, <1>6 DEF Surjection

(***************************************************************************)
(* What the steps do to the queues                                         *)
(***************************************************************************)

(* The daemon takes one request, and it is gone: no queue holds it twice.  *)
LEMMA RequestTaken ==
  ASSUME TypeInv, ConnInv, NEW k \in Conns, NEW steps, Takes(k, steps)
  PROVE  \E m \in Sent(k) :
           /\ m = Head(toDaemon[k]) /\ m \in RequestMessage /\ m.step \in steps
           /\ \A l \in Conns : Sent(l)' = IF l = k THEN Sent(k) \ {m} ELSE Sent(l)
           /\ toDaemon' \in [Conns -> Seq(RequestMessage)]
           /\ ConnInv'
<1> DEFINE q == toDaemon[k]
<1>1. /\ q \in Seq(RequestMessage) /\ q # <<>> /\ IsInjective(q) /\ link[k] = "open"
      /\ Head(q).step \in steps
      /\ toDaemon' = [toDaemon EXCEPT ![k] = Tail(q)] /\ UNCHANGED <<client, link>>
      /\ toDaemon \in [Conns -> Seq(RequestMessage)]
  BY DEF TypeInv, WireType, ConnInv, Takes
<1>2. /\ Head(q) \in RequestMessage /\ Tail(q) \in Seq(RequestMessage)
      /\ Range(q) = Range(Tail(q)) \union {Head(q)}
      /\ IsInjective(Tail(q)) /\ Head(q) \notin Range(Tail(q))
  BY <1>1, TailElements
<1>3. toDaemon' \in [Conns -> Seq(RequestMessage)]
  BY <1>1, <1>2
<1>4. \A l \in Conns : toDaemon'[l] = IF l = k THEN Tail(q) ELSE toDaemon[l]
  BY <1>1
<1>5. \A l \in Conns : Sent(l)' = IF l = k THEN Sent(k) \ {Head(q)} ELSE Sent(l)
  BY <1>2, <1>4 DEF Sent
<1>6. ConnInv'
  <2>1. \A l \in Conns : IsInjective(toDaemon'[l])
    BY <1>2, <1>4 DEF ConnInv
  <2>2. \A l \in Conns : link'[l] # "open" => toDaemon'[l] = <<>>
    BY <1>1, <1>4 DEF ConnInv
  <2>3. QED
    BY <2>1, <2>2, <1>1 DEF ConnInv, client
<1>7. Head(q) \in Sent(k)
  BY <1>2 DEF Sent
<1>8. QED
  BY <1>1, <1>2, <1>3, <1>5, <1>6, <1>7

(* A reply adds itself, or nothing, to what is on the way back.            *)
LEMMA Replied ==
  ASSUME TypeInv, NEW k \in Conns \union {NoConn}, NEW c \in Calls, NEW id \in Requests,
         NEW answer \in {"ok", "failed", "unknown"}, Reply(k, c, id, answer)
  PROVE  /\ toClient' \in [Conns -> Seq(ResponseMessage)]
         /\ \A l \in Conns : \A n \in Back(l)' :
              n \in Back(l) \/ (n.call = c /\ n.id = id /\ n.answer = answer)
<1> DEFINE e == [call |-> c, id |-> id, answer |-> answer]
<1>1. toClient \in [Conns -> Seq(ResponseMessage)]
  BY DEF TypeInv, WireType
<1>2. e \in ResponseMessage
  BY DEF ResponseMessage
<1>3. CASE toClient' = toClient
  BY <1>1, <1>3 DEF Back
<1>4. CASE k \in Conns /\ toClient' = [toClient EXCEPT ![k] = Append(toClient[k], e)]
  <2>1. toClient[k] \in Seq(ResponseMessage)
    BY <1>1, <1>4
  <2>2. /\ Append(toClient[k], e) \in Seq(ResponseMessage)
        /\ Range(Append(toClient[k], e)) = Range(toClient[k]) \union {e}
    BY <2>1, <1>2, AppendElements
  <2>3. \A l \in Conns : toClient'[l] = IF l = k THEN Append(toClient[k], e) ELSE toClient[l]
    BY <1>1, <1>4
  <2>4. QED
    BY <1>1, <1>4, <2>2, <2>3 DEF Back
<1>5. QED
  BY <1>3, <1>4 DEF Reply, NoConn

(* The request a call sends next.                                          *)
NextRequest(c) == [call |-> c, id |-> requests[c] + 1, step |-> step[c], verdict |-> verdict[c]]

(* A batch of requests, of calls none of whose requests has that number    *)
(* yet, goes on the way over an open link, and is lost over another.       *)
LEMMA BatchSent ==
  ASSUME TypeInv, ConnInv, NEW k \in Conns, NEW C \in SUBSET Calls, IsFiniteSet(C),
         link' \in [Conns -> {"none", "open", "closed"}],
         \A c \in C : requests[c] + 1 \in Requests /\ step[c] \in {"begin", "run", "end", "fail"},
         \A m \in Sent(k) : m.id <= requests[m.call],
         SendOn(k, C)
  PROVE  /\ toDaemon' \in [Conns -> Seq(RequestMessage)]
         /\ \A l \in Conns : IsInjective(toDaemon'[l])
         /\ \A l \in Conns : l # k \/ link'[k] # "open" => toDaemon'[l] = toDaemon[l]
         /\ \A l \in Conns : Sent(l)' =
              IF l = k /\ link'[k] = "open" THEN Sent(k) \union {NextRequest(c) : c \in C} ELSE Sent(l)
<1> DEFINE L == SetToSeq(C)
           N == Cardinality(C)
           r == [i \in 1 .. N |-> NextRequest(L[i])]
<1>1. /\ N \in Nat /\ L \in [1 .. N -> C] /\ IsInjective(L)
      /\ \A x \in C : \E i \in 1 .. N : L[i] = x
  BY Enumeration
<1>2. /\ toDaemon \in [Conns -> Seq(RequestMessage)] /\ IsInjective(toDaemon[k])
      /\ \A l \in Conns : IsInjective(toDaemon[l])
      /\ verdict \in [Calls -> Final \union {"none"}] /\ requests \in [Calls -> Requests \union {0}]
  BY DEF TypeInv, WireType, ToolType, ConnInv
<1>3. \A c \in C : NextRequest(c) \in RequestMessage
  BY <1>2 DEF NextRequest, RequestMessage
<1>4. CASE link'[k] # "open"
  <2>1. toDaemon' = toDaemon
    BY <1>4 DEF SendOn
  <2>2. QED
    BY <2>1, <1>2, <1>4 DEF Sent
<1>5. CASE link'[k] = "open"
  <2>1. toDaemon' = [toDaemon EXCEPT ![k] = toDaemon[k] \o r]
    BY <1>5 DEF SendOn, NextRequest
  <2>2. r \in Seq(RequestMessage)
    <3>1. \A i \in 1 .. N : NextRequest(L[i]) \in RequestMessage
      BY <1>1, <1>3
    <3>2. r \in [1 .. N -> RequestMessage]
      BY <3>1
    <3>3. QED
      BY <3>2, <1>1
  <2>3. IsInjective(r)
    <3>1. ASSUME NEW i \in 1 .. N, NEW j \in 1 .. N, r[i] = r[j] PROVE i = j
      <4>1. r[i].call = L[i] /\ r[j].call = L[j]
        BY DEF NextRequest
      <4>2. L[i] = L[j]
        BY <4>1, <3>1
      <4>3. QED
        BY <4>2, <1>1 DEF IsInjective
    <3>2. DOMAIN r = 1 .. N
      OBVIOUS
    <3> HIDE DEF r
    <3>3. QED
      BY <3>1, <3>2 DEF IsInjective
  <2>4. Range(r) = {NextRequest(c) : c \in C}
    <3>1. ASSUME NEW c \in C PROVE NextRequest(c) \in Range(r)
      <4>1. PICK i \in 1 .. N : L[i] = c
        BY <1>1
      <4>2. QED
        BY <4>1 DEF Range
    <3>2. \A i \in 1 .. N : L[i] \in C
      BY <1>1
    <3>3. QED
      BY <3>1, <3>2 DEF Range
  <2>5. Range(toDaemon[k]) \intersect Range(r) = {}
    <3>1. SUFFICES ASSUME NEW m \in Sent(k), NEW c \in C, m = NextRequest(c) PROVE FALSE
      BY <2>4 DEF Sent
    <3>2. m.id = requests[c] + 1 /\ m.call = c
      BY <3>1 DEF NextRequest
    <3>3. m.id <= requests[c]
      BY <3>2
    <3>4. requests[c] \in Int
      BY <1>2 DEF Requests
    <3>5. QED
      BY <3>2, <3>3, <3>4
  <2>6. toDaemon[k] \in Seq(RequestMessage)
    BY <1>2
  <2> HIDE DEF r
  <2>7. /\ toDaemon[k] \o r \in Seq(RequestMessage) /\ IsInjective(toDaemon[k] \o r)
        /\ Range(toDaemon[k] \o r) = Range(toDaemon[k]) \union Range(r)
    BY <1>2, <2>2, <2>3, <2>5, <2>6, ConcatElements
  <2>8. \A l \in Conns : toDaemon'[l] = IF l = k THEN toDaemon[k] \o r ELSE toDaemon[l]
    BY <2>1, <1>2
  <2>9. toDaemon' \in [Conns -> Seq(RequestMessage)]
    BY <2>1, <2>7, <1>2
  <2>10. \A l \in Conns : IsInjective(toDaemon'[l])
    BY <2>7, <2>8, <1>2
  <2>11. \A l \in Conns : Sent(l)' =
           IF l = k /\ link'[k] = "open" THEN Sent(k) \union {NextRequest(c) : c \in C} ELSE Sent(l)
    BY <2>4, <2>7, <2>8, <1>5 DEF Sent
  <2>12. QED
    BY <2>8, <2>9, <2>10, <2>11, <1>5
<1>6. QED
  BY <1>4, <1>5

(***************************************************************************)
(* A step that leaves a call, its operation and its messages alone keeps   *)
(* what is known of it, also when the call begins to wait for a connection *)
(* and when connections come and go that it does not depend on.            *)
(***************************************************************************)
SameTool(c) ==
  /\ step'[c] = step[c] /\ wait'[c] = wait[c] /\ requests'[c] = requests[c]
  /\ verdict'[c] = verdict[c] /\ outcome'[c] = outcome[c]
SameButWait(c) ==
  /\ step'[c] = step[c] /\ requests'[c] = requests[c]
  /\ verdict'[c] = verdict[c] /\ outcome'[c] = outcome[c]
  /\ \/ wait'[c] = wait[c]
     \/ wait'[c].for = "opening" /\ ~Asks(c) /\ step[c] \in {"begin", "run", "end", "fail"}
SameOperation(c) ==
  /\ op'[c] = op[c] /\ source'[c] = source[c] /\ asked'[c] = asked[c] /\ script'[c] = script[c]
SameRequests(c) ==
  \A k \in Conns : /\ \A m \in Sent(k)' : m.call = c => m \in Sent(k)
                   /\ \A m \in Sent(k) : m.call = c => m \in Sent(k)'
FewerAnswers(c) ==
  \A k \in Conns : \A m \in Back(k)' : m.call = c => m \in Back(k)
SameLinks == conn' = conn /\ link' = link /\ overlapped' = overlapped
LinksStay(c) ==
  /\ overlapped => overlapped'
  /\ Asks(c) => link'[wait[c].conn] = link[wait[c].conn]
  /\ op[c] = "active" =>
       /\ link'[source[c]] = link[source[c]]
       /\ conn'[source[c]] = "open" => conn[source[c]] = "open"

LEMMA Bystander ==
  ASSUME NEW c \in Calls, TypeInv, CallInv(c), SameButWait(c), SameOperation(c), SameRequests(c),
         FewerAnswers(c), LinksStay(c)
  PROVE  CallInv(c)'
<1> USE DEF SameOperation, SameRequests, FewerAnswers, LinksStay, CallInv
<1>0. /\ step'[c] = step[c] /\ requests'[c] = requests[c]
      /\ verdict'[c] = verdict[c] /\ outcome'[c] = outcome[c]
      /\ Asks(c)' <=> Asks(c)
      /\ Asks(c) => wait'[c] = wait[c]
      /\ wait'[c].for = "nothing" => wait'[c] = wait[c]
      /\ wait'[c] = wait[c] \/ step[c] \in {"begin", "run", "end", "fail"}
  BY DEF SameButWait, Asks
<1>1. StepInv(c)'
  <2>1. step'[c] # "over" /\ ~Asks(c)' => requests'[c] < Cap(step'[c]) \/ step'[c] = "idle"
    BY <1>0 DEF StepInv, Cap
  <2>2. requests'[c] <= Cap(step'[c])
    BY <1>0 DEF StepInv, Cap
  <2>3. QED
    BY <1>0, <2>1, <2>2 DEF StepInv, Cap
<1>2. RequestInv(c)'
  BY <1>0 DEF RequestInv, Current, Ends
<1>3. OnceInv(c)'
  BY DEF OnceInv
<1>4. AskedInv(c)'
  BY <1>0 DEF AskedInv, Current
<1>5. AnswerInv(c)'
  BY <1>0 DEF AnswerInv, Current
<1>6. EndInv(c)'
  BY <1>0 DEF EndInv, StepInv
<1>7. OutcomeInv(c)'
  BY <1>0 DEF OutcomeInv, NoRun, Ends
<1>8. OwnerInv(c)'
  <2>1. op[c] = "active" => source[c] \in Conns
    BY DEF OwnerInv, TypeInv, DaemonType
  <2>2. QED
    BY <1>0, <2>1 DEF OwnerInv, EndOnWay, Ends
<1>9. QED
  BY <1>1, <1>2, <1>3, <1>4, <1>5, <1>6, <1>7, <1>8

LEMMA OtherCall ==
  ASSUME NEW c \in Calls, TypeInv, CallInv(c), SameTool(c), SameOperation(c), SameRequests(c),
         FewerAnswers(c), SameLinks
  PROVE  CallInv(c)'
<1>1. SameButWait(c) /\ LinksStay(c)
  BY DEF SameTool, SameButWait, SameLinks, LinksStay
<1>2. QED
  BY <1>1, Bystander

(***************************************************************************)
(* The steps of the daemon                                                 *)
(***************************************************************************)
(* The begin of a call is taken, and no other one is on the way.            *)
LEMMA BeginTaken ==
  ASSUME TypeInv, ConnInv, CallsInv, NEW k \in Conns, TakeBegin(k)
  PROVE  CallsInv' /\ ConnInv' /\ TypeInv'
<1>1. PICK m \in Sent(k) :
        /\ m = Head(toDaemon[k]) /\ m \in RequestMessage /\ m.step = "begin"
        /\ \A l \in Conns : Sent(l)' = IF l = k THEN Sent(k) \ {m} ELSE Sent(l)
        /\ toDaemon' \in [Conns -> Seq(RequestMessage)] /\ ConnInv'
  BY RequestTaken DEF TakeBegin
<1>2. PICK c \in Calls : c = m.call
  BY <1>1 DEF RequestMessage
<1>3. /\ op' = [op EXCEPT ![c] = "beginning"]
      /\ asked' = [asked EXCEPT ![c] = [conn |-> k, id |-> m.id]]
      /\ UNCHANGED <<client, tool, link, toClient, source, script, recovery>>
  BY <1>1, <1>2 DEF TakeBegin, Takes
<1>4. \A l \in Conns : Back(l)' = Back(l)
  BY <1>3 DEF Back
<1>5. TypeInv'
  <2>1. m.id \in Requests
    BY <1>1 DEF RequestMessage
  <2>2. QED
    BY <1>1, <1>3, <2>1 DEF TypeInv, ClientType, ToolType, WireType, DaemonType, RecoveryType,
                            client, tool, recovery
<1>6. ASSUME NEW d \in Calls, d # c PROVE CallInv(d)'
  <2>1. SameTool(d) /\ SameOperation(d) /\ SameLinks
    BY <1>3, <1>6 DEF TypeInv, DaemonType, SameTool, SameOperation, SameLinks, client, tool
  <2>2. SameRequests(d) /\ FewerAnswers(d)
    BY <1>1, <1>2, <1>4, <1>6 DEF SameRequests, FewerAnswers
  <2>3. QED
    BY <2>1, <2>2, OtherCall DEF CallsInv
<1>7. CallInv(c)'
  <2>1. SameTool(c) /\ SameLinks /\ source' = source /\ script' = script
    BY <1>3 DEF SameTool, SameLinks, client, tool
  <2>2. op'[c] = "beginning" /\ asked'[c] = [conn |-> k, id |-> m.id]
    BY <1>3 DEF TypeInv, DaemonType
  <2>3. CallInv(c)
    BY DEF CallsInv
  <2>4. /\ op[c] = "none" /\ script[c] = "none" /\ verdict[c] = "none" /\ c \notin Locals
        /\ step[c] = "begin" \/ (step[c] = "over" /\ outcome[c] = "begin_lost")
        /\ m.id <= requests[c] /\ m.id \in Requests
        /\ Current(c, m.id) => wait[c].conn = k
    BY <1>1, <1>2, <2>3 DEF CallInv, RequestInv, StepInv, NotActive, RequestMessage
  <2>5. \A l \in Conns : \A n \in Sent(l)' : n.call # c
    <3>1. SUFFICES ASSUME NEW l \in Conns, NEW n \in Sent(l)', n.call = c PROVE FALSE
      OBVIOUS
    <3>2. n \in Sent(l) /\ (l = k => n # m)
      BY <1>1, <3>1
    <3>3. n.step = "begin"
      BY <3>1, <3>2, <2>3, <2>4 DEF CallInv, RequestInv, NotActive
    <3>4. QED
      BY <3>1, <3>2, <3>3, <1>1, <1>2, <2>3 DEF CallInv, OnceInv
  <2>6. step[c] = "begin" => Asks(c)
    <3>1. m.id # 0 /\ requests[c] \in Nat
      BY <2>4 DEF Requests, TypeInv, ToolType
    <3>2. QED
      BY <3>1, <2>3, <2>4 DEF CallInv, StepInv, Cap, Requests
  <2> USE DEF SameTool, SameLinks, CallInv
  <2>7. StepInv(c)'
    BY <2>1, <2>2, <2>3, <2>4, <2>6 DEF StepInv, Asks, NotActive
  <2>8. RequestInv(c)' /\ OnceInv(c)'
    BY <2>5 DEF RequestInv, OnceInv
  <2>9. AskedInv(c)'
    BY <2>1, <2>2, <2>4 DEF AskedInv, Asks, Current, Requests
  <2>10. AnswerInv(c)'
    BY <2>1, <2>2, <2>3, <2>4, <1>4 DEF AnswerInv, Asks, Current, NotActive
  <2>11. EndInv(c)' /\ OwnerInv(c)'
    BY <2>2 DEF EndInv, OwnerInv
  <2>12. OutcomeInv(c)'
    BY <2>1, <2>2, <2>3, <2>4 DEF OutcomeInv, Unsettled
  <2>13. QED
    BY <2>7, <2>8, <2>9, <2>10, <2>11, <2>12
<1>8. QED
  BY <1>1, <1>5, <1>6, <1>7 DEF CallsInv

(* A run is taken: the script may start when the operation is active.      *)
LEMMA RunTaken ==
  ASSUME TypeInv, ConnInv, CallsInv, NEW k \in Conns, TakeRun(k)
  PROVE  CallsInv' /\ ConnInv' /\ TypeInv'
<1>1. PICK m \in Sent(k) :
        /\ m = Head(toDaemon[k]) /\ m \in RequestMessage /\ m.step = "run"
        /\ \A l \in Conns : Sent(l)' = IF l = k THEN Sent(k) \ {m} ELSE Sent(l)
        /\ toDaemon' \in [Conns -> Seq(RequestMessage)] /\ ConnInv'
  BY RequestTaken DEF TakeRun
<1>2. PICK c \in Calls : c = m.call
  BY <1>1 DEF RequestMessage
<1>3. /\ UNCHANGED <<client, tool, link, op, source, recovery>>
      /\ c \notin Locals
      /\ \/ /\ op[c] = "active"
            /\ script' = [script EXCEPT ![c] = "open"]
            /\ asked' = [asked EXCEPT ![c] = [conn |-> k, id |-> m.id]]
            /\ UNCHANGED toClient
         \/ /\ op[c] # "active"
            /\ Reply(k, c, m.id, IF op[c] = "UNKNOWN" THEN "unknown" ELSE "failed")
            /\ UNCHANGED <<script, asked>>
  BY <1>1, <1>2 DEF TakeRun, Takes
<1>4. m.id \in Requests
  BY <1>1 DEF RequestMessage
<1>5. PICK answer \in {"unknown", "failed"} :
        /\ toClient' \in [Conns -> Seq(ResponseMessage)]
        /\ \A l \in Conns : \A n \in Back(l)' :
             n \in Back(l) \/ (n.call = c /\ n.id = m.id /\ n.answer = answer)
        /\ op[c] = "active" => \A l \in Conns : Back(l)' = Back(l)
  <2>1. CASE op[c] = "active"
    BY <2>1, <1>3 DEF Back, TypeInv, WireType
  <2>2. CASE op[c] # "active"
    BY <2>2, <1>3, <1>4, Replied
  <2>3. QED
    BY <2>1, <2>2
<1>6. TypeInv'
  <2>1. WireType'
    BY <1>1, <1>3, <1>5 DEF TypeInv, WireType
  <2>2. DaemonType'
    <3>1. DaemonType
      BY DEF TypeInv
    <3>2. [conn |-> k, id |-> m.id] \in [conn : Conns \union {NoConn}, id : Requests \union {0}]
      BY <1>4
    <3>3. asked' \in [Calls -> [conn : Conns \union {NoConn}, id : Requests \union {0}]]
      BY <1>3, <3>1, <3>2 DEF DaemonType
    <3>4. script' \in [Calls -> {"none", "open", "late", "done"}]
      BY <1>3, <3>1 DEF DaemonType
    <3>5. QED
      BY <1>3, <3>1, <3>3, <3>4 DEF DaemonType
  <2>3. QED
    BY <2>1, <2>2, <1>3 DEF TypeInv, ClientType, ToolType, RecoveryType, client, tool, recovery
<1>7. ASSUME NEW d \in Calls, d # c PROVE CallInv(d)'
  <2>1. SameTool(d) /\ SameOperation(d) /\ SameLinks
    BY <1>3, <1>7 DEF TypeInv, DaemonType, SameTool, SameOperation, SameLinks, client, tool
  <2>2. SameRequests(d) /\ FewerAnswers(d)
    BY <1>1, <1>2, <1>5, <1>7 DEF SameRequests, FewerAnswers
  <2>3. QED
    BY <2>1, <2>2, OtherCall DEF CallsInv
<1>8. CallInv(c)'
  <2>1. SameTool(c) /\ SameLinks /\ source' = source /\ op' = op
    BY <1>3 DEF SameTool, SameLinks, client, tool
  <2>2. CallInv(c)
    BY DEF CallsInv
  <2>3. /\ script[c] = "none" /\ op[c] \notin NotActive
        /\ step[c] \in {"end", "fail", "over"} \/ (step[c] = "run" /\ Asks(c))
        /\ m.id <= requests[c]
        /\ Current(c, m.id) => wait[c].conn = k /\ step[c] = "run"
    BY <1>1, <1>2, <1>3, <2>2 DEF CallInv, RequestInv
  <2>4. \A l \in Conns : \A n \in Sent(l)' : n \in Sent(l) /\ (n.call = c => n.step # "run")
    BY <1>1, <1>2, <2>2 DEF CallInv, OnceInv
  <2>5. c \in Mutations \ Batches /\ op[c] = "active" =>
          /\ verdict[c] \notin Unsettled
          /\ \A l \in Conns : \A n \in Sent(l) : n.call = c /\ Ends(n) => n.verdict \notin Unsettled
    BY <1>1, <1>2, <2>2 DEF CallInv, OutcomeInv, NoRun
  <2>6. CASE op[c] = "active"
    <3>1. /\ script'[c] = "open" /\ asked'[c] = [conn |-> k, id |-> m.id]
      BY <1>3, <2>6 DEF TypeInv, DaemonType
    <3> USE DEF SameTool, SameLinks, CallInv
    <3>2. StepInv(c)'
      BY <2>1, <2>2, <2>3, <2>6, <3>1 DEF StepInv, Asks, NotActive
    <3>3. RequestInv(c)'
      BY <2>1, <2>2, <2>4, <3>1 DEF RequestInv, Asks, Current, Ends
    <3>4. OnceInv(c)'
      BY <2>2, <2>4 DEF OnceInv
    <3>5. AskedInv(c)'
      BY <2>1, <2>3, <2>6, <3>1, <1>4 DEF AskedInv, Asks, Current, Requests
    <3>6. AnswerInv(c)'
      BY <2>1, <2>2, <2>3, <2>6, <3>1, <1>5 DEF AnswerInv, Asks, Current
    <3>7. EndInv(c)'
      <4>1. \A l \in Conns : \A n \in Sent(l) : n # m => n \in Sent(l)'
        BY <1>1
      <4>2. step[c] \in {"end", "fail"} /\ Asks(c) => requests[c] # m.id /\ wait[c].conn \in Conns
        BY <2>2, <2>3 DEF Current, StepInv
      <4>3. QED
        BY <2>1, <2>2, <4>1, <4>2 DEF EndInv, Asks
    <3>8. OutcomeInv(c)'
      BY <2>1, <2>2, <2>4, <2>5, <2>6, <3>1 DEF OutcomeInv, Ends, Unsettled
    <3>9. OwnerInv(c)'
      <4>1. \A l \in Conns : \A n \in Sent(l) : Ends(n) => n \in Sent(l)'
        BY <1>1 DEF Ends
      <4>2. source[c] \in Conns \union {NoConn}
        BY DEF TypeInv, DaemonType
      <4>3. QED
        BY <2>1, <2>2, <4>1, <4>2 DEF OwnerInv, EndOnWay, Asks
    <3>10. QED
      BY <3>2, <3>3, <3>4, <3>5, <3>6, <3>7, <3>8, <3>9
  <2>7. CASE op[c] # "active"
    <3>1. script' = script /\ asked' = asked
      BY <1>3, <2>7
    <3> USE DEF SameTool, SameLinks, CallInv
    <3>2. StepInv(c)'
      BY <2>1, <2>2, <3>1 DEF StepInv, Asks, NotActive
    <3>3. RequestInv(c)'
      BY <2>1, <2>2, <2>4, <3>1 DEF RequestInv, Asks, Current, Ends
    <3>4. OnceInv(c)'
      BY <2>2, <2>4 DEF OnceInv
    <3>5. AskedInv(c)'
      BY <2>1, <2>2, <3>1 DEF AskedInv, Asks, Current
    <3>6. AnswerInv(c)'
      BY <2>1, <2>2, <2>3, <2>7, <3>1, <1>5 DEF AnswerInv, Asks, Current
    <3>7. EndInv(c)' /\ OwnerInv(c)'
      BY <2>1, <2>7 DEF EndInv, OwnerInv
    <3>8. OutcomeInv(c)'
      BY <2>1, <2>2, <2>7, <3>1 DEF OutcomeInv
    <3>9. QED
      BY <3>2, <3>3, <3>4, <3>5, <3>6, <3>7, <3>8
  <2>8. QED
    BY <2>6, <2>7
<1>9. QED
  BY <1>1, <1>6, <1>7, <1>8 DEF CallsInv

(* An end is taken: the first one decides.                                 *)
LEMMA EndTaken ==
  ASSUME TypeInv, ConnInv, CallsInv, NEW k \in Conns, TakeEnd(k)
  PROVE  CallsInv' /\ ConnInv' /\ TypeInv'
<1>1. PICK m \in Sent(k) :
        /\ m = Head(toDaemon[k]) /\ m \in RequestMessage /\ m.step \in {"end", "fail"}
        /\ \A l \in Conns : Sent(l)' = IF l = k THEN Sent(k) \ {m} ELSE Sent(l)
        /\ toDaemon' \in [Conns -> Seq(RequestMessage)] /\ ConnInv'
  BY RequestTaken DEF TakeEnd
<1>2. PICK c \in Calls : c = m.call
  BY <1>1 DEF RequestMessage
<1>3. /\ UNCHANGED <<client, tool, link, asked, script, recovery>>
      /\ \E status \in IF op[c] = "active" THEN Finalized(c, m.verdict) ELSE {op[c]} :
           op' = [op EXCEPT ![c] = status]
      /\ source' = [source EXCEPT ![c] = NoConn]
      /\ Reply(k, c, m.id, IF op[c] \in Final \union {"active", "ACKNOWLEDGED"} THEN "ok" ELSE "failed")
  BY <1>1, <1>2 DEF TakeEnd, Takes
<1>4. m.id \in Requests
  BY <1>1 DEF RequestMessage
<1>5. PICK answer \in {"ok", "failed"} :
        /\ toClient' \in [Conns -> Seq(ResponseMessage)]
        /\ \A l \in Conns : \A n \in Back(l)' :
             n \in Back(l) \/ (n.call = c /\ n.id = m.id /\ n.answer = answer)
  BY <1>3, <1>4, Replied
<1>6. CallInv(c)
  BY DEF CallsInv
<1>7. /\ c \notin Locals /\ op[c] \notin NotActive /\ m.verdict \in Final
      /\ step[c] \in {"end", "fail", "over"} /\ m.id <= requests[c]
      /\ step[c] = "end" => Current(c, m.id)
      /\ Current(c, m.id) => m.step = step[c] /\ m.verdict = verdict[c]
  BY <1>1, <1>2, <1>6 DEF CallInv, RequestInv, Ends
<1>8. PICK status \in Final \union {op[c]} :
         /\ op' = [op EXCEPT ![c] = status]
         /\ op[c] = "active" =>
              \/ status = m.verdict
              \/ c \in Mutations /\ m.verdict = "SUCCEEDED" /\ status = "UNKNOWN"
         /\ op[c] # "active" => status = op[c]
         /\ op[c] = "active" => status \in Final
  BY <1>3, <1>7 DEF Finalized, Final
<1>9. TypeInv'
  BY <1>1, <1>3, <1>5, <1>8 DEF TypeInv, ClientType, ToolType, WireType, DaemonType, RecoveryType, Final,
                                 client, tool, recovery
<1>10. ASSUME NEW d \in Calls, d # c PROVE CallInv(d)'
  <2>1. SameTool(d) /\ SameOperation(d) /\ SameLinks
    BY <1>3, <1>8, <1>10 DEF TypeInv, DaemonType, SameTool, SameOperation, SameLinks, client, tool
  <2>2. SameRequests(d) /\ FewerAnswers(d)
    BY <1>1, <1>2, <1>5, <1>10 DEF SameRequests, FewerAnswers
  <2>3. QED
    BY <2>1, <2>2, OtherCall DEF CallsInv
<1>11. CallInv(c)'
  <2>1. SameTool(c) /\ SameLinks /\ script' = script /\ asked' = asked
    BY <1>3 DEF SameTool, SameLinks, client, tool
  <2>2. op'[c] = status
    BY <1>8 DEF TypeInv, DaemonType
  <2>3. op'[c] # "active" /\ op'[c] \notin NotActive
    BY <2>2, <1>7, <1>8 DEF Final, NotActive
  <2>4. \A l \in Conns : \A n \in Sent(l)' : n \in Sent(l)
    BY <1>1
  <2> USE DEF SameTool, SameLinks, CallInv
  <2>5. StepInv(c)'
    BY <2>1, <2>3, <1>6, <1>7 DEF StepInv, Asks
  <2>6. RequestInv(c)'
    BY <2>1, <2>3, <2>4, <1>6, <1>7 DEF RequestInv, Asks, Current, Ends, NotActive
  <2>7. OnceInv(c)'
    BY <2>4, <1>6 DEF OnceInv
  <2>8. AskedInv(c)'
    BY <2>1, <2>3, <1>6 DEF AskedInv, Asks, Current, NotActive
  <2>9. AnswerInv(c)'
    BY <2>1, <2>3, <1>5, <1>6, <1>7 DEF AnswerInv, Asks, Current, NotActive
  <2>10. EndInv(c)' /\ OwnerInv(c)'
    BY <2>3 DEF EndInv, OwnerInv
  <2>11. OutcomeInv(c)'
    <3>1. c \in Mutations \ Batches /\ op[c] = "active" /\ m.verdict \in Unsettled => script[c] \in {"none", "done"}
      BY <1>1, <1>2, <1>6 DEF OutcomeInv, NoRun, Ends
    <3>2. c \in Mutations /\ op[c] = "active" => outcome[c] # "success"
      BY <1>6 DEF OutcomeInv
    <3>3. op[c] = "active" /\ m.verdict = "FAILED" => ~(step[c] = "end" /\ verdict[c] = "SUCCEEDED")
      BY <1>7
    <3>4. QED
      BY <2>1, <2>2, <2>3, <3>1, <3>2, <3>3, <1>6, <1>7, <1>8 DEF OutcomeInv, Unsettled, Final
  <2>12. QED
    BY <2>5, <2>6, <2>7, <2>8, <2>9, <2>10, <2>11
<1>12. QED
  BY <1>1, <1>9, <1>10, <1>11 DEF CallsInv

(* The steps of the daemon that take no request leave the queue to it.     *)
LEMMA QueueKept ==
  ASSUME ConnInv, UNCHANGED <<client, link, toDaemon>>
  PROVE  ConnInv' /\ SameLinks /\ \A l \in Conns : Sent(l)' = Sent(l)
  BY DEF ConnInv, Sent, SameLinks, client

(* Another call is not touched by the work the daemon does for one.        *)
LEMMA OtherWork ==
  ASSUME TypeInv, CallsInv, NEW c \in Calls, NEW d \in Calls, d # c,
         UNCHANGED <<client, tool, link, toDaemon>>,
         \A l \in Conns : \A n \in Back(l)' : n \in Back(l) \/ n.call = c,
         op'[d] = op[d], source'[d] = source[d], asked'[d] = asked[d], script'[d] = script[d]
  PROVE  CallInv(d)'
<1>1. SameTool(d) /\ SameOperation(d) /\ SameLinks
  BY DEF SameTool, SameOperation, SameLinks, client, tool
<1>2. SameRequests(d) /\ FewerAnswers(d)
  BY DEF SameRequests, FewerAnswers, Sent
<1>3. QED
  BY <1>1, <1>2, OtherCall DEF CallsInv

(* While a call begins, none of its requests is on the way.                *)
LEMMA Beginning ==
  ASSUME TypeInv, CallsInv, NEW c \in Calls, op[c] = "beginning"
  PROVE  /\ c \notin Locals /\ script[c] = "none" /\ verdict[c] = "none"
         /\ asked[c].conn \in Conns /\ asked[c].id \in Requests
         /\ \/ step[c] = "begin" /\ Asks(c) /\ Current(c, asked[c].id) /\ wait[c].conn = asked[c].conn
            \/ step[c] = "over" /\ outcome[c] = "begin_lost" /\ ~Asks(c)
         /\ \A l \in Conns : \A n \in Sent(l) : n.call # c
<1>1. CallInv(c)
  BY DEF CallsInv
<1>2. c \notin Locals /\ script[c] = "none" /\ verdict[c] = "none"
  BY <1>1 DEF CallInv, StepInv, NotActive
<1>3. asked[c].conn \in Conns /\ asked[c].id \in Requests /\ asked[c].id <= requests[c]
  BY <1>1 DEF CallInv, AskedInv, TypeInv, DaemonType
<1>4. step[c] \in {"begin", "over"}
  BY <1>1, <1>2 DEF CallInv, StepInv, NotActive, TypeInv, ToolType
<1>5. ASSUME step[c] = "begin"
      PROVE  Asks(c) /\ Current(c, asked[c].id) /\ wait[c].conn = asked[c].conn
  <2>1. Asks(c) /\ requests[c] <= 1
    BY <1>1, <1>5 DEF CallInv, StepInv, Cap
  <2>2. requests[c] = asked[c].id
    BY <1>3, <2>1 DEF Requests, TypeInv, ToolType
  <2>3. QED
    BY <1>1, <1>5, <2>1, <2>2 DEF CallInv, AskedInv, Current
<1>6. ASSUME step[c] = "over" PROVE outcome[c] = "begin_lost" /\ ~Asks(c)
  BY <1>1, <1>6 DEF CallInv, AskedInv, StepInv, Asks, Not
<1>7. \A l \in Conns : \A n \in Sent(l) : n.call # c
  BY <1>1, <1>2 DEF CallInv, RequestInv, NotActive
<1>8. QED
  BY <1>2, <1>3, <1>4, <1>5, <1>6, <1>7

(* A begin is refused.                                                     *)
LEMMA RefusalKeeps ==
  ASSUME TypeInv, ConnInv, CallsInv, NEW c \in Calls, BeginRefused(c)
  PROVE  CallsInv' /\ ConnInv' /\ TypeInv'
<1>1. /\ op[c] = "beginning" /\ op' = [op EXCEPT ![c] = "refused"]
      /\ asked' = [asked EXCEPT ![c] = NoRequest]
      /\ Reply(asked[c].conn, c, asked[c].id, "failed")
      /\ UNCHANGED <<client, tool, link, toDaemon, source, script, recovery>>
  BY DEF BeginRefused, Answer
<1>2. /\ c \notin Locals /\ script[c] = "none" /\ verdict[c] = "none"
      /\ asked[c].conn \in Conns /\ asked[c].id \in Requests
      /\ \/ step[c] = "begin" /\ Asks(c) /\ Current(c, asked[c].id)
         \/ step[c] = "over" /\ outcome[c] = "begin_lost" /\ ~Asks(c)
      /\ \A l \in Conns : \A n \in Sent(l) : n.call # c
  BY <1>1, Beginning
<1>3. /\ toClient' \in [Conns -> Seq(ResponseMessage)]
      /\ \A l \in Conns : \A n \in Back(l)' :
           n \in Back(l) \/ (n.call = c /\ n.id = asked[c].id /\ n.answer = "failed")
  BY <1>1, <1>2, Replied
<1>4. ConnInv' /\ SameLinks /\ \A l \in Conns : Sent(l)' = Sent(l)
  BY <1>1, QueueKept
<1>5. TypeInv'
  <2>1. WireType'
    BY <1>1, <1>3 DEF TypeInv, WireType
  <2>2. DaemonType'
    BY <1>1 DEF TypeInv, DaemonType, NoRequest
  <2>3. QED
    BY <2>1, <2>2, <1>1 DEF TypeInv, ClientType, ToolType, RecoveryType, client, tool, recovery
<1>6. ASSUME NEW d \in Calls, d # c PROVE CallInv(d)'
  <2>1. op'[d] = op[d] /\ source'[d] = source[d] /\ asked'[d] = asked[d] /\ script'[d] = script[d]
    BY <1>1, <1>6 DEF TypeInv, DaemonType
  <2>2. QED
    BY <2>1, <1>1, <1>3, <1>6, OtherWork
<1>7. CallInv(c)'
  <2>1. SameTool(c) /\ op'[c] = "refused" /\ asked'[c] = NoRequest /\ script'[c] = script[c]
    BY <1>1 DEF SameTool, tool, TypeInv, DaemonType
  <2>2. CallInv(c)
    BY DEF CallsInv
  <2>3. requests[c] \in Nat
    BY DEF TypeInv, ToolType, Requests
  <2> USE DEF SameTool, SameLinks, CallInv
  <2>4. StepInv(c)'
    BY <2>1, <2>2, <1>2 DEF StepInv, Asks, NotActive
  <2>5. RequestInv(c)' /\ OnceInv(c)'
    BY <1>2, <1>4 DEF RequestInv, OnceInv
  <2>6. AskedInv(c)'
    BY <2>1, <2>3, <1>2 DEF AskedInv, Asks, Current, NoRequest
  <2>7. AnswerInv(c)'
    BY <2>1, <2>2, <1>1, <1>2, <1>3 DEF AnswerInv, AskedInv, Asks, Current, NotActive
  <2>8. EndInv(c)' /\ OwnerInv(c)'
    BY <2>1 DEF EndInv, OwnerInv
  <2>9. OutcomeInv(c)'
    BY <2>1, <2>2, <1>1, <1>2 DEF OutcomeInv, Unsettled
  <2>10. QED
    BY <2>4, <2>5, <2>6, <2>7, <2>8, <2>9
<1>8. QED
  BY <1>4, <1>5, <1>6, <1>7 DEF CallsInv

(* An operation begins to be active, or its source has gone meanwhile.     *)
LEMMA BegunKeeps ==
  ASSUME TypeInv, ConnInv, CallsInv, NEW c \in Calls, Begun(c)
  PROVE  CallsInv' /\ ConnInv' /\ TypeInv'
<1>1. /\ op[c] = "beginning" /\ asked' = [asked EXCEPT ![c] = NoRequest]
      /\ UNCHANGED <<client, tool, link, toDaemon, script, recovery>>
      /\ \/ /\ link[asked[c].conn] = "open"
            /\ op' = [op EXCEPT ![c] = "active"] /\ source' = [source EXCEPT ![c] = asked[c].conn]
            /\ Reply(asked[c].conn, c, asked[c].id, "ok")
         \/ /\ op' = [op EXCEPT ![c] = Orphaned(c)]
            /\ UNCHANGED <<source, toClient>>
  BY DEF Begun, Answer
<1>2. /\ c \notin Locals /\ script[c] = "none" /\ verdict[c] = "none"
      /\ asked[c].conn \in Conns /\ asked[c].id \in Requests
      /\ \/ step[c] = "begin" /\ Asks(c) /\ Current(c, asked[c].id) /\ wait[c].conn = asked[c].conn
         \/ step[c] = "over" /\ outcome[c] = "begin_lost" /\ ~Asks(c)
      /\ \A l \in Conns : \A n \in Sent(l) : n.call # c
  BY <1>1, Beginning
<1>3. /\ toClient' \in [Conns -> Seq(ResponseMessage)]
      /\ \A l \in Conns : \A n \in Back(l)' :
           n \in Back(l) \/ (n.call = c /\ n.id = asked[c].id /\ n.answer = "ok" /\ op'[c] = "active")
  <2>1. CASE Reply(asked[c].conn, c, asked[c].id, "ok") /\ op' = [op EXCEPT ![c] = "active"]
    <3>1. op'[c] = "active"
      BY <2>1 DEF TypeInv, DaemonType
    <3>2. QED
      BY <2>1, <3>1, <1>2, Replied
  <2>2. CASE UNCHANGED toClient
    BY <2>2 DEF TypeInv, WireType, Back
  <2>3. QED
    BY <2>1, <2>2, <1>1
<1>4. ConnInv' /\ SameLinks /\ \A l \in Conns : Sent(l)' = Sent(l)
  BY <1>1, QueueKept
<1>5. /\ asked'[c] = NoRequest /\ script'[c] = "none"
      /\ \/ op'[c] = "active" /\ source'[c] = asked[c].conn /\ link[asked[c].conn] = "open"
         \/ op'[c] = (IF c \in Mutations THEN "UNKNOWN" ELSE "FAILED")
  BY <1>1, <1>2 DEF TypeInv, DaemonType, Orphaned
<1>6. TypeInv'
  <2>1. WireType'
    BY <1>1, <1>3 DEF TypeInv, WireType
  <2>2. DaemonType'
    BY <1>1, <1>2 DEF TypeInv, DaemonType, NoRequest, Orphaned, Final
  <2>3. QED
    BY <2>1, <2>2, <1>1 DEF TypeInv, ClientType, ToolType, RecoveryType, client, tool, recovery
<1>7. ASSUME NEW d \in Calls, d # c PROVE CallInv(d)'
  <2>1. op'[d] = op[d] /\ source'[d] = source[d] /\ asked'[d] = asked[d] /\ script'[d] = script[d]
    BY <1>1, <1>7 DEF TypeInv, DaemonType
  <2>2. QED
    BY <2>1, <1>1, <1>3, <1>7, OtherWork
<1>8. CallInv(c)'
  <2>1. SameTool(c)
    BY <1>1 DEF SameTool, tool
  <2>2. CallInv(c)
    BY DEF CallsInv
  <2>3. requests[c] \in Nat
    BY DEF TypeInv, ToolType, Requests
  <2> USE DEF SameTool, SameLinks, CallInv
  <2>4. StepInv(c)'
    BY <2>1, <2>2, <1>2, <1>5 DEF StepInv, Asks, NotActive
  <2>5. RequestInv(c)' /\ OnceInv(c)'
    BY <1>2, <1>4 DEF RequestInv, OnceInv
  <2>6. AskedInv(c)'
    BY <2>1, <2>3, <1>2, <1>5 DEF AskedInv, Asks, Current, NoRequest
  <2>7. AnswerInv(c)'
    BY <2>1, <2>2, <1>1, <1>2, <1>3, <1>5 DEF AnswerInv, AskedInv, Asks, Current, NotActive
  <2>8. EndInv(c)'
    BY <2>1, <1>2 DEF EndInv
  <2>9. OwnerInv(c)'
    BY <2>1, <1>2, <1>4, <1>5 DEF OwnerInv, Asks, NoConn, Conns
  <2>10. OutcomeInv(c)'
    BY <2>1, <2>2, <1>1, <1>2, <1>4, <1>5 DEF OutcomeInv, Unsettled
  <2>11. QED
    BY <2>4, <2>5, <2>6, <2>7, <2>8, <2>9, <2>10
<1>9. QED
  BY <1>4, <1>6, <1>7, <1>8 DEF CallsInv

(* A script ends, in time or late.                                         *)
LEMMA ScriptEndKeeps ==
  ASSUME TypeInv, ConnInv, CallsInv, NEW c \in Calls, ScriptEnds(c)
  PROVE  CallsInv' /\ ConnInv' /\ TypeInv'
<1>1. /\ \/ script[c] = "open" /\ \E answer \in {"ok", "failed"} : Reply(asked[c].conn, c, asked[c].id, answer)
         \/ script[c] = "late" /\ UNCHANGED toClient
      /\ script' = [script EXCEPT ![c] = "done"]
      /\ asked' = [asked EXCEPT ![c] = NoRequest]
      /\ UNCHANGED <<client, tool, link, toDaemon, op, source, recovery>>
  BY DEF ScriptEnds, Answer
<1>2. CallInv(c)
  BY DEF CallsInv
<1>3. script[c] = "open" => asked[c].id \in Requests
  BY <1>2 DEF CallInv, AskedInv, TypeInv, DaemonType
<1>4. /\ toClient' \in [Conns -> Seq(ResponseMessage)]
      /\ \A l \in Conns : \A n \in Back(l)' :
           n \in Back(l) \/ (n.call = c /\ n.id = asked[c].id /\ script[c] = "open")
  <2>1. CASE script[c] = "open"
    <3>1. PICK answer \in {"ok", "failed"} : Reply(asked[c].conn, c, asked[c].id, answer)
      BY <1>1, <2>1
    <3>2. asked[c].conn \in Conns \union {NoConn}
      BY DEF TypeInv, DaemonType
    <3>3. QED
      BY <2>1, <3>1, <3>2, <1>3, Replied
  <2>2. CASE UNCHANGED toClient
    BY <2>2 DEF TypeInv, WireType, Back
  <2>3. QED
    BY <2>1, <2>2, <1>1
<1>5. ConnInv' /\ SameLinks /\ \A l \in Conns : Sent(l)' = Sent(l)
  BY <1>1, QueueKept
<1>6. TypeInv'
  <2>1. WireType'
    BY <1>1, <1>4 DEF TypeInv, WireType
  <2>2. DaemonType'
    BY <1>1 DEF TypeInv, DaemonType, NoRequest
  <2>3. QED
    BY <2>1, <2>2, <1>1 DEF TypeInv, ClientType, ToolType, RecoveryType, client, tool, recovery
<1>7. ASSUME NEW d \in Calls, d # c PROVE CallInv(d)'
  <2>1. op'[d] = op[d] /\ source'[d] = source[d] /\ asked'[d] = asked[d] /\ script'[d] = script[d]
    BY <1>1, <1>7 DEF TypeInv, DaemonType
  <2>2. QED
    BY <2>1, <1>1, <1>4, <1>7, OtherWork
<1>8. CallInv(c)'
  <2>1. /\ SameTool(c) /\ op'[c] = op[c] /\ source'[c] = source[c]
        /\ asked'[c] = NoRequest /\ script'[c] = "done"
    BY <1>1 DEF SameTool, tool, TypeInv, DaemonType
  <2>2. script[c] # "none" /\ op[c] \notin NotActive
    BY <1>1, <1>2 DEF CallInv, StepInv
  <2>3. requests[c] \in Nat
    BY DEF TypeInv, ToolType, Requests
  <2> USE DEF SameTool, SameLinks, CallInv
  <2>4. StepInv(c)'
    BY <2>1, <2>2, <1>2 DEF StepInv, Asks
  <2>5. RequestInv(c)'
    BY <2>1, <2>2, <1>2, <1>5 DEF RequestInv, Asks, Current, Ends
  <2>6. OnceInv(c)'
    BY <1>2, <1>5 DEF OnceInv
  <2>7. AskedInv(c)'
    BY <2>1, <2>2, <2>3 DEF AskedInv, Asks, Current, NoRequest, NotActive
  <2>8. AnswerInv(c)'
    <3>1. script[c] = "open" => asked[c].id <= requests[c] /\ (Current(c, asked[c].id) => step[c] = "run")
      BY <1>2 DEF AskedInv
    <3>2. QED
      BY <2>1, <2>2, <3>1, <1>2, <1>4 DEF AnswerInv, Asks, Current
  <2>9. EndInv(c)'
    BY <2>1, <1>2, <1>5 DEF EndInv, Asks, StepInv
  <2>10. OwnerInv(c)'
    <3>1. op[c] = "active" => source[c] \in Conns
      BY <1>2 DEF OwnerInv, TypeInv, DaemonType
    <3>2. QED
      BY <2>1, <3>1, <1>2, <1>5 DEF OwnerInv, EndOnWay, Asks
  <2>11. OutcomeInv(c)'
    BY <2>1, <1>2, <1>5 DEF OutcomeInv, NoRun, Unsettled
  <2>12. QED
    BY <2>4, <2>5, <2>6, <2>7, <2>8, <2>9, <2>10, <2>11
<1>9. QED
  BY <1>5, <1>6, <1>7, <1>8 DEF CallsInv

(* A request ends before its script has.                                   *)
LEMMA ScriptUnknownKeeps ==
  ASSUME TypeInv, ConnInv, CallsInv, NEW c \in Calls, ScriptUnknown(c)
  PROVE  CallsInv' /\ ConnInv' /\ TypeInv'
<1>1. /\ script[c] = "open" /\ script' = [script EXCEPT ![c] = "late"]
      /\ asked' = [asked EXCEPT ![c] = NoRequest]
      /\ op' = [op EXCEPT ![c] = IF c \in Mutations /\ op[c] = "active" THEN "UNKNOWN" ELSE op[c]]
      /\ Reply(asked[c].conn, c, asked[c].id, IF c \in Mutations THEN "unknown" ELSE "failed")
      /\ UNCHANGED <<client, tool, link, toDaemon, source, recovery>>
  BY DEF ScriptUnknown, Answer
<1>2. CallInv(c)
  BY DEF CallsInv
<1>3. asked[c].id \in Requests /\ asked[c].conn \in Conns \union {NoConn}
  BY <1>1, <1>2 DEF CallInv, AskedInv, TypeInv, DaemonType
<1>4. /\ toClient' \in [Conns -> Seq(ResponseMessage)]
      /\ \A l \in Conns : \A n \in Back(l)' :
           \/ n \in Back(l)
           \/ n.call = c /\ n.id = asked[c].id /\ n.answer = IF c \in Mutations THEN "unknown" ELSE "failed"
  BY <1>1, <1>3, Replied
<1>5. ConnInv' /\ SameLinks /\ \A l \in Conns : Sent(l)' = Sent(l)
  BY <1>1, QueueKept
<1>6. TypeInv'
  <2>1. WireType'
    BY <1>1, <1>4 DEF TypeInv, WireType
  <2>2. DaemonType'
    BY <1>1 DEF TypeInv, DaemonType, NoRequest, Final
  <2>3. QED
    BY <2>1, <2>2, <1>1 DEF TypeInv, ClientType, ToolType, RecoveryType, client, tool, recovery
<1>7. ASSUME NEW d \in Calls, d # c PROVE CallInv(d)'
  <2>1. op'[d] = op[d] /\ source'[d] = source[d] /\ asked'[d] = asked[d] /\ script'[d] = script[d]
    BY <1>1, <1>7 DEF TypeInv, DaemonType
  <2>2. QED
    BY <2>1, <1>1, <1>4, <1>7, OtherWork
<1>8. CallInv(c)'
  <2>1. /\ SameTool(c) /\ source'[c] = source[c]
        /\ op'[c] = IF c \in Mutations /\ op[c] = "active" THEN "UNKNOWN" ELSE op[c]
        /\ asked'[c] = NoRequest /\ script'[c] = "late"
    BY <1>1 DEF SameTool, tool, TypeInv, DaemonType
  <2>2. op[c] \notin NotActive
    BY <1>1, <1>2 DEF CallInv, StepInv
  <2>3. requests[c] \in Nat
    BY DEF TypeInv, ToolType, Requests
  <2>a. op'[c] \notin NotActive /\ (op'[c] = "active" => op[c] = "active" /\ c \notin Mutations)
    BY <2>1, <2>2 DEF NotActive
  <2> USE DEF SameTool, SameLinks, CallInv
  <2>4. StepInv(c)'
    <3>1. op'[c] = "none" => op[c] = "none"
      BY <2>a DEF NotActive
    <3>2. QED
      BY <2>1, <2>2, <2>a, <3>1, <1>1, <1>2 DEF StepInv, Asks, NotActive
  <2>5. RequestInv(c)'
    BY <2>1, <2>2, <2>a, <1>1, <1>2, <1>5 DEF RequestInv, Asks, Current, Ends, NotActive
  <2>6. OnceInv(c)'
    BY <1>2, <1>5 DEF OnceInv
  <2>7. AskedInv(c)'
    BY <2>1, <2>a, <2>3 DEF AskedInv, Asks, Current, NoRequest, NotActive
  <2>8. AnswerInv(c)'
    <3>1. asked[c].id <= requests[c] /\ (Current(c, asked[c].id) => step[c] = "run")
      BY <1>1, <1>2 DEF AskedInv
    <3>2. QED
      BY <2>1, <2>2, <2>a, <3>1, <1>1, <1>2, <1>4 DEF AnswerInv, Asks, Current, NotActive
  <2>9. EndInv(c)'
    BY <2>1, <2>a, <1>2, <1>5 DEF EndInv, Asks, StepInv
  <2>10. OwnerInv(c)'
    <3>1. op[c] = "active" => source[c] \in Conns
      BY <1>2 DEF OwnerInv, TypeInv, DaemonType
    <3>2. QED
      BY <2>1, <2>a, <3>1, <1>2, <1>5 DEF OwnerInv, EndOnWay, Asks
  <2>11. OutcomeInv(c)'
    BY <2>1, <2>a, <1>1, <1>2, <1>5 DEF OutcomeInv, NoRun, Unsettled
  <2>12. QED
    BY <2>4, <2>5, <2>6, <2>7, <2>8, <2>9, <2>10, <2>11
<1>9. QED
  BY <1>5, <1>6, <1>7, <1>8 DEF CallsInv

(* A connection goes, with the requests on it; its operations are orphans. *)
LEMMA SocketCloseKeeps ==
  ASSUME TypeInv, ConnInv, CallsInv, NEW k \in Conns, HandleSocketClose(k)
  PROVE  CallsInv' /\ ConnInv' /\ TypeInv'
<1>1. /\ link[k] = "open" /\ link' = [link EXCEPT ![k] = "closed"]
      /\ toDaemon' = [toDaemon EXCEPT ![k] = <<>>]
      /\ op' = [c \in Calls |-> IF source[c] = k /\ op[c] = "active" THEN Orphaned(c) ELSE op[c]]
      /\ source' = [c \in Calls |-> IF source[c] = k THEN NoConn ELSE source[c]]
      /\ UNCHANGED <<client, tool, toClient, asked, script, recovery>>
  BY DEF HandleSocketClose
<1>2. /\ \A l \in Conns : link'[l] = IF l = k THEN "closed" ELSE link[l]
      /\ \A l \in Conns : toDaemon'[l] = IF l = k THEN <<>> ELSE toDaemon[l]
  BY <1>1 DEF TypeInv, WireType
<1>3. /\ \A l \in Conns : Sent(l)' = IF l = k THEN {} ELSE Sent(l)
      /\ \A l \in Conns : Back(l)' = Back(l)
  BY <1>1, <1>2 DEF Sent, Back, Range
<1>4. ConnInv'
  <2>1. IsInjective(<<>>)
    BY DEF IsInjective
  <2>2. QED
    BY <2>1, <1>1, <1>2 DEF ConnInv, client
<1>5. TypeInv'
  <2>1. WireType'
    BY <1>1 DEF TypeInv, WireType
  <2>2. DaemonType'
    BY <1>1 DEF TypeInv, DaemonType, Orphaned, Final
  <2>3. QED
    BY <2>1, <2>2, <1>1 DEF TypeInv, ClientType, ToolType, RecoveryType, client, tool, recovery
<1>6. ASSUME NEW c \in Calls PROVE CallInv(c)'
  <2>1. /\ SameTool(c) /\ asked' = asked /\ script' = script /\ conn' = conn /\ overlapped' = overlapped
        /\ \/ source[c] = k /\ op[c] = "active" /\ op'[c] = (IF c \in Mutations THEN "UNKNOWN" ELSE "FAILED")
           \/ op'[c] = op[c] /\ (op[c] = "active" => source[c] # k /\ source'[c] = source[c])
    BY <1>1 DEF SameTool, tool, client, Orphaned
  <2>2. CallInv(c)
    BY DEF CallsInv
  <2>3. op'[c] \in NotActive <=> op[c] \in NotActive
    BY <2>1 DEF NotActive
  <2>4. /\ op'[c] = "active" => op[c] = "active" /\ source[c] # k /\ source'[c] = source[c]
        /\ op'[c] = "none" <=> op[c] = "none"
        /\ op'[c] = "beginning" <=> op[c] = "beginning"
        /\ op'[c] = "refused" <=> op[c] = "refused"
    BY <2>1
  <2> USE DEF SameTool, CallInv
  <2>5. StepInv(c)'
    BY <2>1, <2>2, <2>3, <2>4 DEF StepInv, Asks
  <2>6. RequestInv(c)'
    BY <2>1, <2>2, <2>3, <2>4, <1>3 DEF RequestInv, Asks, Current, Ends
  <2>7. OnceInv(c)'
    BY <2>2, <1>3 DEF OnceInv
  <2>8. AskedInv(c)'
    BY <2>1, <2>2, <2>4 DEF AskedInv, Asks, Current
  <2>9. AnswerInv(c)'
    BY <2>1, <2>2, <2>3, <2>4, <1>3 DEF AnswerInv, Asks, Current
  <2>10. EndInv(c)'
    BY <2>1, <2>2, <2>4, <1>2, <1>3 DEF EndInv, Asks, StepInv
  <2>11. OwnerInv(c)'
    <3>1. op[c] = "active" => source[c] \in Conns
      BY <2>2 DEF OwnerInv, TypeInv, DaemonType
    <3>2. QED
      BY <2>1, <2>2, <2>4, <3>1, <1>2, <1>3 DEF OwnerInv, EndOnWay, Asks
  <2>12. OutcomeInv(c)'
    BY <2>1, <2>2, <1>3 DEF OutcomeInv, NoRun, Unsettled, Ends
  <2>13. QED
    BY <2>5, <2>6, <2>7, <2>8, <2>9, <2>10, <2>11, <2>12
<1>7. QED
  BY <1>4, <1>5, <1>6 DEF CallsInv

(* A request of a local tool is answered; the acknowledgement of an        *)
(* operation that is not resolved is no more than that to its call.        *)
LEMMA LocalKeeps ==
  ASSUME TypeInv, ConnInv, CallsInv, NEW k \in Conns,
         Reports(k) \/ RecoverySnapshot(k) \/ AcknowledgeRecovery(k)
  PROVE  CallsInv' /\ ConnInv' /\ TypeInv'
<1>1. PICK answer \in {"ok", "failed"} : TakeLocal(k, answer)
  BY DEF Reports, RecoverySnapshot, AcknowledgeRecovery
<1>2. PICK m \in Sent(k) :
        /\ m = Head(toDaemon[k]) /\ m \in RequestMessage /\ m.step = "run"
        /\ \A l \in Conns : Sent(l)' = IF l = k THEN Sent(k) \ {m} ELSE Sent(l)
        /\ toDaemon' \in [Conns -> Seq(RequestMessage)] /\ ConnInv'
  BY <1>1, RequestTaken DEF TakeLocal
<1>3. PICK c \in Calls : c = m.call
  BY <1>2 DEF RequestMessage
<1>4. /\ UNCHANGED <<client, tool, link, source, asked, script, refreshing>>
      /\ c \in Locals /\ Reply(k, c, m.id, answer)
  BY <1>1, <1>2, <1>3 DEF TakeLocal, Takes
<1>5. m.id \in Requests
  BY <1>2 DEF RequestMessage
<1>6. /\ toClient' \in [Conns -> Seq(ResponseMessage)]
      /\ \A l \in Conns : \A n \in Back(l)' : n \in Back(l) \/ (n.call = c /\ n.id = m.id)
  BY <1>4, <1>5, Replied
<1>7. /\ op' \in [Calls -> Final \union {"none", "beginning", "active", "refused", "ACKNOWLEDGED"}]
      /\ \A d \in Calls : op'[d] = op[d] \/ (d \in Mutations /\ op[d] = "UNKNOWN" /\ op'[d] = "ACKNOWLEDGED")
      /\ reconciliation' \in [Mutations -> {"none", "PENDING", "COMPARED", "FAILED"}]
  <2>1. CASE UNCHANGED op /\ (UNCHANGED reconciliation \/ RecoverySnapshot(k))
    BY <2>1 DEF RecoverySnapshot, TypeInv, DaemonType, RecoveryType
  <2>2. CASE AcknowledgeRecovery(k)
    BY <2>2, SessionAssumption DEF AcknowledgeRecovery, Unresolved, TypeInv, DaemonType, RecoveryType
  <2>3. QED
    BY <2>1, <2>2 DEF Reports, RecoverySnapshot
<1>8. TypeInv'
  <2>1. WireType'
    BY <1>2, <1>4, <1>6 DEF TypeInv, WireType
  <2>2. DaemonType' /\ RecoveryType'
    BY <1>4, <1>7 DEF TypeInv, DaemonType, RecoveryType
  <2>3. QED
    BY <2>1, <2>2, <1>4 DEF TypeInv, ClientType, ToolType, client, tool
<1>9. ASSUME NEW d \in Calls PROVE CallInv(d)'
  <2>1. SameTool(d) /\ SameLinks /\ source' = source /\ asked' = asked /\ script' = script
    BY <1>4 DEF SameTool, SameLinks, client, tool
  <2>2. CallInv(d)
    BY DEF CallsInv
  <2>3. op'[d] = op[d] \/ (op[d] = "UNKNOWN" /\ op'[d] = "ACKNOWLEDGED")
    BY <1>7
  <2>4. /\ op'[d] \in NotActive <=> op[d] \in NotActive
        /\ op'[d] = "active" <=> op[d] = "active"
        /\ op'[d] = "none" <=> op[d] = "none"
        /\ op'[d] = "beginning" <=> op[d] = "beginning"
        /\ op'[d] = "refused" <=> op[d] = "refused"
    BY <2>3 DEF NotActive
  <2>5. /\ \A l \in Conns : \A n \in Sent(l)' : n \in Sent(l)
        /\ \A l \in Conns : \A n \in Sent(l) : n.call = d => n \in Sent(l)' \/ d = c
    BY <1>2, <1>3
  <2>6. d = c => d \notin Mutations /\ d \in Locals /\ m.id <= requests[d]
    BY <1>2, <1>3, <1>4, <2>2, SessionAssumption DEF CallInv, RequestInv
  <2> USE DEF SameTool, SameLinks, CallInv
  <2>7. StepInv(d)'
    BY <2>1, <2>2, <2>4 DEF StepInv, Asks
  <2>8. RequestInv(d)'
    BY <2>1, <2>2, <2>4, <2>5 DEF RequestInv, Asks, Current, Ends
  <2>9. OnceInv(d)'
    BY <2>2, <2>5 DEF OnceInv
  <2>10. AskedInv(d)'
    BY <2>1, <2>2, <2>4 DEF AskedInv, Asks, Current
  <2>11. AnswerInv(d)'
    <3>1. CASE d = c
      BY <3>1, <2>1, <2>2, <2>4, <2>6, <1>6 DEF AnswerInv, StepInv, Asks, Current, NotActive
    <3>2. CASE d # c
      BY <3>2, <2>1, <2>2, <2>4, <1>6 DEF AnswerInv, Asks, Current
    <3>3. QED
      BY <3>1, <3>2
  <2>12. EndInv(d)'
    BY <2>1, <2>2, <2>4, <2>5, <2>6 DEF EndInv, StepInv, Asks
  <2>13. OwnerInv(d)'
    <3>1. op[d] = "active" => source[d] \in Conns /\ d # c
      BY <2>2, <2>6 DEF OwnerInv, StepInv, TypeInv, DaemonType
    <3>2. QED
      BY <2>1, <2>2, <2>4, <2>5, <3>1 DEF OwnerInv, EndOnWay, Asks
  <2>14. OutcomeInv(d)'
    BY <2>1, <2>2, <2>3, <2>5 DEF OutcomeInv, NoRun, Unsettled, Ends
  <2>15. QED
    BY <2>7, <2>8, <2>9, <2>10, <2>11, <2>12, <2>13, <2>14
<1>10. QED
  BY <1>2, <1>8, <1>9 DEF CallsInv

(***************************************************************************)
(* The steps of the client, for the call that takes them                   *)
(***************************************************************************)

(* A request fails.  The call has nothing more to say when its begin is    *)
(* given up unanswered or was refused; what it says of a mutation is that  *)
(* the outcome is unknown, unless no script can run; and an operation that *)
(* is still active when it gives up has an end on its way.                 *)
LEMMA CallFails ==
  ASSUME NEW c \in Calls, TypeInv, CallInv(c), NEW C, NEW U, NEW L, c \in C, Fails(C, U, L),
         step[c] \in {"begin", "run", "end", "fail"},
         requests' = requests, SameOperation(c), SameRequests(c), FewerAnswers(c), LinksStay(c),
         step[c] = "begin" /\ c \notin L => op[c] \in {"none", "refused"} /\
           \A k \in Conns : \A m \in Sent(k) : m.call = c => m.step # "begin",
         step[c] \in {"run", "end"} /\ c \in Mutations /\ c \notin U /\ op[c] = "active" => NoRun(c),
         step[c] = "fail" /\ op[c] = "active" /\ ~overlapped' /\ conn'[source[c]] = "open" =>
           EndOnWay(c, source[c])
  PROVE  CallInv(c)'
<1> USE DEF SameOperation, SameRequests, FewerAnswers, LinksStay, CallInv
<1>1. /\ wait'[c] = Not /\ ~Asks(c)' /\ requests'[c] = requests[c]
      /\ \/ step[c] = "begin" /\ step'[c] = "over"
         \/ step[c] = "run" /\ c \in Locals /\ step'[c] = "over"
         \/ step[c] = "run" /\ c \notin Locals /\ step'[c] \in {"fail", "end"}
         \/ step[c] = "end" /\ step'[c] \in {"over", "fail"} /\ (c \notin Locals => step'[c] = "fail")
         \/ step[c] = "fail" /\ step'[c] = "over"
  BY DEF Fails, Not, Asks
<1>2. verdict'[c] = IF c \notin Locals /\ step[c] \in {"run", "end"}
                    THEN (IF c \in U /\ c \in Mutations /\ ~Uncoded(c) THEN "UNKNOWN" ELSE "FAILED") ELSE verdict[c]
  BY DEF Fails, ErrorOutcome
<1>3. /\ outcome'[c] # "success" \/ outcome'[c] = outcome[c]
      /\ step[c] = "begin" /\ c \in L /\ c \notin Locals => outcome'[c] = "begin_lost"
  BY DEF Fails
<1>4. /\ c \in Locals => step[c] = "run" /\ op[c] = "none"
      /\ c \notin Locals /\ step[c] # "begin" => op[c] \notin NotActive
      /\ step[c] = "begin" => verdict[c] = "none"
      /\ requests[c] \in Nat /\ requests[c] <= Cap(step[c])
  BY DEF StepInv, TypeInv, ToolType, Requests
<1>5. StepInv(c)'
  <2>1. /\ requests'[c] <= Cap(step'[c])
        /\ step'[c] # "over" => requests'[c] < Cap(step'[c])
    BY <1>1, <1>4 DEF Cap
  <2>2. /\ verdict'[c] # "none" => step'[c] \in {"end", "fail", "over"}
        /\ step'[c] \in {"end", "fail"} => verdict'[c] \in Final
        /\ op[c] \in NotActive => verdict'[c] = "none"
    BY <1>1, <1>2, <1>4 DEF StepInv, Final
  <2>3. QED
    BY <1>1, <1>2, <1>4, <2>1, <2>2 DEF StepInv
<1>6. RequestInv(c)'
  <2>1. SUFFICES ASSUME NEW k \in Conns, NEW m \in Sent(k)', m.call = c
                 PROVE  /\ m.id <= requests[c]
                        /\ m.step = "begin" =>
                             /\ c \notin Locals /\ op[c] = "none"
                             /\ step'[c] = "over" /\ outcome'[c] = "begin_lost"
                        /\ m.step = "run" => script[c] = "none" /\ step'[c] \in {"end", "fail", "over"}
                        /\ Ends(m) => /\ c \notin Locals /\ step'[c] \in {"fail", "over"}
                                      /\ m.verdict \in Final
                        /\ c \notin Locals /\ m.step # "begin" => op[c] \notin NotActive
    BY <1>1 DEF RequestInv, Current, Ends
  <2>2. m \in Sent(k)
    BY <2>1
  <2>3. m.step = "begin" => step[c] = "begin" /\ c \in L /\ c \notin Locals /\ op[c] = "none"
    BY <2>1, <2>2, <1>4 DEF RequestInv
  <2>4. Ends(m) => step[c] \in {"end", "fail"} /\ c \notin Locals /\ m.verdict \in Final
    BY <2>1, <2>2 DEF RequestInv
  <2>5. m.step = "run" => script[c] = "none" /\ step[c] \in {"run", "end", "fail"}
    BY <2>1, <2>2 DEF RequestInv
  <2>6. m.id <= requests[c] /\ (c \notin Locals /\ m.step # "begin" => op[c] \notin NotActive)
    BY <2>1, <2>2 DEF RequestInv
  <2>7. QED
    BY <2>3, <2>4, <2>5, <2>6, <1>1, <1>3
<1>7. OnceInv(c)'
  BY DEF OnceInv
<1>8. AskedInv(c)'
  BY <1>1, <1>3, <1>4 DEF AskedInv, Current, NotActive
<1>9. AnswerInv(c)' /\ EndInv(c)'
  BY <1>1 DEF AnswerInv, EndInv, Current
<1>10. OutcomeInv(c)'
  <2>1. c \in Mutations \ Batches /\ op[c] = "active" /\ verdict'[c] \in Unsettled => NoRun(c)
    BY <1>2, <1>4, SessionAssumption DEF OutcomeInv, Unsettled, Uncoded
  <2>2. c \in Mutations /\ op[c] = "FAILED" =>
          step'[c] \in {"end", "fail", "over"} /\ ~(step'[c] = "end" /\ verdict'[c] = "SUCCEEDED")
    BY <1>1, <1>2, <1>4, SessionAssumption DEF OutcomeInv
  <2>3. QED
    BY <2>1, <2>2, <1>1, <1>3 DEF OutcomeInv, NoRun, Ends
<1>11. OwnerInv(c)'
  <2>1. op[c] = "active" => source[c] \in Conns
    BY DEF OwnerInv, TypeInv, DaemonType
  <2>2. op[c] = "active" /\ step'[c] = "over" =>
          (step[c] = "begin" /\ outcome'[c] = "begin_lost") \/ step[c] = "fail"
    BY <1>1, <1>3, <1>4
  <2>3. QED
    BY <2>1, <2>2, <1>1 DEF OwnerInv, EndOnWay, Ends
<1>12. QED
  BY <1>5, <1>6, <1>7, <1>8, <1>9, <1>10, <1>11

(* A request is answered.                                                  *)
LEMMA CallSucceeds ==
  ASSUME NEW c \in Calls, TypeInv, CallInv(c), Succeeds(c), Asks(c), SameOperation(c),
         step[c] \in {"begin", "run", "end", "fail"},
         requests' = requests, SameRequests(c), FewerAnswers(c), LinksStay(c),
         NEW k \in Conns, NEW m \in Back(k), m.call = c, m.id = requests[c], m.answer = "ok"
  PROVE  CallInv(c)'
<1> USE DEF SameOperation, SameRequests, FewerAnswers, LinksStay, CallInv
<1>1. /\ wait'[c] = Not /\ ~Asks(c)' /\ requests'[c] = requests[c]
      /\ \/ c \in Locals /\ step'[c] = "over" /\ outcome'[c] = "local" /\ verdict'[c] = verdict[c]
         \/ /\ c \notin Locals /\ step[c] = "begin" /\ step'[c] = "run"
            /\ outcome'[c] = outcome[c] /\ verdict'[c] = verdict[c]
         \/ /\ c \notin Locals /\ step[c] = "run" /\ step'[c] = "end"
            /\ outcome'[c] = outcome[c] /\ verdict'[c] = "SUCCEEDED"
         \/ /\ step[c] \in {"end", "fail"} /\ step'[c] = "over" /\ verdict'[c] = verdict[c]
            /\ outcome'[c] = "success" => step[c] = "end" /\ verdict[c] = "SUCCEEDED"
  BY DEF Succeeds, Not, Asks, TypeInv, ToolType
<1>2. /\ c \in Locals => step[c] = "run" /\ op[c] = "none" /\ verdict[c] = "none"
      /\ c \notin Locals /\ step[c] # "begin" => op[c] \notin NotActive
      /\ requests[c] \in Nat /\ requests[c] <= Cap(step[c])
      /\ step[c] \in {"begin", "run"} => verdict[c] = "none"
  BY DEF StepInv, TypeInv, ToolType, Requests
<1>3. /\ step[c] = "begin" => op[c] \notin NotActive
      /\ step[c] = "run" /\ c \in Mutations => op[c] # "active" \/ script[c] = "done"
      /\ step[c] \in {"end", "fail"} => op[c] # "active"
  BY DEF AnswerInv, Current
<1>4. StepInv(c)'
  <2>1. /\ requests'[c] <= Cap(step'[c])
        /\ step'[c] # "over" => requests'[c] < Cap(step'[c])
    BY <1>1, <1>2 DEF Cap
  <2>2. step[c] = "begin" => script[c] = "none"
    BY DEF StepInv
  <2>3. QED
    BY <1>1, <1>2, <1>3, <2>1, <2>2 DEF StepInv, Final
<1>5. RequestInv(c)'
  <2>1. SUFFICES ASSUME NEW l \in Conns, NEW n \in Sent(l)', n.call = c
                 PROVE  /\ n.id <= requests[c] /\ n.step # "begin"
                        /\ n.step = "run" => script[c] = "none" /\ step'[c] \in {"end", "fail", "over"}
                        /\ Ends(n) => /\ c \notin Locals /\ step'[c] = "over"
                                      /\ n.verdict \in Final
                        /\ c \notin Locals /\ n.step # "begin" => op[c] \notin NotActive
    BY <1>1 DEF RequestInv, Current, Ends
  <2>2. n \in Sent(l)
    BY <2>1
  <2>3. n.id <= requests[c] /\ (c \notin Locals /\ n.step # "begin" => op[c] \notin NotActive)
    BY <2>1, <2>2 DEF RequestInv
  <2>4. n.step # "begin"
    BY <2>1, <2>2, <1>2, <1>3 DEF RequestInv, NotActive
  <2>5. n.step = "run" => script[c] = "none" /\ step[c] # "begin"
    BY <2>1, <2>2 DEF RequestInv
  <2>6. Ends(n) => step[c] \in {"end", "fail"} /\ c \notin Locals /\ n.verdict \in Final
    BY <2>1, <2>2 DEF RequestInv
  <2>7. QED
    BY <2>3, <2>4, <2>5, <2>6, <1>1
<1>6. OnceInv(c)'
  BY DEF OnceInv
<1>7. AskedInv(c)'
  BY <1>1, <1>2, <1>3 DEF AskedInv, Current, NotActive
<1>8. AnswerInv(c)' /\ EndInv(c)'
  BY <1>1 DEF AnswerInv, EndInv, Current
<1>9. OutcomeInv(c)'
  <2>1. script[c] = "done" => \A l \in Conns : \A n \in Sent(l) : n.call = c => n.step # "run"
    BY DEF RequestInv
  <2>2. c \in Mutations \ Batches /\ op[c] = "active" /\ verdict'[c] \in Unsettled => NoRun(c)
    BY <1>1, <1>3, <2>1, SessionAssumption DEF OutcomeInv, NoRun
  <2>3. c \in Mutations /\ op[c] = "FAILED" => step'[c] = "over"
    BY <1>1 DEF OutcomeInv
  <2>4. c \in Mutations /\ outcome'[c] = "success" => op[c] \in {"SUCCEEDED", "UNKNOWN", "ACKNOWLEDGED"}
    <3>1. CASE outcome'[c] = outcome[c]
      BY <3>1 DEF OutcomeInv
    <3>2. ASSUME outcome'[c] # outcome[c], outcome'[c] = "success", c \in Mutations
          PROVE  op[c] \in {"SUCCEEDED", "UNKNOWN", "ACKNOWLEDGED"}
      <4>1. step[c] = "end" /\ verdict[c] = "SUCCEEDED" /\ c \notin Locals
        BY <3>2, <1>1, SessionAssumption
      <4>2. op[c] # "FAILED" /\ op[c] # "active" /\ op[c] \notin NotActive
        BY <4>1, <3>2, <1>2, <1>3 DEF OutcomeInv
      <4>3. QED
        BY <4>2 DEF NotActive, Final, TypeInv, DaemonType
    <3>3. QED
      BY <3>1, <3>2
  <2>5. QED
    BY <2>2, <2>3, <2>4, <1>1 DEF OutcomeInv, NoRun, Ends
<1>10. OwnerInv(c)'
  <2>1. op[c] = "active" => source[c] \in Conns
    BY DEF OwnerInv, TypeInv, DaemonType
  <2>2. QED
    BY <2>1, <1>1, <1>2, <1>3 DEF OwnerInv
<1>11. QED
  BY <1>4, <1>5, <1>6, <1>7, <1>8, <1>9, <1>10

(* A request is sent, or lost at once.                                     *)
LEMMA CallSends ==
  ASSUME NEW c \in Calls, TypeInv, CallInv(c), ~Asks(c), SameOperation(c), FewerAnswers(c),
         step[c] \in {"begin", "run", "end", "fail"},
         NEW k \in Conns,
         step'[c] = step[c], verdict'[c] = verdict[c], outcome'[c] = outcome[c],
         requests'[c] = requests[c] + 1, wait'[c] = [for |-> "answer", conn |-> k],
         \A l \in Conns : \A m \in Sent(l)' : m.call = c =>
           m \in Sent(l) \/ (l = k /\ m = NextRequest(c)),
         \A l \in Conns : Sent(l) \subseteq Sent(l)',
         link'[k] = "open" => NextRequest(c) \in Sent(k)',
         LinksStay(c),
         op[c] = "active" /\ ~overlapped' /\ conn'[source[c]] = "open" => k = source[c]
  PROVE  CallInv(c)'
<1> USE DEF SameOperation, FewerAnswers, LinksStay, CallInv
<1>1. /\ Asks(c)' /\ requests[c] \in Nat
      /\ requests[c] < Cap(step[c])
  BY DEF Asks, StepInv, TypeInv, ToolType, Requests
<1>2. /\ NextRequest(c).call = c /\ NextRequest(c).id = requests[c] + 1
      /\ NextRequest(c).step = step[c] /\ NextRequest(c).verdict = verdict[c]
  BY DEF NextRequest
<1>3. StepInv(c)'
  BY <1>1 DEF StepInv, Cap, Asks
<1>4. \A l \in Conns : \A m \in Sent(l) : m.call = c =>
        /\ m.id <= requests[c] /\ m.id \in Requests
        /\ m.step = "begin" => step[c] = "begin" /\ c \notin Locals /\ op[c] = "none"
        /\ m.step = "run" => step[c] \in {"end", "fail"} /\ script[c] = "none"
        /\ Ends(m) => step[c] = "fail" /\ c \notin Locals /\ m.verdict \in Final
        /\ c \notin Locals /\ m.step # "begin" => op[c] \notin NotActive
  <2>1. SUFFICES ASSUME NEW l \in Conns, NEW m \in Sent(l), m.call = c
                 PROVE  /\ m.id <= requests[c] /\ m.id \in Requests
                        /\ m.step = "begin" => step[c] = "begin" /\ c \notin Locals /\ op[c] = "none"
                        /\ m.step = "run" => step[c] \in {"end", "fail"} /\ script[c] = "none"
                        /\ Ends(m) => step[c] = "fail" /\ c \notin Locals /\ m.verdict \in Final
                        /\ c \notin Locals /\ m.step # "begin" => op[c] \notin NotActive
    OBVIOUS
  <2>2. m \in RequestMessage
    <3>1. toDaemon[l] \in Seq(RequestMessage)
      BY DEF TypeInv, WireType
    <3>2. QED
      BY <2>1, <3>1, ElementOfSeq, LenProperties DEF Sent, Range
  <2>3. QED
    BY <2>1, <2>2 DEF RequestInv, Current, RequestMessage
<1>5. RequestInv(c)'
  <2>1. SUFFICES ASSUME NEW l \in Conns, NEW m \in Sent(l)', m.call = c
                 PROVE  /\ m.id <= requests[c] + 1
                        /\ Current(c, m.id)' => l = k /\ m.step = step[c] /\ m.verdict = verdict[c]
                        /\ m.step = "begin" => step[c] = "begin" /\ c \notin Locals /\ op[c] = "none"
                        /\ m.step = "run" => /\ script[c] = "none"
                                             /\ step[c] \in {"run", "end", "fail"}
                        /\ Ends(m) => /\ step[c] \in {"end", "fail"}
                                      /\ c \notin Locals /\ m.verdict \in Final
                                      /\ (step[c] = "end" => Current(c, m.id)')
                        /\ c \notin Locals /\ m.step # "begin" => op[c] \notin NotActive
    BY <1>1 DEF RequestInv, Ends
  <2>2. CASE m \in Sent(l)
    BY <2>1, <2>2, <1>1, <1>4 DEF Current, Requests
  <2>3. CASE l = k /\ m = NextRequest(c)
    <3>1. /\ m.id = requests[c] + 1 /\ m.step = step[c] /\ m.verdict = verdict[c]
      BY <2>3, <1>2
    <3>2. Current(c, m.id)'
      BY <3>1, <1>1 DEF Current
    <3>3. /\ step[c] = "begin" => c \notin Locals /\ op[c] = "none"
          /\ step[c] = "run" => script[c] = "none"
          /\ step[c] \in {"end", "fail"} => c \notin Locals /\ verdict[c] \in Final
          /\ c \notin Locals /\ step[c] # "begin" => op[c] \notin NotActive
      BY DEF StepInv
    <3>4. QED
      BY <3>1, <3>2, <3>3, <2>3, <1>1 DEF Ends
  <2>4. QED
    BY <2>1, <2>2, <2>3
<1>6. OnceInv(c)'
  <2>1. \A l \in Conns : \A m \in Sent(l) : m.call = c /\ m.step \in {"begin", "run"} => m.step # step[c]
    <3>1. SUFFICES ASSUME NEW l \in Conns, NEW m \in Sent(l), m.call = c, m.step \in {"begin", "run"},
                          m.step = step[c]
                   PROVE  FALSE
      OBVIOUS
    <3>2. step[c] = "begin" /\ m.id <= requests[c] /\ m.id \in Requests
      BY <3>1, <1>4
    <3>3. QED
      BY <3>2, <1>1 DEF Cap, Requests
  <2>2. QED
    BY <2>1, <1>2 DEF OnceInv
<1>7. AskedInv(c)'
  BY <1>1 DEF AskedInv, Current, TypeInv, DaemonType, Requests
<1>8. AnswerInv(c)'
  <2>1. \A l \in Conns : \A m \in Back(l)' : m.call = c => m.id <= requests[c] /\ m.id \in Requests
    <3>1. SUFFICES ASSUME NEW l \in Conns, NEW m \in Back(l), m.call = c
                   PROVE  m.id <= requests[c] /\ m.id \in Requests
      OBVIOUS
    <3>2. toClient[l] \in Seq(ResponseMessage)
      BY DEF TypeInv, WireType
    <3>3. m \in ResponseMessage
      BY <3>1, <3>2, ElementOfSeq, LenProperties DEF Back, Range
    <3>4. QED
      BY <3>1, <3>3 DEF AnswerInv, ResponseMessage
  <2>2. QED
    BY <2>1, <1>1 DEF AnswerInv, Current, Requests
<1>9. EndInv(c)'
  <2>1. link'[k] = "open" => \E m \in Sent(k)' : m.call = c /\ m.id = requests'[c]
    BY <1>2
  <2>2. QED
    BY <2>1 DEF EndInv
<1>10. OutcomeInv(c)'
  <2>1. c \in Mutations \ Batches /\ op[c] = "active" /\ verdict[c] \in Unsettled => NoRun(c)' /\ NoRun(c)
    <3>1. verdict[c] \in Unsettled => step[c] \in {"end", "fail"}
      BY DEF StepInv, Unsettled
    <3>2. QED
      BY <3>1, <1>2 DEF OutcomeInv, NoRun
  <2>2. \A l \in Conns : \A m \in Sent(l)' :
          c \in Mutations \ Batches /\ m.call = c /\ op[c] = "active" /\ Ends(m) /\ m.verdict \in Unsettled => NoRun(c)'
    <3>1. SUFFICES ASSUME NEW l \in Conns, NEW m \in Sent(l)', m.call = c, c \in Mutations \ Batches,
                          op[c] = "active", Ends(m), m.verdict \in Unsettled
                   PROVE  NoRun(c)'
      OBVIOUS
    <3>2. CASE m \in Sent(l)
      <4>1. NoRun(c) /\ step[c] = "fail"
        BY <3>1, <3>2, <1>4 DEF OutcomeInv
      <4>2. QED
        BY <4>1, <1>2 DEF NoRun
    <3>3. CASE m = NextRequest(c)
      BY <3>1, <3>3, <2>1, <1>2
    <3>4. QED
      BY <3>1, <3>2, <3>3
  <2>3. QED
    BY <2>1, <2>2, <1>1 DEF OutcomeInv, Ends
<1>11. OwnerInv(c)'
  <2>1. op[c] = "active" => source[c] \in Conns
    BY DEF OwnerInv, TypeInv, DaemonType
  <2>2. QED
    BY <2>1, <1>1 DEF OwnerInv
<1>12. QED
  BY <1>3, <1>5, <1>6, <1>7, <1>8, <1>9, <1>10, <1>11

(***************************************************************************)
(* The steps of the client                                                 *)
(***************************************************************************)

(* The client does nothing to the operations.                              *)
LEMMA DaemonKept ==
  ASSUME UNCHANGED daemon, NEW c \in Calls
  PROVE  SameOperation(c)
  BY DEF daemon, SameOperation

(* A call that waits for no answer is about to send, or has come back.     *)
LEMMA Ready ==
  ASSUME TypeInv, NEW c \in Calls, CallInv(c), ~Asks(c), step[c] \in {"begin", "run", "end", "fail"}
  PROVE  /\ requests[c] + 1 \in Requests
         /\ step[c] = "begin" => op[c] = "none" /\
              \A k \in Conns : \A m \in Sent(k) : m.call = c => m.step # "begin"
<1>1. requests[c] \in Nat /\ requests[c] < Cap(step[c])
  BY DEF CallInv, StepInv, TypeInv, ToolType, Requests
<1>2. requests[c] + 1 \in Requests
  BY <1>1 DEF Cap, Requests
<1>3. ASSUME step[c] = "begin", NEW k \in Conns, NEW m \in Sent(k), m.call = c PROVE m.step # "begin"
  <2>1. toDaemon[k] \in Seq(RequestMessage)
    BY DEF TypeInv, WireType
  <2>2. m \in RequestMessage
    BY <1>3, <2>1, ElementOfSeq, LenProperties DEF Sent, Range
  <2>3. m.id <= requests[c] /\ m.id \in Requests
    BY <1>3, <2>2 DEF CallInv, RequestInv, RequestMessage
  <2>4. QED
    BY <1>1, <1>3, <2>3 DEF Cap, Requests
<1>4. QED
  BY <1>2, <1>3 DEF CallInv, StepInv

(* The number of a request on its way is one its call has used.            *)
LEMMA NumbersUsed ==
  ASSUME TypeInv, CallsInv, NEW k \in Conns, NEW m \in Sent(k)
  PROVE  m \in RequestMessage /\ m.call \in Calls /\ m.id <= requests[m.call]
<1>1. toDaemon[k] \in Seq(RequestMessage)
  BY DEF TypeInv, WireType
<1>2. m \in RequestMessage
  BY <1>1, ElementOfSeq, LenProperties DEF Sent, Range
<1>3. QED
  BY <1>2 DEF CallsInv, CallInv, RequestInv, RequestMessage

(* Failing keeps the types, and nothing happens to other calls.            *)
LEMMA FailsTypes ==
  ASSUME TypeInv, NEW C, NEW U, NEW L, Fails(C, U, L), requests' = requests
  PROVE  /\ ToolType'
         /\ \A c \in Calls : c \notin C => SameTool(c)
         /\ \A c \in Calls : c \in C => ~Asks(c)'
<1>1. step' \in [Calls -> {"idle", "begin", "run", "end", "fail", "over"}]
  BY DEF Fails, TypeInv, ToolType
<1>2. wait' \in [Calls -> [for : {"nothing", "opening", "answer"}, conn : Conns \union {NoConn}]]
  BY DEF Fails, TypeInv, ToolType, Not
<1>3. verdict' \in [Calls -> Final \union {"none"}]
  BY DEF Fails, TypeInv, ToolType, Final, ErrorOutcome
<1>4. outcome' \in [Calls -> {"none", "success", "failure", "error", "begin_lost", "local"}]
  BY DEF Fails, TypeInv, ToolType
<1>5. ASSUME NEW c \in Calls, c \notin C PROVE SameTool(c)
  BY <1>5 DEF Fails, SameTool
<1>6. ASSUME NEW c \in Calls, c \in C PROVE ~Asks(c)'
  BY <1>6 DEF Fails, Asks, Not
<1>7. QED
  BY <1>1, <1>2, <1>3, <1>4, <1>5, <1>6 DEF TypeInv, ToolType

(* A call starts, or is refused.                                           *)
LEMMA RunToolKeeps ==
  ASSUME TypeInv, ConnInv, CallsInv, WaitInv, NEW c \in Calls, RunTool(c)
  PROVE  CallsInv' /\ ConnInv' /\ TypeInv' /\ WaitInv'
<1>1. /\ step[c] = "idle"
      /\ \/ step' = [step EXCEPT ![c] = "over"] /\ outcome' = [outcome EXCEPT ![c] = "error"]
         \/ step' = [step EXCEPT ![c] = IF c \in Locals THEN "run" ELSE "begin"] /\ UNCHANGED outcome
      /\ UNCHANGED <<client, wait, requests, verdict, link, wire, daemon>>
  BY DEF RunTool
<1>2. /\ ConnInv' /\ SameLinks /\ WaitInv'
      /\ \A l \in Conns : Sent(l)' = Sent(l) /\ Back(l)' = Back(l)
  BY <1>1 DEF ConnInv, SameLinks, WaitInv, Asks, Sent, Back, client, wire
<1>3. TypeInv'
  <2>1. ToolType'
    BY <1>1 DEF TypeInv, ToolType
  <2>2. ClientType' /\ WireType' /\ DaemonType' /\ RecoveryType'
    BY <1>1 DEF TypeInv, ClientType, WireType, DaemonType, RecoveryType, client, wire, daemon, recovery
  <2>3. QED
    BY <2>1, <2>2 DEF TypeInv
<1>4. ASSUME NEW d \in Calls, d # c PROVE CallInv(d)'
  <2>1. SameTool(d) /\ SameOperation(d)
    BY <1>1, <1>4, DaemonKept DEF SameTool, TypeInv, ToolType
  <2>2. SameRequests(d) /\ FewerAnswers(d)
    BY <1>2 DEF SameRequests, FewerAnswers
  <2>3. QED
    BY <2>1, <2>2, <1>2, OtherCall DEF CallsInv
<1>5. CallInv(c)'
  <2>1. CallInv(c)
    BY DEF CallsInv
  <2>2. /\ step'[c] = "over" \/ step'[c] = IF c \in Locals THEN "run" ELSE "begin"
        /\ outcome'[c] \in {"error", outcome[c]} /\ wait' = wait /\ requests' = requests /\ verdict' = verdict
    BY <1>1 DEF TypeInv, ToolType
  <2>3. SameOperation(c)
    BY <1>1, DaemonKept
  <2>4. /\ requests[c] = 0 /\ wait[c] = Not /\ op[c] = "none" /\ script[c] = "none" /\ verdict[c] = "none"
        /\ ~Asks(c) /\ ~Asks(c)'
    BY <1>1, <2>1, <2>2 DEF CallInv, StepInv, Cap, Asks, Not, NotActive, TypeInv, ToolType, Requests
  <2>5. \A l \in Conns : \A m \in Sent(l)' : m.call # c
    <3>1. SUFFICES ASSUME NEW l \in Conns, NEW m \in Sent(l), m.call = c PROVE FALSE
      BY <1>2
    <3>2. m.id <= 0 /\ m.id \in Requests
      BY <3>1, <2>4, NumbersUsed DEF RequestMessage
    <3>3. QED
      BY <3>2 DEF Requests
  <2> USE DEF CallInv, SameOperation
  <2>6. StepInv(c)'
    BY <2>2, <2>3, <2>4 DEF StepInv, Cap, Not, Asks
  <2>7. RequestInv(c)' /\ OnceInv(c)'
    BY <2>5 DEF RequestInv, OnceInv
  <2>8. AskedInv(c)' /\ AnswerInv(c)' /\ EndInv(c)' /\ OwnerInv(c)'
    BY <2>1, <2>2, <2>3, <2>4, <1>2 DEF AskedInv, AnswerInv, EndInv, OwnerInv, Current
  <2>9. OutcomeInv(c)'
    BY <2>1, <2>2, <2>3, <2>4 DEF OutcomeInv, Unsettled
  <2>10. QED
    BY <2>6, <2>7, <2>8, <2>9
<1>6. QED
  BY <1>2, <1>3, <1>4, <1>5 DEF CallsInv

(* A request is sent over the open connection.                             *)
LEMMA RequestKeeps ==
  ASSUME TypeInv, ConnInv, CallsInv, WaitInv, NEW c \in Calls, Request(c)
  PROVE  CallsInv' /\ ConnInv' /\ TypeInv' /\ WaitInv'
<1>1. PICK k \in Conns : k = ws /\ conn[k] = "open"
  BY DEF Request, HasOpen, TypeInv, ClientType
<1>2. /\ step[c] \in {"begin", "run", "end", "fail"} /\ ~Asks(c)
      /\ UNCHANGED <<client, step, verdict, outcome, link, toClient, daemon>>
      /\ SendOn(k, {c})
  BY <1>1 DEF Request, ReadyToSend, Asks, Not
<1>3. CallInv(c)
  BY DEF CallsInv
<1>4. /\ toDaemon' \in [Conns -> Seq(RequestMessage)]
      /\ \A l \in Conns : IsInjective(toDaemon'[l])
      /\ \A l \in Conns : l # k \/ link'[k] # "open" => toDaemon'[l] = toDaemon[l]
      /\ \A l \in Conns : Sent(l)' =
           IF l = k /\ link'[k] = "open" THEN Sent(k) \union {NextRequest(d) : d \in {c}} ELSE Sent(l)
  <2>1. IsFiniteSet({c})
    BY FS_Singleton
  <2>2. requests[c] + 1 \in Requests
    BY <1>2, <1>3, Ready
  <2>3. link' \in [Conns -> {"none", "open", "closed"}]
    BY <1>2 DEF TypeInv, WireType
  <2>4. \A m \in Sent(k) : m.id <= requests[m.call]
    BY NumbersUsed
  <2>5. QED
    BY <1>2, <2>1, <2>2, <2>3, <2>4, BatchSent
<1>5. /\ requests' = [d \in Calls |-> IF d = c THEN requests[d] + 1 ELSE requests[d]]
      /\ wait' = [d \in Calls |-> IF d = c THEN [for |-> "answer", conn |-> k] ELSE wait[d]]
  BY <1>2 DEF SendOn
<1>6. TypeInv'
  <2>1. ToolType'
    BY <1>2, <1>3, <1>5, Ready DEF TypeInv, ToolType
  <2>2. WireType'
    BY <1>2, <1>4 DEF TypeInv, WireType
  <2>3. QED
    BY <2>1, <2>2, <1>2 DEF TypeInv, ClientType, DaemonType, RecoveryType, client, daemon, recovery
<1>7. ConnInv'
  BY <1>2, <1>4 DEF ConnInv, client
<1>8. WaitInv'
  BY <1>1, <1>2, <1>5 DEF WaitInv, Asks, client
<1>9. /\ SameLinks /\ \A l \in Conns : Back(l)' = Back(l)
      /\ \A d \in Calls : SameOperation(d)
  BY <1>2, DaemonKept DEF SameLinks, Back, client
<1>10. ASSUME NEW d \in Calls, d # c PROVE CallInv(d)'
  <2>1. SameTool(d)
    BY <1>2, <1>5, <1>10 DEF SameTool
  <2>2. SameRequests(d) /\ FewerAnswers(d)
    BY <1>4, <1>9, <1>10 DEF SameRequests, FewerAnswers, NextRequest
  <2>3. QED
    BY <2>1, <2>2, <1>9, OtherCall DEF CallsInv
<1>11. CallInv(c)'
  <2>1. /\ step'[c] = step[c] /\ verdict'[c] = verdict[c] /\ outcome'[c] = outcome[c]
        /\ requests'[c] = requests[c] + 1 /\ wait'[c] = [for |-> "answer", conn |-> k]
    BY <1>2, <1>5
  <2>2. /\ \A l \in Conns : \A m \in Sent(l)' : m \in Sent(l) \/ (l = k /\ m = NextRequest(c))
        /\ \A l \in Conns : Sent(l) \subseteq Sent(l)'
        /\ link'[k] = "open" => NextRequest(c) \in Sent(k)'
    BY <1>4
  <2>3. LinksStay(c) /\ FewerAnswers(c)
    BY <1>9 DEF SameLinks, LinksStay, FewerAnswers
  <2>4. op[c] = "active" /\ ~overlapped' /\ conn'[source[c]] = "open" => k = source[c]
    BY <1>1, <1>3, <1>9 DEF SameLinks, ConnInv, CallInv, OwnerInv, TypeInv, DaemonType
  <2>5. QED
    BY <1>2, <1>3, <1>9, <2>1, <2>2, <2>3, <2>4, CallSends
<1>12. QED
  BY <1>6, <1>7, <1>8, <1>10, <1>11 DEF CallsInv

(* A connection opens, and those who waited for it send.                   *)
LEMMA OpenedKeeps ==
  ASSUME TypeInv, ConnInv, CallsInv, WaitInv, NEW k \in Conns, Opened(k)
  PROVE  CallsInv' /\ ConnInv' /\ TypeInv' /\ WaitInv'
<1>1. PICK C : C = Waiting("opening", k)
  OBVIOUS
<1>2. /\ conn[k] = "connecting"
      /\ conn' = [conn EXCEPT ![k] = "open"] /\ link' = [link EXCEPT ![k] = "open"]
      /\ ws' = k /\ connecting' = NoConn
      /\ SendOn(k, C)
      /\ UNCHANGED <<overlapped, step, verdict, outcome, toClient, daemon>>
  BY <1>1 DEF Opened
<1>3. C \in SUBSET Calls /\ \A c \in C : wait[c] = [for |-> "opening", conn |-> k]
  BY <1>1 DEF Waiting
<1>4. IsFiniteSet(C)
  BY <1>3, SessionAssumption, FS_Subset
<1>5. \A c \in C : CallInv(c) /\ ~Asks(c) /\ step[c] \in {"begin", "run", "end", "fail"}
  BY <1>3 DEF CallsInv, CallInv, StepInv, Asks, Not, TypeInv, ToolType
<1>6. /\ \A l \in Conns : conn'[l] = IF l = k THEN "open" ELSE conn[l]
      /\ \A l \in Conns : link'[l] = IF l = k THEN "open" ELSE link[l]
      /\ link' \in [Conns -> {"none", "open", "closed"}]
  BY <1>2 DEF TypeInv, ClientType, WireType
<1>7. /\ toDaemon' \in [Conns -> Seq(RequestMessage)]
      /\ \A l \in Conns : IsInjective(toDaemon'[l])
      /\ \A l \in Conns : l # k \/ link'[k] # "open" => toDaemon'[l] = toDaemon[l]
      /\ \A l \in Conns : Sent(l)' =
           IF l = k /\ link'[k] = "open" THEN Sent(k) \union {NextRequest(d) : d \in C} ELSE Sent(l)
  <2>1. \A c \in C : requests[c] + 1 \in Requests
    BY <1>3, <1>5, Ready
  <2>2. \A m \in Sent(k) : m.id <= requests[m.call]
    BY NumbersUsed
  <2>3. QED
    BY <1>2, <1>3, <1>4, <1>5, <1>6, <2>1, <2>2, BatchSent
<1>8. /\ requests' = [d \in Calls |-> IF d \in C THEN requests[d] + 1 ELSE requests[d]]
      /\ wait' = [d \in Calls |-> IF d \in C THEN [for |-> "answer", conn |-> k] ELSE wait[d]]
  BY <1>2 DEF SendOn
<1>9. TypeInv'
  <2>1. ToolType'
    <3>1. \A c \in C : requests[c] + 1 \in Requests
      BY <1>3, <1>5, Ready
    <3>2. requests' \in [Calls -> Requests \union {0}]
      BY <1>8, <3>1 DEF TypeInv, ToolType
    <3>3. wait' \in [Calls -> [for : {"nothing", "opening", "answer"}, conn : Conns \union {NoConn}]]
      BY <1>8 DEF TypeInv, ToolType
    <3>4. QED
      BY <1>2, <3>2, <3>3 DEF TypeInv, ToolType
  <2>2. WireType'
    BY <1>2, <1>6, <1>7 DEF TypeInv, WireType
  <2>3. ClientType'
    BY <1>2 DEF TypeInv, ClientType
  <2>4. QED
    BY <2>1, <2>2, <2>3, <1>2 DEF TypeInv, DaemonType, RecoveryType, daemon, recovery
<1>10. ConnInv'
  <2>1. \A l \in Conns : link'[l] # "open" => toDaemon'[l] = <<>>
    BY <1>6, <1>7 DEF ConnInv
  <2>2. ~overlapped => \A l \in Conns : conn[l] \in {"connecting", "open"} => l = k
    BY <1>2 DEF ConnInv
  <2>3. QED
    BY <2>1, <2>2, <1>2, <1>6, <1>7 DEF ConnInv
<1>11. WaitInv'
  <2>1. SUFFICES ASSUME NEW d \in Calls, Asks(d)'
                 PROVE  conn'[wait'[d].conn] \notin {"none", "connecting"}
    BY DEF WaitInv
  <2>2. CASE d \in C
    BY <2>2, <1>6, <1>8
  <2>3. CASE d \notin C
    <3>1. wait'[d] = wait[d]
      BY <2>3, <1>8
    <3>2. Asks(d)
      BY <2>1, <3>1 DEF Asks
    <3>3. wait[d].conn \in Conns
      BY <3>2 DEF CallsInv, CallInv, StepInv
    <3>4. conn[wait[d].conn] \notin {"none", "connecting"}
      BY <3>2 DEF WaitInv
    <3>5. QED
      BY <3>1, <3>3, <3>4, <1>6
  <2>4. QED
    BY <2>2, <2>3
<1>12. /\ \A l \in Conns : Back(l)' = Back(l)
       /\ \A d \in Calls : SameOperation(d)
  BY <1>2, DaemonKept DEF Back
<1>13. \A d \in Calls : LinksStay(d) /\ (op[d] = "active" => source[d] \in Conns /\ source[d] # k)
  <2>1. SUFFICES ASSUME NEW d \in Calls
                 PROVE  LinksStay(d) /\ (op[d] = "active" => source[d] \in Conns /\ source[d] # k)
    OBVIOUS
  <2>2. Asks(d) => wait[d].conn # k /\ wait[d].conn \in Conns
    BY <1>2 DEF WaitInv, CallsInv, CallInv, StepInv
  <2>3. op[d] = "active" => source[d] # k /\ source[d] \in Conns
    BY <1>2 DEF CallsInv, CallInv, OwnerInv, ConnInv, TypeInv, DaemonType
  <2>4. QED
    BY <2>2, <2>3, <1>2, <1>6 DEF LinksStay
<1>14. ASSUME NEW d \in Calls, d \notin C PROVE CallInv(d)'
  <2>1. SameButWait(d)
    BY <1>2, <1>8, <1>14 DEF SameButWait
  <2>2. SameRequests(d) /\ FewerAnswers(d)
    BY <1>7, <1>12, <1>14 DEF SameRequests, FewerAnswers, NextRequest
  <2>3. QED
    BY <2>1, <2>2, <1>12, <1>13, Bystander DEF CallsInv
<1>15. ASSUME NEW c \in Calls, c \in C PROVE CallInv(c)'
  <2>1. /\ step'[c] = step[c] /\ verdict'[c] = verdict[c] /\ outcome'[c] = outcome[c]
        /\ requests'[c] = requests[c] + 1 /\ wait'[c] = [for |-> "answer", conn |-> k]
    BY <1>2, <1>8, <1>15
  <2>2. /\ \A l \in Conns : \A m \in Sent(l)' : m.call = c => m \in Sent(l) \/ (l = k /\ m = NextRequest(c))
        /\ \A l \in Conns : Sent(l) \subseteq Sent(l)'
        /\ link'[k] = "open" => NextRequest(c) \in Sent(k)'
    BY <1>7, <1>15 DEF NextRequest
  <2>3. FewerAnswers(c)
    BY <1>12 DEF FewerAnswers
  <2>4. op[c] = "active" /\ ~overlapped' /\ conn'[source[c]] = "open" => k = source[c]
    BY <1>2, <1>6, <1>13 DEF ConnInv
  <2>5. CallInv(c) /\ ~Asks(c) /\ step[c] \in {"begin", "run", "end", "fail"} /\ SameOperation(c) /\ LinksStay(c)
    BY <1>5, <1>12, <1>13, <1>15
  <2>6. QED
    BY <2>1, <2>2, <2>3, <2>4, <2>5, CallSends
<1>16. QED
  BY <1>9, <1>10, <1>11, <1>14, <1>15 DEF CallsInv

(* The connection of the client goes: what is pending fails, on whatever   *)
(* connection it is, and so do the calls W that waited for this one.       *)
LEMMA CloseEventKeeps ==
  ASSUME TypeInv, ConnInv, CallsInv, WaitInv, NEW k \in Conns, NEW W, NEW refused \in BOOLEAN,
         W \subseteq Waiting("opening", k), W # {} => conn[k] = "connecting",
         refused => \A l \in Conns : link[l] # "open",
         CloseEvent(k, W, refused)
  PROVE  CallsInv' /\ ConnInv' /\ TypeInv' /\ WaitInv'
<1>1. PICK P : P = Pending
  OBVIOUS
<1>2. PICK U : U = IF refused THEN P ELSE W \union P
  OBVIOUS
<1>3. /\ conn' = [conn EXCEPT ![k] = "closed"]
      /\ ws' = IF ws = k THEN NoConn ELSE ws
      /\ connecting' = NoConn /\ overlapped' = overlapped
      /\ Fails(W \union P, U, P)
      /\ UNCHANGED <<requests, link, wire, daemon>>
  BY <1>1, <1>2 DEF CloseEvent
<1>4. \A l \in Conns : conn'[l] = IF l = k THEN "closed" ELSE conn[l]
  BY <1>3 DEF TypeInv, ClientType
<1>5. /\ ToolType'
      /\ \A c \in Calls : c \notin W \union P => SameTool(c)
      /\ \A c \in Calls : c \in W \union P => ~Asks(c)'
  BY <1>3, FailsTypes
<1>6. \A c \in Calls : /\ c \in P <=> Asks(c)
                       /\ c \in W => wait[c] = [for |-> "opening", conn |-> k] /\ ~Asks(c)
  BY <1>1 DEF Pending, Waiting, Asks
<1>7. TypeInv'
  <2>1. ClientType'
    BY <1>3 DEF TypeInv, ClientType
  <2>2. QED
    BY <2>1, <1>3, <1>5 DEF TypeInv, WireType, DaemonType, RecoveryType, wire, daemon, recovery
<1>8. ConnInv'
  BY <1>3, <1>4 DEF ConnInv, wire
<1>9. WaitInv'
  <2>1. \A c \in Calls : ~Asks(c)'
    BY <1>5, <1>6 DEF SameTool, Asks
  <2>2. QED
    BY <2>1 DEF WaitInv
<1>10. \A c \in Calls : /\ SameOperation(c) /\ SameRequests(c) /\ FewerAnswers(c) /\ LinksStay(c)
                        /\ op[c] = "active" => source[c] \in Conns /\ link[source[c]] = "open"
  <2>1. SUFFICES ASSUME NEW c \in Calls
                 PROVE  /\ SameOperation(c) /\ SameRequests(c) /\ FewerAnswers(c) /\ LinksStay(c)
                        /\ op[c] = "active" => source[c] \in Conns /\ link[source[c]] = "open"
    OBVIOUS
  <2>2. SameOperation(c)
    BY <1>3, DaemonKept
  <2>3. SameRequests(c) /\ FewerAnswers(c)
    BY <1>3 DEF SameRequests, FewerAnswers, Sent, Back, wire
  <2>4. op[c] = "active" => source[c] \in Conns /\ link[source[c]] = "open"
    BY DEF CallsInv, CallInv, OwnerInv, TypeInv, DaemonType
  <2>5. LinksStay(c)
    BY <2>4, <1>3, <1>4 DEF LinksStay
  <2>6. QED
    BY <2>2, <2>3, <2>4, <2>5
<1>11. ASSUME NEW c \in Calls, c \notin W \union P PROVE CallInv(c)'
  <2>1. SameButWait(c)
    BY <1>5, <1>11 DEF SameTool, SameButWait
  <2>2. QED
    BY <2>1, <1>10, Bystander DEF CallsInv
<1>12. ASSUME NEW c \in Calls, c \in W \union P PROVE CallInv(c)'
  <2>1. CallInv(c)
    BY DEF CallsInv
  <2>2. step[c] \in {"begin", "run", "end", "fail"}
    BY <1>6, <1>12, <2>1 DEF CallInv, StepInv, Asks, Not, TypeInv, ToolType
  <2>3. step[c] = "begin" /\ c \notin P => op[c] \in {"none", "refused"} /\
          \A l \in Conns : \A m \in Sent(l) : m.call = c => m.step # "begin"
    BY <1>6, <2>1, <2>2, Ready
  <2>4. step[c] \in {"run", "end"} /\ c \in Mutations /\ c \notin U /\ op[c] = "active" => NoRun(c)
    BY <1>2, <1>10, <1>12
  <2>5. ASSUME step[c] = "fail", op[c] = "active", ~overlapped', conn'[source[c]] = "open"
        PROVE  EndOnWay(c, source[c])
    <3>1. source[c] \in Conns /\ link[source[c]] = "open" /\ source[c] # k /\ conn[source[c]] = "open"
      BY <2>5, <1>4, <1>10
    <3>2. c \notin W
      BY <2>5, <3>1, <1>3 DEF ConnInv
    <3>3. Asks(c) /\ wait[c].conn = source[c]
      BY <2>1, <2>5, <3>1, <3>2, <1>3, <1>6, <1>12 DEF CallInv, OwnerInv
    <3>4. PICK m \in Sent(source[c]) : m.call = c /\ m.id = requests[c]
      BY <2>1, <2>5, <3>1, <3>3 DEF CallInv, EndInv
    <3>5. m.step = "fail"
      BY <2>1, <2>5, <3>1, <3>3, <3>4 DEF CallInv, RequestInv, Current
    <3>6. QED
      BY <3>4, <3>5 DEF EndOnWay, Ends
  <2>6. QED
    BY <1>3, <1>10, <1>12, <2>1, <2>2, <2>3, <2>4, <2>5, CallFails
<1>13. QED
  BY <1>7, <1>8, <1>9, <1>11, <1>12 DEF CallsInv

(* An attempt to connect fails, or a connection is closed.                 *)
LEMMA ClosesKeeps ==
  ASSUME TypeInv, ConnInv, CallsInv, WaitInv, NEW k \in Conns, ConnectFails(k) \/ Closed(k)
  PROVE  CallsInv' /\ ConnInv' /\ TypeInv' /\ WaitInv'
<1>1. CASE ConnectFails(k)
  <2>1. PICK W : W = Waiting("opening", k)
    OBVIOUS
  <2>2. PICK refused \in Refusals : conn[k] = "connecting" /\ CloseEvent(k, W, refused)
    BY <1>1, <2>1 DEF ConnectFails
  <2>3. refused \in BOOLEAN /\ (refused => \A l \in Conns : link[l] # "open")
    BY DEF Refusals
  <2>4. QED
    BY <2>1, <2>2, <2>3, CloseEventKeeps
<1>2. CASE Closed(k)
  <2>1. CloseEvent(k, {}, FALSE)
    BY <1>2 DEF Closed
  <2>2. QED
    BY <2>1, CloseEventKeeps
<1>3. QED
  BY <1>1, <1>2

(* A call waits for a connection, or finds that there is none.             *)
LEMMA OpenKeeps ==
  ASSUME TypeInv, ConnInv, CallsInv, WaitInv, NEW c \in Calls, Open(c)
  PROVE  CallsInv' /\ ConnInv' /\ TypeInv' /\ WaitInv'
<1>1. /\ step[c] \in {"begin", "run", "end", "fail"} /\ ~Asks(c) /\ ~HasOpen
      /\ UNCHANGED <<requests, link, wire, daemon>>
  BY DEF Open, ReadyToSend, Asks, Not
<1>2. /\ WireType' /\ DaemonType' /\ RecoveryType'
      /\ \A l \in Conns : Sent(l)' = Sent(l) /\ Back(l)' = Back(l)
      /\ \A d \in Calls : SameOperation(d) /\ SameRequests(d) /\ FewerAnswers(d)
  BY <1>1, DaemonKept DEF TypeInv, WireType, DaemonType, RecoveryType, wire, daemon, recovery,
     Sent, Back, SameRequests, FewerAnswers
<1>3. \A d \in Calls : op[d] = "active" => source[d] \in Conns /\ link[source[d]] = "open"
  BY DEF CallsInv, CallInv, OwnerInv, TypeInv, DaemonType
<1>4. ASSUME connecting # NoConn, wait' = [wait EXCEPT ![c] = [for |-> "opening", conn |-> connecting]],
             UNCHANGED <<client, step, verdict, outcome>>
      PROVE  CallsInv' /\ ConnInv' /\ TypeInv' /\ WaitInv'
  <2>1. TypeInv'
    BY <1>1, <1>2, <1>4 DEF TypeInv, ClientType, ToolType, client
  <2>2. ConnInv' /\ WaitInv'
    BY <1>1, <1>4 DEF ConnInv, WaitInv, Asks, client, wire, TypeInv, ToolType
  <2>3. ASSUME NEW d \in Calls PROVE CallInv(d)'
    <3>1. SameButWait(d) /\ LinksStay(d)
      BY <1>1, <1>4 DEF SameButWait, LinksStay, client, TypeInv, ToolType
    <3>2. QED
      BY <3>1, <1>2, Bystander DEF CallsInv
  <2>4. QED
    BY <2>1, <2>2, <2>3 DEF CallsInv
<1>5. ASSUME NEW k \in Conns, conn[k] = "none", conn' = [conn EXCEPT ![k] = "connecting"],
             ws' = k, connecting' = k,
             overlapped' = (overlapped \/ \E j \in Conns : conn[j] \in {"connecting", "open"}),
             wait' = [wait EXCEPT ![c] = [for |-> "opening", conn |-> k]],
             UNCHANGED <<step, verdict, outcome>>
      PROVE  CallsInv' /\ ConnInv' /\ TypeInv' /\ WaitInv'
  <2>1. TypeInv'
    <3>1. ClientType'
      BY <1>5 DEF TypeInv, ClientType
    <3>2. ToolType'
      BY <1>1, <1>5 DEF TypeInv, ToolType
    <3>3. QED
      BY <3>1, <3>2, <1>2 DEF TypeInv
  <2>2. \A l \in Conns : conn'[l] = IF l = k THEN "connecting" ELSE conn[l]
    BY <1>5 DEF TypeInv, ClientType
  <2>3. ConnInv'
    BY <1>1, <1>5, <2>2 DEF ConnInv, wire
  <2>4. WaitInv'
    <3>1. SUFFICES ASSUME NEW d \in Calls, Asks(d)'
                   PROVE  conn'[wait'[d].conn] \notin {"none", "connecting"}
      BY DEF WaitInv
    <3>2. Asks(d) /\ wait'[d] = wait[d]
      BY <3>1, <1>5 DEF Asks, TypeInv, ToolType
    <3>3. wait[d].conn \in Conns /\ conn[wait[d].conn] \notin {"none", "connecting"}
      BY <3>2 DEF WaitInv, CallsInv, CallInv, StepInv
    <3>4. QED
      BY <3>2, <3>3, <1>5, <2>2
  <2>5. ASSUME NEW d \in Calls PROVE CallInv(d)'
    <3>1. SameButWait(d)
      BY <1>1, <1>5 DEF SameButWait, TypeInv, ToolType
    <3>2. overlapped => overlapped'
      BY <1>5
    <3>3. LinksStay(d)
      BY <1>1, <1>3, <2>2, <3>2 DEF LinksStay
    <3>4. QED
      BY <3>1, <3>3, <1>2, Bystander DEF CallsInv
  <2>6. QED
    BY <2>1, <2>3, <2>4, <2>5 DEF CallsInv
<1>6. ASSUME NEW refused \in Refusals, NEW U, U = (IF refused THEN {} ELSE {c}), Fails({c}, U, {}),
              UNCHANGED client
      PROVE  CallsInv' /\ ConnInv' /\ TypeInv' /\ WaitInv'
  <2>1. /\ ToolType' /\ ~Asks(c)'
        /\ \A d \in Calls : d # c => SameTool(d)
    BY <1>1, <1>6, FailsTypes
  <2>2. TypeInv'
    BY <2>1, <1>2, <1>6 DEF TypeInv, ClientType, client
  <2>3. ConnInv'
    BY <1>1, <1>6 DEF ConnInv, client, wire
  <2>4. WaitInv'
    BY <2>1, <1>6 DEF WaitInv, SameTool, Asks, client
  <2>5. SameLinks /\ \A d \in Calls : LinksStay(d)
    BY <1>1, <1>6 DEF SameLinks, LinksStay, client
  <2>6. ASSUME NEW d \in Calls, d # c PROVE CallInv(d)'
    BY <2>1, <2>5, <2>6, <1>2, OtherCall DEF CallsInv
  <2>7. CallInv(c)'
    <3>1. CallInv(c)
      BY DEF CallsInv
    <3>2. step[c] = "begin" /\ c \notin {} => op[c] \in {"none", "refused"} /\
            \A k \in Conns : \A m \in Sent(k) : m.call = c => m.step # "begin"
      BY <1>1, <3>1, Ready
    <3>3. ~(op[c] = "active" /\ ~overlapped' /\ conn'[source[c]] = "open")
      BY <1>1, <1>3, <1>6 DEF HasOpen, ConnInv, client, Conns, NoConn
    <3>4. op[c] = "active" => c \in U
      BY <1>6, <3>1 DEF Refusals, CallInv, OwnerInv, TypeInv, DaemonType
    <3>5. QED
      BY <1>1, <1>2, <1>6, <2>5, <3>1, <3>2, <3>3, <3>4, CallFails
  <2>8. QED
    BY <2>2, <2>3, <2>4, <2>6, <2>7 DEF CallsInv
<1>7. QED
  <2>1. CASE \E refused \in Refusals : Fails({c}, IF refused THEN {} ELSE {c}, {}) /\ UNCHANGED client
    BY <1>6, <2>1
  <2>2. QED
    BY <1>4, <1>5, <2>1 DEF Open

(* The client begins to close a connection, and reads no more from it.     *)
LEMMA ClosingKeeps ==
  ASSUME TypeInv, ConnInv, CallsInv, WaitInv, NEW k \in Conns, Closing(k)
  PROVE  CallsInv' /\ ConnInv' /\ TypeInv' /\ WaitInv'
<1>1. /\ conn[k] = "open" /\ conn' = [conn EXCEPT ![k] = "closing"]
      /\ toClient' = [toClient EXCEPT ![k] = <<>>]
      /\ UNCHANGED <<ws, connecting, overlapped, tool, link, toDaemon, daemon>>
  BY DEF Closing
<1>2. /\ \A l \in Conns : conn'[l] = IF l = k THEN "closing" ELSE conn[l]
      /\ \A l \in Conns : toClient'[l] = IF l = k THEN <<>> ELSE toClient[l]
  BY <1>1 DEF TypeInv, ClientType, WireType
<1>3. TypeInv'
  <2>1. ClientType' /\ WireType'
    BY <1>1 DEF TypeInv, ClientType, WireType
  <2>2. QED
    BY <2>1, <1>1 DEF TypeInv, ToolType, DaemonType, RecoveryType, tool, daemon, recovery
<1>4. ConnInv'
  BY <1>1, <1>2 DEF ConnInv
<1>5. WaitInv'
  BY <1>1, <1>2 DEF WaitInv, Asks, tool, CallsInv, CallInv, StepInv
<1>6. ASSUME NEW c \in Calls PROVE CallInv(c)'
  <2>1. SameButWait(c) /\ SameOperation(c) /\ SameRequests(c)
    BY <1>1, DaemonKept DEF SameButWait, SameRequests, Sent, tool
  <2>2. FewerAnswers(c)
    BY <1>2 DEF FewerAnswers, Back, Range
  <2>3. op[c] = "active" => source[c] \in Conns
    BY DEF CallsInv, CallInv, OwnerInv, TypeInv, DaemonType
  <2>4. LinksStay(c)
    BY <1>1, <1>2, <2>3 DEF LinksStay
  <2>5. QED
    BY <2>1, <2>2, <2>4, Bystander DEF CallsInv
<1>7. QED
  BY <1>3, <1>4, <1>5, <1>6 DEF CallsInv

(* The timer of a request fires.                                           *)
LEMMA TimerKeeps ==
  ASSUME TypeInv, ConnInv, CallsInv, WaitInv, NEW c \in Calls, RequestTimer(c)
  PROVE  CallsInv' /\ ConnInv' /\ TypeInv' /\ WaitInv'
<1>1. PICK U : U = {d \in {c} : step[d] = "run"}
  OBVIOUS
<1>2. /\ Asks(c) /\ Fails({c}, U, {c})
      /\ step[c] \in {"end", "fail"} =>
           /\ link[wait[c].conn] = "open"
           /\ \A m \in Sent(wait[c].conn) : m.call # c \/ m.id # requests[c]
      /\ UNCHANGED <<client, requests, link, wire, daemon>>
  BY <1>1 DEF RequestTimer, Asks, Sent
<1>3. /\ ToolType' /\ ~Asks(c)'
      /\ \A d \in Calls : d # c => SameTool(d)
  BY <1>2, FailsTypes
<1>4. TypeInv'
  BY <1>2, <1>3 DEF TypeInv, ClientType, WireType, DaemonType, RecoveryType, client, wire, daemon, recovery
<1>5. ConnInv'
  BY <1>2 DEF ConnInv, client, wire
<1>6. WaitInv'
  BY <1>2, <1>3 DEF WaitInv, SameTool, Asks, client
<1>7. /\ SameLinks
      /\ \A d \in Calls : SameOperation(d) /\ SameRequests(d) /\ FewerAnswers(d) /\ LinksStay(d)
  BY <1>2, DaemonKept DEF SameLinks, SameRequests, FewerAnswers, LinksStay, Sent, Back, client, wire
<1>8. ASSUME NEW d \in Calls, d # c PROVE CallInv(d)'
  BY <1>3, <1>7, <1>8, OtherCall DEF CallsInv
<1>9. CallInv(c)'
  <2>1. CallInv(c)
    BY DEF CallsInv
  <2>2. step[c] \in {"begin", "run", "end", "fail"}
    BY <1>2, <2>1 DEF CallInv, StepInv, Asks, Not, TypeInv, ToolType
  <2>3. step[c] \in {"end", "fail"} => op[c] # "active"
    BY <1>2, <2>1 DEF CallInv, EndInv
  <2>4. step[c] \in {"run", "end"} /\ c \in Mutations /\ c \notin U /\ op[c] = "active" => NoRun(c)
    BY <1>1, <2>3
  <2>5. QED
    BY <1>2, <1>7, <2>1, <2>2, <2>3, <2>4, CallFails
<1>10. QED
  BY <1>4, <1>5, <1>6, <1>8, <1>9 DEF CallsInv

(* Succeeding keeps the types, and nothing happens to other calls.         *)
LEMMA SucceedsTypes ==
  ASSUME TypeInv, NEW c \in Calls, Succeeds(c), requests' = requests
  PROVE  ToolType' /\ ~Asks(c)' /\ \A d \in Calls : d # c => SameTool(d)
<1>1. /\ wait' = [wait EXCEPT ![c] = Not]
      /\ \/ /\ step' = [step EXCEPT ![c] = "over"]
            /\ outcome' = [outcome EXCEPT ![c] = "local"] /\ verdict' = verdict
         \/ step' = [step EXCEPT ![c] = "run"] /\ outcome' = outcome /\ verdict' = verdict
         \/ /\ step' = [step EXCEPT ![c] = "end"]
            /\ verdict' = [verdict EXCEPT ![c] = "SUCCEEDED"] /\ outcome' = outcome
         \/ /\ step' = [step EXCEPT ![c] = "over"] /\ verdict' = verdict
            /\ \E o \in {"error", "success", "failure"} : outcome' = [outcome EXCEPT ![c] = o]
  BY DEF Succeeds
<1>2. /\ step' \in [Calls -> {"idle", "begin", "run", "end", "fail", "over"}]
      /\ verdict' \in [Calls -> Final \union {"none"}]
      /\ outcome' \in [Calls -> {"none", "success", "failure", "error", "begin_lost", "local"}]
  <2>1. step' \in [Calls -> {"idle", "begin", "run", "end", "fail", "over"}]
    BY <1>1 DEF TypeInv, ToolType
  <2>2. verdict' \in [Calls -> Final \union {"none"}]
    BY <1>1 DEF TypeInv, ToolType, Final
  <2>3. outcome' \in [Calls -> {"none", "success", "failure", "error", "begin_lost", "local"}]
    BY <1>1 DEF TypeInv, ToolType
  <2>4. QED
    BY <2>1, <2>2, <2>3
<1>3. wait' \in [Calls -> [for : {"nothing", "opening", "answer"}, conn : Conns \union {NoConn}]]
  BY <1>1 DEF TypeInv, ToolType, Not
<1>4. \A d \in Calls : d # c => SameTool(d)
  BY <1>1 DEF SameTool, TypeInv, ToolType
<1>5. ~Asks(c)'
  BY <1>1 DEF Asks, Not, TypeInv, ToolType
<1>6. QED
  BY <1>2, <1>3, <1>4, <1>5 DEF TypeInv, ToolType

(* A response arrives, for a request that is pending or no more.           *)
LEMMA MessageKeeps ==
  ASSUME TypeInv, ConnInv, CallsInv, WaitInv, NEW k \in Conns, OnMessage(k)
  PROVE  CallsInv' /\ ConnInv' /\ TypeInv' /\ WaitInv'
<1>1. PICK m : m = Head(toClient[k])
  OBVIOUS
<1>2. /\ toClient[k] # <<>> /\ toClient' = [toClient EXCEPT ![k] = Tail(@)]
      /\ \/ /\ wait[m.call].for = "answer" /\ requests[m.call] = m.id
            /\ \/ m.answer = "ok" /\ Succeeds(m.call)
               \/ m.answer # "ok" /\ Fails({m.call}, {d \in {m.call} : m.answer = "unknown"}, {})
         \/ UNCHANGED <<step, wait, verdict, outcome>>
      /\ UNCHANGED <<client, requests, link, toDaemon, daemon>>
  BY <1>1 DEF OnMessage
<1>3. toClient[k] \in Seq(ResponseMessage)
  BY DEF TypeInv, WireType
<1>4. /\ m \in ResponseMessage /\ Tail(toClient[k]) \in Seq(ResponseMessage)
      /\ Back(k) = Range(Tail(toClient[k])) \union {m}
  BY <1>1, <1>2, <1>3, TailElements DEF Back
<1>5. /\ toClient' \in [Conns -> Seq(ResponseMessage)]
      /\ \A l \in Conns : Back(l)' \subseteq Back(l) /\ Sent(l)' = Sent(l)
      /\ m \in Back(k)
  BY <1>2, <1>4 DEF TypeInv, WireType, Back, Sent
<1>6. /\ SameLinks /\ ClientType' /\ WireType' /\ DaemonType' /\ RecoveryType' /\ ConnInv'
      /\ \A d \in Calls : SameOperation(d)
  BY <1>2, <1>5, DaemonKept
     DEF SameLinks, TypeInv, ClientType, WireType, DaemonType, RecoveryType, ConnInv, client, daemon, recovery
<1>7. \A d \in Calls : SameRequests(d) /\ FewerAnswers(d) /\ LinksStay(d)
  BY <1>2, <1>5, <1>6 DEF SameRequests, FewerAnswers, LinksStay, SameLinks
<1>8. PICK c \in Calls : c = m.call
  BY <1>4 DEF ResponseMessage
<1>9. ASSUME ToolType', \A d \in Calls : d # c => SameTool(d), ~Asks(c)', CallInv(c)'
      PROVE  CallsInv' /\ ConnInv' /\ TypeInv' /\ WaitInv'
  <2>1. \A d \in Calls : d # c => CallInv(d)'
    BY <1>6, <1>7, <1>9, OtherCall DEF CallsInv
  <2>2. WaitInv'
    BY <1>6, <1>9 DEF WaitInv, SameTool, SameLinks, Asks
  <2>3. QED
    BY <1>6, <1>9, <2>1, <2>2 DEF CallsInv, TypeInv
<1>10. ASSUME Asks(c), requests[c] = m.id PROVE step[c] \in {"begin", "run", "end", "fail"} /\ CallInv(c)
  BY <1>10 DEF CallsInv, CallInv, StepInv, Asks, Not, TypeInv, ToolType
<1>11. ASSUME Asks(c), requests[c] = m.id, m.answer = "ok", Succeeds(c)
       PROVE  CallsInv' /\ ConnInv' /\ TypeInv' /\ WaitInv'
  <2>1. CallInv(c)'
    BY <1>2, <1>5, <1>6, <1>7, <1>8, <1>10, <1>11, CallSucceeds
  <2>2. QED
    BY <1>2, <1>9, <1>11, <2>1, SucceedsTypes
<1>12. ASSUME Asks(c), requests[c] = m.id, m.answer # "ok", Fails({c}, {d \in {c} : m.answer = "unknown"}, {})
       PROVE  CallsInv' /\ ConnInv' /\ TypeInv' /\ WaitInv'
  <2>1. PICK U : U = {d \in {c} : m.answer = "unknown"}
    OBVIOUS
  <2>2. Fails({c}, U, {}) /\ (c \notin U => m.answer # "unknown")
    BY <1>12, <2>1
  <2>3. /\ step[c] = "begin" => op[c] = "refused"
        /\ step[c] = "run" /\ c \in Mutations /\ m.answer # "unknown" => op[c] # "active" \/ script[c] = "done"
        /\ step[c] \in {"end", "fail"} => op[c] # "active"
    BY <1>5, <1>8, <1>10, <1>12 DEF CallInv, AnswerInv, Current
  <2>4. step[c] = "begin" => op[c] \in {"none", "refused"} /\
          \A l \in Conns : \A n \in Sent(l) : n.call = c => n.step # "begin"
    BY <2>3, <1>10, <1>12 DEF CallInv, RequestInv
  <2>5. step[c] \in {"run", "end"} /\ c \in Mutations /\ c \notin U /\ op[c] = "active" => NoRun(c)
    BY <2>2, <2>3, <1>10, <1>12 DEF CallInv, RequestInv, NoRun
  <2>6. CallInv(c)'
    BY <1>2, <1>6, <1>7, <1>10, <1>12, <2>2, <2>3, <2>4, <2>5, CallFails
  <2>7. ToolType' /\ ~Asks(c)' /\ \A d \in Calls : d # c => SameTool(d)
    BY <1>2, <2>2, FailsTypes
  <2>8. QED
    BY <1>9, <2>6, <2>7
<1>13. ASSUME UNCHANGED <<step, wait, verdict, outcome>>
       PROVE  CallsInv' /\ ConnInv' /\ TypeInv' /\ WaitInv'
  <2>1. \A d \in Calls : SameTool(d)
    BY <1>2, <1>13 DEF SameTool
  <2>2. \A d \in Calls : CallInv(d)'
    BY <1>6, <1>7, <2>1, OtherCall DEF CallsInv
  <2>3. ToolType' /\ WaitInv'
    BY <1>2, <1>6, <1>13 DEF TypeInv, ToolType, WaitInv, SameLinks, Asks
  <2>4. QED
    BY <1>6, <2>2, <2>3 DEF CallsInv, TypeInv
<1>14. QED
  BY <1>2, <1>8, <1>11, <1>12, <1>13 DEF Asks

(***************************************************************************)
(* What is reported of an operation                                        *)
(***************************************************************************)

(* A reconnect compares one operation after the other.                     *)
Refreshes(f) == RefreshStarts(f) \/ RefreshFails(f) \/ \E c \in Mutations : RefreshCompares(f, c)

LEMMA RefreshKeeps ==
  ASSUME TypeInv, ConnInv, CallsInv, WaitInv, ReportedIsUnresolved, NEW f \in Lists, Refreshes(f)
  PROVE  CallsInv' /\ ConnInv' /\ TypeInv' /\ WaitInv' /\ ReportedIsUnresolved'
<1>1. UNCHANGED <<client, tool, link, wire, op, source, asked, script>>
  BY DEF Refreshes, RefreshStarts, RefreshCompares, RefreshFails
<1>2. ConnInv' /\ WaitInv'
  BY <1>1 DEF ConnInv, WaitInv, Asks, client, tool, wire
<1>3. RecoveryType'
  <2>1. CASE RefreshStarts(f)
    BY <2>1 DEF RefreshStarts, TypeInv, RecoveryType
  <2>2. ASSUME NEW c \in Mutations, RefreshCompares(f, c) PROVE RecoveryType'
    <3>1. refreshing' \in [Lists -> [Mutations -> {"no", "left", "compared"}]]
      BY <2>2 DEF RefreshCompares, Compared, TypeInv, RecoveryType
    <3>2. QED
      BY <2>2, <3>1 DEF RefreshCompares, TypeInv, RecoveryType
  <2>3. CASE RefreshFails(f)
    BY <2>3 DEF RefreshFails, TypeInv, RecoveryType
  <2>4. QED
    BY <2>1, <2>2, <2>3 DEF Refreshes
<1>4. TypeInv'
  BY <1>1, <1>3 DEF TypeInv, ClientType, ToolType, WireType, DaemonType, client, tool, wire
<1>5. ASSUME NEW c \in Calls PROVE CallInv(c)'
  <2>1. SameTool(c) /\ SameOperation(c) /\ SameLinks
    BY <1>1 DEF SameTool, SameOperation, SameLinks, client, tool
  <2>2. SameRequests(c) /\ FewerAnswers(c)
    BY <1>1 DEF SameRequests, FewerAnswers, Sent, Back, wire
  <2>3. QED
    BY <2>1, <2>2, OtherCall DEF CallsInv
<1>6. ReportedIsUnresolved'
  <2>1. SUFFICES ASSUME NEW c \in Mutations, reconciliation'[c] \in {"PENDING", "COMPARED"}
                 PROVE  op[c] = "UNKNOWN"
    BY <1>1 DEF ReportedIsUnresolved, Unresolved
  <2>2. CASE RefreshStarts(f)
    BY <2>1, <2>2 DEF RefreshStarts, ReportedIsUnresolved, Unresolved
  <2>3. ASSUME NEW d \in Mutations, RefreshCompares(f, d) PROVE op[c] = "UNKNOWN"
    <3>1. op[d] = "UNKNOWN" /\ reconciliation' = [reconciliation EXCEPT ![d] = "COMPARED"]
      BY <2>3 DEF RefreshCompares, Unresolved
    <3>2. QED
      BY <2>1, <3>1 DEF ReportedIsUnresolved, Unresolved, TypeInv, RecoveryType
  <2>4. CASE RefreshFails(f)
    BY <2>1, <2>4 DEF RefreshFails, ReportedIsUnresolved, Unresolved
  <2>5. QED
    BY <2>2, <2>3, <2>4 DEF Refreshes
<1>7. QED
  BY <1>2, <1>4, <1>5, <1>6 DEF CallsInv

(* Other steps report nothing, and leave what is unknown unknown.          *)
StaysUnresolved ==
  /\ reconciliation' = reconciliation
  /\ \A c \in Mutations : op[c] = "UNKNOWN" => op'[c] = "UNKNOWN"

LEMMA ReportStays ==
  ASSUME ReportedIsUnresolved, StaysUnresolved
  PROVE  ReportedIsUnresolved'
  BY DEF ReportedIsUnresolved, StaysUnresolved, Unresolved

LEMMA ReportKept ==
  ASSUME ReportedIsUnresolved, UNCHANGED daemon
  PROVE  ReportedIsUnresolved'
  BY DEF ReportedIsUnresolved, Unresolved, daemon, recovery

LEMMA HandlesReport ==
  ASSUME TypeInv, CallsInv, ReportedIsUnresolved, NEW k \in Conns, Handles(k)
  PROVE  ReportedIsUnresolved'
<1>1. Mutations \subseteq Calls
  BY SessionAssumption
<1>2. CASE TakeBegin(k)
  <2>1. PICK m : m = Head(toDaemon[k])
    OBVIOUS
  <2>2. /\ toDaemon[k] # <<>> /\ m.step = "begin"
        /\ op' = [op EXCEPT ![m.call] = "beginning"] /\ UNCHANGED recovery
    BY <1>2, <2>1 DEF TakeBegin, Takes
  <2>3. m \in Sent(k) /\ m.call \in Calls
    <3>1. toDaemon[k] \in Seq(RequestMessage)
      BY DEF TypeInv, WireType
    <3>2. m \in RequestMessage /\ m \in Range(toDaemon[k])
      BY <2>1, <2>2, <3>1, TailElements
    <3>3. QED
      BY <3>2 DEF Sent, RequestMessage
  <2>4. op[m.call] = "none"
    BY <2>2, <2>3 DEF CallsInv, CallInv, RequestInv
  <2>5. StaysUnresolved
    BY <1>1, <2>2, <2>3, <2>4 DEF StaysUnresolved, TypeInv, DaemonType, recovery
  <2>6. QED
    BY <2>5, ReportStays
<1>3. CASE TakeRun(k)
  <2>1. StaysUnresolved
    BY <1>3 DEF TakeRun, StaysUnresolved, recovery
  <2>2. QED
    BY <2>1, ReportStays
<1>4. CASE TakeEnd(k)
  <2>1. PICK m : m = Head(toDaemon[k])
    OBVIOUS
  <2>2. PICK status :
          op' = [op EXCEPT ![m.call] = status] /\ (op[m.call] # "active" => status = op[m.call])
    BY <1>4, <2>1 DEF TakeEnd
  <2>3. UNCHANGED recovery
    BY <1>4 DEF TakeEnd
  <2>4. StaysUnresolved
    BY <1>1, <2>2, <2>3 DEF StaysUnresolved, TypeInv, DaemonType, recovery
  <2>5. QED
    BY <2>4, ReportStays
<1>5. CASE Reports(k)
  <2>1. StaysUnresolved
    BY <1>5 DEF Reports, StaysUnresolved
  <2>2. QED
    BY <2>1, ReportStays
<1>6. CASE RecoverySnapshot(k)
  <2>1. PICK c \in Unresolved : reconciliation' = [reconciliation EXCEPT ![c] = "COMPARED"] /\ op' = op
    BY <1>6 DEF RecoverySnapshot
  <2>2. QED
    BY <2>1 DEF ReportedIsUnresolved, Unresolved, TypeInv, RecoveryType
<1>7. CASE AcknowledgeRecovery(k)
  <2>1. PICK c \in Unresolved : /\ op' = [op EXCEPT ![c] = "ACKNOWLEDGED"]
                                /\ reconciliation' = [reconciliation EXCEPT ![c] = "none"]
    BY <1>7 DEF AcknowledgeRecovery
  <2>2. QED
    BY <1>1, <2>1 DEF ReportedIsUnresolved, Unresolved, TypeInv, RecoveryType, DaemonType
<1>8. QED
  BY <1>2, <1>3, <1>4, <1>5, <1>6, <1>7 DEF Handles

LEMMA WorksReport ==
  ASSUME TypeInv, CallsInv, ReportedIsUnresolved, NEW c \in Calls, Works(c)
  PROVE  ReportedIsUnresolved'
<1>1. Mutations \subseteq Calls
  BY SessionAssumption
<1>2. StaysUnresolved
  <2>1. CASE BeginRefused(c)
    BY <1>1, <2>1 DEF BeginRefused, StaysUnresolved, TypeInv, DaemonType, recovery
  <2>2. CASE Begun(c)
    BY <1>1, <2>2 DEF Begun, StaysUnresolved, TypeInv, DaemonType, recovery
  <2>3. CASE ScriptEnds(c)
    BY <2>3 DEF ScriptEnds, StaysUnresolved, recovery
  <2>4. CASE ScriptUnknown(c)
    BY <1>1, <2>4 DEF ScriptUnknown, StaysUnresolved, TypeInv, DaemonType, recovery
  <2>5. QED
    BY <2>1, <2>2, <2>3, <2>4 DEF Works
<1>3. QED
  BY <1>2, ReportStays

(***************************************************************************)
(* The invariant                                                           *)
(***************************************************************************)
LEMMA InitIInv ==
  ASSUME Init
  PROVE  IInv
<1>1. TypeInv
  <2>1. ClientType /\ ToolType
    BY DEF Init, ClientType, ToolType, Not
  <2>2. WireType
    BY DEF Init, WireType
  <2>3. DaemonType /\ RecoveryType
    BY DEF Init, DaemonType, RecoveryType, NoRequest
  <2>4. QED
    BY <2>1, <2>2, <2>3 DEF TypeInv
<1>2. \A k \in Conns : Sent(k) = {} /\ Back(k) = {}
  BY DEF Init, Sent, Back, Range
<1>3. ConnInv
  <2>1. IsInjective(<<>>)
    BY DEF IsInjective
  <2>2. QED
    BY <2>1 DEF Init, ConnInv
<1>4. WaitInv /\ ReportedIsUnresolved
  BY DEF Init, WaitInv, Asks, Not, ReportedIsUnresolved
<1>5. ASSUME NEW c \in Calls PROVE CallInv(c)
  <2>1. /\ step[c] = "idle" /\ wait[c] = Not /\ requests[c] = 0 /\ verdict[c] = "none" /\ outcome[c] = "none"
        /\ op[c] = "none" /\ source[c] = NoConn /\ asked[c] = NoRequest /\ script[c] = "none" /\ ~Asks(c)
    BY DEF Init, Asks, Not
  <2>2. StepInv(c)
    BY <2>1 DEF StepInv, Cap
  <2>3. RequestInv(c) /\ OnceInv(c) /\ AnswerInv(c)
    BY <1>2 DEF RequestInv, OnceInv, AnswerInv
  <2>4. AskedInv(c) /\ EndInv(c) /\ OwnerInv(c)
    BY <2>1 DEF AskedInv, EndInv, OwnerInv, NoRequest
  <2>5. OutcomeInv(c)
    BY <2>1 DEF OutcomeInv, Unsettled
  <2>6. QED
    BY <2>2, <2>3, <2>4, <2>5 DEF CallInv
<1>6. QED
  BY <1>1, <1>3, <1>4, <1>5 DEF IInv, CallsInv

(* A step of the client sends, or hears of the operations, but changes     *)
(* none; a step of the daemon leaves the client and its connections alone. *)
ClientSteps ==
  \/ \E c \in Calls : Steps(c) \/ RequestTimer(c)
  \/ \E k \in Conns : Connects(k) \/ Closing(k) \/ Closed(k) \/ OnMessage(k)
DaemonSteps ==
  \/ \E c \in Calls : Works(c)
  \/ \E k \in Conns : Handles(k) \/ HandleSocketClose(k)

LEMMA ClientKeeps ==
  ASSUME IInv, ClientSteps
  PROVE  IInv'
<1>1. CallsInv' /\ ConnInv' /\ TypeInv' /\ WaitInv'
  <2> USE DEF IInv
  <2>1. ASSUME NEW c \in Calls, RunTool(c) PROVE CallsInv' /\ ConnInv' /\ TypeInv' /\ WaitInv'
    BY <2>1, RunToolKeeps
  <2>2. ASSUME NEW c \in Calls, Request(c) PROVE CallsInv' /\ ConnInv' /\ TypeInv' /\ WaitInv'
    BY <2>2, RequestKeeps
  <2>3. ASSUME NEW c \in Calls, Open(c) PROVE CallsInv' /\ ConnInv' /\ TypeInv' /\ WaitInv'
    BY <2>3, OpenKeeps
  <2>4. ASSUME NEW c \in Calls, RequestTimer(c) PROVE CallsInv' /\ ConnInv' /\ TypeInv' /\ WaitInv'
    BY <2>4, TimerKeeps
  <2>5. ASSUME NEW k \in Conns, Opened(k) PROVE CallsInv' /\ ConnInv' /\ TypeInv' /\ WaitInv'
    BY <2>5, OpenedKeeps
  <2>6. ASSUME NEW k \in Conns, ConnectFails(k) \/ Closed(k) PROVE CallsInv' /\ ConnInv' /\ TypeInv' /\ WaitInv'
    BY <2>6, ClosesKeeps
  <2>7. ASSUME NEW k \in Conns, Closing(k) PROVE CallsInv' /\ ConnInv' /\ TypeInv' /\ WaitInv'
    BY <2>7, ClosingKeeps
  <2>8. ASSUME NEW k \in Conns, OnMessage(k) PROVE CallsInv' /\ ConnInv' /\ TypeInv' /\ WaitInv'
    BY <2>8, MessageKeeps
  <2>9. QED
    BY <2>1, <2>2, <2>3, <2>4, <2>5, <2>6, <2>7, <2>8 DEF ClientSteps, Steps, Connects
<1>2. ReportedIsUnresolved'
  <2>1. UNCHANGED daemon
    BY DEF ClientSteps, Steps, Connects, RunTool, Request, Open, RequestTimer, Opened, ConnectFails,
       Closed, CloseEvent, Closing, OnMessage
  <2>2. QED
    BY <2>1, ReportKept DEF IInv
<1>3. QED
  BY <1>1, <1>2 DEF IInv

LEMMA DaemonKeeps ==
  ASSUME IInv, DaemonSteps
  PROVE  IInv'
<1>1. CallsInv' /\ ConnInv' /\ TypeInv'
  <2> USE DEF IInv
  <2>1. ASSUME NEW c \in Calls, BeginRefused(c) PROVE CallsInv' /\ ConnInv' /\ TypeInv'
    BY <2>1, RefusalKeeps
  <2>2. ASSUME NEW c \in Calls, Begun(c) PROVE CallsInv' /\ ConnInv' /\ TypeInv'
    BY <2>2, BegunKeeps
  <2>3. ASSUME NEW c \in Calls, ScriptEnds(c) PROVE CallsInv' /\ ConnInv' /\ TypeInv'
    BY <2>3, ScriptEndKeeps
  <2>4. ASSUME NEW c \in Calls, ScriptUnknown(c) PROVE CallsInv' /\ ConnInv' /\ TypeInv'
    BY <2>4, ScriptUnknownKeeps
  <2>5. ASSUME NEW k \in Conns, TakeBegin(k) PROVE CallsInv' /\ ConnInv' /\ TypeInv'
    BY <2>5, BeginTaken
  <2>6. ASSUME NEW k \in Conns, TakeRun(k) PROVE CallsInv' /\ ConnInv' /\ TypeInv'
    BY <2>6, RunTaken
  <2>7. ASSUME NEW k \in Conns, TakeEnd(k) PROVE CallsInv' /\ ConnInv' /\ TypeInv'
    BY <2>7, EndTaken
  <2>8. ASSUME NEW k \in Conns, Reports(k) \/ RecoverySnapshot(k) \/ AcknowledgeRecovery(k)
        PROVE  CallsInv' /\ ConnInv' /\ TypeInv'
    BY <2>8, LocalKeeps
  <2>9. ASSUME NEW k \in Conns, HandleSocketClose(k) PROVE CallsInv' /\ ConnInv' /\ TypeInv'
    BY <2>9, SocketCloseKeeps
  <2>10. QED
    BY <2>1, <2>2, <2>3, <2>4, <2>5, <2>6, <2>7, <2>8, <2>9 DEF DaemonSteps, Works, Handles
<1>2. WaitInv'
  <2>1. UNCHANGED <<client, tool>>
    BY DEF DaemonSteps, Works, Handles, BeginRefused, Begun, ScriptEnds, ScriptUnknown, TakeBegin, TakeRun,
       TakeEnd, Takes, Reports, RecoverySnapshot, AcknowledgeRecovery, TakeLocal, HandleSocketClose
  <2>2. QED
    BY <2>1 DEF IInv, WaitInv, Asks, client, tool
<1>3. ReportedIsUnresolved'
  <2>1. ASSUME NEW c \in Calls, Works(c) PROVE ReportedIsUnresolved'
    BY <2>1, WorksReport DEF IInv
  <2>2. ASSUME NEW k \in Conns, Handles(k) PROVE ReportedIsUnresolved'
    BY <2>2, HandlesReport DEF IInv
  <2>3. ASSUME NEW k \in Conns, HandleSocketClose(k) PROVE ReportedIsUnresolved'
    <3>1. StaysUnresolved
      BY <2>3, SessionAssumption DEF HandleSocketClose, StaysUnresolved, recovery
    <3>2. QED
      BY <3>1, ReportStays DEF IInv
  <2>4. QED
    BY <2>1, <2>2, <2>3 DEF DaemonSteps
<1>4. QED
  BY <1>1, <1>2, <1>3 DEF IInv

LEMMA StutterKeeps ==
  ASSUME IInv, UNCHANGED vars
  PROVE  IInv'
<1>1. UNCHANGED <<client, tool, link, wire, daemon>>
  BY DEF vars
<1>2. TypeInv' /\ ConnInv' /\ WaitInv' /\ ReportedIsUnresolved'
  BY <1>1 DEF IInv, TypeInv, ClientType, ToolType, WireType, DaemonType, RecoveryType, ConnInv, WaitInv, Asks,
     ReportedIsUnresolved, Unresolved, client, tool, wire, daemon, recovery
<1>3. ASSUME NEW c \in Calls PROVE CallInv(c)'
  <2>1. SameTool(c) /\ SameOperation(c) /\ SameLinks
    BY <1>1 DEF SameTool, SameOperation, SameLinks, client, tool, daemon
  <2>2. SameRequests(c) /\ FewerAnswers(c)
    BY <1>1 DEF SameRequests, FewerAnswers, Sent, Back, wire
  <2>3. QED
    BY <2>1, <2>2, OtherCall DEF IInv, CallsInv
<1>4. QED
  BY <1>2, <1>3 DEF IInv, CallsInv

LEMMA NextIInv ==
  ASSUME IInv, [Next]_vars
  PROVE  IInv'
<1>1. CASE ClientSteps
  BY <1>1, ClientKeeps
<1>2. CASE DaemonSteps
  BY <1>2, DaemonKeeps
<1>3. ASSUME NEW f \in Lists, Refreshes(f) PROVE IInv'
  BY <1>3, RefreshKeeps DEF IInv
<1>4. CASE UNCHANGED vars
  BY <1>4, StutterKeeps
<1>5. QED
  BY <1>1, <1>2, <1>3, <1>4 DEF Next, ClientSteps, DaemonSteps, Refreshes

(* The invariant of the session, for any number of calls and connections.  *)
THEOREM SessionInvariant == Spec => []IInv
<1>1. Init => IInv
  BY InitIInv
<1>2. IInv /\ [Next]_vars => IInv'
  BY NextIInv
<1>3. QED
  BY <1>1, <1>2, PTL DEF Spec

(***************************************************************************)
(* Theorems                                                                *)
(***************************************************************************)

(* The variables have their types, and what is on its way over a connection *)
(* are requests and responses.                                             *)
THEOREM SessionTypes == Spec => []TypeOK
<1>1. ASSUME IInv PROVE TypeOK
  <2>1. ASSUME NEW k \in Conns
        PROVE  /\ \A m \in Range(toDaemon[k]) : m \in RequestMessage
               /\ \A m \in Range(toClient[k]) : m \in ResponseMessage
    <3>1. toDaemon[k] \in Seq(RequestMessage) /\ toClient[k] \in Seq(ResponseMessage)
      BY <1>1 DEF IInv, TypeInv, WireType
    <3>2. QED
      BY <3>1, ElementOfSeq, LenProperties DEF Range
  <2>2. QED
    BY <1>1, <2>1 DEF TypeOK, IInv, TypeInv, ClientType, ToolType, WireType, DaemonType, RecoveryType,
       RequestMessage, ResponseMessage
<1>2. QED
  BY <1>1, SessionInvariant, PTL

(* A mutation, if it is not a batch, is recorded SUCCEEDED or FAILED only   *)
(* when its script cannot change the project any more: #endOperation, #finalizeOrphan-        *)
(* Operation and the timers of both sides, in whatever order they come.    *)
THEOREM SessionHonest == Spec => []HonestOutcome
<1>1. ASSUME IInv PROVE HonestOutcome
  BY <1>1, SessionAssumption DEF IInv, CallsInv, CallInv, OutcomeInv, HonestOutcome, Honest, Unsettled
<1>2. QED
  BY <1>1, SessionInvariant, PTL

(* A mutation that runTool returns as a success is never FAILED in the      *)
(* daemon, whichever of its two ends decided.                              *)
THEOREM SessionSuccess == Spec => []SuccessIsNotFailure
<1>1. ASSUME IInv PROVE SuccessIsNotFailure
  BY <1>1, SessionAssumption DEF IInv, CallsInv, CallInv, OutcomeInv, SuccessIsNotFailure
<1>2. QED
  BY <1>1, SessionInvariant, PTL

(* An active operation has somebody to end it: its call, an end on its way, *)
(* or the connection it is tied to, when #handleSocketClose sees it go.    *)
THEOREM SessionOwned == Spec => []ActiveIsOwned
<1>1. ASSUME IInv PROVE ActiveIsOwned
  <2>1. SUFFICES ASSUME NEW c \in Calls, op[c] = "active"
                 PROVE  /\ source[c] # NoConn /\ link[source[c]] = "open"
                        /\ \/ step[c] # "over" \/ outcome[c] = "begin_lost" \/ overlapped
                           \/ conn[source[c]] # "open"
                           \/ \E k \in Conns : \E m \in Range(toDaemon[k]) :
                                m.call = c /\ m.step \in {"end", "fail"}
    BY DEF ActiveIsOwned
  <2>2. OwnerInv(c) /\ source[c] \in Conns \union {NoConn}
    BY <1>1 DEF IInv, CallsInv, CallInv, TypeInv, DaemonType
  <2>3. QED
    BY <2>1, <2>2 DEF OwnerInv, EndOnWay, Ends, Sent
<1>2. QED
  BY <1>1, SessionInvariant, PTL

(* What #refreshReconnectStatus and the recovery tools leave as pending or *)
(* compared is so of an operation that is still unresolved.                *)
THEOREM SessionReports == Spec => []ReportedIsUnresolved
<1>1. IInv => ReportedIsUnresolved
  BY DEF IInv
<1>2. QED
  BY <1>1, SessionInvariant, PTL
=============================================================================
