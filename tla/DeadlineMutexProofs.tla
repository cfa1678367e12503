------------------------ MODULE DeadlineMutexProofs ------------------------
(***************************************************************************)
(* What the operators of DeadlineMutex return, for any set of parties and  *)
(* any number of waiters.  The proofs about the state machines that use a  *)
(* mutex cite these lemmas and never look into the queue.                  *)
(***************************************************************************)
EXTENDS DeadlineMutex, TLAPS

LEMMA UnlockedIsMutex ==
  ASSUME NEW P
  PROVE  Unlocked \in Mutex(P) /\ Waiting(Unlocked) = {} /\ IsFifo(Unlocked)
BY DEF Unlocked, Mutex, Waiting, IsFifo

(* Acquiring adds the caller, as the holder or as a waiter.                *)
LEMMA AcquireType ==
  ASSUME NEW P, NEW m \in Mutex(P), NEW p \in P
  PROVE  Acquire(m, p) \in Mutex(P)
BY DEF Mutex, Acquire, IsLocked

LEMMA AcquireLemma ==
  ASSUME NEW P, NEW m \in Mutex(P), NEW p \in P, NoOne \notin P, IsFifo(m),
         p # m.holder, p \notin Waiting(m)
  PROVE  /\ IsFifo(Acquire(m, p))
         /\ ~IsLocked(m) =>
              Acquire(m, p).holder = p /\ Waiting(Acquire(m, p)) = {}
         /\ IsLocked(m) =>
              /\ Acquire(m, p).holder = m.holder
              /\ Waiting(Acquire(m, p)) = Waiting(m) \union {p}
<1>1. CASE ~IsLocked(m)
  BY <1>1 DEF Mutex, Acquire, IsLocked, IsFifo, Waiting
<1>2. CASE IsLocked(m)
  <2> DEFINE w == m.waiters
             a == Acquire(m, p)
  <2>1. /\ a.holder = m.holder
        /\ a.waiters = Append(w, p)
        /\ w \in Seq(P)
    BY <1>2 DEF Acquire, Mutex
  <2>2. /\ DOMAIN w = 1 .. Len(w)
        /\ DOMAIN a.waiters = 1 .. Len(w) + 1
        /\ a.waiters[Len(w) + 1] = p
        /\ \A i \in 1 .. Len(w) : a.waiters[i] = w[i]
        /\ Len(w) \in Nat
    BY <2>1
  <2> HIDE DEF a
  <2>3. Waiting(a) = Waiting(m) \union {p}
    BY <2>2 DEF Waiting
  <2>4. IsFifo(a)
    BY <1>2, <2>1, <2>2, <2>3 DEF IsFifo, Waiting, IsLocked
  <2> QED
    BY <1>2, <2>1, <2>3, <2>4 DEF a
<1> QED
  BY <1>1, <1>2

(* The passing of a deadline takes out that waiter and nobody else.        *)
LEMMA ExpireLemma ==
  ASSUME NEW P, NEW m \in Mutex(P), NEW i \in DOMAIN m.waiters
  PROVE  /\ Expire(m, i) \in Mutex(P)
         /\ Expire(m, i).holder = m.holder
         /\ IsFifo(m) =>
              /\ IsFifo(Expire(m, i))
              /\ Waiting(Expire(m, i)) = Waiting(m) \ {m.waiters[i]}
<1> DEFINE w == m.waiters
           x == [j \in 1 .. Len(w) - 1 |-> IF j < i THEN w[j] ELSE w[j + 1]]
           e == Expire(m, i)
<1>1. /\ w \in Seq(P)
      /\ Len(w) \in Nat
      /\ DOMAIN w = 1 .. Len(w)
      /\ i \in 1 .. Len(w)
      /\ \A j \in 1 .. Len(w) : w[j] \in P
  BY DEF Mutex
<1>2. e.holder = m.holder /\ e.waiters = x /\ e = [m EXCEPT !.waiters = x]
  BY DEF Expire, Mutex
<1>3. x \in Seq(P) /\ DOMAIN x = 1 .. Len(w) - 1
  BY <1>1
<1>4. e \in Mutex(P)
  BY <1>2, <1>3 DEF Mutex
<1>5. ASSUME IsFifo(m)
      PROVE  IsFifo(e) /\ Waiting(e) = Waiting(m) \ {w[i]}
  <2> DEFINE g(j) == IF j < i THEN j ELSE j + 1
  <2>0. \A j, k \in 1 .. Len(w) : w[j] = w[k] => j = k
    BY <1>1, <1>5 DEF IsFifo
  <2>a. \A j \in DOMAIN x : g(j) \in 1 .. Len(w) /\ g(j) # i /\ x[j] = w[g(j)]
    BY <1>1, <1>3
  <2>b. \A j, k \in DOMAIN x : g(j) = g(k) => j = k
    BY <1>1, <1>3
  <2>1. ASSUME NEW j \in DOMAIN x
        PROVE  x[j] \in Waiting(m) /\ x[j] # w[i]
    <3> HIDE DEF x, g
    <3> QED BY <1>1, <2>0, <2>a DEF Waiting
  <2>2. ASSUME NEW j \in DOMAIN w, j # i
        PROVE  \E k \in DOMAIN x : x[k] = w[j]
    <3>1. CASE j < i
      <4>1. j \in DOMAIN x /\ x[j] = w[j]
        BY <3>1, <2>2, <1>1, <1>3
      <4> QED BY <4>1
    <3>2. CASE j > i
      <4>1. j - 1 \in DOMAIN x /\ x[j - 1] = w[j]
        BY <3>2, <2>2, <1>1, <1>3
      <4> QED BY <4>1
    <3> QED BY <3>1, <3>2, <2>2, <1>1
  <2>3. Waiting(e) = Waiting(m) \ {w[i]}
    <3> HIDE DEF x, e
    <3>1. \A q \in Waiting(e) : q \in Waiting(m) \ {w[i]}
      BY <2>1, <1>2 DEF Waiting
    <3>2. \A q \in Waiting(m) \ {w[i]} : q \in Waiting(e)
      BY <2>2, <1>2 DEF Waiting
    <3> QED BY <3>1, <3>2
  <2>4. \A j, k \in DOMAIN x : x[j] = x[k] => j = k
    <3> HIDE DEF x, g
    <3> QED BY <2>0, <2>a, <2>b
  <2> QED
    <3> HIDE DEF x, e
    <3> QED BY <1>2, <1>5, <2>3, <2>4 DEF IsFifo, IsLocked
<1> QED
  BY <1>2, <1>4, <1>5

(* A release by the holder passes the mutex on to a waiter, if there is    *)
(* one; a release by anyone else does nothing.                             *)
LEMMA ReleaseType ==
  ASSUME NEW P, NEW m \in Mutex(P), NEW p
  PROVE  Release(m, p) \in Mutex(P)
BY DEF Mutex, Release, Unlocked

LEMMA ReleaseLemma ==
  ASSUME NEW P, NEW m \in Mutex(P), NEW p, IsFifo(m), NoOne \notin P
  PROVE  /\ IsFifo(Release(m, p))
         /\ m.holder # p => Release(m, p) = m
         /\ m.holder = p /\ Waiting(m) = {} => Release(m, p) = Unlocked
         /\ m.holder = p /\ Waiting(m) # {} =>
              /\ Release(m, p).holder \in Waiting(m)
              /\ Waiting(Release(m, p)) = Waiting(m) \ {Release(m, p).holder}
<1> DEFINE w == m.waiters
           x == Release(m, p)
<1>1. w \in Seq(P) /\ DOMAIN w = 1 .. Len(w) /\ Len(w) \in Nat
  BY DEF Mutex
<1>2. CASE m.holder # p
  BY <1>2 DEF Release
<1>3. CASE m.holder = p /\ w = <<>>
  <2>1. Waiting(m) = {}
    BY <1>3 DEF Waiting
  <2> QED
    BY <1>3, <2>1, UnlockedIsMutex DEF Release
<1>4. CASE m.holder = p /\ w # <<>>
  <2>1. x.holder = Head(w) /\ x.waiters = Tail(w)
    BY <1>4 DEF Release
  <2>2. /\ Len(w) > 0
        /\ Head(w) = w[1]
        /\ DOMAIN Tail(w) = 1 .. Len(w) - 1
        /\ \A j \in 1 .. Len(w) - 1 : Tail(w)[j] = w[j + 1]
    BY <1>1, <1>4
  <2>3. w[1] \in Waiting(m) /\ w[1] \in P
    BY <1>1, <2>2 DEF Waiting
  <2>4. \A j, k \in DOMAIN w : w[j] = w[k] => j = k
    BY DEF IsFifo
  <2> HIDE DEF x
  <2>5. Waiting(x) = Waiting(m) \ {w[1]}
    <3>1. \A q \in Waiting(x) : q \in Waiting(m) \ {w[1]}
      BY <1>1, <2>1, <2>2, <2>4 DEF Waiting
    <3>2. ASSUME NEW j \in DOMAIN w, w[j] # w[1]
          PROVE  w[j] \in Waiting(x)
      <4>1. j - 1 \in DOMAIN x.waiters /\ x.waiters[j - 1] = w[j]
        BY <1>1, <2>1, <2>2, <3>2
      <4> QED BY <4>1 DEF Waiting
    <3>3. \A q \in Waiting(m) \ {w[1]} : q \in Waiting(x)
      BY <3>2 DEF Waiting
    <3> QED BY <3>1, <3>3
  <2>6. \A j, k \in DOMAIN x.waiters : x.waiters[j] = x.waiters[k] => j = k
    <3> SUFFICES ASSUME NEW j \in 1 .. Len(w) - 1, NEW k \in 1 .. Len(w) - 1,
                        w[j + 1] = w[k + 1]
                 PROVE  j = k
      BY <2>1, <2>2
    <3>1. j + 1 \in DOMAIN w /\ k + 1 \in DOMAIN w
      BY <1>1
    <3>2. j + 1 = k + 1
      BY <2>4, <3>1
    <3> QED BY <1>1, <3>2
  <2>7. IsFifo(x)
    BY <2>1, <2>2, <2>3, <2>5, <2>6 DEF IsFifo, IsLocked
  <2> QED
    BY <1>4, <2>1, <2>2, <2>3, <2>5, <2>7 DEF x
<1> QED
  BY <1>2, <1>3, <1>4

(* What the three operations do to the set of those who still want the     *)
(* mutex.                                                                  *)
LEMMA QueuedAcquire ==
  ASSUME NEW P, NoOne \notin P, NEW m \in Mutex(P), NEW S \in SUBSET P, NEW p \in P \ S,
         Queued(m, S), p # m.holder
  PROVE  Queued(Acquire(m, p), S \union {p}) /\ Acquire(m, p).holder \in {m.holder, p}
<1> DEFINE a == Acquire(m, p)
<1>1. IsFifo(m) /\ Waiting(m) = S \ {m.holder}
  BY DEF Queued
<1>2. /\ IsFifo(a)
      /\ ~IsLocked(m) => a.holder = p /\ Waiting(a) = {}
      /\ IsLocked(m) => a.holder = m.holder /\ Waiting(a) = Waiting(m) \union {p}
  BY <1>1, AcquireLemma
<1>3. ~IsLocked(m) => m.holder = NoOne /\ Waiting(m) = {}
  BY <1>1 DEF IsLocked, IsFifo
<1> HIDE DEF a
<1>4. Waiting(a) = (S \union {p}) \ {a.holder} /\ a.holder \in {m.holder, p}
  BY <1>1, <1>2, <1>3
<1> QED BY <1>2, <1>4 DEF Queued, a

(* A waiter whose deadline has passed no longer wants it, and did wait.    *)
LEMMA QueuedExpire ==
  ASSUME NEW P, NEW m \in Mutex(P), NEW S, Queued(m, S), NEW i \in DOMAIN m.waiters
  PROVE  /\ Queued(Expire(m, i), S \ {m.waiters[i]}) /\ Expire(m, i).holder = m.holder
         /\ m.waiters[i] \in S /\ m.waiters[i] # m.holder
<1>1. IsFifo(m) /\ Waiting(m) = S \ {m.holder} /\ m.waiters[i] \in Waiting(m)
  BY DEF Queued, Waiting
<1>2. /\ Expire(m, i).holder = m.holder /\ IsFifo(Expire(m, i))
      /\ Waiting(Expire(m, i)) = Waiting(m) \ {m.waiters[i]}
  BY <1>1, ExpireLemma
<1>3. Waiting(Expire(m, i)) = (S \ {m.waiters[i]}) \ {Expire(m, i).holder}
  BY <1>1, <1>2
<1> QED BY <1>1, <1>2, <1>3 DEF Queued

(* Whoever releases no longer wants it; it passes to one that does.        *)
LEMMA QueuedRelease ==
  ASSUME NEW P, NoOne \notin P, NEW m \in Mutex(P), NEW S \in SUBSET P, NEW p,
         Queued(m, S), p \notin S \/ m.holder = p
  PROVE  /\ Queued(Release(m, p), S \ {p})
         /\ Release(m, p).holder \in {m.holder, NoOne} \union (S \ {p})
<1> DEFINE x == Release(m, p)
<1>1. IsFifo(m) /\ Waiting(m) = S \ {m.holder}
  BY DEF Queued
<1>2. /\ IsFifo(x)
      /\ m.holder # p => x = m
      /\ m.holder = p /\ Waiting(m) = {} => x = Unlocked
      /\ m.holder = p /\ Waiting(m) # {} =>
           /\ x.holder \in Waiting(m)
           /\ Waiting(x) = Waiting(m) \ {x.holder}
  BY <1>1, ReleaseLemma
<1>3. Unlocked.holder = NoOne /\ Waiting(Unlocked) = {}
  BY UnlockedIsMutex DEF Unlocked
<1> HIDE DEF x
<1>4. Waiting(x) = (S \ {p}) \ {x.holder} /\ x.holder \in {m.holder, NoOne} \union (S \ {p})
  <2>1. CASE m.holder # p
    BY <1>1, <1>2, <2>1
  <2>2. CASE m.holder = p /\ Waiting(m) = {}
    BY <1>1, <1>2, <1>3, <2>2
  <2>3. CASE m.holder = p /\ Waiting(m) # {}
    BY <1>1, <1>2, <2>3
  <2> QED BY <2>1, <2>2, <2>3
<1> QED BY <1>2, <1>4 DEF Queued, x

(* At the start nobody wants it.                                           *)
LEMMA QueuedUnlocked == Queued(Unlocked, {})
BY UnlockedIsMutex DEF Queued
=============================================================================
