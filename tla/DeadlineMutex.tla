--------------------------- MODULE DeadlineMutex ---------------------------
(***************************************************************************)
(* The FIFO lock with per-waiter deadlines that the operation coordinator  *)
(* uses for its mutation lease and for its CEP lease (class DeadlineMutex, *)
(* src/operations/coordinator.ts).  A mutex is a value: the party that     *)
(* holds it, or NoOne, and the parties waiting for it in arrival order.    *)
(* The state machines that use it decide when each operator is applied.    *)
(***************************************************************************)
EXTENDS Sequences, Naturals

CONSTANT NoOne      \* the holder of an unlocked mutex

Mutex(P) == [holder : P \union {NoOne}, waiters : Seq(P)]

Unlocked == [holder |-> NoOne, waiters |-> <<>>]

IsLocked(m) == m.holder # NoOne

Waiting(m) == {m.waiters[i] : i \in DOMAIN m.waiters}

(* Nobody waits twice, and the holder does not wait.                       *)
IsFifo(m) ==
  /\ \A i, j \in DOMAIN m.waiters : m.waiters[i] = m.waiters[j] => i = j
  /\ m.holder \notin Waiting(m)
  /\ Waiting(m) # {} => IsLocked(m)

(* The callers S have asked for the mutex and still want it: all of them   *)
(* wait in the queue, and nobody else, but for the one it was granted to.  *)
Queued(m, S) == IsFifo(m) /\ Waiting(m) = S \ {m.holder}

(* A caller that finds the mutex unlocked takes it at once; any other one  *)
(* joins the end of the queue, with a timer for its deadline.              *)
Acquire(m, p) ==
  IF IsLocked(m) THEN [m EXCEPT !.waiters = Append(@, p)]
                 ELSE [m EXCEPT !.holder = p]

(* The deadline of the waiter at position i passes: the timer takes it out *)
(* of the queue, and the others keep their order.                          *)
(* Mutant: a timer that rejects its waiter without taking it out of the queue. *)
MutantExpireLeavesWaiter(m, i) == m
Expire(m, i) ==
  [m EXCEPT !.waiters =
     [j \in 1 .. Len(m.waiters) - 1 |->
        IF j < i THEN m.waiters[j] ELSE m.waiters[j + 1]]]

(* The release of p.  The longest waiter is granted the mutex without it   *)
(* ever being unlocked.  A release is effective once: p's second call, or  *)
(* a call for a lease p never had, does nothing.                           *)
(* Mutant: a release that grants the first waiter without shifting it.    *)
MutantReleaseKeepsWaiter(m, p) ==
  IF m.holder # p \/ m.waiters = <<>> THEN IF m.holder = p THEN Unlocked ELSE m
  ELSE [m EXCEPT !.holder = Head(m.waiters)]
Release(m, p) ==
  IF m.holder # p       THEN m
  ELSE IF m.waiters = <<>> THEN Unlocked
  ELSE [holder |-> Head(m.waiters), waiters |-> Tail(m.waiters)]
=============================================================================
