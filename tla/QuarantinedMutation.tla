------------------------ MODULE QuarantinedMutation ------------------------
(***************************************************************************)
(* What the daemon promises about mutations, and nothing about how:        *)
(* one mutation executes at a time; once the outcome of one is unresolved, *)
(* whether it was executing or the daemon died over it, no further one is  *)
(* accepted or executes until every unresolved one is acknowledged         *)
(* (README.md of the repository, "Host failures fail closed").             *)
(*                                                                         *)
(*   new ---> pending <--> executing ---> settled                          *)
(*              |             |                                            *)
(*              +--> settled  +--> unresolved ---> acknowledged            *)
(***************************************************************************)
CONSTANT Mutations

VARIABLE phase

Phases == {"new", "pending", "executing", "settled", "unresolved", "acknowledged"}

With(f, s) == {o \in Mutations : f[o] = s}

Init == phase = [o \in Mutations |-> "new"]

(* f itself, or f with one pending mutation let through.                   *)
Granted(f) ==
  {f} \union {[f EXCEPT ![o] = "executing"] :
                o \in {p \in With(f, "pending") :
                         With(f, "executing") \union With(f, "unresolved") = {}}}

Accept(o) ==
  /\ phase[o] = "new"
  /\ With(phase, "unresolved") = {}
  /\ phase' = [phase EXCEPT ![o] = "pending"]

Grant == phase' \in Granted(phase)

Refuse(o) == phase[o] = "pending" /\ phase' = [phase EXCEPT ![o] = "settled"]

(* The executing mutation gives its place up, settled or to be refused.    *)
Leave(o) ==
  /\ phase[o] = "executing"
  /\ \E s \in {"pending", "settled"} : phase' \in Granted([phase EXCEPT ![o] = s])

LoseOutcome(o) ==
  /\ phase[o] = "executing"
  /\ phase' = [phase EXCEPT ![o] = "unresolved"]

Acknowledge(o) ==
  /\ phase[o] = "unresolved"
  /\ phase' \in Granted([phase EXCEPT ![o] = "acknowledged"])

(* A mutation that was executing when the daemon died is unresolved; one   *)
(* that was still pending is unresolved too, unless nothing of it was      *)
(* recorded yet.                                                           *)
Crash ==
  phase' \in {f \in [Mutations -> Phases] :
                \A o \in Mutations :
                  CASE phase[o] = "executing" -> f[o] = "unresolved"
                    [] phase[o] = "pending"   -> f[o] \in {"new", "unresolved"}
                    [] OTHER                  -> f[o] = phase[o]}

Next ==
  \/ Grant
  \/ Crash
  \/ \E o \in Mutations : Accept(o) \/ Refuse(o) \/ Leave(o) \/ LoseOutcome(o) \/ Acknowledge(o)

Spec == Init /\ [][Next]_phase
=============================================================================
