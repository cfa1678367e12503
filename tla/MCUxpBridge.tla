---------------------------- MODULE MCUxpBridge ----------------------------
(***************************************************************************)
(* Scenarios of UxpBridge for TLC: what one run cannot combine is split    *)
(* into several initial states.                                            *)
(***************************************************************************)
EXTENDS UxpBridge

CONSTANTS t1, t2

Only(t, ops) == [u \in Tools |-> IF u = t THEN ops ELSE {}]

(* Every operation with a fault of any kind, from the load of the panel on, *)
(* and while the user edits; a mutation and a reader that find clips in a  *)
(* panel that is reloaded; two mutations.                                  *)
MCScenarios ==
  {[ops |-> Only(t1, Operations), faults |-> Faults, edits |-> 0, connected |-> FALSE],
   [ops |-> Only(t1, Operations), faults |-> {}, edits |-> 1, connected |-> TRUE],
   [ops |-> [u \in Tools |-> IF u = t1 THEN {ClipMoveTrack} ELSE {LockedBatch}],
    faults |-> {"reload"}, edits |-> 0, connected |-> TRUE],
   [ops |-> [u \in Tools |-> IF u = t1 THEN {ClipRemove} ELSE {MediaRelink}],
    faults |-> {}, edits |-> 0, connected |-> TRUE]}
=============================================================================
