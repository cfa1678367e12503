----------------------- MODULE MCOperationCoordinator -----------------------
(* Instances of the operation coordinator for TLC.  Mutations differ from  *)
(* each other in nothing but their names; so do reads, and so do the       *)
(* sub-requests for one backend.                                           *)
EXTENDS CoordinatorInvariant, TLC

Symmetric ==
  Permutations(Mutations) \union Permutations(Ops \ Mutations)
    \union Permutations(UxpRequests) \union Permutations(Requests \ UxpRequests)
=============================================================================
