---------------------------- MODULE UxpOperations ----------------------------
(***************************************************************************)
(* The operations of the UXP panel, function execute and executeRuntime of *)
(* uxp-plugin/main.cjs.  All of them check their arguments, call Premiere  *)
(* and answer; what sets them apart is what they need, what Premiere is    *)
(* asked to change, and what is made of a call that goes wrong:            *)
(*   handle     no object handle; any that is known ("raw"); one of the     *)
(*              captured project ("item"), and of the state it was issued   *)
(*              in ("token")                                                *)
(*   effect     what is changed: nothing, the named item, the track the    *)
(*              item is removed from or inserted in, the project, or the   *)
(*              project is closed                                          *)
(*   flagged    an error after the dispatch gets a code *_NOT_VERIFIED      *)
(*   checked    a false result of the host is an error                     *)
(*   readsBack  the new state is read and compared before success          *)
(*   looksAfter the active project is read again before the answer         *)
(*   bound      needs a plan and a route with the command, which            *)
(*              UxpBridgeHost never sends                                   *)
(* An operation that is neither checked, readsBack nor looksAfter reports  *)
(* success once Premiere's call returns; one that is not flagged, a plain  *)
(* failure when anything throws.                                           *)
(***************************************************************************)

Operation(handle, effect, made) ==
  [handle |-> handle, effect |-> effect, flagged |-> "flagged" \in made,
   checked |-> "checked" \in made, readsBack |-> "readsBack" \in made,
   looksAfter |-> "looksAfter" \in made, bound |-> "bound" \in made]

Careful == {"flagged", "checked", "readsBack", "looksAfter"}

(* Operations that only look.  A locked batch accepts read members only.   *)
ProjectInspect  == Operation("none", "nothing", {})
SequenceInspect == Operation("none", "nothing", {})
Catalog         == Operation("none", "nothing", {"looksAfter"})
LockedBatch     == Operation("raw", "nothing", {"looksAfter"})
PageRead        == Operation("raw", "nothing", {"looksAfter"})

(* Operations whose errors are told apart by whether Premiere was called:  *)
(* a flag is set before the call, and the result and the state read back   *)
(* are compared with what was asked.                                       *)
ProjectCloseDisposable == Operation("none", "closes", Careful)
MediaRelink            == Operation("token", "item", Careful)
MediaProxyAttach       == Operation("token", "item", Careful)
TrackSetMute           == Operation("none", "project", Careful)
ClipInsert             == Operation("token", "inserts", Careful)

(* Operations with the flag that look neither at the result of the         *)
(* transaction nor at the timeline, and report "verified".                 *)
ClipTrim          == Operation("item", "item", {"flagged", "looksAfter"})
ClipEffect        == Operation("item", "item", {"flagged", "looksAfter"})
ClipAddTransition == Operation("item", "item", {"flagged", "looksAfter"})
ClipMoveTrack     == Operation("item", "item", {"flagged", "looksAfter"})
ClipRemove        == Operation("item", "removes", {"flagged", "looksAfter"})

(* Operations without the flag: an error after the call is a plain one,    *)
(* unless it is the comparison itself that fails.                          *)
SequenceCreate    == Operation("none", "project", {"checked", "readsBack", "looksAfter"})
ProjectSave       == Operation("none", "project", {"checked", "looksAfter"})
ProjectCheckpoint == Operation("none", "project", {"checked", "looksAfter", "bound"})
ExportFrame       == Operation("none", "project", {"checked", "readsBack"})
ExportSequence    == Operation("none", "project", {"checked"})
Markers           == Operation("none", "project", {"looksAfter"})
InOut             == Operation("none", "project", {"looksAfter"})
Playhead          == Operation("none", "project", {"looksAfter"})
RuntimeMember     == Operation("raw", "item", {"looksAfter"})
TransactionExecute == Operation("raw", "item", {"looksAfter"})

Operations ==
  {ProjectInspect, SequenceInspect, Catalog, LockedBatch, PageRead,
   ProjectCloseDisposable, MediaRelink, MediaProxyAttach, TrackSetMute, ClipInsert,
   ClipTrim, ClipEffect, ClipAddTransition, ClipMoveTrack, ClipRemove,
   SequenceCreate, ProjectSave, ProjectCheckpoint, ExportFrame, ExportSequence,
   Markers, InOut, Playhead, RuntimeMember, TransactionExecute}

(* What the panel answers once Premiere was called: `did` is what came of  *)
(* the call (applied, declined with a false result, lost with a true one,  *)
(* or threw), `compares` whether the state read back is the one asked for, *)
(* `throws` whether reading the context afterwards fails.                  *)
Verdict(op, did, compares, throws) ==
  CASE did = "threw" \/ (did = "declined" /\ op.checked) \/ throws ->
         IF op.flagged THEN "unknown" ELSE "refused"
    [] op.readsBack /\ ~compares -> "unknown"
    [] OTHER -> "ok"
=============================================================================
