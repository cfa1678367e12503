--------------------------- MODULE OperationLedger ---------------------------
(***************************************************************************)
(* The ledger file: class OperationLedger of src/operations/ledger.ts.     *)
(*                                                                         *)
(* The file is what raw.split("\n") makes of it: a sequence of lines, the  *)
(* last of them what follows the last newline.  A line is the sequence of  *)
(* the pieces written to it: entry e in whole, -e the beginning of e, and  *)
(* Torn, any other bytes.  Appends are numbered in the order of the calls. *)
(* Readers and the append whose turn it is interleave at each of their     *)
(* file operations: a reader may see a line that is being written.         *)
(***************************************************************************)
EXTENDS Integers, Sequences, FiniteSets

CONSTANTS
  Readers,              \* callers that can be inside readEntries
  MaxAppends,           \* bound: calls of append
  MaxWriteFailures,     \* bound: writes that reject
  MaxCrashes            \* bound: crashes of the daemon

ASSUME LedgerAssumption ==
  MaxAppends \in Nat /\ MaxWriteFailures \in Nat /\ MaxCrashes \in Nat

VARIABLES
  exists,     \* the file exists
  lines,      \* durable: its lines
  outcome,    \* how far each append that was called has come; those that have
              \* not settled are the chain of #tail
  reader,     \* where each caller of readEntries is
  awaited,    \* the appends called before its call
  returned,   \* what the read has parsed
  cut,        \* history: the entries that a truncation damaged although they were
              \* appended after its read had been called
  failures, crashes

file    == <<exists, lines>>
reading == <<reader, awaited, returned>>
vars    == <<file, outcome, reading, cut, failures, crashes>>

Torn    == 0
Entries == 1 .. MaxAppends
Pieces  == (-MaxAppends) .. MaxAppends
Called  == DOMAIN outcome
Chained == {"pending", "open", "part", "landed"}
Outcome == Chained \union {"resolved", "rejected", "lost"}
Step    == {"idle", "waiting", "truncating", "returned"}

TypeOK ==
  /\ exists \in BOOLEAN
  /\ lines \in Seq(Seq(Pieces))
  /\ outcome \in Seq(Outcome) /\ Len(outcome) <= MaxAppends
  /\ reader \in [Readers -> Step]
  /\ awaited \in [Readers -> SUBSET Entries]
  /\ returned \in [Readers -> Seq(Entries)]
  /\ cut \subseteq Entries
  /\ failures \in 0 .. MaxWriteFailures
  /\ crashes \in 0 .. MaxCrashes

Init ==
  /\ exists = FALSE
  /\ lines = <<<<>>>>
  /\ outcome = <<>>
  /\ reader = [r \in Readers |-> "idle"]
  /\ awaited = [r \in Readers |-> {}]
  /\ returned = [r \in Readers |-> <<>>]
  /\ cut = {}
  /\ failures = 0
  /\ crashes = 0

(***************************************************************************)
(* append                                                                  *)
(***************************************************************************)
(* A call of append takes its place in the chain at once.                  *)
AppendEntry ==
  /\ Len(outcome) < MaxAppends
  /\ outcome' = Append(outcome, "pending")
  /\ UNCHANGED <<file, reading, cut, failures, crashes>>

Pending == {e \in Called : outcome[e] \in Chained}

(* The file after piece p was written to its end.                          *)
Glued(p)    == [lines EXCEPT ![Len(lines)] = Append(@, p)]
EndsWith(p) == LET last == lines[Len(lines)] IN last # <<>> /\ last[Len(last)] = p

(* Mutant: the writes are not chained.                                     *)
MutantUnchained(e) == e \in Pending
(* Mutant: the chain goes on after success only.                           *)
MutantChainOfSuccesses(e) ==
  /\ e \in Pending /\ \A d \in Pending : e <= d
  /\ \A d \in 1 .. e - 1 : outcome[d] # "rejected"
(* The appends are chained, in the order of the calls.                     *)
IsNext(e) == e \in Pending /\ \A d \in Pending : e <= d

Comes(e, from, to) ==
  /\ IsNext(e)
  /\ outcome[e] = from
  /\ outcome' = [outcome EXCEPT ![e] = to]
  /\ UNCHANGED <<reading, cut, failures, crashes>>

(* mkdir, and open for appending, which creates the file.                  *)
OpenFile(e) ==
  /\ Comes(e, "pending", "open")
  /\ exists' = TRUE
  /\ UNCHANGED lines

(* writeFile: the line, or first a part of it, which may lack no more than *)
(* the newline.                                                            *)
WriteFile(e) ==
  \/ Comes(e, "open", "landed") /\ lines' = Append(Glued(e), <<>>) /\ UNCHANGED exists
  \/ Comes(e, "open", "part") /\ lines' \in {Glued(-e), Glued(e)} /\ UNCHANGED exists

(* The rest goes to the end of the file: it completes the part, if that is *)
(* still there, or lands on what a truncation has left.                    *)
Completed(e) ==
  IF EndsWith(-e)
  THEN {[lines EXCEPT ![Len(lines)] = [lines[Len(lines)] EXCEPT ![Len(lines[Len(lines)])] = e]]}
  ELSE {lines} \union IF EndsWith(e) THEN {} ELSE {Glued(Torn)}

WriteRest(e) ==
  /\ Comes(e, "part", "landed")
  /\ \E f \in Completed(e) : lines' = Append(f, <<>>)
  /\ UNCHANGED exists

(* sync and close.                                                         *)
SyncFile(e) == Comes(e, "landed", "resolved") /\ UNCHANGED file

(* Any of them rejects; the next append follows all the same.              *)
WriteFails(e) ==
  /\ IsNext(e)
  /\ failures < MaxWriteFailures
  /\ failures' = failures + 1
  /\ outcome' = [outcome EXCEPT ![e] = "rejected"]
  /\ UNCHANGED <<file, reading, cut, crashes>>

(***************************************************************************)
(* readEntries                                                             *)
(***************************************************************************)
UnderWay(r) == reader[r] \in {"waiting", "truncating"}

ReadEntries(r) ==
  /\ ~UnderWay(r)
  /\ reader' = [reader EXCEPT ![r] = "waiting"]
  /\ awaited' = [awaited EXCEPT ![r] = Called]
  /\ returned' = [returned EXCEPT ![r] = <<>>]
  /\ UNCHANGED <<file, outcome, cut, failures, crashes>>

IsTerminated == Len(lines) > 1 /\ lines[Len(lines)] = <<>>
Body == IF IsTerminated THEN SubSeq(lines, 1, Len(lines) - 1) ELSE lines

(* Mutant: what was written of an entry is taken for an entry.             *)
MutantValid(line) == Len(line) = 1
(* A line parses when it is one whole entry; a blank one never does.       *)
Valid(line) == Len(line) = 1 /\ line[1] \in Entries

(* Mutant: a bad last line is tolerated also when it is terminated.        *)
MutantToleratesAnyLast(i) == i = Len(Body) /\ Body[i] # <<>>
IsTruncatedFinal(i) == ~IsTerminated /\ i = Len(Body) /\ Body[i] # <<>>

Corrupt   == \E i \in DOMAIN Body : ~Valid(Body[i]) /\ ~IsTruncatedFinal(i)
HasTornEnd == ~Valid(Body[Len(Body)]) /\ IsTruncatedFinal(Len(Body))
Parsed     == [i \in 1 .. (IF HasTornEnd THEN Len(Body) - 1 ELSE Len(Body)) |-> Body[i][1]]

AppendsSettled(r) == awaited[r] \intersect Pending = {}

(* The file is read once the appends called before have settled, and       *)
(* parsed, or refused with an error.  Without a file there is nothing to   *)
(* return.                                                                 *)
ReadFile(r) ==
  /\ reader[r] = "waiting"
  /\ AppendsSettled(r)
  /\ \/ /\ exists /\ Corrupt
        /\ reader' = [reader EXCEPT ![r] = "idle"]
        /\ awaited' = [awaited EXCEPT ![r] = {}]
        /\ UNCHANGED returned
     \/ /\ exists /\ ~Corrupt
        /\ returned' = [returned EXCEPT ![r] = Parsed]
        /\ reader' = [reader EXCEPT ![r] = IF HasTornEnd THEN "truncating" ELSE "returned"]
        /\ UNCHANGED awaited
     \/ /\ ~exists
        /\ returned' = [returned EXCEPT ![r] = <<>>]
        /\ reader' = [reader EXCEPT ![r] = "returned"]
        /\ UNCHANGED awaited
  /\ UNCHANGED <<file, outcome, cut, failures, crashes>>

(* The first n lines are lines that r has parsed.                          *)
Known(r, n) ==
  /\ n <= Len(returned[r]) /\ n < Len(lines)
  /\ \A i \in 1 .. n : lines[i] = <<returned[r][i]>>

(* Mutant: the truncation goes back one newline too far.                   *)
MutantTruncateAt(r, n) == n + 1 = Len(returned[r]) /\ n < Len(lines)
(* The file is truncated where its last line began when it was read, after *)
(* the lines that r has parsed.                                            *)
TruncateAt(r, n) == Known(r, n) /\ \A m \in n + 1 .. Len(lines) - 1 : ~Known(r, m)

(* If another truncation has taken some of those lines meanwhile, then     *)
(* that place is anywhere after those that are left: in another line, or   *)
(* behind the end of the file, which is filled up.                         *)
Remains(r, n) ==
  IF n = Len(returned[r]) THEN {<<>>}
  ELSE LET begun == {SubSeq(lines[n + 1], 1, k) : k \in 0 .. Len(lines[n + 1])}
       IN  begun \union {Append(l, Torn) : l \in begun}

Damaged(n) ==
  {e \in Called : \E i \in n + 1 .. Len(lines) : \E j \in DOMAIN lines[i] : lines[i][j] \in {e, -e}}

Truncate(r) ==
  /\ reader[r] = "truncating"
  /\ \E n \in 0 .. Len(lines) - 1 :
       /\ TruncateAt(r, n)
       /\ \E rest \in Remains(r, n) : lines' = Append(SubSeq(lines, 1, n), rest)
       /\ cut' = cut \union (Damaged(n) \ awaited[r])
  /\ reader' = [reader EXCEPT ![r] = "returned"]
  /\ UNCHANGED <<exists, outcome, awaited, returned, failures, crashes>>

(* The daemon dies; of a line that was being written there is what landed. *)
Crash ==
  /\ crashes < MaxCrashes
  /\ crashes' = crashes + 1
  /\ outcome' = [e \in Called |-> IF e \in Pending THEN "lost" ELSE outcome[e]]
  /\ reader' = [r \in Readers |-> "idle"]
  /\ awaited' = [r \in Readers |-> {}]
  /\ returned' = [r \in Readers |-> <<>>]
  /\ UNCHANGED <<file, cut, failures>>

Settle(e) == OpenFile(e) \/ WriteFile(e) \/ WriteRest(e) \/ SyncFile(e) \/ WriteFails(e)
Read(r)   == ReadFile(r) \/ Truncate(r)

Next ==
  \/ AppendEntry
  \/ \E e \in Entries : Settle(e)
  \/ \E r \in Readers : ReadEntries(r) \/ Read(r)
  \/ Crash

Spec == Init /\ [][Next]_vars

(* Fairness: file operations complete or reject.                           *)
FairSpec ==
  /\ Spec
  /\ WF_outcome(\E e \in Entries : Settle(e))
  /\ \A r \in Readers : WF_reader(Read(r))

(***************************************************************************)
(* Properties                                                              *)
(***************************************************************************)
(* Entry e was written to a line that is terminated.                       *)
OnLine(e) == \E i \in 1 .. Len(lines) - 1 : \E j \in DOMAIN lines[i] : lines[i][j] = e

(* An entry that was reported durable stays on a line of its own or of     *)
(* others that is terminated, unless a read that was already under way     *)
(* when it was appended has cut it off with what it took for a torn end.   *)
DurableStays == \A e \in Called : outcome[e] = "resolved" => OnLine(e) \/ e \in cut

(* A read that returns has every entry whose append was called before the  *)
(* read and was reported durable, whatever was torn before or after it and *)
(* whatever is being written, except those that an earlier read cut off; a *)
(* ledger that was damaged otherwise is refused, not read in part.         *)
ReadIsComplete ==
  \A r \in Readers : reader[r] = "returned" =>
    \A e \in awaited[r] \ cut : outcome[e] = "resolved" =>
      \E i \in DOMAIN returned[r] : returned[r][i] = e

(* A read returns entries in the order of the append calls, so that the    *)
(* last one of an operation is its latest status.                          *)
ReadInOrder ==
  \A r \in Readers : \A i, j \in DOMAIN returned[r] :
    i < j => returned[r][i] < returned[r][j]

(* An append settles whether or not those before it failed.                *)
AppendSettles == \A e \in Entries : e \in Called /\ e \in Pending ~> e \in Called \ Pending

(* A read comes back, whatever is appended after it was called.            *)
ReadSettles == \A r \in Readers : UnderWay(r) ~> ~UnderWay(r)
=============================================================================
