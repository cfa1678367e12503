------------------------ MODULE OperationLedgerProofs ------------------------
(***************************************************************************)
(* Theorems about the ledger file, for any number of appends, readers,     *)
(* failing writes and crashes, whatever is appended during a read.         *)
(***************************************************************************)
EXTENDS OperationLedger, SequenceTheorems, TLAPS

File == Seq(Seq(Pieces))

(* Piece p is written on line i of file f.                                 *)
On(f, p, i) == i \in 1 .. Len(f) /\ \E j \in 1 .. Len(f[i]) : f[i][j] = p

Ascending(s) == \A i, j \in DOMAIN s : i < j => s[i] < s[j]

(***************************************************************************)
(* The inductive invariant                                                 *)
(***************************************************************************)
(* What settled was called before what is pending, of which only the first *)
(* is under way.                                                           *)
ChainState ==
  /\ \A d \in Called \ Pending, e \in Pending : d < e
  /\ \A e \in Called : outcome[e] \in {"open", "part", "landed"} => IsNext(e)

(* What is in the file of an entry comes from its write.  An entry that is *)
(* not cut off is on a terminated line once its write has landed, at the   *)
(* end of the file before; the lines follow the order of the calls.        *)
FileState ==
  /\ Len(lines) > 0
  /\ \A e \in Entries, i \in Nat :
       On(lines, e, i) \/ On(lines, -e, i) => e \in Called /\ outcome[e] \notin {"pending", "open"}
  /\ \A e \in Called :
       /\ outcome[e] \in {"open", "part", "landed", "resolved"} => exists
       /\ outcome[e] \in {"landed", "resolved"} /\ e \notin cut =>
            \E i \in 1 .. Len(lines) - 1 : On(lines, e, i)
       /\ outcome[e] = "part" =>
            /\ e \in cut \/ EndsWith(e) \/ EndsWith(-e)
            /\ \A i \in Nat : On(lines, e, i) => i = Len(lines)
  /\ \A d, e \in Entries : \A i, k \in Nat :
       On(lines, d, i) /\ On(lines, e, k) /\ i < k => d < e

(* A reader that is about to truncate knows the lines up to each durable   *)
(* entry that it waited for, and that is not cut off.                      *)
ReaderState(r) ==
  /\ awaited[r] \subseteq Called
  /\ reader[r] \in {"truncating", "returned"} =>
       /\ awaited[r] \subseteq Called \ Pending
       /\ \A e \in awaited[r] \ cut : outcome[e] = "resolved" =>
            \E n \in DOMAIN returned[r] :
              returned[r][n] = e /\ (reader[r] = "truncating" => Known(r, n))
  /\ Ascending(returned[r])

LedgerInv ==
  TypeOK /\ ChainState /\ FileState /\ \A r \in Readers : ReaderState(r)

(***************************************************************************)
(* What the operators on the file do                                       *)
(***************************************************************************)
LEMMA PieceTypes ==
  /\ Entries \subseteq Pieces /\ Torn \in Pieces /\ Entries \subseteq Nat
  /\ \A e \in Entries : -e \in Pieces /\ -e \notin Entries /\ -e # Torn /\ e # Torn
BY LedgerAssumption DEF Entries, Pieces, Torn

LEMMA LinesAreAFile ==
  ASSUME TypeOK, Len(lines) > 0
  PROVE  /\ lines \in File /\ Len(lines) \in Nat /\ Len(lines) \in 1 .. Len(lines)
         /\ DOMAIN lines = 1 .. Len(lines)
         /\ \A i \in 1 .. Len(lines) :
              /\ lines[i] \in Seq(Pieces) /\ Len(lines[i]) \in Nat
              /\ DOMAIN lines[i] = 1 .. Len(lines[i])
<1>1. lines \in File
  BY DEF TypeOK, File
<1>2. Len(lines) \in Nat /\ DOMAIN lines = 1 .. Len(lines)
  BY <1>1, LenProperties DEF File
<1>3. \A i \in 1 .. Len(lines) : lines[i] \in Seq(Pieces)
  BY <1>1, ElementOfSeq DEF File
<1> QED BY <1>1, <1>2, <1>3, LenProperties

(* File f is the file of now with another last line.                       *)
Relined(f, line) ==
  /\ f \in File /\ Len(f) = Len(lines)
  /\ \A i \in 1 .. Len(lines) : f[i] = IF i = Len(lines) THEN line ELSE lines[i]

LEMMA RelinedLemma ==
  ASSUME TypeOK, Len(lines) > 0, NEW line \in Seq(Pieces)
  PROVE  Relined([lines EXCEPT ![Len(lines)] = line], line)
<1> DEFINE S == Seq(Pieces)
<1>1. lines \in Seq(S) /\ Len(lines) \in 1 .. Len(lines)
  BY LinesAreAFile DEF File
<1> HIDE DEF S
<1>2. line \in S
  BY DEF S
<1>3. /\ [lines EXCEPT ![Len(lines)] = line] \in Seq(S)
      /\ Len([lines EXCEPT ![Len(lines)] = line]) = Len(lines)
      /\ \A i \in 1 .. Len(lines) :
           [lines EXCEPT ![Len(lines)] = line][i] = IF i = Len(lines) THEN line ELSE lines[i]
  BY <1>1, <1>2, ExceptSeq
<1> QED BY <1>3 DEF Relined, File, S

LEMMA GluedLemma ==
  ASSUME TypeOK, Len(lines) > 0, NEW p \in Pieces
  PROVE  \E line \in Seq(Pieces) :
           /\ Relined(Glued(p), line)
           /\ Len(line) = Len(lines[Len(lines)]) + 1
           /\ \A j \in 1 .. Len(lines[Len(lines)]) : line[j] = lines[Len(lines)][j]
           /\ line[Len(line)] = p
<1> DEFINE last == lines[Len(lines)]
<1>1. last \in Seq(Pieces)
  BY LinesAreAFile
<1>2. /\ Append(last, p) \in Seq(Pieces) /\ Len(Append(last, p)) = Len(last) + 1
      /\ \A j \in 1 .. Len(last) : Append(last, p)[j] = last[j]
      /\ Append(last, p)[Len(last) + 1] = p
  BY <1>1, AppendProperties
<1>3. Relined(Glued(p), Append(last, p))
  BY <1>2, RelinedLemma DEF Glued
<1> QED BY <1>2, <1>3

(* The line under way, and the blank one after it if it is terminated.     *)
LEMMA BlankLemma ==
  ASSUME NEW f \in File
  PROVE  /\ Append(f, <<>>) \in File
         /\ Len(Append(f, <<>>)) = Len(f) + 1
         /\ \A i \in 1 .. Len(f) : Append(f, <<>>)[i] = f[i]
         /\ \A p \in Pieces, i \in Nat : On(Append(f, <<>>), p, i) <=> On(f, p, i)
<1> DEFINE S == Seq(Pieces)
<1>1. <<>> \in S /\ Len(<<>>) = 0
  BY EmptySeq
<1> HIDE DEF S
<1>2. f \in Seq(S)
  BY DEF S, File
<1>3. /\ Append(f, <<>>) \in Seq(S)
      /\ Len(Append(f, <<>>)) = Len(f) + 1
      /\ \A i \in 1 .. Len(f) : Append(f, <<>>)[i] = f[i]
      /\ Append(f, <<>>)[Len(f) + 1] = <<>>
      /\ Len(f) \in Nat
  BY <1>1, <1>2, AppendProperties, LenProperties
<1>4. ASSUME NEW p \in Pieces, NEW i \in Nat
      PROVE  On(Append(f, <<>>), p, i) <=> On(f, p, i)
  <2>1. CASE i \in 1 .. Len(f)
    BY <2>1, <1>3 DEF On
  <2>2. CASE i = Len(f) + 1
    BY <2>2, <1>1, <1>3 DEF On
  <2>3. CASE i \notin 1 .. Len(f) + 1
    BY <2>3, <1>3 DEF On
  <2> QED BY <2>1, <2>2, <2>3, <1>3
<1> QED BY <1>3, <1>4 DEF S, File

(* What a write of e does to the file.                                     *)
Extended(e) ==
  /\ lines' \in File
  /\ Len(lines') \in {Len(lines), Len(lines) + 1}
  /\ \A i \in 1 .. Len(lines) - 1 : lines'[i] = lines[i]
  /\ \A p \in Pieces \ {Torn}, i \in Nat :
       On(lines', p, i) => On(lines, p, i) \/ (p \in {e, -e} /\ i = Len(lines))

LEMMA RelinedIsExtended ==
  ASSUME TypeOK, Len(lines) > 0, NEW e \in Entries, NEW f, NEW line \in Seq(Pieces),
         Relined(f, line), lines' \in {f, Append(f, <<>>)},
         \A j \in 1 .. Len(line) :
           \/ line[j] \in {e, -e, Torn}
           \/ j \in 1 .. Len(lines[Len(lines)]) /\ line[j] = lines[Len(lines)][j]
  PROVE  /\ Extended(e)
         /\ \A p \in Pieces : \A j \in 1 .. Len(line) : line[j] = p => On(lines', p, Len(lines))
<1>0. Len(lines) \in Nat \ {0} /\ f \in File /\ Len(f) = Len(lines)
  BY LinesAreAFile DEF Relined
<1>1. /\ lines' \in File /\ Len(lines') \in {Len(lines), Len(lines) + 1}
      /\ \A i \in 1 .. Len(lines) : lines'[i] = f[i]
      /\ \A p \in Pieces, i \in Nat : On(lines', p, i) <=> On(f, p, i)
  <2>1. CASE lines' = f
    BY <2>1, <1>0
  <2>2. CASE lines' = Append(f, <<>>)
    BY <2>2, <1>0, BlankLemma
  <2> QED BY <2>1, <2>2
<1>2. ASSUME NEW p \in Pieces \ {Torn}, NEW i \in Nat, On(f, p, i)
      PROVE  On(lines, p, i) \/ (p \in {e, -e} /\ i = Len(lines))
  <2>1. CASE i = Len(lines)
    <3>1. PICK j \in 1 .. Len(line) : line[j] = p
      BY <1>2, <2>1, <1>0 DEF On, Relined
    <3> QED BY <2>1, <3>1, <1>0 DEF On
  <2>2. CASE i # Len(lines)
    BY <1>2, <2>2, <1>0 DEF On, Relined
  <2> QED BY <2>1, <2>2
<1>3. ASSUME NEW p \in Pieces, NEW j \in 1 .. Len(line), line[j] = p
      PROVE  On(f, p, Len(lines))
  BY <1>3, <1>0 DEF On, Relined
<1>4. \A i \in 1 .. Len(lines) - 1 : lines'[i] = lines[i]
  BY <1>0, <1>1 DEF Relined
<1> QED BY <1>0, <1>1, <1>2, <1>3, <1>4 DEF Extended

(***************************************************************************)
(* Steps                                                                   *)
(***************************************************************************)
LEMMA CalledType ==
  TypeOK => /\ Len(outcome) \in Nat /\ Called = 1 .. Len(outcome)
            /\ Called \subseteq Entries
            /\ \A e \in Called : outcome[e] \in Outcome
<1> SUFFICES ASSUME TypeOK
             PROVE  /\ Len(outcome) \in Nat /\ Called = 1 .. Len(outcome)
                    /\ Called \subseteq Entries
                    /\ \A e \in Called : outcome[e] \in Outcome
  OBVIOUS
<1>1. outcome \in Seq(Outcome) /\ Len(outcome) <= MaxAppends
  BY DEF TypeOK
<1>2. Len(outcome) \in Nat /\ Called = 1 .. Len(outcome)
  BY <1>1, LenProperties DEF Called
<1>3. Called \subseteq Entries
  BY <1>1, <1>2, LedgerAssumption DEF Entries
<1>4. \A e \in Called : outcome[e] \in Outcome
  BY <1>1, <1>2, ElementOfSeq
<1> QED BY <1>2, <1>3, <1>4

LEMMA OutcomeLemma ==
  ASSUME TypeOK, NEW e \in Called, NEW v \in Outcome,
         outcome' = [outcome EXCEPT ![e] = v]
  PROVE  /\ outcome' \in Seq(Outcome) /\ Len(outcome') = Len(outcome)
         /\ Called' = Called
         /\ outcome'[e] = v
         /\ \A d \in Called \ {e} : outcome'[d] = outcome[d]
<1>1. outcome \in Seq(Outcome) /\ e \in 1 .. Len(outcome)
  BY CalledType DEF TypeOK
<1>2. /\ outcome' \in Seq(Outcome) /\ Len(outcome') = Len(outcome)
      /\ \A d \in 1 .. Len(outcome) : outcome'[d] = IF d = e THEN v ELSE outcome[d]
  BY <1>1, ExceptSeq
<1>3. Called' = Called /\ Called = 1 .. Len(outcome)
  BY <1>1, <1>2, LenProperties DEF Called
<1> QED BY <1>2, <1>3

LEMMA InitHolds == Init => LedgerInv
<1> SUFFICES ASSUME Init PROVE LedgerInv
  OBVIOUS
<1>1. /\ lines = <<<<>>>> /\ Len(lines) = 1 /\ Len(lines[1]) = 0
      /\ lines \in Seq(Seq(Pieces))
  BY EmptySeq DEF Init
<1>2. /\ outcome = <<>> /\ outcome \in Seq(Outcome) /\ Called = {} /\ Len(outcome) = 0
      /\ \A r \in Readers : returned[r] = <<>> /\ DOMAIN returned[r] = {}
      /\ returned \in [Readers -> Seq(Entries)]
  BY EmptySeq DEF Init, Called
<1>3. TypeOK
  <2>1. /\ exists \in BOOLEAN /\ cut \subseteq Entries
        /\ reader \in [Readers -> Step]
        /\ awaited \in [Readers -> SUBSET Entries]
    BY DEF Init, Step
  <2>2. failures \in 0 .. MaxWriteFailures /\ crashes \in 0 .. MaxCrashes
    BY LedgerAssumption DEF Init
  <2> QED BY <1>1, <1>2, <2>1, <2>2, LedgerAssumption DEF TypeOK
<1>4. \A p, i : ~On(lines, p, i)
  BY <1>1 DEF On
<1>5. ChainState /\ FileState
  BY <1>1, <1>2, <1>4 DEF ChainState, FileState, Pending
<1>6. \A r \in Readers : ReaderState(r)
  BY <1>2 DEF Init, ReaderState, Ascending
<1> QED BY <1>3, <1>5, <1>6 DEF LedgerInv

(* What a read knows stays true while the lines before the last one stay.  *)
LEMMA ReadersKeep ==
  ASSUME LedgerInv, UNCHANGED <<reading, cut>>, Called \subseteq Called',
         \A e \in Called \ Pending : e \notin Pending' /\ outcome'[e] = outcome[e],
         Len(lines') \in Nat, Len(lines') >= Len(lines),
         \A i \in 1 .. Len(lines) - 1 : lines'[i] = lines[i]
  PROVE  \A r \in Readers : ReaderState(r)'
<1> SUFFICES ASSUME NEW r \in Readers PROVE ReaderState(r)'
  OBVIOUS
<1>0. ReaderState(r) /\ UNCHANGED <<reader, awaited, returned, cut>> /\ Len(lines) \in Nat
      /\ returned[r] \in Seq(Entries)
  BY LinesAreAFile DEF LedgerInv, reading, FileState, TypeOK
<1>1. \A n \in DOMAIN returned[r] : Known(r, n) => Known(r, n)'
  <2>1. DOMAIN returned[r] = 1 .. Len(returned[r]) /\ Len(returned[r]) \in Nat
    BY <1>0, LenProperties
  <2> QED BY <1>0, <2>1 DEF Known
<1>2. ASSUME reader[r] \in {"truncating", "returned"}
      PROVE  /\ awaited[r] \subseteq (Called \ Pending)'
             /\ \A e \in awaited[r] \ cut : outcome'[e] = "resolved" =>
                  \E n \in DOMAIN returned[r] :
                    returned[r][n] = e /\ (reader[r] = "truncating" => Known(r, n)')
  <2>1. awaited[r] \subseteq Called \ Pending
    BY <1>0, <1>2 DEF ReaderState
  <2>2. awaited[r] \subseteq (Called \ Pending)'
    BY <2>1
  <2>3. ASSUME NEW e \in awaited[r] \ cut, outcome'[e] = "resolved"
        PROVE  \E n \in DOMAIN returned[r] :
                 returned[r][n] = e /\ (reader[r] = "truncating" => Known(r, n)')
    <3>1. outcome[e] = "resolved"
      BY <2>1, <2>3
    <3> QED BY <1>0, <1>1, <1>2, <3>1 DEF ReaderState
  <2> QED BY <2>2, <2>3
<1>3. Ascending(returned[r])' /\ awaited'[r] \subseteq Called'
  BY <1>0 DEF ReaderState, Ascending
<1> QED BY <1>0, <1>2, <1>3 DEF ReaderState

(* The chain goes on when the first of it takes a step.                    *)
LEMMA ChainKeeps ==
  ASSUME LedgerInv, NEW e \in Entries, IsNext(e), NEW v \in Outcome \ {"pending"},
         outcome' = [outcome EXCEPT ![e] = v]
  PROVE  /\ outcome' \in Seq(Outcome) /\ Len(outcome') = Len(outcome)
         /\ Called' = Called /\ e \in Called
         /\ outcome'[e] = v
         /\ \A d \in Called \ {e} : outcome'[d] = outcome[d]
         /\ \A d \in Called \ Pending : d \notin Pending' /\ outcome'[d] = outcome[d]
         /\ \A d \in Called \ {e} : outcome[d] \notin {"open", "part", "landed"}
         /\ \A d \in Called : d # e /\ d \notin Pending => d < e
         /\ ChainState'
<1>0. /\ TypeOK /\ e \in Called /\ e \in Pending /\ Called \subseteq Nat /\ Called \subseteq Entries
      /\ \A d \in Pending : e <= d
  BY CalledType, PieceTypes DEF LedgerInv, IsNext, Pending
<1>1. /\ outcome' \in Seq(Outcome) /\ Len(outcome') = Len(outcome)
      /\ Called' = Called
      /\ outcome'[e] = v
      /\ \A d \in Called \ {e} : outcome'[d] = outcome[d]
  BY <1>0, OutcomeLemma
<1>2. Pending' = IF v \in Chained THEN Pending ELSE Pending \ {e}
  BY <1>0, <1>1 DEF Pending
<1>3. \A d \in Called \ {e} : outcome[d] \notin {"open", "part", "landed"}
  <2> SUFFICES ASSUME NEW d \in Called \ {e}, outcome[d] \in {"open", "part", "landed"}
               PROVE  FALSE
    OBVIOUS
  <2>1. IsNext(d)
    BY DEF LedgerInv, ChainState
  <2>2. d <= e /\ e <= d
    BY <2>1, <1>0 DEF IsNext
  <2> QED BY <2>2, <1>0
<1>4. \A d \in Called : d # e /\ d \notin Pending => d < e
  BY <1>0 DEF LedgerInv, ChainState
<1>5. \A d \in (Called \ Pending)', c \in Pending' : d < c
  <2> SUFFICES ASSUME NEW d \in (Called \ Pending)', NEW c \in Pending' PROVE d < c
    OBVIOUS
  <2>1. c \in Pending /\ e <= c
    BY <1>0, <1>2
  <2>2. CASE d = e
    BY <2>1, <2>2, <1>0, <1>2
  <2>3. CASE d # e
    BY <2>1, <2>3, <1>1, <1>2 DEF LedgerInv, ChainState
  <2> QED BY <2>2, <2>3
<1>6. ASSUME NEW d \in Called', outcome'[d] \in {"open", "part", "landed"} PROVE IsNext(d)'
  <2>1. d = e
    BY <1>1, <1>3, <1>6
  <2>2. v \in Chained
    BY <1>1, <1>6, <2>1 DEF Chained
  <2> QED BY <2>1, <2>2, <1>0, <1>2 DEF IsNext
<1>7. \A d \in Called \ Pending : d \notin Pending' /\ outcome'[d] = outcome[d]
  BY <1>0, <1>1, <1>2
<1> QED BY <1>0, <1>1, <1>3, <1>4, <1>5, <1>6, <1>7 DEF ChainState

(* The file after a step of the append whose turn it is.                   *)
LEMMA ExtendedFile ==
  ASSUME LedgerInv, NEW e \in Entries, IsNext(e), NEW v \in Outcome \ {"pending"},
         outcome' = [outcome EXCEPT ![e] = v],
         UNCHANGED cut, exists' \in BOOLEAN, exists => exists',
         v # "rejected" => exists',
         \/ UNCHANGED lines
         \/ /\ Extended(e) /\ v # "open"
            /\ \A i \in Nat : On(lines, e, i) => i = Len(lines),
         v \in {"landed", "resolved"} /\ e \notin cut =>
           \E i \in 1 .. Len(lines') - 1 : On(lines', e, i),
         v = "part" => /\ e \in cut \/ EndsWith(e)' \/ EndsWith(-e)'
                       /\ \A i \in Nat : On(lines', e, i) => i = Len(lines'),
         v = "open" => outcome[e] = "pending"
  PROVE  /\ FileState' /\ lines' \in File
         /\ Len(lines') \in Nat /\ Len(lines') >= Len(lines)
         /\ \A i \in 1 .. Len(lines) - 1 : lines'[i] = lines[i]
<1>0. /\ TypeOK /\ Len(lines) \in Nat \ {0} /\ lines \in File /\ Called \subseteq Entries
      /\ \A d \in Called : outcome[d] \in Outcome
  <2>1. TypeOK /\ Len(lines) > 0
    BY DEF LedgerInv, FileState
  <2>2. lines \in File /\ Len(lines) \in Nat
    BY <2>1, LinesAreAFile
  <2> QED BY <2>1, <2>2, CalledType
<1>1. /\ Called' = Called /\ e \in Called
      /\ outcome'[e] = v
      /\ \A d \in Called \ {e} : outcome'[d] = outcome[d]
      /\ \A d \in Called \ {e} : outcome[d] \notin {"open", "part", "landed"}
      /\ \A d \in Called : d # e /\ d \notin Pending => d < e
  BY ChainKeeps
<1>2. /\ lines' \in File /\ Len(lines') \in {Len(lines), Len(lines) + 1}
      /\ \A i \in 1 .. Len(lines) - 1 : lines'[i] = lines[i]
      /\ \A p \in Pieces \ {Torn}, i \in Nat :
           On(lines', p, i) => On(lines, p, i) \/ (lines' # lines /\ p \in {e, -e} /\ i = Len(lines))
  BY <1>0 DEF Extended
<1>3. Len(lines') \in Nat /\ Len(lines') > 0 /\ Len(lines') >= Len(lines)
  BY <1>0, <1>2
<1>4. ASSUME NEW d \in Entries, NEW i \in Nat, On(lines', d, i) \/ On(lines', -d, i)
      PROVE  d \in Called' /\ outcome'[d] \notin {"pending", "open"}
  <2>1. d \in Pieces \ {Torn} /\ -d \in Pieces \ {Torn} /\ e \in Nat /\ d \in Nat /\ d # -e
    BY PieceTypes, <1>0, <1>1
  <2>2. CASE On(lines, d, i) \/ On(lines, -d, i)
    <3>1. d \in Called /\ outcome[d] \notin {"pending", "open"}
      BY <2>2 DEF LedgerInv, FileState
    <3> QED BY <3>1, <1>1
  <2>3. CASE lines' # lines /\ (d \in {e, -e} \/ -d \in {e, -e})
    <3>1. d = e
      BY <2>1, <2>3
    <3> QED BY <2>3, <3>1, <1>1
  <2> QED BY <1>4, <1>2, <2>1, <2>2, <2>3
<1>5. ASSUME NEW d \in Called'
      PROVE  /\ outcome'[d] \in {"open", "part", "landed", "resolved"} => exists'
             /\ outcome'[d] \in {"landed", "resolved"} /\ d \notin cut' =>
                  \E i \in 1 .. Len(lines') - 1 : On(lines', d, i)
             /\ outcome'[d] = "part" =>
                  /\ d \in cut' \/ EndsWith(d)' \/ EndsWith(-d)'
                  /\ \A i \in Nat : On(lines', d, i) => i = Len(lines')
  <2>1. CASE d = e
    BY <2>1, <1>1
  <2>2. CASE d # e
    <3>1. d \in Called /\ outcome'[d] = outcome[d] /\ outcome[d] \notin {"open", "part", "landed"}
      BY <2>2, <1>1
    <3>2. ASSUME outcome[d] = "resolved", d \notin cut
          PROVE  \E i \in 1 .. Len(lines') - 1 : On(lines', d, i)
      <4>1. PICK i \in 1 .. Len(lines) - 1 : On(lines, d, i)
        BY <3>1, <3>2 DEF LedgerInv, FileState
      <4>2. lines'[i] = lines[i] /\ i \in 1 .. Len(lines') - 1 /\ i \in 1 .. Len(lines')
        BY <1>0, <1>2, <1>3
      <4> QED BY <4>1, <4>2 DEF On
    <3>3. outcome[d] = "resolved" => exists
      BY <3>1 DEF LedgerInv, FileState
    <3> QED BY <3>1, <3>2, <3>3
  <2> QED BY <2>1, <2>2
<1>6. ASSUME NEW d \in Entries, NEW c \in Entries, NEW i \in Nat, NEW k \in Nat,
             On(lines', d, i), On(lines', c, k), i < k
      PROVE  d < c
  <2>1. \A b, j : On(lines, b, j) => j \in 1 .. Len(lines)
    BY DEF On
  <2>2. d \in Pieces \ {Torn} /\ c \in Pieces \ {Torn} /\ d # -e /\ c # -e
    BY PieceTypes
  <2>3. On(lines, d, i) \/ (lines' # lines /\ d = e /\ i = Len(lines))
    BY <1>2, <1>6, <2>2
  <2>4. On(lines, c, k) \/ (lines' # lines /\ c = e /\ k = Len(lines))
    BY <1>2, <1>6, <2>2
  <2>5. CASE On(lines, d, i) /\ On(lines, c, k)
    BY <2>5, <1>6 DEF LedgerInv, FileState
  <2>6. CASE On(lines, d, i) /\ lines' # lines /\ c = e /\ k = Len(lines)
    <3>1. d \in Called /\ outcome[d] \notin {"pending", "open"}
      BY <2>6 DEF LedgerInv, FileState
    <3>2. d # e
      BY <2>6, <1>6
    <3>3. d \notin Pending
      BY <3>1, <3>2, <1>1 DEF Pending, Chained
    <3> QED BY <3>1, <3>2, <3>3, <2>6, <1>1
  <2>7. CASE d = e /\ i = Len(lines) /\ On(lines, c, k)
    BY <2>1, <2>7, <1>6, <1>0
  <2> QED BY <2>3, <2>4, <2>5, <2>6, <2>7, <1>6, <1>0
<1>7. FileState'
  BY <1>3, <1>4, <1>5, <1>6 DEF FileState
<1> QED BY <1>2, <1>3, <1>7

LEMMA OpenFileStep ==
  ASSUME LedgerInv, NEW e \in Entries, OpenFile(e)
  PROVE  LedgerInv'
<1>0. /\ TypeOK /\ IsNext(e) /\ outcome[e] = "pending"
      /\ outcome' = [outcome EXCEPT ![e] = "open"]
      /\ exists' = TRUE
      /\ UNCHANGED <<lines, reading, cut, failures, crashes>>
      /\ "open" \in Outcome \ {"pending"}
  BY DEF LedgerInv, OpenFile, Comes, Outcome, Chained
<1>1. /\ FileState' /\ lines' \in File
      /\ Len(lines') \in Nat /\ Len(lines') >= Len(lines)
      /\ \A i \in 1 .. Len(lines) - 1 : lines'[i] = lines[i]
  BY <1>0, ExtendedFile
<1>2. /\ outcome' \in Seq(Outcome) /\ Len(outcome') = Len(outcome)
      /\ Called' = Called
      /\ \A d \in Called \ Pending : d \notin Pending' /\ outcome'[d] = outcome[d]
      /\ ChainState'
  BY <1>0, ChainKeeps
<1>3. \A r \in Readers : ReaderState(r)'
  BY <1>0, <1>1, <1>2, ReadersKeep
<1>4. TypeOK'
  BY <1>0, <1>1, <1>2 DEF TypeOK, reading
<1> QED BY <1>1, <1>2, <1>3, <1>4 DEF LedgerInv

LEMMA SyncFileStep ==
  ASSUME LedgerInv, NEW e \in Entries, SyncFile(e)
  PROVE  LedgerInv'
<1>0. /\ TypeOK /\ IsNext(e) /\ outcome[e] = "landed" /\ e \in Called
      /\ outcome' = [outcome EXCEPT ![e] = "resolved"]
      /\ UNCHANGED <<exists, lines, reading, cut, failures, crashes>>
      /\ "resolved" \in Outcome \ {"pending"}
  BY DEF LedgerInv, SyncFile, Comes, Outcome, Chained, file, IsNext, Pending
<1>1. /\ exists /\ exists' \in BOOLEAN
      /\ e \notin cut => \E i \in 1 .. Len(lines) - 1 : On(lines, e, i)
  BY <1>0 DEF LedgerInv, FileState, TypeOK
<1>2. /\ FileState' /\ lines' \in File
      /\ Len(lines') \in Nat /\ Len(lines') >= Len(lines)
      /\ \A i \in 1 .. Len(lines) - 1 : lines'[i] = lines[i]
  BY <1>0, <1>1, ExtendedFile
<1>3. /\ outcome' \in Seq(Outcome) /\ Len(outcome') = Len(outcome)
      /\ Called' = Called
      /\ \A d \in Called \ Pending : d \notin Pending' /\ outcome'[d] = outcome[d]
      /\ ChainState'
  BY <1>0, ChainKeeps
<1>4. \A r \in Readers : ReaderState(r)'
  BY <1>0, <1>2, <1>3, ReadersKeep
<1>5. TypeOK'
  BY <1>0, <1>3 DEF TypeOK, reading
<1> QED BY <1>2, <1>3, <1>4, <1>5 DEF LedgerInv

LEMMA WriteFailsStep ==
  ASSUME LedgerInv, NEW e \in Entries, WriteFails(e)
  PROVE  LedgerInv'
<1>0. /\ TypeOK /\ IsNext(e) /\ exists' \in BOOLEAN
      /\ outcome' = [outcome EXCEPT ![e] = "rejected"]
      /\ UNCHANGED <<exists, lines, reading, cut, crashes>>
      /\ "rejected" \in Outcome \ {"pending"}
      /\ failures \in Nat /\ failures < MaxWriteFailures /\ failures' = failures + 1
  BY DEF LedgerInv, WriteFails, Outcome, Chained, file, TypeOK
<1>1. failures' \in 0 .. MaxWriteFailures
  BY <1>0, LedgerAssumption
<1>2. /\ FileState' /\ lines' \in File
      /\ Len(lines') \in Nat /\ Len(lines') >= Len(lines)
      /\ \A i \in 1 .. Len(lines) - 1 : lines'[i] = lines[i]
  BY <1>0, ExtendedFile
<1>3. /\ outcome' \in Seq(Outcome) /\ Len(outcome') = Len(outcome)
      /\ Called' = Called
      /\ \A d \in Called \ Pending : d \notin Pending' /\ outcome'[d] = outcome[d]
      /\ ChainState'
  BY <1>0, ChainKeeps
<1>4. \A r \in Readers : ReaderState(r)'
  BY <1>0, <1>2, <1>3, ReadersKeep
<1>5. TypeOK'
  BY <1>0, <1>1, <1>3 DEF TypeOK, reading
<1> QED BY <1>2, <1>3, <1>4, <1>5 DEF LedgerInv

(* What was written of an entry ends the file, or was cut off.             *)
LEMMA WriteFileStep ==
  ASSUME LedgerInv, NEW e \in Entries, WriteFile(e)
  PROVE  LedgerInv'
<1>0. /\ TypeOK /\ Len(lines) > 0 /\ IsNext(e) /\ e \in Called
      /\ outcome[e] = "open" /\ exists
      /\ UNCHANGED <<exists, reading, cut, failures, crashes>>
      /\ \A i \in Nat : ~On(lines, e, i)
  <2>1. IsNext(e) /\ outcome[e] = "open" /\ UNCHANGED <<exists, reading, cut, failures, crashes>>
    BY DEF WriteFile, Comes
  <2>2. e \in Called /\ TypeOK /\ Len(lines) > 0
    BY <2>1 DEF IsNext, Pending, LedgerInv, FileState
  <2> QED BY <2>1, <2>2 DEF LedgerInv, FileState
<1>1. /\ lines \in File /\ Len(lines) \in Nat /\ Len(lines) \in 1 .. Len(lines)
      /\ lines[Len(lines)] \in Seq(Pieces) /\ Len(lines[Len(lines)]) \in Nat
      /\ e \in Pieces /\ -e \in Pieces /\ e # -e
  BY <1>0, LinesAreAFile, PieceTypes
<1>2. PICK v \in {"landed", "part"} :
        /\ outcome' = [outcome EXCEPT ![e] = v]
        /\ v = "landed" => lines' = Append(Glued(e), <<>>)
        /\ v = "part" => lines' = Glued(-e) \/ lines' = Glued(e)
  BY DEF WriteFile, Comes
<1>3. PICK p \in {e, -e} :
        /\ v = "landed" => p = e /\ lines' = Append(Glued(e), <<>>)
        /\ v = "part" => lines' = Glued(p)
  BY <1>2
<1>4. PICK line \in Seq(Pieces) :
        /\ Relined(Glued(p), line)
        /\ Len(line) = Len(lines[Len(lines)]) + 1
        /\ \A j \in 1 .. Len(lines[Len(lines)]) : line[j] = lines[Len(lines)][j]
        /\ line[Len(line)] = p
  BY <1>0, <1>1, GluedLemma
<1>5. lines' \in {Glued(p), Append(Glued(p), <<>>)}
  BY <1>3
<1>6. \A j \in 1 .. Len(line) : line[j] \in {e, -e, Torn}
         \/ (j \in 1 .. Len(lines[Len(lines)]) /\ line[j] = lines[Len(lines)][j])
  <2> DEFINE m == Len(lines[Len(lines)])
  <2>1. \A j \in 1 .. m + 1 : j \in 1 .. m \/ j = m + 1
    BY <1>1
  <2>2. m + 1 = Len(line)
    BY <1>4
  <2> HIDE DEF m
  <2>3. \A j \in 1 .. Len(line) : j \in 1 .. m \/ line[j] = p
    BY <2>1, <2>2, <1>4
  <2>4. \A j \in 1 .. m : line[j] = lines[Len(lines)][j]
    BY <1>4 DEF m
  <2> QED BY <1>3, <2>3, <2>4 DEF m
<1>7. Extended(e) /\ On(lines', p, Len(lines))
  <2>1. Len(line) \in 1 .. Len(line)
    BY <1>1, <1>4
  <2> QED BY <1>0, <1>1, <1>4, <1>5, <1>6, <2>1, RelinedIsExtended
<1>8. v = "landed" => \E i \in 1 .. Len(lines') - 1 : On(lines', e, i)
  <2>1. ASSUME v = "landed" PROVE Len(lines') = Len(lines) + 1
    BY <2>1, <1>1, <1>3, <1>4, BlankLemma DEF Relined
  <2> QED BY <2>1, <1>1, <1>3, <1>7
<1>9. ASSUME v = "part"
      PROVE  /\ EndsWith(e)' \/ EndsWith(-e)'
             /\ \A i \in Nat : On(lines', e, i) => i = Len(lines')
  <2>1. Len(lines') = Len(lines) /\ lines'[Len(lines)] = line /\ line # <<>>
    BY <1>1, <1>3, <1>4, <1>9, EmptySeq DEF Relined
  <2>2. EndsWith(e)' \/ EndsWith(-e)'
    BY <2>1, <1>4 DEF EndsWith
  <2>3. \A i \in Nat : On(lines', e, i) => i = Len(lines)
    BY <1>0, <1>1, <1>7, PieceTypes DEF Extended
  <2> QED BY <2>1, <2>2, <2>3
<1>10. v \in Outcome \ {"pending"} /\ v # "open" /\ v # "resolved"
  BY DEF Outcome, Chained
<1>11. exists' /\ exists' \in BOOLEAN
  BY <1>0 DEF TypeOK
<1>12. /\ FileState' /\ lines' \in File
       /\ Len(lines') \in Nat /\ Len(lines') >= Len(lines)
       /\ \A i \in 1 .. Len(lines) - 1 : lines'[i] = lines[i]
  BY <1>0, <1>2, <1>7, <1>8, <1>9, <1>10, <1>11, ExtendedFile
<1>13. /\ outcome' \in Seq(Outcome) /\ Len(outcome') = Len(outcome)
       /\ Called' = Called
       /\ \A d \in Called \ Pending : d \notin Pending' /\ outcome'[d] = outcome[d]
       /\ ChainState'
  BY <1>0, <1>2, <1>10, ChainKeeps
<1>14. \A r \in Readers : ReaderState(r)'
  BY <1>0, <1>12, <1>13, ReadersKeep
<1>15. TypeOK'
  BY <1>0, <1>12, <1>13 DEF TypeOK, reading, File
<1> QED BY <1>12, <1>13, <1>14, <1>15 DEF LedgerInv

LEMMA CompletedLemma ==
  ASSUME TypeOK, Len(lines) > 0, NEW e \in Entries, NEW f \in Completed(e),
         lines' = Append(f, <<>>)
  PROVE  /\ Extended(e) /\ Len(lines') = Len(lines) + 1
         /\ EndsWith(e) \/ EndsWith(-e) => On(lines', e, Len(lines))
<1> DEFINE last == lines[Len(lines)]
<1>0. /\ lines \in File /\ Len(lines) \in Nat /\ Len(lines) \in 1 .. Len(lines)
      /\ last \in Seq(Pieces) /\ Len(last) \in Nat
      /\ e \in Pieces /\ -e \in Pieces /\ Torn \in Pieces
  BY LinesAreAFile, PieceTypes
<1>1. \E line \in Seq(Pieces) :
        /\ Relined(f, line)
        /\ \A j \in 1 .. Len(line) :
             line[j] \in {e, -e, Torn} \/ (j \in 1 .. Len(last) /\ line[j] = last[j])
        /\ EndsWith(e) \/ EndsWith(-e) => \E j \in 1 .. Len(line) : line[j] = e
  <2>1. CASE EndsWith(-e)
    <3> DEFINE line == [last EXCEPT ![Len(last)] = e]
    <3>1. last # <<>> /\ f = [lines EXCEPT ![Len(lines)] = line]
      BY <2>1 DEF EndsWith, Completed
    <3>2. Len(last) \in 1 .. Len(last)
      BY <1>0, <3>1, EmptySeq
    <3>3. /\ line \in Seq(Pieces) /\ Len(line) = Len(last)
          /\ \A j \in 1 .. Len(last) : line[j] = IF j = Len(last) THEN e ELSE last[j]
      BY <1>0, <3>2, ExceptSeq
    <3>4. Relined(f, line)
      BY <3>1, <3>3, RelinedLemma
    <3> HIDE DEF line, last
    <3>5. \A j \in 1 .. Len(line) : line[j] = e \/ (j \in 1 .. Len(last) /\ line[j] = last[j])
      BY <3>3
    <3>6. Len(last) \in 1 .. Len(line) /\ line[Len(last)] = e
      BY <3>2, <3>3
    <3> QED BY <3>3, <3>4, <3>5, <3>6 DEF last
  <2>2. CASE ~EndsWith(-e) /\ f = lines
    <3>1. Relined(f, last)
      BY <2>2, <1>0 DEF Relined
    <3>2. EndsWith(e) => Len(last) \in 1 .. Len(last) /\ last[Len(last)] = e
      BY <1>0, EmptySeq DEF EndsWith
    <3> QED BY <1>0, <2>2, <3>1, <3>2
  <2>3. CASE ~EndsWith(-e) /\ ~EndsWith(e) /\ f = Glued(Torn)
    <3>1. PICK line \in Seq(Pieces) :
            /\ Relined(Glued(Torn), line)
            /\ Len(line) = Len(last) + 1
            /\ \A j \in 1 .. Len(last) : line[j] = last[j]
            /\ line[Len(line)] = Torn
      BY <1>0, GluedLemma
    <3>2. \A j \in 1 .. Len(line) : line[j] \in {e, -e, Torn} \/ (j \in 1 .. Len(last) /\ line[j] = last[j])
      <4> HIDE DEF last
      <4>1. \A j \in 1 .. Len(last) + 1 : j \in 1 .. Len(last) \/ j = Len(last) + 1
        BY <1>0
      <4> QED BY <3>1, <4>1
    <3> QED BY <2>3, <3>1, <3>2
  <2> QED BY <2>1, <2>2, <2>3 DEF Completed
<1>2. PICK line \in Seq(Pieces) :
        /\ Relined(f, line)
        /\ \A j \in 1 .. Len(line) :
             line[j] \in {e, -e, Torn} \/ (j \in 1 .. Len(last) /\ line[j] = last[j])
        /\ EndsWith(e) \/ EndsWith(-e) => \E j \in 1 .. Len(line) : line[j] = e
  BY <1>1
<1>3. /\ Extended(e)
      /\ \A p \in Pieces : \A j \in 1 .. Len(line) : line[j] = p => On(lines', p, Len(lines))
  BY <1>2, RelinedIsExtended
<1>4. Len(lines') = Len(lines) + 1
  BY <1>0, <1>2, BlankLemma DEF Relined
<1> QED BY <1>0, <1>2, <1>3, <1>4

LEMMA WriteRestStep ==
  ASSUME LedgerInv, NEW e \in Entries, WriteRest(e)
  PROVE  LedgerInv'
<1>0. /\ TypeOK /\ Len(lines) > 0 /\ IsNext(e) /\ e \in Called
      /\ outcome[e] = "part" /\ outcome' = [outcome EXCEPT ![e] = "landed"]
      /\ UNCHANGED <<exists, reading, cut, failures, crashes>>
      /\ "landed" \in Outcome \ {"pending"}
  BY DEF WriteRest, Comes, IsNext, Pending, LedgerInv, FileState, Outcome, Chained
<1>1. /\ exists /\ exists' /\ exists' \in BOOLEAN
      /\ e \in cut \/ EndsWith(e) \/ EndsWith(-e)
      /\ \A i \in Nat : On(lines, e, i) => i = Len(lines)
  BY <1>0 DEF LedgerInv, FileState, TypeOK
<1>2. PICK f \in Completed(e) : lines' = Append(f, <<>>)
  BY DEF WriteRest
<1>3. /\ Extended(e) /\ Len(lines') = Len(lines) + 1
      /\ EndsWith(e) \/ EndsWith(-e) => On(lines', e, Len(lines))
  BY <1>0, <1>2, CompletedLemma
<1>4. e \notin cut => \E i \in 1 .. Len(lines') - 1 : On(lines', e, i)
  <2>1. Len(lines) \in 1 .. Len(lines') - 1
    BY <1>0, <1>3, LinesAreAFile
  <2> QED BY <1>1, <1>3, <2>1
<1>5. /\ FileState' /\ lines' \in File
      /\ Len(lines') \in Nat /\ Len(lines') >= Len(lines)
      /\ \A i \in 1 .. Len(lines) - 1 : lines'[i] = lines[i]
  BY <1>0, <1>1, <1>3, <1>4, ExtendedFile
<1>6. /\ outcome' \in Seq(Outcome) /\ Len(outcome') = Len(outcome)
      /\ Called' = Called
      /\ \A d \in Called \ Pending : d \notin Pending' /\ outcome'[d] = outcome[d]
      /\ ChainState'
  BY <1>0, ChainKeeps
<1>7. \A r \in Readers : ReaderState(r)'
  BY <1>0, <1>5, <1>6, ReadersKeep
<1>8. TypeOK'
  BY <1>0, <1>5, <1>6 DEF TypeOK, reading, File
<1> QED BY <1>5, <1>6, <1>7, <1>8 DEF LedgerInv

LEMMA AppendStep ==
  ASSUME LedgerInv, AppendEntry
  PROVE  LedgerInv'
<1> DEFINE n == Len(outcome) + 1
<1>0. TypeOK /\ Len(outcome) \in Nat /\ Called = 1 .. Len(outcome) /\ Len(lines) > 0
  BY CalledType DEF LedgerInv, FileState
<1>1. /\ outcome' = Append(outcome, "pending") /\ Len(outcome) < MaxAppends
      /\ UNCHANGED <<exists, lines, reading, cut, failures, crashes>>
  BY DEF AppendEntry, file
<1>2. /\ outcome' \in Seq(Outcome) /\ Len(outcome') = n
      /\ \A d \in Called : outcome'[d] = outcome[d]
      /\ outcome'[n] = "pending"
  BY <1>0, <1>1, AppendProperties DEF TypeOK, Outcome, Chained
<1>3. Called' = Called \union {n} /\ Called' = 1 .. n
  BY <1>0, <1>2, LenProperties DEF Called
<1>4. /\ Pending' = Pending \union {n} /\ (Called \ Pending)' = Called \ Pending
      /\ \A d \in Called : d < n
  BY <1>0, <1>2, <1>3 DEF Pending, Chained
<1>5. TypeOK'
  BY <1>0, <1>1, <1>2, LedgerAssumption DEF TypeOK, reading
<1>6. ChainState'
  <2>1. \A d \in (Called \ Pending)', c \in Pending' : d < c
    BY <1>0, <1>4 DEF LedgerInv, ChainState
  <2>2. ASSUME NEW d \in Called', outcome'[d] \in {"open", "part", "landed"} PROVE IsNext(d)'
    <3>1. d \in Called /\ IsNext(d)
      BY <1>2, <1>3, <2>2 DEF LedgerInv, ChainState
    <3> QED BY <3>1, <1>0, <1>4 DEF IsNext
  <2> QED BY <2>1, <2>2 DEF ChainState
<1>7. FileState'
  <2>1. \A d \in Called' : outcome'[d] # "pending" => d \in Called /\ outcome[d] = outcome'[d]
    BY <1>0, <1>2, <1>3
  <2> QED BY <1>1, <1>2, <1>3, <2>1 DEF LedgerInv, FileState, EndsWith
<1>8. \A r \in Readers : ReaderState(r)'
  <2>1. \A d \in Called \ Pending : d \notin Pending' /\ outcome'[d] = outcome[d]
    BY <1>0, <1>2, <1>4
  <2>2. Len(lines') \in Nat /\ Len(lines') >= Len(lines)
    BY <1>0, <1>1, LinesAreAFile
  <2> QED BY <1>1, <1>3, <2>1, <2>2, ReadersKeep
<1> QED BY <1>5, <1>6, <1>7, <1>8 DEF LedgerInv

LEMMA CrashStep ==
  ASSUME LedgerInv, Crash
  PROVE  LedgerInv'
<1>0. /\ TypeOK /\ Len(outcome) \in Nat /\ Called = 1 .. Len(outcome) /\ Called \subseteq Entries
      /\ \A e \in Called : outcome[e] \in Outcome
  BY CalledType DEF LedgerInv
<1>1. /\ outcome' = [e \in Called |-> IF e \in Pending THEN "lost" ELSE outcome[e]]
      /\ reader' = [r \in Readers |-> "idle"]
      /\ awaited' = [r \in Readers |-> {}]
      /\ returned' = [r \in Readers |-> <<>>]
      /\ UNCHANGED <<exists, lines, cut, failures>>
      /\ crashes' \in 0 .. MaxCrashes
  BY <1>0, LedgerAssumption DEF Crash, TypeOK, file
<1>2. /\ outcome' \in Seq(Outcome) /\ Len(outcome') = Len(outcome)
      /\ Called' = Called
      /\ \A e \in Called : outcome'[e] = IF e \in Pending THEN "lost" ELSE outcome[e]
  <2> DEFINE val(e) == IF e \in Pending THEN "lost" ELSE outcome[e]
  <2>1. outcome' = [e \in 1 .. Len(outcome) |-> val(e)] /\ \A e \in Called : val(e) \in Outcome
    BY <1>0, <1>1 DEF Outcome
  <2> HIDE DEF val
  <2>2. outcome' \in Seq(Outcome)
    BY <1>0, <2>1
  <2>3. DOMAIN outcome' = 1 .. Len(outcome) /\ DOMAIN outcome' = 1 .. Len(outcome')
        /\ Len(outcome') \in Nat
    BY <2>1, <2>2, LenProperties
  <2>4. Len(outcome') = Len(outcome)
    BY <2>3, <1>0
  <2> QED BY <2>1, <2>2, <2>3, <2>4, <1>0 DEF Called, val
<1>3. /\ Pending' = {}
      /\ \A e \in Called : outcome'[e] \notin {"pending", "open", "part", "landed"}
      /\ \A e \in Called : outcome'[e] = "resolved" => outcome[e] = "resolved"
  BY <1>0, <1>2 DEF Pending, Chained
<1>4. ChainState' /\ FileState'
  BY <1>1, <1>2, <1>3 DEF LedgerInv, FileState, ChainState
<1>5. TypeOK'
  <2>1. <<>> \in Seq(Entries)
    BY EmptySeq
  <2> QED BY <1>0, <1>1, <1>2, <2>1 DEF TypeOK, Step
<1>6. \A r \in Readers : ReaderState(r)'
  BY <1>1, EmptySeq DEF ReaderState, Ascending
<1> QED BY <1>4, <1>5, <1>6 DEF LedgerInv

LEMMA ReadEntriesStep ==
  ASSUME LedgerInv, NEW r \in Readers, ReadEntries(r)
  PROVE  LedgerInv'
<1>0. TypeOK /\ Called \subseteq Entries /\ <<>> \in Seq(Entries) /\ DOMAIN <<>> = {}
  BY CalledType, EmptySeq DEF LedgerInv
<1>1. /\ reader' = [reader EXCEPT ![r] = "waiting"]
      /\ awaited' = [awaited EXCEPT ![r] = Called]
      /\ returned' = [returned EXCEPT ![r] = <<>>]
      /\ UNCHANGED <<exists, lines, outcome, cut, failures, crashes>>
  BY DEF ReadEntries, file
<1>2. Called' = Called /\ Pending' = Pending
  BY <1>1 DEF Called, Pending
<1>3. TypeOK'
  BY <1>0, <1>1 DEF TypeOK, Step
<1>4. ChainState' /\ FileState'
  BY <1>1, <1>2 DEF LedgerInv, ChainState, IsNext, FileState, EndsWith
<1>5. ASSUME NEW q \in Readers PROVE ReaderState(q)'
  <2>1. ReaderState(q)
    BY DEF LedgerInv
  <2>2. CASE q = r
    <3>1. reader'[q] = "waiting" /\ awaited'[q] = Called /\ returned'[q] = <<>>
      BY <1>0, <1>1, <2>2 DEF TypeOK
    <3> QED BY <1>0, <1>2, <3>1 DEF ReaderState, Ascending
  <2>3. CASE q # r
    <3>1. reader'[q] = reader[q] /\ awaited'[q] = awaited[q] /\ returned'[q] = returned[q]
      BY <1>0, <1>1, <2>3 DEF TypeOK
    <3> QED BY <1>1, <1>2, <2>1, <3>1 DEF ReaderState, Ascending, Known
  <2> QED BY <2>2, <2>3
<1> QED BY <1>3, <1>4, <1>5 DEF LedgerInv

(* A file that is not refused is parsed into its entries, in order, and no *)
(* durable entry is missing: it is on a line before the one that is torn.  *)
LEMMA ParsedLemma ==
  ASSUME LedgerInv, ~Corrupt
  PROVE  /\ Parsed \in Seq(Entries)
         /\ Ascending(Parsed)
         /\ \A e \in Called \ cut : outcome[e] = "resolved" => \E i \in DOMAIN Parsed : Parsed[i] = e
         /\ \A i \in DOMAIN Parsed : lines[i] = <<Parsed[i]>>
         /\ HasTornEnd => Len(Parsed) < Len(lines)
<1> DEFINE m == Len(Body)
           n == IF HasTornEnd THEN m - 1 ELSE m
<1>0. /\ TypeOK /\ lines \in File /\ Len(lines) \in Nat /\ Len(lines) > 0
      /\ Called \subseteq Entries
      /\ \A i \in 1 .. Len(lines) : lines[i] \in Seq(Pieces) /\ Len(lines[i]) \in Nat
  BY LinesAreAFile, CalledType DEF LedgerInv, FileState
<1>1. /\ m = IF IsTerminated THEN Len(lines) - 1 ELSE Len(lines)
      /\ DOMAIN Body = 1 .. m
      /\ \A i \in 1 .. m : Body[i] = lines[i]
  <2>1. CASE IsTerminated
    <3>1. Body = SubSeq(lines, 1, Len(lines) - 1) /\ Len(lines) > 1
      BY <2>1 DEF Body, IsTerminated
    <3>2. PICK k \in Nat : Len(lines) = k + 1
      <4>1. Len(lines) - 1 \in Nat /\ Len(lines) = (Len(lines) - 1) + 1
        BY <1>0
      <4> QED BY <4>1
    <3>3. Body = SubSeq(lines, 1, k) /\ \A i \in 1 .. k : lines[i] \in Seq(Pieces)
      BY <3>1, <3>2, <1>0
    <3>4. /\ Body \in Seq(Seq(Pieces))
          /\ Len(Body) = IF 1 <= k THEN k - 1 + 1 ELSE 0
          /\ \A i \in 1 .. k - 1 + 1 : Body[i] = lines[1 + i - 1]
      BY <3>3, SubSeqProperties
    <3>5. Len(Body) = k /\ \A i \in 1 .. k : i \in 1 .. k - 1 + 1 /\ 1 + i - 1 = i
      BY <3>1, <3>2, <3>4
    <3>6. DOMAIN Body = 1 .. Len(Body)
      BY <3>4, LenProperties
    <3> QED BY <2>1, <3>2, <3>4, <3>5, <3>6
  <2>2. CASE ~IsTerminated
    BY <2>2, <1>0, LinesAreAFile DEF Body
  <2> QED BY <2>1, <2>2
<1>2. m \in Nat \ {0} /\ n \in Nat /\ n <= m /\ m <= Len(lines)
  <2> DEFINE k == m
  <2>1. IsTerminated => Len(lines) > 1
    BY DEF IsTerminated
  <2>2. k = IF IsTerminated THEN Len(lines) - 1 ELSE Len(lines)
    BY <1>1
  <2> HIDE DEF k
  <2>3. k \in Nat \ {0} /\ k <= Len(lines)
    BY <1>0, <2>1, <2>2
  <2> QED BY <2>3 DEF k
<1>3. \A i \in 1 .. n : Valid(Body[i])
  <2> SUFFICES ASSUME NEW i \in 1 .. n, ~Valid(Body[i]) PROVE FALSE
    OBVIOUS
  <2>1. i \in DOMAIN Body
    BY <1>1, <1>2
  <2>2. IsTruncatedFinal(i) /\ i = m
    BY <2>1 DEF Corrupt, IsTruncatedFinal
  <2>3. HasTornEnd
    BY <2>2 DEF HasTornEnd
  <2> QED BY <2>2, <2>3, <1>2
<1> HIDE DEF n, m
<1>4. \A i \in 1 .. n : /\ Body[i][1] \in Entries
                        /\ lines[i] = <<Body[i][1]>>
                        /\ On(lines, Body[i][1], i)
                        /\ \A p : On(lines, p, i) => p = Body[i][1]
  <2> SUFFICES ASSUME NEW i \in 1 .. n
               PROVE  /\ Body[i][1] \in Entries
                      /\ lines[i] = <<Body[i][1]>>
                      /\ On(lines, Body[i][1], i)
                      /\ \A p : On(lines, p, i) => p = Body[i][1]
    OBVIOUS
  <2>1. i \in 1 .. m /\ Body[i] = lines[i] /\ i \in 1 .. Len(lines)
    BY <1>0, <1>1, <1>2
  <2>2. Len(lines[i]) = 1 /\ lines[i][1] \in Entries
    BY <1>3, <2>1 DEF Valid
  <2>3. lines[i] = <<lines[i][1]>>
    <3>1. lines[i] \in Seq(Pieces)
      BY <1>0, <2>1
    <3> QED BY <2>2, <3>1
  <2> QED BY <2>1, <2>2, <2>3 DEF On
<1>5. Parsed = [i \in 1 .. n |-> Body[i][1]]
  BY DEF Parsed, n, m
<1>6. Parsed \in Seq(Entries) /\ DOMAIN Parsed = 1 .. n /\ Len(Parsed) = n
  <2> DEFINE piece(i) == Body[i][1]
  <2>1. Parsed = [i \in 1 .. n |-> piece(i)] /\ \A i \in 1 .. n : piece(i) \in Entries
    BY <1>4, <1>5
  <2> HIDE DEF piece
  <2> QED BY <2>1, <1>2
<1>7. Ascending(Parsed)
  <2> SUFFICES ASSUME NEW i \in 1 .. n, NEW j \in 1 .. n, i < j PROVE Parsed[i] < Parsed[j]
    BY <1>6 DEF Ascending
  <2>1. i \in Nat /\ j \in Nat
    OBVIOUS
  <2> QED BY <2>1, <1>4, <1>5 DEF LedgerInv, FileState
<1>8. /\ n >= Len(lines) - 1
      /\ HasTornEnd => n < Len(lines)
  <2>1. HasTornEnd => ~IsTerminated
    BY DEF HasTornEnd, IsTruncatedFinal
  <2>2. CASE HasTornEnd
    BY <2>1, <2>2, <1>0, <1>1 DEF n
  <2>3. CASE ~HasTornEnd
    BY <2>3, <1>0, <1>1 DEF n
  <2> QED BY <2>2, <2>3
<1>9. ASSUME NEW e \in Called \ cut, outcome[e] = "resolved"
      PROVE  \E i \in DOMAIN Parsed : Parsed[i] = e
  <2>1. PICK i \in 1 .. Len(lines) - 1 : On(lines, e, i)
    BY <1>9 DEF LedgerInv, FileState
  <2>2. i \in 1 .. n
    BY <2>1, <1>0, <1>2, <1>8
  <2> QED BY <2>1, <2>2, <1>4, <1>5, <1>6
<1> QED BY <1>4, <1>5, <1>6, <1>7, <1>8, <1>9

LEMMA ReadFileStep ==
  ASSUME LedgerInv, NEW r \in Readers, ReadFile(r)
  PROVE  LedgerInv'
<1>0. /\ TypeOK /\ ReaderState(r) /\ Called \subseteq Entries
      /\ UNCHANGED <<exists, lines, outcome, cut, failures, crashes>>
      /\ reader[r] = "waiting"
  BY CalledType DEF LedgerInv, ReadFile, file
<1>1. Called' = Called /\ Pending' = Pending
  BY <1>0 DEF Called, Pending
<1>2. awaited[r] \subseteq Called \ Pending
  BY <1>0 DEF ReadFile, ReaderState, AppendsSettled
<1>3. /\ TypeOK'
      /\ \A q \in Readers \ {r} : UNCHANGED <<reader[q], awaited[q], returned[q]>>
      /\ ReaderState(r)'
  <2>1. CASE exists /\ Corrupt
    <3>1. /\ reader' = [reader EXCEPT ![r] = "idle"]
          /\ awaited' = [awaited EXCEPT ![r] = {}]
          /\ returned' = returned
      BY <2>1 DEF ReadFile
    <3>2. reader'[r] = "idle" /\ awaited'[r] = {}
      BY <3>1, <1>0 DEF TypeOK
    <3>3. ReaderState(r)'
      BY <3>1, <3>2, <1>0 DEF ReaderState, Ascending
    <3>4. TypeOK'
      BY <3>1, <1>0 DEF TypeOK, Step
    <3> QED BY <3>1, <3>3, <3>4, <1>0 DEF TypeOK
  <2>2. CASE exists /\ ~Corrupt
    <3>0. /\ Parsed \in Seq(Entries)
          /\ Ascending(Parsed)
          /\ \A e \in Called \ cut : outcome[e] = "resolved" => \E i \in DOMAIN Parsed : Parsed[i] = e
          /\ \A i \in DOMAIN Parsed : lines[i] = <<Parsed[i]>>
          /\ HasTornEnd => Len(Parsed) < Len(lines)
      BY <2>2, ParsedLemma
    <3>1. /\ returned' = [returned EXCEPT ![r] = Parsed]
          /\ reader' = [reader EXCEPT ![r] = IF HasTornEnd THEN "truncating" ELSE "returned"]
          /\ awaited' = awaited
      BY <2>2 DEF ReadFile
    <3>2. /\ returned'[r] = Parsed
          /\ reader'[r] = IF HasTornEnd THEN "truncating" ELSE "returned"
      BY <3>1, <1>0 DEF TypeOK
    <3>3. HasTornEnd => \A n \in DOMAIN Parsed : Known(r, n)'
      <4>1. DOMAIN Parsed = 1 .. Len(Parsed) /\ Len(Parsed) \in Nat
        BY <3>0, LenProperties
      <4>2. Len(lines) \in Nat
        BY <1>0, LinesAreAFile DEF LedgerInv, FileState
      <4> QED BY <4>1, <4>2, <3>0, <3>2, <1>0 DEF Known
    <3>4. ASSUME NEW e \in awaited[r] \ cut, outcome[e] = "resolved"
          PROVE  \E n \in DOMAIN Parsed : Parsed[n] = e /\ (reader'[r] = "truncating" => Known(r, n)')
      <4>1. PICK n \in DOMAIN Parsed : Parsed[n] = e
        BY <3>0, <3>4, <1>2
      <4> QED BY <4>1, <3>2, <3>3
    <3>5. ReaderState(r)'
      BY <1>0, <1>1, <1>2, <3>0, <3>1, <3>2, <3>4 DEF ReaderState, Ascending
    <3>6. TypeOK'
      BY <3>0, <3>1, <1>0 DEF TypeOK, Step
    <3> QED BY <3>1, <3>5, <3>6, <1>0 DEF TypeOK
  <2>3. CASE ~exists
    <3>0. <<>> \in Seq(Entries) /\ Ascending(<<>>) /\ DOMAIN <<>> = {}
      BY EmptySeq DEF Ascending
    <3>1. /\ returned' = [returned EXCEPT ![r] = <<>>]
          /\ reader' = [reader EXCEPT ![r] = "returned"]
          /\ awaited' = awaited
      BY <2>3 DEF ReadFile
    <3>2. returned'[r] = <<>> /\ reader'[r] = "returned"
      BY <3>1, <1>0 DEF TypeOK
    <3>3. \A e \in Called : outcome[e] # "resolved"
      BY <2>3 DEF LedgerInv, FileState
    <3>4. ReaderState(r)'
      BY <1>0, <1>1, <1>2, <3>0, <3>1, <3>2, <3>3 DEF ReaderState, Ascending
    <3>5. TypeOK'
      BY <3>0, <3>1, <1>0 DEF TypeOK, Step
    <3> QED BY <3>1, <3>4, <3>5, <1>0 DEF TypeOK
  <2> QED BY <2>1, <2>2, <2>3, <1>0 DEF TypeOK
<1>4. ChainState' /\ FileState'
  BY <1>0, <1>1 DEF LedgerInv, ChainState, IsNext, FileState, EndsWith
<1>5. ASSUME NEW q \in Readers \ {r} PROVE ReaderState(q)'
  <2>1. ReaderState(q) /\ UNCHANGED <<reader[q], awaited[q], returned[q]>>
    BY <1>3 DEF LedgerInv
  <2> QED BY <1>0, <1>1, <2>1 DEF ReaderState, Ascending, Known
<1> QED BY <1>3, <1>4, <1>5 DEF LedgerInv

(* What a truncation leaves: the first n lines, and of the next one some   *)
(* pieces.                                                                 *)
LEMMA TruncatedLemma ==
  ASSUME TypeOK, Len(lines) > 0, NEW r \in Readers,
         NEW n \in 0 .. Len(lines) - 1, NEW rest \in Remains(r, n),
         lines' = Append(SubSeq(lines, 1, n), rest)
  PROVE  /\ lines' \in File /\ Len(lines') = n + 1
         /\ \A i \in 1 .. n : lines'[i] = lines[i]
         /\ \A p \in Pieces \ {Torn}, i \in Nat : On(lines', p, i) => On(lines, p, i)
<1> DEFINE g == SubSeq(lines, 1, n)
           next == lines[n + 1]
           S == Seq(Pieces)
<1>0. /\ lines \in Seq(S) /\ Len(lines) \in Nat /\ n \in Nat /\ n + 1 \in 1 .. Len(lines)
      /\ \A i \in 1 .. Len(lines) : lines[i] \in S
      /\ next \in S /\ Len(next) \in Nat
  BY LinesAreAFile DEF File
<1> HIDE DEF S, next
<1>1. /\ g \in Seq(S)
      /\ Len(g) = IF 1 <= n THEN n - 1 + 1 ELSE 0
      /\ \A i \in 1 .. n - 1 + 1 : g[i] = lines[1 + i - 1]
  <2>1. \A i \in 1 .. n : lines[i] \in S
    BY <1>0
  <2> QED BY <1>0, <2>1, SubSeqProperties
<1> HIDE DEF g
<1>2. g \in Seq(S) /\ Len(g) = n /\ \A i \in 1 .. n : g[i] = lines[i]
  <2>1. \A i \in 1 .. n : i \in 1 .. n - 1 + 1 /\ 1 + i - 1 = i
    BY <1>0
  <2> QED BY <1>0, <1>1, <2>1
<1>3. ASSUME NEW k \in 0 .. Len(next)
      PROVE  /\ SubSeq(next, 1, k) \in Seq(Pieces) /\ Len(SubSeq(next, 1, k)) = k
             /\ \A j \in 1 .. k : SubSeq(next, 1, k)[j] = next[j]
  <2> DEFINE b == SubSeq(next, 1, k)
  <2>1. k \in Nat /\ \A j \in 1 .. k : next[j] \in Pieces
    BY <1>0, ElementOfSeq DEF S
  <2>2. /\ b \in Seq(Pieces)
        /\ Len(b) = IF 1 <= k THEN k - 1 + 1 ELSE 0
        /\ \A j \in 1 .. k - 1 + 1 : b[j] = next[1 + j - 1]
    BY <2>1, SubSeqProperties
  <2> HIDE DEF b
  <2>3. \A j \in 1 .. k : j \in 1 .. k - 1 + 1 /\ 1 + j - 1 = j
    BY <2>1
  <2>4. b \in Seq(Pieces) /\ Len(b) = k /\ \A j \in 1 .. k : b[j] = next[j]
    BY <2>1, <2>2, <2>3
  <2> QED BY <2>4 DEF b
<1>4. /\ rest \in S
      /\ \A j \in 1 .. Len(rest) : rest[j] = Torn \/ (j \in 1 .. Len(next) /\ rest[j] = next[j])
  <2>1. CASE rest = <<>>
    BY <2>1, EmptySeq DEF S
  <2>2. ASSUME NEW k \in 0 .. Len(next), rest = SubSeq(next, 1, k)
        PROVE  /\ rest \in S
               /\ \A j \in 1 .. Len(rest) : j \in 1 .. Len(next) /\ rest[j] = next[j]
    BY <2>2, <1>0, <1>3 DEF S
  <2>3. ASSUME NEW k \in 0 .. Len(next), rest = Append(SubSeq(next, 1, k), Torn)
        PROVE  /\ rest \in S
               /\ \A j \in 1 .. Len(rest) : rest[j] = Torn \/ (j \in 1 .. Len(next) /\ rest[j] = next[j])
    <3> DEFINE b == SubSeq(next, 1, k)
    <3>1. b \in Seq(Pieces) /\ Len(b) = k /\ \A j \in 1 .. k : b[j] = next[j]
      BY <1>3
    <3> HIDE DEF b
    <3>2. /\ Append(b, Torn) \in Seq(Pieces) /\ Len(Append(b, Torn)) = k + 1
          /\ \A j \in 1 .. k : Append(b, Torn)[j] = b[j]
          /\ Append(b, Torn)[k + 1] = Torn
      BY <3>1, PieceTypes, AppendProperties
    <3>3. rest = Append(b, Torn)
      BY <2>3 DEF b
    <3>4. \A j \in 1 .. k + 1 : j = k + 1 \/ (j \in 1 .. k /\ j \in 1 .. Len(next))
      BY <1>0
    <3> QED BY <3>1, <3>2, <3>3, <3>4 DEF S
  <2>4. \/ rest = <<>>
        \/ \E k \in 0 .. Len(next) :
             rest = SubSeq(next, 1, k) \/ rest = Append(SubSeq(next, 1, k), Torn)
    BY DEF Remains, next
  <2> QED BY <2>1, <2>2, <2>3, <2>4
<1>5. /\ lines' \in Seq(S) /\ Len(lines') = n + 1
      /\ \A i \in 1 .. n : lines'[i] = lines[i]
      /\ lines'[n + 1] = rest
  <2>1. lines' = Append(g, rest)
    BY DEF g
  <2> QED BY <1>2, <1>4, <2>1, AppendProperties
<1>6. ASSUME NEW p \in Pieces \ {Torn}, NEW i \in Nat, On(lines', p, i)
      PROVE  On(lines, p, i)
  <2>1. CASE i \in 1 .. n
    BY <1>0, <1>5, <1>6, <2>1 DEF On
  <2>2. CASE i = n + 1
    <3>1. PICK j \in 1 .. Len(rest) : rest[j] = p
      BY <1>5, <1>6, <2>2 DEF On
    <3>2. j \in 1 .. Len(next) /\ next[j] = p
      BY <1>4, <3>1
    <3> QED BY <1>0, <2>2, <3>2 DEF On, next
  <2> QED BY <1>0, <1>5, <1>6, <2>1, <2>2 DEF On
<1> QED BY <1>5, <1>6 DEF File, S

LEMMA TruncateStep ==
  ASSUME LedgerInv, NEW r \in Readers, Truncate(r)
  PROVE  LedgerInv'
<1>0. /\ TypeOK /\ ReaderState(r) /\ Len(lines) > 0 /\ Len(lines) \in Nat
      /\ Called \subseteq Entries /\ Entries \subseteq Nat
      /\ \A i \in 1 .. Len(lines) : DOMAIN lines[i] = 1 .. Len(lines[i])
  BY LinesAreAFile, CalledType, PieceTypes DEF LedgerInv, FileState
<1>1. PICK n \in 0 .. Len(lines) - 1 :
        /\ TruncateAt(r, n)
        /\ \E rest \in Remains(r, n) : lines' = Append(SubSeq(lines, 1, n), rest)
        /\ cut' = cut \union (Damaged(n) \ awaited[r])
  BY DEF Truncate
<1>2. /\ reader' = [reader EXCEPT ![r] = "returned"] /\ reader[r] = "truncating"
      /\ UNCHANGED <<exists, outcome, awaited, returned, failures, crashes>>
  BY DEF Truncate
<1>3. /\ lines' \in File /\ Len(lines') = n + 1 /\ n \in Nat
      /\ \A i \in 1 .. n : lines'[i] = lines[i]
      /\ \A p \in Pieces \ {Torn}, i \in Nat : On(lines', p, i) => On(lines, p, i)
  <2>1. PICK rest \in Remains(r, n) : lines' = Append(SubSeq(lines, 1, n), rest)
    BY <1>1
  <2> QED BY <1>0, <2>1, TruncatedLemma
<1>4. Called' = Called /\ Pending' = Pending
  BY <1>2 DEF Called, Pending
<1>5. cut \subseteq cut' /\ cut' \subseteq Entries
  BY <1>0, <1>1 DEF TypeOK, Damaged
<1>6. \A e \in Called, i \in n + 1 .. Len(lines) :
        (On(lines, e, i) \/ On(lines, -e, i)) /\ e \notin cut' => e \in awaited[r]
  BY <1>0, <1>1 DEF On, Damaged
<1>7. ASSUME NEW e \in awaited[r], outcome[e] = "resolved", e \notin cut
      PROVE  \E m \in 1 .. n : lines[m] = <<e>>
  <2>1. PICK m \in DOMAIN returned[r] : returned[r][m] = e /\ Known(r, m)
    BY <1>0, <1>2, <1>7 DEF ReaderState
  <2>2. m \in Nat /\ m >= 1
    <3>1. returned[r] \in Seq(Entries)
      BY <1>0 DEF TypeOK
    <3>2. DOMAIN returned[r] = 1 .. Len(returned[r]) /\ Len(returned[r]) \in Nat
      BY <3>1, LenProperties
    <3> QED BY <3>2
  <2>3. m <= n
    <3>1. m < Len(lines)
      BY <2>1 DEF Known
    <3>2. CASE m > n
      <4>1. m \in n + 1 .. Len(lines) - 1
        BY <1>0, <1>3, <2>2, <3>1, <3>2
      <4> QED BY <1>1, <2>1, <4>1 DEF TruncateAt
    <3> QED BY <3>2, <2>2, <1>3
  <2>4. lines[m] = <<e>>
    BY <2>1, <2>2 DEF Known
  <2> QED BY <2>2, <2>3, <2>4, <1>3
<1>8. \A m \in 1 .. Len(lines), e \in Entries : lines[m] = <<e>> => On(lines, e, m)
  BY DEF On
<1>9. TypeOK'
  BY <1>0, <1>2, <1>3, <1>5 DEF TypeOK, Step, File
<1>10. ChainState'
  BY <1>2, <1>4 DEF LedgerInv, ChainState, IsNext
<1>11. FileState'
  <2>1. \A e \in Entries, i \in Nat :
          On(lines', e, i) \/ On(lines', -e, i) => e \in Called' /\ outcome'[e] \notin {"pending", "open"}
    <3> SUFFICES ASSUME NEW e \in Entries, NEW i \in Nat, On(lines', e, i) \/ On(lines', -e, i)
                 PROVE  e \in Called /\ outcome[e] \notin {"pending", "open"}
      BY <1>2, <1>4
    <3>1. On(lines, e, i) \/ On(lines, -e, i)
      BY <1>3, PieceTypes
    <3> QED BY <3>1 DEF LedgerInv, FileState
  <2>2. ASSUME NEW e \in Called, outcome[e] \in {"landed", "resolved"}, e \notin cut'
        PROVE  \E i \in 1 .. Len(lines') - 1 : On(lines', e, i)
    <3>1. PICK i \in 1 .. Len(lines) - 1 : On(lines, e, i)
      BY <2>2, <1>5 DEF LedgerInv, FileState
    <3>2. SUFFICES \E m \in 1 .. n : On(lines, e, m)
      <4>1. PICK m \in 1 .. n : On(lines, e, m)
        BY <3>2
      <4>2. lines'[m] = lines[m] /\ m \in 1 .. Len(lines') - 1 /\ m \in 1 .. Len(lines')
        BY <1>3
      <4> QED BY <4>1, <4>2 DEF On
    <3>3. CASE i \in 1 .. n
      BY <3>1, <3>3
    <3>4. CASE i \notin 1 .. n
      <4>1. i \in n + 1 .. Len(lines)
        BY <1>0, <1>3, <3>4
      <4>2. e \in awaited[r]
        BY <1>6, <2>2, <3>1, <4>1
      <4>3. outcome[e] = "resolved"
        BY <1>0, <1>2, <2>2, <4>2 DEF ReaderState, Pending, Chained
      <4>4. PICK m \in 1 .. n : lines[m] = <<e>>
        BY <1>5, <1>7, <2>2, <4>2, <4>3
      <4>5. m \in 1 .. Len(lines)
        BY <1>0, <1>3
      <4> QED BY <1>0, <1>8, <4>4, <4>5
    <3> QED BY <3>3, <3>4
  <2>3. ASSUME NEW e \in Called, outcome[e] = "part"
        PROVE  /\ e \in cut'
               /\ \A i \in Nat : On(lines', e, i) => i = Len(lines')
    <3>1. e \notin awaited[r] /\ e \in Pieces \ {Torn}
      BY <1>0, <1>2, <2>3, PieceTypes DEF ReaderState, Pending, Chained
    <3>2. e \in cut => e \in cut'
      BY <1>5
    <3>3. ASSUME EndsWith(e) \/ EndsWith(-e) PROVE e \in cut'
      <4> DEFINE k == Len(lines)
                 last == lines[k]
      <4>1. last \in Seq(Pieces) /\ last # <<>> /\ k \in n + 1 .. k /\ k \in 1 .. k
        BY <1>0, <1>3, <3>3, LinesAreAFile DEF EndsWith
      <4>2. Len(last) \in 1 .. Len(last)
        BY <4>1, EmptySeq
      <4>3. last[Len(last)] \in {e, -e}
        BY <3>3 DEF EndsWith
      <4>4. On(lines, e, k) \/ On(lines, -e, k)
        BY <4>1, <4>2, <4>3 DEF On
      <4> QED BY <1>6, <2>3, <3>1, <4>1, <4>4
    <3>4. e \in cut'
      BY <2>3, <3>2, <3>3, <1>6 DEF LedgerInv, FileState
    <3>5. ASSUME NEW i \in Nat, On(lines', e, i) PROVE i = Len(lines')
      <4>1. i = Len(lines) /\ i \in 1 .. n + 1
        BY <1>3, <2>3, <3>1, <3>5 DEF LedgerInv, FileState, On
      <4> QED BY <4>1, <1>0, <1>3
    <3> QED BY <3>4, <3>5
  <2>4. \A d, e \in Entries : \A i, k \in Nat :
          On(lines', d, i) /\ On(lines', e, k) /\ i < k => d < e
    BY <1>3, PieceTypes DEF LedgerInv, FileState
  <2>5. \A e \in Called : outcome[e] \in {"open", "part", "landed", "resolved"} => exists
    BY DEF LedgerInv, FileState
  <2>6. Len(lines') > 0
    BY <1>3
  <2> QED BY <1>2, <1>4, <2>1, <2>2, <2>3, <2>4, <2>5, <2>6 DEF FileState
<1>12. ASSUME NEW q \in Readers PROVE ReaderState(q)'
  <2>0. ReaderState(q)
    BY DEF LedgerInv
  <2>1. ASSUME reader[q] \in {"truncating", "returned"}, reader'[q] = reader[q],
               NEW e \in awaited[q] \ cut', outcome[e] = "resolved"
        PROVE  \E m \in DOMAIN returned[q] :
                 returned[q][m] = e /\ (reader[q] = "truncating" => Known(q, m)')
    <3>1. PICK m \in DOMAIN returned[q] :
            returned[q][m] = e /\ (reader[q] = "truncating" => Known(q, m))
      BY <1>5, <2>0, <2>1 DEF ReaderState
    <3>2. CASE reader[q] # "truncating"
      BY <3>1, <3>2
    <3>3. CASE reader[q] = "truncating"
      <4>0. m \in Nat /\ m >= 1
        <5>1. returned[q] \in Seq(Entries)
          BY <1>0 DEF TypeOK
        <5>2. DOMAIN returned[q] = 1 .. Len(returned[q]) /\ Len(returned[q]) \in Nat
          BY <5>1, LenProperties
        <5> QED BY <5>2
      <4>1. /\ m \in 1 .. Len(lines) /\ lines[m] = <<e>> /\ m < Len(lines) /\ Known(q, m)
            /\ e \in Called /\ e \in Entries
        <5>1. Known(q, m) /\ returned[q][m] = e
          BY <3>1, <3>3
        <5>2. m \in 1 .. Len(lines) /\ m < Len(lines) /\ lines[m] = <<e>>
          BY <1>0, <4>0, <5>1 DEF Known
        <5>3. e \in Called
          BY <2>0, <2>1 DEF ReaderState
        <5> QED BY <1>0, <5>1, <5>2, <5>3
      <4>2. CASE m <= n
        <5>1. m < Len(lines') /\ \A i \in 1 .. m : lines'[i] = lines[i]
          BY <1>3, <4>0, <4>2
        <5>2. Known(q, m)'
          BY <1>2, <4>1, <5>1 DEF Known
        <5> QED BY <3>1, <5>2
      <4>3. CASE m > n
        <5>1. m \in n + 1 .. Len(lines)
          BY <1>0, <1>3, <4>0, <4>1, <4>3
        <5>2. On(lines, e, m)
          BY <1>8, <4>1
        <5>3. e \in awaited[r]
          BY <1>6, <2>1, <4>1, <5>1, <5>2
        <5>4. PICK k \in 1 .. n : lines[k] = <<e>>
          BY <1>5, <1>7, <2>1, <5>3
        <5>5. On(lines, e, k) /\ k \in Nat /\ k < m
          <6>1. k \in 1 .. Len(lines) /\ k \in Nat /\ k < m
            BY <1>0, <1>3, <4>0, <4>3
          <6> QED BY <1>8, <4>1, <5>4, <6>1
        <5>6. e < e
          BY <4>0, <4>1, <5>2, <5>5 DEF LedgerInv, FileState
        <5> QED BY <5>6, <4>1, <1>0
      <4> QED BY <4>0, <4>2, <4>3, <1>3
    <3> QED BY <3>2, <3>3
  <2>2. CASE q = r
    <3>1. reader'[q] = "returned"
      BY <1>0, <1>2, <2>2 DEF TypeOK
    <3> QED BY <1>2, <1>4, <1>5, <2>0, <2>2, <3>1 DEF ReaderState, Ascending
  <2>3. CASE q # r
    <3>1. reader'[q] = reader[q]
      BY <1>0, <1>2, <2>3 DEF TypeOK
    <3> QED BY <1>2, <1>4, <2>0, <2>1, <3>1 DEF ReaderState, Ascending
  <2> QED BY <2>2, <2>3
<1> QED BY <1>9, <1>10, <1>11, <1>12 DEF LedgerInv

LEMMA LedgerStep == LedgerInv /\ [Next]_vars => LedgerInv'
<1> SUFFICES ASSUME LedgerInv, [Next]_vars PROVE LedgerInv'
  OBVIOUS
<1>1. CASE AppendEntry
  BY <1>1, AppendStep
<1>2. ASSUME NEW e \in Entries, Settle(e) PROVE LedgerInv'
  BY <1>2, OpenFileStep, WriteFileStep, WriteRestStep, SyncFileStep, WriteFailsStep DEF Settle
<1>3. ASSUME NEW r \in Readers, ReadEntries(r) \/ Read(r) PROVE LedgerInv'
  BY <1>3, ReadEntriesStep, ReadFileStep, TruncateStep DEF Read
<1>4. CASE Crash
  BY <1>4, CrashStep
<1>5. CASE UNCHANGED vars
  <2>1. /\ UNCHANGED <<exists, lines, outcome, reader, awaited, returned, cut, failures, crashes>>
        /\ Called' = Called /\ Pending' = Pending
    BY <1>5 DEF vars, file, reading, Called, Pending
  <2>2. TypeOK'
    BY <2>1 DEF LedgerInv, TypeOK
  <2>3. ChainState'
    BY <2>1 DEF LedgerInv, ChainState, IsNext
  <2>4. FileState'
    BY <2>1 DEF LedgerInv, FileState, EndsWith
  <2>5. \A r \in Readers : ReaderState(r)'
    BY <2>1 DEF LedgerInv, ReaderState, Known
  <2> QED BY <2>2, <2>3, <2>4, <2>5 DEF LedgerInv
<1> QED BY <1>1, <1>2, <1>3, <1>4, <1>5 DEF Next

(***************************************************************************)
(* Theorems                                                                *)
(***************************************************************************)
(* The inductive invariant of the ledger file, with appends that go on     *)
(* while it is read and truncated.                                         *)
THEOREM LedgerInvariance == Spec => []LedgerInv
BY InitHolds, LedgerStep, PTL DEF Spec

(* Every variable keeps its type: a read parses nothing but entries.       *)
THEOREM LedgerTypeCorrect == Spec => []TypeOK
BY LedgerInvariance, PTL DEF LedgerInv

(* An entry that was reported durable stays on a terminated line, through  *)
(* failing writes, crashes and truncations, unless the truncation is of a  *)
(* read that was called before the append.                                 *)
THEOREM DurableEntriesStay == Spec => []DurableStays
<1>1. LedgerInv => DurableStays
  <2> SUFFICES ASSUME LedgerInv, NEW e \in Called, outcome[e] = "resolved", e \notin cut
               PROVE  OnLine(e)
    BY DEF DurableStays
  <2>1. PICK i \in 1 .. Len(lines) - 1 : On(lines, e, i)
    BY DEF LedgerInv, FileState
  <2>2. Len(lines) \in Nat /\ \A k \in 1 .. Len(lines) : DOMAIN lines[k] = 1 .. Len(lines[k])
    BY LinesAreAFile DEF LedgerInv, FileState
  <2> QED BY <2>1, <2>2 DEF OnLine, On
<1> QED BY <1>1, LedgerInvariance, PTL

(* Whatever was torn by failing writes, crashes and truncations, or is     *)
(* being written, a read that returns has every entry reported durable of  *)
(* those appended before it was called, if no earlier read cut it off.     *)
THEOREM ReadsAreComplete == Spec => []ReadIsComplete
<1>1. LedgerInv => ReadIsComplete
  BY DEF LedgerInv, ReaderState, ReadIsComplete
<1> QED BY <1>1, LedgerInvariance, PTL

(* A read returns entries in the order of the calls of append.             *)
THEOREM ReadsAreInOrder == Spec => []ReadInOrder
<1>1. LedgerInv => ReadInOrder
  BY DEF LedgerInv, ReaderState, ReadInOrder, Ascending
<1> QED BY <1>1, LedgerInvariance, PTL
=============================================================================
