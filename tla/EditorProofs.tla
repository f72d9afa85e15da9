---------------------------- MODULE EditorProofs ----------------------------
(***************************************************************************)
(* The editor (ADM_Composer): its undo queue indexes its vector correctly  *)
(* and implements the history EditHistory, and a film that is regular      *)
(* (EditorFilms) is shown as its segments say, forwards and backwards, in  *)
(* whatever order it is played, stepped through and sought.                *)
(***************************************************************************)
EXTENDS EditorFilms, UndoQueue, FiniteSetTheorems, SequenceTheorems,
        WellFoundedInduction, TLAPS

-----------------------------------------------------------------------------
(*                             THE UNDO QUEUE                              *)

-----------------------------------------------------------------------------
(* The inductive invariant: besides the properties, the records are in the *)
(* order of creation, none is newer than a layout that is yet to be        *)
(* recorded.                                                               *)

Ascending(q) == \A i, j \in 1..Len(q) : i <= j => q[i] <= q[j]

NothingNewer == undoCounter = 0 => \A i \in 1..Len(undoQueue) : undoQueue[i] <= current

UndoIInv == TypeOK /\ PresentRecorded /\ Ascending(undoQueue) /\ NothingNewer

LEMMA StepsIsTwo == Steps \in Nat /\ Steps >= 2
  BY UndoAssumption DEF UndoAssumption, Steps

-----------------------------------------------------------------------------
(* What the pieces of addToUndoQueue return.                               *)

\* MakeRoom keeps the newest records: at least one, and room for one more.
LEMMA MakeRoomKeepsNewest ==
  ASSUME NEW S, NEW q \in Seq(S)
  PROVE  /\ MakeRoom(q) \in Seq(S)
         /\ Len(MakeRoom(q)) <= Steps /\ Len(MakeRoom(q)) <= Len(q)
         /\ q # <<>> => Len(MakeRoom(q)) >= 1
         /\ \A i \in 1..Len(MakeRoom(q)) :
              MakeRoom(q)[i] = q[i + (Len(q) - Len(MakeRoom(q)))]
<1>1. CASE Len(q) > Steps
  <2> DEFINE lo == Len(q) - Steps + 2
  <2>1. lo \in 2..Len(q)+1 /\ Len(q) \in Nat /\ Steps \in Nat
    BY <1>1, StepsIsTwo
  <2>2. \A i \in lo..Len(q) : q[i] \in S
    BY <2>1
  <2>3. /\ SubSeq(q, lo, Len(q)) \in Seq(S)
        /\ Len(SubSeq(q, lo, Len(q))) = IF lo <= Len(q) THEN Len(q) - lo + 1 ELSE 0
        /\ \A i \in 1..(Len(q) - lo + 1) : SubSeq(q, lo, Len(q))[i] = q[lo + i - 1]
    <3> HIDE DEF lo
    <3> QED BY <2>1, <2>2, SubSeqProperties
  <2>4. MakeRoom(q) = SubSeq(q, lo, Len(q))
    BY <1>1 DEF MakeRoom
  <2>5. Len(MakeRoom(q)) = Steps - 1
    BY <2>1, <2>3, <2>4, StepsIsTwo
  <2>6. ASSUME NEW i \in 1..Len(MakeRoom(q))
        PROVE  MakeRoom(q)[i] = q[i + (Len(q) - Len(MakeRoom(q)))]
    <3>1. i \in 1..(Len(q) - lo + 1) /\ lo + i - 1 = i + (Len(q) - Len(MakeRoom(q)))
      BY <2>1, <2>5, StepsIsTwo
    <3> QED BY <3>1, <2>3, <2>4
  <2> QED BY <1>1, <2>1, <2>3, <2>4, <2>5, <2>6, StepsIsTwo
<1>2. CASE ~(Len(q) > Steps)
  <2>1. MakeRoom(q) = q /\ Len(q) \in Nat /\ Len(q) <= Steps
    BY <1>2, StepsIsTwo DEF MakeRoom
  <2>2. q # <<>> => Len(q) >= 1
    OBVIOUS
  <2>3. \A i \in 1..Len(q) : q[i] = q[i + (Len(q) - Len(q))]
    BY <2>1
  <2> QED BY <2>1, <2>2, <2>3
<1> QED BY <1>1, <1>2

\* DropBranch keeps the records up to the position of the current layout,
\* or all of them when nothing is undone: none is newer than the layout.
LEMMA DropBranchKeepsOlder ==
  ASSUME UndoIInv
  PROVE  /\ DropBranch \in Seq(0..created)
         /\ Len(DropBranch) <= Len(undoQueue)
         /\ undoCounter <= 1 => DropBranch = undoQueue
         /\ undoCounter > 1 => Len(DropBranch) = (IF undoQueue = <<>> THEN 0
                                                  ELSE Len(undoQueue) - undoCounter)
         /\ \A i \in 1..Len(DropBranch) : /\ DropBranch[i] = undoQueue[i]
                                          /\ DropBranch[i] <= current
<1> DEFINE n == Len(undoQueue)
<1>1. undoQueue \in Seq(0..created) /\ n \in Nat /\ undoCounter \in Nat
      /\ current \in Nat /\ (undoQueue = <<>> <=> n = 0)
  BY DEF UndoIInv, TypeOK
<1>2. CASE undoCounter > 1 /\ undoQueue # <<>>
  <2>1. undoCounter <= n /\ undoQueue[n - undoCounter + 1] = current
    BY <1>1, <1>2 DEF UndoIInv, PresentRecorded
  <2>2. DropBranch = SubSeq(undoQueue, 1, n - undoCounter)
    BY <1>1, <1>2, <2>1 DEF DropBranch
  <2>3. \A i \in 1..(n - undoCounter) : undoQueue[i] \in 0..created
    <3> TAKE i \in 1..(n - undoCounter)
    <3>1. i \in 1..n
      BY <1>1
    <3> HIDE DEF n
    <3> QED BY <3>1, <1>1, ElementOfSeq DEF n
  <2>4. /\ DropBranch \in Seq(0..created)
        /\ Len(DropBranch) = IF 1 <= n - undoCounter THEN n - undoCounter - 1 + 1 ELSE 0
        /\ \A i \in 1..(n - undoCounter - 1 + 1) : DropBranch[i] = undoQueue[1 + i - 1]
    <3>1. n - undoCounter \in Int /\ 1 \in Int
      BY <1>1
    <3> HIDE DEF n
    <3> QED BY <2>2, <2>3, <3>1, SubSeqProperties
  <2>5. Len(DropBranch) = n - undoCounter
    BY <1>1, <2>1, <2>4
  <2>6. ASSUME NEW i \in 1..Len(DropBranch)
        PROVE  DropBranch[i] = undoQueue[i] /\ DropBranch[i] <= current
    <3>1. i \in 1..n /\ n - undoCounter + 1 \in 1..n /\ i <= n - undoCounter + 1
      BY <1>1, <1>2, <2>1, <2>5
    <3>2. DropBranch[i] = undoQueue[1 + i - 1] /\ 1 + i - 1 = i
      BY <1>1, <2>4, <2>5
    <3>3. undoQueue[i] <= undoQueue[n - undoCounter + 1]
      BY <3>1 DEF UndoIInv, Ascending
    <3> QED BY <2>1, <3>2, <3>3
  <2> QED BY <1>1, <1>2, <2>1, <2>4, <2>5, <2>6
<1>3. CASE ~(undoCounter > 1 /\ undoQueue # <<>>)
  <2>1. DropBranch = undoQueue
    BY <1>1, <1>3 DEF DropBranch
  <2>2. ASSUME NEW i \in 1..n
        PROVE  undoQueue[i] <= current
    <3>1. CASE undoCounter = 0
      BY <3>1 DEF UndoIInv, NothingNewer
    <3>2. CASE undoCounter = 1
      <4>1. undoQueue[n] = current /\ n \in 1..n /\ i <= n
        BY <1>1, <3>2 DEF UndoIInv, PresentRecorded
      <4> QED BY <4>1 DEF UndoIInv, Ascending
    <3> QED BY <1>1, <1>3, <3>1, <3>2
  <2> QED BY <1>1, <1>3, <2>1, <2>2
<1> QED BY <1>2, <1>3

\* Recorded ends with the current layout, and what precedes it is the newest
\* part of what DropBranch kept.
LEMMA RecordedEndsWithCurrent ==
  ASSUME UndoIInv
  PROVE  LET r == Recorded
             k == Len(DropBranch) - (Len(Recorded) - 1)
         IN /\ r \in Seq(0..created)
            /\ Len(r) \in 1..(Steps + 1) /\ k \in Nat
            /\ DropBranch # <<>> => Len(r) >= 2
            /\ r[Len(r)] = current
            /\ \A i \in 1..(Len(r) - 1) : r[i] = undoQueue[i + k]
            /\ \A i \in 1..Len(r) : r[i] <= current
            /\ Ascending(r)
<1> DEFINE d == DropBranch
           m == MakeRoom(d)
           r == Recorded
           k == Len(d) - Len(m)
<1>1. /\ d \in Seq(0..created) /\ Len(d) \in Nat /\ Len(d) <= Len(undoQueue)
      /\ \A i \in 1..Len(d) : d[i] = undoQueue[i] /\ d[i] <= current
  BY DropBranchKeepsOlder
<1>2. /\ m \in Seq(0..created) /\ Len(m) \in Nat
      /\ Len(m) <= Steps /\ Len(m) <= Len(d)
      /\ d # <<>> => Len(m) >= 1
      /\ \A i \in 1..Len(m) : m[i] = d[i + k]
  <2> HIDE DEF d
  <2> QED BY <1>1, MakeRoomKeepsNewest
<1>3. current \in 0..created /\ current \in Nat /\ Steps \in Nat
  BY StepsIsTwo DEF UndoIInv, TypeOK
<1>4. /\ r \in Seq(0..created)
      /\ Len(r) = Len(m) + 1
      /\ \A i \in 1..Len(m) : r[i] = m[i]
      /\ r[Len(m) + 1] = current
  <2>1. r = Append(m, current)
    BY DEF Recorded
  <2> HIDE DEF m, r
  <2> QED BY <2>1, <1>2, <1>3, AppendProperties
<1>5. k \in Nat /\ Len(d) - (Len(r) - 1) = k
  BY <1>1, <1>2, <1>4
<1>6. ASSUME NEW i \in 1..(Len(r) - 1)
      PROVE  /\ i + k \in 1..Len(d)
             /\ r[i] = undoQueue[i + k] /\ r[i] <= current
  <2>1. i \in 1..Len(m) /\ i + k \in 1..Len(d)
    BY <1>1, <1>2, <1>4, <1>5
  <2> QED BY <2>1, <1>1, <1>2, <1>4
<1>7. \A i \in 1..Len(r) : r[i] <= current
  <2> TAKE i \in 1..Len(r)
  <2>1. CASE i = Len(r)
    BY <2>1, <1>2, <1>3, <1>4
  <2>2. CASE i # Len(r)
    BY <2>2, <1>2, <1>4, <1>6
  <2> QED BY <2>1, <2>2
<1>8. Ascending(r)
  <2> SUFFICES ASSUME NEW i \in 1..Len(r), NEW j \in 1..Len(r), i <= j
               PROVE  r[i] <= r[j]
    BY DEF Ascending
  <2>1. CASE j = Len(r)
    BY <2>1, <1>2, <1>4, <1>7
  <2>2. CASE j # Len(r)
    <3>1. i \in 1..(Len(r) - 1) /\ j \in 1..(Len(r) - 1)
      BY <2>2, <1>2, <1>4
    <3>2. /\ i + k \in 1..Len(undoQueue) /\ j + k \in 1..Len(undoQueue)
          /\ i + k <= j + k
      BY <3>1, <1>1, <1>5, <1>6
    <3>3. undoQueue[i + k] <= undoQueue[j + k]
      BY <3>2 DEF UndoIInv, Ascending
    <3> QED BY <3>1, <3>3, <1>6
  <2> QED BY <2>1, <2>2
<1>9. Len(r) \in 1..(Steps + 1) /\ (d # <<>> => Len(r) >= 2) /\ r[Len(r)] = current
  BY <1>2, <1>3, <1>4
<1> HIDE DEF r, d, m, k
<1> QED BY <1>4, <1>5, <1>6, <1>7, <1>8, <1>9 DEF r, d

-----------------------------------------------------------------------------
(* The invariant is inductive.                                             *)

LEMMA UndoInitEstablishes == UndoInit => UndoIInv
  BY StepsIsTwo DEF UndoInit, UndoIInv, TypeOK, PresentRecorded, Ascending, NothingNewer

\* A refused edit leaves the layout as it was, with the refused one above it.
LEMMA RefusedEditRecords ==
  ASSUME UndoIInv, RefusedEdit
  PROVE  LET m == MakeRoom(Recorded)
         IN /\ m \in Seq(0..created) /\ Len(m) \in 1..Steps
            /\ \A i \in 1..Len(m) : m[i] = Recorded[i + (Len(Recorded) - Len(m))]
            /\ undoQueue' = Append(m, created + 1)
            /\ undoQueue' \in Seq(0..created') /\ Len(undoQueue') = Len(m) + 1
            /\ \A i \in 1..Len(m) : undoQueue'[i] = m[i]
            /\ undoQueue'[Len(m) + 1] = created + 1
            /\ m[Len(m)] = current /\ current' = current
<1> DEFINE r == Recorded
           m == MakeRoom(r)
<1>1. /\ r \in Seq(0..created) /\ Len(r) \in 1..(Steps + 1) /\ r[Len(r)] = current
      /\ created \in Nat
  BY RecordedEndsWithCurrent DEF UndoIInv, TypeOK
<1>2. /\ m \in Seq(0..created) /\ Len(m) \in 1..Steps /\ Len(m) <= Len(r)
      /\ \A i \in 1..Len(m) : m[i] = r[i + (Len(r) - Len(m))]
  <2>1. r # <<>>
    BY <1>1
  <2>2. /\ m \in Seq(0..created) /\ Len(m) <= Steps /\ Len(m) <= Len(r) /\ Len(m) >= 1
        /\ \A i \in 1..Len(m) : m[i] = r[i + (Len(r) - Len(m))]
    <3> HIDE DEF r
    <3> QED BY <1>1, <2>1, MakeRoomKeepsNewest
  <2> HIDE DEF m, r
  <2> QED BY <2>2, StepsIsTwo
<1>3. m \in Seq(0..created') /\ created + 1 \in 0..created' /\ created' = created + 1
  <2>1. created' = created + 1
    BY DEF RefusedEdit
  <2>2. \A i \in 1..Len(m) : m[i] \in 0..created'
    <3> HIDE DEF m
    <3> TAKE i \in 1..Len(m)
    <3>1. m[i] \in 0..created
      BY <1>1, <1>2, ElementOfSeq
    <3>2. created \in Nat
      BY <1>1
    <3>3. 0..created \subseteq 0..created'
      BY <2>1, <3>2
    <3> QED BY <3>1, <3>3
  <2> HIDE DEF m
  <2> QED BY <1>1, <1>2, <2>1, <2>2
<1>4. undoQueue' = Append(m, created + 1)
  BY DEF RefusedEdit
<1>5. /\ undoQueue' \in Seq(0..created') /\ Len(undoQueue') = Len(m) + 1
      /\ \A i \in 1..Len(m) : undoQueue'[i] = m[i]
      /\ undoQueue'[Len(m) + 1] = created + 1
  <2> HIDE DEF m
  <2> QED BY <1>3, <1>4, AppendProperties
<1>6. m[Len(m)] = current
  <2> HIDE DEF m, r
  <2>1. Len(m) \in 1..Len(m) /\ Len(m) + (Len(r) - Len(m)) = Len(r)
    BY <1>1, <1>2
  <2> QED BY <2>1, <1>1, <1>2
<1>7. current' = current
  <2>1. current' = undoQueue'[Len(undoQueue') - 1]
    BY DEF RefusedEdit
  <2>2. Len(undoQueue') - 1 = Len(m) /\ Len(m) \in 1..Len(m)
    <3> HIDE DEF m
    <3> QED BY <1>2, <1>5
  <2> HIDE DEF m
  <2> QED BY <1>5, <1>6, <2>1, <2>2
<1> HIDE DEF m, r
<1> QED BY <1>2, <1>4, <1>5, <1>6, <1>7 DEF m, r

\* What undo() reads, and where.
LEMMA UndoReads ==
  ASSUME UndoIInv, CanUndo
  PROVE  LET s == UndoSource
             d == UndoDepth
         IN /\ s \in Seq(0..created) /\ Len(s) <= Steps + 1 /\ Ascending(s)
            /\ d \in Nat /\ d >= 1 /\ d + 1 <= Len(s)
            /\ s[Len(s) - d + 1] = current
            /\ Len(s) - d \in 1..Len(s)
<1>1. CASE undoCounter = 0
  <2>1. UndoSource = Recorded /\ UndoDepth = 1
    BY <1>1 DEF UndoSource, UndoDepth
  <2>2. DropBranch # <<>>
    BY <1>1, DropBranchKeepsOlder DEF CanUndo
  <2>3. /\ Recorded \in Seq(0..created) /\ Len(Recorded) \in 1..(Steps + 1)
        /\ Len(Recorded) >= 2 /\ Recorded[Len(Recorded)] = current
        /\ Ascending(Recorded)
    BY <2>2, RecordedEndsWithCurrent
  <2>4. Len(Recorded) - 1 + 1 = Len(Recorded) /\ Len(Recorded) - 1 \in 1..Len(Recorded)
        /\ Len(Recorded) <= Steps + 1
    BY <2>3, StepsIsTwo
  <2> QED BY <2>1, <2>3, <2>4
<1>2. CASE undoCounter # 0
  <2>1. UndoSource = undoQueue /\ UndoDepth = undoCounter
    BY <1>2 DEF UndoSource, UndoDepth
  <2>2. /\ undoQueue \in Seq(0..created) /\ Len(undoQueue) <= Steps + 1
        /\ undoCounter \in Nat /\ undoCounter >= 1 /\ undoCounter + 1 <= Len(undoQueue)
        /\ undoQueue # <<>> /\ Ascending(undoQueue)
    BY <1>2 DEF UndoIInv, TypeOK, CanUndo
  <2>3. undoQueue[Len(undoQueue) - undoCounter + 1] = current
    BY <2>2 DEF UndoIInv, PresentRecorded
  <2>4. Len(undoQueue) - undoCounter \in 1..Len(undoQueue)
    BY <2>2
  <2> QED BY <2>1, <2>2, <2>3, <2>4
<1> QED BY <1>1, <1>2

LEMMA UndoNextPreserves ==
  ASSUME UndoIInv, [UndoNext]_undoVars
  PROVE  UndoIInv'
<1> USE StepsIsTwo
<1>0. /\ undoQueue \in Seq(0..created) /\ Len(undoQueue) <= Steps + 1
      /\ undoCounter \in Nat /\ current \in 0..created /\ created \in Nat
  BY DEF UndoIInv, TypeOK
<1>r. /\ Recorded \in Seq(0..created) /\ Len(Recorded) \in 1..(Steps + 1)
      /\ Recorded[Len(Recorded)] = current
      /\ \A i \in 1..Len(Recorded) : Recorded[i] <= current
      /\ Ascending(Recorded)
  BY RecordedEndsWithCurrent
<1>1. CASE Edit
  <2>1. /\ undoQueue' = Recorded /\ undoCounter' = 0
        /\ created' = created + 1 /\ current' = created + 1
    BY <1>1 DEF Edit
  <2>2. Recorded \in Seq(0..created')
    <3>1. 0..created \subseteq 0..created'
      BY <1>0, <2>1
    <3> QED BY <1>r, <3>1, SeqMonotonic
  <2>3. \A i \in 1..Len(Recorded) : Recorded[i] <= current'
    BY <1>0, <1>r, <2>1
  <2> QED BY <1>0, <1>r, <2>1, <2>2, <2>3
          DEF UndoIInv, TypeOK, PresentRecorded, Ascending, NothingNewer
<1>2. CASE FailedEdit
  BY <1>0, <1>r, <1>2
     DEF FailedEdit, UndoIInv, TypeOK, PresentRecorded, Ascending, NothingNewer
<1>3. CASE RefusedEdit
  <2> DEFINE m == MakeRoom(Recorded)
  <2>1. /\ m \in Seq(0..created) /\ Len(m) \in 1..Steps
        /\ \A i \in 1..Len(m) : m[i] = Recorded[i + (Len(Recorded) - Len(m))]
        /\ undoQueue' \in Seq(0..created') /\ Len(undoQueue') = Len(m) + 1
        /\ \A i \in 1..Len(m) : undoQueue'[i] = m[i]
        /\ undoQueue'[Len(m) + 1] = created + 1
        /\ m[Len(m)] = current /\ current' = current
    BY <1>3, RefusedEditRecords
  <2>2. undoCounter' = 2 /\ created' = created + 1
    BY <1>3 DEF RefusedEdit
  <2>3. Len(m) <= Len(Recorded)
    <3>1. Recorded \in Seq(0..created)
      BY <1>r
    <3> QED BY <3>1, MakeRoomKeepsNewest
  <2> HIDE DEF m
  <2>4. Ascending(undoQueue)'
    <3> SUFFICES ASSUME NEW i \in 1..Len(undoQueue'), NEW j \in 1..Len(undoQueue'), i <= j
                 PROVE  undoQueue'[i] <= undoQueue'[j]
      BY DEF Ascending
    <3>1. CASE j = Len(m) + 1
      <4>1. undoQueue'[i] \in 0..created'
        BY <2>1, ElementOfSeq
      <4> QED BY <3>1, <4>1, <2>1, <2>2, <1>0
    <3>2. CASE j # Len(m) + 1
      <4> DEFINE k == Len(Recorded) - Len(m)
      <4>1. i \in 1..Len(m) /\ j \in 1..Len(m)
        BY <2>1, <3>2
      <4>2. i + k \in 1..Len(Recorded) /\ j + k \in 1..Len(Recorded) /\ i + k <= j + k
        BY <1>r, <2>1, <2>3, <4>1
      <4>3. Recorded[i + k] <= Recorded[j + k]
        BY <1>r, <4>2 DEF Ascending
      <4> QED BY <2>1, <4>1, <4>3
    <3> QED BY <3>1, <3>2
  <2>5. PresentRecorded'
    <3>1. Len(undoQueue') - 2 + 1 = Len(m) /\ Len(m) \in 1..Len(m)
      BY <2>1
    <3>2. undoQueue'[Len(m)] = current'
      BY <2>1, <3>1
    <3> QED BY <2>1, <2>2, <3>1, <3>2 DEF PresentRecorded
  <2> QED BY <1>0, <2>1, <2>2, <2>4, <2>5 DEF UndoIInv, TypeOK, NothingNewer
<1>4. CASE Undo
  <2> DEFINE s == UndoSource
             d == UndoDepth
  <2>1. /\ s \in Seq(0..created) /\ Len(s) <= Steps + 1 /\ Ascending(s)
        /\ d \in Nat /\ d >= 1 /\ d + 1 <= Len(s)
        /\ Len(s) - d \in 1..Len(s)
    BY <1>4, UndoReads DEF Undo
  <2>2. /\ undoQueue' = s /\ current' = s[Len(s) - d]
        /\ undoCounter' = d + 1 /\ created' = created
    BY <1>4 DEF Undo, UndoIndex
  <2> HIDE DEF s, d
  <2>3. current' \in 0..created
    BY <2>1, <2>2, ElementOfSeq
  <2>4. Len(s) - undoCounter' + 1 = Len(s) - d
    BY <2>1, <2>2
  <2> QED BY <1>0, <2>1, <2>2, <2>3, <2>4
          DEF UndoIInv, TypeOK, PresentRecorded, Ascending, NothingNewer
<1>5. CASE Redo
  <2>1. /\ undoQueue' = undoQueue /\ created' = created
        /\ undoCounter' = undoCounter - 1 /\ current' = undoQueue[RedoIndex]
        /\ undoCounter >= 2 /\ undoCounter <= Len(undoQueue)
    BY <1>5 DEF Redo, CanRedo
  <2>2. RedoIndex \in 1..Len(undoQueue) /\ RedoIndex = Len(undoQueue) - undoCounter' + 1
    BY <1>0, <2>1 DEF RedoIndex
  <2>3. current' \in 0..created
    BY <1>0, <2>1, <2>2, ElementOfSeq
  <2> QED BY <1>0, <2>1, <2>2, <2>3
          DEF UndoIInv, TypeOK, PresentRecorded, Ascending, NothingNewer
<1>6. CASE Clear
  BY <1>0, <1>6 DEF Clear, UndoIInv, TypeOK, PresentRecorded, Ascending, NothingNewer
<1>7. CASE UNCHANGED undoVars
  BY <1>7 DEF undoVars, UndoIInv, TypeOK, PresentRecorded, Ascending, NothingNewer
<1> QED BY <1>1, <1>2, <1>3, <1>4, <1>5, <1>6, <1>7 DEF UndoNext

LEMMA UndoGivesIndexes == UndoIInv => AtInRange
<1> SUFFICES ASSUME UndoIInv PROVE AtInRange
  OBVIOUS
<1>1. CanUndo => UndoIndex \in DOMAIN UndoSource
  <2> SUFFICES ASSUME CanUndo PROVE UndoIndex \in DOMAIN UndoSource
    OBVIOUS
  <2> DEFINE s == UndoSource
  <2>1. s \in Seq(0..created) /\ UndoIndex \in 1..Len(s)
    BY UndoReads DEF UndoIndex
  <2> HIDE DEF s
  <2>2. DOMAIN s = 1..Len(s)
    BY <2>1
  <2> QED BY <2>1, <2>2 DEF s
<1>2. CanRedo => RedoIndex \in DOMAIN undoQueue
  BY DEF CanRedo, RedoIndex, UndoIInv, TypeOK
<1>3. undoCounter > 1 /\ Len(undoQueue) > 1 => undoCounter <= Len(undoQueue)
  BY DEF UndoIInv, TypeOK, PresentRecorded
<1> QED BY <1>1, <1>2, <1>3 DEF AtInRange

(* Every reachable state satisfies the inductive invariant. *)
THEOREM UndoInvariance == UndoSpec => []UndoIInv
  BY UndoInitEstablishes, UndoNextPreserves, PTL DEF UndoSpec

(* The vector stays below its limit and holds layouts that exist (lines 46 *)
(* to 57 of ADM_edUndoQueue.cpp).                                          *)
THEOREM UndoTypeCorrect == UndoSpec => []TypeOK
<1>1. UndoIInv => TypeOK
  BY DEF UndoIInv
<1> QED BY <1>1, UndoInvariance, PTL

(* at() is never given an index outside of the vector, and pop_back() is   *)
(* never called on an empty one (lines 32, 80 and 101).                    *)
THEOREM IndexesInRange == UndoSpec => []AtInRange
  BY UndoGivesIndexes, UndoInvariance, PTL

(* The record the counter designates is the layout on screen (lines 80-85, *)
(* 101-106), so an edit after some undo drops what lies beyond it only.    *)
THEOREM CounterDesignatesPresent == UndoSpec => []PresentRecorded
<1>1. UndoIInv => PresentRecorded
  BY DEF UndoIInv
<1> QED BY <1>1, UndoInvariance, PTL

-----------------------------------------------------------------------------
(* The undo queue implements the history.                                  *)

ValuesOf(q) == {q[i] : i \in 1..Len(q)}

\* What is newest in a set of numbers is unique, and so is what is oldest.
LEMMA NewestIs ==
  ASSUME NEW S \in SUBSET Int, NEW x \in S, \A y \in S : y <= x
  PROVE  History!Newest(S) = x
<1>1. \A z \in S : (\A y \in S : y <= z) => z = x
  OBVIOUS
<1> QED BY <1>1 DEF History!Newest

LEMMA OldestIs ==
  ASSUME NEW S \in SUBSET Int, NEW x \in S, \A y \in S : x <= y
  PROVE  History!Oldest(S) = x
<1>1. \A z \in S : (\A y \in S : z <= y) => z = x
  OBVIOUS
<1> QED BY <1>1 DEF History!Oldest

\* The end of an ascending sequence is what remains when the oldest go.
LEMMA SuffixForgetsOldest ==
  ASSUME NEW q \in Seq(Int), Ascending(q),
         NEW s \in Seq(Int), Len(s) <= Len(q),
         \A i \in 1..Len(s) : s[i] = q[i + (Len(q) - Len(s))]
  PROVE  History!ForgetsOldest(ValuesOf(q), ValuesOf(s))
<1> DEFINE k == Len(q) - Len(s)
<1>0. k \in Nat /\ Len(q) \in Nat /\ Len(s) \in Nat
  OBVIOUS
<1>1. \A i \in 1..Len(s) : i + k \in 1..Len(q) /\ s[i] = q[i + k]
  BY <1>0
<1> HIDE DEF k
<1>2. ValuesOf(s) \subseteq ValuesOf(q)
  <2> SUFFICES ASSUME NEW y \in ValuesOf(s) PROVE y \in ValuesOf(q)
    OBVIOUS
  <2>1. PICK i \in 1..Len(s) : y = s[i]
    BY DEF ValuesOf
  <2>2. i + k \in 1..Len(q) /\ y = q[i + k]
    BY <1>1, <2>1
  <2> QED BY <2>2 DEF ValuesOf
<1>3. ASSUME NEW x \in ValuesOf(q) \ ValuesOf(s), NEW y \in ValuesOf(s)
      PROVE  x < y
  <2>1. PICK j \in 1..Len(q) : x = q[j]
    BY <1>3 DEF ValuesOf
  <2>2. PICK i \in 1..Len(s) : y = s[i]
    BY <1>3 DEF ValuesOf
  <2>3. j <= k
    <3> SUFFICES ASSUME j > k PROVE FALSE
      BY <1>0
    <3>1. j - k \in 1..Len(s) /\ (j - k) + k = j
      BY <1>0 DEF k
    <3>2. s[j - k] = q[j]
      BY <1>1, <3>1
    <3> QED BY <2>1, <3>1, <3>2 DEF ValuesOf
  <2>4. i + k \in 1..Len(q) /\ y = q[i + k] /\ j <= i + k
    BY <1>0, <1>1, <2>2, <2>3
  <2>5. x <= y
    BY <2>1, <2>4 DEF Ascending
  <2>6. x # y
    OBVIOUS
  <2>7. x \in Int /\ y \in Int
    BY <2>1, <2>4, ElementOfSeq
  <2> QED BY <2>5, <2>6, <2>7
<1> QED BY <1>2, <1>3 DEF History!ForgetsOldest

\* Forgetting twice is forgetting.
LEMMA ForgetsOldestTwice ==
  ASSUME NEW S, NEW T, NEW U,
         History!ForgetsOldest(S, T), History!ForgetsOldest(T, U)
  PROVE  History!ForgetsOldest(S, U)
  BY DEF History!ForgetsOldest

\* A layout that is kept can be left out of both sides.
LEMMA ForgetsOldestWithout ==
  ASSUME NEW S, NEW T, NEW c, History!ForgetsOldest(S, T), c \in T
  PROVE  History!ForgetsOldest(S \ {c}, T \ {c})
  BY DEF History!ForgetsOldest

-----------------------------------------------------------------------------
(* Past, present and future in terms of the vector.                        *)

LEMMA PastIs ==
  ASSUME UndoIInv
  PROVE  /\ Past = {undoQueue[i] : i \in {j \in 1..Len(undoQueue) : j < Position}} \ {current}
         /\ Future = {undoQueue[i] : i \in {j \in 1..Len(undoQueue) : j > Position}} \ {current}
         /\ Past \subseteq Nat /\ Future \subseteq Nat /\ current \in Nat
         /\ Position \in Int
         /\ \A i \in 1..Len(undoQueue) : undoQueue[i] \in Nat
<1>1. /\ undoQueue \in Seq(0..created) /\ DOMAIN undoQueue = 1..Len(undoQueue)
      /\ undoCounter \in Nat /\ current \in Nat
  BY DEF UndoIInv, TypeOK
<1>2. \A i \in 1..Len(undoQueue) : undoQueue[i] \in Nat
  <2> TAKE i \in 1..Len(undoQueue)
  <2>1. undoQueue[i] \in 0..created
    BY <1>1, ElementOfSeq
  <2> QED BY <2>1
<1> QED BY <1>1, <1>2 DEF Past, Future, Position

\* Recording forgets nothing but the oldest layouts.
LEMMA RecordingForgetsOldest ==
  ASSUME UndoIInv
  PROVE  /\ History!ForgetsOldest(Past \cup {current}, ValuesOf(Recorded))
         /\ current \in ValuesOf(Recorded)
         /\ ValuesOf(Recorded) \subseteq Nat
<1> DEFINE r == Recorded
           d == DropBranch
           n == Len(undoQueue)
           k == Len(d) - (Len(r) - 1)
<1>1. /\ r \in Seq(0..created) /\ Len(r) \in Nat /\ Len(r) >= 1 /\ k \in Nat
      /\ r[Len(r)] = current
      /\ \A i \in 1..(Len(r) - 1) : r[i] = undoQueue[i + k]
  BY RecordedEndsWithCurrent
<1>2. /\ Len(d) \in Nat /\ Len(d) <= n
      /\ \A i \in 1..Len(d) : undoQueue[i] <= current
  BY DropBranchKeepsOlder
<1>3. /\ n \in Nat /\ undoCounter \in Nat /\ current \in Nat /\ Ascending(undoQueue)
      /\ undoQueue # <<>> <=> n > 0
  BY DEF UndoIInv, TypeOK
<1>4. /\ Past = {undoQueue[i] : i \in {j \in 1..n : j < Position}} \ {current}
      /\ \A i \in 1..n : undoQueue[i] \in Nat
  BY PastIs
\* The records DropBranch keeps are the past, but for copies of the present.
<1>5. \A j \in 1..n : j <= Len(d) => undoQueue[j] \in Past \cup {current}
  <2> SUFFICES ASSUME NEW j \in 1..n, j <= Len(d), undoQueue[j] # current
               PROVE  j < Position
    BY <1>4
  <2>1. CASE undoCounter = 0
    BY <2>1, <1>3 DEF Position
  <2>2. CASE undoCounter = 1
    <3>1. undoQueue[n] = current
      BY <1>3, <2>2 DEF UndoIInv, PresentRecorded
    <3> QED BY <2>2, <3>1, <1>3 DEF Position
  <2>3. CASE undoCounter > 1
    <3>1. Len(d) = n - undoCounter
      BY <1>3, <2>3, DropBranchKeepsOlder
    <3> QED BY <2>3, <3>1, <1>3 DEF Position
  <2> QED BY <1>3, <2>1, <2>2, <2>3
<1>6. \A j \in 1..n : j < Position => j <= Len(d)
  <2> SUFFICES ASSUME NEW j \in 1..n, j < Position PROVE j <= Len(d)
    OBVIOUS
  <2>1. CASE undoCounter <= 1
    BY <2>1, <1>3, DropBranchKeepsOlder
  <2>2. CASE undoCounter > 1
    <3>1. Len(d) = n - undoCounter
      BY <1>3, <2>2, DropBranchKeepsOlder
    <3> QED BY <2>2, <3>1, <1>3 DEF Position
  <2> QED BY <1>3, <2>1, <2>2
<1> HIDE DEF r, d, k
<1>7. \A i \in 1..Len(r) : r[i] \in 0..created
  BY <1>1, ElementOfSeq
<1>8. current \in ValuesOf(r) /\ ValuesOf(r) \subseteq Nat
  <2>1. Len(r) \in 1..Len(r)
    BY <1>1
  <2> QED BY <1>1, <1>7, <2>1 DEF ValuesOf
<1>9. ASSUME NEW i \in 1..(Len(r) - 1)
      PROVE  i + k \in 1..Len(d) /\ i + k \in 1..n
  BY <1>1, <1>2, <1>3 DEF k
<1>10. ValuesOf(r) \subseteq Past \cup {current}
  <2> SUFFICES ASSUME NEW i \in 1..Len(r) PROVE r[i] \in Past \cup {current}
    BY DEF ValuesOf
  <2>1. CASE i = Len(r)
    BY <2>1, <1>1
  <2>2. CASE i # Len(r)
    <3>1. i \in 1..(Len(r) - 1)
      BY <1>1, <2>2
    <3>2. i + k \in 1..n /\ i + k <= Len(d) /\ r[i] = undoQueue[i + k]
      BY <1>1, <1>2, <1>9, <3>1
    <3> QED BY <1>5, <3>2
  <2> QED BY <2>1, <2>2
<1>11. ASSUME NEW x \in (Past \cup {current}) \ ValuesOf(r), NEW y \in ValuesOf(r)
       PROVE  x < y
  <2>1. PICK j \in 1..n : j < Position /\ x = undoQueue[j]
    BY <1>4, <1>8
  <2>2. j <= Len(d) /\ x \in Nat /\ x <= current /\ x # current
    BY <1>2, <1>4, <1>6, <1>8, <2>1
  <2>3. j <= k
    <3> SUFFICES ASSUME j > k PROVE FALSE
      BY <1>1
    <3>1. j - k \in 1..(Len(r) - 1) /\ j - k \in 1..Len(r) /\ (j - k) + k = j
      BY <1>1, <1>2, <2>2 DEF k
    <3>2. r[j - k] = undoQueue[j]
      BY <1>1, <3>1
    <3> QED BY <2>1, <3>1, <3>2 DEF ValuesOf
  <2>4. PICK i \in 1..Len(r) : y = r[i]
    BY DEF ValuesOf
  <2>5. CASE i = Len(r)
    BY <1>1, <1>3, <2>2, <2>4, <2>5
  <2>6. CASE i # Len(r)
    <3>1. i \in 1..(Len(r) - 1)
      BY <1>1, <2>6
    <3>2. i + k \in 1..n /\ y = undoQueue[i + k] /\ j <= i + k
      BY <1>1, <1>9, <2>3, <2>4, <3>1
    <3>3. x <= y /\ y \in Nat
      BY <1>3, <1>4, <2>1, <3>2 DEF Ascending
    <3>4. x # y
      BY <1>11
    <3> QED BY <2>2, <3>3, <3>4
  <2> QED BY <2>5, <2>6
<1> QED BY <1>8, <1>10, <1>11 DEF r, History!ForgetsOldest

\* Nothing can be redone right after a record was made.
LEMMA NoFutureAfterRecord ==
  ASSUME UndoIInv, undoCounter = 0
  PROVE  Future = {} /\ Past = ValuesOf(undoQueue) \ {current}
<1>1. Len(undoQueue) \in Nat /\ Position = Len(undoQueue) + 1
  BY DEF Position, UndoIInv, TypeOK
<1>2. \A i \in 1..Len(undoQueue) : i < Position /\ ~(i > Position)
  BY <1>1
<1>3. {undoQueue[i] : i \in {j \in 1..Len(undoQueue) : j > Position}} = {}
  BY <1>2
<1>4. {j \in 1..Len(undoQueue) : j < Position} = 1..Len(undoQueue)
  BY <1>2
<1> QED BY <1>3, <1>4, PastIs DEF ValuesOf

\* An edit that changes nothing, in the history: what remains of the past.
LEMMA RecordingWithoutPresent ==
  ASSUME UndoIInv
  PROVE  History!ForgetsOldest(Past, ValuesOf(Recorded) \ {current})
<1>1. History!ForgetsOldest((Past \cup {current}) \ {current},
                            ValuesOf(Recorded) \ {current})
  BY RecordingForgetsOldest, ForgetsOldestWithout
<1>2. (Past \cup {current}) \ {current} = Past
  BY DEF Past
<1> QED BY <1>1, <1>2

LEMMA EditImplements ==
  ASSUME UndoIInv, UndoIInv', Edit
  PROVE  History!Edit
<1>1. /\ undoQueue' = Recorded /\ undoCounter' = 0
      /\ current' = created + 1
  BY DEF Edit
<1>2. current' > current
  BY <1>1 DEF UndoIInv, TypeOK
<1>3. \A x \in ValuesOf(Recorded) : x <= current
  BY RecordedEndsWithCurrent DEF ValuesOf
<1>4. Future' = {} /\ Past' = ValuesOf(Recorded)
  <2>0. (undoCounter = 0)'
    BY <1>1
  <2>1. (Future = {} /\ Past = ValuesOf(undoQueue) \ {current})'
    BY <2>0, NoFutureAfterRecord, PTL
  <2>2. current' \notin ValuesOf(Recorded)
    BY <1>2, <1>3, RecordingForgetsOldest DEF UndoIInv, TypeOK
  <2> QED BY <1>1, <2>1, <2>2 DEF ValuesOf
<1> QED BY <1>2, <1>4, RecordingForgetsOldest DEF History!Edit

LEMMA FailedEditImplements ==
  ASSUME UndoIInv, UndoIInv', FailedEdit
  PROVE  History!IdleEdit
<1>1. undoQueue' = Recorded /\ undoCounter' = 0 /\ current' = current
  BY DEF FailedEdit
<1>2. (Future = {} /\ Past = ValuesOf(undoQueue) \ {current})'
  <2>1. (undoCounter = 0)'
    BY <1>1
  <2> QED BY <2>1, NoFutureAfterRecord, PTL
<1> QED BY <1>1, <1>2, RecordingWithoutPresent DEF History!IdleEdit, ValuesOf

LEMMA RefusedEditImplements ==
  ASSUME UndoIInv, UndoIInv', RefusedEdit
  PROVE  History!RefusedEdit
<1> DEFINE r == Recorded
           m == MakeRoom(Recorded)
<1>1. /\ m \in Seq(0..created) /\ Len(m) \in 1..Steps
      /\ \A i \in 1..Len(m) : m[i] = r[i + (Len(r) - Len(m))]
      /\ Len(undoQueue') = Len(m) + 1
      /\ \A i \in 1..Len(m) : undoQueue'[i] = m[i]
      /\ undoQueue'[Len(m) + 1] = created + 1
      /\ m[Len(m)] = current /\ current' = current
  BY RefusedEditRecords
<1>2. /\ r \in Seq(0..created) /\ Len(r) \in Nat /\ Ascending(r)
      /\ created \in Nat /\ current \in 0..created
  BY RecordedEndsWithCurrent DEF UndoIInv, TypeOK
<1>3. Len(m) <= Len(r)
  BY <1>2, MakeRoomKeepsNewest
<1>4. undoCounter' = 2
  BY DEF RefusedEdit
<1> HIDE DEF m, r
<1>5. Position' = Len(m)
  BY <1>1, <1>4 DEF Position
<1>6. (/\ Past = {undoQueue[i] : i \in {j \in 1..Len(undoQueue) : j < Position}} \ {current}
       /\ Future = {undoQueue[i] : i \in {j \in 1..Len(undoQueue) : j > Position}} \ {current})'
  BY PastIs, PTL
<1>7. Past' = ValuesOf(m) \ {current}
  <2>1. \A i \in 1..Len(m) : m[i] # current => i < Len(m)
    BY <1>1
  <2>2. \A i \in 1..Len(undoQueue') : i < Len(m) => i \in 1..Len(m) /\ undoQueue'[i] = m[i]
    BY <1>1
  <2>3. \A i \in 1..Len(m) : i \in 1..Len(undoQueue')
    BY <1>1
  <2> QED BY <1>1, <1>5, <1>6, <2>1, <2>2, <2>3 DEF ValuesOf
<1>8. Future' = {created + 1} /\ created + 1 > current
  <2>1. {j \in 1..Len(undoQueue') : j > Position'} = {Len(m) + 1}
    BY <1>1, <1>5
  <2>2. undoQueue'[Len(m) + 1] = created + 1 /\ current' = current
    BY <1>1
  <2>3. created + 1 > current
    BY <1>2
  <2>4. Future' = {undoQueue'[i] : i \in {Len(m) + 1}} \ {current}
    BY <1>6, <2>1, <2>2
  <2>5. {undoQueue'[i] : i \in {Len(m) + 1}} = {created + 1}
    BY <2>2
  <2>6. current # created + 1
    BY <1>2
  <2> QED BY <2>3, <2>4, <2>5, <2>6
<1>9. History!ForgetsOldest(ValuesOf(r), ValuesOf(m))
  <2>1. r \in Seq(Int) /\ m \in Seq(Int)
    BY <1>1, <1>2, SeqMonotonic
  <2> QED BY <1>1, <1>2, <1>3, <2>1, SuffixForgetsOldest
<1>10. current \in ValuesOf(m)
  <2>1. Len(m) \in 1..Len(m)
    BY <1>1
  <2> QED BY <1>1, <2>1 DEF ValuesOf
<1>11. History!ForgetsOldest(ValuesOf(r) \ {current}, ValuesOf(m) \ {current})
  BY <1>9, <1>10, ForgetsOldestWithout
<1>12. History!ForgetsOldest(Past, ValuesOf(m) \ {current})
  BY <1>11, RecordingWithoutPresent, ForgetsOldestTwice DEF r
<1> QED BY <1>1, <1>7, <1>8, <1>12 DEF History!RefusedEdit

LEMMA ClearImplements ==
  ASSUME UndoIInv, Clear
  PROVE  History!Clear
<1>1. Past' = {} /\ Future' = {}
  BY DEF Clear, Past, Future
<1>2. current' >= current
  BY DEF Clear, UndoIInv, TypeOK
<1> QED BY <1>1, <1>2 DEF History!Clear

\* The first undo after a record: the layout goes to the future, or the top
\* record is a copy of it and nothing is seen to change.
LEMMA FirstUndoImplements ==
  ASSUME UndoIInv, UndoIInv', Undo, undoCounter = 0
  PROVE  History!Undo \/ History!IdleEdit
<1> DEFINE r == Recorded
           L == Len(Recorded)
           n == Len(undoQueue)
           k == Len(DropBranch) - (L - 1)
<1>1. undoQueue' = r /\ undoCounter' = 2 /\ current' = r[L - 1]
  BY DEF Undo, UndoSource, UndoIndex, UndoDepth
<1>2. DropBranch = undoQueue /\ undoQueue # <<>>
  BY DropBranchKeepsOlder DEF Undo, CanUndo
<1>3. /\ r \in Seq(0..created) /\ L \in Nat /\ L >= 2 /\ r[L] = current /\ k \in Nat
      /\ \A i \in 1..(L - 1) : r[i] = undoQueue[i + k]
      /\ \A i \in 1..L : r[i] <= current
      /\ Ascending(r)
  BY <1>2, RecordedEndsWithCurrent
<1>4. /\ n \in Nat /\ n >= 1 /\ k = n - (L - 1) /\ Ascending(undoQueue)
      /\ \A i \in 1..n : undoQueue[i] \in Nat
      /\ current \in Nat
  <2>1. n \in Nat /\ n >= 1
    BY <1>2 DEF UndoIInv, TypeOK
  <2>2. k = n - (L - 1)
    BY <1>2
  <2>3. Ascending(undoQueue)
    BY DEF UndoIInv
  <2>4. current \in Nat /\ \A i \in 1..n : undoQueue[i] \in Nat
    BY PastIs
  <2> HIDE DEF r, L, n, k
  <2> QED BY <2>1, <2>2, <2>3, <2>4
<1>5. current' = undoQueue[n] /\ current' \in Nat
  BY <1>1, <1>3, <1>4
<1>6. Position' = L - 1
  BY <1>1, <1>3 DEF Position
<1>7. (/\ Past = {undoQueue[i] : i \in {j \in 1..Len(undoQueue) : j < Position}} \ {current}
       /\ Future = {undoQueue[i] : i \in {j \in 1..Len(undoQueue) : j > Position}} \ {current})'
  BY PastIs, PTL
<1>8. Future = {} /\ Past = ValuesOf(undoQueue) \ {current}
  BY NoFutureAfterRecord
<1>9. History!ForgetsOldest(Past, ValuesOf(r) \ {current})
  BY RecordingWithoutPresent
<1> HIDE DEF n, k
<1>10. Future' = {current} \ {current'}
  <2>1. \A j \in 1..L : j > L - 1 <=> j = L
    BY <1>3
  <2>2. L \in 1..L
    BY <1>3
  <2> QED BY <1>1, <1>3, <1>6, <1>7, <2>1, <2>2
<1>11. Past' = {r[i] : i \in 1..(L - 2)} \ {current'}
  <2>1. {j \in 1..L : j < L - 1} = 1..(L - 2)
    BY <1>3
  <2> QED BY <1>1, <1>6, <1>7, <2>1
<1>12. \A i \in 1..(L - 1) : i \in 1..L /\ r[i] <= current'
  <2> TAKE i \in 1..(L - 1)
  <2>1. i \in 1..L /\ L - 1 \in 1..L /\ i <= L - 1
    BY <1>3
  <2> QED BY <1>1, <1>3, <2>1 DEF Ascending
<1>13. CASE current' = current
  <2>1. ValuesOf(r) \ {current} = Past'
    <3>1. \A i \in 1..L : r[i] # current => i \in 1..(L - 2)
      <4> TAKE i \in 1..L
      <4>1. i = L \/ i = L - 1 \/ i \in 1..(L - 2)
        BY <1>3
      <4> QED BY <1>1, <1>3, <1>13, <4>1
    <3>2. 1..(L - 2) \subseteq 1..L
      BY <1>3
    <3> QED BY <1>11, <1>13, <3>1, <3>2 DEF ValuesOf
  <2> QED BY <1>9, <1>10, <1>13, <2>1 DEF History!IdleEdit
<1>14. CASE current' # current
  <2>1. current' < current
    <3>1. L - 1 \in 1..L
      BY <1>3
    <3>2. current' <= current
      BY <1>1, <1>3, <3>1
    <3> QED BY <3>2, <1>4, <1>5, <1>14
  <2>2. current' \in Past /\ \A y \in Past : y <= current'
    BY <1>4, <1>5, <1>8, <1>14 DEF ValuesOf, Ascending, n
  <2>3. History!Newest(Past) = current'
    <3>1. Past \in SUBSET Int
      BY PastIs
    <3> QED BY <2>2, <3>1, NewestIs
  <2>4. Past' = (ValuesOf(r) \ {current}) \ {current'}
    <3>1. \A i \in 1..L : r[i] # current /\ r[i] # current' => i \in 1..(L - 2)
      <4> TAKE i \in 1..L
      <4>1. i = L \/ i = L - 1 \/ i \in 1..(L - 2)
        BY <1>3
      <4> QED BY <1>1, <1>3, <4>1
    <3>2. \A i \in 1..(L - 2) : i \in 1..L /\ r[i] # current
      <4> TAKE i \in 1..(L - 2)
      <4>1. i \in 1..(L - 1) /\ i \in 1..L
        BY <1>3
      <4>2. r[i] \in 0..created
        BY <1>3, <4>1, ElementOfSeq
      <4>3. r[i] <= current'
        BY <1>12, <4>1
      <4> QED BY <1>4, <1>5, <2>1, <4>1, <4>2, <4>3
    <3> QED BY <1>11, <3>1, <3>2 DEF ValuesOf
  <2>5. current' \in ValuesOf(r) \ {current}
    <3>1. L - 1 \in 1..L
      BY <1>3
    <3> QED BY <1>1, <1>14, <3>1 DEF ValuesOf
  <2>6. History!ForgetsOldest(Past \ {current'}, Past')
    BY <1>9, <2>4, <2>5, ForgetsOldestWithout
  <2>7. Future' = Future \cup {current}
    BY <1>8, <1>10, <1>14
  <2> QED BY <2>2, <2>3, <2>6, <2>7 DEF History!Undo
<1> QED BY <1>13, <1>14

\* Undo and redo among the records: one step along the vector, or the next
\* record is a copy of the present and nothing is seen to change.
LEMMA LaterUndoImplements ==
  ASSUME UndoIInv, UndoIInv', Undo, undoCounter # 0
  PROVE  History!Undo \/ UNCHANGED History!vars
<1> DEFINE n == Len(undoQueue)
           p == Position
<1>1. /\ undoQueue' = undoQueue /\ undoCounter' = undoCounter + 1
      /\ current' = undoQueue[n - undoCounter]
  BY DEF Undo, UndoSource, UndoIndex, UndoDepth
<1>2. /\ undoCounter \in Nat /\ n \in Nat /\ undoCounter >= 1 /\ n >= undoCounter + 1
      /\ Ascending(undoQueue)
  BY DEF Undo, CanUndo, UndoIInv, TypeOK
<1>3. undoQueue[n - undoCounter + 1] = current
  BY <1>2 DEF UndoIInv, PresentRecorded
<1>4. /\ p = n - undoCounter + 1 /\ p \in 2..n
      /\ undoQueue[p] = current /\ current' = undoQueue[p - 1]
  BY <1>1, <1>2, <1>3 DEF Position
<1>5. Position' = p - 1
  BY <1>1, <1>2 DEF Position
<1>6. /\ Past = {undoQueue[i] : i \in {j \in 1..n : j < p}} \ {current}
      /\ Future = {undoQueue[i] : i \in {j \in 1..n : j > p}} \ {current}
      /\ \A i \in 1..n : undoQueue[i] \in Nat
  BY PastIs
<1>7. (/\ Past = {undoQueue[i] : i \in {j \in 1..Len(undoQueue) : j < Position}} \ {current}
       /\ Future = {undoQueue[i] : i \in {j \in 1..Len(undoQueue) : j > Position}} \ {current})'
  BY PastIs, PTL
<1>8. /\ Past' = {undoQueue[i] : i \in {j \in 1..n : j < p - 1}} \ {current'}
      /\ Future' = {undoQueue[i] : i \in {j \in 1..n : j > p - 1}} \ {current'}
  BY <1>1, <1>5, <1>7
<1> HIDE DEF n, p
<1>9. \A i \in 1..n : /\ i < p => undoQueue[i] <= current'
                      /\ i >= p => undoQueue[i] >= current
  BY <1>2, <1>4 DEF Ascending, n
<1>10. \A j \in 1..n : (j < p <=> j < p - 1 \/ j = p - 1) /\ (j > p - 1 <=> j > p \/ j = p)
  BY <1>2, <1>4
<1>11. p - 1 \in 1..n /\ p - 1 < p /\ p \in 1..n /\ current \in Nat /\ current' \in Nat
  BY <1>2, <1>4, <1>6
<1>12. CASE current' = current
  <2>1. Past' = Past
    BY <1>4, <1>6, <1>8, <1>10, <1>12
  <2>2. Future' = Future
    BY <1>4, <1>6, <1>8, <1>10, <1>12
  <2> QED BY <1>12, <2>1, <2>2 DEF History!vars
<1>13. CASE current' # current
  <2>1. current' < current
    <3>1. undoQueue[p - 1] <= undoQueue[p]
      BY <1>2, <1>11 DEF Ascending, n
    <3> QED BY <1>4, <1>11, <1>13, <3>1
  <2>2. current' \in Past /\ \A y \in Past : y <= current'
    BY <1>4, <1>6, <1>9, <1>11, <1>13
  <2>3. History!Newest(Past) = current'
    <3>1. Past \in SUBSET Int
      BY PastIs
    <3> QED BY <2>2, <3>1, NewestIs
  <2>4. Past' = Past \ {current'}
    <3>1. \A i \in 1..n : i < p => undoQueue[i] # current
      BY <1>6, <1>9, <1>11, <2>1
    <3> QED BY <1>4, <1>6, <1>8, <1>10, <3>1
  <2>5. Future' = Future \cup {current}
    <3>1. \A i \in 1..n : i > p - 1 => undoQueue[i] # current'
      BY <1>4, <1>6, <1>9, <1>10, <1>11, <2>1
    <3> QED BY <1>4, <1>6, <1>8, <1>10, <1>11, <3>1
  <2>6. History!ForgetsOldest(Past \ {current'}, Past')
    BY <2>4 DEF History!ForgetsOldest
  <2> QED BY <2>2, <2>3, <2>5, <2>6 DEF History!Undo
<1> QED BY <1>12, <1>13

LEMMA RedoImplements ==
  ASSUME UndoIInv, UndoIInv', Redo
  PROVE  History!Redo \/ UNCHANGED History!vars
<1> DEFINE n == Len(undoQueue)
           p == Position
<1>1. /\ undoQueue' = undoQueue /\ undoCounter' = undoCounter - 1
      /\ current' = undoQueue[n - undoCounter + 2]
  BY DEF Redo, RedoIndex
<1>2. /\ undoCounter \in Nat /\ n \in Nat /\ undoCounter >= 2 /\ n >= undoCounter
      /\ Ascending(undoQueue)
  BY DEF Redo, CanRedo, UndoIInv, TypeOK
<1>3. undoQueue[n - undoCounter + 1] = current
  BY <1>2 DEF UndoIInv, PresentRecorded
<1>4. /\ p = n - undoCounter + 1 /\ p \in 1..(n - 1)
      /\ undoQueue[p] = current /\ current' = undoQueue[p + 1]
  BY <1>1, <1>2, <1>3 DEF Position
<1>5. Position' = p + 1
  BY <1>1, <1>2 DEF Position
<1>6. /\ Past = {undoQueue[i] : i \in {j \in 1..n : j < p}} \ {current}
      /\ Future = {undoQueue[i] : i \in {j \in 1..n : j > p}} \ {current}
      /\ \A i \in 1..n : undoQueue[i] \in Nat
  BY PastIs
<1>7. (/\ Past = {undoQueue[i] : i \in {j \in 1..Len(undoQueue) : j < Position}} \ {current}
       /\ Future = {undoQueue[i] : i \in {j \in 1..Len(undoQueue) : j > Position}} \ {current})'
  BY PastIs, PTL
<1>8. /\ Past' = {undoQueue[i] : i \in {j \in 1..n : j < p + 1}} \ {current'}
      /\ Future' = {undoQueue[i] : i \in {j \in 1..n : j > p + 1}} \ {current'}
  BY <1>1, <1>5, <1>7
<1> HIDE DEF n, p
<1>9. \A i \in 1..n : /\ i > p => undoQueue[i] >= current'
                      /\ i <= p => undoQueue[i] <= current
  BY <1>2, <1>4 DEF Ascending, n
<1>10. \A j \in 1..n : (j > p <=> j > p + 1 \/ j = p + 1) /\ (j < p + 1 <=> j < p \/ j = p)
  BY <1>2, <1>4
<1>11. p + 1 \in 1..n /\ p + 1 > p /\ p \in 1..n /\ current \in Nat /\ current' \in Nat
  BY <1>2, <1>4, <1>6
<1>12. CASE current' = current
  <2>1. Past' = Past
    BY <1>4, <1>6, <1>8, <1>10, <1>12
  <2>2. Future' = Future
    BY <1>4, <1>6, <1>8, <1>10, <1>12
  <2> QED BY <1>12, <2>1, <2>2 DEF History!vars
<1>13. CASE current' # current
  <2>1. current' > current
    BY <1>2, <1>4, <1>11, <1>13 DEF Ascending, n
  <2>2. current' \in Future /\ \A y \in Future : current' <= y
    BY <1>4, <1>6, <1>9, <1>11, <1>13
  <2>3. History!Oldest(Future) = current'
    <3>1. Future \in SUBSET Int
      BY PastIs
    <3> QED BY <2>2, <3>1, OldestIs
  <2>4. Future' = Future \ {current'}
    <3>1. \A i \in 1..n : i > p => undoQueue[i] # current
      BY <1>6, <1>9, <1>11, <2>1
    <3> QED BY <1>4, <1>6, <1>8, <1>10, <3>1
  <2>5. Past' = Past \cup {current}
    <3>1. \A i \in 1..n : i < p + 1 => undoQueue[i] # current'
      BY <1>4, <1>6, <1>9, <1>10, <1>11, <2>1
    <3> QED BY <1>4, <1>6, <1>8, <1>10, <1>11, <3>1
  <2> QED BY <2>2, <2>3, <2>4, <2>5 DEF History!Redo
<1> QED BY <1>12, <1>13

LEMMA UndoStepImplements ==
  ASSUME UndoIInv, UndoIInv', [UndoNext]_undoVars
  PROVE  [History!Next]_(History!vars)
<1>1. CASE Edit
  BY <1>1, EditImplements DEF History!Next
<1>2. CASE FailedEdit
  BY <1>2, FailedEditImplements DEF History!Next
<1>3. CASE RefusedEdit
  BY <1>3, RefusedEditImplements DEF History!Next
<1>4. CASE Undo
  BY <1>4, FirstUndoImplements, LaterUndoImplements DEF History!Next
<1>5. CASE Redo
  BY <1>5, RedoImplements DEF History!Next
<1>6. CASE Clear
  BY <1>6, ClearImplements DEF History!Next
<1>7. CASE UNCHANGED undoVars
  BY <1>7 DEF undoVars, History!vars, Past, Future, Position
<1> QED BY <1>1, <1>2, <1>3, <1>4, <1>5, <1>6, <1>7 DEF UndoNext

(* The undo queue of the editor is a history: undo and redo visit the      *)
(* layouts in the order of their creation, an edit abandons what was       *)
(* undone, and only the oldest layouts are forgotten.                      *)
THEOREM UndoRefinement == UndoSpec => ImplementsEditHistory
<1>1. UndoInit => History!Init
  BY DEF UndoInit, History!Init, Past, Future
<1>2. UndoIInv /\ UndoIInv' /\ [UndoNext]_undoVars => [History!Next]_(History!vars)
  BY UndoStepImplements
<1> QED BY <1>1, <1>2, UndoInvariance, PTL DEF UndoSpec, ImplementsEditHistory, History!Spec

-----------------------------------------------------------------------------
(*                                THE FILM                                 *)

\* The picture that is shown next after a time.
After(file, t, f) ==
  /\ f \in Good(file) /\ t < Time(file, f)
  /\ \A g \in Good(file) : t < Time(file, g) => Time(file, f) <= Time(file, g)

-----------------------------------------------------------------------------
(* Induction, over sets of numbers                                         *)

LEMMA Least ==
  ASSUME NEW S \in SUBSET Nat, S # {}
  PROVE  \E n \in S : \A m \in S : n <= m
<1>1. IsWellFoundedOn(OpToRel(<, Nat), Nat)
  BY NatLessThanWellFounded
<1>2. PICK n \in S : \A m \in S : ~(<<m, n>> \in OpToRel(<, Nat))
  BY <1>1, WFMin
<1>3. ASSUME NEW m \in S PROVE n <= m
  <2>1. m \in Nat /\ n \in Nat
    OBVIOUS
  <2>2. ~(m < n)
    BY <1>2, <2>1 DEF OpToRel
  <2> QED BY <2>1, <2>2
<1> QED BY <1>3

LEMMA Induct ==
  ASSUME NEW S, NEW n \in Nat, 0 \in S,
         ASSUME NEW m \in 0..n - 1, m \in S PROVE m + 1 \in S
  PROVE  \A m \in 0..n : m \in S
<1> DEFINE Out == {m \in 0..n : m \notin S}
<1> SUFFICES ASSUME Out # {} PROVE FALSE
  OBVIOUS
<1>1. Out \in SUBSET Nat
  OBVIOUS
<1>2. PICK m \in Out : \A k \in Out : m <= k
  <2> HIDE DEF Out
  <2> QED BY <1>1, Least
<1>3. m # 0 /\ m \in 0..n
  BY <1>2
<1>4. m - 1 \in 0..n - 1 /\ m - 1 \notin Out
  BY <1>2, <1>3
<1>5. m - 1 \in S
  BY <1>4
<1> QED BY <1>2, <1>3, <1>4, <1>5

\* A finite set of numbers that is not empty has a last one.
LEMMA Greatest ==
  ASSUME NEW n \in Nat, NEW S \in SUBSET (0..n), S # {}
  PROVE  /\ LastIn(S) \in S /\ \A m \in S : m <= LastIn(S)
<1> DEFINE T == {n - m : m \in S}
<1>1. T \in SUBSET Nat /\ T # {}
  <2>1. \A m \in S : n - m \in Nat
    OBVIOUS
  <2> QED BY <2>1
<1>2. PICK k \in T : \A j \in T : k <= j
  <2> HIDE DEF T
  <2> QED BY <1>1, Least
<1>3. PICK m \in S : k = n - m
  BY <1>2
<1>4. \A j \in S : j <= m
  BY <1>2, <1>3
<1> QED BY <1>4 DEF LastIn

LEMMA First ==
  ASSUME NEW S \in SUBSET Nat, S # {}
  PROVE  FirstIn(S) \in S /\ \A m \in S : FirstIn(S) <= m
BY Least DEF FirstIn

LEMMA FirstIs ==
  ASSUME NEW S \in SUBSET Int, NEW n \in S, \A m \in S : n <= m
  PROVE  FirstIn(S) = n
<1>1. FirstIn(S) \in S /\ \A m \in S : FirstIn(S) <= m
  BY DEF FirstIn
<1>2. FirstIn(S) \in Int /\ n \in Int
  BY <1>1
<1>3. FirstIn(S) <= n /\ n <= FirstIn(S)
  BY <1>1
<1> QED BY <1>2, <1>3

-----------------------------------------------------------------------------
(* The ring                                                                *)

Slots == 0..NbImage - 1

\* The frame in an entry.
At(c, i) == Entry(c, i).pic - 1

(* What is in the ring is what is shown in a row.                          *)
Shape(c) ==
  /\ c.read \in Slots /\ c.write \in c.read..c.read + NbImage
  /\ c.pts \in [Slots -> Nat] /\ c.image \in [Slots -> [pts : Nat, pic : Nat]]

Ring(file, c) ==
  /\ Shape(c)
  /\ \A i \in Window(c) :
       /\ At(c, i) \in Good(file) /\ TimeOf(c, i) = Time(file, At(c, i))
       /\ Entry(c, i) = Image(At(c, i), TimeOf(c, i))
  /\ \A i, j \in Window(c) : i < j => TimeOf(c, i) < TimeOf(c, j)
  /\ \A i \in Window(c) : i + 1 \in Window(c) => After(file, TimeOf(c, i), At(c, i + 1))

Has(c, t) == \E i \in Window(c) : TimeOf(c, i) = t

\* The newest entry, its frame and its time.
Used(c) == c.read < c.write
Tip(c) == At(c, c.write - 1)
TipTime(c) == TimeOf(c, c.write - 1)

LEMMA Slot ==
  ASSUME NEW i \in 0..2 * NbImage - 1
  PROVE  /\ NbImage \in Nat /\ NbImage > 1 /\ NoTime \in Nat
         /\ i % NbImage \in Slots
         /\ i % NbImage = IF i < NbImage THEN i ELSE i - NbImage
<1>1. NbImage \in Nat /\ NbImage > 1 /\ NoTime \in Nat
  BY CacheAssumption DEF CacheAssumption
<1>2. CASE i < NbImage
  BY <1>1, <1>2 DEF Slots
<1>3. CASE i >= NbImage
  BY <1>1, <1>3 DEF Slots
<1> QED BY <1>1, <1>2, <1>3

LEMMA InRing ==
  ASSUME NEW c, Shape(c)
  PROVE  /\ c.read \in Int /\ c.write \in Int /\ NbImage \in Nat /\ NbImage > 1
         /\ \A i \in c.read..c.read + NbImage - 1 : i \in 0..2 * NbImage - 1 /\ i % NbImage \in Slots
         /\ \A i, j \in c.read..c.read + NbImage - 1 : i # j => i % NbImage # j % NbImage
<1>1. NbImage \in Nat /\ NbImage > 1
  BY CacheAssumption DEF CacheAssumption
<1>2. c.read \in Int /\ c.write \in Int /\ c.read >= 0 /\ c.read < NbImage
  BY <1>1 DEF Shape, Slots
<1>3. \A i \in c.read..c.read + NbImage - 1 : i \in 0..2 * NbImage - 1
  BY <1>1, <1>2
<1>4. \A i \in 0..2 * NbImage - 1 : i % NbImage \in Slots /\ i % NbImage = IF i < NbImage THEN i ELSE i - NbImage
  BY Slot
<1>5. ASSUME NEW i \in c.read..c.read + NbImage - 1, NEW j \in c.read..c.read + NbImage - 1, i # j
      PROVE  i % NbImage # j % NbImage
  <2>1. i \in 0..2 * NbImage - 1 /\ j \in 0..2 * NbImage - 1 /\ i \in Int /\ j \in Int
    BY <1>2, <1>3
  <2>2. /\ i % NbImage = IF i < NbImage THEN i ELSE i - NbImage
        /\ j % NbImage = IF j < NbImage THEN j ELSE j - NbImage
    BY <1>4, <2>1
  <2>3. i - j < NbImage /\ j - i < NbImage
    BY <1>1, <1>2, <1>5
  <2> QED BY <1>1, <1>5, <2>1, <2>2, <2>3
<1> QED BY <1>1, <1>2, <1>3, <1>4, <1>5

\* Two places in the ring in the order of their times.
LEMMA RingOrder ==
  ASSUME NEW file, NEW c, Ring(file, c), NEW i \in Window(c), NEW j \in Window(c)
  PROVE  /\ i \in Int /\ j \in Int /\ TimeOf(c, i) \in Nat /\ TimeOf(c, j) \in Nat
         /\ TimeOf(c, i) = TimeOf(c, j) <=> i = j
         /\ TimeOf(c, i) < TimeOf(c, j) <=> i < j
<1>1. Shape(c) /\ i \in Int /\ j \in Int
  BY InRing DEF Ring, Window, Shape
<1>2. i % NbImage \in Slots /\ j % NbImage \in Slots
  BY <1>1, InRing DEF Window, Shape
<1>3. TimeOf(c, i) \in Nat /\ TimeOf(c, j) \in Nat
  BY <1>1, <1>2 DEF Shape, TimeOf
<1>4. /\ i < j => TimeOf(c, i) < TimeOf(c, j)
      /\ j < i => TimeOf(c, j) < TimeOf(c, i)
  BY DEF Ring
<1> QED BY <1>1, <1>3, <1>4

LEMMA RingEntry ==
  ASSUME NEW file, WellTimed(file), NEW c, Ring(file, c), NEW i \in Window(c)
  PROVE  /\ i \in Int /\ c.read <= i /\ i < c.write /\ c.read \in Int /\ c.write \in Int
         /\ At(c, i) \in Good(file) /\ TimeOf(c, i) = Time(file, At(c, i))
         /\ Entry(c, i) = Image(At(c, i), TimeOf(c, i))
         /\ Entry(c, i).pts = TimeOf(c, i) /\ Entry(c, i) # NoImage
         /\ TimeOf(c, i) \in Nat /\ TimeOf(c, i) < NoTime
<1>1. Shape(c) /\ i \in Int /\ c.read <= i /\ i < c.write /\ c.read \in Int /\ c.write \in Int
  BY InRing DEF Ring, Window, Shape
<1>2. /\ At(c, i) \in Good(file) /\ TimeOf(c, i) = Time(file, At(c, i))
      /\ Entry(c, i) = Image(At(c, i), TimeOf(c, i))
  BY DEF Ring
<1>3. file[At(c, i) + 1] \in [pts : 0..NoTime - 1, dts : Int, key : BOOLEAN, timed : {TRUE}, bad : BOOLEAN]
  <2>1. At(c, i) \in All(file)
    BY <1>2 DEF Good
  <2>2. At(c, i) + 1 \in 1..Len(file)
    BY <2>1 DEF All, WellTimed
  <2> QED BY <2>2, ElementOfSeq DEF WellTimed
<1>4. TimeOf(c, i) \in 0..NoTime - 1
  BY <1>2, <1>3 DEF Time
<1>5. NoTime \in Nat
  BY CacheAssumption DEF CacheAssumption
<1>6. Entry(c, i).pts = TimeOf(c, i)
  BY <1>2 DEF Image
<1>7. TimeOf(c, i) \in Nat /\ TimeOf(c, i) < NoTime
  BY <1>4, <1>5
<1>8. Entry(c, i) # NoImage
  BY <1>5, <1>6, <1>7 DEF NoImage
<1> QED BY <1>1, <1>2, <1>6, <1>7, <1>8

LEMMA NewestEntry ==
  ASSUME NEW file, WellTimed(file), NEW c, Ring(file, c), Used(c)
  PROVE  /\ c.write - 1 \in Window(c) /\ Has(c, TipTime(c))
         /\ Tip(c) \in Good(file) /\ TipTime(c) = Time(file, Tip(c)) /\ TipTime(c) \in Nat
         /\ TipTime(c) < NoTime
         /\ \A i \in Window(c) : TimeOf(c, i) <= TipTime(c)
<1>0. Shape(c)
  BY DEF Ring
<1>1. Shape(c) /\ c.read \in Int /\ c.write \in Int
  BY <1>0, InRing
<1>2. c.write - 1 \in Window(c)
  BY <1>1 DEF Used, Window
<1>3. ASSUME NEW i \in Window(c) PROVE TimeOf(c, i) <= TipTime(c)
  <2>1. i \in Int /\ i <= c.write - 1
    BY <1>1 DEF Window
  <2>2. CASE i = c.write - 1
    BY <1>2, <2>2, RingOrder DEF TipTime
  <2>3. CASE i < c.write - 1
    BY <1>2, <2>3, RingOrder DEF TipTime
  <2> QED BY <1>1, <2>1, <2>2, <2>3
<1> QED BY <1>2, <1>3, RingEntry DEF Has, Tip, TipTime

\* The searches.
LEMMA SearchAfter ==
  ASSUME NEW file, WellTimed(file), NEW c, Ring(file, c), NEW i \in Window(c)
  PROVE  GetAfter(c, TimeOf(c, i)) = IF i = c.write - 1 THEN NoImage ELSE Entry(c, i + 1)
<1> DEFINE pts == TimeOf(c, i)
           later(j) == {k \in j + 2..c.write - 2 : TimeOf(c, k) > pts}
           found == {j \in Window(c) : /\ j < c.write - 1 /\ TimeOf(c, j) = pts
                                       /\ Entry(c, j + 1).pts > pts \/ later(j) # {}}
<1>1. i \in Int /\ c.read <= i /\ i < c.write /\ c.read \in Int /\ c.write \in Int /\ pts \in Nat
  BY RingEntry
<1>2. \A j \in Window(c) : TimeOf(c, j) = pts => j = i
  BY RingOrder
<1>3. CASE i = c.write - 1
  <2>1. ASSUME NEW j \in Window(c), j < c.write - 1, TimeOf(c, j) = pts PROVE FALSE
    BY <1>1, <1>2, <1>3, <2>1
  <2>2. found = {}
    BY <2>1
  <2> QED BY <1>3, <2>2 DEF GetAfter
<1>4. CASE i # c.write - 1
  <2>1. i + 1 \in Window(c) /\ i < c.write - 1
    BY <1>1, <1>4 DEF Window
  <2>2. Entry(c, i + 1).pts = TimeOf(c, i + 1)
    BY <2>1, RingEntry
  <2>3. Entry(c, i + 1).pts > pts
    BY <1>1, <2>1, <2>2, RingOrder
  <2>4. found = {i}
    BY <1>2, <2>1, <2>3
  <2>5. FirstIn({i}) = i
    BY <1>1, FirstIs
  <2>6. FirstIn(found) = i
    BY <2>4, <2>5
  <2> HIDE DEF found
  <2> QED BY <1>4, <2>3, <2>4, <2>6 DEF GetAfter, found
<1> QED BY <1>3, <1>4

LEMMA SearchAfterNone ==
  ASSUME NEW c, NEW pts, ~Has(c, pts)
  PROVE  GetAfter(c, pts) = NoImage
BY DEF GetAfter, Has

LEMMA SearchBefore ==
  ASSUME NEW file, WellTimed(file), NEW c, Ring(file, c), NEW i \in Window(c)
  PROVE  GetBefore(c, TimeOf(c, i)) = IF i = c.read THEN NoImage ELSE Entry(c, i - 1)
<1> DEFINE pts == TimeOf(c, i)
           found == {j \in Window(c) : j > c.read /\ TimeOf(c, j) = pts}
<1>1. i \in Int /\ c.read <= i /\ i < c.write /\ c.read \in Int /\ c.write \in Int /\ pts \in Nat
  BY RingEntry
<1>2. \A j \in Window(c) : TimeOf(c, j) = pts => j = i
  BY RingOrder
<1>3. CASE i = c.read
  <2>1. ASSUME NEW j \in Window(c), j > c.read, TimeOf(c, j) = pts PROVE FALSE
    BY <1>1, <1>2, <1>3, <2>1
  <2>2. found = {}
    BY <2>1
  <2> QED BY <1>3, <2>2 DEF GetBefore
<1>4. CASE i # c.read
  <2>1. found = {i}
    <3>1. i > c.read /\ i \in Window(c) /\ TimeOf(c, i) = pts
      BY <1>1, <1>4
    <3> QED BY <1>2, <3>1
  <2>2. FirstIn({i}) = i
    BY <1>1, FirstIs
  <2>3. FirstIn(found) = i
    BY <2>1, <2>2
  <2> HIDE DEF found
  <2> QED BY <1>4, <2>1, <2>3 DEF GetBefore, found
<1> QED BY <1>3, <1>4

LEMMA SearchBeforeNone ==
  ASSUME NEW c, NEW pts, ~Has(c, pts)
  PROVE  GetBefore(c, pts) = NoImage
BY DEF GetBefore, Has

LEMMA SearchPts ==
  ASSUME NEW file, WellTimed(file), NEW c, Ring(file, c), NEW pts
  PROVE  /\ Has(c, pts) <=> GetByPts(c, pts) # NoImage
         /\ \A i \in Window(c) : TimeOf(c, i) = pts => GetByPts(c, pts) = Entry(c, i)
<1> DEFINE found == {i \in Window(c) : Entry(c, i).pts = pts}
<1>1. \A i \in Window(c) : Entry(c, i).pts = TimeOf(c, i) /\ Entry(c, i) # NoImage /\ i \in Int
  BY RingEntry
<1>2. ASSUME NEW i \in Window(c), TimeOf(c, i) = pts
      PROVE  GetByPts(c, pts) = Entry(c, i) /\ GetByPts(c, pts) # NoImage
  <2>1. found = {i}
    BY <1>1, <1>2, RingOrder
  <2>2. FirstIn({i}) = i
    BY <1>1, FirstIs
  <2>3. FirstIn(found) = i
    BY <2>1, <2>2
  <2> HIDE DEF found
  <2> QED BY <1>1, <2>1, <2>3 DEF GetByPts, found
<1>3. ASSUME ~Has(c, pts) PROVE GetByPts(c, pts) = NoImage
  BY <1>1, <1>3 DEF GetByPts, Has
<1> QED BY <1>2, <1>3 DEF Has

-----------------------------------------------------------------------------
(* What is done to the ring                                                *)

\* The time of the oldest entry.
Oldest(c) == TimeOf(c, c.read)

\* The ring after a picture was decoded, and after nothing was.
Put(c, image) == Validate(Fill(GetFreeImage(c), image))
Skip(c) == Invalidate(GetFreeImage(c))

LEMMA Lap ==
  ASSUME NEW i \in 0..2 * NbImage - 1, NEW j \in 0..2 * NbImage - 1, i - j \in {0, NbImage}
  PROVE  i % NbImage = j % NbImage
<1>1. NbImage \in Nat /\ NbImage > 1
  BY CacheAssumption DEF CacheAssumption
<1>2. /\ i % NbImage = IF i < NbImage THEN i ELSE i - NbImage
      /\ j % NbImage = IF j < NbImage THEN j ELSE j - NbImage
  BY Slot
<1> QED BY <1>1, <1>2

\* The entries that are kept are where they were, or a lap before.
LEMMA Given ==
  ASSUME NEW c, Shape(c), NEW g, g = GetFreeImage(c)
  PROVE  /\ g.read \in Slots /\ g.write \in g.read + 1..g.read + NbImage
         /\ g.image = c.image /\ g.pts \in [Slots -> Nat]
         /\ Newest(g) \in Slots
         /\ \A j \in g.read..g.write - 2 : j % NbImage # Newest(g)
         /\ ~Used(c) => g.read = 0 /\ g.write = 1
         /\ Used(c) => /\ g.read <= g.write - 2
                       /\ \E k \in Int :
                            /\ g.write - 2 + k = c.write - 1
                            /\ g.read + k = IF Full(c) THEN c.read + 1 ELSE c.read
                            /\ \A j \in g.read..g.write - 2 :
                                 /\ j + k \in Window(c) /\ TimeOf(g, j) = TimeOf(c, j + k)
                                 /\ Entry(g, j) = Entry(c, j + k)
<1> DEFINE b == IF c.read = c.write THEN [c EXCEPT !.read = 0, !.write = 0] ELSE c
           r == IF Full(b) THEN b.read + 1 ELSE b.read
           w == b.write + 1
           p == [b.pts EXCEPT ![b.write % NbImage] = NoTime]
           a == [b EXCEPT !.read = r, !.write = w, !.pts = p]
           laps == NbImage * (r \div NbImage)
<1>1. NbImage \in Nat /\ NbImage > 1 /\ NoTime \in Nat
  BY CacheAssumption DEF CacheAssumption
<1>2. /\ c.read \in Int /\ c.write \in Int /\ 0 <= c.read /\ c.read < NbImage
      /\ c.read <= c.write /\ c.write <= c.read + NbImage
      /\ c.pts \in [Slots -> Nat]
  BY <1>1 DEF Shape, Slots
<1>3. /\ b.read \in Int /\ b.write \in Int /\ 0 <= b.read /\ b.read < NbImage
      /\ b.read <= b.write /\ b.write <= b.read + NbImage
      /\ b.pts = c.pts /\ b.image = c.image
  BY <1>1, <1>2
<1>4. g = Wrapped([b EXCEPT !.read = r, !.write = w, !.pts[b.write % NbImage] = NoTime])
  BY DEF GetFreeImage
<1>5. g = [a EXCEPT !.read = r - laps, !.write = w - laps]
  BY <1>4 DEF Wrapped
<1>6. g.read = r - laps /\ g.write = w - laps /\ g.pts = p /\ g.image = c.image
  BY <1>3, <1>5
<1>7. Full(b) <=> b.write = b.read + NbImage
  BY <1>1, <1>3 DEF Full
<1>8. /\ r = IF b.write = b.read + NbImage THEN b.read + 1 ELSE b.read
      /\ w = b.write + 1
  BY <1>7
<1>81. r \in Int /\ 0 <= r /\ r <= NbImage /\ w \in Int
  <2> HIDE DEF b, r, w
  <2> QED BY <1>1, <1>3, <1>8
<1>9. laps = IF r = NbImage THEN NbImage ELSE 0
  <2> HIDE DEF b, r, w
  <2> QED BY <1>1, <1>81
<1>91. b = IF c.read = c.write THEN [c EXCEPT !.read = 0, !.write = 0] ELSE c
  OBVIOUS
<1>92. p = [b.pts EXCEPT ![b.write % NbImage] = NoTime]
  OBVIOUS
<1>93. c.read = c.write => b.read = 0 /\ b.write = 0
  OBVIOUS
<1> HIDE DEF b, r, w, p, a, laps
<1>10. g.read \in Slots /\ g.write \in g.read + 1..g.read + NbImage
  <2>1. laps \in Int /\ g.read \in Int /\ g.write \in Int /\ g.write - g.read = w - r
    BY <1>1, <1>6, <1>81, <1>9
  <2>2. 0 <= g.read /\ g.read < NbImage
    BY <1>1, <1>6, <1>81, <1>9
  <2>3. 1 <= w - r /\ w - r <= NbImage
    <3>1. CASE b.write = b.read + NbImage
      BY <1>1, <1>3, <1>8, <3>1
    <3>2. CASE b.write # b.read + NbImage
      BY <1>1, <1>3, <1>8, <3>2
    <3> QED BY <3>1, <3>2
  <2> QED BY <1>1, <1>81, <2>1, <2>2, <2>3 DEF Slots
<1>11. b.write \in 0..2 * NbImage - 1
  BY <1>1, <1>3
<1>12. b.write % NbImage \in Slots
  BY <1>11, Slot
<1>13. Newest(g) = b.write % NbImage
  <2>1. g.write - 1 = b.write - laps
    BY <1>1, <1>3, <1>6, <1>8, <1>81, <1>9
  <2>2. CASE laps = 0
    BY <1>3, <2>1, <2>2 DEF Newest
  <2>3. CASE laps = NbImage
    <3>1. r = NbImage
      BY <1>1, <1>9, <2>3
    <3>2. b.write >= NbImage
      BY <1>1, <1>3, <1>8, <3>1
    <3>3. b.write % NbImage = b.write - NbImage /\ b.write - NbImage \in 0..NbImage - 1
      BY <1>1, <1>11, <3>2, Slot DEF Slots
    <3>4. (b.write - NbImage) % NbImage = b.write - NbImage
      BY <1>1, <3>3
    <3> QED BY <2>1, <2>3, <3>3, <3>4 DEF Newest
  <2> QED BY <1>1, <1>9, <2>2, <2>3
<1>14. g.pts \in [Slots -> Nat]
  BY <1>1, <1>2, <1>3, <1>6, <1>12, <1>92
<1>15. \A j \in g.read..g.write - 2 : j % NbImage # Newest(g)
  <2>1. SUFFICES ASSUME NEW j \in g.read..g.write - 2 PROVE j % NbImage # (g.write - 1) % NbImage
    BY DEF Newest
  <2>2. j \in 0..2 * NbImage - 1 /\ g.write - 1 \in 0..2 * NbImage - 1
    BY <1>1, <1>10 DEF Slots
  <2>3. /\ j % NbImage = IF j < NbImage THEN j ELSE j - NbImage
        /\ (g.write - 1) % NbImage = IF g.write - 1 < NbImage THEN g.write - 1 ELSE g.write - 1 - NbImage
    BY <2>2, Slot
  <2> QED BY <1>1, <1>10, <2>2, <2>3 DEF Slots
<1>16. ASSUME ~Used(c) PROVE g.read = 0 /\ g.write = 1
  BY <1>1, <1>2, <1>6, <1>8, <1>9, <1>93, <1>16 DEF Used
<1>17. ASSUME Used(c)
       PROVE  /\ g.read <= g.write - 2
              /\ \E k \in Int :
                   /\ g.write - 2 + k = c.write - 1
                   /\ g.read + k = IF Full(c) THEN c.read + 1 ELSE c.read
                   /\ \A j \in g.read..g.write - 2 :
                        /\ j + k \in Window(c) /\ TimeOf(g, j) = TimeOf(c, j + k)
                        /\ Entry(g, j) = Entry(c, j + k)
  <2>1. b = c
    BY <1>2, <1>17, <1>91 DEF Used
  <2>2. /\ laps \in Int /\ g.write - 2 + laps = c.write - 1
        /\ g.read + laps = IF Full(c) THEN c.read + 1 ELSE c.read
    <3>1. laps \in Int
      BY <1>1, <1>9
    <3>2. r = IF Full(c) THEN c.read + 1 ELSE c.read
      BY <1>7, <1>8, <2>1
    <3> QED BY <1>1, <1>2, <1>6, <1>8, <1>81, <2>1, <3>1, <3>2
  <2>3. g.read <= g.write - 2
    BY <1>1, <1>2, <1>6, <1>8, <1>81, <1>9, <1>17, <2>1 DEF Used
  <2>4. ASSUME NEW j \in g.read..g.write - 2
        PROVE  /\ j + laps \in Window(c) /\ TimeOf(g, j) = TimeOf(c, j + laps)
               /\ Entry(g, j) = Entry(c, j + laps)
    <3>0. g.read \in Int /\ g.write \in Int /\ j \in Int
      BY <1>6, <1>8, <1>81, <2>2
    <3>1. j + laps \in Window(c)
      BY <1>1, <1>2, <2>2, <3>0 DEF Window
    <3>2. j \in 0..2 * NbImage - 1 /\ j + laps \in 0..2 * NbImage - 1
      <4>1. 0 <= j /\ j <= 2 * NbImage - 1
        BY <1>1, <1>10, <3>0 DEF Slots
      <4>2. laps \in Int /\ 0 <= j + laps /\ j + laps <= 2 * NbImage - 1
        BY <1>1, <1>2, <2>2, <3>1 DEF Window
      <4> QED BY <3>0, <4>1, <4>2
    <3>3. j % NbImage = (j + laps) % NbImage
      <4>1. (j + laps) - j \in {0, NbImage}
        BY <1>1, <1>9, <3>0
      <4> QED BY <3>2, <4>1, Lap
    <3>4. j % NbImage # b.write % NbImage /\ j % NbImage \in Slots
      BY <1>13, <1>15, <3>2, Slot
    <3>5. g.pts[j % NbImage] = c.pts[j % NbImage]
      BY <1>2, <1>6, <1>92, <2>1, <3>4
    <3> QED BY <1>6, <3>1, <3>3, <3>5 DEF TimeOf, Entry
  <2> QED BY <2>2, <2>3, <2>4
<1> QED BY <1>6, <1>10, <1>12, <1>13, <1>14, <1>15, <1>16, <1>17

LEMMA PutKept ==
  ASSUME NEW c, Shape(c), NEW image \in [pts : Nat, pic : Nat], NEW n, n = Put(c, image)
  PROVE  /\ Shape(n) /\ Used(n) /\ n.read \in Int /\ n.write \in Int
         /\ TimeOf(n, n.write - 1) = image.pts /\ Entry(n, n.write - 1) = image
         /\ ~Used(c) => n.read = n.write - 1
         /\ Used(c) => /\ n.read <= n.write - 2
                       /\ \E k \in Int :
                            /\ n.write - 2 + k = c.write - 1
                            /\ n.read + k = IF Full(c) THEN c.read + 1 ELSE c.read
                            /\ \A j \in n.read..n.write - 2 :
                                 /\ j + k \in Window(c) /\ TimeOf(n, j) = TimeOf(c, j + k)
                                 /\ Entry(n, j) = Entry(c, j + k)
<1> DEFINE g == GetFreeImage(c)
           f == Fill(g, image)
<1>0. NbImage \in Nat /\ NbImage > 1
  BY CacheAssumption DEF CacheAssumption
<1>1. /\ g.read \in Slots /\ g.write \in g.read + 1..g.read + NbImage
      /\ g.image = c.image /\ g.pts \in [Slots -> Nat]
      /\ Newest(g) \in Slots
      /\ \A j \in g.read..g.write - 2 : j % NbImage # Newest(g)
      /\ ~Used(c) => g.read = 0 /\ g.write = 1
      /\ Used(c) => /\ g.read <= g.write - 2
                    /\ \E k \in Int :
                         /\ g.write - 2 + k = c.write - 1
                         /\ g.read + k = IF Full(c) THEN c.read + 1 ELSE c.read
                         /\ \A j \in g.read..g.write - 2 :
                              /\ j + k \in Window(c) /\ TimeOf(g, j) = TimeOf(c, j + k)
                              /\ Entry(g, j) = Entry(c, j + k)
  BY Given
<1>2. f = [g EXCEPT !.image[Newest(g)] = image]
  BY DEF Fill
<1>3. Newest(f) = Newest(g)
  BY <1>2 DEF Newest
<1>4. n = [f EXCEPT !.pts[Newest(g)] = f.image[Newest(g)].pts]
  BY <1>3 DEF Put, Validate
<1> HIDE DEF g, f
<1>5. c.image \in [Slots -> [pts : Nat, pic : Nat]]
  BY DEF Shape
<1>6. /\ n.read = g.read /\ n.write = g.write
      /\ n.image = [c.image EXCEPT ![Newest(g)] = image]
      /\ n.pts = [g.pts EXCEPT ![Newest(g)] = image.pts]
  BY <1>1, <1>2, <1>4, <1>5
<1>7. n.read \in Int /\ n.write \in Int /\ image.pts \in Nat
  BY <1>0, <1>1, <1>6 DEF Slots
<1>8. n.image \in [Slots -> [pts : Nat, pic : Nat]] /\ n.pts \in [Slots -> Nat]
  BY <1>1, <1>5, <1>6, <1>7
<1>9. Shape(n) /\ Used(n)
  <2>1. n.write \in n.read..n.read + NbImage /\ n.read < n.write
    BY <1>0, <1>1, <1>6, <1>7
  <2> QED BY <1>1, <1>6, <1>8, <2>1 DEF Shape, Used
<1>10. (n.write - 1) % NbImage = Newest(g)
  BY <1>6 DEF Newest
<1>11. TimeOf(n, n.write - 1) = image.pts /\ Entry(n, n.write - 1) = image
  BY <1>1, <1>5, <1>6, <1>10 DEF TimeOf, Entry
<1>12. ASSUME NEW j \in n.read..n.write - 2
       PROVE  TimeOf(n, j) = TimeOf(g, j) /\ Entry(n, j) = Entry(g, j)
  <2>0. j % NbImage # Newest(g)
    BY <1>1, <1>6
  <2>1. j \in 0..2 * NbImage - 1
    <3>1. 0 <= n.read /\ n.read < NbImage /\ n.write <= n.read + NbImage
      BY <1>0, <1>1, <1>6 DEF Slots
    <3> QED BY <1>0, <1>7, <3>1
  <2>2. j % NbImage \in Slots
    BY <2>1, Slot
  <2> QED BY <1>1, <1>5, <1>6, <2>0, <2>1, <2>2 DEF TimeOf, Entry
<1>13. ~Used(c) => n.read = n.write - 1
  BY <1>1, <1>6
<1>14. ASSUME Used(c)
       PROVE  /\ n.read <= n.write - 2
              /\ \E k \in Int :
                   /\ n.write - 2 + k = c.write - 1
                   /\ n.read + k = IF Full(c) THEN c.read + 1 ELSE c.read
                   /\ \A j \in n.read..n.write - 2 :
                        /\ j + k \in Window(c) /\ TimeOf(n, j) = TimeOf(c, j + k)
                        /\ Entry(n, j) = Entry(c, j + k)
  BY <1>1, <1>6, <1>12, <1>14
<1> QED BY <1>7, <1>9, <1>11, <1>13, <1>14

LEMMA SkipKept ==
  ASSUME NEW c, Shape(c), NEW n, n = Skip(c)
  PROVE  /\ Shape(n) /\ n.read \in Int /\ n.write \in Int /\ ~Full(n)
         /\ ~Used(c) => ~Used(n)
         /\ Used(c) => /\ Used(n)
                       /\ \E k \in Int :
                            /\ n.write - 1 + k = c.write - 1
                            /\ n.read + k = IF Full(c) THEN c.read + 1 ELSE c.read
                            /\ \A j \in n.read..n.write - 1 :
                                 /\ j + k \in Window(c) /\ TimeOf(n, j) = TimeOf(c, j + k)
                                 /\ Entry(n, j) = Entry(c, j + k)
<1> DEFINE g == GetFreeImage(c)
<1>0. NbImage \in Nat /\ NbImage > 1
  BY CacheAssumption DEF CacheAssumption
<1>1. /\ g.read \in Slots /\ g.write \in g.read + 1..g.read + NbImage
      /\ g.image = c.image /\ g.pts \in [Slots -> Nat]
      /\ ~Used(c) => g.read = 0 /\ g.write = 1
      /\ Used(c) => /\ g.read <= g.write - 2
                    /\ \E k \in Int :
                         /\ g.write - 2 + k = c.write - 1
                         /\ g.read + k = IF Full(c) THEN c.read + 1 ELSE c.read
                         /\ \A j \in g.read..g.write - 2 :
                              /\ j + k \in Window(c) /\ TimeOf(g, j) = TimeOf(c, j + k)
                              /\ Entry(g, j) = Entry(c, j + k)
  BY Given
<1>2. n = [g EXCEPT !.write = @ - 1]
  BY DEF Skip, Invalidate
<1> HIDE DEF g
<1>3. n.read = g.read /\ n.write = g.write - 1 /\ n.image = c.image /\ n.pts = g.pts
  BY <1>1, <1>2
<1>4. n.read \in Int /\ n.write \in Int /\ n.write \in n.read..n.read + NbImage - 1
  BY <1>0, <1>1, <1>3 DEF Slots
<1>5. Shape(n) /\ ~Full(n)
  BY <1>0, <1>1, <1>3, <1>4 DEF Shape, Full
<1>6. \A j : TimeOf(n, j) = TimeOf(g, j) /\ Entry(n, j) = Entry(g, j)
  BY <1>1, <1>3 DEF TimeOf, Entry
<1>7. g.write \in Int /\ n.write - 1 = g.write - 2
  BY <1>0, <1>1, <1>3 DEF Slots
<1>8. ~Used(c) => ~Used(n)
  BY <1>1, <1>3 DEF Used
<1>9. ASSUME Used(c)
      PROVE  /\ Used(n)
             /\ \E k \in Int :
                  /\ n.write - 1 + k = c.write - 1
                  /\ n.read + k = IF Full(c) THEN c.read + 1 ELSE c.read
                  /\ \A j \in n.read..n.write - 1 :
                       /\ j + k \in Window(c) /\ TimeOf(n, j) = TimeOf(c, j + k)
                       /\ Entry(n, j) = Entry(c, j + k)
  <2>1. g.read <= g.write - 2
    BY <1>1, <1>9
  <2>2. Used(n)
    BY <1>3, <1>4, <1>7, <2>1 DEF Used
  <2> QED BY <1>1, <1>3, <1>6, <1>7, <1>9, <2>2
<1> QED BY <1>4, <1>5, <1>8, <1>9

LEMMA FrameTime ==
  ASSUME NEW file, WellTimed(file), NEW f \in All(file)
  PROVE  /\ f \in Nat /\ Len(file) \in Nat /\ f < Len(file)
         /\ Time(file, f) \in Nat /\ Time(file, f) < NoTime /\ NoTime \in Nat
         /\ file[f + 1].timed = TRUE /\ file[f + 1].bad \in BOOLEAN /\ file[f + 1].key \in BOOLEAN
<1>1. Len(file) \in Nat /\ f \in Nat /\ f < Len(file) /\ f + 1 \in 1..Len(file)
  BY LenProperties DEF All, WellTimed
<1>2. file[f + 1] \in [pts : 0..NoTime - 1, dts : Int, key : BOOLEAN, timed : {TRUE}, bad : BOOLEAN]
  BY <1>1, ElementOfSeq DEF WellTimed
<1>3. NoTime \in Nat
  BY CacheAssumption DEF CacheAssumption
<1>4. /\ file[f + 1].pts \in 0..NoTime - 1 /\ file[f + 1].timed \in {TRUE}
      /\ file[f + 1].bad \in BOOLEAN /\ file[f + 1].key \in BOOLEAN
  BY <1>2
<1>5. file[f + 1].pts \in Nat /\ file[f + 1].pts < NoTime
  BY <1>3, <1>4
<1>6. file[f + 1].timed = TRUE
  BY <1>4, Zenon
<1> QED BY <1>1, <1>3, <1>4, <1>5, <1>6 DEF Time

LEMMA GoodTime ==
  ASSUME NEW file, WellTimed(file), NEW f \in Good(file)
  PROVE  /\ f \in All(file) /\ f \in Nat /\ Time(file, f) \in Nat /\ Time(file, f) < NoTime
         /\ Image(f, Time(file, f)) \in [pts : Nat, pic : Nat]
         /\ Image(f, Time(file, f)).pts = Time(file, f) /\ Image(f, Time(file, f)).pic - 1 = f
         /\ \A g \in All(file) : Time(file, g) = Time(file, f) => g = f
<1>1. f \in All(file)
  BY DEF Good
<1>2. f \in Nat /\ Time(file, f) \in Nat /\ Time(file, f) < NoTime
  BY <1>1, FrameTime
<1>3. \A g \in All(file) : Time(file, g) = Time(file, f) => g = f
  BY <1>1 DEF WellTimed
<1>4. /\ Image(f, Time(file, f)) \in [pts : Nat, pic : Nat]
      /\ Image(f, Time(file, f)).pts = Time(file, f) /\ Image(f, Time(file, f)).pic - 1 = f
  BY <1>2 DEF Image
<1> QED BY <1>1, <1>2, <1>3, <1>4

LEMMA PutRing ==
  ASSUME NEW file, WellTimed(file), NEW c, Ring(file, c), NEW f \in Good(file),
         Used(c) => After(file, TipTime(c), f),
         NEW n, n = Put(c, Image(f, Time(file, f)))
  PROVE  /\ Ring(file, n) /\ Used(n) /\ Tip(n) = f /\ TipTime(n) = Time(file, f)
         /\ \A t : Has(c, t) /\ ~(Full(c) /\ t = Oldest(c)) => Has(n, t)
         /\ \A t : Has(n, t) => t = Time(file, f) \/ Has(c, t)
         /\ Used(c) => Has(n, TipTime(c)) /\ Oldest(n) < Time(file, f)
<1> DEFINE image == Image(f, Time(file, f))
<1>0. NbImage \in Nat /\ NbImage > 1
  BY CacheAssumption DEF CacheAssumption
<1>1. image \in [pts : Nat, pic : Nat] /\ image.pts = Time(file, f) /\ image.pic - 1 = f
  BY GoodTime
<1>2. Shape(c) /\ c.read \in Int /\ c.write \in Int
  <2>1. Shape(c)
    BY DEF Ring
  <2> QED BY <2>1, InRing
<1>3. /\ Shape(n) /\ Used(n) /\ n.read \in Int /\ n.write \in Int
      /\ TimeOf(n, n.write - 1) = image.pts /\ Entry(n, n.write - 1) = image
      /\ ~Used(c) => n.read = n.write - 1
      /\ Used(c) => /\ n.read <= n.write - 2
                    /\ \E k \in Int :
                         /\ n.write - 2 + k = c.write - 1
                         /\ n.read + k = IF Full(c) THEN c.read + 1 ELSE c.read
                         /\ \A j \in n.read..n.write - 2 :
                              /\ j + k \in Window(c) /\ TimeOf(n, j) = TimeOf(c, j + k)
                              /\ Entry(n, j) = Entry(c, j + k)
  <2> HIDE DEF image
  <2> QED BY <1>1, <1>2, PutKept DEF image
<1>4. Tip(n) = f /\ TipTime(n) = Time(file, f) /\ At(n, n.write - 1) = f
  BY <1>1, <1>3 DEF Tip, TipTime, At
<1>5. n.write - 1 \in Window(n) /\ Has(n, Time(file, f))
  BY <1>3, <1>4 DEF Window, Used, Has, TipTime
<1> HIDE DEF image
<1>6. CASE ~Used(c)
  <2>1. Window(n) = {n.write - 1}
    BY <1>3, <1>6 DEF Window
  <2>2. Ring(file, n)
    BY <1>1, <1>3, <1>4, <2>1 DEF Ring, image
  <2>3. Window(c) = {}
    BY <1>2, <1>6 DEF Window, Used
  <2>4. \A t : ~Has(c, t)
    BY <2>3 DEF Has
  <2>5. \A t : Has(n, t) => t = Time(file, f)
    BY <1>4, <2>1 DEF Has, TipTime
  <2> QED BY <1>3, <1>4, <1>6, <2>2, <2>4, <2>5
<1>7. CASE Used(c)
  <2>1. n.read <= n.write - 2
    BY <1>3, <1>7
  <2>2. PICK k \in Int :
          /\ n.write - 2 + k = c.write - 1
          /\ n.read + k = IF Full(c) THEN c.read + 1 ELSE c.read
          /\ \A j \in n.read..n.write - 2 :
               /\ j + k \in Window(c) /\ TimeOf(n, j) = TimeOf(c, j + k)
               /\ Entry(n, j) = Entry(c, j + k)
    BY <1>3, <1>7
  <2>3. /\ TipTime(c) \in Nat /\ \A i \in Window(c) : TimeOf(c, i) <= TipTime(c)
        /\ c.write - 1 \in Window(c)
    BY <1>7, NewestEntry
  <2>4. TipTime(c) < Time(file, f) /\ Time(file, f) \in Nat
    BY <1>7, GoodTime DEF After
  <2>5. \A j \in Window(n) : j = n.write - 1 \/ j \in n.read..n.write - 2
    BY <1>3 DEF Window
  <2>6. ASSUME NEW j \in n.read..n.write - 2
        PROVE  /\ At(n, j) \in Good(file) /\ TimeOf(n, j) = Time(file, At(n, j))
               /\ Entry(n, j) = Image(At(n, j), TimeOf(n, j))
               /\ TimeOf(n, j) \in Nat /\ TimeOf(n, j) < Time(file, f)
    <3>1. j + k \in Window(c) /\ TimeOf(n, j) = TimeOf(c, j + k) /\ Entry(n, j) = Entry(c, j + k)
      BY <2>2
    <3>2. At(n, j) = At(c, j + k)
      BY <3>1 DEF At
    <3> QED BY <2>3, <2>4, <3>1, <3>2, RingEntry
  <2>7. \A j \in Window(n) :
           /\ At(n, j) \in Good(file) /\ TimeOf(n, j) = Time(file, At(n, j))
           /\ Entry(n, j) = Image(At(n, j), TimeOf(n, j))
    BY <1>1, <1>3, <1>4, <2>5, <2>6 DEF TipTime, image
  <2>8. ASSUME NEW i \in Window(n), NEW j \in Window(n), i < j
        PROVE  TimeOf(n, i) < TimeOf(n, j)
    <3>1. i \in n.read..n.write - 2 /\ i \in Int /\ j \in Int
      BY <1>3, <2>5, <2>8 DEF Window
    <3>2. CASE j = n.write - 1
      BY <1>4, <2>6, <3>1, <3>2 DEF TipTime
    <3>3. CASE j \in n.read..n.write - 2
      <4>1. /\ i + k \in Window(c) /\ TimeOf(n, i) = TimeOf(c, i + k)
            /\ j + k \in Window(c) /\ TimeOf(n, j) = TimeOf(c, j + k)
        BY <2>2, <3>1, <3>3
      <4>2. i + k < j + k
        BY <2>8, <3>1
      <4> QED BY <4>1, <4>2 DEF Ring
    <3> QED BY <2>5, <3>2, <3>3
  <2>9. ASSUME NEW i \in Window(n), i + 1 \in Window(n)
        PROVE  After(file, TimeOf(n, i), At(n, i + 1))
    <3>1. i \in n.read..n.write - 2 /\ i \in Int
      BY <1>3, <2>5, <2>9 DEF Window
    <3>2. i + k \in Window(c) /\ TimeOf(n, i) = TimeOf(c, i + k)
      BY <2>2, <3>1
    <3>3. CASE i + 1 = n.write - 1
      <4>1. i + k = c.write - 1
        BY <1>3, <2>2, <3>1, <3>3
      <4> QED BY <1>4, <1>7, <3>2, <3>3, <4>1 DEF TipTime
    <3>4. CASE i + 1 \in n.read..n.write - 2
      <4>1. i + 1 + k \in Window(c) /\ Entry(n, i + 1) = Entry(c, i + 1 + k)
        BY <2>2, <3>4
      <4>2. i + 1 + k = (i + k) + 1
        BY <3>1
      <4>3. At(n, i + 1) = At(c, (i + k) + 1)
        BY <4>1, <4>2 DEF At
      <4> QED BY <3>2, <4>1, <4>2, <4>3 DEF Ring
    <3> QED BY <2>5, <2>9, <3>3, <3>4
  <2>10. Ring(file, n)
    BY <1>3, <2>7, <2>8, <2>9 DEF Ring
  <2>11. ASSUME NEW t, Has(c, t), ~(Full(c) /\ t = Oldest(c)) PROVE Has(n, t)
    <3>1. PICK i \in Window(c) : TimeOf(c, i) = t
      BY <2>11 DEF Has
    <3>2. i # c.read \/ ~Full(c)
      BY <2>11, <3>1 DEF Oldest
    <3>3. i \in Int /\ c.read <= i /\ i <= c.write - 1
      BY <1>2, <3>1 DEF Window
    <3>4. i - k \in n.read..n.write - 2 /\ (i - k) + k = i
      BY <1>2, <1>3, <2>2, <3>2, <3>3
    <3>5. TimeOf(n, i - k) = t
      BY <2>2, <3>1, <3>4
    <3>6. i - k \in Window(n)
      BY <1>3, <3>4 DEF Window
    <3> QED BY <3>5, <3>6 DEF Has
  <2>12. ASSUME NEW t, Has(n, t) PROVE t = Time(file, f) \/ Has(c, t)
    <3>1. PICK j \in Window(n) : TimeOf(n, j) = t
      BY <2>12 DEF Has
    <3>2. CASE j = n.write - 1
      BY <1>4, <3>1, <3>2 DEF TipTime
    <3>3. CASE j \in n.read..n.write - 2
      BY <2>2, <3>1, <3>3 DEF Has
    <3> QED BY <2>5, <3>2, <3>3
  <2>13. Has(n, TipTime(c))
    <3>1. n.write - 2 \in n.read..n.write - 2
      BY <1>3, <2>1
    <3>2. TimeOf(n, n.write - 2) = TipTime(c)
      BY <2>2, <3>1 DEF TipTime
    <3>3. n.write - 2 \in Window(n)
      BY <1>3, <2>1 DEF Window
    <3> QED BY <3>2, <3>3 DEF Has
  <2>14. Oldest(n) < Time(file, f)
    <3>1. n.read \in n.read..n.write - 2
      BY <1>3, <2>1
    <3> QED BY <2>6, <3>1 DEF Oldest
  <2> QED BY <1>3, <1>4, <2>10, <2>11, <2>12, <2>13, <2>14
<1> QED BY <1>6, <1>7

LEMMA SkipRing ==
  ASSUME NEW file, WellTimed(file), NEW c, Ring(file, c), NEW n, n = Skip(c)
  PROVE  /\ Ring(file, n) /\ ~Full(n) /\ (Used(n) <=> Used(c))
         /\ Used(c) => Tip(n) = Tip(c) /\ TipTime(n) = TipTime(c)
         /\ \A t : Has(c, t) /\ ~(Full(c) /\ t = Oldest(c)) => Has(n, t)
         /\ \A t : Has(n, t) => Has(c, t)
<1>0. NbImage \in Nat /\ NbImage > 1
  BY CacheAssumption DEF CacheAssumption
<1>2. Shape(c) /\ c.read \in Int /\ c.write \in Int
  <2>1. Shape(c)
    BY DEF Ring
  <2> QED BY <2>1, InRing
<1>3. /\ Shape(n) /\ n.read \in Int /\ n.write \in Int /\ ~Full(n)
      /\ ~Used(c) => ~Used(n)
      /\ Used(c) => /\ Used(n)
                    /\ \E k \in Int :
                         /\ n.write - 1 + k = c.write - 1
                         /\ n.read + k = IF Full(c) THEN c.read + 1 ELSE c.read
                         /\ \A j \in n.read..n.write - 1 :
                              /\ j + k \in Window(c) /\ TimeOf(n, j) = TimeOf(c, j + k)
                              /\ Entry(n, j) = Entry(c, j + k)
  BY <1>2, SkipKept
<1>6. CASE ~Used(c)
  <2>1. Window(n) = {}
    BY <1>3, <1>6 DEF Window, Used
  <2>2. Ring(file, n)
    BY <1>3, <2>1 DEF Ring
  <2>3. Window(c) = {}
    BY <1>2, <1>6 DEF Window, Used
  <2> QED BY <1>3, <1>6, <2>1, <2>2, <2>3 DEF Has
<1>7. CASE Used(c)
  <2>2. PICK k \in Int :
          /\ n.write - 1 + k = c.write - 1
          /\ n.read + k = IF Full(c) THEN c.read + 1 ELSE c.read
          /\ \A j \in n.read..n.write - 1 :
               /\ j + k \in Window(c) /\ TimeOf(n, j) = TimeOf(c, j + k)
               /\ Entry(n, j) = Entry(c, j + k)
    BY <1>3, <1>7
  <2>3. Window(n) = n.read..n.write - 1 /\ n.read < n.write
    BY <1>3, <1>7 DEF Window, Used
  <2>7. \A j \in Window(n) :
           /\ At(n, j) \in Good(file) /\ TimeOf(n, j) = Time(file, At(n, j))
           /\ Entry(n, j) = Image(At(n, j), TimeOf(n, j))
    BY <2>2, <2>3 DEF Ring, At
  <2>8. ASSUME NEW i \in Window(n), NEW j \in Window(n), i < j
        PROVE  TimeOf(n, i) < TimeOf(n, j)
    <3>1. i + k < j + k /\ i + k \in Window(c) /\ j + k \in Window(c)
      BY <1>3, <2>2, <2>3, <2>8
    <3> QED BY <2>2, <2>3, <3>1 DEF Ring
  <2>9. ASSUME NEW i \in Window(n), i + 1 \in Window(n)
        PROVE  After(file, TimeOf(n, i), At(n, i + 1))
    <3>0. i \in Int /\ i + 1 + k = (i + k) + 1
      BY <1>3, <2>3
    <3>1. i + k \in Window(c) /\ i + 1 + k \in Window(c)
      BY <2>2, <2>3, <2>9
    <3>2. TimeOf(n, i) = TimeOf(c, i + k) /\ At(n, i + 1) = At(c, (i + k) + 1)
      BY <2>2, <2>3, <2>9, <3>0, <3>1 DEF At
    <3> QED BY <3>0, <3>1, <3>2 DEF Ring
  <2>10. Ring(file, n)
    BY <1>3, <2>7, <2>8, <2>9 DEF Ring
  <2>11. ASSUME NEW t, Has(c, t), ~(Full(c) /\ t = Oldest(c)) PROVE Has(n, t)
    <3>1. PICK i \in Window(c) : TimeOf(c, i) = t
      BY <2>11 DEF Has
    <3>2. i # c.read \/ ~Full(c)
      BY <2>11, <3>1 DEF Oldest
    <3>3. i \in Int /\ c.read <= i /\ i <= c.write - 1
      BY <1>2, <3>1 DEF Window
    <3>4. i - k \in n.read..n.write - 1 /\ (i - k) + k = i
      BY <1>2, <1>3, <2>2, <3>2, <3>3
    <3>5. TimeOf(n, i - k) = t
      BY <2>2, <3>1, <3>4
    <3> QED BY <2>3, <3>4, <3>5 DEF Has
  <2>12. \A t : Has(n, t) => Has(c, t)
    BY <2>2, <2>3 DEF Has
  <2>13. n.write - 1 \in n.read..n.write - 1
    BY <1>3, <2>3
  <2>14. Tip(n) = Tip(c) /\ TipTime(n) = TipTime(c)
    BY <2>2, <2>13 DEF Tip, TipTime, At
  <2> QED BY <1>3, <1>7, <2>10, <2>11, <2>12, <2>14
<1> QED BY <1>6, <1>7

-----------------------------------------------------------------------------
(* What the searches find, by the times                                    *)

LEMMA IsImage ==
  ASSUME NEW file, WellTimed(file), NEW f \in Good(file)
  PROVE  Image(f, Time(file, f)) # NoImage
<1>1. Image(f, Time(file, f)).pts = Time(file, f) /\ Time(file, f) < NoTime /\ Time(file, f) \in Nat
  BY GoodTime
<1>2. NoTime \in Nat
  BY CacheAssumption DEF CacheAssumption
<1>3. NoImage.pts = NoTime
  BY DEF NoImage
<1> QED BY <1>1, <1>2, <1>3

LEMMA Member ==
  ASSUME NEW file, WellTimed(file), NEW c, Ring(file, c), NEW t, Has(c, t)
  PROVE  /\ Used(c) /\ t \in Nat /\ t <= TipTime(c) /\ Oldest(c) <= t
         /\ Has(c, Oldest(c)) /\ Has(c, TipTime(c)) /\ TipTime(c) \in Nat /\ Oldest(c) \in Nat
         /\ \E f \in Good(file) : Time(file, f) = t
<1>1. PICK i \in Window(c) : TimeOf(c, i) = t
  BY DEF Has
<1>2. /\ i \in Int /\ c.read <= i /\ i < c.write /\ c.read \in Int /\ c.write \in Int
      /\ At(c, i) \in Good(file) /\ TimeOf(c, i) = Time(file, At(c, i)) /\ TimeOf(c, i) \in Nat
  BY RingEntry
<1>3. Used(c) /\ c.read \in Window(c)
  BY <1>2 DEF Used, Window
<1>4. TipTime(c) \in Nat /\ t <= TipTime(c) /\ Has(c, TipTime(c))
  BY <1>1, <1>3, NewestEntry
<1>5. Oldest(c) \in Nat /\ Has(c, Oldest(c))
  BY <1>3, RingEntry DEF Oldest, Has
<1>6. Oldest(c) <= t
  <2>1. CASE i = c.read
    BY <1>1, <1>2, <2>1 DEF Oldest
  <2>2. CASE c.read < i
    BY <1>1, <1>2, <1>3, <2>2, RingOrder DEF Oldest
  <2> QED BY <1>2, <2>1, <2>2
<1> QED BY <1>1, <1>2, <1>3, <1>4, <1>5, <1>6

LEMMA AskAfter ==
  ASSUME NEW file, WellTimed(file), NEW c, Ring(file, c), NEW t, Has(c, t)
  PROVE  /\ t = TipTime(c) => GetAfter(c, t) = NoImage
         /\ t # TipTime(c) => /\ GetAfter(c, t) # NoImage
                              /\ \E g \in Good(file) :
                                   /\ After(file, t, g) /\ Has(c, Time(file, g))
                                   /\ GetAfter(c, t) = Image(g, Time(file, g))
<1>1. PICK i \in Window(c) : TimeOf(c, i) = t
  BY DEF Has
<1>2. i \in Int /\ c.read <= i /\ i < c.write /\ c.read \in Int /\ c.write \in Int
  BY RingEntry
<1>3. c.write - 1 \in Window(c)
  BY <1>2 DEF Window
<1>4. t = TipTime(c) <=> i = c.write - 1
  BY <1>1, <1>3, RingOrder DEF TipTime
<1>5. GetAfter(c, t) = IF i = c.write - 1 THEN NoImage ELSE Entry(c, i + 1)
  BY <1>1, SearchAfter
<1>6. ASSUME i # c.write - 1
      PROVE  /\ GetAfter(c, t) # NoImage
             /\ \E g \in Good(file) :
                  /\ After(file, t, g) /\ Has(c, Time(file, g))
                  /\ GetAfter(c, t) = Image(g, Time(file, g))
  <2>1. i + 1 \in Window(c)
    BY <1>2, <1>6 DEF Window
  <2>2. /\ At(c, i + 1) \in Good(file) /\ TimeOf(c, i + 1) = Time(file, At(c, i + 1))
        /\ Entry(c, i + 1) = Image(At(c, i + 1), TimeOf(c, i + 1))
    BY <2>1 DEF Ring
  <2>3. After(file, t, At(c, i + 1))
    BY <1>1, <2>1 DEF Ring
  <2>4. Has(c, Time(file, At(c, i + 1)))
    BY <2>1, <2>2 DEF Has
  <2>5. Entry(c, i + 1) # NoImage
    BY <2>2, IsImage
  <2> QED BY <1>5, <1>6, <2>2, <2>3, <2>4, <2>5
<1> QED BY <1>4, <1>5, <1>6

LEMMA AskBefore ==
  ASSUME NEW file, WellTimed(file), NEW c, Ring(file, c), NEW t, Has(c, t)
  PROVE  /\ t = Oldest(c) => GetBefore(c, t) = NoImage
         /\ t # Oldest(c) => /\ GetBefore(c, t) # NoImage
                             /\ \E g \in Good(file) :
                                  /\ Has(c, Time(file, g))
                                  /\ \E f \in Good(file) : Time(file, f) = t /\ After(file, Time(file, g), f)
                                  /\ GetBefore(c, t) = Image(g, Time(file, g))
<1>1. PICK i \in Window(c) : TimeOf(c, i) = t
  BY DEF Has
<1>2. i \in Int /\ c.read <= i /\ i < c.write /\ c.read \in Int /\ c.write \in Int
  BY RingEntry
<1>3. c.read \in Window(c)
  BY <1>2 DEF Window
<1>4. t = Oldest(c) <=> i = c.read
  BY <1>1, <1>3, RingOrder DEF Oldest
<1>5. GetBefore(c, t) = IF i = c.read THEN NoImage ELSE Entry(c, i - 1)
  BY <1>1, SearchBefore
<1>6. ASSUME i # c.read
      PROVE  /\ GetBefore(c, t) # NoImage
             /\ \E g \in Good(file) :
                  /\ Has(c, Time(file, g))
                  /\ \E f \in Good(file) : Time(file, f) = t /\ After(file, Time(file, g), f)
                  /\ GetBefore(c, t) = Image(g, Time(file, g))
  <2>1. i - 1 \in Window(c) /\ (i - 1) + 1 = i
    BY <1>2, <1>6 DEF Window
  <2>2. /\ At(c, i - 1) \in Good(file) /\ TimeOf(c, i - 1) = Time(file, At(c, i - 1))
        /\ Entry(c, i - 1) = Image(At(c, i - 1), TimeOf(c, i - 1))
        /\ At(c, i) \in Good(file) /\ TimeOf(c, i) = Time(file, At(c, i))
    BY <2>1 DEF Ring
  <2>3. After(file, TimeOf(c, i - 1), At(c, i))
    BY <2>1 DEF Ring
  <2>4. Has(c, Time(file, At(c, i - 1)))
    BY <2>1, <2>2 DEF Has
  <2>5. Entry(c, i - 1) # NoImage
    BY <2>2, IsImage
  <2> QED BY <1>1, <1>5, <1>6, <2>2, <2>3, <2>4, <2>5
<1> QED BY <1>4, <1>5, <1>6

LEMMA AskPts ==
  ASSUME NEW file, WellTimed(file), NEW c, Ring(file, c), NEW t
  PROVE  /\ Has(c, t) <=> GetByPts(c, t) # NoImage
         /\ Has(c, t) => \E g \in Good(file) : Time(file, g) = t /\ GetByPts(c, t) = Image(g, t)
<1>1. Has(c, t) <=> GetByPts(c, t) # NoImage
  BY SearchPts
<1>2. ASSUME Has(c, t)
      PROVE  \E g \in Good(file) : Time(file, g) = t /\ GetByPts(c, t) = Image(g, t)
  <2>1. PICK i \in Window(c) : TimeOf(c, i) = t
    BY <1>2 DEF Has
  <2>2. GetByPts(c, t) = Entry(c, i)
    BY <2>1, SearchPts
  <2> QED BY <2>1, <2>2 DEF Ring
<1> QED BY <1>1, <1>2

LEMMA AskLast ==
  ASSUME NEW file, WellTimed(file), NEW c, Ring(file, c), Used(c)
  PROVE  GetLast(c) # NoImage /\ GetLast(c) = Image(Tip(c), TipTime(c))
<1>1. c.write - 1 \in Window(c) /\ Tip(c) \in Good(file) /\ TipTime(c) = Time(file, Tip(c))
  BY NewestEntry
<1>2. Entry(c, c.write - 1) = Image(Tip(c), TipTime(c))
  BY <1>1 DEF Ring, Tip, TipTime
<1>3. c.read # c.write
  BY <1>1, RingEntry
<1> QED BY <1>1, <1>2, <1>3, IsImage DEF GetLast

\* What is shown between two pictures of the ring is in it.
LEMMA Between ==
  ASSUME NEW file, WellTimed(file), NEW c, Ring(file, c), NEW t, Has(c, t), NEW u, Has(c, u),
         NEW f \in Good(file), t <= Time(file, f), Time(file, f) <= u
  PROVE  Has(c, Time(file, f))
<1> DEFINE S == {i \in Window(c) : TimeOf(c, i) <= Time(file, f)}
<1>1. PICK i \in Window(c) : TimeOf(c, i) = t
  BY DEF Has
<1>2. PICK j \in Window(c) : TimeOf(c, j) = u
  BY DEF Has
<1>3. /\ c.read \in Int /\ c.write \in Int /\ Shape(c)
      /\ NbImage \in Nat /\ NbImage > 1
  <2>1. Shape(c)
    BY DEF Ring
  <2> QED BY <2>1, InRing
<1>4. S \in SUBSET (0..2 * NbImage) /\ 2 * NbImage \in Nat /\ S # {}
  <2>1. \A k \in Window(c) : k \in 0..2 * NbImage
    BY <1>3 DEF Window, Shape, Slots
  <2> QED BY <1>1, <1>3, <2>1
<1>5. LastIn(S) \in S /\ \A m \in S : m <= LastIn(S)
  <2> HIDE DEF S
  <2> QED BY <1>4, Greatest
<1>6. PICK k \in S : \A m \in S : m <= k
  BY <1>5
<1>7. /\ k \in Window(c) /\ TimeOf(c, k) <= Time(file, f) /\ k \in Int /\ c.read <= k /\ k < c.write
      /\ TimeOf(c, k) \in Nat /\ TimeOf(c, k) = Time(file, At(c, k)) /\ At(c, k) \in Good(file)
  BY <1>6, RingEntry
<1>8. Time(file, f) \in Nat /\ u \in Nat /\ j \in Int /\ j < c.write
  BY <1>2, GoodTime, RingEntry
<1>9. CASE TimeOf(c, k) = Time(file, f)
  BY <1>7, <1>9 DEF Has
<1>10. CASE TimeOf(c, k) < Time(file, f)
  <2>1. k < j
    BY <1>2, <1>7, <1>8, <1>10, RingOrder
  <2>2. k + 1 \in Window(c)
    BY <1>3, <1>7, <1>8, <2>1 DEF Window
  <2>3. After(file, TimeOf(c, k), At(c, k + 1)) /\ TimeOf(c, k + 1) = Time(file, At(c, k + 1))
    BY <1>7, <2>2 DEF Ring
  <2>4. TimeOf(c, k + 1) <= Time(file, f)
    BY <1>10, <2>3 DEF After
  <2>5. k + 1 \in S
    BY <2>2, <2>4
  <2>6. k + 1 <= k
    BY <1>6, <2>5
  <2> QED BY <1>7, <2>6
<1> QED BY <1>7, <1>8, <1>9, <1>10

LEMMA FlushRing ==
  ASSUME NEW file, NEW c, Shape(c)
  PROVE  Ring(file, Flush(c)) /\ ~Used(Flush(c))
<1>1. NbImage \in Nat /\ NbImage > 1 /\ NoTime \in Nat
  BY CacheAssumption DEF CacheAssumption
<1>2. /\ Flush(c).read = 0 /\ Flush(c).write = 0 /\ Flush(c).image = c.image
      /\ Flush(c).pts = [i \in 0..NbImage - 1 |-> NoTime]
  BY DEF Flush
<1>3. Shape(Flush(c)) /\ ~Used(Flush(c))
  BY <1>1, <1>2 DEF Shape, Slots, Used
<1>4. Window(Flush(c)) = {}
  BY <1>2 DEF Window
<1> QED BY <1>3, <1>4 DEF Ring

LEMMA EmptyRing ==
  ASSUME NEW file
  PROVE  Ring(file, EmptyCache) /\ ~Used(EmptyCache) /\ Shape(EmptyCache)
<1>1. NbImage \in Nat /\ NbImage > 1 /\ NoTime \in Nat
  BY CacheAssumption DEF CacheAssumption
<1>2. NoImage \in [pts : Nat, pic : Nat]
  BY <1>1 DEF NoImage
<1>3. Shape(EmptyCache) /\ ~Used(EmptyCache)
  BY <1>1, <1>2 DEF EmptyCache, Shape, Slots, Used
<1>4. Window(EmptyCache) = {}
  BY DEF EmptyCache, Window
<1> QED BY <1>3, <1>4 DEF Ring

LEMMA NotUsed ==
  ASSUME NEW c, Shape(c), ~Used(c), NEW t
  PROVE  ~Has(c, t)
<1>1. c.read \in Int /\ c.write \in Int
  BY InRing
<1>2. Window(c) = {}
  BY <1>1 DEF Window, Used
<1> QED BY <1>2 DEF Has

-----------------------------------------------------------------------------
(* The decoder                                                             *)

\* What is still to be decoded and will not be dropped, from a frame on.
Live(file, from, next) ==
  {f \in Good(file) : next <= f /\ (Leading \/ Time(file, from) <= Time(file, f))}

\* What is still to come out.
Backlog(file, d, next) == d.held \cup Live(file, d.from, next)

\* The decoder when the frame `next' comes.
Fed(file, d, next) ==
  /\ next \in Nat /\ d.from \in All(file) /\ d.drain \in BOOLEAN
  /\ d.held \subseteq {f \in Good(file) : f < next} /\ Cardinality(d.held) <= Delay
  /\ d.drain => next \notin All(file)

LEMMA GoodFinite ==
  ASSUME NEW file, WellTimed(file)
  PROVE  /\ Len(file) \in Nat /\ IsFiniteSet(All(file)) /\ IsFiniteSet(Good(file))
         /\ Cardinality(Good(file)) \in Nat /\ Cardinality(Good(file)) <= Len(file)
<1>1. Len(file) \in Nat
  BY LenProperties DEF WellTimed
<1>2. IsFiniteSet(All(file)) /\ Cardinality(All(file)) = Len(file)
  <2>1. IsFiniteSet(0..Len(file) - 1)
    BY <1>1, FS_Interval
  <2>2. Cardinality(0..Len(file) - 1) = Len(file)
    <3>1. Len(file) - 1 \in Int /\ 0 \in Int
      BY <1>1
    <3>2. Cardinality(0..Len(file) - 1) = IF 0 > Len(file) - 1 THEN 0 ELSE (Len(file) - 1) - 0 + 1
      BY <3>1, FS_Interval, Zenon
    <3> QED BY <1>1, <3>2
  <2> QED BY <2>1, <2>2 DEF All
<1>3. Good(file) \subseteq All(file)
  BY DEF Good
<1>4. IsFiniteSet(Good(file)) /\ Cardinality(Good(file)) <= Cardinality(All(file))
  BY <1>2, <1>3, FS_Subset
<1> QED BY <1>1, <1>2, <1>4, FS_CardinalityType

\* A set of pictures has one that is shown first.
LEMMA Earliest ==
  ASSUME NEW file, WellTimed(file), NEW S \in SUBSET Good(file), S # {}
  PROVE  \E f \in S : \A g \in S : Time(file, f) <= Time(file, g)
<1> DEFINE T == {Time(file, f) : f \in S}
<1>1. T \in SUBSET Nat /\ T # {}
  BY GoodTime
<1>2. PICK t \in T : \A u \in T : t <= u
  <2> HIDE DEF T
  <2> QED BY <1>1, Least
<1> QED BY <1>2

LEMMA EarliestIs ==
  ASSUME NEW file, WellTimed(file), NEW e, e.file = file, NEW S \in SUBSET Good(file), S # {}
  PROVE  /\ EarliestShown(e, S) \in S
         /\ \A g \in S : Time(file, EarliestShown(e, S)) <= Time(file, g)
BY Earliest DEF EarliestShown, Picture, Time

\* What an entry into the decoder is.
LEMMA Entering ==
  ASSUME NEW file, WellTimed(file), NEW e, e.file = file, NEW next, Fed(file, e.decoder, next),
         next \in All(file)
  PROVE  /\ Decoded(e, next) = IF next \in Live(file, e.decoder.from, next) THEN {next} ELSE {}
         /\ Decoded(e, next) \subseteq Good(file)
         /\ e.decoder.held \cup Decoded(e, next) \subseteq {f \in Good(file) : f < next + 1}
         /\ (e.decoder.held \cup Decoded(e, next)) \cup Live(file, e.decoder.from, next + 1)
              = Backlog(file, e.decoder, next)
         /\ next \notin e.decoder.held
<1> DEFINE from == e.decoder.from
<1>1. next \in Nat /\ from \in All(file)
  BY DEF Fed
<1>2. Time(file, next) \in Nat /\ Time(file, from) \in Nat
  BY <1>1, FrameTime
<1>3. Decoded(e, next) = IF next \in Live(file, from, next) THEN {next} ELSE {}
  <2>1. next \in Good(file) <=> ~file[next + 1].bad
    BY DEF Good
  <2> QED BY <1>1, <1>2, <2>1 DEF Decoded, Picture, Time, Live
<1>4. Live(file, from, next) \subseteq Good(file)
  BY DEF Live
<1>5. Live(file, from, next) = Live(file, from, next + 1) \cup Decoded(e, next)
  <2>1. ASSUME NEW f \in Good(file) PROVE next <= f <=> (next + 1 <= f \/ f = next)
    BY <1>1, GoodTime
  <2>2. CASE next \in Live(file, from, next)
    BY <1>3, <2>1, <2>2 DEF Live
  <2>3. CASE next \notin Live(file, from, next)
    BY <1>3, <2>1, <2>3 DEF Live
  <2> QED BY <2>2, <2>3
<1>6. e.decoder.held \subseteq {f \in Good(file) : f < next}
  BY DEF Fed
<1>7. e.decoder.held \cup Decoded(e, next) \subseteq {f \in Good(file) : f < next + 1}
  <2>1. \A f \in Good(file) : f < next => f < next + 1
    BY <1>1, GoodTime
  <2>2. next < next + 1
    BY <1>1
  <2> QED BY <1>3, <1>4, <1>6, <2>1, <2>2
<1>8. next \notin e.decoder.held
  BY <1>1, <1>6
<1> HIDE DEF from
<1> QED BY <1>3, <1>4, <1>5, <1>7, <1>8 DEF Backlog, from


\* What comes out is shown before everything that is still to come.
Answered(file, e, next, out) ==
  /\ Fed(file, out.decoder, next + 1) /\ out.decoder.from = e.decoder.from
  /\ out.frame # -1 =>
       /\ out.frame \in Backlog(file, e.decoder, next)
       /\ out.frame \in Good(file)
       /\ \A g \in Backlog(file, e.decoder, next) : Time(file, out.frame) <= Time(file, g)
       /\ Backlog(file, out.decoder, next + 1) = Backlog(file, e.decoder, next) \ {out.frame}
       /\ \A g \in Good(file) : g > next => Time(file, out.frame) < Time(file, g)
       /\ out.decoder.ended = FALSE
       /\ out.decoder.drain <=> next \notin All(file)
       /\ next \in All(file) => Cardinality(out.decoder.held) = Delay
       /\ out.decoder.held = (e.decoder.held \cup (IF next \in All(file) THEN Decoded(e, next) ELSE {}))
            \ {out.frame}
  /\ out.frame = -1 /\ next \in All(file) =>
       /\ out.decoder.feeding = TRUE /\ out.decoder.drain = FALSE
       /\ out.decoder.ended = e.decoder.ended
       /\ out.decoder.held = e.decoder.held \cup Decoded(e, next)
       /\ Backlog(file, out.decoder, next + 1) = Backlog(file, e.decoder, next)
       /\ Cardinality(e.decoder.held) = Delay =>
            next \notin Live(file, e.decoder.from, next) /\ out.decoder.held = e.decoder.held
  /\ out.frame = -1 /\ next \notin All(file) =>
       /\ Backlog(file, e.decoder, next) = {} /\ out.decoder.held = {}
       /\ out.decoder.drain = FALSE /\ out.decoder.ended = TRUE
       /\ out.decoder.feeding = FALSE

LEMMA Answer ==
  ASSUME NEW file, WellTimed(file), Reordered(file), NEW e, e.file = file,
         NEW next, Fed(file, e.decoder, next), NEW out, out = Uncompress(e, next)
  PROVE  Answered(file, e, next, out)
<1> DEFINE d == [e.decoder EXCEPT !.drain = @ \/ next \notin Frames(e)]
           held == IF d.drain THEN d.held ELSE d.held \cup Decoded(e, next)
           first == EarliestShown(e, held)
           most == IF d.drain THEN 0 ELSE Delay
           b == Backlog(file, e.decoder, next)
<1>0. Delay \in Nat
  BY RenderAssumption DEF RenderAssumption
<1>1. /\ next \in Nat /\ e.decoder.from \in All(file) /\ e.decoder.drain \in BOOLEAN
      /\ e.decoder.held \subseteq {f \in Good(file) : f < next} /\ Cardinality(e.decoder.held) <= Delay
      /\ e.decoder.drain => next \notin All(file)
  BY DEF Fed
<1>2. Frames(e) = All(file)
  BY DEF Frames, All
<1>3. d.drain <=> next \notin All(file)
  <2>1. d.drain = (e.decoder.drain \/ next \notin Frames(e))
    OBVIOUS
  <2> HIDE DEF d
  <2> QED BY <1>1, <1>2, <2>1
<1>4. d.held = e.decoder.held /\ d.from = e.decoder.from /\ d.ended = e.decoder.ended
  OBVIOUS
<1>5. out = IF Cardinality(held) > most
            THEN [frame |-> first,
                  decoder |-> [d EXCEPT !.held = held \ {first}, !.ended = FALSE,
                                        !.feeding = FALSE]]
            ELSE IF d.drain
            THEN [frame |-> -1,
                  decoder |-> [FlushDecoder(d) EXCEPT !.ended = TRUE, !.feeding = FALSE]]
            ELSE [frame |-> -1, decoder |-> [d EXCEPT !.held = held, !.feeding = TRUE]]
  BY DEF Uncompress
<1>6. held = e.decoder.held \cup (IF next \in All(file) THEN Decoded(e, next) ELSE {})
  BY <1>3, <1>4
<1>7. d.drain \in BOOLEAN
  BY <1>1
<1> HIDE DEF d, held, first, most
<1>8. next \in All(file) =>
        /\ held = e.decoder.held \cup Decoded(e, next)
        /\ held \subseteq {f \in Good(file) : f < next + 1}
        /\ held \cup Live(file, e.decoder.from, next + 1) = b
        /\ Decoded(e, next) = IF next \in Live(file, e.decoder.from, next) THEN {next} ELSE {}
        /\ next \notin e.decoder.held
  BY <1>6, Entering
<1>9. next \notin All(file) =>
        /\ held = e.decoder.held
        /\ held \subseteq {f \in Good(file) : f < next + 1}
        /\ \A m : m \in Good(file) => ~(next <= m)
        /\ Live(file, e.decoder.from, next + 1) = {} /\ held = b
  <2>1. SUFFICES ASSUME next \notin All(file)
                 PROVE  /\ held = e.decoder.held
                        /\ held \subseteq {f \in Good(file) : f < next + 1}
                        /\ \A m : m \in Good(file) => ~(next <= m)
                        /\ Live(file, e.decoder.from, next + 1) = {} /\ held = b
    OBVIOUS
  <2>2. held = e.decoder.held
    BY <1>6, <2>1
  <2>3. next >= Len(file) /\ Len(file) \in Nat
    BY <1>1, <2>1, GoodFinite DEF All
  <2>4. ASSUME NEW m \in Good(file) PROVE m < next /\ m < next + 1 /\ m \in Nat
    <3>1. m \in Nat /\ m < Len(file)
      BY GoodTime, FrameTime
    <3> QED BY <1>1, <2>3, <3>1
  <2>5. Live(file, e.decoder.from, next + 1) = {} /\ Live(file, e.decoder.from, next) = {}
    BY <1>1, <2>4 DEF Live
  <2> QED BY <1>1, <2>2, <2>4, <2>5 DEF Backlog
<1>10. held \subseteq {f \in Good(file) : f < next + 1} /\ held \cup Live(file, e.decoder.from, next + 1) = b
  BY <1>8, <1>9
<1>11. IsFiniteSet(e.decoder.held) /\ IsFiniteSet(held) /\ Cardinality(held) \in Nat
       /\ Cardinality(e.decoder.held) \in Nat
  <2>1. e.decoder.held \subseteq Good(file) /\ held \subseteq Good(file)
    BY <1>1, <1>10
  <2>2. IsFiniteSet(e.decoder.held) /\ IsFiniteSet(held)
    BY <2>1, GoodFinite, FS_Subset
  <2> QED BY <2>2, FS_CardinalityType
<1>12. /\ next \notin All(file) => Cardinality(held) = Cardinality(e.decoder.held)
       /\ next \in All(file) => Cardinality(held) =
            IF next \in Live(file, e.decoder.from, next) THEN Cardinality(e.decoder.held) + 1
            ELSE Cardinality(e.decoder.held)
  <2>1. ASSUME next \in All(file)
        PROVE  Cardinality(held) =
                 IF next \in Live(file, e.decoder.from, next) THEN Cardinality(e.decoder.held) + 1
                 ELSE Cardinality(e.decoder.held)
    <3>1. CASE next \in Live(file, e.decoder.from, next)
      <4>1. held = e.decoder.held \cup {next} /\ next \notin e.decoder.held
        BY <1>8, <2>1, <3>1
      <4> QED BY <1>11, <3>1, <4>1, FS_AddElement
    <3>2. CASE next \notin Live(file, e.decoder.from, next)
      <4>1. held = e.decoder.held
        BY <1>8, <2>1, <3>2
      <4> QED BY <3>2, <4>1
    <3> QED BY <3>1, <3>2
  <2> QED BY <1>9, <2>1
<1>13. most = IF next \in All(file) THEN Delay ELSE 0
  BY <1>3 DEF most
<1>14. CASE Cardinality(held) > most
  <2>1. held # {}
    <3>1. Cardinality({}) = 0
      BY FS_EmptySet
    <3> QED BY <1>0, <1>13, <1>14, <3>1
  <2>2. first \in held /\ \A g \in held : Time(file, first) <= Time(file, g)
    <3>1. held \subseteq Good(file)
      BY <1>10
    <3> QED BY <2>1, <3>1, EarliestIs DEF first
  <2>3. /\ first \in Good(file) /\ first \in Nat /\ Time(file, first) \in Nat /\ first < next + 1
    <3>1. first \in Good(file) /\ first < next + 1
      BY <1>10, <2>2
    <3> QED BY <3>1, GoodTime
  <2>4. out.frame = first /\ first # -1
    BY <1>5, <1>14, <2>3
  <2>5. /\ out.decoder.held = held \ {first} /\ out.decoder.from = e.decoder.from
        /\ out.decoder.ended = FALSE /\ out.decoder.drain = d.drain
    <3>1. out.decoder = [d EXCEPT !.held = held \ {first}, !.ended = FALSE, !.feeding = FALSE]
      BY <1>5, <1>14
    <3> QED BY <1>4, <3>1
  <2>6. Cardinality(held \ {first}) = Cardinality(held) - 1
    BY <1>11, <2>2, FS_RemoveElement
  <2>7. Cardinality(out.decoder.held) <= Delay
    BY <1>0, <1>1, <1>11, <1>12, <2>5, <2>6
  <2>8. next \in All(file) => Cardinality(out.decoder.held) = Delay
    BY <1>0, <1>1, <1>11, <1>12, <1>13, <1>14, <2>5, <2>6
  <2>9. ASSUME NEW g \in Good(file), g > next
        PROVE  Time(file, first) < Time(file, g)
    <3>1. next \in All(file)
      BY <1>1, <1>9, <2>9, GoodTime
    <3>2. SUFFICES ASSUME ~(Time(file, first) < Time(file, g)) PROVE FALSE
      OBVIOUS
    <3>3. g \in Nat /\ Time(file, g) \in Nat
      BY GoodTime
    <3>4. first # g
      BY <1>1, <2>3, <2>9, <3>3
    <3>5. Time(file, first) # Time(file, g)
      BY <2>3, <3>4, GoodTime
    <3>6. Time(file, g) < Time(file, first)
      BY <2>3, <3>2, <3>3, <3>5
    <3> DEFINE F == {h \in Good(file) : h < g /\ Time(file, h) > Time(file, g)}
    <3>7. held \subseteq F
      <4>1. SUFFICES ASSUME NEW h \in held PROVE h \in F
        OBVIOUS
      <4>2. h \in Good(file) /\ h < next + 1
        BY <1>10
      <4>3. h \in Nat /\ Time(file, h) \in Nat
        BY <4>2, GoodTime
      <4>4. Time(file, first) <= Time(file, h)
        BY <2>2
      <4>5. h < g
        BY <1>1, <2>9, <3>3, <4>2, <4>3
      <4>6. Time(file, h) > Time(file, g)
        BY <2>3, <3>3, <3>6, <4>3, <4>4
      <4> QED BY <4>2, <4>5, <4>6
    <3>8. IsFiniteSet(F)
      <4>1. F \subseteq Good(file)
        OBVIOUS
      <4> HIDE DEF F
      <4> QED BY <4>1, GoodFinite, FS_Subset
    <3>9. Cardinality(held) <= Cardinality(F) /\ Cardinality(F) \in Nat
      <4> HIDE DEF F
      <4> QED BY <3>7, <3>8, FS_Subset, FS_CardinalityType
    <3>10. Cardinality(F) <= Delay
      BY DEF Reordered
    <3> HIDE DEF F
    <3> QED BY <1>0, <1>11, <1>13, <1>14, <3>1, <3>9, <3>10
  <2>10. ASSUME NEW g \in b PROVE Time(file, first) <= Time(file, g)
    <3>1. CASE g \in held
      BY <2>2, <3>1
    <3>2. CASE g \in Live(file, e.decoder.from, next + 1)
      <4>1. g \in Good(file) /\ next + 1 <= g
        BY <3>2 DEF Live
      <4>2. g > next
        BY <1>1, <4>1, GoodTime
      <4> QED BY <2>3, <2>9, <4>1, <4>2, GoodTime
    <3> QED BY <1>10, <3>1, <3>2
  <2>11. Backlog(file, out.decoder, next + 1) = b \ {first}
    <3>1. first \notin Live(file, e.decoder.from, next + 1)
      BY <1>1, <2>3 DEF Live
    <3> QED BY <1>10, <2>2, <2>5, <3>1 DEF Backlog
  <2>12. first \in b
    BY <1>10, <2>2
  <2>13. out.decoder.drain <=> next \notin All(file)
    BY <1>3, <2>5
  <2>14. Fed(file, out.decoder, next + 1)
    <3>1. next \notin All(file) => next + 1 \notin All(file)
      BY <1>1, GoodFinite DEF All
    <3>2. next + 1 \in Nat
      BY <1>1
    <3> QED BY <1>1, <1>7, <1>10, <2>5, <2>7, <2>13, <3>1, <3>2 DEF Fed
  <2>15. out.decoder.held = (e.decoder.held \cup (IF next \in All(file) THEN Decoded(e, next) ELSE {}))
          \ {out.frame}
    BY <1>6, <2>4, <2>5
  <2> HIDE DEF b
  <2> QED BY <2>3, <2>4, <2>5, <2>8, <2>9, <2>10, <2>11, <2>12, <2>13, <2>14, <2>15 DEF b, Answered
<1>15. CASE ~(Cardinality(held) > most) /\ next \in All(file)
  <2>1. /\ out.frame = -1 /\ out.decoder.held = held /\ out.decoder.from = e.decoder.from
        /\ out.decoder.ended = e.decoder.ended /\ out.decoder.drain = d.drain
        /\ out.decoder.feeding = TRUE
    <3>1. /\ out.frame = -1
          /\ out.decoder = [d EXCEPT !.held = held, !.feeding = TRUE]
      BY <1>3, <1>5, <1>15
    <3> QED BY <1>4, <3>1
  <2>2. out.decoder.drain = FALSE
    BY <1>3, <1>7, <1>15, <2>1
  <2>3. Fed(file, out.decoder, next + 1)
    <3>1. next + 1 \in Nat
      BY <1>1
    <3>2. Cardinality(held) <= Delay
      BY <1>0, <1>11, <1>13, <1>15
    <3> QED BY <1>1, <1>10, <2>1, <2>2, <3>1, <3>2 DEF Fed
  <2>4. Backlog(file, out.decoder, next + 1) = b
    BY <1>10, <2>1 DEF Backlog
  <2>5. Cardinality(e.decoder.held) = Delay => next \notin Live(file, e.decoder.from, next)
    BY <1>0, <1>11, <1>12, <1>13, <1>15
  <2>6. next \notin Live(file, e.decoder.from, next) => out.decoder.held = e.decoder.held
    BY <1>8, <1>15, <2>1
  <2> QED BY <1>8, <1>15, <2>1, <2>2, <2>3, <2>4, <2>5, <2>6 DEF Answered
<1>16. CASE ~(Cardinality(held) > most) /\ next \notin All(file)
  <2>1. /\ out.frame = -1 /\ out.decoder.held = {} /\ out.decoder.from = e.decoder.from
        /\ out.decoder.ended = TRUE /\ out.decoder.drain = FALSE
        /\ out.decoder.feeding = FALSE
    <3>1. /\ out.frame = -1
          /\ out.decoder = [FlushDecoder(d) EXCEPT !.ended = TRUE, !.feeding = FALSE]
      BY <1>3, <1>5, <1>16
    <3> QED BY <1>4, <3>1 DEF FlushDecoder
  <2>2. held = {}
    <3>1. Cardinality(held) = 0
      BY <1>11, <1>13, <1>16
    <3> QED BY <1>11, <3>1, FS_EmptySet
  <2>3. Fed(file, out.decoder, next + 1)
    <3>1. next + 1 \in Nat /\ Cardinality({}) = 0
      BY <1>1, FS_EmptySet
    <3>2. out.decoder.drain \in BOOLEAN
      BY <2>1
    <3>3. ~out.decoder.drain
      BY <2>1
    <3>4. Cardinality(out.decoder.held) <= Delay
      BY <1>0, <2>1, <3>1
    <3>5. out.decoder.held \subseteq {f \in Good(file) : f < next + 1}
      BY <2>1
    <3> QED BY <1>1, <2>1, <3>1, <3>2, <3>3, <3>4, <3>5 DEF Fed
  <2> QED BY <1>9, <1>16, <2>1, <2>2, <2>3 DEF Answered
<1> QED BY <1>14, <1>15, <1>16

-----------------------------------------------------------------------------
(* Decoding the next picture                                               *)

Coming(file, t) == {f \in Good(file) : t < Time(file, f)}

(* The decoder goes on where the ring ends: what it holds and what it has  *)
(* not had is what is shown after the newest entry.                        *)
Synced(file, e) ==
  /\ Ring(file, e.cache) /\ Used(e.cache)
  /\ Fed(file, e.decoder, e.sent + 1) /\ e.sent \in Nat
  /\ e.decoder.held \cup {f \in Good(file) : f > e.sent} = Coming(file, TipTime(e.cache))
  /\ e.decoder.ended \in BOOLEAN /\ e.eos \in BOOLEAN
  /\ e.decoder.ended => /\ e.decoder.held = {} /\ ~e.decoder.drain
                        /\ e.sent + 1 \notin All(file)
  /\ e.eos => e.decoder.ended
  /\ ~e.decoder.drain /\ ~e.decoder.ended => Cardinality(e.decoder.held) = Delay
  /\ Time(file, e.decoder.from) <= TipTime(e.cache)
  /\ e.decoded \in Nat /\ e.decoded <= TipTime(e.cache)

\* What decoding leaves alone.
Still(e, r) ==
  /\ r.file = e.file /\ r.segments = e.segments /\ r.trusted = e.trusted /\ r.dead = e.dead
  /\ r.segment = e.segment /\ r.current = e.current

LEMMA PtsIs ==
  ASSUME NEW file, WellTimed(file), NEW e, e.file = file, NEW f \in All(file)
  PROVE  PtsOf(e, f) = Time(file, f) /\ PtsOf(e, f) # NoTime /\ f \in Frames(e)
<1>1. file[f + 1].timed = TRUE /\ Time(file, f) < NoTime /\ Time(file, f) \in Nat /\ NoTime \in Nat
  BY FrameTime
<1> QED BY <1>1 DEF PtsOf, Picture, Time, Frames, All

LEMMA EndedNothing ==
  ASSUME NEW file, WellTimed(file), NEW e, Synced(file, e), e.decoder.ended
  PROVE  Coming(file, TipTime(e.cache)) = {}
<1>1. e.sent + 1 \notin All(file) /\ e.sent \in Nat /\ e.decoder.held = {}
  BY DEF Synced
<1>2. ASSUME NEW f \in Good(file) PROVE ~(f > e.sent)
  <2>1. f \in Nat /\ f < Len(file) /\ Len(file) \in Nat
    BY GoodTime, FrameTime
  <2> QED BY <1>1, <2>1 DEF All
<1> QED BY <1>1, <1>2 DEF Synced

\* While it is synced, nothing that is to come is dropped.
LEMMA SyncedBacklog ==
  ASSUME NEW file, WellTimed(file), NEW e, Synced(file, e)
  PROVE  /\ Backlog(file, e.decoder, e.sent + 1) = Coming(file, TipTime(e.cache))
         /\ Live(file, e.decoder.from, e.sent + 1) = {f \in Good(file) : f > e.sent}
         /\ Live(file, e.decoder.from, e.sent + 2) = {f \in Good(file) : f > e.sent + 1}
<1> DEFINE d == e.decoder
           t == TipTime(e.cache)
<1>1. /\ e.sent \in Nat /\ d.from \in All(file) /\ Time(file, d.from) <= t
      /\ d.held \cup {f \in Good(file) : f > e.sent} = Coming(file, t)
  BY DEF Synced, Fed
<1>2. Time(file, d.from) \in Nat /\ t \in Nat
  BY <1>1, FrameTime, NewestEntry DEF Synced
<1>3. ASSUME NEW f \in Good(file)
      PROVE  f \in Nat /\ (f > e.sent => Time(file, d.from) <= Time(file, f))
  <2>1. f \in Nat /\ Time(file, f) \in Nat
    BY GoodTime
  <2>2. f > e.sent => t < Time(file, f)
    BY <1>1 DEF Coming
  <2> QED BY <1>1, <1>2, <2>1, <2>2
<1>4. Live(file, d.from, e.sent + 1) = {f \in Good(file) : f > e.sent}
  <2>1. ASSUME NEW f \in Good(file) PROVE f > e.sent <=> e.sent + 1 <= f
    BY <1>1, <1>3
  <2> QED BY <1>3, <2>1 DEF Live
<1>5. Live(file, d.from, e.sent + 2) = {f \in Good(file) : f > e.sent + 1}
  <2>1. ASSUME NEW f \in Good(file)
        PROVE  (f > e.sent + 1 <=> e.sent + 2 <= f) /\ (f > e.sent + 1 => f > e.sent)
    BY <1>1, <1>3
  <2> QED BY <1>3, <2>1 DEF Live
<1> QED BY <1>1, <1>4, <1>5 DEF Backlog

LEMMA NextComing ==
  ASSUME NEW file, WellTimed(file), NEW t \in Nat, NEW f, After(file, t, f)
  PROVE  Coming(file, t) \ {f} = Coming(file, Time(file, f))
<1>1. f \in Good(file) /\ t < Time(file, f) /\ Time(file, f) \in Nat
  BY GoodTime DEF After
<1>2. ASSUME NEW g \in Good(file)
      PROVE  (t < Time(file, g) /\ g # f) <=> Time(file, f) < Time(file, g)
  <2>1. Time(file, g) \in Nat /\ (Time(file, g) = Time(file, f) => g = f)
    BY <1>1, GoodTime
  <2>2. t < Time(file, g) => Time(file, f) <= Time(file, g)
    BY DEF After
  <2> QED BY <1>1, <2>1, <2>2
<1> QED BY <1>2 DEF Coming

\* Nothing came out: the ring has lost an entry at most.
DecodedNone(file, e, r) ==
  /\ Still(e, r) /\ r.image = e.image /\ r.read = e.read /\ r.ok /\ Synced(file, r)
  /\ r.cache = Skip(e.cache) /\ r.sent = e.sent + 1 /\ (r.eos <=> r.decoder.ended)
  /\ \/ r.decoder.ended
     \/ e.sent + 1 \in All(file) \ Good(file)

\* The next picture came out.
DecodedNext(file, e, r) ==
  /\ Still(e, r) /\ r.image = e.image /\ r.read = e.read /\ r.ok /\ Synced(file, r)
  /\ ~r.decoder.ended
  /\ \E f \in Good(file) :
       /\ After(file, TipTime(e.cache), f)
       /\ r.cache = Put(e.cache, Image(f, Time(file, f)))
       /\ TipTime(r.cache) = Time(file, f) /\ r.decoded = Time(file, f)

LEMMA NextPictureDecoded ==
  ASSUME NEW file, WellTimed(file), Reordered(file), NEW e, e.file = file, e.trusted = TRUE,
         Synced(file, e), ~e.decoder.ended, NEW r, r = DecodeNextPicture(e)
  PROVE  DecodedNone(file, e, r) \/ DecodedNext(file, e, r)
<1> DEFINE next == e.sent + 1
           out == Uncompress(e, next)
           drained == e.decoder.drain \/ next \notin Frames(e)
           went == [e EXCEPT !.sent = next, !.decoder = out.decoder, !.eos = @ /\ drained]
           t == TipTime(e.cache)
<1>0. Delay \in Nat
  BY RenderAssumption DEF RenderAssumption
<1>1. /\ Fed(file, e.decoder, next) /\ e.sent \in Nat /\ next \in Nat /\ next = e.sent + 1
      /\ e.eos = FALSE /\ Ring(file, e.cache) /\ Used(e.cache)
      /\ e.decoded \in Nat /\ e.decoded <= t
      /\ ~e.decoder.drain => Cardinality(e.decoder.held) = Delay
      /\ Time(file, e.decoder.from) <= t
  BY DEF Synced
<1>2. drained <=> next \notin All(file)
  <2>1. e.decoder.drain => next \notin All(file)
    BY <1>1 DEF Fed
  <2> QED BY <2>1 DEF Frames, All
<1>3. Answered(file, e, next, out)
  <2>1. out = Uncompress(e, next)
    OBVIOUS
  <2> HIDE DEF out, next
  <2> QED BY <1>1, <2>1, Answer
<1>4. /\ Backlog(file, e.decoder, next) = Coming(file, t)
      /\ Live(file, e.decoder.from, next) = {f \in Good(file) : f > e.sent}
      /\ Live(file, e.decoder.from, next + 1) = {f \in Good(file) : f > next}
  <2>1. next + 1 = e.sent + 2
    BY <1>1
  <2> QED BY <2>1, SyncedBacklog
<1>5. r = IF out.frame = -1
          THEN [Done(went) EXCEPT !.cache = Skip(@), !.eos = drained]
          ELSE LET pts == IF e.trusted /\ PtsOf(e, out.frame) # NoTime THEN PtsOf(e, out.frame)
                          ELSE GuessedPts(e, next)
                   image == Image(out.frame, pts)
                   full == Fill(GetFreeImage(e.cache), image)
               IN [went EXCEPT !.cache = IF e.decoded > image.pts THEN Invalidate(full)
                                         ELSE Validate(full),
                               !.decoded = image.pts, !.ok = e.decoded <= image.pts]
  BY DEF DecodeNextPicture, Skip
<1>6. went = [e EXCEPT !.sent = next, !.decoder = out.decoder, !.eos = @ /\ drained]
  OBVIOUS
<1>7. t \in Nat
  BY <1>1, NewestEntry
<1> HIDE DEF out, went, drained, t, next
<1>10. CASE out.frame = -1
  <2>1. /\ r.file = e.file /\ r.segments = e.segments /\ r.trusted = e.trusted
        /\ r.segment = e.segment /\ r.current = e.current /\ r.image = e.image
        /\ r.read = e.read /\ r.dead = e.dead /\ r.ok = TRUE
        /\ r.cache = Skip(e.cache) /\ r.eos = drained /\ r.sent = next
        /\ r.decoder = out.decoder /\ r.decoded = e.decoded
    BY <1>5, <1>6, <1>10 DEF Done
  <2>2. /\ Ring(file, r.cache) /\ Used(r.cache) /\ TipTime(r.cache) = t
    BY <1>1, <2>1, SkipRing DEF t
  <2>3. drained \in BOOLEAN /\ (drained <=> next \notin All(file))
    BY <1>2 DEF drained
  <2>4. out.decoder.ended = IF next \in All(file) THEN FALSE ELSE TRUE
    BY <1>3, <1>10 DEF Synced, Answered
  <2>5. r.decoder.held \cup {f \in Good(file) : f > r.sent} = Coming(file, t)
    <3>1. CASE next \in All(file)
      BY <1>3, <1>4, <1>10, <2>1, <3>1 DEF Backlog, Answered
    <3>2. CASE next \notin All(file)
      <4>1. \A f \in Good(file) : ~(f > next)
        <5> SUFFICES ASSUME NEW f \in Good(file), f > next PROVE FALSE
          OBVIOUS
        <5>1. f \in Nat /\ f < Len(file) /\ Len(file) \in Nat
          BY GoodTime, FrameTime
        <5> QED BY <1>1, <3>2, <5>1 DEF All
      <4> QED BY <1>3, <1>4, <1>10, <2>1, <3>2, <4>1 DEF Answered
    <3> QED BY <3>1, <3>2
  <2>6. Synced(file, r)
    <3>1. r.decoder.ended => r.decoder.held = {} /\ ~r.decoder.drain /\ r.sent + 1 \notin All(file)
      <4>1. next \notin All(file) => next + 1 \notin All(file)
        BY <1>1, GoodFinite DEF All
      <4> QED BY <1>3, <1>10, <2>1, <2>4, <4>1 DEF Answered
    <3>2. ~r.decoder.drain /\ ~r.decoder.ended => Cardinality(r.decoder.held) = Delay
      <4>1. SUFFICES ASSUME ~r.decoder.ended PROVE Cardinality(r.decoder.held) = Delay
        OBVIOUS
      <4>2. next \in All(file)
        BY <2>1, <2>4, <4>1
      <4>3. Cardinality(e.decoder.held) = Delay
        BY <1>1, <4>2 DEF Fed
      <4> QED BY <1>3, <1>10, <2>1, <4>2, <4>3 DEF Answered
    <3>3. r.decoder.ended \in BOOLEAN /\ r.eos \in BOOLEAN /\ (r.eos => r.decoder.ended)
      BY <2>1, <2>3, <2>4
    <3> QED BY <1>1, <1>3, <2>1, <2>2, <2>5, <3>1, <3>2, <3>3 DEF Synced, Answered
  <2>7. r.decoder.ended \/ next \in All(file) \ Good(file)
    <3>1. SUFFICES ASSUME next \in All(file) PROVE next \notin Good(file)
      BY <2>1, <2>4
    <3>2. Cardinality(e.decoder.held) = Delay
      BY <1>1, <3>1 DEF Fed
    <3>3. next \notin Live(file, e.decoder.from, next)
      BY <1>3, <1>10, <3>1, <3>2 DEF Answered
    <3> QED BY <1>1, <1>4, <3>3
  <2>8. r.eos <=> r.decoder.ended
    BY <2>1, <2>3, <2>4
  <2> QED BY <1>1, <2>1, <2>6, <2>7, <2>8 DEF DecodedNone, Still
<1>11. CASE out.frame # -1
  <2> DEFINE f == out.frame
             image == Image(f, Time(file, f))
  <2>1. f \in Good(file) /\ f \in All(file) /\ Time(file, f) \in Nat /\ f \in Coming(file, t)
    BY <1>3, <1>4, <1>11, GoodTime DEF Answered
  <2>2. After(file, t, f)
    BY <1>3, <1>4, <1>11, <2>1 DEF After, Coming, Answered
  <2>3. t < Time(file, f) /\ image.pts = Time(file, f) /\ ~(e.decoded > Time(file, f)) /\ e.decoded <= Time(file, f)
    BY <1>1, <1>7, <2>1, <2>2, GoodTime DEF After
  <2>4. PtsOf(e, f) = Time(file, f) /\ PtsOf(e, f) # NoTime
    BY <2>1, PtsIs
  <2>5. r = [went EXCEPT !.cache = Put(e.cache, image), !.decoded = Time(file, f), !.ok = TRUE]
    <3>1. r = [went EXCEPT !.cache = IF e.decoded > image.pts THEN Invalidate(Fill(GetFreeImage(e.cache), image))
                                     ELSE Validate(Fill(GetFreeImage(e.cache), image)),
                           !.decoded = image.pts, !.ok = e.decoded <= image.pts]
      BY <1>5, <1>11, <2>4
    <3>2. (e.decoded > image.pts) = FALSE /\ (e.decoded <= image.pts) = TRUE
      BY <2>3
    <3> QED BY <2>3, <3>1, <3>2 DEF Put
  <2> HIDE DEF image
  <2>6. /\ r.file = e.file /\ r.segments = e.segments /\ r.trusted = e.trusted
        /\ r.segment = e.segment /\ r.current = e.current /\ r.image = e.image
        /\ r.read = e.read /\ r.dead = e.dead /\ r.ok = TRUE
        /\ r.cache = Put(e.cache, image) /\ r.eos = FALSE /\ r.sent = next
        /\ r.decoder = out.decoder /\ r.decoded = Time(file, f)
    <3>1. went.eos = FALSE
      <4>1. went.eos = (e.eos /\ drained)
        BY <1>6
      <4> QED BY <1>1, <4>1
    <3> QED BY <1>6, <2>5, <3>1
  <2>7. Ring(file, r.cache) /\ Used(r.cache) /\ TipTime(r.cache) = Time(file, f)
    BY <1>1, <2>1, <2>2, <2>6, PutRing DEF t, image
  <2>8. Backlog(file, out.decoder, next + 1) = Coming(file, Time(file, f))
    BY <1>3, <1>4, <1>7, <1>11, <2>2, NextComing DEF Answered
  <2>9. r.decoder.held \cup {g \in Good(file) : g > r.sent} = Coming(file, TipTime(r.cache))
    BY <1>3, <1>4, <2>6, <2>7, <2>8 DEF Backlog, Answered
  <2>10. Synced(file, r)
    <3>1. ~r.decoder.drain => Cardinality(r.decoder.held) = Delay
      BY <1>3, <1>11, <2>6 DEF Answered
    <3>2. Time(file, r.decoder.from) <= TipTime(r.cache)
      <4>1. Time(file, e.decoder.from) \in Nat
        BY <1>1, FrameTime DEF Fed
      <4> QED BY <1>1, <1>3, <1>7, <2>1, <2>3, <2>6, <2>7, <4>1 DEF Answered
    <3>3. r.decoder.ended = FALSE /\ r.eos = FALSE
      BY <1>3, <1>11, <2>6 DEF Answered
    <3>4. r.decoded \in Nat /\ r.decoded <= TipTime(r.cache)
      BY <2>1, <2>6, <2>7
    <3> QED BY <1>1, <1>3, <2>6, <2>7, <2>9, <3>1, <3>2, <3>3, <3>4 DEF Synced, Answered
  <2>11. DecodedNext(file, e, r)
    BY <1>3, <1>11, <2>1, <2>2, <2>6, <2>7, <2>10 DEF DecodedNext, Still, t, image, Answered
  <2> QED BY <2>11
<1> QED BY <1>10, <1>11

-----------------------------------------------------------------------------
(* The loops, round by round                                               *)

\* The rounds of nextPictureInternal.
LEMMA NextLoop ==
  ASSUME NEW e, NEW copy, NEW end
  PROVE  \E loop :
           /\ NextPictureInternal(e, copy, end) =
                 (IF loop[Loops].at = "found" THEN Done(loop[Loops].e) ELSE Failed(loop[Loops].e))
           /\ loop[0] = Start(e)
           /\ \A n \in 1..Loops : loop[n] = NextRound(loop[n - 1], copy, end)
<1> DEFINE IsLoop(g, m) ==
             g = [n \in 0..m |-> IF n = 0 THEN Start(e) ELSE NextRound(g[n - 1], copy, end)]
           S == {m \in 0..Loops : \E g : IsLoop(g, m)}
<1>0. Loops \in Nat
  BY RenderAssumption DEF RenderAssumption
<1>1. 0 \in S
  <2> DEFINE g == [n \in 0..0 |-> Start(e)]
  <2>1. g = [n \in 0..0 |-> IF n = 0 THEN Start(e) ELSE NextRound(g[n - 1], copy, end)]
    OBVIOUS
  <2> HIDE DEF g
  <2>2. IsLoop(g, 0)
    BY <2>1
  <2> HIDE DEF IsLoop
  <2> QED BY <1>0, <2>2
<1>2. ASSUME NEW m \in 0..Loops - 1, m \in S PROVE m + 1 \in S
  <2>1. PICK g : IsLoop(g, m)
    BY <1>2
  <2> DEFINE h == [n \in 0..m + 1 |-> IF n = m + 1 THEN NextRound(g[m], copy, end) ELSE g[n]]
  <2>2. ASSUME NEW n \in 0..m + 1
        PROVE  h[n] = IF n = 0 THEN Start(e) ELSE NextRound(h[n - 1], copy, end)
    <3>1. CASE n = m + 1
      <4>1. h[n - 1] = g[m] /\ n # 0
        BY <1>0, <3>1
      <4> QED BY <3>1, <4>1
    <3>2. CASE n # m + 1 /\ n # 0
      <4>1. n \in 0..m /\ n - 1 \in 0..m /\ n - 1 # m + 1 /\ n - 1 \in 0..m + 1
        BY <1>0, <3>2
      <4>2. h[n] = g[n] /\ h[n - 1] = g[n - 1]
        BY <3>2, <4>1
      <4>3. g[n] = NextRound(g[n - 1], copy, end)
        BY <2>1, <3>2, <4>1
      <4> HIDE DEF h
      <4> QED BY <3>2, <4>2, <4>3
    <3>3. CASE n = 0
      <4>1. h[0] = g[0] /\ g[0] = Start(e)
        BY <1>0, <2>1, <3>3
      <4> HIDE DEF h
      <4> QED BY <3>3, <4>1
    <3> QED BY <3>1, <3>2, <3>3
  <2>3. h = [n \in 0..m + 1 |-> h[n]]
    OBVIOUS
  <2> HIDE DEF h
  <2>4. IsLoop(h, m + 1)
    BY <2>2, <2>3, Zenon
  <2> HIDE DEF IsLoop
  <2> QED BY <1>0, <2>4
<1>3. Loops \in S
  <2>1. \A m \in 0..Loops : m \in S
    <3> HIDE DEF S
    <3> QED BY <1>0, <1>1, <1>2, Induct
  <2> QED BY <1>0, <2>1
<1> DEFINE f == CHOOSE g : IsLoop(g, Loops)
<1>4. IsLoop(f, Loops)
  <2>1. \E g : IsLoop(g, Loops)
    BY <1>3
  <2> HIDE DEF IsLoop
  <2> QED BY <2>1, Zenon
<1>5. NextPictureInternal(e, copy, end) =
        (IF f[Loops].at = "found" THEN Done(f[Loops].e) ELSE Failed(f[Loops].e))
  BY Zenon DEF NextPictureInternal
<1> HIDE DEF f
<1>6. f[0] = Start(e)
  BY <1>0, <1>4
<1>7. ASSUME NEW n \in 1..Loops PROVE f[n] = NextRound(f[n - 1], copy, end)
  <2>1. n \in 0..Loops /\ n # 0
    BY <1>0
  <2> QED BY <1>4, <2>1
<1> HIDE DEF IsLoop
<1> QED BY <1>5, <1>6, <1>7, Zenon


\* The rounds of DecodePictureUpToIntra.
LEMMA UntilLoop ==
  ASSUME NEW e, NEW wanted
  PROVE  \E loop :
           /\ DecodeUntil(e, wanted) =
                 (IF loop[Tries].at = "found" THEN Done(loop[Tries].e)
                  ELSE [Failed(loop[Tries].e) EXCEPT !.delay = 0])
           /\ loop[0] = Start(e)
           /\ \A n \in 1..Tries : loop[n] = UntilRound(loop[n - 1], wanted)
<1> DEFINE IsLoop(g, m) ==
             g = [n \in 0..m |-> IF n = 0 THEN Start(e) ELSE UntilRound(g[n - 1], wanted)]
           S == {m \in 0..Tries : \E g : IsLoop(g, m)}
<1>0. Tries \in Nat
  BY RenderAssumption DEF RenderAssumption
<1>1. 0 \in S
  <2> DEFINE g == [n \in 0..0 |-> Start(e)]
  <2>1. g = [n \in 0..0 |-> IF n = 0 THEN Start(e) ELSE UntilRound(g[n - 1], wanted)]
    OBVIOUS
  <2> HIDE DEF g
  <2>2. IsLoop(g, 0)
    BY <2>1
  <2> HIDE DEF IsLoop
  <2> QED BY <1>0, <2>2
<1>2. ASSUME NEW m \in 0..Tries - 1, m \in S PROVE m + 1 \in S
  <2>1. PICK g : IsLoop(g, m)
    BY <1>2
  <2> DEFINE h == [n \in 0..m + 1 |-> IF n = m + 1 THEN UntilRound(g[m], wanted) ELSE g[n]]
  <2>2. ASSUME NEW n \in 0..m + 1
        PROVE  h[n] = IF n = 0 THEN Start(e) ELSE UntilRound(h[n - 1], wanted)
    <3>1. CASE n = m + 1
      <4>1. h[n - 1] = g[m] /\ n # 0
        BY <1>0, <3>1
      <4> QED BY <3>1, <4>1
    <3>2. CASE n # m + 1 /\ n # 0
      <4>1. n \in 0..m /\ n - 1 \in 0..m /\ n - 1 # m + 1 /\ n - 1 \in 0..m + 1
        BY <1>0, <3>2
      <4>2. h[n] = g[n] /\ h[n - 1] = g[n - 1]
        BY <3>2, <4>1
      <4>3. g[n] = UntilRound(g[n - 1], wanted)
        BY <2>1, <3>2, <4>1
      <4> HIDE DEF h
      <4> QED BY <3>2, <4>2, <4>3
    <3>3. CASE n = 0
      <4>1. h[0] = g[0] /\ g[0] = Start(e)
        BY <1>0, <2>1, <3>3
      <4> HIDE DEF h
      <4> QED BY <3>3, <4>1
    <3> QED BY <3>1, <3>2, <3>3
  <2>3. h = [n \in 0..m + 1 |-> h[n]]
    OBVIOUS
  <2> HIDE DEF h
  <2>4. IsLoop(h, m + 1)
    BY <2>2, <2>3, Zenon
  <2> HIDE DEF IsLoop
  <2> QED BY <1>0, <2>4
<1>3. Tries \in S
  <2>1. \A m \in 0..Tries : m \in S
    <3> HIDE DEF S
    <3> QED BY <1>0, <1>1, <1>2, Induct
  <2> QED BY <1>0, <2>1
<1> DEFINE f == CHOOSE g : IsLoop(g, Tries)
<1>4. IsLoop(f, Tries)
  <2>1. \E g : IsLoop(g, Tries)
    BY <1>3
  <2> HIDE DEF IsLoop
  <2> QED BY <2>1, Zenon
<1>5. DecodeUntil(e, wanted) =
        (IF f[Tries].at = "found" THEN Done(f[Tries].e)
         ELSE [Failed(f[Tries].e) EXCEPT !.delay = 0])
  BY Zenon DEF DecodeUntil
<1> HIDE DEF f
<1>6. f[0] = Start(e)
  BY <1>0, <1>4
<1>7. ASSUME NEW n \in 1..Tries PROVE f[n] = UntilRound(f[n - 1], wanted)
  <2>1. n \in 0..Tries /\ n # 0
    BY <1>0
  <2> QED BY <1>4, <2>1
<1> HIDE DEF IsLoop
<1> QED BY <1>5, <1>6, <1>7, Zenon


\* The rounds of seektoTime.
LEMMA ForwardLoop ==
  ASSUME NEW e, NEW pts, Enough(e) \in Nat
  PROVE  \E loop :
           /\ DecodeForward(e, pts) =
                 (IF loop[Enough(e)].at = "found" THEN Done(loop[Enough(e)].e) ELSE Failed(loop[Enough(e)].e))
           /\ loop[0] = Start(e)
           /\ \A n \in 1..Enough(e) : loop[n] = ForwardRound(loop[n - 1], pts)
<1> DEFINE IsLoop(g, m) ==
             g = [n \in 0..m |-> IF n = 0 THEN Start(e) ELSE ForwardRound(g[n - 1], pts)]
           S == {m \in 0..Enough(e) : \E g : IsLoop(g, m)}
<1>0. Enough(e) \in Nat
  OBVIOUS
<1>1. 0 \in S
  <2> DEFINE g == [n \in 0..0 |-> Start(e)]
  <2>1. g = [n \in 0..0 |-> IF n = 0 THEN Start(e) ELSE ForwardRound(g[n - 1], pts)]
    OBVIOUS
  <2> HIDE DEF g
  <2>2. IsLoop(g, 0)
    BY <2>1
  <2> HIDE DEF IsLoop
  <2> QED BY <1>0, <2>2
<1>2. ASSUME NEW m \in 0..Enough(e) - 1, m \in S PROVE m + 1 \in S
  <2>1. PICK g : IsLoop(g, m)
    BY <1>2
  <2> DEFINE h == [n \in 0..m + 1 |-> IF n = m + 1 THEN ForwardRound(g[m], pts) ELSE g[n]]
  <2>2. ASSUME NEW n \in 0..m + 1
        PROVE  h[n] = IF n = 0 THEN Start(e) ELSE ForwardRound(h[n - 1], pts)
    <3>1. CASE n = m + 1
      <4>1. h[n - 1] = g[m] /\ n # 0
        BY <1>0, <3>1
      <4> QED BY <3>1, <4>1
    <3>2. CASE n # m + 1 /\ n # 0
      <4>1. n \in 0..m /\ n - 1 \in 0..m /\ n - 1 # m + 1 /\ n - 1 \in 0..m + 1
        BY <1>0, <3>2
      <4>2. h[n] = g[n] /\ h[n - 1] = g[n - 1]
        BY <3>2, <4>1
      <4>3. g[n] = ForwardRound(g[n - 1], pts)
        BY <2>1, <3>2, <4>1
      <4> HIDE DEF h
      <4> QED BY <3>2, <4>2, <4>3
    <3>3. CASE n = 0
      <4>1. h[0] = g[0] /\ g[0] = Start(e)
        BY <1>0, <2>1, <3>3
      <4> HIDE DEF h
      <4> QED BY <3>3, <4>1
    <3> QED BY <3>1, <3>2, <3>3
  <2>3. h = [n \in 0..m + 1 |-> h[n]]
    OBVIOUS
  <2> HIDE DEF h
  <2>4. IsLoop(h, m + 1)
    BY <2>2, <2>3, Zenon
  <2> HIDE DEF IsLoop
  <2> QED BY <1>0, <2>4
<1>3. Enough(e) \in S
  <2>1. \A m \in 0..Enough(e) : m \in S
    <3> HIDE DEF S
    <3> QED BY <1>0, <1>1, <1>2, Induct
  <2> QED BY <1>0, <2>1
<1> DEFINE f == CHOOSE g : IsLoop(g, Enough(e))
<1>4. IsLoop(f, Enough(e))
  <2>1. \E g : IsLoop(g, Enough(e))
    BY <1>3
  <2> HIDE DEF IsLoop
  <2> QED BY <2>1, Zenon
<1>5. DecodeForward(e, pts) =
        (IF f[Enough(e)].at = "found" THEN Done(f[Enough(e)].e) ELSE Failed(f[Enough(e)].e))
  BY Zenon DEF DecodeForward
<1> HIDE DEF f
<1>6. f[0] = Start(e)
  BY <1>0, <1>4
<1>7. ASSUME NEW n \in 1..Enough(e) PROVE f[n] = ForwardRound(f[n - 1], pts)
  <2>1. n \in 0..Enough(e) /\ n # 0
    BY <1>0
  <2> QED BY <1>4, <2>1
<1> HIDE DEF IsLoop
<1> QED BY <1>5, <1>6, <1>7, Zenon


\* The rounds of decodeTillPictureAtPts.
LEMMA PlayLoop ==
  ASSUME NEW e, NEW t, Enough(e) \in Nat
  PROVE  \E loop :
           /\ PlayUpTo(e, t) = [e |-> loop[Enough(e)].e, answer |-> loop[Enough(e)].at]
           /\ loop[0] = Start(e)
           /\ \A n \in 1..Enough(e) : loop[n] = PlayRound(loop[n - 1], t)
<1> DEFINE IsLoop(g, m) ==
             g = [n \in 0..m |-> IF n = 0 THEN Start(e) ELSE PlayRound(g[n - 1], t)]
           S == {m \in 0..Enough(e) : \E g : IsLoop(g, m)}
<1>0. Enough(e) \in Nat
  OBVIOUS
<1>1. 0 \in S
  <2> DEFINE g == [n \in 0..0 |-> Start(e)]
  <2>1. g = [n \in 0..0 |-> IF n = 0 THEN Start(e) ELSE PlayRound(g[n - 1], t)]
    OBVIOUS
  <2> HIDE DEF g
  <2>2. IsLoop(g, 0)
    BY <2>1
  <2> HIDE DEF IsLoop
  <2> QED BY <1>0, <2>2
<1>2. ASSUME NEW m \in 0..Enough(e) - 1, m \in S PROVE m + 1 \in S
  <2>1. PICK g : IsLoop(g, m)
    BY <1>2
  <2> DEFINE h == [n \in 0..m + 1 |-> IF n = m + 1 THEN PlayRound(g[m], t) ELSE g[n]]
  <2>2. ASSUME NEW n \in 0..m + 1
        PROVE  h[n] = IF n = 0 THEN Start(e) ELSE PlayRound(h[n - 1], t)
    <3>1. CASE n = m + 1
      <4>1. h[n - 1] = g[m] /\ n # 0
        BY <1>0, <3>1
      <4> QED BY <3>1, <4>1
    <3>2. CASE n # m + 1 /\ n # 0
      <4>1. n \in 0..m /\ n - 1 \in 0..m /\ n - 1 # m + 1 /\ n - 1 \in 0..m + 1
        BY <1>0, <3>2
      <4>2. h[n] = g[n] /\ h[n - 1] = g[n - 1]
        BY <3>2, <4>1
      <4>3. g[n] = PlayRound(g[n - 1], t)
        BY <2>1, <3>2, <4>1
      <4> HIDE DEF h
      <4> QED BY <3>2, <4>2, <4>3
    <3>3. CASE n = 0
      <4>1. h[0] = g[0] /\ g[0] = Start(e)
        BY <1>0, <2>1, <3>3
      <4> HIDE DEF h
      <4> QED BY <3>3, <4>1
    <3> QED BY <3>1, <3>2, <3>3
  <2>3. h = [n \in 0..m + 1 |-> h[n]]
    OBVIOUS
  <2> HIDE DEF h
  <2>4. IsLoop(h, m + 1)
    BY <2>2, <2>3, Zenon
  <2> HIDE DEF IsLoop
  <2> QED BY <1>0, <2>4
<1>3. Enough(e) \in S
  <2>1. \A m \in 0..Enough(e) : m \in S
    <3> HIDE DEF S
    <3> QED BY <1>0, <1>1, <1>2, Induct
  <2> QED BY <1>0, <2>1
<1> DEFINE f == CHOOSE g : IsLoop(g, Enough(e))
<1>4. IsLoop(f, Enough(e))
  <2>1. \E g : IsLoop(g, Enough(e))
    BY <1>3
  <2> HIDE DEF IsLoop
  <2> QED BY <2>1, Zenon
<1>5. PlayUpTo(e, t) = [e |-> f[Enough(e)].e, answer |-> f[Enough(e)].at]
  BY Zenon DEF PlayUpTo
<1> HIDE DEF f
<1>6. f[0] = Start(e)
  BY <1>0, <1>4
<1>7. ASSUME NEW n \in 1..Enough(e) PROVE f[n] = PlayRound(f[n - 1], t)
  <2>1. n \in 0..Enough(e) /\ n # 0
    BY <1>0
  <2> QED BY <1>4, <2>1
<1> HIDE DEF IsLoop
<1> QED BY <1>5, <1>6, <1>7, Zenon


\* One step back in the ring, unless the picture is before the time.
Back(cache, i, pts) ==
  IF i.pts < pts \/ GetBefore(cache, i.pts) = None THEN i ELSE GetBefore(cache, i.pts)

LEMMA BackLoop ==
  ASSUME NEW cache, NEW image, NEW pts
  PROVE  \E loop :
           /\ LastBefore(cache, image, pts) = loop[NbImage]
           /\ loop[0] = image
           /\ \A n \in 1..NbImage : loop[n] = Back(cache, loop[n - 1], pts)
<1> DEFINE IsLoop(g, m) ==
             g = [n \in 0..m |-> IF n = 0 THEN image ELSE Back(cache, g[n - 1], pts)]
           S == {m \in 0..NbImage : \E g : IsLoop(g, m)}
<1>0. NbImage \in Nat
  BY CacheAssumption DEF CacheAssumption
<1>1. 0 \in S
  <2> DEFINE g == [n \in 0..0 |-> image]
  <2>1. g = [n \in 0..0 |-> IF n = 0 THEN image ELSE Back(cache, g[n - 1], pts)]
    OBVIOUS
  <2> HIDE DEF g
  <2>2. IsLoop(g, 0)
    BY <2>1
  <2> HIDE DEF IsLoop
  <2> QED BY <1>0, <2>2
<1>2. ASSUME NEW m \in 0..NbImage - 1, m \in S PROVE m + 1 \in S
  <2>1. PICK g : IsLoop(g, m)
    BY <1>2
  <2> DEFINE h == [n \in 0..m + 1 |-> IF n = m + 1 THEN Back(cache, g[m], pts) ELSE g[n]]
  <2>2. ASSUME NEW n \in 0..m + 1
        PROVE  h[n] = IF n = 0 THEN image ELSE Back(cache, h[n - 1], pts)
    <3>1. CASE n = m + 1
      <4>1. h[n - 1] = g[m] /\ n # 0
        BY <1>0, <3>1
      <4> QED BY <3>1, <4>1
    <3>2. CASE n # m + 1 /\ n # 0
      <4>1. n \in 0..m /\ n - 1 \in 0..m /\ n - 1 # m + 1 /\ n - 1 \in 0..m + 1
        BY <1>0, <3>2
      <4>2. h[n] = g[n] /\ h[n - 1] = g[n - 1]
        BY <3>2, <4>1
      <4>3. g[n] = Back(cache, g[n - 1], pts)
        BY <2>1, <3>2, <4>1
      <4> HIDE DEF h
      <4> QED BY <3>2, <4>2, <4>3
    <3>3. CASE n = 0
      <4>1. h[0] = g[0] /\ g[0] = image
        BY <1>0, <2>1, <3>3
      <4> HIDE DEF h
      <4> QED BY <3>3, <4>1
    <3> QED BY <3>1, <3>2, <3>3
  <2>3. h = [n \in 0..m + 1 |-> h[n]]
    OBVIOUS
  <2> HIDE DEF h
  <2>4. IsLoop(h, m + 1)
    BY <2>2, <2>3, Zenon
  <2> HIDE DEF IsLoop
  <2> QED BY <1>0, <2>4
<1>3. NbImage \in S
  <2>1. \A m \in 0..NbImage : m \in S
    <3> HIDE DEF S
    <3> QED BY <1>0, <1>1, <1>2, Induct
  <2> QED BY <1>0, <2>1
<1> DEFINE f == CHOOSE g : IsLoop(g, NbImage)
<1>4. IsLoop(f, NbImage)
  <2>1. \E g : IsLoop(g, NbImage)
    BY <1>3
  <2> HIDE DEF IsLoop
  <2> QED BY <2>1, Zenon
<1>5. LastBefore(cache, image, pts) = f[NbImage]
  BY Zenon DEF LastBefore, Back
<1> HIDE DEF f
<1>6. f[0] = image
  BY <1>0, <1>4
<1>7. ASSUME NEW n \in 1..NbImage PROVE f[n] = Back(cache, f[n - 1], pts)
  <2>1. n \in 0..NbImage /\ n # 0
    BY <1>0
  <2> QED BY <1>4, <2>1
<1> HIDE DEF IsLoop
<1> QED BY <1>5, <1>6, <1>7, Zenon


-----------------------------------------------------------------------------
(* nextPictureInternal                                                     *)

LEMMA AfterIs ==
  ASSUME NEW file, WellTimed(file), NEW t, NEW f, NEW g, After(file, t, f), After(file, t, g)
  PROVE  f = g
<1>1. f \in Good(file) /\ g \in Good(file) /\ t < Time(file, f) /\ t < Time(file, g)
  BY DEF After
<1>2. Time(file, f) <= Time(file, g) /\ Time(file, g) <= Time(file, f)
  BY <1>1 DEF After
<1>3. Time(file, f) \in Nat /\ Time(file, g) \in Nat /\ g \in All(file)
  BY <1>1, GoodTime
<1> QED BY <1>1, <1>2, <1>3, GoodTime

\* The part of the state that decoding uses.
LEMMA SyncedSame ==
  ASSUME NEW file, NEW e, NEW r, Synced(file, e), r.cache = e.cache, r.decoder = e.decoder,
         r.sent = e.sent, r.eos = e.eos, r.decoded = e.decoded
  PROVE  Synced(file, r)
BY DEF Synced

LEMMA FullOldest ==
  ASSUME NEW file, WellTimed(file), NEW c, Ring(file, c), Full(c)
  PROVE  Used(c) /\ Oldest(c) < TipTime(c)
<1>1. Shape(c)
  BY DEF Ring
<1>2. c.read \in Int /\ c.write \in Int /\ NbImage \in Nat /\ NbImage > 1
  BY <1>1, InRing
<1>3. c.write = c.read + NbImage
  BY <1>2 DEF Full
<1>4. c.read \in Window(c) /\ c.write - 1 \in Window(c) /\ c.read < c.write - 1 /\ c.read < c.write
  BY <1>2, <1>3 DEF Window
<1> QED BY <1>4, RingOrder DEF Used, Oldest, TipTime

\* The loop goes on: nothing has come out yet.
NextOn(file, e, n, y) ==
  /\ Still(e, y) /\ y.image = e.image /\ y.read = e.read
  /\ Synced(file, y) /\ TipTime(y.cache) = TipTime(e.cache)
  /\ \/ y.decoder.ended
     \/ /\ e.read = TipTime(e.cache) /\ y.sent = e.sent + n
        /\ \A g \in e.sent + 1..e.sent + n : g \in All(file) \ Good(file)

NextFound(file, e, copy, end, y) ==
  /\ Still(e, y) /\ Synced(file, y) /\ Has(y.cache, TipTime(e.cache)) /\ ~y.decoder.ended
  /\ \E f \in Good(file) :
       /\ After(file, TipTime(e.cache), f) /\ TipTime(y.cache) = Time(file, f)
       /\ y.decoded = Time(file, f) /\ Oldest(y.cache) < Time(file, f)
       /\ end # 0 => Time(file, f) < end
       /\ copy => y.image = Image(f, Time(file, f)) /\ y.read = Time(file, f)
  /\ ~copy => y.image = e.image /\ y.read = e.read

NextLost(file, e, end, y) ==
  /\ Still(e, y) /\ y.image = e.image /\ y.read = e.read
  /\ Synced(file, y) /\ Has(y.cache, TipTime(e.cache))
  /\ \/ /\ y.decoder.ended /\ TipTime(y.cache) = TipTime(e.cache)
        /\ Coming(file, TipTime(e.cache)) = {}
     \/ /\ ~y.decoder.ended /\ end # 0
        /\ \E f \in Good(file) :
             /\ After(file, TipTime(e.cache), f) /\ TipTime(y.cache) = Time(file, f)
             /\ end <= Time(file, f)

NextStep(file, e, copy, end, n, z) ==
  \/ z.at = "on" /\ NextOn(file, e, n, z.e)
  \/ z.at = "found" /\ NextFound(file, e, copy, end, z.e)
  \/ z.at = "lost" /\ NextLost(file, e, end, z.e)

LEMMA NextRoundOn ==
  ASSUME NEW file, WellTimed(file), Reordered(file), NEW e, e.file = file, e.trusted = TRUE,
         e.sent \in Int,
         NEW copy \in BOOLEAN, NEW end \in Nat, NEW n \in Nat, NEW x, x.at = "on",
         NextOn(file, e, n, x.e), NEW z, z = NextRound(x, copy, end)
  PROVE  NextStep(file, e, copy, end, n + 1, z)
<1> DEFINE y == x.e
           next == DecodeNextPicture(y)
           found == GetAfter(next.cache, next.read)
           t == TipTime(e.cache)
<1>1. /\ Still(e, y) /\ y.image = e.image /\ y.read = e.read
      /\ Synced(file, y) /\ TipTime(y.cache) = t
      /\ \/ y.decoder.ended
         \/ /\ e.read = t /\ y.sent = e.sent + n
            /\ \A g \in e.sent + 1..e.sent + n : g \in All(file) \ Good(file)
  BY DEF NextOn
<1>2. /\ y.file = file /\ y.trusted = TRUE /\ Ring(file, y.cache) /\ Used(y.cache)
      /\ t \in Nat /\ Has(y.cache, t)
  <2>1. y.file = file /\ y.trusted = TRUE /\ Ring(file, y.cache) /\ Used(y.cache)
    BY <1>1 DEF Still, Synced
  <2> QED BY <1>1, <2>1, NewestEntry
<1>3. z = IF y.eos THEN [x EXCEPT !.at = "lost"]
          ELSE IF ~next.ok \/ found = NoImage THEN [x EXCEPT !.e = next]
          ELSE IF end # 0 /\ found.pts >= end THEN [x EXCEPT !.e = next, !.at = "lost"]
          ELSE [x EXCEPT !.e = IF copy THEN [next EXCEPT !.image = found, !.read = found.pts]
                               ELSE next,
                         !.at = "found"]
  BY DEF NextRound, None
<1>4. next = DecodeNextPicture(y) /\ found = GetAfter(next.cache, next.read)
  OBVIOUS
<1> HIDE DEF next, found, t
<1>5. CASE y.eos
  <2>1. z.at = "lost" /\ z.e = y
    BY <1>3, <1>5
  <2>2. y.decoder.ended
    BY <1>1, <1>5 DEF Synced
  <2>3. Coming(file, t) = {}
    BY <1>1, <2>2, EndedNothing
  <2>4. NextLost(file, e, end, y)
    BY <1>1, <1>2, <2>2, <2>3 DEF NextLost, t
  <2> QED BY <2>1, <2>4 DEF NextStep
<1>6. CASE ~y.eos /\ y.decoder.ended
  <2>1. next = Failed(y)
    BY <1>4, <1>6 DEF DecodeNextPicture
  <2>2. next.ok = FALSE
    BY <2>1 DEF Failed
  <2>3. z.at = "on" /\ z.e = Failed(y)
    BY <1>3, <1>6, <2>1, <2>2
  <2>4. /\ Failed(y).cache = y.cache /\ Failed(y).decoder = y.decoder /\ Failed(y).sent = y.sent
        /\ Failed(y).eos = y.eos /\ Failed(y).decoded = y.decoded
        /\ Failed(y).image = y.image /\ Failed(y).read = y.read /\ Still(y, Failed(y))
    BY DEF Failed, Still
  <2>5. Synced(file, Failed(y))
    BY <1>1, <2>4, SyncedSame
  <2>6. NextOn(file, e, n + 1, Failed(y))
    BY <1>1, <1>6, <2>4, <2>5 DEF NextOn, Still, t
  <2> QED BY <2>3, <2>6 DEF NextStep
<1>7. CASE ~y.eos /\ ~y.decoder.ended
  <2>1. DecodedNone(file, y, next) \/ DecodedNext(file, y, next)
    BY <1>1, <1>2, <1>4, <1>7, NextPictureDecoded
  <2>2. e.read = t /\ y.sent = e.sent + n /\ y.read = t
    BY <1>1, <1>7
  <2>3. e.sent \in Int
    OBVIOUS
  <2>4. CASE DecodedNone(file, y, next)
    <3>1. /\ Still(y, next) /\ next.image = y.image /\ next.read = t /\ next.ok
          /\ Synced(file, next) /\ next.cache = Skip(y.cache) /\ next.sent = y.sent + 1
          /\ next.decoder.ended \/ y.sent + 1 \in All(file) \ Good(file)
      BY <2>2, <2>4 DEF DecodedNone
    <3>2. Ring(file, next.cache) /\ TipTime(next.cache) = t /\ Has(next.cache, t)
      <4>1. Ring(file, next.cache) /\ TipTime(next.cache) = t /\ Used(next.cache)
        BY <1>1, <1>2, <3>1, SkipRing
      <4> QED BY <4>1, NewestEntry
    <3>3. found = NoImage
      BY <1>4, <3>1, <3>2, AskAfter
    <3>4. z.at = "on" /\ z.e = next
      BY <1>3, <1>7, <3>3
    <3>5. next.decoder.ended \/
            (next.sent = e.sent + (n + 1) /\ \A g \in e.sent + 1..e.sent + (n + 1) : g \in All(file) \ Good(file))
      <4>1. SUFFICES ASSUME ~next.decoder.ended
                     PROVE  /\ next.sent = e.sent + (n + 1)
                            /\ \A g \in e.sent + 1..e.sent + (n + 1) : g \in All(file) \ Good(file)
        OBVIOUS
      <4>2. y.sent + 1 \in All(file) \ Good(file)
        BY <3>1, <4>1
      <4>3. \A g \in e.sent + 1..e.sent + n : g \in All(file) \ Good(file)
        BY <1>1, <1>7
      <4>4. y.sent + 1 = e.sent + (n + 1)
        BY <2>2, <2>3
      <4>5. \A g \in e.sent + 1..e.sent + (n + 1) : g \in e.sent + 1..e.sent + n \/ g = e.sent + (n + 1)
        BY <2>3
      <4> QED BY <3>1, <4>2, <4>3, <4>4, <4>5
    <3>6. NextOn(file, e, n + 1, next)
      BY <1>1, <2>2, <3>1, <3>2, <3>5 DEF NextOn, Still, t
    <3> QED BY <3>4, <3>6 DEF NextStep
  <2>5. CASE DecodedNext(file, y, next)
    <3>1. /\ Still(y, next) /\ next.image = y.image /\ next.read = t /\ next.ok
          /\ Synced(file, next) /\ ~next.decoder.ended
      BY <2>2, <2>5 DEF DecodedNext
    <3>2. PICK f \in Good(file) :
            /\ After(file, t, f)
            /\ next.cache = Put(y.cache, Image(f, Time(file, f)))
            /\ TipTime(next.cache) = Time(file, f) /\ next.decoded = Time(file, f)
      BY <1>1, <2>5 DEF DecodedNext
    <3>3. Ring(file, next.cache) /\ Has(next.cache, t) /\ Oldest(next.cache) < Time(file, f)
      BY <1>1, <1>2, <3>2, PutRing
    <3>4. t # TipTime(next.cache) /\ Time(file, f) \in Nat
      BY <1>2, <3>2, GoodTime DEF After
    <3>5. PICK g \in Good(file) : After(file, t, g) /\ GetAfter(next.cache, t) = Image(g, Time(file, g))
      BY <3>3, <3>4, AskAfter
    <3>6. g = f
      BY <3>2, <3>5, AfterIs
    <3>7. found = Image(f, Time(file, f)) /\ found # NoImage /\ found.pts = Time(file, f)
      BY <1>4, <3>1, <3>5, <3>6, IsImage, GoodTime
    <3>8. CASE end # 0 /\ Time(file, f) >= end
      <4>1. z.at = "lost" /\ z.e = next
        BY <1>3, <1>7, <3>1, <3>7, <3>8
      <4>2. \E h \in Good(file) :
               After(file, t, h) /\ TipTime(next.cache) = Time(file, h) /\ end <= Time(file, h)
        BY <3>2, <3>4, <3>8
      <4>3. Still(e, next) /\ next.image = e.image /\ next.read = e.read
        BY <1>1, <3>1, <2>2 DEF Still
      <4>4. NextLost(file, e, end, next)
        BY <3>1, <3>3, <3>8, <4>2, <4>3 DEF NextLost, t
      <4> QED BY <4>1, <4>4 DEF NextStep
    <3>9. CASE ~(end # 0 /\ Time(file, f) >= end) /\ copy
      <4>1. z.at = "found" /\ z.e = [next EXCEPT !.image = found, !.read = found.pts]
        BY <1>3, <1>7, <3>1, <3>7, <3>9
      <4>2. /\ Still(next, z.e) /\ z.e.cache = next.cache /\ z.e.decoder = next.decoder
            /\ z.e.sent = next.sent /\ z.e.eos = next.eos /\ z.e.decoded = next.decoded
            /\ z.e.image = found /\ z.e.read = found.pts
        BY <4>1 DEF Still
      <4>3. Synced(file, z.e)
        BY <3>1, <4>2, SyncedSame
      <4>4. end # 0 => Time(file, f) < end
        BY <3>4, <3>9
      <4>5. /\ TipTime(z.e.cache) = Time(file, f) /\ z.e.decoded = Time(file, f)
            /\ Oldest(z.e.cache) < Time(file, f) /\ Has(z.e.cache, t)
            /\ z.e.image = Image(f, Time(file, f)) /\ z.e.read = Time(file, f)
            /\ ~z.e.decoder.ended
        BY <3>1, <3>2, <3>3, <3>7, <4>2
      <4>6. Still(e, z.e)
        BY <1>1, <3>1, <4>2 DEF Still
      <4>7. NextFound(file, e, copy, end, z.e)
        BY <3>2, <3>9, <4>3, <4>4, <4>5, <4>6 DEF NextFound, t
      <4> QED BY <4>1, <4>7 DEF NextStep
    <3>10. CASE ~(end # 0 /\ Time(file, f) >= end) /\ ~copy
      <4>1. z.at = "found" /\ z.e = next
        BY <1>3, <1>7, <3>1, <3>7, <3>10
      <4>4. end # 0 => Time(file, f) < end
        BY <3>4, <3>10
      <4>5. NextFound(file, e, copy, end, z.e)
        BY <1>1, <2>2, <3>1, <3>2, <3>3, <3>10, <4>1, <4>4 DEF NextFound, Still, t
      <4> QED BY <4>1, <4>5 DEF NextStep
    <3> QED BY <3>8, <3>9, <3>10
  <2> QED BY <2>1, <2>4, <2>5
<1> QED BY <1>5, <1>6, <1>7

\* The answer is all that changes at the end of a loop.
OnlyAnswered(file, y, r) ==
  /\ Still(y, r) /\ r.image = y.image /\ r.read = y.read /\ r.cache = y.cache
  /\ r.decoder = y.decoder /\ r.sent = y.sent /\ r.eos = y.eos /\ r.decoded = y.decoded
  /\ Synced(file, y) => Synced(file, r)

LEMMA DoneAnswered ==
  ASSUME NEW file, NEW y, NEW r, r = Done(y)
  PROVE  OnlyAnswered(file, y, r) /\ r.ok = TRUE
<1>1. /\ Still(y, r) /\ r.image = y.image /\ r.read = y.read /\ r.cache = y.cache
      /\ r.decoder = y.decoder /\ r.sent = y.sent /\ r.eos = y.eos /\ r.decoded = y.decoded
      /\ r.ok = TRUE
  BY DEF Done, Still
<1> QED BY <1>1, SyncedSame DEF OnlyAnswered

LEMMA FailedAnswered ==
  ASSUME NEW file, NEW y, NEW r, r = Failed(y)
  PROVE  OnlyAnswered(file, y, r) /\ r.ok = FALSE
<1>1. /\ Still(y, r) /\ r.image = y.image /\ r.read = y.read /\ r.cache = y.cache
      /\ r.decoder = y.decoder /\ r.sent = y.sent /\ r.eos = y.eos /\ r.decoded = y.decoded
      /\ r.ok = FALSE
  BY DEF Failed, Still
<1> QED BY <1>1, SyncedSame DEF OnlyAnswered

\* With nothing in the ring after the picture read last, the next one is
\* decoded, or there is none.
LEMMA InternalReady ==
  ASSUME NEW file, WellTimed(file), Reordered(file), Reachable(file),
         NEW e, e.file = file, e.trusted = TRUE, Synced(file, e),
         e.decoder.ended \/ e.read = TipTime(e.cache),
         NEW copy \in BOOLEAN, NEW end \in Nat, NEW r, r = NextPictureInternal(e, copy, end)
  PROVE  \/ r.ok = TRUE /\ NextFound(file, e, copy, end, r)
         \/ r.ok = FALSE /\ NextLost(file, e, end, r)
<1>0. Loops \in Nat /\ e.sent \in Nat
  BY RenderAssumption DEF RenderAssumption, Synced
<1>1. PICK loop :
        /\ r = (IF loop[Loops].at = "found" THEN Done(loop[Loops].e) ELSE Failed(loop[Loops].e))
        /\ loop[0] = Start(e)
        /\ \A n \in 1..Loops : loop[n] = NextRound(loop[n - 1], copy, end)
  BY NextLoop
<1> DEFINE P(n) == \/ loop[n].at = "on" /\ NextOn(file, e, n, loop[n].e)
                   \/ loop[n].at = "found" /\ NextFound(file, e, copy, end, loop[n].e)
                   \/ loop[n].at = "lost" /\ NextLost(file, e, end, loop[n].e)
           S == {n \in 0..Loops : P(n)}
<1>2. P(0)
  <2>1. loop[0].at = "on" /\ loop[0].e = e
    BY <1>1 DEF Start
  <2>2. \A g \in e.sent + 1..e.sent + 0 : FALSE
    BY <1>0
  <2>3. e.sent = e.sent + 0
    BY <1>0
  <2>4. NextOn(file, e, 0, e)
    BY <2>2, <2>3 DEF NextOn, Still
  <2> QED BY <2>1, <2>4
<1>3. ASSUME NEW n \in 0..Loops - 1, P(n) PROVE P(n + 1)
  <2>1. loop[n + 1] = NextRound(loop[n], copy, end)
    <3>1. n + 1 \in 1..Loops /\ (n + 1) - 1 = n
      BY <1>0
    <3> QED BY <1>1, <3>1
  <2>2. CASE loop[n].at = "on" /\ NextOn(file, e, n, loop[n].e)
    <3>1. n \in Nat /\ e.sent \in Int
      BY <1>0
    <3>2. NextStep(file, e, copy, end, n + 1, loop[n + 1])
      BY <2>1, <2>2, <3>1, NextRoundOn
    <3> QED BY <3>2 DEF NextStep
  <2>3. CASE loop[n].at # "on"
    <3>1. loop[n + 1] = loop[n]
      BY <2>1, <2>3 DEF NextRound
    <3> QED BY <1>3, <2>3, <3>1
  <2> QED BY <1>3, <2>2, <2>3
<1>4. P(Loops)
  <2>1. 0 \in S
    BY <1>0, <1>2
  <2>2. ASSUME NEW m \in 0..Loops - 1, m \in S PROVE m + 1 \in S
    <3>1. m + 1 \in 0..Loops
      BY <1>0
    <3> HIDE DEF P
    <3> QED BY <1>3, <2>2, <3>1
  <2>3. \A m \in 0..Loops : m \in S
    <3> HIDE DEF S
    <3> QED BY <1>0, <2>1, <2>2, Induct
  <2>4. Loops \in S
    BY <1>0, <2>3
  <2> QED BY <2>4
<1> DEFINE y == loop[Loops].e
<1>5. CASE loop[Loops].at = "found" /\ NextFound(file, e, copy, end, y)
  <2>1. r = Done(y)
    BY <1>1, <1>5
  <2> HIDE DEF y
  <2>2. /\ Still(y, r) /\ r.image = y.image /\ r.read = y.read /\ r.cache = y.cache
        /\ r.decoder = y.decoder /\ r.decoded = y.decoded /\ r.ok = TRUE
        /\ Synced(file, y) => Synced(file, r)
    <3>1. OnlyAnswered(file, y, r) /\ r.ok = TRUE
      BY <2>1, DoneAnswered
    <3> QED BY <3>1 DEF OnlyAnswered
  <2>3. NextFound(file, e, copy, end, r)
    BY <1>5, <2>2 DEF NextFound, Still
  <2> QED BY <2>2, <2>3
<1>6. ASSUME NextLost(file, e, end, y), r = Failed(y)
      PROVE  r.ok = FALSE /\ NextLost(file, e, end, r)
  <2> HIDE DEF y
  <2>2. /\ Still(y, r) /\ r.image = y.image /\ r.read = y.read /\ r.cache = y.cache
        /\ r.decoder = y.decoder /\ r.decoded = y.decoded /\ r.ok = FALSE
        /\ Synced(file, y) => Synced(file, r)
    <3>1. OnlyAnswered(file, y, r) /\ r.ok = FALSE
      BY <1>6, FailedAnswered
    <3> QED BY <3>1 DEF OnlyAnswered
  <2>3. NextLost(file, e, end, r)
    BY <1>6, <2>2 DEF NextLost, Still
  <2> QED BY <2>2, <2>3
<1>7. CASE loop[Loops].at = "lost" /\ NextLost(file, e, end, y)
  <2>1. r = Failed(y)
    BY <1>1, <1>7
  <2> QED BY <1>6, <1>7, <2>1
<1>8. CASE loop[Loops].at = "on" /\ NextOn(file, e, Loops, y)
  <2>1. r = Failed(y)
    BY <1>1, <1>8
  <2> HIDE DEF y
  <2>2. y.decoder.ended
    <3>1. SUFFICES ASSUME ~y.decoder.ended PROVE FALSE
      OBVIOUS
    <3>2. \A g \in e.sent + 1..e.sent + Loops : g \in All(file) \ Good(file)
      BY <1>8, <3>1 DEF NextOn
    <3>3. CASE e.sent \in All(file)
      BY <3>2, <3>3 DEF Reachable
    <3>4. CASE e.sent \notin All(file)
      <4>1. 0 \in All(file) /\ Len(file) \in Nat
        BY GoodFinite DEF WellTimed, KeyFrames
      <4>2. PICK g \in 0 + 1..0 + Loops : TRUE
        BY <4>1 DEF Reachable
      <4>3. e.sent + 1 \in e.sent + 1..e.sent + Loops
        BY <1>0, <4>2
      <4>4. e.sent + 1 \notin All(file)
        BY <1>0, <3>4, <4>1 DEF All
      <4> QED BY <3>2, <4>3, <4>4
    <3> QED BY <3>3, <3>4
  <2>3. /\ Still(e, y) /\ y.image = e.image /\ y.read = e.read /\ Synced(file, y)
        /\ TipTime(y.cache) = TipTime(e.cache)
    BY <1>8 DEF NextOn
  <2>4. Coming(file, TipTime(y.cache)) = {}
    BY <2>2, <2>3, EndedNothing
  <2>5. Has(y.cache, TipTime(y.cache))
    BY <2>3, NewestEntry DEF Synced
  <2>6. NextLost(file, e, end, y)
    BY <2>2, <2>3, <2>4, <2>5 DEF NextLost
  <2> QED BY <1>6, <2>1, <2>6 DEF y
<1> QED BY <1>4, <1>5, <1>7, <1>8

\* With a picture in the ring after the one read last, that is the next one,
\* and one more is decoded.
NextBehind(file, e, copy, end, r) ==
  /\ Still(e, r) /\ Synced(file, r) /\ Has(r.cache, e.read)
  /\ \E g \in Good(file) :
       /\ After(file, e.read, g) /\ Has(e.cache, Time(file, g)) /\ Has(r.cache, Time(file, g))
       /\ \/ /\ r.ok = TRUE /\ Oldest(r.cache) < Time(file, g)
             /\ end # 0 => Time(file, g) < end
             /\ copy => r.image = Image(g, Time(file, g)) /\ r.read = Time(file, g)
          \/ r.ok = FALSE /\ end # 0 /\ end <= Time(file, g)

LEMMA InternalBehind ==
  ASSUME NEW file, WellTimed(file), Reordered(file), Reachable(file),
         NEW e, e.file = file, e.trusted = TRUE, Synced(file, e), ~e.decoder.ended,
         Has(e.cache, e.read), e.read # TipTime(e.cache),
         ~(Full(e.cache) /\ e.read = Oldest(e.cache)),
         NEW copy \in BOOLEAN, NEW end \in Nat, NEW r, r = NextPictureInternal(e, copy, end)
  PROVE  NextBehind(file, e, copy, end, r)
<1>0. Loops \in Nat /\ Loops > 0
  <2>1. Loops \in Nat
    BY RenderAssumption DEF RenderAssumption
  <2>2. 0 \in All(file)
    BY DEF WellTimed, KeyFrames
  <2>3. PICK g \in 0 + 1..0 + Loops : TRUE
    BY <2>2 DEF Reachable
  <2> QED BY <2>1, <2>3
<1>1. PICK loop :
        /\ r = (IF loop[Loops].at = "found" THEN Done(loop[Loops].e) ELSE Failed(loop[Loops].e))
        /\ loop[0] = Start(e)
        /\ \A n \in 1..Loops : loop[n] = NextRound(loop[n - 1], copy, end)
  BY NextLoop
<1> DEFINE next == DecodeNextPicture(e)
           found == GetAfter(next.cache, next.read)
           z == loop[1]
<1>2. z = IF e.eos THEN [Start(e) EXCEPT !.at = "lost"]
          ELSE IF ~next.ok \/ found = NoImage THEN [Start(e) EXCEPT !.e = next]
          ELSE IF end # 0 /\ found.pts >= end THEN [Start(e) EXCEPT !.e = next, !.at = "lost"]
          ELSE [Start(e) EXCEPT !.e = IF copy THEN [next EXCEPT !.image = found, !.read = found.pts]
                                      ELSE next,
                                !.at = "found"]
  <2>1. z = NextRound(Start(e), copy, end)
    <3>1. 1 \in 1..Loops /\ 1 - 1 = 0
      BY <1>0
    <3> QED BY <1>1, <3>1
  <2>2. Start(e).e = e /\ Start(e).at = "on"
    BY DEF Start
  <2> QED BY <2>1, <2>2 DEF NextRound, None
<1>3. next = DecodeNextPicture(e) /\ found = GetAfter(next.cache, next.read)
  OBVIOUS
<1> HIDE DEF next, found
<1>4. e.eos = FALSE /\ Ring(file, e.cache) /\ Used(e.cache)
  BY DEF Synced
<1>5. DecodedNone(file, e, next) \/ DecodedNext(file, e, next)
  BY <1>3, NextPictureDecoded
<1>6. /\ Still(e, next) /\ next.image = e.image /\ next.read = e.read /\ next.ok /\ Synced(file, next)
      /\ Ring(file, next.cache)
      /\ \A t : Has(e.cache, t) /\ ~(Full(e.cache) /\ t = Oldest(e.cache)) => Has(next.cache, t)
      /\ TipTime(next.cache) \in Nat /\ TipTime(e.cache) \in Nat
      /\ TipTime(e.cache) <= TipTime(next.cache)
  <2>0. TipTime(e.cache) \in Nat
    BY <1>4, NewestEntry
  <2>1. CASE DecodedNone(file, e, next)
    <3>1. /\ next.cache = Skip(e.cache) /\ next.ok /\ next.read = e.read /\ next.image = e.image
          /\ Still(e, next) /\ Synced(file, next)
      BY <2>1 DEF DecodedNone
    <3>2. TipTime(next.cache) = TipTime(e.cache)
      BY <1>4, <3>1, SkipRing
    <3>3. \A t : Has(e.cache, t) /\ ~(Full(e.cache) /\ t = Oldest(e.cache)) => Has(next.cache, t)
      BY <1>4, <3>1, SkipRing
    <3> QED BY <2>0, <3>1, <3>2, <3>3 DEF Synced
  <2>2. CASE DecodedNext(file, e, next)
    <3>1. next.ok /\ next.read = e.read /\ next.image = e.image /\ Still(e, next) /\ Synced(file, next)
      BY <2>2 DEF DecodedNext
    <3>2. PICK f \in Good(file) :
            /\ After(file, TipTime(e.cache), f) /\ next.cache = Put(e.cache, Image(f, Time(file, f)))
            /\ TipTime(next.cache) = Time(file, f)
      BY <2>2 DEF DecodedNext
    <3>3. \A t : Has(e.cache, t) /\ ~(Full(e.cache) /\ t = Oldest(e.cache)) => Has(next.cache, t)
      BY <1>4, <3>2, PutRing
    <3>4. TipTime(e.cache) <= TipTime(next.cache) /\ TipTime(next.cache) \in Nat
      BY <2>0, <3>2, GoodTime DEF After
    <3> QED BY <2>0, <3>1, <3>3, <3>4 DEF Synced
  <2> QED BY <1>5, <2>1, <2>2
<1>7. Has(next.cache, e.read) /\ e.read # TipTime(next.cache) /\ e.read \in Nat
  <2>1. e.read \in Nat /\ e.read <= TipTime(e.cache)
    BY <1>4, Member
  <2> QED BY <1>6, <2>1
<1>8. PICK g \in Good(file) :
        /\ After(file, e.read, g) /\ Has(next.cache, Time(file, g))
        /\ found = Image(g, Time(file, g)) /\ found # NoImage
  BY <1>3, <1>6, <1>7, AskAfter
<1>9. found.pts = Time(file, g) /\ Time(file, g) \in Nat /\ e.read < Time(file, g)
  BY <1>8, GoodTime DEF After
<1>10. Has(e.cache, Time(file, g))
  <2>1. Has(e.cache, TipTime(e.cache)) /\ e.read \in Nat /\ e.read <= TipTime(e.cache)
    BY <1>4, NewestEntry, Member
  <2>2. PICK h \in Good(file) : Time(file, h) = TipTime(e.cache)
    BY <1>4, <2>1, Member
  <2>3. Time(file, g) <= TipTime(e.cache)
    <3>1. e.read < Time(file, h)
      BY <1>6, <2>1, <2>2
    <3> QED BY <1>8, <2>2, <3>1 DEF After
  <2> QED BY <1>4, <1>9, <2>1, <2>3, Between
<1>11. Oldest(next.cache) < Time(file, g)
  <2>1. Oldest(next.cache) \in Nat /\ Oldest(next.cache) <= e.read
    BY <1>6, <1>7, Member
  <2> QED BY <1>7, <1>9, <2>1
<1>12. ASSUME z.at # "on" PROVE loop[Loops] = z
  <2> DEFINE S == {n \in 0..Loops : n > 0 => loop[n] = z}
  <2>1. 0 \in S
    BY <1>0
  <2>2. ASSUME NEW m \in 0..Loops - 1, m \in S PROVE m + 1 \in S
    <3>1. m + 1 \in 1..Loops /\ (m + 1) - 1 = m
      BY <1>0
    <3>2. loop[m + 1] = NextRound(loop[m], copy, end)
      BY <1>1, <3>1
    <3>3. CASE m = 0
      BY <3>1, <3>3
    <3>4. CASE m # 0
      <4>1. loop[m] = z
        BY <1>0, <2>2, <3>4
      <4>2. loop[m + 1] = z
        BY <1>12, <3>2, <4>1 DEF NextRound
      <4> QED BY <3>1, <4>2
    <3> QED BY <3>3, <3>4
  <2>3. \A m \in 0..Loops : m \in S
    <3> HIDE DEF S
    <3> QED BY <1>0, <2>1, <2>2, Induct
  <2>4. Loops \in S
    BY <1>0, <2>3
  <2> QED BY <1>0, <2>4
<1> HIDE DEF z
<1>13. CASE end # 0 /\ Time(file, g) >= end
  <2>1. z = [Start(e) EXCEPT !.e = next, !.at = "lost"]
    BY <1>2, <1>4, <1>6, <1>8, <1>9, <1>13
  <2>2. z.at = "lost" /\ z.e = next
    BY <2>1 DEF Start
  <2>3. r = Failed(next)
    BY <1>1, <1>12, <2>2
  <2>4. /\ Still(next, r) /\ r.cache = next.cache /\ r.ok = FALSE /\ Synced(file, r)
    <3>1. Still(next, r) /\ r.cache = next.cache /\ r.ok = FALSE /\ (Synced(file, next) => Synced(file, r))
      <4>1. OnlyAnswered(file, next, r) /\ r.ok = FALSE
        BY <2>3, FailedAnswered
      <4> QED BY <4>1 DEF OnlyAnswered
    <3> QED BY <1>6, <3>1
  <2>5. end <= Time(file, g)
    BY <1>9, <1>13
  <2> QED BY <1>6, <1>7, <1>8, <1>10, <1>13, <2>4, <2>5 DEF NextBehind, Still
<1>14. CASE ~(end # 0 /\ Time(file, g) >= end)
  <2> DEFINE y == IF copy THEN [next EXCEPT !.image = found, !.read = found.pts] ELSE next
  <2>1. z = [Start(e) EXCEPT !.e = y, !.at = "found"]
    BY <1>2, <1>4, <1>6, <1>8, <1>9, <1>14
  <2>2. /\ Still(next, y) /\ y.cache = next.cache /\ y.decoder = next.decoder
        /\ y.sent = next.sent /\ y.eos = next.eos /\ y.decoded = next.decoded
        /\ copy => y.image = found /\ y.read = found.pts
    BY DEF Still
  <2> HIDE DEF y
  <2>3. z.at = "found" /\ z.e = y
    BY <2>1 DEF Start
  <2>4. r = Done(y)
    BY <1>1, <1>12, <2>3
  <2>5. Synced(file, y)
    BY <1>6, <2>2, SyncedSame
  <2>6. /\ Still(y, r) /\ r.image = y.image /\ r.read = y.read /\ r.cache = y.cache
        /\ r.ok = TRUE /\ Synced(file, r)
    <3>1. /\ Still(y, r) /\ r.image = y.image /\ r.read = y.read /\ r.cache = y.cache
          /\ r.ok = TRUE /\ (Synced(file, y) => Synced(file, r))
      <4>1. OnlyAnswered(file, y, r) /\ r.ok = TRUE
        BY <2>4, DoneAnswered
      <4> QED BY <4>1 DEF OnlyAnswered
    <3> QED BY <2>5, <3>1
  <2>7. end # 0 => Time(file, g) < end
    BY <1>9, <1>14
  <2>8. Still(e, r)
    BY <1>6, <2>2, <2>6 DEF Still
  <2>9. copy => r.image = Image(g, Time(file, g)) /\ r.read = Time(file, g)
    BY <1>8, <1>9, <2>2, <2>6
  <2>10. Has(r.cache, e.read) /\ Has(r.cache, Time(file, g)) /\ Oldest(r.cache) < Time(file, g)
    BY <1>7, <1>8, <1>11, <2>2, <2>6
  <2> QED BY <1>8, <1>10, <2>6, <2>7, <2>8, <2>9, <2>10 DEF NextBehind
<1> QED BY <1>13, <1>14

-----------------------------------------------------------------------------
(* DecodePictureUpToIntra                                                  *)

\* The frames the decoder has had and does not hold.
Passed(file, d, k, n) == {g \in All(file) : k <= g /\ g < k + n} \ d.held

(* The loop goes on: the key picture is still to come, and so is all that  *)
(* is shown after what has come out.                                       *)
UntilOn(file, e, k, n, y) ==
  /\ Still(e, y) /\ y.image = e.image /\ y.sent = k + n
  /\ Ring(file, y.cache) /\ Fed(file, y.decoder, y.sent) /\ y.decoder.from = k
  /\ y.decoder.ended = FALSE /\ y.eos = FALSE
  /\ \A f \in y.decoder.held : k <= f
  /\ k \in Backlog(file, y.decoder, y.sent)
  /\ Backlog(file, y.decoder, y.sent) =
       IF Used(y.cache) THEN Coming(file, TipTime(y.cache)) ELSE Live(file, k, k)
  /\ n <= Cardinality(Passed(file, y.decoder, k, n)) + Delay

UntilFound(file, e, k, y) ==
  /\ Still(e, y) /\ y.image = e.image /\ Synced(file, y) /\ ~y.decoder.ended
  /\ TipTime(y.cache) = Time(file, k) /\ y.read = Time(file, k) /\ y.decoded = Time(file, k)

UntilStep(file, e, k, n, z) ==
  \/ z.at = "on" /\ UntilOn(file, e, k, n, z.e)
  \/ z.at = "found" /\ UntilFound(file, e, k, z.e)

LEMMA LiveUpwards ==
  ASSUME NEW file, WellTimed(file), Divided(file), NEW k \in KeyFrames(file),
         NEW f \in Live(file, k, k), NEW g \in Good(file), Time(file, f) < Time(file, g)
  PROVE  g \in Live(file, k, k)
<1>1. k \in All(file) /\ k \in Nat /\ Time(file, k) \in Nat
  BY FrameTime DEF KeyFrames
<1>2. f \in Good(file) /\ k <= f /\ (Leading \/ Time(file, k) <= Time(file, f))
  BY DEF Live
<1>3. /\ f \in All(file) /\ g \in All(file) /\ f \in Nat /\ g \in Nat
      /\ Time(file, f) \in Nat /\ Time(file, g) \in Nat
  BY <1>2, GoodTime
<1>4. k <= g
  <2>1. SUFFICES ASSUME g < k PROVE FALSE
    BY <1>1, <1>3
  <2>2. Time(file, g) < Time(file, f)
    BY <1>2, <1>3, <2>1 DEF Divided
  <2> QED BY <1>3, <2>2
<1> QED BY <1>1, <1>2, <1>3, <1>4 DEF Live

LEMMA PassedFinite ==
  ASSUME NEW file, WellTimed(file), NEW d, NEW k, NEW n
  PROVE  /\ IsFiniteSet(Passed(file, d, k, n)) /\ Cardinality(Passed(file, d, k, n)) \in Nat
         /\ Passed(file, d, k, n) \subseteq All(file)
<1>1. Passed(file, d, k, n) \subseteq All(file)
  BY DEF Passed
<1>2. IsFiniteSet(Passed(file, d, k, n))
  BY <1>1, GoodFinite, FS_Subset
<1> QED BY <1>1, <1>2, FS_CardinalityType

\* A frame was fed: what was passed and what is held are all of them.
LEMMA PassedFed ==
  ASSUME NEW file, WellTimed(file), NEW d, NEW k \in Nat, NEW n \in Nat, Fed(file, d, k + n + 1),
         k + n \in All(file)
  PROVE  n + 1 <= Cardinality(Passed(file, d, k, n + 1)) + Delay
<1> DEFINE O == Passed(file, d, k, n + 1)
<1>1. k..k + n \subseteq O \cup d.held
  <2>1. SUFFICES ASSUME NEW g \in k..k + n PROVE g \in All(file) /\ k <= g /\ g < k + (n + 1)
    BY DEF Passed
  <2>2. Len(file) \in Nat
    BY GoodFinite
  <2> QED BY <2>2 DEF All
<1>2. IsFiniteSet(O) /\ Cardinality(O) \in Nat
  BY PassedFinite
<1>3. IsFiniteSet(d.held) /\ Cardinality(d.held) \in Nat /\ Cardinality(d.held) <= Delay /\ Delay \in Nat
  <2>1. d.held \subseteq Good(file) /\ Cardinality(d.held) <= Delay
    BY DEF Fed
  <2>2. IsFiniteSet(d.held)
    BY <2>1, GoodFinite, FS_Subset
  <2>3. Delay \in Nat
    BY RenderAssumption DEF RenderAssumption
  <2> QED BY <2>1, <2>2, <2>3, FS_CardinalityType
<1> HIDE DEF O
<1>4. /\ IsFiniteSet(O \cup d.held)
      /\ Cardinality(O \cup d.held) = Cardinality(O) + Cardinality(d.held) - Cardinality(O \cap d.held)
  BY <1>2, <1>3, FS_Union
<1>5. Cardinality(O \cap d.held) \in Nat
  <2>1. O \cap d.held \subseteq O
    OBVIOUS
  <2> QED BY <1>2, <2>1, FS_Subset, FS_CardinalityType
<1>6. Cardinality(k..k + n) <= Cardinality(O \cup d.held)
  BY <1>1, <1>4, FS_Subset
<1>7. Cardinality(k..k + n) = n + 1
  <2>1. Cardinality(k..k + n) = IF k > k + n THEN 0 ELSE (k + n) - k + 1
    BY FS_Interval
  <2> QED BY <2>1
<1>8. Cardinality(O \cup d.held) \in Int
  BY <1>2, <1>3, <1>4, <1>5
<1>9. n + 1 <= Cardinality(O) + Delay
  BY <1>2, <1>3, <1>4, <1>5, <1>6, <1>7, <1>8
<1> QED BY <1>9 DEF O

\* A picture was drained: it was held, and has been passed.
LEMMA PassedDrained ==
  ASSUME NEW file, WellTimed(file), NEW d, NEW b, NEW k \in Nat, NEW n \in Nat, NEW f \in All(file),
         k <= f, f < k + n, f \in d.held, b.held = d.held \ {f},
         n <= Cardinality(Passed(file, d, k, n)) + Delay
  PROVE  n + 1 <= Cardinality(Passed(file, b, k, n + 1)) + Delay
<1> DEFINE O == Passed(file, d, k, n)
           Q == Passed(file, b, k, n + 1)
<1>0. Delay \in Nat
  BY RenderAssumption DEF RenderAssumption
<1>1. IsFiniteSet(O) /\ Cardinality(O) \in Nat /\ IsFiniteSet(Q) /\ Cardinality(Q) \in Nat
  BY PassedFinite
<1>2. f \notin O /\ O \cup {f} \subseteq Q
  <2>1. f \in Nat
    BY FrameTime
  <2>2. \A g \in All(file) : g < k + n => g < k + (n + 1)
    <3>1. \A g \in All(file) : g \in Nat
      BY FrameTime
    <3> QED BY <3>1
  <2> QED BY <2>1, <2>2 DEF Passed
<1> HIDE DEF O, Q
<1>3. Cardinality(O \cup {f}) = Cardinality(O) + 1
  BY <1>1, <1>2, FS_AddElement
<1>4. Cardinality(O \cup {f}) <= Cardinality(Q)
  BY <1>1, <1>2, FS_Subset
<1>5. n <= Cardinality(O) + Delay
  BY DEF O
<1>6. n + 1 <= Cardinality(Q) + Delay
  BY <1>0, <1>1, <1>3, <1>4, <1>5
<1> QED BY <1>6 DEF Q

\* While the key picture is to come, what was passed is late.
LEMMA PassedLate ==
  ASSUME NEW file, WellTimed(file), Divided(file), NEW k \in KeyFrames(file), NEW e, NEW n \in 0..Tries,
         NEW y, UntilOn(file, e, k, n, y)
  PROVE  Passed(file, y.decoder, k, n) \subseteq Late(file, k)
<1>0. Tries \in Nat
  BY RenderAssumption DEF RenderAssumption
<1>1. k \in All(file) /\ k \in Nat /\ Time(file, k) \in Nat
  BY FrameTime DEF KeyFrames
<1>2. /\ Ring(file, y.cache) /\ y.sent = k + n /\ y.decoder.from = k
      /\ k \in Backlog(file, y.decoder, y.sent)
      /\ Backlog(file, y.decoder, y.sent) =
           IF Used(y.cache) THEN Coming(file, TipTime(y.cache)) ELSE Live(file, k, k)
  BY DEF UntilOn
<1>3. SUFFICES ASSUME NEW g \in Passed(file, y.decoder, k, n), g \in Good(file)
               PROVE  g # k /\ Time(file, g) < Time(file, k)
  <2>1. ASSUME NEW g \in Passed(file, y.decoder, k, n)
        PROVE  g \in All(file) /\ g \in Nat /\ k <= g /\ g < k + Tries
    <3>1. g \in All(file) /\ k <= g /\ g < k + n
      BY DEF Passed
    <3>2. g \in Nat
      BY <3>1, FrameTime
    <3>3. n \in Int /\ n <= Tries
      BY <1>0
    <3> QED BY <1>0, <1>1, <3>1, <3>2, <3>3
  <2>2. k \in Good(file)
    BY DEF Divided
  <2> QED BY <1>1, <1>3, <2>1, <2>2 DEF Late
<1>4. g \notin y.decoder.held /\ k <= g /\ g < k + n /\ g \in Nat /\ Time(file, g) \in Nat
  BY <1>3, GoodTime DEF Passed
<1>5. g \notin Backlog(file, y.decoder, y.sent)
  BY <1>1, <1>2, <1>4 DEF Backlog, Live
<1>6. g # k
  BY <1>2, <1>5
<1>7. CASE Used(y.cache)
  <2>1. TipTime(y.cache) \in Nat
    BY <1>2, <1>7, NewestEntry
  <2>2. ~(TipTime(y.cache) < Time(file, g)) /\ TipTime(y.cache) < Time(file, k)
    BY <1>2, <1>3, <1>5, <1>7 DEF Coming
  <2> QED BY <1>1, <1>4, <1>6, <2>1, <2>2
<1>8. CASE ~Used(y.cache)
  <2>1. g \notin Live(file, k, k)
    BY <1>2, <1>5, <1>8
  <2> QED BY <1>1, <1>3, <1>4, <1>6, <2>1 DEF Live
<1> QED BY <1>7, <1>8

LEMMA UntilRoundOn ==
  ASSUME NEW file, WellTimed(file), Reordered(file), Divided(file), NEW k \in KeyFrames(file),
         NEW e, e.file = file, NEW n \in Nat, NEW x, x.at = "on",
         UntilOn(file, e, k, n, x.e), NEW z, z = UntilRound(x, Time(file, k))
  PROVE  UntilStep(file, e, k, n + 1, z)
<1> DEFINE y == x.e
           out == Uncompress(y, y.sent)
           known == PtsOf(y, out.frame) # NoTime
           pts == IF known THEN PtsOf(y, out.frame)
                  ELSE IF x.sync THEN y.decoded + Increment ELSE NoTime
           next == [y EXCEPT !.decoder = out.decoder, !.sent = @ + 1]
           none == [next EXCEPT !.cache = Invalidate(GetFreeImage(@))]
           full == Fill(GetFreeImage(y.cache), Image(out.frame, pts))
           got == [next EXCEPT !.cache = Validate(full), !.decoded = pts]
           b == Backlog(file, y.decoder, y.sent)
           t == TipTime(y.cache)
<1>1. k \in All(file) /\ k \in Nat /\ Time(file, k) \in Nat /\ k \in Good(file)
  BY FrameTime DEF KeyFrames, Divided
<1>2. /\ Still(e, y) /\ y.image = e.image /\ y.sent = k + n /\ y.sent \in Nat
      /\ Ring(file, y.cache) /\ Fed(file, y.decoder, y.sent) /\ y.decoder.from = k
      /\ y.decoder.ended = FALSE /\ y.eos = FALSE
      /\ \A f \in y.decoder.held : k <= f
      /\ k \in b /\ b = IF Used(y.cache) THEN Coming(file, t) ELSE Live(file, k, k)
      /\ n <= Cardinality(Passed(file, y.decoder, k, n)) + Delay
      /\ y.file = file
  BY DEF UntilOn, Still, Fed
<1>3. Answered(file, y, y.sent, out)
  <2> HIDE DEF y
  <2> QED BY <1>2, Answer
<1>4. z = IF out.frame = -1
          THEN IF none.decoder.feeding THEN [x EXCEPT !.e = [none EXCEPT !.delay = @ + 1]]
               ELSE [x EXCEPT !.e = none, !.at = "lost"]
          ELSE IF pts = NoTime
          THEN [x EXCEPT !.e = [next EXCEPT !.cache =
                                  ValidateAfterInvalidate(Invalidate(full))]]
          ELSE IF pts = Time(file, k)
          THEN [x EXCEPT !.e = [got EXCEPT !.sent = y.sent, !.read = Time(file, k)], !.at = "found"]
          ELSE [x EXCEPT !.e = got, !.sync = @ \/ known]
  BY <1>2 DEF UntilRound, Image
<1>5. next = [y EXCEPT !.decoder = out.decoder, !.sent = @ + 1]
  OBVIOUS
<1>6. none = [next EXCEPT !.cache = Skip(y.cache)]
  BY DEF Skip
<1>7. PtsOf(y, out.frame) # NoTime => got =
        [next EXCEPT !.cache = Put(y.cache, Image(out.frame, PtsOf(y, out.frame))),
                     !.decoded = PtsOf(y, out.frame)]
  BY DEF Put
<1>8. PtsOf(y, out.frame) # NoTime => pts = PtsOf(y, out.frame)
  OBVIOUS
<1>9. Used(y.cache) => t \in Nat
  BY <1>2, NewestEntry
<1> HIDE DEF y, out, known, pts, next, none, full, got, b, t
<1>10. CASE out.frame = -1
  <2>1. y.sent \in All(file)
    <3>1. SUFFICES ASSUME y.sent \notin All(file) PROVE FALSE
      OBVIOUS
    <3>2. b = {}
      BY <1>3, <1>10, <3>1 DEF Answered, b
    <3> QED BY <1>2, <3>2
  <2>2. /\ out.decoder.feeding = TRUE /\ out.decoder.ended = FALSE
        /\ out.decoder.held = y.decoder.held \cup Decoded(y, y.sent)
        /\ Backlog(file, out.decoder, y.sent + 1) = b
        /\ Fed(file, out.decoder, y.sent + 1) /\ out.decoder.from = k
    BY <1>2, <1>3, <1>10, <2>1 DEF Answered, b
  <2>3. none.decoder.feeding = TRUE
    BY <1>5, <1>6, <2>2
  <2>4. z = [x EXCEPT !.e = [none EXCEPT !.delay = @ + 1]]
    BY <1>4, <1>10, <2>3
  <2>5. z.at = "on" /\ z.e = [none EXCEPT !.delay = @ + 1]
    BY <2>4
  <2>6. /\ Still(y, z.e) /\ z.e.image = y.image /\ z.e.sent = y.sent + 1 /\ z.e.eos = y.eos
        /\ z.e.cache = Skip(y.cache) /\ z.e.decoder = out.decoder
    BY <1>5, <1>6, <2>5 DEF Still
  <2>7. /\ Ring(file, z.e.cache) /\ (Used(z.e.cache) <=> Used(y.cache))
        /\ Used(y.cache) => TipTime(z.e.cache) = t
    BY <1>2, <2>6, SkipRing DEF t
  <2>8. \A f \in out.decoder.held : k <= f
    <3>1. Decoded(y, y.sent) \subseteq {y.sent}
      BY <1>2, <2>1, Entering
    <3> QED BY <1>1, <1>2, <2>2, <3>1
  <2>9. n + 1 <= Cardinality(Passed(file, out.decoder, k, n + 1)) + Delay
    <3>1. k + n \in All(file) /\ Fed(file, out.decoder, k + n + 1)
      BY <1>2, <2>1, <2>2
    <3> QED BY <1>1, <3>1, PassedFed
  <2>10. z.e.sent = k + (n + 1)
    BY <1>1, <1>2, <2>6
  <2>11. k \in Backlog(file, z.e.decoder, z.e.sent) /\ Backlog(file, z.e.decoder, z.e.sent) =
           IF Used(z.e.cache) THEN Coming(file, TipTime(z.e.cache)) ELSE Live(file, k, k)
    BY <1>2, <2>2, <2>6, <2>7
  <2>12. UntilOn(file, e, k, n + 1, z.e)
    BY <1>2, <2>2, <2>6, <2>7, <2>8, <2>9, <2>10, <2>11 DEF UntilOn, Still
  <2> QED BY <2>5, <2>12 DEF UntilStep
<1>11. CASE out.frame # -1
  <2> DEFINE f == out.frame
  <2>1. /\ f \in b /\ f \in Good(file) /\ \A g \in b : Time(file, f) <= Time(file, g)
        /\ Backlog(file, out.decoder, y.sent + 1) = b \ {f}
        /\ \A g \in Good(file) : g > y.sent => Time(file, f) < Time(file, g)
        /\ out.decoder.ended = FALSE
        /\ out.decoder.drain <=> y.sent \notin All(file)
        /\ y.sent \in All(file) => Cardinality(out.decoder.held) = Delay
        /\ out.decoder.held = (y.decoder.held \cup (IF y.sent \in All(file) THEN Decoded(y, y.sent) ELSE {})) \ {f}
        /\ Fed(file, out.decoder, y.sent + 1) /\ out.decoder.from = k
    BY <1>2, <1>3, <1>11 DEF Answered, b
  <2>2. f \in All(file) /\ f \in Nat /\ Time(file, f) \in Nat /\ (Time(file, f) = Time(file, k) => f = k)
    BY <1>1, <2>1, GoodTime
  <2>3. PtsOf(y, f) = Time(file, f) /\ Time(file, f) # NoTime
    BY <1>2, <2>2, PtsIs
  <2>4. /\ pts = Time(file, f)
        /\ got = [next EXCEPT !.cache = Put(y.cache, Image(f, Time(file, f))), !.decoded = Time(file, f)]
    BY <1>7, <1>8, <2>3
  <2>5. z = IF Time(file, f) = Time(file, k)
            THEN [x EXCEPT !.e = [got EXCEPT !.sent = y.sent, !.read = Time(file, k)], !.at = "found"]
            ELSE [x EXCEPT !.e = got, !.sync = @ \/ known]
    BY <1>4, <1>11, <2>3, <2>4
  <2>6. Used(y.cache) => After(file, t, f)
    <3>1. SUFFICES ASSUME Used(y.cache) PROVE After(file, t, f)
      OBVIOUS
    <3>2. b = Coming(file, t)
      BY <1>2, <3>1
    <3> QED BY <2>1, <3>2 DEF Coming, After
  <2> DEFINE c == Put(y.cache, Image(f, Time(file, f)))
  <2>7. Ring(file, c) /\ Used(c) /\ TipTime(c) = Time(file, f)
    BY <1>2, <2>1, <2>6, PutRing DEF t
  <2> HIDE DEF f, c
  <2>8. b \ {f} = Coming(file, Time(file, f))
    <3>1. CASE Used(y.cache)
      BY <1>2, <1>9, <2>6, <3>1, NextComing
    <3>2. CASE ~Used(y.cache)
      <4>1. b = Live(file, k, k)
        BY <1>2, <3>2
      <4>2. ASSUME NEW g \in Good(file), Time(file, f) < Time(file, g) PROVE g \in b /\ g # f
          <5>1. f \in Live(file, k, k)
            BY <2>1, <4>1
          <5>2. g \in Live(file, k, k)
            BY <4>2, <5>1, LiveUpwards
          <5>3. Time(file, g) \in Nat
            BY GoodTime
          <5> QED BY <2>2, <4>1, <4>2, <5>2, <5>3
      <4>3. ASSUME NEW g \in b, g # f PROVE g \in Good(file) /\ Time(file, f) < Time(file, g)
        <5>1. g \in Good(file)
          BY <4>1 DEF Live
        <5>2. Time(file, g) \in Nat /\ Time(file, f) # Time(file, g)
          BY <2>1, <4>3, <5>1, GoodTime
        <5> QED BY <2>1, <2>2, <5>1, <5>2
      <4>4. f \notin Coming(file, Time(file, f))
        BY <2>2 DEF Coming
      <4>5. Coming(file, Time(file, f)) \subseteq b \ {f}
        BY <4>2 DEF Coming
      <4>6. b \ {f} \subseteq Coming(file, Time(file, f))
        BY <4>3 DEF Coming
      <4> QED BY <4>5, <4>6
    <3> QED BY <3>1, <3>2
  <2>9. CASE Time(file, f) = Time(file, k)
    <3>1. f = k
      BY <2>2, <2>9
    <3>2. z.at = "found" /\ z.e = [got EXCEPT !.sent = y.sent, !.read = Time(file, k)]
      BY <2>5, <2>9
    <3>3. /\ Still(y, z.e) /\ z.e.image = y.image /\ z.e.sent = y.sent /\ z.e.eos = y.eos
          /\ z.e.cache = c /\ z.e.decoder = out.decoder /\ z.e.decoded = Time(file, k)
          /\ z.e.read = Time(file, k)
      BY <1>5, <2>4, <2>9, <3>2 DEF Still, c
    <3>4. z.e.decoder.held \cup {g \in Good(file) : g > z.e.sent} = Coming(file, TipTime(c))
      <4>1. {g \in Good(file) : g > y.sent} = Live(file, k, y.sent + 1)
        <5>1. ASSUME NEW g \in Good(file)
              PROVE  g > y.sent <=> (y.sent + 1 <= g /\ (Leading \/ Time(file, k) <= Time(file, g)))
          <6>1. g \in Nat /\ Time(file, g) \in Nat
            BY GoodTime
          <6>2. g > y.sent => Time(file, k) <= Time(file, g)
            BY <1>1, <2>1, <2>9, <6>1
          <6> QED BY <1>2, <6>1, <6>2
        <5> QED BY <5>1 DEF Live
      <4> QED BY <2>1, <2>7, <2>8, <3>3, <4>1 DEF Backlog
    <3>5. ~z.e.decoder.drain => Cardinality(z.e.decoder.held) = Delay
      BY <2>1, <3>3
    <3>6. Synced(file, z.e)
      BY <1>1, <1>2, <2>1, <2>7, <2>9, <3>3, <3>4, <3>5 DEF Synced
    <3>7. UntilFound(file, e, k, z.e)
      BY <1>2, <2>1, <2>7, <2>9, <3>3, <3>6 DEF UntilFound, Still
    <3> QED BY <3>2, <3>7 DEF UntilStep
  <2>10. CASE Time(file, f) # Time(file, k)
    <3>1. z.at = "on" /\ z.e = got
      BY <2>5, <2>10
    <3>2. /\ Still(y, z.e) /\ z.e.image = y.image /\ z.e.sent = y.sent + 1 /\ z.e.eos = y.eos
          /\ z.e.cache = c /\ z.e.decoder = out.decoder
      BY <1>5, <2>4, <3>1 DEF Still, c
    <3>3. \A g \in out.decoder.held : k <= g
      <4>1. y.sent \in All(file) => Decoded(y, y.sent) \subseteq {y.sent}
        BY <1>2, Entering
      <4> QED BY <1>1, <1>2, <2>1, <4>1
    <3>4. k \in b \ {f}
      BY <1>2, <2>10
    <3>5. z.e.sent = k + (n + 1)
      BY <1>1, <1>2, <3>2
    <3>6. n + 1 <= Cardinality(Passed(file, out.decoder, k, n + 1)) + Delay
      <4>1. CASE y.sent \in All(file)
        <5>1. k + n \in All(file) /\ Fed(file, out.decoder, k + n + 1)
          BY <1>2, <2>1, <4>1
        <5> QED BY <1>1, <5>1, PassedFed
      <4>2. CASE y.sent \notin All(file)
        <5>1. out.decoder.held = y.decoder.held \ {f}
          BY <2>1, <4>2
        <5>2. f \in y.decoder.held
          <6>1. f \in y.decoder.held \/ f \in Live(file, k, y.sent)
            BY <1>2, <2>1 DEF Backlog, b
          <6>2. f \notin Live(file, k, y.sent)
            <7>1. f < Len(file) /\ Len(file) \in Nat
              BY <2>2, FrameTime
            <7>2. Len(file) <= y.sent
              BY <1>2, <4>2, <7>1 DEF All
            <7> QED BY <1>2, <2>2, <7>1, <7>2 DEF Live
          <6> QED BY <6>1, <6>2
        <5>3. k <= f /\ f < k + n
          BY <1>2, <5>2 DEF Fed
        <5> QED BY <1>1, <1>2, <2>2, <5>1, <5>2, <5>3, PassedDrained
      <4> QED BY <4>1, <4>2
    <3>7. UntilOn(file, e, k, n + 1, z.e)
      BY <1>2, <2>1, <2>7, <2>8, <3>2, <3>3, <3>4, <3>5, <3>6 DEF UntilOn, Still
    <3> QED BY <3>1, <3>7 DEF UntilStep
  <2> QED BY <2>9, <2>10
<1> QED BY <1>10, <1>11

\* The key picture was found: the ring has what came out up to it.
IntraFound(file, e, k, r) ==
  /\ Still(e, r) /\ r.image = e.image /\ r.ok = TRUE /\ Synced(file, r)
  /\ ~r.decoder.ended
  /\ TipTime(r.cache) = Time(file, k) /\ r.read = Time(file, k) /\ r.decoded = Time(file, k)

LEMMA IntraDecoded ==
  ASSUME NEW file, WellTimed(file), Reordered(file), Divided(file), Findable(file),
         NEW e, e.file = file, Shape(e.cache), NEW k \in KeyFrames(file),
         NEW r, r = DecodePictureUpToIntra(e, k)
  PROVE  IntraFound(file, e, k, r)
<1> DEFINE a == [e EXCEPT !.sent = k, !.cache = Flush(e.cache),
                          !.delay = 0, !.eos = FALSE,
                          !.decoder = [FlushDecoder(e.decoder) EXCEPT
                                         !.ended = FALSE, !.from = k]]
<1>0. /\ Tries \in Nat /\ Delay \in Nat /\ k \in All(file) /\ k \in Good(file) /\ k \in Nat
      /\ Time(file, k) \in Nat
  BY RenderAssumption, FrameTime DEF RenderAssumption, KeyFrames, Divided
<1>1. r = DecodeUntil(a, PtsOf(e, k))
  BY DEF DecodePictureUpToIntra
<1>2. /\ Still(e, a) /\ a.image = e.image /\ a.file = file /\ a.sent = k /\ a.eos = FALSE
      /\ a.cache = Flush(e.cache) /\ a.decoder.held = {} /\ a.decoder.drain = FALSE
      /\ a.decoder.ended = FALSE /\ a.decoder.from = k
  <2> DEFINE d == [FlushDecoder(e.decoder) EXCEPT !.ended = FALSE, !.from = k]
  <2>1. a = [e EXCEPT !.sent = k, !.cache = Flush(e.cache), !.delay = 0, !.eos = FALSE, !.decoder = d]
    OBVIOUS
  <2>2. d.held = {} /\ d.drain = FALSE /\ d.ended = FALSE /\ d.from = k
    BY DEF FlushDecoder
  <2> HIDE DEF d, a
  <2>3. Still(e, a) /\ a.image = e.image /\ a.file = file /\ a.sent = k /\ a.eos = FALSE
        /\ a.cache = Flush(e.cache) /\ a.decoder = d
    BY <2>1 DEF Still
  <2> QED BY <2>2, <2>3
<1>3. PtsOf(e, k) = Time(file, k)
  BY <1>0, PtsIs
<1> HIDE DEF a
<1>4. PICK loop :
        /\ r = (IF loop[Tries].at = "found" THEN Done(loop[Tries].e)
                ELSE [Failed(loop[Tries].e) EXCEPT !.delay = 0])
        /\ loop[0] = Start(a)
        /\ \A n \in 1..Tries : loop[n] = UntilRound(loop[n - 1], Time(file, k))
  BY <1>1, <1>3, UntilLoop
<1> DEFINE P(n) == UntilStep(file, a, k, n, loop[n])
           S == {n \in 0..Tries : P(n)}
<1>5. P(0)
  <2>1. loop[0].at = "on" /\ loop[0].e = a
    BY <1>4 DEF Start
  <2>2. Ring(file, a.cache) /\ ~Used(a.cache)
    BY <1>2, FlushRing
  <2>3. Cardinality(a.decoder.held) = 0
    BY <1>2, FS_EmptySet
  <2>4. Fed(file, a.decoder, a.sent)
    <3>1. a.decoder.held \subseteq {f \in Good(file) : f < a.sent}
      BY <1>2
    <3>2. Cardinality(a.decoder.held) <= Delay
      BY <1>0, <2>3
    <3> QED BY <1>0, <1>2, <3>1, <3>2 DEF Fed
  <2>5. Backlog(file, a.decoder, a.sent) = Live(file, k, k)
    BY <1>2 DEF Backlog
  <2>6. k \in Live(file, k, k)
    BY <1>0 DEF Live
  <2>7. 0 <= Cardinality(Passed(file, a.decoder, k, 0)) + Delay
    <3>1. Cardinality(Passed(file, a.decoder, k, 0)) \in Nat
      BY PassedFinite
    <3> QED BY <1>0, <3>1
  <2>8. k + 0 = k
    BY <1>0
  <2>9. UntilOn(file, a, k, 0, a)
    BY <1>2, <2>2, <2>4, <2>5, <2>6, <2>7, <2>8 DEF UntilOn, Still
  <2> QED BY <2>1, <2>9 DEF UntilStep
<1>6. ASSUME NEW n \in 0..Tries - 1, P(n) PROVE P(n + 1)
  <2>1. loop[n + 1] = UntilRound(loop[n], Time(file, k))
    <3>1. n + 1 \in 1..Tries /\ (n + 1) - 1 = n
      BY <1>0
    <3> QED BY <1>4, <3>1
  <2>2. CASE loop[n].at = "on" /\ UntilOn(file, a, k, n, loop[n].e)
    <3>1. n \in Nat
      BY <1>0
    <3> QED BY <1>2, <2>1, <2>2, <3>1, UntilRoundOn
  <2>3. CASE loop[n].at = "found" /\ UntilFound(file, a, k, loop[n].e)
    <3>1. loop[n + 1] = loop[n]
      BY <2>1, <2>3 DEF UntilRound
    <3> QED BY <2>3, <3>1 DEF UntilStep
  <2> QED BY <1>6, <2>2, <2>3 DEF UntilStep
<1>7. P(Tries)
  <2>1. 0 \in S
    BY <1>0, <1>5
  <2>2. ASSUME NEW m \in 0..Tries - 1, m \in S PROVE m + 1 \in S
    <3>1. m + 1 \in 0..Tries
      BY <1>0
    <3> HIDE DEF P
    <3> QED BY <1>6, <2>2, <3>1
  <2>3. \A m \in 0..Tries : m \in S
    <3> HIDE DEF S
    <3> QED BY <1>0, <2>1, <2>2, Induct
  <2>4. Tries \in S
    BY <1>0, <2>3
  <2> QED BY <2>4
<1> DEFINE y == loop[Tries].e
<1>8. loop[Tries].at = "found" /\ UntilFound(file, a, k, y)
  <2>1. SUFFICES ASSUME UntilOn(file, a, k, Tries, y) PROVE FALSE
    BY <1>7 DEF UntilStep
  <2> HIDE DEF y
  <2>2. Passed(file, y.decoder, k, Tries) \subseteq Late(file, k)
    <3>1. Tries \in 0..Tries
      BY <1>0
    <3> QED BY <2>1, <3>1, PassedLate
  <2>3. IsFiniteSet(Late(file, k))
    <3>1. Late(file, k) \subseteq All(file)
      BY DEF Late
    <3> QED BY <3>1, GoodFinite, FS_Subset
  <2>4. Cardinality(Passed(file, y.decoder, k, Tries)) <= Cardinality(Late(file, k))
    BY <2>2, <2>3, FS_Subset
  <2>5. Cardinality(Passed(file, y.decoder, k, Tries)) \in Nat /\ Cardinality(Late(file, k)) \in Nat
    BY <2>3, PassedFinite, FS_CardinalityType
  <2>6. Tries <= Cardinality(Passed(file, y.decoder, k, Tries)) + Delay
    BY <2>1 DEF UntilOn
  <2>7. Cardinality(Late(file, k)) + Delay < Tries
    BY DEF Findable
  <2> QED BY <1>0, <2>4, <2>5, <2>6, <2>7
<1>9. r = Done(y)
  BY <1>4, <1>8
<1> HIDE DEF y
<1>10. OnlyAnswered(file, y, r) /\ r.ok = TRUE
  BY <1>9, DoneAnswered
<1>11. /\ Still(a, y) /\ y.image = a.image /\ Synced(file, y) /\ ~y.decoder.ended
       /\ TipTime(y.cache) = Time(file, k) /\ y.read = Time(file, k) /\ y.decoded = Time(file, k)
  BY <1>8 DEF UntilFound
<1>12. Still(e, r) /\ r.image = e.image
  BY <1>2, <1>10, <1>11 DEF OnlyAnswered, Still
<1>13. /\ Synced(file, r) /\ ~r.decoder.ended /\ TipTime(r.cache) = Time(file, k)
       /\ r.read = Time(file, k) /\ r.decoded = Time(file, k)
  BY <1>10, <1>11 DEF OnlyAnswered
<1> QED BY <1>10, <1>12, <1>13 DEF IntraFound

-----------------------------------------------------------------------------
(* seektoTime                                                              *)

\* What is shown up to a time.
Upto(file, t) == {g \in Good(file) : Time(file, g) <= t}

LEMMA UptoFinite ==
  ASSUME NEW file, WellTimed(file), NEW t
  PROVE  /\ IsFiniteSet(Upto(file, t)) /\ Cardinality(Upto(file, t)) \in Nat
         /\ Cardinality(Upto(file, t)) <= Len(file)
<1>1. Upto(file, t) \subseteq Good(file)
  BY DEF Upto
<1>2. IsFiniteSet(Upto(file, t)) /\ Cardinality(Upto(file, t)) <= Cardinality(Good(file))
  BY <1>1, GoodFinite, FS_Subset
<1>3. Cardinality(Upto(file, t)) \in Nat
  BY <1>2, FS_CardinalityType
<1> QED BY <1>2, <1>3, GoodFinite

LEMMA UptoNext ==
  ASSUME NEW file, WellTimed(file), NEW t \in Nat, NEW g \in Good(file), t < Time(file, g)
  PROVE  Cardinality(Upto(file, t)) + 1 <= Cardinality(Upto(file, Time(file, g)))
<1>1. g \in Good(file) /\ t < Time(file, g) /\ Time(file, g) \in Nat
  BY GoodTime
<1>2. g \notin Upto(file, t)
  BY <1>1 DEF Upto
<1>3. Upto(file, t) \cup {g} \subseteq Upto(file, Time(file, g))
  <2>1. ASSUME NEW h \in Good(file), Time(file, h) <= t PROVE Time(file, h) <= Time(file, g)
    BY <1>1, <2>1, GoodTime
  <2> QED BY <1>1, <2>1 DEF Upto
<1>4. IsFiniteSet(Upto(file, t)) /\ IsFiniteSet(Upto(file, Time(file, g)))
  BY UptoFinite
<1>5. Cardinality(Upto(file, t) \cup {g}) = Cardinality(Upto(file, t)) + 1
  BY <1>2, <1>4, FS_AddElement
<1>6. Cardinality(Upto(file, t) \cup {g}) <= Cardinality(Upto(file, Time(file, g)))
  BY <1>3, <1>4, FS_Subset
<1> QED BY <1>5, <1>6

\* Decoding has come to a picture.
ForwardFound(file, e, f, y) ==
  /\ Still(e, y) /\ y.image = e.image /\ Synced(file, y) /\ ~y.decoder.ended
  /\ TipTime(y.cache) = Time(file, f) /\ y.read = Time(file, f) /\ y.decoded = Time(file, f)

\* It is on the way to it.
ForwardOn(file, e, f, n, y) ==
  /\ Still(e, y) /\ y.image = e.image /\ Synced(file, y)
  /\ y.read = TipTime(y.cache) /\ TipTime(y.cache) < Time(file, f)
  /\ n <= Cardinality(Upto(file, TipTime(y.cache)))

ForwardStep(file, e, f, n, z) ==
  \/ z.at = "on" /\ ForwardOn(file, e, f, n, z.e)
  \/ z.at = "found" /\ ForwardFound(file, e, f, z.e)

LEMMA ForwardRoundOn ==
  ASSUME NEW file, WellTimed(file), Reordered(file), Reachable(file),
         NEW e, e.file = file, e.trusted = TRUE, NEW f \in Good(file), NEW n \in Nat,
         NEW x, x.at = "on", ForwardOn(file, e, f, n, x.e),
         NEW z, z = ForwardRound(x, Time(file, f))
  PROVE  ForwardStep(file, e, f, n + 1, z)
<1> DEFINE y == x.e
           got == NextPictureInternal(y, FALSE, 0)
           next == [got EXCEPT !.read = got.decoded]
           pts == Time(file, f)
<1>1. z = IF ~got.ok THEN [x EXCEPT !.e = got, !.at = "lost"]
          ELSE [x EXCEPT !.e = next,
                         !.at = IF got.decoded = pts THEN "found"
                                ELSE IF got.decoded > pts THEN "lost" ELSE "on"]
  BY DEF ForwardRound
<1>2. got = NextPictureInternal(y, FALSE, 0)
  OBVIOUS
<1>3. next = [got EXCEPT !.read = got.decoded]
  OBVIOUS
<1>4. /\ Still(e, y) /\ y.image = e.image /\ Synced(file, y)
      /\ y.read = TipTime(y.cache) /\ TipTime(y.cache) < Time(file, f)
      /\ n <= Cardinality(Upto(file, TipTime(y.cache)))
      /\ y.file = file /\ y.trusted = TRUE
  BY DEF ForwardOn, Still
<1> HIDE DEF y, got, next
<1>5. TipTime(y.cache) \in Nat
  BY <1>4, NewestEntry DEF Synced
<1>6. \/ got.ok = TRUE /\ NextFound(file, y, FALSE, 0, got)
      \/ got.ok = FALSE /\ NextLost(file, y, 0, got)
  <2>1. FALSE \in BOOLEAN /\ 0 \in Nat
    OBVIOUS
  <2> QED BY <1>2, <1>4, <2>1, InternalReady
<1>7. ~NextLost(file, y, 0, got)
  <2>1. f \in Coming(file, TipTime(y.cache))
    BY <1>4 DEF Coming
  <2> QED BY <2>1 DEF NextLost
<1>8. got.ok = TRUE /\ NextFound(file, y, FALSE, 0, got)
  BY <1>6, <1>7
<1>9. /\ Still(y, got) /\ Synced(file, got) /\ ~got.decoder.ended
      /\ got.image = y.image /\ got.read = y.read
  BY <1>8 DEF NextFound
<1>10. PICK g \in Good(file) :
         /\ After(file, TipTime(y.cache), g) /\ TipTime(got.cache) = Time(file, g)
         /\ got.decoded = Time(file, g)
  BY <1>8 DEF NextFound
<1>11. Time(file, g) \in Nat /\ Time(file, f) \in Nat /\ Time(file, g) <= Time(file, f)
  BY <1>4, <1>10, GoodTime DEF After
<1>12. /\ Still(got, next) /\ next.image = got.image /\ next.cache = got.cache
       /\ next.decoder = got.decoder /\ next.sent = got.sent /\ next.eos = got.eos
       /\ next.decoded = got.decoded /\ next.read = got.decoded
  BY <1>3 DEF Still
<1>13. Synced(file, next)
  BY <1>9, <1>12, SyncedSame
<1>14. Still(e, next) /\ next.image = e.image
  BY <1>4, <1>9, <1>12 DEF Still
<1>15. CASE got.decoded = pts
  <2>1. z.e = next /\ z.at = "found"
    BY <1>1, <1>8, <1>15
  <2>2. ForwardFound(file, e, f, next)
    BY <1>9, <1>10, <1>12, <1>13, <1>14, <1>15 DEF ForwardFound
  <2> QED BY <2>1, <2>2 DEF ForwardStep
<1>16. CASE got.decoded # pts
  <2>1. got.decoded < pts
    BY <1>10, <1>11, <1>16
  <2>2. ~(got.decoded > pts)
    BY <1>10, <1>11, <2>1
  <2>3. z.e = next /\ z.at = "on"
    BY <1>1, <1>8, <1>16, <2>2
  <2>4. n + 1 <= Cardinality(Upto(file, TipTime(next.cache)))
    <3>1. Cardinality(Upto(file, TipTime(y.cache))) + 1 <= Cardinality(Upto(file, Time(file, g)))
      BY <1>5, <1>10, UptoNext DEF After
    <3>2. /\ Cardinality(Upto(file, TipTime(y.cache))) \in Nat
          /\ Cardinality(Upto(file, Time(file, g))) \in Nat
      BY UptoFinite
    <3>3. n + 1 <= Cardinality(Upto(file, Time(file, g)))
      BY <1>4, <3>1, <3>2
    <3> QED BY <1>10, <1>12, <3>3
  <2>5. ForwardOn(file, e, f, n + 1, next)
    BY <1>10, <1>12, <1>13, <1>14, <2>1, <2>4 DEF ForwardOn
  <2> QED BY <2>3, <2>5 DEF ForwardStep
<1> QED BY <1>15, <1>16

\* No loop needs more rounds than are allowed for.
LEMMA EnoughIs ==
  ASSUME NEW file, WellTimed(file), NEW e, e.file = file
  PROVE  Enough(e) \in Nat /\ Len(file) + NbImage < Enough(e) /\ NbImage \in Nat /\ NbImage > 1
<1>1. Len(file) \in Nat /\ Len(file) > 0
  <2>1. 0 \in All(file)
    BY DEF WellTimed, KeyFrames
  <2> QED BY <2>1, FrameTime
<1>2. NbImage \in Nat /\ NbImage > 1
  BY CacheAssumption DEF CacheAssumption
<1> QED BY <1>1, <1>2 DEF Enough

LEMMA ForwardComes ==
  ASSUME NEW file, WellTimed(file), Reordered(file), Reachable(file),
         NEW e, e.file = file, e.trusted = TRUE, NEW f \in Good(file), Synced(file, e),
         e.read = TipTime(e.cache), TipTime(e.cache) < Time(file, f),
         NEW r, r = DecodeForward(e, Time(file, f))
  PROVE  r.ok = TRUE /\ ForwardFound(file, e, f, r)
<1> DEFINE E == Enough(e)
<1>0. E \in Nat /\ Len(file) < E /\ Len(file) \in Nat
  BY EnoughIs, GoodFinite
<1>1. PICK loop :
        /\ r = (IF loop[E].at = "found" THEN Done(loop[E].e) ELSE Failed(loop[E].e))
        /\ loop[0] = Start(e)
        /\ \A n \in 1..E : loop[n] = ForwardRound(loop[n - 1], Time(file, f))
  BY <1>0, ForwardLoop
<1> HIDE DEF E
<1> DEFINE P(n) == ForwardStep(file, e, f, n, loop[n])
           S == {n \in 0..E : P(n)}
<1>2. P(0)
  <2>1. loop[0].at = "on" /\ loop[0].e = e
    BY <1>1 DEF Start
  <2>2. 0 <= Cardinality(Upto(file, TipTime(e.cache)))
    <3>1. Cardinality(Upto(file, TipTime(e.cache))) \in Nat
      BY UptoFinite
    <3> QED BY <3>1
  <2>3. ForwardOn(file, e, f, 0, e)
    BY <2>2 DEF ForwardOn, Still
  <2> QED BY <2>1, <2>3 DEF ForwardStep
<1>3. ASSUME NEW n \in 0..E - 1, P(n) PROVE P(n + 1)
  <2>1. loop[n + 1] = ForwardRound(loop[n], Time(file, f))
    <3>1. n + 1 \in 1..E /\ (n + 1) - 1 = n
      BY <1>0
    <3> QED BY <1>1, <3>1
  <2>2. CASE loop[n].at = "on" /\ ForwardOn(file, e, f, n, loop[n].e)
    <3>1. n \in Nat
      BY <1>0
    <3> QED BY <2>1, <2>2, <3>1, ForwardRoundOn
  <2>3. CASE loop[n].at = "found" /\ ForwardFound(file, e, f, loop[n].e)
    <3>1. loop[n + 1] = loop[n]
      BY <2>1, <2>3 DEF ForwardRound
    <3> QED BY <2>3, <3>1 DEF ForwardStep
  <2> QED BY <1>3, <2>2, <2>3 DEF ForwardStep
<1>4. P(E)
  <2>1. 0 \in S
    BY <1>0, <1>2
  <2>2. ASSUME NEW m \in 0..E - 1, m \in S PROVE m + 1 \in S
    <3>1. m + 1 \in 0..E
      BY <1>0
    <3> HIDE DEF P
    <3> QED BY <1>3, <2>2, <3>1
  <2>3. \A m \in 0..E : m \in S
    <3> HIDE DEF S
    <3> QED BY <1>0, <2>1, <2>2, Induct
  <2>4. E \in S
    BY <1>0, <2>3
  <2> QED BY <2>4
<1> DEFINE y == loop[E].e
<1>5. loop[E].at = "found" /\ ForwardFound(file, e, f, y)
  <2>1. SUFFICES ASSUME ForwardOn(file, e, f, E, y) PROVE FALSE
    BY <1>4 DEF ForwardStep
  <2> HIDE DEF y
  <2>2. E <= Cardinality(Upto(file, TipTime(y.cache)))
    BY <2>1 DEF ForwardOn
  <2>3. /\ Cardinality(Upto(file, TipTime(y.cache))) \in Nat
        /\ Cardinality(Upto(file, TipTime(y.cache))) <= Len(file)
    BY UptoFinite
  <2> QED BY <1>0, <2>2, <2>3
<1>6. r = Done(y)
  BY <1>1, <1>5
<1> HIDE DEF y
<1>7. OnlyAnswered(file, y, r) /\ r.ok = TRUE
  BY <1>6, DoneAnswered
<1>8. /\ Still(e, y) /\ y.image = e.image /\ Synced(file, y) /\ ~y.decoder.ended
      /\ TipTime(y.cache) = Time(file, f) /\ y.read = Time(file, f) /\ y.decoded = Time(file, f)
  BY <1>5 DEF ForwardFound
<1>9. /\ Still(y, r) /\ r.image = y.image /\ r.read = y.read /\ r.cache = y.cache
      /\ r.decoder = y.decoder /\ r.decoded = y.decoded /\ Synced(file, r)
  BY <1>7, <1>8 DEF OnlyAnswered
<1>10. Still(e, r)
  BY <1>8, <1>9 DEF Still
<1> QED BY <1>7, <1>8, <1>9, <1>10 DEF ForwardFound

\* Before it was shown, the film has nothing in the ring.
Ready(file, e) ==
  /\ e.file = file /\ e.trusted = TRUE /\ Ring(file, e.cache)
  /\ Used(e.cache) => Synced(file, e)

LEMMA FileIs ==
  ASSUME NEW file, WellTimed(file), NEW e, e.file = file
  PROVE  /\ Frames(e) = All(file) /\ Keys(e) = KeyFrames(file)
         /\ FirstFramePts(e) = Time(file, 0) /\ Time(file, 0) \in Nat
         /\ \A f \in All(file) : FramesAt(e, Time(file, f)) = {f} /\ FirstIn({f}) = f
<1>1. Frames(e) = All(file) /\ Keys(e) = KeyFrames(file)
  BY DEF Frames, All, Keys, KeyFrames, Picture
<1>2. 0 \in KeyFrames(file) /\ 0 \in All(file) /\ Time(file, 0) \in Nat
  BY FrameTime DEF WellTimed, KeyFrames
<1>3. FirstIn(KeyFrames(file)) = 0
  <2>1. KeyFrames(file) \in SUBSET Int /\ \A m \in KeyFrames(file) : 0 <= m
    <3>1. ASSUME NEW m \in KeyFrames(file) PROVE m \in Int /\ 0 <= m
      <4>1. m \in All(file)
        BY DEF KeyFrames
      <4>2. m \in Nat
        BY <4>1, FrameTime
      <4> QED BY <4>2
    <3> QED BY <3>1
  <2> QED BY <1>2, <2>1, FirstIs
<1>4. FirstFramePts(e) = Time(file, 0)
  BY <1>1, <1>2, <1>3, PtsIs DEF FirstFramePts
<1>5. ASSUME NEW f \in All(file) PROVE FramesAt(e, Time(file, f)) = {f} /\ FirstIn({f}) = f
  <2>1. \A g \in All(file) : PtsOf(e, g) = Time(file, g)
    BY PtsIs
  <2>2. \A g \in All(file) : Time(file, g) = Time(file, f) => g = f
    BY DEF WellTimed
  <2>3. FramesAt(e, Time(file, f)) = {f}
    BY <1>1, <2>1, <2>2 DEF FramesAt
  <2>4. FirstIn({f}) = f
    <3>1. f \in Nat
      BY FrameTime
    <3>2. {f} \in SUBSET Int /\ f \in {f} /\ \A m \in {f} : f <= m
      BY <3>1
    <3> QED BY <3>2, FirstIs
  <2> QED BY <2>3, <2>4
<1> QED BY <1>1, <1>2, <1>4, <1>5

LEMMA KeyFrameIs ==
  ASSUME NEW file, WellTimed(file), NEW e, e.file = file, NEW f \in All(file)
  PROVE  IsKeyFrameByTime(e, Time(file, f)) <=> f \in KeyFrames(file)
<1>1. FramesAt(e, Time(file, f)) = {f} /\ FirstIn({f}) = f
  BY FileIs
<1> QED BY <1>1 DEF IsKeyFrameByTime, KeyFrames, Picture

\* The last picture of the file that is not after a time.
LEMMA LastUpTo ==
  ASSUME NEW file, WellTimed(file), NEW e, e.file = file, NEW t \in Nat, Time(file, 0) < t
  PROVE  /\ FramesUpTo(e, t) # {} /\ FrameUpTo(e, t) \in All(file)
         /\ \A g \in All(file) : Time(file, g) <= t => Time(file, g) <= Time(file, FrameUpTo(e, t))
<1>1. /\ FirstFramePts(e) = Time(file, 0) /\ Time(file, 0) \in Nat /\ 0 \in All(file)
  BY FileIs DEF WellTimed, KeyFrames
<1>2. FramesUpTo(e, t) = {g \in All(file) : Time(file, g) <= t}
  <2>1. \A g \in All(file) : PtsOf(e, g) = Time(file, g)
    BY PtsIs
  <2>2. Frames(e) = All(file)
    BY FileIs
  <2> QED BY <2>1, <2>2 DEF FramesUpTo
<1>3. 0 \in FramesUpTo(e, t)
  BY <1>1, <1>2
<1> DEFINE T == {Time(file, g) : g \in FramesUpTo(e, t)}
<1>4. T \in SUBSET (0..t) /\ T # {}
  <2>1. \A g \in FramesUpTo(e, t) : Time(file, g) \in 0..t
    <3>1. SUFFICES ASSUME NEW g \in FramesUpTo(e, t) PROVE Time(file, g) \in 0..t
      OBVIOUS
    <3>2. g \in All(file) /\ Time(file, g) <= t
      BY <1>2
    <3>3. Time(file, g) \in Nat
      BY <3>2, FrameTime
    <3> QED BY <3>2, <3>3
  <2> QED BY <1>3, <2>1
<1>5. LastIn(T) \in T /\ \A m \in T : m <= LastIn(T)
  <2> HIDE DEF T
  <2> QED BY <1>4, Greatest
<1>6. PICK f \in FramesUpTo(e, t) : Time(file, f) = LastIn(T)
  BY <1>5
<1>7. \A g \in FramesUpTo(e, t) : Time(file, g) <= Time(file, f)
  BY <1>5, <1>6
<1>8. \A g \in FramesUpTo(e, t) :
        PtsOf(e, f) > PtsOf(e, g) \/ (PtsOf(e, f) = PtsOf(e, g) /\ f <= g)
  <2>1. SUFFICES ASSUME NEW g \in FramesUpTo(e, t)
                 PROVE  PtsOf(e, f) > PtsOf(e, g) \/ (PtsOf(e, f) = PtsOf(e, g) /\ f <= g)
    OBVIOUS
  <2>2. f \in All(file) /\ g \in All(file)
    BY <1>2, <1>6
  <2>3. /\ PtsOf(e, f) = Time(file, f) /\ PtsOf(e, g) = Time(file, g)
        /\ Time(file, f) \in Nat /\ Time(file, g) \in Nat /\ f \in Nat
    BY <2>2, PtsIs, FrameTime
  <2>4. Time(file, g) <= Time(file, f)
    BY <1>7
  <2>5. Time(file, g) = Time(file, f) => g = f
    BY <2>2 DEF WellTimed
  <2> QED BY <2>3, <2>4, <2>5
<1> DEFINE u == FrameUpTo(e, t)
<1>9. /\ u \in FramesUpTo(e, t)
      /\ \A g \in FramesUpTo(e, t) :
           PtsOf(e, u) > PtsOf(e, g) \/ (PtsOf(e, u) = PtsOf(e, g) /\ u <= g)
  <2>1. u = CHOOSE h \in FramesUpTo(e, t) : \A g \in FramesUpTo(e, t) :
              PtsOf(e, h) > PtsOf(e, g) \/ (PtsOf(e, h) = PtsOf(e, g) /\ h <= g)
    <3>1. ~(t <= FirstFramePts(e))
      BY <1>1
    <3> QED BY <3>1 DEF FrameUpTo
  <2> HIDE DEF u
  <2> QED BY <1>6, <1>8, <2>1
<1> HIDE DEF u
<1>10. ASSUME NEW g \in All(file), Time(file, g) <= t PROVE Time(file, g) <= Time(file, u)
  <2>1. g \in FramesUpTo(e, t) /\ u \in All(file)
    BY <1>2, <1>9, <1>10
  <2>2. /\ PtsOf(e, u) = Time(file, u) /\ PtsOf(e, g) = Time(file, g)
        /\ Time(file, u) \in Nat /\ Time(file, g) \in Nat
    BY <2>1, PtsIs, FrameTime
  <2>3. PtsOf(e, u) > PtsOf(e, g) \/ (PtsOf(e, u) = PtsOf(e, g) /\ u <= g)
    BY <1>9, <2>1
  <2> QED BY <2>2, <2>3
<1> QED BY <1>2, <1>3, <1>9, <1>10 DEF u

\* The key pictures shown before a time, and the last of them.
LEMMA KeysBeforeIs ==
  ASSUME NEW file, WellTimed(file), Divided(file), NEW e, e.file = file, NEW t \in Nat,
         Time(file, 0) < t
  PROVE  KeysBefore(e, t) = KeysUnder(file, t) /\ 0 \in KeysUnder(file, t)
<1>1. t # 0 /\ 0 \in KeyFrames(file)
  <2>1. Time(file, 0) \in Nat
    BY FileIs
  <2> QED BY <2>1 DEF WellTimed
<1>2. /\ FramesUpTo(e, t) # {} /\ FrameUpTo(e, t) \in All(file)
      /\ \A g \in All(file) : Time(file, g) <= t => Time(file, g) <= Time(file, FrameUpTo(e, t))
  BY LastUpTo
<1> DEFINE u == FrameUpTo(e, t)
<1> HIDE DEF u
<1>3. ASSUME NEW k \in KeyFrames(file), Time(file, k) < t PROVE k <= u
  <2>1. k \in All(file) /\ k \in Nat /\ u \in Nat /\ Time(file, k) \in Nat /\ Time(file, u) \in Nat
    BY <1>2, FrameTime DEF KeyFrames, u
  <2>2. Time(file, k) <= Time(file, u)
    BY <1>2, <1>3, <2>1 DEF u
  <2>3. u < k => Time(file, u) < Time(file, k)
    BY <1>2, <2>1 DEF Divided, u
  <2> QED BY <2>1, <2>2, <2>3
<1>4. Keys(e) = KeyFrames(file) /\ \A k \in KeyFrames(file) : PtsOf(e, k) = Time(file, k)
  BY FileIs, PtsIs DEF KeyFrames
<1>5. KeysBefore(e, t) = {k \in KeyFrames(file) : k <= u /\ Time(file, k) < t}
  BY <1>1, <1>2, <1>4 DEF KeysBefore, u
<1> QED BY <1>1, <1>3, <1>5 DEF KeysUnder

LEMMA LastKey ==
  ASSUME NEW file, WellTimed(file), Divided(file), NEW t, KeysUnder(file, t) # {}
  PROVE  /\ LastIn(KeysUnder(file, t)) \in KeysUnder(file, t)
         /\ \A k \in KeysUnder(file, t) : Time(file, k) <= Time(file, LastIn(KeysUnder(file, t)))
<1> DEFINE S == KeysUnder(file, t)
<1>1. Len(file) \in Nat /\ S \in SUBSET (0..Len(file))
  <2>1. \A k \in S : k \in Nat /\ k < Len(file) /\ Len(file) \in Nat
    BY FrameTime DEF KeysUnder, KeyFrames
  <2> QED BY <2>1, GoodFinite
<1>2. LastIn(S) \in S /\ \A m \in S : m <= LastIn(S)
  <2> HIDE DEF S
  <2> QED BY <1>1, Greatest DEF S
<1>3. ASSUME NEW k \in S PROVE Time(file, k) <= Time(file, LastIn(S))
  <2>1. k \in KeyFrames(file) /\ LastIn(S) \in KeyFrames(file) /\ k <= LastIn(S)
    BY <1>2 DEF KeysUnder
  <2> HIDE DEF S
  <2>2. /\ k \in All(file) /\ LastIn(S) \in All(file) /\ k \in Nat /\ LastIn(S) \in Nat
        /\ Time(file, k) \in Nat /\ Time(file, LastIn(S)) \in Nat
    BY <2>1, FrameTime DEF KeyFrames
  <2>3. k < LastIn(S) => Time(file, k) < Time(file, LastIn(S))
    BY <2>1, <2>2 DEF Divided
  <2> QED BY <2>1, <2>2, <2>3
<1> QED BY <1>2, <1>3

\* The seek has come to a picture: it was in the ring, or is its newest entry.
SeekFound(file, e, f, r) ==
  /\ Still(e, r) /\ r.image = e.image /\ r.ok = TRUE /\ Synced(file, r)
  /\ Has(r.cache, Time(file, f)) /\ r.read = Time(file, f) /\ r.decoded = Time(file, f)
  /\ IF Has(e.cache, Time(file, f)) /\ Time(file, 0) < Time(file, f)
     THEN r.cache = e.cache /\ r.decoder = e.decoder
     ELSE TipTime(r.cache) = Time(file, f) /\ ~r.decoder.ended

\* The seek decodes from a key picture.
SeeksFrom(file, e, f, k) ==
  /\ SeekFrame(e, Time(file, f)) = {k} /\ FirstIn({k}) = k
  /\ Time(file, k) <= Time(file, f)
  /\ IsKeyFrameByTime(e, Time(file, f)) <=> f = k

LEMMA SeekKey ==
  ASSUME NEW file, Known(file), NEW e, Ready(file, e), NEW f \in Good(file)
  PROVE  \E k \in KeyFrames(file) : SeeksFrom(file, e, f, k)
<1>0. WellTimed(file) /\ Divided(file) /\ e.file = file
  BY DEF Known, Ready
<1>1. f \in All(file) /\ Time(file, f) \in Nat /\ f \in Nat
  BY <1>0, GoodTime
<1>2. IsKeyFrameByTime(e, Time(file, f)) <=> f \in KeyFrames(file)
  BY <1>0, <1>1, KeyFrameIs
<1>3. FramesAt(e, Time(file, f)) = {f} /\ FirstIn({f}) = f
  BY <1>0, <1>1, FileIs
<1>4. CASE f \in KeyFrames(file)
  <2>1. SeekFrame(e, Time(file, f)) = {f}
    BY <1>2, <1>3, <1>4 DEF SeekFrame
  <2>2. SeeksFrom(file, e, f, f)
    BY <1>1, <1>2, <1>3, <1>4, <2>1 DEF SeeksFrom
  <2> QED BY <1>4, <2>2
<1>5. CASE f \notin KeyFrames(file)
  <2>1. Time(file, 0) < Time(file, f)
    <3>1. f # 0 /\ Time(file, 0) \in Nat
      BY <1>0, <1>5, FileIs DEF WellTimed
    <3>2. Time(file, 0) + 1 < Time(file, f)
      BY <1>0, <1>1, <3>1 DEF WellTimed
    <3> QED BY <1>1, <3>1, <3>2
  <2> DEFINE K == KeysUnder(file, Time(file, f))
             k == LastIn(K)
  <2>2. KeysBefore(e, Time(file, f)) = K /\ 0 \in K
    BY <1>0, <1>1, <2>1, KeysBeforeIs
  <2>3. k \in K
    <3>1. K # {}
      BY <2>2
    <3> QED BY <1>0, <3>1, LastKey
  <2>4. k \in KeyFrames(file) /\ k \in All(file) /\ Time(file, k) < Time(file, f)
    BY <2>3 DEF KeysUnder, KeyFrames
  <2> HIDE DEF K, k
  <2>5. FramesAt(e, Time(file, k)) = {k} /\ FirstIn({k}) = k
    BY <1>0, <2>4, FileIs
  <2>6. PtsOf(e, k) = Time(file, k) /\ Time(file, k) \in Nat
    BY <1>0, <2>4, PtsIs, FrameTime
  <2>7. SeekFrame(e, Time(file, f)) = {k}
    <3>1. KeysBefore(e, Time(file, f)) # {} /\ LastIn(KeysBefore(e, Time(file, f))) = k
      BY <2>2 DEF k
    <3> QED BY <1>2, <1>5, <2>5, <2>6, <3>1 DEF SeekFrame
  <2>8. SeeksFrom(file, e, f, k)
    BY <1>1, <1>2, <1>5, <2>4, <2>5, <2>6, <2>7 DEF SeeksFrom
  <2> QED BY <2>4, <2>8
<1> QED BY <1>4, <1>5

LEMMA OnceFound ==
  ASSUME NEW file, Known(file), NEW e, Ready(file, e), NEW k \in KeyFrames(file),
         NEW r, r = Once(e, k)
  PROVE  IntraFound(file, e, k, r)
<1> DEFINE first == DecodePictureUpToIntra(e, k)
<1>1. IntraFound(file, e, k, first)
  BY IntraDecoded DEF Known, Ready, Ring
<1>2. first.ok = TRUE
  BY <1>1 DEF IntraFound
<1>3. r = IF first.ok THEN first ELSE DecodePictureUpToIntra(first, k)
  BY DEF Once, Again
<1> HIDE DEF first
<1> QED BY <1>1, <1>2, <1>3

LEMMA SeekComes ==
  ASSUME NEW file, Known(file), NEW e, Ready(file, e), NEW f \in Good(file),
         NEW r, r = SeekToTime(e, Time(file, f))
  PROVE  SeekFound(file, e, f, r)
<1> DEFINE t == Time(file, f)
<1>0. /\ WellTimed(file) /\ Reordered(file) /\ Divided(file) /\ Reachable(file)
      /\ e.file = file /\ e.trusted = TRUE /\ Ring(file, e.cache)
      /\ Used(e.cache) => Synced(file, e)
  BY DEF Known, Ready
<1>1. /\ FirstFramePts(e) = Time(file, 0) /\ Time(file, 0) \in Nat /\ t \in Nat
  BY <1>0, FileIs, GoodTime
<1>2. Has(e.cache, t) <=> GetByPts(e.cache, t) # None
  BY <1>0, AskPts DEF None
<1>a. PICK k \in KeyFrames(file) : SeeksFrom(file, e, f, k)
  BY SeekKey
<1>3. /\ SeekFrame(e, t) = {k} /\ FirstIn({k}) = k /\ Time(file, k) <= t
      /\ IsKeyFrameByTime(e, t) <=> f = k
  BY <1>a DEF SeeksFrom
<1> DEFINE key == Once(e, FirstIn(SeekFrame(e, t)))
<1>4. r = IF t > FirstFramePts(e) /\ GetByPts(e.cache, t) # None
          THEN [Done(e) EXCEPT !.decoded = t, !.read = t, !.eos = FALSE]
          ELSE IF SeekFrame(e, t) = {} THEN Failed(e)
          ELSE IF key.ok /\ ~IsKeyFrameByTime(key, t) THEN DecodeForward(key, t) ELSE key
  BY DEF SeekToTime, Forward
<1>5. key = Once(e, k)
  BY <1>3
<1> HIDE DEF t, key
<1>6. CASE Has(e.cache, t) /\ Time(file, 0) < t
  <2>1. r = [Done(e) EXCEPT !.decoded = t, !.read = t, !.eos = FALSE]
    BY <1>1, <1>2, <1>4, <1>6
  <2>2. /\ Still(e, r) /\ r.image = e.image /\ r.ok = TRUE /\ r.cache = e.cache
        /\ r.decoder = e.decoder /\ r.sent = e.sent /\ r.eos = FALSE
        /\ r.decoded = t /\ r.read = t
    BY <2>1 DEF Still, Done
  <2>3. t <= TipTime(e.cache) /\ Used(e.cache)
    BY <1>0, <1>6, Member
  <2>4. Synced(file, e)
    BY <1>0, <2>3
  <2>5. Synced(file, r)
    BY <1>1, <2>2, <2>3, <2>4 DEF Synced
  <2> QED BY <1>6, <2>2, <2>5 DEF SeekFound, t
<1>7. CASE ~(Has(e.cache, t) /\ Time(file, 0) < t)
  <2>1. r = IF key.ok /\ ~IsKeyFrameByTime(key, t) THEN DecodeForward(key, t) ELSE key
    <3>1. ~(t > FirstFramePts(e) /\ GetByPts(e.cache, t) # None)
      BY <1>1, <1>2, <1>7
    <3>2. SeekFrame(e, t) # {}
      BY <1>3
    <3> QED BY <1>4, <3>1, <3>2
  <2>2. IntraFound(file, e, k, key)
    BY <1>5, OnceFound
  <2>3. /\ Still(e, key) /\ key.image = e.image /\ key.ok = TRUE /\ Synced(file, key)
        /\ ~key.decoder.ended /\ TipTime(key.cache) = Time(file, k)
        /\ key.read = Time(file, k) /\ key.decoded = Time(file, k)
        /\ key.file = file /\ key.trusted = TRUE
    BY <1>0, <2>2 DEF IntraFound, Still
  <2>4. Has(key.cache, Time(file, k))
    BY <1>0, <2>3, NewestEntry DEF Synced
  <2>k. IsKeyFrameByTime(key, t) <=> f = k
    BY <1>0, <1>3, <2>3 DEF IsKeyFrameByTime, FramesAt, Frames, PtsOf, Picture
  <2>5. CASE f = k
    <3>1. r = key
      BY <2>k, <2>1, <2>5
    <3> QED BY <1>7, <2>3, <2>4, <2>5, <3>1 DEF SeekFound, t
  <2>6. CASE f # k
    <3>1. r = DecodeForward(key, t)
      BY <2>k, <2>1, <2>3, <2>6
    <3>2. Time(file, k) < t
      <4>1. k \in All(file) /\ Time(file, k) \in Nat
        BY <1>0, FrameTime DEF KeyFrames
      <4>2. Time(file, k) # t
        BY <1>0, <2>6, <4>1, GoodTime DEF t
      <4> QED BY <1>1, <1>3, <4>1, <4>2
    <3>3. r.ok = TRUE /\ ForwardFound(file, key, f, r)
      <4>1. /\ key.read = TipTime(key.cache) /\ TipTime(key.cache) < Time(file, f)
            /\ r = DecodeForward(key, Time(file, f))
        BY <2>3, <3>1, <3>2 DEF t
      <4> QED BY <1>0, <2>3, <4>1, ForwardComes
    <3>4. /\ Still(key, r) /\ r.image = key.image /\ Synced(file, r) /\ ~r.decoder.ended
          /\ TipTime(r.cache) = t /\ r.read = t /\ r.decoded = t
      BY <3>3 DEF ForwardFound, t
    <3>5. Has(r.cache, t)
      BY <1>0, <3>4, NewestEntry DEF Synced
    <3>6. Still(e, r) /\ r.image = e.image
      BY <2>3, <3>4 DEF Still
    <3> QED BY <1>7, <3>3, <3>4, <3>5, <3>6 DEF SeekFound, t
  <2> QED BY <2>5, <2>6
<1> QED BY <1>6, <1>7

-----------------------------------------------------------------------------
(* Segments                                                                *)

LEMMA PartIs ==
  ASSUME NEW file, NEW segments, Cut(file, segments), NEW i \in DOMAIN segments,
         NEW s, s = segments[i]
  PROVE  /\ i \in Nat /\ 1 <= i /\ i <= Len(segments) /\ Len(segments) \in Nat
         /\ s.refStart \in Nat /\ s.duration \in Nat /\ s.start \in Nat
         /\ s.duration > 1 /\ EndOf(s) \in Nat /\ s.start + 1 < EndOf(s)
         /\ RefEnd(s) \in Nat /\ s.refStart + 1 < RefEnd(s)
         /\ EndOf(s) = s.start + s.duration /\ RefEnd(s) = s.refStart + s.duration
<1> DEFINE R == [refStart : Nat, duration : Nat, start : Nat]
<1>1. segments \in Seq(R) /\ s.duration > 1
  BY DEF Cut
<1>2. i \in Nat /\ 1 <= i /\ i <= Len(segments) /\ Len(segments) \in Nat
  BY <1>1
<1>3. s \in R
  <2> HIDE DEF R
  <2> QED BY <1>1, <1>2
<1>4. s.refStart \in Nat /\ s.duration \in Nat /\ s.start \in Nat
  BY <1>3
<1>5. EndOf(s) = s.start + s.duration /\ RefEnd(s) = s.refStart + s.duration
  BY DEF EndOf, RefEnd
<1>6. s.duration > 1
  BY <1>1
<1> HIDE DEF R
<1>7. /\ EndOf(s) \in Nat /\ s.start + 1 < EndOf(s)
      /\ RefEnd(s) \in Nat /\ s.refStart + 1 < RefEnd(s)
  BY <1>4, <1>5, <1>6
<1> QED BY <1>2, <1>4, <1>5, <1>6, <1>7

LEMMA InOrder ==
  ASSUME NEW file, NEW segments, Cut(file, segments), NEW i \in DOMAIN segments,
         NEW j \in DOMAIN segments, i < j
  PROVE  EndOf(segments[i]) <= segments[j].start
<1> DEFINE n == Len(segments)
           P(d) == i + 1 + d <= n => EndOf(segments[i]) <= segments[i + 1 + d].start
           S == {d \in 0..n : P(d)}
<1>1. /\ n \in Nat /\ DOMAIN segments = 1..n /\ i \in 1..n /\ j \in 1..n
      /\ EndOf(segments[i]) \in Nat
  <2>1. DOMAIN segments = 1..n
    BY DEF Cut
  <2> QED BY <2>1, PartIs
<1>2. P(0)
  <2>1. SUFFICES ASSUME i + 1 + 0 <= n PROVE EndOf(segments[i]) <= segments[i + 1 + 0].start
    OBVIOUS
  <2>2. i + 1 \in DOMAIN segments /\ i + 1 # 1 /\ (i + 1) - 1 = i /\ i + 1 + 0 = i + 1
    BY <1>1, <2>1
  <2>3. segments[i + 1].start = EndOf(segments[i])
    BY <2>2 DEF Cut
  <2> QED BY <1>1, <2>2, <2>3
<1>3. ASSUME NEW d \in 0..n - 1, P(d) PROVE P(d + 1)
  <2>1. SUFFICES ASSUME i + 1 + (d + 1) <= n
                 PROVE  EndOf(segments[i]) <= segments[i + 1 + (d + 1)].start
    OBVIOUS
  <2> DEFINE k == i + 1 + d
  <2>2. k \in DOMAIN segments /\ k + 1 \in DOMAIN segments /\ k + 1 # 1 /\ (k + 1) - 1 = k
        /\ i + 1 + (d + 1) = k + 1 /\ k <= n
    BY <1>1, <2>1
  <2>3. EndOf(segments[i]) <= segments[k].start
    BY <1>3, <2>2
  <2> HIDE DEF k
  <2>4. segments[k + 1].start = EndOf(segments[k])
    BY <2>2 DEF Cut
  <2>5. segments[k].start \in Nat /\ EndOf(segments[k]) \in Nat /\ segments[k].start + 1 < EndOf(segments[k])
    BY <2>2, PartIs
  <2> QED BY <1>1, <2>2, <2>3, <2>4, <2>5
<1>4. \A d \in 0..n : d \in S
  <2>1. 0 \in S
    BY <1>1, <1>2
  <2>2. ASSUME NEW m \in 0..n - 1, m \in S PROVE m + 1 \in S
    <3>1. m + 1 \in 0..n
      BY <1>1
    <3> HIDE DEF P
    <3> QED BY <1>3, <2>2, <3>1
  <2> HIDE DEF S
  <2> QED BY <1>1, <2>1, <2>2, Induct
<1>5. j - i - 1 \in 0..n /\ i + 1 + (j - i - 1) = j
  BY <1>1
<1>6. P(j - i - 1)
  BY <1>4, <1>5
<1> QED BY <1>1, <1>5, <1>6

\* A time of the film is in one segment.
LEMMA SegmentIs ==
  ASSUME NEW file, NEW e, Cut(file, e.segments), NEW i \in DOMAIN e.segments, NEW t \in Int,
         e.segments[i].start <= t, t < EndOf(e.segments[i])
  PROVE  SegmentsAt(e, t) = {i} /\ SegmentAt(e, t) = i
<1>1. i \in SegmentsAt(e, t)
  BY DEF SegmentsAt
<1>2. ASSUME NEW j \in SegmentsAt(e, t) PROVE j = i
  <2>1. j \in DOMAIN e.segments /\ e.segments[j].start <= t /\ t < EndOf(e.segments[j])
    BY DEF SegmentsAt
  <2>2. /\ i \in Nat /\ j \in Nat /\ EndOf(e.segments[i]) \in Nat /\ EndOf(e.segments[j]) \in Nat
        /\ e.segments[i].start \in Nat /\ e.segments[j].start \in Nat
    BY <2>1, PartIs
  <2>3. ~(i < j) /\ ~(j < i)
    BY <2>1, <2>2, InOrder
  <2> QED BY <2>2, <2>3
<1>3. SegmentsAt(e, t) = {i}
  BY <1>1, <1>2
<1>4. FirstIn({i}) = i
  <2>1. i \in Nat
    BY PartIs
  <2>2. {i} \in SUBSET Int /\ i \in {i} /\ \A m \in {i} : i <= m
    BY <2>1
  <2> QED BY <2>2, FirstIs
<1> QED BY <1>3, <1>4 DEF SegmentAt

\* Before the first segment there is none.
LEMMA SegmentNone ==
  ASSUME NEW file, NEW e, Cut(file, e.segments), NEW t \in Int, t < 0
  PROVE  SegmentsAt(e, t) = {}
<1>1. \A i \in DOMAIN e.segments : e.segments[i].start \in Nat
  BY PartIs
<1> QED BY <1>1 DEF SegmentsAt

\* What the seek to a segment leaves.
Switched(file, e, s, f, r) ==
  /\ r.file = e.file /\ r.segments = e.segments /\ r.trusted = e.trusted /\ r.dead = e.dead
  /\ r.segment = s /\ r.current = e.current
  /\ r.image = e.image /\ r.ok = TRUE /\ Synced(file, r)
  /\ Has(r.cache, Time(file, f)) /\ r.read = Time(file, f) /\ r.decoded = Time(file, f)
  /\ IF Has(e.cache, Time(file, f)) /\ Time(file, 0) < Time(file, f)
     THEN r.cache = e.cache /\ r.decoder = e.decoder
     ELSE TipTime(r.cache) = Time(file, f) /\ ~r.decoder.ended

LEMMA EnteredIs ==
  ASSUME NEW file, NEW e, NEW s, NEW f, NEW y, SeekFound(file, e, f, y), NEW r, r = Entered(y, s)
  PROVE  Switched(file, e, s, f, r)
<1>1. /\ Still(e, y) /\ y.image = e.image /\ y.ok = TRUE /\ Synced(file, y)
      /\ Has(y.cache, Time(file, f)) /\ y.read = Time(file, f) /\ y.decoded = Time(file, f)
      /\ IF Has(e.cache, Time(file, f)) /\ Time(file, 0) < Time(file, f)
         THEN y.cache = e.cache /\ y.decoder = e.decoder
         ELSE TipTime(y.cache) = Time(file, f) /\ ~y.decoder.ended
  BY DEF SeekFound
<1>2. r = [y EXCEPT !.segment = s]
  BY <1>1 DEF Entered
<1>3. /\ r.file = y.file /\ r.segments = y.segments /\ r.trusted = y.trusted /\ r.dead = y.dead
      /\ r.segment = s /\ r.current = y.current /\ r.image = y.image /\ r.ok = y.ok
      /\ r.cache = y.cache /\ r.decoder = y.decoder /\ r.sent = y.sent /\ r.eos = y.eos
      /\ r.decoded = y.decoded /\ r.read = y.read
  BY <1>2
<1>4. Synced(file, r)
  BY <1>1, <1>3, SyncedSame
<1> QED BY <1>1, <1>3, <1>4 DEF Switched, Still

LEMMA SwitchComes ==
  ASSUME NEW file, Known(file), NEW e, Ready(file, e), Cut(file, e.segments),
         NEW s \in DOMAIN e.segments, NEW r, r = SwitchToSegment(e, s)
  PROVE  \E f \in Good(file) : /\ Time(file, f) = e.segments[s].refStart
                               /\ Switched(file, e, s, f, r)
<1>0. WellTimed(file) /\ Divided(file) /\ e.file = file
  BY DEF Known, Ready
<1> DEFINE start == e.segments[s].refStart
<1>1. PICK f \in Good(file) : start = Time(file, f)
  BY DEF Cut
<1>2. FirstFramePts(e) = Time(file, 0) /\ Time(file, 0) \in Nat /\ Time(file, f) \in Nat /\ f \in All(file)
  BY <1>0, FileIs, GoodTime
<1>3. (IF start = 0 THEN FirstFramePts(e) ELSE start) = Time(file, f)
  <2>1. CASE start = 0
    <3>1. f = 0
      <4>1. f # 0 => Time(file, 0) + 1 < Time(file, f)
        BY <1>0, <1>2 DEF WellTimed
      <4> QED BY <1>1, <1>2, <2>1, <4>1
    <3> QED BY <1>2, <2>1, <3>1
  <2> QED BY <1>1, <2>1
<1>4. r = Entered(SeekToTime(e, Time(file, f)), s)
  BY <1>3 DEF SwitchToSegment
<1>5. SeekFound(file, e, f, SeekToTime(e, Time(file, f)))
  BY SeekComes
<1>6. Switched(file, e, s, f, r)
  BY <1>4, <1>5, EnteredIs
<1> QED BY <1>1, <1>6

-----------------------------------------------------------------------------
(* The picture on screen                                                   *)

SameFilm(e, r) ==
  r.file = e.file /\ r.segments = e.segments /\ r.trusted = e.trusted /\ r.dead = e.dead

(* A picture of the segment is shown, at its time of the film, and is in   *)
(* the ring; where the ring ends with it, it was read last.                *)
PlacedAt(file, e, f) ==
  /\ f \in Good(file) /\ e.segment \in DOMAIN e.segments /\ In(Segment(e), Time(file, f))
  /\ e.current = Segment(e).start + Time(file, f) - Segment(e).refStart
  /\ e.image = [pts |-> e.current, pic |-> f + 1]
  /\ Has(e.cache, Time(file, f))
  /\ Time(file, f) = TipTime(e.cache) /\ ~e.decoder.ended => e.read = Time(file, f)

LEMMA Clock ==
  ASSUME NEW file, WellTimed(file), NEW e, Cut(file, e.segments),
         e.segment \in DOMAIN e.segments, NEW f \in Good(file), In(Segment(e), Time(file, f)),
         NEW t, t = Segment(e).start + Time(file, f) - Segment(e).refStart
  PROVE  /\ t \in Nat /\ Segment(e).start <= t /\ t < EndOf(Segment(e))
         /\ RefTime(e, t) = Time(file, f) /\ LinearTime(e, Time(file, f)) = t
         /\ SegmentsAt(e, t) = {e.segment} /\ SegmentAt(e, t) = e.segment
<1> DEFINE s == Segment(e)
<1>1. /\ s.refStart \in Nat /\ s.duration \in Nat /\ s.start \in Nat
      /\ EndOf(s) = s.start + s.duration
  BY PartIs DEF Segment
<1>2. Time(file, f) \in Nat
  BY GoodTime
<1>3. s.refStart <= Time(file, f) /\ Time(file, f) < s.refStart + s.duration
  BY DEF In
<1>4. t = s.start + Time(file, f) - s.refStart
  OBVIOUS
<1>5. RefTime(e, t) = s.refStart + t - s.start
  BY DEF RefTime
<1>6. LinearTime(e, Time(file, f)) = IF Time(file, f) - s.refStart + s.start < 0 THEN 0
                                     ELSE Time(file, f) - s.refStart + s.start
  BY DEF LinearTime
<1> HIDE DEF s
<1>7. t \in Nat /\ s.start <= t /\ t < EndOf(s)
  BY <1>1, <1>2, <1>3, <1>4
<1>8. RefTime(e, t) = Time(file, f)
  BY <1>1, <1>2, <1>4, <1>5
<1>9. LinearTime(e, Time(file, f)) = t
  BY <1>1, <1>2, <1>3, <1>4, <1>6
<1>10. SegmentsAt(e, t) = {e.segment} /\ SegmentAt(e, t) = e.segment
  <2>1. t \in Int /\ e.segments[e.segment].start <= t /\ t < EndOf(e.segments[e.segment])
    BY <1>7 DEF s, Segment
  <2> QED BY <2>1, SegmentIs
<1> QED BY <1>7, <1>8, <1>9, <1>10 DEF s

\* A picture of the segment was put on screen.
Displayed(file, e, f, r) ==
  /\ SameFilm(e, r) /\ r.segment = e.segment /\ r.ok = TRUE
  /\ Synced(file, r) /\ PlacedAt(file, r, f)

\* A picture of the segment that is in the ring is given to the caller.
LEMMA Delivered ==
  ASSUME NEW file, WellTimed(file), NEW e, Cut(file, e.segments), Synced(file, e),
         e.segment \in DOMAIN e.segments, NEW f \in Good(file), In(Segment(e), Time(file, f)),
         Has(e.cache, Time(file, f)),
         Time(file, f) = TipTime(e.cache) /\ ~e.decoder.ended => e.read = Time(file, f),
         NEW r, r = Deliver(e, Image(f, Time(file, f)))
  PROVE  Displayed(file, e, f, r)
<1> DEFINE t == LinearTime(e, Time(file, f))
<1>1. t = Segment(e).start + Time(file, f) - Segment(e).refStart
  BY Clock
<1>2. r = [e EXCEPT !.image = [pts |-> t, pic |-> f + 1], !.current = t, !.ok = TRUE]
  BY DEF Deliver, Image
<1> HIDE DEF t
<1>3. /\ SameFilm(e, r) /\ r.segment = e.segment /\ r.ok = TRUE /\ r.current = t
      /\ r.image = [pts |-> t, pic |-> f + 1]
      /\ r.cache = e.cache /\ r.decoder = e.decoder /\ r.sent = e.sent /\ r.eos = e.eos
      /\ r.decoded = e.decoded /\ r.read = e.read
  BY <1>2 DEF SameFilm
<1>4. Synced(file, r)
  BY <1>3, SyncedSame
<1>5. Segment(r) = Segment(e)
  BY <1>3 DEF Segment, SameFilm
<1>6. PlacedAt(file, r, f)
  BY <1>1, <1>3, <1>5 DEF PlacedAt, SameFilm
<1> QED BY <1>3, <1>4, <1>6 DEF Displayed

\* A call that fails without touching the picture leaves it there.
LEMMA Stays ==
  ASSUME NEW file, NEW e, NEW f, PlacedAt(file, e, f), NEW r, SameFilm(e, r),
         r.segment = e.segment, r.current = e.current, r.image = e.image,
         Has(r.cache, Time(file, f)),
         Time(file, f) = TipTime(r.cache) /\ ~r.decoder.ended => r.read = Time(file, f)
  PROVE  PlacedAt(file, r, f)
<1>1. Segment(r) = Segment(e)
  BY DEF Segment, SameFilm
<1> QED BY <1>1 DEF PlacedAt, SameFilm

\* A picture that was sought is gone to.
LEMMA ArrivedAt ==
  ASSUME NEW file, WellTimed(file), NEW y, Cut(file, y.segments), y.file = file,
         y.segment \in DOMAIN y.segments, NEW f \in Good(file), In(Segment(y), Time(file, f)),
         y.ok = TRUE, Synced(file, y), Has(y.cache, Time(file, f)),
         y.read = Time(file, f), y.decoded = Time(file, f),
         NEW r, r = Arrived(y)
  PROVE  Displayed(file, y, f, r)
<1> DEFINE t == Time(file, f) + Segment(y).start - Segment(y).refStart
           a == [y EXCEPT !.current = t]
<1>1. r = SamePicture(a)
  BY DEF Arrived
<1>2. t = Segment(y).start + Time(file, f) - Segment(y).refStart
  <2>1. Time(file, f) \in Nat /\ Segment(y).start \in Nat /\ Segment(y).refStart \in Nat
    BY PartIs, GoodTime DEF Segment
  <2> QED BY <2>1
<1>3. /\ SameFilm(y, a) /\ a.segment = y.segment /\ a.current = t /\ a.cache = y.cache
      /\ a.decoder = y.decoder /\ a.sent = y.sent /\ a.eos = y.eos
      /\ a.decoded = y.decoded /\ a.read = y.read
  BY DEF SameFilm
<1> HIDE DEF t, a
<1>4. Segment(a) = Segment(y) /\ Cut(file, a.segments) /\ a.segment \in DOMAIN a.segments
  BY <1>3 DEF Segment, SameFilm
<1>5. /\ RefTime(a, t) = Time(file, f) /\ LinearTime(a, Time(file, f)) = t
      /\ SegmentsAt(a, t) = {a.segment} /\ SegmentAt(a, t) = a.segment
  <2>1. In(Segment(a), Time(file, f)) /\ t = Segment(a).start + Time(file, f) - Segment(a).refStart
    BY <1>2, <1>4
  <2> QED BY <1>4, <2>1, Clock
<1>6. GetByPts(a.cache, Time(file, f)) = Image(f, Time(file, f)) /\ Image(f, Time(file, f)) # None
  <2>1. Ring(file, y.cache)
    BY DEF Synced
  <2>2. PICK g \in Good(file) : /\ Time(file, g) = Time(file, f)
                                /\ GetByPts(y.cache, Time(file, f)) = Image(g, Time(file, f))
    BY <2>1, AskPts
  <2>3. g = f
    BY <2>2, GoodTime
  <2> QED BY <1>3, <2>2, <2>3, IsImage DEF None
<1>7. r = [Done(a) EXCEPT !.image = [Image(f, Time(file, f)) EXCEPT !.pts = LinearTime(a, @)]]
  BY <1>1, <1>3, <1>5, <1>6 DEF SamePicture
<1>8. [Image(f, Time(file, f)) EXCEPT !.pts = LinearTime(a, @)] = [pts |-> t, pic |-> f + 1]
  BY <1>5 DEF Image
<1>9. /\ SameFilm(a, r) /\ r.segment = a.segment /\ r.current = a.current /\ r.ok = TRUE
      /\ r.image = [pts |-> t, pic |-> f + 1]
      /\ r.cache = a.cache /\ r.decoder = a.decoder /\ r.sent = a.sent /\ r.eos = a.eos
      /\ r.decoded = a.decoded /\ r.read = a.read
  BY <1>7, <1>8 DEF SameFilm, Done
<1>10. Synced(file, r)
  BY <1>3, <1>9, SyncedSame
<1>11. SameFilm(y, r) /\ r.segment = y.segment /\ Segment(r) = Segment(y)
  BY <1>3, <1>9 DEF SameFilm, Segment
<1>12. PlacedAt(file, r, f)
  <2>1. f \in Good(file) /\ r.segment \in DOMAIN r.segments
    BY <1>11 DEF SameFilm
  <2>2. In(Segment(r), Time(file, f)) /\ r.current = Segment(r).start + Time(file, f) - Segment(r).refStart
    BY <1>2, <1>3, <1>9, <1>11
  <2>3. r.image = [pts |-> r.current, pic |-> f + 1]
    BY <1>3, <1>9
  <2>4. Has(r.cache, Time(file, f)) /\ r.read = Time(file, f)
    BY <1>3, <1>9
  <2> QED BY <2>1, <2>2, <2>3, <2>4 DEF PlacedAt
<1> QED BY <1>9, <1>10, <1>11, <1>12 DEF Displayed

-----------------------------------------------------------------------------
(* Seeking                                                                 *)

\* A call that went well has come to a picture of the film.
Arrives(file, e, r) ==
  /\ SameFilm(e, r) /\ r.ok = TRUE /\ Synced(file, r)
  /\ \E f \in Good(file) : PlacedAt(file, r, f)

\* The time of a picture in a segment.
When(file, s, f) == s.start + Time(file, f) - s.refStart

LEMMA FilmIs ==
  ASSUME NEW file, NEW e, e.file = file
  PROVE  /\ \A p \in Film(e) : \E i \in DOMAIN e.segments, f \in Good(file) :
              /\ In(e.segments[i], Time(file, f))
              /\ p = [at |-> When(file, e.segments[i], f), frame |-> f]
         /\ \A i \in DOMAIN e.segments, f \in Good(file) :
              In(e.segments[i], Time(file, f)) =>
                [at |-> When(file, e.segments[i], f), frame |-> f] \in Film(e)
<1>1. \A s : Shown(e, s) = {[at |-> When(file, s, f), frame |-> f] :
                              f \in {g \in Good(file) : In(s, Time(file, g))}}
  BY DEF Shown, When, Good, Time, Frames, All, Picture
<1> QED BY <1>1 DEF Film

LEMMA SegmentOf ==
  ASSUME NEW file, WellTimed(file), NEW e, Cut(file, e.segments), NEW i \in DOMAIN e.segments,
         NEW f \in All(file), In(e.segments[i], Time(file, f)),
         NEW t, t = When(file, e.segments[i], f)
  PROVE  /\ t \in Nat /\ SegmentsAt(e, t) = {i} /\ SegmentAt(e, t) = i
         /\ e.segments[i].refStart + t - e.segments[i].start = Time(file, f)
         /\ e.segments[i].start <= t /\ t < EndOf(e.segments[i])
<1> DEFINE s == e.segments[i]
<1>1. s.refStart \in Nat /\ s.start \in Nat /\ s.duration \in Nat /\ EndOf(s) = s.start + s.duration
  BY PartIs
<1>2. Time(file, f) \in Nat /\ s.refStart <= Time(file, f) /\ Time(file, f) < s.refStart + s.duration
  BY FrameTime DEF In
<1>3. t = s.start + Time(file, f) - s.refStart
  BY DEF When
<1> HIDE DEF s
<1>4. t \in Nat /\ s.start <= t /\ t < EndOf(s) /\ s.refStart + t - s.start = Time(file, f)
  BY <1>1, <1>2, <1>3
<1>5. SegmentsAt(e, t) = {i} /\ SegmentAt(e, t) = i
  <2>1. t \in Int /\ e.segments[i].start <= t /\ t < EndOf(e.segments[i])
    BY <1>4 DEF s
  <2> QED BY <2>1, SegmentIs
<1> QED BY <1>4, <1>5 DEF s

LEMMA ArrivedFrom ==
  ASSUME NEW file, WellTimed(file), NEW e, e.file = file, Cut(file, e.segments),
         NEW i \in DOMAIN e.segments, NEW f \in Good(file), In(e.segments[i], Time(file, f)),
         NEW y, SameFilm(e, y), y.segment = i, y.ok = TRUE, Synced(file, y),
         Has(y.cache, Time(file, f)), y.read = Time(file, f), y.decoded = Time(file, f),
         NEW r, r = Arrived(y)
  PROVE  Arrives(file, e, r)
<1>1. /\ y.file = file /\ Cut(file, y.segments) /\ y.segment \in DOMAIN y.segments
      /\ In(Segment(y), Time(file, f))
  BY DEF SameFilm, Segment
<1>2. Displayed(file, y, f, r)
  BY <1>1, ArrivedAt
<1> QED BY <1>2 DEF Displayed, Arrives, SameFilm

LEMMA SeekArrives ==
  ASSUME NEW file, Known(file), NEW e, Ready(file, e), Cut(file, e.segments),
         NEW t \in Times(e), NEW r, r = GoToTime(e, t)
  PROVE  Arrives(file, e, r)
<1>0. WellTimed(file) /\ e.file = file
  BY DEF Known, Ready
<1>1. PICK p \in Film(e) : p.at = t
  BY DEF Times
<1>2. PICK i \in DOMAIN e.segments, f \in Good(file) :
        /\ In(e.segments[i], Time(file, f)) /\ p = [at |-> When(file, e.segments[i], f), frame |-> f]
  BY <1>0, FilmIs
<1>3. t = When(file, e.segments[i], f) /\ f \in All(file)
  BY <1>1, <1>2 DEF Good
<1>4. SegmentAt(e, t) = i /\ e.segments[i].refStart + t - e.segments[i].start = Time(file, f)
  BY <1>0, <1>2, <1>3, SegmentOf
<1> DEFINE y == Entered(SeekToTime(e, Time(file, f)), i)
<1>5. r = Arrived(y)
  BY <1>4 DEF GoToTime
<1>6. SeekFound(file, e, f, SeekToTime(e, Time(file, f)))
  BY SeekComes
<1>7. Switched(file, e, i, f, y)
  BY <1>6, EnteredIs
<1> HIDE DEF y
<1>8. /\ SameFilm(e, y) /\ y.segment = i /\ y.ok = TRUE /\ Synced(file, y)
      /\ Has(y.cache, Time(file, f)) /\ y.read = Time(file, f) /\ y.decoded = Time(file, f)
  BY <1>7 DEF Switched, SameFilm
<1> QED BY <1>0, <1>2, <1>5, <1>8, ArrivedFrom

LEMMA RewindArrives ==
  ASSUME NEW file, Known(file), NEW e, Ready(file, e), Cut(file, e.segments),
         NEW r, r = Rewind(e)
  PROVE  Arrives(file, e, r)
<1>0. WellTimed(file) /\ e.file = file /\ 1 \in DOMAIN e.segments
  BY DEF Known, Ready, Cut
<1> DEFINE y == SwitchToSegment(e, 1)
<1>1. r = Arrived(y)
  BY DEF Rewind
<1>2. PICK f \in Good(file) : Time(file, f) = e.segments[1].refStart /\ Switched(file, e, 1, f, y)
  BY <1>0, SwitchComes
<1> HIDE DEF y
<1>3. In(e.segments[1], Time(file, f))
  <2>1. /\ e.segments[1].refStart \in Nat /\ e.segments[1].duration \in Nat
        /\ e.segments[1].duration > 1
    BY <1>0, PartIs
  <2> QED BY <1>2, <2>1 DEF In
<1>4. /\ SameFilm(e, y) /\ y.segment = 1 /\ y.ok = TRUE /\ Synced(file, y)
      /\ Has(y.cache, Time(file, f)) /\ y.read = Time(file, f) /\ y.decoded = Time(file, f)
  BY <1>2 DEF Switched, SameFilm
<1> QED BY <1>0, <1>1, <1>3, <1>4, ArrivedFrom

LEMMA IntraArrives ==
  ASSUME NEW file, Known(file), NEW e, Ready(file, e), Cut(file, e.segments),
         e.segment \in DOMAIN e.segments, NEW t \in KeyTimes(e), NEW r, r = GoToIntraTime(e, t)
  PROVE  Arrives(file, e, r)
<1>0. WellTimed(file) /\ Reordered(file) /\ Divided(file) /\ Findable(file) /\ e.file = file
  BY DEF Known, Ready
<1>1. PICK i \in DOMAIN e.segments, k \in KeyFrames(file) :
        In(e.segments[i], Time(file, k)) /\ t = When(file, e.segments[i], k)
  <2>1. PICK s \in Range(e.segments) :
          t \in {s.start + Picture(e, f).pts - s.refStart :
                   f \in {k \in Keys(e) : In(s, Picture(e, k).pts)}}
    BY DEF KeyTimes
  <2>2. PICK i \in DOMAIN e.segments : s = e.segments[i]
    BY DEF Range
  <2>3. PICK k \in Keys(e) : In(s, Picture(e, k).pts) /\ t = s.start + Picture(e, k).pts - s.refStart
    BY <2>1
  <2>4. Keys(e) = KeyFrames(file) /\ Picture(e, k).pts = Time(file, k)
    BY <1>0, FileIs DEF Picture, Time
  <2> QED BY <2>2, <2>3, <2>4 DEF When
<1>2. k \in All(file) /\ k \in Good(file)
  BY <1>0 DEF KeyFrames, Divided
<1>3. SegmentAt(e, t) = i /\ e.segments[i].refStart + t - e.segments[i].start = Time(file, k)
  BY <1>0, <1>1, <1>2, SegmentOf
<1>4. FirstIn(FramesAt(e, Time(file, k))) = k
  <2>1. FramesAt(e, Time(file, k)) = {k} /\ FirstIn({k}) = k
    BY <1>0, <1>2, FileIs
  <2> QED BY <2>1
<1> DEFINE there == IF i = e.segment THEN Done(e) ELSE SwitchToSegment(e, i)
           a == [there EXCEPT !.sent = k]
           y == DecodePictureUpToIntra(a, k)
<1>5. r = IF there.ok THEN Arrived(y) ELSE there
  BY <1>3, <1>4 DEF GoToIntraTime
<1>6. SameFilm(e, there) /\ there.segment = i /\ there.ok = TRUE /\ Shape(there.cache)
  <2>1. CASE i = e.segment
    <3>1. there = Done(e)
      BY <2>1
    <3> HIDE DEF there
    <3>2. SameFilm(e, there) /\ there.segment = e.segment /\ there.ok = TRUE /\ there.cache = e.cache
      BY <3>1 DEF Done, SameFilm
    <3> QED BY <2>1, <3>2 DEF Ready, Ring
  <2>2. CASE i # e.segment
    <3>1. there = SwitchToSegment(e, i)
      BY <2>2
    <3> HIDE DEF there
    <3>2. PICK f \in Good(file) : Switched(file, e, i, f, there)
      BY <3>1, SwitchComes
    <3> QED BY <3>2 DEF Switched, SameFilm, Synced, Ring
  <2> QED BY <2>1, <2>2
<1> HIDE DEF there
<1>7. SameFilm(e, a) /\ a.segment = i /\ Shape(a.cache) /\ a.file = file
  BY <1>0, <1>6 DEF SameFilm
<1> HIDE DEF a
<1>8. IntraFound(file, a, k, y)
  BY <1>0, <1>7, IntraDecoded
<1> HIDE DEF y
<1>9. /\ SameFilm(e, y) /\ y.segment = i /\ y.ok = TRUE /\ Synced(file, y)
      /\ TipTime(y.cache) = Time(file, k) /\ y.read = Time(file, k) /\ y.decoded = Time(file, k)
  BY <1>7, <1>8 DEF IntraFound, Still, SameFilm
<1>10. Has(y.cache, Time(file, k))
  BY <1>0, <1>9, NewestEntry DEF Synced
<1>11. r = Arrived(y)
  BY <1>5, <1>6
<1> QED BY <1>0, <1>1, <1>2, <1>9, <1>10, <1>11, ArrivedFrom

-----------------------------------------------------------------------------
(* nextPicture                                                             *)

\* Nothing more of the segment is shown after a time.
Over(file, s, t) == \A h \in Good(file) : t < Time(file, h) => RefEnd(s) <= Time(file, h)

LEMMA SegmentSame ==
  ASSUME NEW e, NEW y, SameFilm(e, y), y.segment = e.segment
  PROVE  /\ Segment(y) = Segment(e)
         /\ \A t : RefTime(y, t) = RefTime(e, t) /\ LinearTime(y, t) = LinearTime(e, t)
<1>1. Segment(y) = Segment(e)
  BY DEF SameFilm, Segment
<1> QED BY <1>1 DEF RefTime, LinearTime

LEMMA StillFilm ==
  ASSUME NEW e, NEW y, Still(e, y)
  PROVE  SameFilm(e, y) /\ y.segment = e.segment /\ y.current = e.current
BY DEF Still, SameFilm

LEMMA GotIs ==
  ASSUME NEW file, WellTimed(file), NEW y, Cut(file, y.segments),
         y.segment \in DOMAIN y.segments, NEW g \in Good(file), In(Segment(y), Time(file, g)),
         y.image = Image(g, Time(file, g)), NEW within
  PROVE  Got(y, within) = Deliver(y, Image(g, Time(file, g)))
<1> DEFINE t == Segment(y).start + Time(file, g) - Segment(y).refStart
<1>1. LinearTime(y, Time(file, g)) = t /\ t < EndOf(Segment(y)) /\ t \in Nat /\ EndOf(Segment(y)) \in Nat
  <2>1. LinearTime(y, Time(file, g)) = t /\ t < EndOf(Segment(y)) /\ t \in Nat
    BY Clock
  <2>2. EndOf(Segment(y)) \in Nat
    BY PartIs DEF Segment
  <2> QED BY <2>1, <2>2
<1>2. y.image.pts = Time(file, g)
  BY DEF Image
<1> HIDE DEF t
<1>3. ~(t >= EndOf(Segment(y)))
  BY <1>1
<1> QED BY <1>1, <1>2, <1>3 DEF Got

\* Where decoding on has failed, there is no key picture to skip to.
LEMMA SkipNever ==
  ASSUME NEW file, WellTimed(file), Divided(file), NEW y, y.file = file, Cut(file, y.segments),
         y.segment \in DOMAIN y.segments, NEW pts \in Nat, Over(file, Segment(y), pts), NEW within
  PROVE  SkipToKey(y, pts, within) = NextSegment(y, within)
<1> DEFINE K == KeysAfter(y, pts)
           time == PtsOf(y, FirstIn(K))
           end == Segment(y).refStart + Segment(y).duration
<1>1. ~(K # {} /\ time < end)
  <2>1. SUFFICES ASSUME K # {} PROVE ~(time < end)
    OBVIOUS
  <2>2. K \in SUBSET Nat /\ K \subseteq KeyFrames(file) /\ \A k \in K : PtsOf(y, k) > pts
    <3>1. K \subseteq KeyFrames(file) /\ \A k \in K : PtsOf(y, k) > pts
      BY FileIs DEF KeysAfter
    <3>2. \A k \in KeyFrames(file) : k \in Nat
      BY FrameTime DEF KeyFrames
    <3> QED BY <3>1, <3>2
  <2>3. FirstIn(K) \in K
    <3> HIDE DEF K
    <3> QED BY <2>1, <2>2, First
  <2> DEFINE k == FirstIn(K)
  <2>4. k \in KeyFrames(file) /\ k \in All(file) /\ k \in Good(file)
    BY <2>2, <2>3 DEF KeyFrames, Divided
  <2>5. PtsOf(y, k) > pts
    BY <2>2, <2>3
  <2> HIDE DEF k, K
  <2>6. PtsOf(y, k) = Time(file, k) /\ Time(file, k) \in Nat
    BY <2>4, PtsIs, FrameTime
  <2>7. RefEnd(Segment(y)) <= Time(file, k)
    BY <2>4, <2>5, <2>6 DEF Over
  <2>8. RefEnd(Segment(y)) = end /\ end \in Nat
    BY PartIs DEF Segment, RefEnd
  <2> HIDE DEF end
  <2> QED BY <2>6, <2>7, <2>8 DEF k
<1> HIDE DEF K, time, end
<1> QED BY <1>1 DEF SkipToKey, Skipped, K, time, end

\* The first picture of the next segment.
SegmentStart(file, e, r) ==
  /\ SameFilm(e, r) /\ r.ok = TRUE /\ Synced(file, r) /\ r.segment = e.segment + 1
  /\ \E g \in Good(file) : PlacedAt(file, r, g) /\ Time(file, g) = Segment(r).refStart

\* The end of the film, or the next segment.
SegmentOrEnd(file, e, r) ==
  IF e.segment = Len(e.segments) THEN r = Failed(e)
  ELSE e.segment + 1 \in DOMAIN e.segments /\ SegmentStart(file, e, r)

LEMMA NextSegmentIs ==
  ASSUME NEW file, Known(file), NEW e, Ready(file, e), Cut(file, e.segments),
         e.segment \in DOMAIN e.segments, NEW r, r = NextSegment(e, FALSE)
  PROVE  SegmentOrEnd(file, e, r)
<1>0. WellTimed(file) /\ e.file = file
  BY DEF Known, Ready
<1>1. CASE e.segment = Len(e.segments)
  BY <1>1 DEF NextSegment, SegmentOrEnd
<1>2. CASE e.segment # Len(e.segments)
  <2> DEFINE s == e.segment + 1
             there == SwitchToSegment(e, s)
             same == GetByPts(there.cache, there.decoded)
  <2>1. s \in DOMAIN e.segments
    <3>1. DOMAIN e.segments = 1..Len(e.segments)
      BY DEF Cut
    <3>2. e.segment \in Nat /\ 1 <= e.segment /\ e.segment <= Len(e.segments) /\ Len(e.segments) \in Nat
      BY PartIs
    <3> QED BY <1>2, <3>1, <3>2
  <2>2. PICK g \in Good(file) : Time(file, g) = e.segments[s].refStart /\ Switched(file, e, s, g, there)
    BY <2>1, SwitchComes
  <2>3. /\ SameFilm(e, there) /\ there.segment = s /\ there.ok = TRUE /\ Synced(file, there)
        /\ Has(there.cache, Time(file, g)) /\ there.read = Time(file, g)
        /\ there.decoded = Time(file, g)
    BY <2>2 DEF Switched, SameFilm
  <2>4. r = IF ~there.ok THEN there
            ELSE Deliver(there, IF same = None THEN there.image ELSE same)
    BY <1>2 DEF NextSegment
  <2>5. same = GetByPts(there.cache, there.decoded)
    OBVIOUS
  <2> HIDE DEF there, same
  <2>6. same = Image(g, Time(file, g)) /\ same # None
    <3>1. Ring(file, there.cache)
      BY <2>3 DEF Synced
    <3>2. PICK h \in Good(file) : Time(file, h) = Time(file, g) /\ same = Image(h, Time(file, g))
      BY <1>0, <2>3, <2>5, <3>1, AskPts
    <3>3. h = g
      BY <1>0, <3>2, GoodTime
    <3> QED BY <1>0, <3>2, <3>3, IsImage DEF None
  <2>7. r = Deliver(there, Image(g, Time(file, g)))
    BY <2>3, <2>4, <2>6
  <2>8. /\ Cut(file, there.segments) /\ there.segment \in DOMAIN there.segments
        /\ Segment(there) = e.segments[s]
    BY <2>1, <2>3 DEF SameFilm, Segment
  <2>9. In(Segment(there), Time(file, g))
    <3>1. /\ e.segments[s].refStart \in Nat /\ e.segments[s].duration \in Nat
          /\ e.segments[s].duration > 1
      BY <2>1, PartIs
    <3> QED BY <2>2, <2>8, <3>1 DEF In
  <2>a. Displayed(file, there, g, r)
    BY <1>0, <2>3, <2>7, <2>8, <2>9, Delivered
  <2>10. /\ SameFilm(there, r) /\ r.segment = there.segment /\ r.ok = TRUE
         /\ Synced(file, r) /\ PlacedAt(file, r, g)
    BY <2>a DEF Displayed
  <2>11. SameFilm(e, r) /\ r.segment = s /\ Segment(r) = e.segments[s]
    BY <2>3, <2>10 DEF SameFilm, Segment
  <2>12. SegmentStart(file, e, r)
    BY <2>2, <2>10, <2>11 DEF SegmentStart
  <2> QED BY <1>2, <2>1, <2>12 DEF SegmentOrEnd
<1> QED BY <1>1, <1>2

\* Where nextPicture goes from a picture.
NextGoes(file, e, f, r) ==
  /\ SameFilm(e, r) /\ Synced(file, r)
  /\ \/ /\ r.ok = TRUE /\ r.segment = e.segment
        /\ \E g \in Good(file) : PlacedAt(file, r, g) /\ After(file, Time(file, f), g)
     \/ /\ Over(file, Segment(e), Time(file, f)) /\ e.segment + 1 \in DOMAIN e.segments
        /\ SegmentStart(file, e, r)
     \/ /\ Over(file, Segment(e), Time(file, f)) /\ e.segment = Len(e.segments)
        /\ r.ok = FALSE /\ r.segment = e.segment /\ PlacedAt(file, r, f)

\* The end of the segment was met, and the picture is still there.
Left(file, e, f, y) ==
  /\ SameFilm(e, y) /\ y.segment = e.segment /\ y.current = e.current /\ y.image = e.image
  /\ Synced(file, y) /\ Has(y.cache, Time(file, f))
  /\ Time(file, f) = TipTime(y.cache) /\ ~y.decoder.ended => y.read = Time(file, f)

LEMMA SegmentLeft ==
  ASSUME NEW file, Known(file), NEW e, e.file = file, e.trusted = TRUE, Cut(file, e.segments),
         NEW f \in Good(file), PlacedAt(file, e, f), Over(file, Segment(e), Time(file, f)),
         NEW y, Left(file, e, f, y), NEW r, r = NextSegment(y, FALSE)
  PROVE  NextGoes(file, e, f, r)
<1>1. /\ SameFilm(e, y) /\ y.segment = e.segment /\ y.current = e.current /\ y.image = e.image
      /\ Synced(file, y) /\ Has(y.cache, Time(file, f))
      /\ Time(file, f) = TipTime(y.cache) /\ ~y.decoder.ended => y.read = Time(file, f)
  BY DEF Left
<1>2. /\ Ready(file, y) /\ Cut(file, y.segments) /\ y.segment \in DOMAIN y.segments
      /\ y.segments = e.segments
  BY <1>1 DEF SameFilm, Ready, Synced, PlacedAt
<1>a. SegmentOrEnd(file, y, r)
  BY <1>2, NextSegmentIs
<1>3. IF y.segment = Len(y.segments) THEN r = Failed(y)
      ELSE y.segment + 1 \in DOMAIN y.segments /\ SegmentStart(file, y, r)
  BY <1>a DEF SegmentOrEnd
<1>4. CASE y.segment = Len(y.segments)
  <2>1. OnlyAnswered(file, y, r) /\ r.ok = FALSE
    BY <1>3, <1>4, FailedAnswered
  <2>2. /\ SameFilm(y, r) /\ r.segment = y.segment /\ r.current = y.current /\ r.image = y.image
        /\ Synced(file, r) /\ r.cache = y.cache /\ r.decoder = y.decoder /\ r.read = y.read
    BY <1>1, <2>1, StillFilm DEF OnlyAnswered
  <2>3. SameFilm(e, r) /\ r.segment = e.segment /\ r.current = e.current /\ r.image = e.image
    BY <1>1, <2>2 DEF SameFilm
  <2>4. PlacedAt(file, r, f)
    BY <1>1, <2>2, <2>3, Stays
  <2> QED BY <1>1, <1>2, <1>4, <2>1, <2>2, <2>3, <2>4 DEF NextGoes
<1>5. CASE y.segment # Len(y.segments)
  <2>1. e.segment + 1 \in DOMAIN e.segments /\ SegmentStart(file, y, r)
    BY <1>1, <1>2, <1>3, <1>5
  <2>2. SegmentStart(file, e, r)
    BY <1>1, <2>1 DEF SegmentStart, SameFilm
  <2>3. SameFilm(e, r) /\ Synced(file, r)
    BY <2>2 DEF SegmentStart
  <2> QED BY <2>1, <2>2, <2>3 DEF NextGoes
<1> QED BY <1>4, <1>5

\* Where the ring ends with the picture, the next one is decoded.
LEMMA DecodeOnGoes ==
  ASSUME NEW file, Known(file), NEW e, e.file = file, e.trusted = TRUE, Cut(file, e.segments),
         Synced(file, e), NEW f \in Good(file), PlacedAt(file, e, f),
         Time(file, f) = TipTime(e.cache),
         NEW r, r = DecodeOn(e, Time(file, f), FALSE)
  PROVE  NextGoes(file, e, f, r)
<1> DEFINE s == Segment(e)
           end == s.refStart + s.duration
           got == NextPictureInternal(e, TRUE, end)
<1>0. WellTimed(file) /\ Reordered(file) /\ Divided(file) /\ Reachable(file)
  BY DEF Known
<1>1. r = IF got.ok THEN Got(got, FALSE) ELSE SkipToKey(got, Time(file, f), FALSE)
  BY DEF DecodeOn, DecodedOn
<1>2. /\ e.segment \in DOMAIN e.segments /\ In(s, Time(file, f)) /\ Has(e.cache, Time(file, f))
      /\ e.decoder.ended \/ e.read = TipTime(e.cache)
  BY DEF PlacedAt
<1>3. /\ s.refStart \in Nat /\ s.duration \in Nat /\ end \in Nat /\ RefEnd(s) = end
      /\ Time(file, f) \in Nat /\ end # 0 /\ s.refStart <= Time(file, f)
      /\ s.refStart + s.duration = end
  <2>1. /\ s.refStart \in Nat /\ s.duration \in Nat /\ s.duration > 1
    BY <1>2, PartIs DEF Segment
  <2>2. Time(file, f) \in Nat
    BY <1>0, GoodTime
  <2> QED BY <1>2, <2>1, <2>2 DEF RefEnd, In
<1>4. got = NextPictureInternal(e, TRUE, end)
  OBVIOUS
<1> HIDE DEF s, end, got
<1>5. \/ got.ok = TRUE /\ NextFound(file, e, TRUE, end, got)
      \/ got.ok = FALSE /\ NextLost(file, e, end, got)
  <2>1. TRUE \in BOOLEAN /\ end \in Nat /\ (e.decoder.ended \/ e.read = TipTime(e.cache))
    BY <1>2, <1>3
  <2> QED BY <1>0, <1>4, <2>1, InternalReady
<1>6. CASE got.ok = TRUE /\ NextFound(file, e, TRUE, end, got)
  <2>1. Still(e, got) /\ Synced(file, got)
    BY <1>6 DEF NextFound
  <2>2. PICK g \in Good(file) :
          /\ After(file, TipTime(e.cache), g) /\ TipTime(got.cache) = Time(file, g)
          /\ end # 0 => Time(file, g) < end
          /\ got.image = Image(g, Time(file, g)) /\ got.read = Time(file, g)
    BY <1>6 DEF NextFound
  <2>3. /\ SameFilm(e, got) /\ got.segment = e.segment /\ Segment(got) = s
        /\ Cut(file, got.segments) /\ got.segment \in DOMAIN got.segments
    <3>1. SameFilm(e, got) /\ got.segment = e.segment
      BY <2>1, StillFilm
    <3> QED BY <1>2, <3>1 DEF SameFilm, Segment, s
  <2>4. In(Segment(got), Time(file, g))
    <3>1. Time(file, f) < Time(file, g) /\ Time(file, g) \in Nat
      BY <1>0, <2>2, GoodTime DEF After
    <3>2. s.refStart <= Time(file, g) /\ Time(file, g) < s.refStart + s.duration
      BY <1>3, <2>2, <3>1
    <3> QED BY <2>3, <3>2 DEF In
  <2>5. r = Deliver(got, Image(g, Time(file, g)))
    <3>1. r = Got(got, FALSE)
      BY <1>1, <1>6
    <3>2. Got(got, FALSE) = Deliver(got, Image(g, Time(file, g)))
      BY <1>0, <2>2, <2>3, <2>4, GotIs
    <3> QED BY <3>1, <3>2
  <2>6. Has(got.cache, Time(file, g))
    BY <1>0, <2>1, <2>2, NewestEntry DEF Synced
  <2>7. Displayed(file, got, g, r)
    BY <1>0, <2>1, <2>2, <2>3, <2>4, <2>5, <2>6, Delivered
  <2>8. /\ SameFilm(e, r) /\ r.segment = e.segment /\ r.ok = TRUE
        /\ Synced(file, r) /\ PlacedAt(file, r, g)
    BY <2>3, <2>7 DEF Displayed, SameFilm
  <2> QED BY <2>2, <2>8 DEF NextGoes
<1>7. CASE got.ok = FALSE /\ NextLost(file, e, end, got)
  <2>1. /\ Still(e, got) /\ got.image = e.image /\ got.read = e.read
        /\ Synced(file, got) /\ Has(got.cache, TipTime(e.cache))
    BY <1>7 DEF NextLost
  <2>2. /\ SameFilm(e, got) /\ got.segment = e.segment /\ got.current = e.current
        /\ Cut(file, got.segments) /\ got.segment \in DOMAIN got.segments
        /\ Segment(got) = s /\ got.file = file
    <3>1. SameFilm(e, got) /\ got.segment = e.segment /\ got.current = e.current
      BY <2>1, StillFilm
    <3> QED BY <1>2, <3>1 DEF SameFilm, Segment, s
  <2>3. Over(file, s, Time(file, f)) /\ (TipTime(got.cache) = Time(file, f) => got.decoder.ended)
    <3>1. CASE got.decoder.ended /\ Coming(file, TipTime(e.cache)) = {}
      BY <3>1 DEF Over, Coming
    <3>2. CASE /\ ~got.decoder.ended
               /\ \E g \in Good(file) :
                    /\ After(file, TipTime(e.cache), g) /\ TipTime(got.cache) = Time(file, g)
                    /\ end <= Time(file, g)
      <4>1. PICK g \in Good(file) :
              /\ After(file, TipTime(e.cache), g) /\ TipTime(got.cache) = Time(file, g)
              /\ end <= Time(file, g)
        BY <3>2
      <4>2. Time(file, g) \in Nat /\ Time(file, f) < Time(file, g)
        BY <1>0, <4>1, GoodTime DEF After
      <4>3. ASSUME NEW h \in Good(file), Time(file, f) < Time(file, h) PROVE end <= Time(file, h)
        <5>1. Time(file, g) <= Time(file, h) /\ Time(file, h) \in Nat
          BY <1>0, <4>1, <4>3, GoodTime DEF After
        <5> QED BY <1>3, <4>1, <4>2, <5>1
      <4> QED BY <1>3, <4>1, <4>2, <4>3 DEF Over
    <3> QED BY <1>7, <3>1, <3>2 DEF NextLost
  <2>4. SkipToKey(got, Time(file, f), FALSE) = NextSegment(got, FALSE)
    <3>1. Over(file, Segment(got), Time(file, f)) /\ Time(file, f) \in Nat
      BY <1>3, <2>2, <2>3
    <3> QED BY <1>0, <2>2, <3>1, SkipNever
  <2>5. r = NextSegment(got, FALSE)
    BY <1>1, <1>7, <2>4
  <2>6. Left(file, e, f, got)
    BY <2>1, <2>2, <2>3 DEF Left
  <2> QED BY <2>3, <2>5, <2>6, SegmentLeft DEF s
<1> QED BY <1>5, <1>6, <1>7

LEMMA NextPictureGoes ==
  ASSUME NEW file, Known(file), NEW e, e.file = file, e.trusted = TRUE, Cut(file, e.segments),
         Synced(file, e), NEW f \in Good(file), PlacedAt(file, e, f),
         NEW r, r = NextPicture(e, FALSE)
  PROVE  NextGoes(file, e, f, r)
<1> DEFINE s == Segment(e)
           pts == RefTime(e, e.current)
           cached == GetAfter(e.cache, pts)
<1>0. WellTimed(file)
  BY DEF Known
<1>1. /\ e.segment \in DOMAIN e.segments /\ In(s, Time(file, f)) /\ Has(e.cache, Time(file, f))
      /\ e.current = s.start + Time(file, f) - s.refStart
  BY DEF PlacedAt
<1>2. pts = Time(file, f) /\ Time(file, f) \in Nat
  BY <1>0, <1>1, Clock, GoodTime
<1>a. r = IF pts < 0 THEN Failed(e)
          ELSE IF cached = None THEN DecodeOn(e, pts, FALSE)
          ELSE IF cached.pts < s.refStart + s.duration
          THEN Got([e EXCEPT !.image = cached, !.read = cached.pts], FALSE)
          ELSE NextSegment(e, FALSE)
  BY DEF NextPicture
<1>3. r = IF cached = None THEN DecodeOn(e, Time(file, f), FALSE)
          ELSE IF cached.pts < s.refStart + s.duration
          THEN Got([e EXCEPT !.image = cached, !.read = cached.pts], FALSE)
          ELSE NextSegment(e, FALSE)
  <2> HIDE DEF pts, cached, s
  <2>1. ~(pts < 0)
    BY <1>2
  <2> QED BY <1>2, <1>a, <2>1
<1>4. cached = GetAfter(e.cache, Time(file, f))
  BY <1>2
<1>5. Ring(file, e.cache)
  BY DEF Synced
<1>6. /\ s.refStart \in Nat /\ s.duration \in Nat /\ s.refStart <= Time(file, f)
      /\ RefEnd(s) = s.refStart + s.duration
  <2>1. s.refStart \in Nat /\ s.duration \in Nat
    BY <1>1, PartIs DEF Segment
  <2> QED BY <1>1, <2>1 DEF In, RefEnd
<1> HIDE DEF s, pts, cached
<1>7. CASE Time(file, f) = TipTime(e.cache)
  <2>1. cached = None
    BY <1>0, <1>1, <1>4, <1>5, <1>7, AskAfter DEF None
  <2>2. r = DecodeOn(e, Time(file, f), FALSE)
    BY <1>3, <2>1
  <2> QED BY <1>7, <2>2, DecodeOnGoes
<1>8. CASE Time(file, f) # TipTime(e.cache)
  <2>1. cached # None /\ \E g \in Good(file) : /\ After(file, Time(file, f), g) /\ Has(e.cache, Time(file, g))
                                               /\ cached = Image(g, Time(file, g))
    BY <1>0, <1>1, <1>4, <1>5, <1>8, AskAfter DEF None
  <2>2. PICK g \in Good(file) : /\ After(file, Time(file, f), g) /\ Has(e.cache, Time(file, g))
                                /\ cached = Image(g, Time(file, g))
    BY <2>1
  <2>3. /\ Time(file, g) \in Nat /\ Time(file, f) < Time(file, g) /\ cached.pts = Time(file, g)
    BY <1>0, <2>2, GoodTime DEF After
  <2>4. CASE Time(file, g) < s.refStart + s.duration
    <3> DEFINE y == [e EXCEPT !.image = cached, !.read = cached.pts]
    <3>1. r = Got(y, FALSE)
      BY <1>3, <2>1, <2>3, <2>4
    <3>2. /\ SameFilm(e, y) /\ y.segment = e.segment /\ y.image = cached /\ y.read = Time(file, g)
          /\ y.cache = e.cache /\ y.decoder = e.decoder /\ y.sent = e.sent /\ y.eos = e.eos
          /\ y.decoded = e.decoded
      BY <2>3 DEF SameFilm
    <3> HIDE DEF y
    <3>3. /\ Segment(y) = s /\ Cut(file, y.segments) /\ y.segment \in DOMAIN y.segments
      BY <1>1, <3>2 DEF SameFilm, Segment, s
    <3>4. In(Segment(y), Time(file, g))
      BY <1>2, <1>6, <2>3, <2>4, <3>3 DEF In
    <3>5. Got(y, FALSE) = Deliver(y, Image(g, Time(file, g)))
      BY <1>0, <2>2, <3>2, <3>3, <3>4, GotIs
    <3>6. Synced(file, y)
      BY <3>2, SyncedSame
    <3>7. r = Deliver(y, Image(g, Time(file, g))) /\ Has(y.cache, Time(file, g))
      BY <2>2, <3>1, <3>2, <3>5
    <3>8. Displayed(file, y, g, r)
      BY <1>0, <3>2, <3>3, <3>4, <3>6, <3>7, Delivered
    <3>9. /\ SameFilm(e, r) /\ r.segment = e.segment /\ r.ok = TRUE
          /\ Synced(file, r) /\ PlacedAt(file, r, g)
      BY <3>2, <3>8 DEF Displayed, SameFilm
    <3> QED BY <2>2, <3>9 DEF NextGoes
  <2>5. CASE ~(Time(file, g) < s.refStart + s.duration)
    <3>1. r = NextSegment(e, FALSE)
      BY <1>3, <2>1, <2>3, <2>5
    <3>2. Over(file, s, Time(file, f))
      <4>1. ASSUME NEW h \in Good(file), Time(file, f) < Time(file, h) PROVE RefEnd(s) <= Time(file, h)
        <5>1. Time(file, g) <= Time(file, h) /\ Time(file, h) \in Nat
          BY <1>0, <2>2, <4>1, GoodTime DEF After
        <5> QED BY <1>6, <2>3, <2>5, <5>1
      <4> QED BY <4>1 DEF Over
    <3>3. Left(file, e, f, e)
      BY <1>1, <1>8 DEF Left, SameFilm
    <3> QED BY <3>1, <3>2, <3>3, SegmentLeft DEF s
  <2> QED BY <2>4, <2>5
<1> QED BY <1>7, <1>8

-----------------------------------------------------------------------------
(* From the key picture on, within a segment                               *)

\* At the end of the file nothing is decoded any more.
LEMMA InternalEnded ==
  ASSUME NEW file, NEW e, Synced(file, e), e.decoder.ended, NEW copy, NEW end,
         NEW r, r = NextPictureInternal(e, copy, end)
  PROVE  OnlyAnswered(file, e, r) /\ r.ok = FALSE
<1>0. Loops \in Nat
  BY RenderAssumption DEF RenderAssumption
<1>1. PICK loop :
        /\ r = (IF loop[Loops].at = "found" THEN Done(loop[Loops].e) ELSE Failed(loop[Loops].e))
        /\ loop[0] = Start(e)
        /\ \A n \in 1..Loops : loop[n] = NextRound(loop[n - 1], copy, end)
  BY NextLoop
<1> DEFINE P(n) == loop[n].at # "found" /\ OnlyAnswered(file, e, loop[n].e)
           S == {n \in 0..Loops : P(n)}
<1>2. P(0)
  <2>1. loop[0].at = "on" /\ loop[0].e = e
    BY <1>1 DEF Start
  <2>2. OnlyAnswered(file, e, e)
    BY DEF OnlyAnswered, Still
  <2> QED BY <2>1, <2>2
<1>3. ASSUME NEW n \in 0..Loops - 1, P(n) PROVE P(n + 1)
  <2> DEFINE x == loop[n]
             next == DecodeNextPicture(x.e)
  <2>1. loop[n + 1] = NextRound(x, copy, end)
    <3>1. n + 1 \in 1..Loops /\ (n + 1) - 1 = n
      BY <1>0
    <3> QED BY <1>1, <3>1
  <2>2. OnlyAnswered(file, e, x.e) /\ x.at # "found"
    BY <1>3
  <2> HIDE DEF x
  <2>3. next = Failed(x.e)
    BY <2>2 DEF DecodeNextPicture, OnlyAnswered
  <2> HIDE DEF next
  <2>4. OnlyAnswered(file, x.e, next) /\ next.ok = FALSE
    BY <2>3, FailedAnswered
  <2>5. OnlyAnswered(file, e, next)
    BY <2>2, <2>4 DEF OnlyAnswered, Still
  <2>6. \/ loop[n + 1] = x
        \/ loop[n + 1] = [x EXCEPT !.at = "lost"]
        \/ loop[n + 1] = [x EXCEPT !.e = next]
    BY <2>1, <2>4 DEF NextRound, next
  <2>7. loop[n + 1].at # "found" /\ loop[n + 1].e \in {x.e, next}
    <3> DEFINE z == loop[n + 1]
    <3>1. \/ z = x
          \/ z = [x EXCEPT !.at = "lost"]
          \/ z = [x EXCEPT !.e = next]
      BY <2>6
    <3> HIDE DEF z
    <3>2. CASE z = x
      BY <2>2, <3>2 DEF z
    <3>3. CASE z = [x EXCEPT !.at = "lost"]
      <4>1. z.at = "lost" /\ z.e = x.e
        BY <3>3
      <4> QED BY <4>1 DEF z
    <3>4. CASE z = [x EXCEPT !.e = next]
      <4>1. z.at = x.at /\ z.e = next
        BY <3>4
      <4> QED BY <2>2, <4>1 DEF z
    <3> QED BY <3>1, <3>2, <3>3, <3>4
  <2> QED BY <2>2, <2>5, <2>7
<1>4. P(Loops)
  <2>1. 0 \in S
    BY <1>0, <1>2
  <2>2. ASSUME NEW m \in 0..Loops - 1, m \in S PROVE m + 1 \in S
    <3>1. m + 1 \in 0..Loops
      BY <1>0
    <3> HIDE DEF P
    <3> QED BY <1>3, <2>2, <3>1
  <2>3. \A m \in 0..Loops : m \in S
    <3> HIDE DEF S
    <3> QED BY <1>0, <2>1, <2>2, Induct
  <2>4. Loops \in S
    BY <1>0, <2>3
  <2> QED BY <2>4
<1> DEFINE y == loop[Loops].e
<1>5. r = Failed(y) /\ OnlyAnswered(file, e, y)
  BY <1>1, <1>4
<1> HIDE DEF y
<1>6. OnlyAnswered(file, y, r) /\ r.ok = FALSE
  BY <1>5, FailedAnswered
<1> QED BY <1>5, <1>6 DEF OnlyAnswered, Still

\* Times of the film grow with those of the file, but for those before the film.
LEMMA Linear ==
  ASSUME NEW file, NEW e, Cut(file, e.segments), e.segment \in DOMAIN e.segments,
         NEW u \in Nat, u < RefEnd(Segment(e))
  PROVE  /\ LinearTime(e, u) \in Nat /\ LinearTime(e, u) < EndOf(Segment(e))
         /\ u <= RefTime(e, LinearTime(e, u)) /\ RefTime(e, LinearTime(e, u)) \in Int
         /\ \A v \in Nat : /\ u < v
                           /\ 0 < Segment(e).start + v - Segment(e).refStart
                           => LinearTime(e, u) < Segment(e).start + v - Segment(e).refStart
<1> DEFINE s == Segment(e)
           t == LinearTime(e, u)
<1>1. /\ s.refStart \in Nat /\ s.duration \in Nat /\ s.start \in Nat /\ s.duration > 1
      /\ EndOf(s) = s.start + s.duration /\ RefEnd(s) = s.refStart + s.duration
  BY PartIs DEF Segment
<1>2. t = IF u - s.refStart + s.start < 0 THEN 0 ELSE u - s.refStart + s.start
  BY DEF LinearTime
<1>3. RefTime(e, t) = s.refStart + t - s.start
  BY DEF RefTime
<1>4. u < RefEnd(s)
  OBVIOUS
<1> HIDE DEF s, t
<1>5. t \in Nat /\ t < EndOf(s) /\ u <= s.refStart + t - s.start /\ s.refStart + t - s.start \in Int
  BY <1>1, <1>2, <1>4
<1>6. ASSUME NEW v \in Nat, u < v, 0 < s.start + v - s.refStart PROVE t < s.start + v - s.refStart
  BY <1>1, <1>2, <1>6
<1> QED BY <1>3, <1>5, <1>6 DEF s, t

\* An image that was found before the end of the segment becomes the position.
MovedTo(file, y, g, r) ==
  /\ SameFilm(y, r) /\ r.segment = y.segment /\ r.ok = TRUE /\ Synced(file, r)
  /\ r.cache = y.cache /\ r.decoder = y.decoder /\ r.read = y.read
  /\ r.current = LinearTime(y, Time(file, g)) /\ r.image.pts = r.current

LEMMA GotOn ==
  ASSUME NEW file, WellTimed(file), NEW y, Cut(file, y.segments), Synced(file, y),
         y.segment \in DOMAIN y.segments, NEW g \in Good(file),
         Time(file, g) < RefEnd(Segment(y)), y.image = Image(g, Time(file, g)), NEW within,
         NEW r, r = Got(y, within)
  PROVE  MovedTo(file, y, g, r)
<1> DEFINE t == LinearTime(y, Time(file, g))
<1>1. Time(file, g) \in Nat /\ y.image.pts = Time(file, g) /\ y.image.pic = g + 1
  BY GoodTime DEF Image
<1>2. t \in Nat /\ t < EndOf(Segment(y))
  BY <1>1, Linear
<1>3. EndOf(Segment(y)) \in Nat
  BY PartIs DEF Segment
<1>4. r = IF t >= EndOf(Segment(y)) THEN NextSegment([y EXCEPT !.image.pts = t], within)
          ELSE Deliver(y, y.image)
  BY <1>1 DEF Got
<1>5. Deliver(y, y.image) = [y EXCEPT !.image = [pts |-> t, pic |-> g + 1], !.current = t, !.ok = TRUE]
  BY <1>1 DEF Deliver
<1> HIDE DEF t
<1>6. r = [y EXCEPT !.image = [pts |-> t, pic |-> g + 1], !.current = t, !.ok = TRUE]
  BY <1>2, <1>3, <1>4, <1>5
<1>7. /\ SameFilm(y, r) /\ r.segment = y.segment /\ r.ok = TRUE
      /\ r.cache = y.cache /\ r.decoder = y.decoder /\ r.read = y.read
      /\ r.sent = y.sent /\ r.eos = y.eos /\ r.decoded = y.decoded
      /\ r.current = t /\ r.image.pts = t
  BY <1>6 DEF SameFilm
<1>8. Synced(file, r)
  BY <1>7, SyncedSame
<1> QED BY <1>7, <1>8 DEF t, MovedTo

\* What nextPicture does where the ring has no picture after the position.
LEMMA NextAsked ==
  ASSUME NEW file, WellTimed(file), NEW y, Ring(file, y.cache), NEW q, q = RefTime(y, y.current),
         q \in Nat, Has(y.cache, q) => q = TipTime(y.cache)
  PROVE  NextPicture(y, TRUE) = DecodeOn(y, q, TRUE)
<1>1. GetAfter(y.cache, q) = None
  <2>1. CASE Has(y.cache, q)
    BY <2>1, AskAfter DEF None
  <2>2. CASE ~Has(y.cache, q)
    BY <2>2, SearchAfterNone DEF None
  <2> QED BY <2>1, <2>2
<1>2. ~(q < 0)
  OBVIOUS
<1> QED BY <1>1, <1>2 DEF NextPicture

\* Playing has come to a picture.
ReachFound(file, e, f, y) ==
  /\ SameFilm(e, y) /\ y.segment = e.segment /\ Synced(file, y)
  /\ TipTime(y.cache) = Time(file, f) /\ Oldest(y.cache) < Time(file, f)

\* It is on the way to it, and the ring ends with the picture read last.
ReachOn(file, e, f, n, y) ==
  /\ SameFilm(e, y) /\ y.segment = e.segment /\ Synced(file, y)
  /\ y.read = TipTime(y.cache) /\ TipTime(y.cache) < Time(file, f)
  /\ RefTime(y, y.current) \in Int /\ TipTime(y.cache) <= RefTime(y, y.current)
  /\ n <= Cardinality(Upto(file, TipTime(y.cache)))

ReachStep(file, e, f, n, z) ==
  \/ z.at = "on" /\ ReachOn(file, e, f, n, z.e)
  \/ z.at = "yes" /\ ReachFound(file, e, f, z.e)

LEMMA ReachRoundOn ==
  ASSUME NEW file, Known(file), NEW e, e.file = file, e.trusted = TRUE, Cut(file, e.segments),
         e.segment \in DOMAIN e.segments, NEW f \in Good(file), In(Segment(e), Time(file, f)),
         0 < When(file, Segment(e), f),
         NEW n \in Nat, NEW x, x.at = "on", ReachOn(file, e, f, n, x.e),
         NEW z, z = PlayRound(x, When(file, Segment(e), f))
  PROVE  ReachStep(file, e, f, n + 1, z)
<1> DEFINE y == x.e
           s == Segment(e)
           t == When(file, s, f)
           q == RefTime(y, y.current)
           end == Segment(y).refStart + Segment(y).duration
           got == NextPictureInternal(y, TRUE, end)
           next == NextPicture(y, TRUE)
<1>0. WellTimed(file) /\ Reordered(file) /\ Reachable(file)
  BY DEF Known
<1>1. /\ SameFilm(e, y) /\ y.segment = e.segment /\ Synced(file, y) /\ Ring(file, y.cache)
      /\ y.read = TipTime(y.cache) /\ TipTime(y.cache) < Time(file, f)
      /\ q \in Int /\ TipTime(y.cache) <= q
      /\ n <= Cardinality(Upto(file, TipTime(y.cache)))
  BY DEF ReachOn, Synced
<1>2. /\ y.file = file /\ y.trusted = TRUE /\ Cut(file, y.segments) /\ y.segment \in DOMAIN y.segments
      /\ Segment(y) = s
  BY <1>1 DEF SameFilm, Segment
<1>3. z = IF ~next.ok THEN [x EXCEPT !.e = next, !.at = "elsewhere"]
          ELSE [x EXCEPT !.e = next,
                         !.at = IF next.segment = y.segment /\ next.image.pts < t THEN "on"
                                ELSE IF next.image.pts = t THEN "yes" ELSE "elsewhere"]
  BY DEF PlayRound
<1>4. /\ s.refStart \in Nat /\ s.duration \in Nat /\ end \in Nat /\ end # 0 /\ RefEnd(s) = end
      /\ Time(file, f) \in Nat /\ Time(file, f) < end /\ TipTime(y.cache) \in Nat
      /\ t = s.start + Time(file, f) - s.refStart
  <2>1. /\ s.refStart \in Nat /\ s.duration \in Nat /\ s.duration > 1
    BY PartIs DEF Segment
  <2>2. Time(file, f) \in Nat /\ TipTime(y.cache) \in Nat
    BY <1>0, <1>1, GoodTime, NewestEntry DEF Synced
  <2>3. end = s.refStart + s.duration
    BY <1>2
  <2> QED BY <2>1, <2>2, <2>3 DEF RefEnd, In, When
<1>5. got = NextPictureInternal(y, TRUE, end) /\ next = NextPicture(y, TRUE)
  OBVIOUS
<1>6. q = RefTime(y, y.current)
  OBVIOUS
<1>7. DecodeOn(y, q, TRUE) = IF got.ok THEN Got(got, TRUE) ELSE Failed(got)
  BY DEF DecodeOn, DecodedOn
<1> HIDE DEF y, s, t, q, end, got, next
<1>8. next = DecodeOn(y, q, TRUE)
  <2>1. Has(y.cache, q) => q = TipTime(y.cache)
    <3>1. Has(y.cache, q) => q <= TipTime(y.cache)
      BY <1>0, <1>1, Member
    <3> QED BY <1>1, <1>4, <3>1
  <2>2. q \in Nat
    BY <1>1, <1>4
  <2> QED BY <1>0, <1>1, <1>5, <1>6, <2>1, <2>2, NextAsked
<1>9. \/ got.ok = TRUE /\ NextFound(file, y, TRUE, end, got)
      \/ got.ok = FALSE /\ NextLost(file, y, end, got)
  <2>1. TRUE \in BOOLEAN /\ end \in Nat /\ (y.decoder.ended \/ y.read = TipTime(y.cache))
    BY <1>1, <1>4
  <2> QED BY <1>0, <1>1, <1>2, <1>5, <2>1, InternalReady
<1>10. ~NextLost(file, y, end, got)
  <2>1. f \in Coming(file, TipTime(y.cache))
    BY <1>1 DEF Coming
  <2>2. SUFFICES ASSUME NEW g \in Good(file), After(file, TipTime(y.cache), g), end <= Time(file, g)
                 PROVE  FALSE
    BY <2>1 DEF NextLost
  <2>3. Time(file, g) <= Time(file, f) /\ Time(file, g) \in Nat
    BY <1>0, <1>1, <2>2, GoodTime DEF After
  <2> QED BY <1>4, <2>2, <2>3
<1>11. got.ok = TRUE /\ NextFound(file, y, TRUE, end, got)
  BY <1>9, <1>10
<1>12. Still(y, got) /\ Synced(file, got)
  BY <1>11 DEF NextFound
<1>13. PICK g \in Good(file) :
         /\ After(file, TipTime(y.cache), g) /\ TipTime(got.cache) = Time(file, g)
         /\ Oldest(got.cache) < Time(file, g)
         /\ got.image = Image(g, Time(file, g)) /\ got.read = Time(file, g)
  BY <1>11 DEF NextFound
<1>14. Time(file, g) \in Nat /\ Time(file, g) <= Time(file, f) /\ Time(file, g) < end
       /\ TipTime(y.cache) < Time(file, g)
  <2>1. Time(file, g) \in Nat /\ Time(file, g) <= Time(file, f) /\ TipTime(y.cache) < Time(file, g)
    BY <1>0, <1>1, <1>13, GoodTime DEF After
  <2> QED BY <1>4, <2>1
<1>15. /\ SameFilm(y, got) /\ got.segment = y.segment /\ Cut(file, got.segments)
       /\ got.segment \in DOMAIN got.segments /\ Segment(got) = s
  <2>1. SameFilm(y, got) /\ got.segment = y.segment
    BY <1>12, StillFilm
  <2> QED BY <1>2, <2>1 DEF SameFilm, Segment
<1>16. next = Got(got, TRUE)
  BY <1>7, <1>8, <1>11
<1> DEFINE u == LinearTime(got, Time(file, g))
<1>17. /\ SameFilm(got, next) /\ next.segment = got.segment /\ next.ok = TRUE /\ Synced(file, next)
       /\ next.cache = got.cache /\ next.read = got.read
       /\ next.current = u /\ next.image.pts = u
  <2>1. Time(file, g) < RefEnd(Segment(got))
    BY <1>4, <1>14, <1>15
  <2>2. MovedTo(file, got, g, next)
    BY <1>0, <1>12, <1>13, <1>15, <1>16, <2>1, GotOn
  <2> QED BY <2>2 DEF MovedTo
<1>18. /\ u \in Nat /\ Time(file, g) <= RefTime(got, u) /\ RefTime(got, u) \in Int
       /\ Time(file, g) < Time(file, f) => u < t
  <2>1. Time(file, g) < RefEnd(Segment(got))
    BY <1>4, <1>14, <1>15
  <2>2. 0 < t
    BY DEF t, s
  <2>3. /\ u \in Nat /\ Time(file, g) <= RefTime(got, u) /\ RefTime(got, u) \in Int
        /\ \A v \in Nat : /\ Time(file, g) < v
                          /\ 0 < Segment(got).start + v - Segment(got).refStart
                          => u < Segment(got).start + v - Segment(got).refStart
    BY <1>14, <1>15, <2>1, Linear
  <2> QED BY <1>4, <1>15, <2>2, <2>3
<1>19. SameFilm(e, next) /\ next.segment = e.segment /\ next.segment = y.segment
  BY <1>1, <1>15, <1>17 DEF SameFilm
<1>20. CASE g = f
  <2>1. u = t
    <3>1. In(Segment(got), Time(file, f)) /\ t = Segment(got).start + Time(file, f) - Segment(got).refStart
      BY <1>4, <1>15 DEF s
    <3> QED BY <1>0, <1>15, <1>20, <3>1, Clock
  <2>2. z.e = next /\ z.at = "yes"
    <3>1. ~(u < t)
      BY <1>18, <2>1
    <3> HIDE DEF u
    <3> QED BY <1>3, <1>17, <2>1, <3>1
  <2>3. ReachFound(file, e, f, next)
    BY <1>13, <1>17, <1>19, <1>20 DEF ReachFound
  <2> QED BY <2>2, <2>3 DEF ReachStep
<1>21. CASE g # f
  <2>1. Time(file, g) < Time(file, f)
    <3>1. Time(file, g) # Time(file, f)
      BY <1>0, <1>21, GoodTime
    <3> QED BY <1>4, <1>14, <3>1
  <2>2. z.e = next /\ z.at = "on"
    <3> HIDE DEF u
    <3> QED BY <1>3, <1>17, <1>18, <1>19, <2>1
  <2>3. n + 1 <= Cardinality(Upto(file, TipTime(next.cache)))
    <3>1. Cardinality(Upto(file, TipTime(y.cache))) + 1 <= Cardinality(Upto(file, Time(file, g)))
      BY <1>0, <1>4, <1>14, UptoNext
    <3>2. /\ Cardinality(Upto(file, TipTime(y.cache))) \in Nat
          /\ Cardinality(Upto(file, Time(file, g))) \in Nat
      BY <1>0, UptoFinite
    <3>3. n + 1 <= Cardinality(Upto(file, Time(file, g)))
      BY <1>1, <3>1, <3>2
    <3> QED BY <1>13, <1>17, <3>3
  <2>4. RefTime(next, next.current) \in Int /\ TipTime(next.cache) <= RefTime(next, next.current)
    <3>1. RefTime(next, u) = RefTime(got, u)
      BY <1>17, SegmentSame
    <3> QED BY <1>13, <1>17, <1>18, <3>1
  <2>5. ReachOn(file, e, f, n + 1, next)
    BY <1>13, <1>17, <1>19, <2>1, <2>3, <2>4 DEF ReachOn
  <2> QED BY <2>2, <2>5 DEF ReachStep
<1> QED BY <1>20, <1>21

LEMMA PlayReaches ==
  ASSUME NEW file, Known(file), NEW e, e.file = file, e.trusted = TRUE, Cut(file, e.segments),
         e.segment \in DOMAIN e.segments, NEW f \in Good(file), In(Segment(e), Time(file, f)),
         0 < When(file, Segment(e), f), Synced(file, e),
         e.read = TipTime(e.cache), TipTime(e.cache) < Time(file, f),
         RefTime(e, e.current) \in Int, TipTime(e.cache) <= RefTime(e, e.current),
         NEW till, till = PlayUpTo(e, When(file, Segment(e), f))
  PROVE  till.answer = "yes" /\ ReachFound(file, e, f, till.e)
<1> DEFINE E == Enough(e)
           t == When(file, Segment(e), f)
<1>0. E \in Nat /\ Len(file) < E /\ Len(file) \in Nat /\ WellTimed(file)
  <2>1. WellTimed(file)
    BY DEF Known
  <2> QED BY <2>1, EnoughIs, GoodFinite
<1>1. PICK loop :
        /\ till = [e |-> loop[E].e, answer |-> loop[E].at]
        /\ loop[0] = Start(e)
        /\ \A n \in 1..E : loop[n] = PlayRound(loop[n - 1], t)
  BY <1>0, PlayLoop
<1>2. t = When(file, Segment(e), f)
  OBVIOUS
<1> HIDE DEF E, t
<1> DEFINE P(n) == ReachStep(file, e, f, n, loop[n])
           S == {n \in 0..E : P(n)}
<1>3. P(0)
  <2>1. loop[0].at = "on" /\ loop[0].e = e
    BY <1>1 DEF Start
  <2>2. 0 <= Cardinality(Upto(file, TipTime(e.cache)))
    <3>1. Cardinality(Upto(file, TipTime(e.cache))) \in Nat
      BY <1>0, UptoFinite
    <3> QED BY <3>1
  <2>3. ReachOn(file, e, f, 0, e)
    BY <2>2 DEF ReachOn, SameFilm
  <2> QED BY <2>1, <2>3 DEF ReachStep
<1>4. ASSUME NEW n \in 0..E - 1, P(n) PROVE P(n + 1)
  <2>1. loop[n + 1] = PlayRound(loop[n], t)
    <3>1. n + 1 \in 1..E /\ (n + 1) - 1 = n
      BY <1>0
    <3> QED BY <1>1, <3>1
  <2>2. CASE loop[n].at = "on" /\ ReachOn(file, e, f, n, loop[n].e)
    <3>1. n \in Nat
      BY <1>0
    <3> QED BY <1>2, <2>1, <2>2, <3>1, ReachRoundOn
  <2>3. CASE loop[n].at = "yes" /\ ReachFound(file, e, f, loop[n].e)
    <3>1. loop[n + 1] = loop[n]
      BY <2>1, <2>3 DEF PlayRound
    <3> QED BY <2>3, <3>1 DEF ReachStep
  <2> QED BY <1>4, <2>2, <2>3 DEF ReachStep
<1>5. P(E)
  <2>1. 0 \in S
    BY <1>0, <1>3
  <2>2. ASSUME NEW m \in 0..E - 1, m \in S PROVE m + 1 \in S
    <3>1. m + 1 \in 0..E
      BY <1>0
    <3> HIDE DEF P
    <3> QED BY <1>4, <2>2, <3>1
  <2>3. \A m \in 0..E : m \in S
    <3> HIDE DEF S
    <3> QED BY <1>0, <2>1, <2>2, Induct
  <2>4. E \in S
    BY <1>0, <2>3
  <2> QED BY <2>4
<1> DEFINE y == loop[E].e
<1>6. loop[E].at = "yes" /\ ReachFound(file, e, f, y)
  <2>1. SUFFICES ASSUME ReachOn(file, e, f, E, y) PROVE FALSE
    BY <1>5 DEF ReachStep
  <2> HIDE DEF y
  <2>2. E <= Cardinality(Upto(file, TipTime(y.cache)))
    BY <2>1 DEF ReachOn
  <2>3. /\ Cardinality(Upto(file, TipTime(y.cache))) \in Nat
        /\ Cardinality(Upto(file, TipTime(y.cache))) <= Len(file)
    BY <1>0, UptoFinite
  <2> QED BY <1>0, <2>2, <2>3
<1> QED BY <1>1, <1>6

\* Playing has come to the end of the segment, or of the file.
EndsFound(file, e, y) ==
  /\ SameFilm(e, y) /\ y.segment = e.segment /\ Synced(file, y)
  /\ \E u \in Nat : Has(y.cache, u) /\ u < RefEnd(Segment(e))
  /\ RefEnd(Segment(e)) <= TipTime(y.cache) \/ y.decoder.ended

(* It is on the way to it.  The picture read last is in the ring, and will *)
(* be when one more is decoded, if one is.                                 *)
Kept(y) ==
  LET q == RefTime(y, y.current) IN
    \/ y.decoder.ended
    \/ ~(Full(y.cache) /\ y.read = Oldest(y.cache))
    \/ Has(y.cache, q) /\ q # TipTime(y.cache)

EndsOn(file, e, n, y) ==
  /\ SameFilm(e, y) /\ y.segment = e.segment /\ Synced(file, y)
  /\ Has(y.cache, y.read) /\ y.read < RefEnd(Segment(e))
  /\ RefTime(y, y.current) \in Int /\ y.read <= RefTime(y, y.current)
  /\ Kept(y) /\ n <= Cardinality(Upto(file, y.read))

EndsStep(file, e, n, z) ==
  \/ z.at = "on" /\ EndsOn(file, e, n, z.e)
  \/ z.at = "elsewhere" /\ EndsFound(file, e, z.e)

LEMMA EndsNext ==
  ASSUME NEW file, WellTimed(file), NEW e, Cut(file, e.segments), e.segment \in DOMAIN e.segments,
         NEW got, SameFilm(e, got), got.segment = e.segment, NEW g \in Good(file),
         Time(file, g) < RefEnd(Segment(e)), got.read = Time(file, g),
         Has(got.cache, Time(file, g)), Oldest(got.cache) < Time(file, g),
         NEW next, MovedTo(file, got, g, next),
         NEW u \in Nat, u < Time(file, g), NEW n \in Nat, n <= Cardinality(Upto(file, u))
  PROVE  EndsOn(file, e, n + 1, next) /\ next.image.pts < EndOf(Segment(e)) /\ next.ok = TRUE
<1>1. /\ SameFilm(got, next) /\ next.segment = got.segment /\ next.ok = TRUE /\ Synced(file, next)
      /\ next.cache = got.cache /\ next.decoder = got.decoder /\ next.read = got.read
      /\ next.current = LinearTime(got, Time(file, g)) /\ next.image.pts = next.current
  BY DEF MovedTo
<1>2. Time(file, g) \in Nat /\ Oldest(got.cache) \in Nat
  <2>1. Ring(file, got.cache)
    BY <1>1 DEF Synced
  <2> QED BY <2>1, GoodTime, Member
<1>3. /\ Segment(got) = Segment(e) /\ Cut(file, got.segments) /\ got.segment \in DOMAIN got.segments
  BY DEF SameFilm, Segment
<1>4. /\ next.current \in Nat /\ next.current < EndOf(Segment(e))
      /\ Time(file, g) <= RefTime(got, next.current) /\ RefTime(got, next.current) \in Int
  BY <1>1, <1>2, <1>3, Linear
<1>5. RefTime(next, next.current) = RefTime(got, next.current)
  BY <1>1, SegmentSame
<1>6. n + 1 <= Cardinality(Upto(file, Time(file, g)))
  <2>1. Cardinality(Upto(file, u)) + 1 <= Cardinality(Upto(file, Time(file, g)))
    BY UptoNext
  <2>2. Cardinality(Upto(file, u)) \in Nat /\ Cardinality(Upto(file, Time(file, g))) \in Nat
    BY UptoFinite
  <2> QED BY <2>1, <2>2
<1>7. Kept(next)
  <2>1. next.read # Oldest(next.cache)
    BY <1>1, <1>2
  <2> QED BY <2>1 DEF Kept
<1>8. SameFilm(e, next) /\ next.segment = e.segment
  BY <1>1 DEF SameFilm
<1>9. Has(next.cache, next.read) /\ next.read = Time(file, g)
  BY <1>1
<1>10. EndsOn(file, e, n + 1, next)
  BY <1>1, <1>4, <1>5, <1>6, <1>7, <1>8, <1>9 DEF EndsOn
<1> QED BY <1>1, <1>4, <1>10

LEMMA EndsRoundOn ==
  ASSUME NEW file, Known(file), NEW e, e.file = file, e.trusted = TRUE, Cut(file, e.segments),
         e.segment \in DOMAIN e.segments,
         NEW n \in Nat, NEW x, x.at = "on", EndsOn(file, e, n, x.e),
         NEW z, z = PlayRound(x, EndOf(Segment(e)))
  PROVE  EndsStep(file, e, n + 1, z)
<1> DEFINE y == x.e
           s == Segment(e)
           t == EndOf(s)
           q == RefTime(y, y.current)
           end == Segment(y).refStart + Segment(y).duration
           got == NextPictureInternal(y, TRUE, end)
           next == NextPicture(y, TRUE)
           cached == GetAfter(y.cache, q)
<1>0. WellTimed(file) /\ Reordered(file) /\ Reachable(file)
  BY DEF Known
<1>1. /\ SameFilm(e, y) /\ y.segment = e.segment /\ Synced(file, y) /\ Ring(file, y.cache)
      /\ Used(y.cache) /\ Has(y.cache, y.read) /\ y.read < RefEnd(s)
      /\ q \in Int /\ y.read <= q
      /\ y.decoder.ended \/ ~(Full(y.cache) /\ y.read = Oldest(y.cache))
           \/ (Has(y.cache, q) /\ q # TipTime(y.cache))
      /\ n <= Cardinality(Upto(file, y.read))
  BY DEF EndsOn, Synced, Kept
<1>2. /\ y.file = file /\ y.trusted = TRUE /\ Cut(file, y.segments) /\ y.segment \in DOMAIN y.segments
      /\ Segment(y) = s
  BY <1>1 DEF SameFilm, Segment
<1>3. z = IF ~next.ok THEN [x EXCEPT !.e = next, !.at = "elsewhere"]
          ELSE [x EXCEPT !.e = next,
                         !.at = IF next.segment = y.segment /\ next.image.pts < t THEN "on"
                                ELSE IF next.image.pts = t THEN "yes" ELSE "elsewhere"]
  BY DEF PlayRound
<1>4. /\ end \in Nat /\ end # 0 /\ RefEnd(s) = end /\ TipTime(y.cache) \in Nat
      /\ y.read \in Nat /\ y.read <= TipTime(y.cache) /\ q \in Nat
  <2>1. /\ s.refStart \in Nat /\ s.duration \in Nat /\ s.duration > 1
    BY PartIs DEF Segment
  <2>2. TipTime(y.cache) \in Nat /\ y.read \in Nat /\ y.read <= TipTime(y.cache)
    BY <1>0, <1>1, Member
  <2>3. end = s.refStart + s.duration
    BY <1>2
  <2> QED BY <1>1, <2>1, <2>2, <2>3 DEF RefEnd
<1>5. /\ got = NextPictureInternal(y, TRUE, end) /\ next = NextPicture(y, TRUE)
      /\ q = RefTime(y, y.current) /\ cached = GetAfter(y.cache, q)
  OBVIOUS
<1>6. DecodeOn(y, q, TRUE) = IF got.ok THEN Got(got, TRUE) ELSE Failed(got)
  BY DEF DecodeOn, DecodedOn
<1>7. next = IF q < 0 THEN Failed(y)
             ELSE IF cached = None THEN DecodeOn(y, q, TRUE)
             ELSE IF cached.pts < end THEN Got([y EXCEPT !.image = cached, !.read = cached.pts], TRUE)
             ELSE NextSegment(y, TRUE)
  BY DEF NextPicture
<1> HIDE DEF y, s, t, q, end, got, next, cached
<1>8. ASSUME NEW a, SameFilm(e, a), a.segment = e.segment, NEW g \in Good(file),
             Time(file, g) < end, a.read = Time(file, g), a.image = Image(g, Time(file, g)),
             Has(a.cache, Time(file, g)), Oldest(a.cache) < Time(file, g), Synced(file, a),
             y.read < Time(file, g), next = Got(a, TRUE)
      PROVE  EndsStep(file, e, n + 1, z)
  <2>1. /\ Segment(a) = s /\ Cut(file, a.segments) /\ a.segment \in DOMAIN a.segments
    BY <1>8 DEF SameFilm, Segment, s
  <2>2. Time(file, g) < RefEnd(Segment(a))
    BY <1>4, <1>8, <2>1
  <2>3. MovedTo(file, a, g, next)
    BY <1>0, <1>8, <2>1, <2>2, GotOn
  <2>4. Time(file, g) < RefEnd(Segment(e))
    BY <1>4, <1>8 DEF s
  <2>5. EndsOn(file, e, n + 1, next) /\ next.image.pts < EndOf(Segment(e)) /\ next.ok = TRUE
    BY <1>0, <1>1, <1>4, <1>8, <2>3, <2>4, EndsNext
  <2>6. next.segment = y.segment
    BY <1>1, <2>5 DEF EndsOn
  <2>7. z.e = next /\ z.at = "on"
    BY <1>3, <2>5, <2>6 DEF t, s
  <2> QED BY <2>5, <2>7 DEF EndsStep
<1>9. ASSUME NEW a, SameFilm(y, a), a.segment = y.segment, Synced(file, a),
             NEW u \in Nat, Has(a.cache, u), u < end, end <= TipTime(a.cache) \/ a.decoder.ended,
             next = Failed(a)
      PROVE  EndsStep(file, e, n + 1, z)
  <2>1. OnlyAnswered(file, a, next) /\ next.ok = FALSE
    BY <1>9, FailedAnswered
  <2>2. /\ SameFilm(a, next) /\ next.segment = a.segment /\ next.cache = a.cache
        /\ next.decoder = a.decoder /\ Synced(file, next)
    BY <1>9, <2>1, StillFilm DEF OnlyAnswered
  <2>3. SameFilm(e, next) /\ next.segment = e.segment
    BY <1>1, <1>9, <2>2 DEF SameFilm
  <2>4. EndsFound(file, e, next)
    <3>1. RefEnd(Segment(e)) = end
      BY <1>4 DEF s
    <3>2. Has(next.cache, u) /\ u < RefEnd(Segment(e))
      BY <1>9, <2>2, <3>1
    <3>3. RefEnd(Segment(e)) <= TipTime(next.cache) \/ next.decoder.ended
      BY <1>9, <2>2, <3>1
    <3> QED BY <2>2, <2>3, <3>2, <3>3 DEF EndsFound
  <2>5. z.e = next /\ z.at = "elsewhere"
    BY <1>3, <2>1
  <2> QED BY <2>4, <2>5 DEF EndsStep
<1>10. CASE Has(y.cache, q) /\ q # TipTime(y.cache)
  <2>1. cached # None /\ \E g \in Good(file) : /\ After(file, q, g) /\ Has(y.cache, Time(file, g))
                                               /\ cached = Image(g, Time(file, g))
    BY <1>0, <1>1, <1>5, <1>10, AskAfter DEF None
  <2>2. PICK g \in Good(file) : /\ After(file, q, g) /\ Has(y.cache, Time(file, g))
                                /\ cached = Image(g, Time(file, g))
    BY <2>1
  <2>3. Time(file, g) \in Nat /\ q < Time(file, g) /\ cached.pts = Time(file, g)
    BY <1>0, <2>2, GoodTime DEF After
  <2>4. y.read < Time(file, g)
    BY <1>1, <1>4, <2>3
  <2>5. CASE Time(file, g) < end
    <3> DEFINE a == [y EXCEPT !.image = cached, !.read = cached.pts]
    <3>1. next = Got(a, TRUE)
      <4>1. ~(q < 0)
        BY <1>4
      <4> QED BY <1>7, <2>1, <2>3, <2>5, <4>1
    <3>2. /\ SameFilm(y, a) /\ a.segment = y.segment /\ a.image = cached /\ a.read = Time(file, g)
          /\ a.cache = y.cache /\ a.decoder = y.decoder /\ a.sent = y.sent /\ a.eos = y.eos
          /\ a.decoded = y.decoded
      BY <2>3 DEF SameFilm
    <3> HIDE DEF a
    <3>3. Synced(file, a)
      BY <1>1, <3>2, SyncedSame
    <3>4. SameFilm(e, a) /\ a.segment = e.segment
      BY <1>1, <3>2 DEF SameFilm
    <3>5. Oldest(a.cache) < Time(file, g)
      <4>1. Oldest(y.cache) \in Nat /\ Oldest(y.cache) <= q
        BY <1>0, <1>1, <1>10, Member
      <4> QED BY <1>4, <2>3, <3>2, <4>1
    <3>6. Has(a.cache, Time(file, g)) /\ a.image = Image(g, Time(file, g))
      BY <2>2, <3>2
    <3> QED BY <1>8, <2>4, <2>5, <3>1, <3>2, <3>3, <3>4, <3>5, <3>6
  <2>6. CASE ~(Time(file, g) < end)
    <3>1. next = Failed(y)
      <4>1. ~(q < 0)
        BY <1>4
      <4>2. next = NextSegment(y, TRUE)
        BY <1>7, <2>1, <2>3, <2>6, <4>1
      <4> QED BY <4>2 DEF NextSegment
    <3>2. end <= TipTime(y.cache)
      <4>1. Time(file, g) <= TipTime(y.cache)
        BY <1>0, <1>1, <2>2, Member
      <4> QED BY <1>4, <2>3, <2>6, <4>1
    <3>3. SameFilm(y, y) /\ y.segment = y.segment /\ y.read < end
      BY <1>1, <1>4 DEF SameFilm
    <3> QED BY <1>1, <1>4, <1>9, <3>1, <3>2, <3>3
  <2> QED BY <2>5, <2>6
<1>11. CASE ~(Has(y.cache, q) /\ q # TipTime(y.cache))
  <2>1. next = DecodeOn(y, q, TRUE)
    BY <1>0, <1>1, <1>4, <1>5, <1>11, NextAsked
  <2>2. y.read < end
    BY <1>1, <1>4
  <2>3. CASE y.decoder.ended
    <3>1. OnlyAnswered(file, y, got) /\ got.ok = FALSE
      <4>1. Synced(file, y) /\ got = NextPictureInternal(y, TRUE, end)
        BY <1>1, <1>5
      <4> QED BY <2>3, <4>1, InternalEnded
    <3>2. next = Failed(got)
      BY <1>6, <2>1, <3>1
    <3>3. SameFilm(y, got) /\ got.segment = y.segment /\ Synced(file, got) /\ got.cache = y.cache
          /\ got.decoder = y.decoder
      BY <1>1, <3>1, StillFilm DEF OnlyAnswered
    <3> QED BY <1>1, <1>4, <1>9, <2>2, <2>3, <3>2, <3>3
  <2>4. CASE ~y.decoder.ended /\ y.read = TipTime(y.cache)
    <3>1. \/ got.ok = TRUE /\ NextFound(file, y, TRUE, end, got)
          \/ got.ok = FALSE /\ NextLost(file, y, end, got)
      <4>1. TRUE \in BOOLEAN /\ end \in Nat /\ (y.decoder.ended \/ y.read = TipTime(y.cache))
        BY <1>4, <2>4
      <4> QED BY <1>0, <1>1, <1>2, <1>5, <4>1, InternalReady
    <3>2. CASE got.ok = TRUE /\ NextFound(file, y, TRUE, end, got)
      <4>1. Still(y, got) /\ Synced(file, got)
        BY <3>2 DEF NextFound
      <4>2. PICK g \in Good(file) :
              /\ After(file, TipTime(y.cache), g) /\ TipTime(got.cache) = Time(file, g)
              /\ Oldest(got.cache) < Time(file, g) /\ (end # 0 => Time(file, g) < end)
              /\ got.image = Image(g, Time(file, g)) /\ got.read = Time(file, g)
        BY <3>2 DEF NextFound
      <4>3. y.read < Time(file, g)
        BY <2>4, <4>2 DEF After
      <4>4. SameFilm(e, got) /\ got.segment = e.segment
        BY <1>1, <4>1, StillFilm DEF SameFilm
      <4>5. Has(got.cache, Time(file, g))
        BY <1>0, <4>1, <4>2, NewestEntry DEF Synced
      <4>6. next = Got(got, TRUE)
        BY <1>6, <2>1, <3>2
      <4> QED BY <1>4, <1>8, <4>1, <4>2, <4>3, <4>4, <4>5, <4>6
    <3>3. CASE got.ok = FALSE /\ NextLost(file, y, end, got)
      <4>1. Still(y, got) /\ Synced(file, got) /\ Has(got.cache, y.read)
        BY <2>4, <3>3 DEF NextLost
      <4>2. end <= TipTime(got.cache) \/ got.decoder.ended
        BY <3>3 DEF NextLost
      <4>3. next = Failed(got)
        BY <1>6, <2>1, <3>3
      <4>4. SameFilm(y, got) /\ got.segment = y.segment
        BY <4>1, StillFilm
      <4> QED BY <1>4, <1>9, <2>2, <4>1, <4>2, <4>3, <4>4
    <3> QED BY <3>1, <3>2, <3>3
  <2>5. CASE ~y.decoder.ended /\ y.read # TipTime(y.cache)
    <3>1. NextBehind(file, y, TRUE, end, got)
      <4>1. TRUE \in BOOLEAN /\ end \in Nat /\ ~(Full(y.cache) /\ y.read = Oldest(y.cache))
        BY <1>1, <1>4, <1>11, <2>5
      <4> QED BY <1>0, <1>1, <1>2, <1>5, <2>5, <4>1, InternalBehind
    <3>2. Still(y, got) /\ Synced(file, got) /\ Has(got.cache, y.read)
      BY <3>1 DEF NextBehind
    <3>3. PICK g \in Good(file) :
            /\ After(file, y.read, g) /\ Has(got.cache, Time(file, g))
            /\ \/ /\ got.ok = TRUE /\ Oldest(got.cache) < Time(file, g)
                  /\ end # 0 => Time(file, g) < end
                  /\ got.image = Image(g, Time(file, g)) /\ got.read = Time(file, g)
               \/ got.ok = FALSE /\ end # 0 /\ end <= Time(file, g)
      BY <3>1 DEF NextBehind
    <3>4. y.read < Time(file, g) /\ Time(file, g) \in Nat
      BY <1>0, <3>3, GoodTime DEF After
    <3>5. SameFilm(y, got) /\ got.segment = y.segment /\ SameFilm(e, got) /\ got.segment = e.segment
      BY <1>1, <3>2, StillFilm DEF SameFilm
    <3>6. CASE got.ok = TRUE
      <4>1. next = Got(got, TRUE)
        BY <1>6, <2>1, <3>6
      <4>2. Oldest(got.cache) < Time(file, g) /\ Time(file, g) < end
            /\ got.image = Image(g, Time(file, g)) /\ got.read = Time(file, g)
        BY <1>4, <3>3, <3>6
      <4> QED BY <1>8, <3>2, <3>3, <3>4, <3>5, <4>1, <4>2
    <3>7. CASE got.ok = FALSE
      <4>1. next = Failed(got)
        BY <1>6, <2>1, <3>7
      <4>2. end <= TipTime(got.cache)
        <5>1. end <= Time(file, g)
          BY <3>3, <3>7
        <5>2. Time(file, g) <= TipTime(got.cache) /\ TipTime(got.cache) \in Nat
          BY <1>0, <3>2, <3>3, Member DEF Synced
        <5> QED BY <1>4, <3>4, <5>1, <5>2
      <4> QED BY <1>4, <1>9, <2>2, <3>2, <3>5, <4>1, <4>2
    <3> QED BY <3>3, <3>6, <3>7
  <2> QED BY <2>3, <2>4, <2>5
<1> QED BY <1>10, <1>11

LEMMA PlayEnds ==
  ASSUME NEW file, Known(file), NEW e, e.file = file, e.trusted = TRUE, Cut(file, e.segments),
         e.segment \in DOMAIN e.segments, Synced(file, e),
         Has(e.cache, e.read), e.read < RefEnd(Segment(e)),
         RefTime(e, e.current) \in Int, e.read <= RefTime(e, e.current), Kept(e),
         NEW till, till = PlayUpTo(e, EndOf(Segment(e)))
  PROVE  till.answer = "elsewhere" /\ EndsFound(file, e, till.e)
<1> DEFINE E == Enough(e)
           t == EndOf(Segment(e))
<1>0. E \in Nat /\ Len(file) < E /\ Len(file) \in Nat /\ WellTimed(file)
  <2>1. WellTimed(file)
    BY DEF Known
  <2> QED BY <2>1, EnoughIs, GoodFinite
<1>1. PICK loop :
        /\ till = [e |-> loop[E].e, answer |-> loop[E].at]
        /\ loop[0] = Start(e)
        /\ \A n \in 1..E : loop[n] = PlayRound(loop[n - 1], t)
  BY <1>0, PlayLoop
<1>2. t = EndOf(Segment(e))
  OBVIOUS
<1> HIDE DEF E, t
<1> DEFINE P(n) == EndsStep(file, e, n, loop[n])
           S == {n \in 0..E : P(n)}
<1>3. P(0)
  <2>1. loop[0].at = "on" /\ loop[0].e = e
    BY <1>1 DEF Start
  <2>2. 0 <= Cardinality(Upto(file, e.read))
    <3>1. Cardinality(Upto(file, e.read)) \in Nat
      BY <1>0, UptoFinite
    <3> QED BY <3>1
  <2>3. EndsOn(file, e, 0, e)
    BY <2>2 DEF EndsOn, SameFilm
  <2> QED BY <2>1, <2>3 DEF EndsStep
<1>4. ASSUME NEW n \in 0..E - 1, P(n) PROVE P(n + 1)
  <2>1. loop[n + 1] = PlayRound(loop[n], t)
    <3>1. n + 1 \in 1..E /\ (n + 1) - 1 = n
      BY <1>0
    <3> QED BY <1>1, <3>1
  <2>2. CASE loop[n].at = "on" /\ EndsOn(file, e, n, loop[n].e)
    <3>1. n \in Nat
      BY <1>0
    <3> QED BY <1>2, <2>1, <2>2, <3>1, EndsRoundOn
  <2>3. CASE loop[n].at = "elsewhere" /\ EndsFound(file, e, loop[n].e)
    <3>1. loop[n + 1] = loop[n]
      BY <2>1, <2>3 DEF PlayRound
    <3> QED BY <2>3, <3>1 DEF EndsStep
  <2> QED BY <1>4, <2>2, <2>3 DEF EndsStep
<1>5. P(E)
  <2>1. 0 \in S
    BY <1>0, <1>3
  <2>2. ASSUME NEW m \in 0..E - 1, m \in S PROVE m + 1 \in S
    <3>1. m + 1 \in 0..E
      BY <1>0
    <3> HIDE DEF P
    <3> QED BY <1>4, <2>2, <3>1
  <2>3. \A m \in 0..E : m \in S
    <3> HIDE DEF S
    <3> QED BY <1>0, <2>1, <2>2, Induct
  <2>4. E \in S
    BY <1>0, <2>3
  <2> QED BY <2>4
<1> DEFINE y == loop[E].e
<1>6. loop[E].at = "elsewhere" /\ EndsFound(file, e, y)
  <2>1. SUFFICES ASSUME EndsOn(file, e, E, y) PROVE FALSE
    BY <1>5 DEF EndsStep
  <2> HIDE DEF y
  <2>2. E <= Cardinality(Upto(file, y.read))
    BY <2>1 DEF EndsOn
  <2>3. /\ Cardinality(Upto(file, y.read)) \in Nat
        /\ Cardinality(Upto(file, y.read)) <= Len(file)
    BY <1>0, UptoFinite
  <2> QED BY <1>0, <2>2, <2>3
<1> QED BY <1>1, <1>6

-----------------------------------------------------------------------------
(* previousPicture                                                         *)

\* The last picture of the ring before a time.
LastOne(file, c, pts, p) ==
  /\ p \in Good(file) /\ Has(c, Time(file, p)) /\ Time(file, p) < pts
  /\ \/ Time(file, p) = TipTime(c)
     \/ \E g \in Good(file) : /\ After(file, Time(file, p), g) /\ Has(c, Time(file, g))
                              /\ pts <= Time(file, g)

LEMMA LastBeforeIs ==
  ASSUME NEW file, WellTimed(file), NEW c, Ring(file, c), NEW pts \in Nat,
         NEW u \in Nat, Has(c, u), u < pts
  PROVE  \E p : LastOne(file, c, pts, p) /\ LastBefore(c, GetLast(c), pts) = Image(p, Time(file, p))
<1> DEFINE W == Window(c)
           T(i) == TimeOf(c, i)
<1>0. /\ c.read \in Int /\ c.write \in Int /\ NbImage \in Nat /\ NbImage > 1
      /\ Used(c) /\ c.write <= c.read + NbImage /\ W = c.read..c.write - 1
  <2>1. Shape(c)
    BY DEF Ring
  <2>2. c.read \in Int /\ c.write \in Int /\ NbImage \in Nat /\ NbImage > 1
    BY <2>1, InRing
  <2>3. Used(c)
    BY Member
  <2> QED BY <2>1, <2>2, <2>3 DEF Shape, Window
<1>1. PICK loop :
        /\ LastBefore(c, GetLast(c), pts) = loop[NbImage]
        /\ loop[0] = GetLast(c)
        /\ \A n \in 1..NbImage : loop[n] = Back(c, loop[n - 1], pts)
  BY BackLoop
<1>2. PICK j \in W : T(j) = u
  BY DEF Has
<1> DEFINE Here(n, i) == /\ i \in W /\ loop[n] = Entry(c, i)
                         /\ T(i) < pts \/ i <= c.write - 1 - n
                         /\ i = c.write - 1 \/ (i + 1 \in W /\ pts <= T(i + 1))
           P(n) == \E i : Here(n, i)
           S == {n \in 0..NbImage : P(n)}
<1>3. P(0)
  <2>1. GetLast(c) = Entry(c, c.write - 1)
    BY <1>0 DEF GetLast, Used
  <2>2. c.write - 1 \in W /\ c.write - 1 <= c.write - 1 - 0
    BY <1>0 DEF Used
  <2>3. Here(0, c.write - 1)
    BY <1>1, <2>1, <2>2
  <2> QED BY <2>3
<1>4. ASSUME NEW n \in 0..NbImage - 1, P(n) PROVE P(n + 1)
  <2>1. loop[n + 1] = Back(c, loop[n], pts)
    <3>1. n + 1 \in 1..NbImage /\ (n + 1) - 1 = n
      BY <1>0
    <3> QED BY <1>1, <3>1
  <2>2. PICK i : Here(n, i)
    BY <1>4
  <2>3. /\ i \in W /\ loop[n] = Entry(c, i) /\ (T(i) < pts \/ i <= c.write - 1 - n)
        /\ i = c.write - 1 \/ (i + 1 \in W /\ pts <= T(i + 1))
    BY <2>2
  <2>4. Entry(c, i).pts = T(i) /\ T(i) \in Nat /\ i \in Int
    BY <2>3, RingEntry
  <2>5. CASE T(i) < pts
    <3>1. loop[n + 1] = Entry(c, i)
      BY <2>1, <2>3, <2>4, <2>5 DEF Back
    <3>2. Here(n + 1, i)
      BY <2>3, <2>5, <3>1
    <3> QED BY <3>2
  <2>6. CASE ~(T(i) < pts)
    <3>1. j < i
      <4>1. T(j) < T(i)
        BY <1>2, <2>4, <2>6
      <4> QED BY <1>2, <2>3, <4>1, RingOrder
    <3>2. i # c.read /\ i - 1 \in W /\ j \in Int
      BY <1>0, <1>2, <2>3, <3>1
    <3>3. GetBefore(c, T(i)) = Entry(c, i - 1)
      BY <2>3, <3>2, SearchBefore
    <3>4. Entry(c, i - 1) # NoImage
      BY <3>2, RingEntry
    <3>5. loop[n + 1] = Entry(c, i - 1)
      BY <2>1, <2>3, <2>4, <2>6, <3>3, <3>4 DEF Back, None
    <3>6. (i - 1) + 1 = i /\ pts <= T((i - 1) + 1)
      BY <2>4, <2>6
    <3>7. i - 1 <= c.write - 1 - (n + 1)
      BY <1>0, <2>3, <2>4, <2>6
    <3>8. Here(n + 1, i - 1)
      BY <2>3, <3>2, <3>5, <3>6, <3>7
    <3> QED BY <3>8
  <2> QED BY <2>5, <2>6
<1>5. P(NbImage)
  <2>1. 0 \in S
    BY <1>0, <1>3
  <2>2. ASSUME NEW m \in 0..NbImage - 1, m \in S PROVE m + 1 \in S
    <3>1. m + 1 \in 0..NbImage
      BY <1>0
    <3> HIDE DEF P
    <3> QED BY <1>4, <2>2, <3>1
  <2>3. \A m \in 0..NbImage : m \in S
    <3> HIDE DEF S
    <3> QED BY <1>0, <2>1, <2>2, Induct
  <2>4. NbImage \in S
    BY <1>0, <2>3
  <2> QED BY <2>4
<1>6. PICK i : Here(NbImage, i)
  BY <1>5
<1>7. /\ i \in W /\ loop[NbImage] = Entry(c, i) /\ (T(i) < pts \/ i <= c.write - 1 - NbImage)
      /\ i = c.write - 1 \/ (i + 1 \in W /\ pts <= T(i + 1))
  BY <1>6
<1>8. T(i) < pts
  BY <1>0, <1>7
<1> DEFINE p == At(c, i)
<1>9. p \in Good(file) /\ T(i) = Time(file, p) /\ Entry(c, i) = Image(p, T(i))
  BY <1>7, RingEntry
<1>10. Time(file, p) = TipTime(c) \/ \E g \in Good(file) :
         After(file, Time(file, p), g) /\ Has(c, Time(file, g)) /\ pts <= Time(file, g)
  <2>1. CASE i = c.write - 1
    BY <1>9, <2>1 DEF TipTime
  <2>2. CASE i + 1 \in W /\ pts <= T(i + 1)
    <3> DEFINE g == At(c, i + 1)
    <3>1. g \in Good(file) /\ T(i + 1) = Time(file, g)
      BY <2>2, RingEntry
    <3>2. After(file, T(i), g)
      BY <1>7, <2>2 DEF Ring
    <3>3. Has(c, Time(file, g))
      BY <2>2, <3>1 DEF Has
    <3> HIDE DEF g, p
    <3> QED BY <1>9, <2>2, <3>1, <3>2, <3>3
  <2> QED BY <1>7, <2>1, <2>2
<1>11. Has(c, Time(file, p))
  BY <1>7, <1>9 DEF Has
<1> HIDE DEF p
<1>12. LastOne(file, c, pts, p)
  BY <1>8, <1>9, <1>10, <1>11 DEF LastOne
<1>13. LastBefore(c, GetLast(c), pts) = Image(p, Time(file, p))
  BY <1>1, <1>7, <1>9
<1> QED BY <1>12, <1>13

\* decodeTillPictureAtPts goes to the last key picture before a time, and on from there.
TillFrom(file, e, t) ==
  LET keys == KeysUnder(file, RefTime(e, t - 1))
      key == LastIn(keys)
      there == SeekToTime(e, Time(file, key))
  IN /\ key \in keys /\ key \in Good(file) /\ SeekFound(file, e, key, there)
     /\ DecodeTillPictureAtPts(e, t) = PlayUpTo(there, t)

LEMMA TillIs ==
  ASSUME NEW file, Known(file), NEW e, Synced(file, e), e.file = file, e.trusted = TRUE,
         NEW t, RefTime(e, t - 1) \in Nat, Time(file, 0) < RefTime(e, t - 1)
  PROVE  TillFrom(file, e, t)
<1> DEFINE keys == KeysUnder(file, RefTime(e, t - 1))
           k == LastIn(keys)
           there == SeekToTime(e, Time(file, k))
<1>0. WellTimed(file) /\ Divided(file) /\ Ready(file, e)
  BY DEF Known, Ready, Synced
<1>1. KeysBefore(e, RefTime(e, t - 1)) = keys /\ 0 \in keys
  BY <1>0, KeysBeforeIs
<1>2. k \in keys
  <2>1. KeysUnder(file, RefTime(e, t - 1)) # {}
    BY <1>1
  <2> QED BY <1>0, <2>1, LastKey
<1>3. k \in Good(file) /\ k \in All(file)
  BY <1>0, <1>2 DEF KeysUnder, KeyFrames, Divided
<1>4. SeekFound(file, e, k, there)
  BY <1>0, <1>3, SeekComes
<1>5. FirstFramePts(e) = Time(file, 0) /\ Time(file, 0) \in Nat
  BY <1>0, FileIs
<1>6. PtsOf(e, k) = Time(file, k)
  BY <1>0, <1>3, PtsIs
<1>7. there.ok = TRUE
  BY <1>4 DEF SeekFound
<1>8. ~(RefTime(e, t - 1) <= FirstFramePts(e) \/ keys = {})
  BY <1>1, <1>5
<1> HIDE DEF there
<1>9. there = SeekToTime(e, PtsOf(e, LastIn(keys)))
  BY <1>6 DEF there
<1>10. DecodeTillPictureAtPts(e, t) = PlayUpTo(there, t)
  <2> HIDE DEF keys, k
  <2> QED BY <1>1, <1>7, <1>8, <1>9 DEF DecodeTillPictureAtPts, PlayFrom
<1> QED BY <1>1, <1>2, <1>3, <1>4, <1>10 DEF there, TillFrom

\* Back in the segment of the picture.
LEMMA PreviousInSegmentGoes ==
  ASSUME NEW file, Known(file), NEW e, e.file = file, e.trusted = TRUE, Cut(file, e.segments),
         Synced(file, e), NEW f \in Good(file), PlacedAt(file, e, f),
         Time(file, f) = Oldest(e.cache), Segment(e).refStart < Time(file, f),
         NEW r, r = PreviousInSegment(e, e.current, Time(file, f))
  PROVE  \E g \in Good(file) : After(file, Time(file, g), f) /\ Displayed(file, e, g, r)
<1> DEFINE s == Segment(e)
           t == e.current
           keys == KeysUnder(file, RefTime(e, t - 1))
           k == LastIn(keys)
           there == SeekToTime(e, Time(file, k))
           till == PlayUpTo(there, t)
           y == till.e
<1>0. WellTimed(file) /\ Ring(file, e.cache)
  BY DEF Known, Synced
<1>1. /\ e.segment \in DOMAIN e.segments /\ In(s, Time(file, f))
      /\ t = s.start + Time(file, f) - s.refStart /\ Has(e.cache, Time(file, f))
  BY DEF PlacedAt
<1>2. /\ s.refStart \in Nat /\ s.start \in Nat /\ s.duration \in Nat
  BY <1>1, PartIs DEF Segment
<1>3. Time(file, f) \in Nat /\ Time(file, 0) \in Nat
  BY <1>0, GoodTime, FileIs
<1>4. RefTime(e, t) = Time(file, f) /\ RefTime(e, t - 1) = Time(file, f) - 1 /\ 0 < t
  BY <1>1, <1>2, <1>3 DEF RefTime
<1>5. PICK h \in Good(file) : s.refStart = Time(file, h)
  BY <1>1 DEF Cut, Segment
<1>6. Time(file, 0) + 1 < Time(file, f)
  <2>1. Time(file, h) \in Nat /\ h \in All(file) /\ f \in All(file)
    BY <1>0, GoodTime
  <2>2. Time(file, 0) <= Time(file, h)
    BY <1>0, <1>3, <2>1 DEF WellTimed
  <2>3. f # 0
    BY <1>3, <1>5, <2>1, <2>2
  <2> QED BY <1>0, <2>1, <2>3 DEF WellTimed
<1>7. /\ RefTime(e, t - 1) \in Nat /\ Time(file, 0) < RefTime(e, t - 1)
  BY <1>3, <1>4, <1>6
<1>8. /\ k \in keys /\ k \in Good(file) /\ SeekFound(file, e, k, there)
      /\ DecodeTillPictureAtPts(e, t) = till
  <2>1. TillFrom(file, e, t)
    BY <1>7, TillIs
  <2> QED BY <2>1 DEF TillFrom
<1>9. Time(file, k) < Time(file, f) /\ Time(file, k) \in Nat
  <2>1. Time(file, k) \in Nat
    BY <1>0, <1>8, GoodTime
  <2>2. Time(file, k) < RefTime(e, t - 1)
    BY <1>8 DEF KeysUnder
  <2> HIDE DEF k
  <2> QED BY <1>3, <1>4, <2>1, <2>2
<1> HIDE DEF keys, k, there, till, t, s
<1>10. ~Has(e.cache, Time(file, k))
  <2>1. SUFFICES ASSUME Has(e.cache, Time(file, k)) PROVE FALSE
    OBVIOUS
  <2>2. Oldest(e.cache) <= Time(file, k)
    BY <1>0, <2>1, Member
  <2> QED BY <1>3, <1>9, <2>2
<1>11. /\ Still(e, there) /\ there.ok = TRUE /\ Synced(file, there) /\ there.read = Time(file, k)
       /\ TipTime(there.cache) = Time(file, k)
  BY <1>8, <1>10 DEF SeekFound
<1>12. /\ SameFilm(e, there) /\ there.segment = e.segment /\ there.current = t
  BY <1>11, StillFilm DEF t
<1>13. /\ there.file = file /\ there.trusted = TRUE /\ Cut(file, there.segments)
       /\ there.segment \in DOMAIN there.segments /\ Segment(there) = s
       /\ RefTime(there, there.current) = Time(file, f)
  BY <1>1, <1>4, <1>12, SegmentSame DEF SameFilm, s
<1>14. t = When(file, Segment(there), f)
  BY <1>1, <1>13 DEF When
<1>15. till.answer = "yes" /\ ReachFound(file, there, f, y)
  <2>1. /\ In(Segment(there), Time(file, f)) /\ 0 < When(file, Segment(there), f)
        /\ there.read = TipTime(there.cache) /\ TipTime(there.cache) < Time(file, f)
        /\ RefTime(there, there.current) \in Int
        /\ TipTime(there.cache) <= RefTime(there, there.current)
    BY <1>1, <1>3, <1>4, <1>9, <1>11, <1>13, <1>14
  <2>2. till = PlayUpTo(there, When(file, Segment(there), f))
    BY <1>14 DEF till
  <2> QED BY <1>11, <1>13, <2>1, <2>2, PlayReaches
<1> HIDE DEF y
<1>16. /\ SameFilm(there, y) /\ y.segment = there.segment /\ Synced(file, y)
       /\ TipTime(y.cache) = Time(file, f) /\ Oldest(y.cache) < Time(file, f)
       /\ Ring(file, y.cache) /\ Used(y.cache)
  BY <1>15 DEF ReachFound, Synced
<1>17. Has(y.cache, Time(file, f)) /\ Time(file, f) # Oldest(y.cache)
  <2>1. Has(y.cache, TipTime(y.cache))
    BY <1>0, <1>16, NewestEntry
  <2>2. Oldest(y.cache) \in Nat
    BY <1>0, <1>16, <2>1, Member
  <2> QED BY <1>3, <1>16, <2>1, <2>2
<1>18. /\ GetBefore(y.cache, Time(file, f)) # NoImage
       /\ \E g \in Good(file) :
            /\ Has(y.cache, Time(file, g))
            /\ \E i \in Good(file) : Time(file, i) = Time(file, f) /\ After(file, Time(file, g), i)
            /\ GetBefore(y.cache, Time(file, f)) = Image(g, Time(file, g))
  BY <1>0, <1>16, <1>17, AskBefore
<1>19. PICK g \in Good(file) :
            /\ Has(y.cache, Time(file, g))
            /\ \E i \in Good(file) : Time(file, i) = Time(file, f) /\ After(file, Time(file, g), i)
            /\ GetBefore(y.cache, Time(file, f)) = Image(g, Time(file, g))
  BY <1>18
<1>20. After(file, Time(file, g), f)
  <2>1. PICK i \in Good(file) : Time(file, i) = Time(file, f) /\ After(file, Time(file, g), i)
    BY <1>19
  <2>2. i = f
    BY <1>0, <2>1, GoodTime
  <2> QED BY <2>1, <2>2
<1>21. /\ Time(file, g) \in Nat /\ Time(file, g) < Time(file, f) /\ s.refStart <= Time(file, g)
       /\ In(s, Time(file, g))
  <2>1. Time(file, g) \in Nat /\ Time(file, g) < Time(file, f)
    BY <1>0, <1>20, GoodTime DEF After
  <2>2. s.refStart <= Time(file, g)
    <3>1. SUFFICES ASSUME Time(file, g) < Time(file, h) PROVE FALSE
      BY <1>2, <1>5, <2>1
    <3>2. Time(file, f) <= Time(file, h)
      BY <1>20, <3>1 DEF After
    <3>3. s.refStart < Time(file, f)
      BY DEF s
    <3> QED BY <1>2, <1>3, <1>5, <3>2, <3>3
  <2> QED BY <1>1, <1>2, <1>3, <2>1, <2>2 DEF In
<1>22. r = Deliver(y, Image(g, Time(file, g)))
  <2>1. Image(g, Time(file, g)).pts = Time(file, g)
    BY <1>0, GoodTime
  <2>2. GetBefore(y.cache, Time(file, f)).pts >= Segment(e).refStart
    BY <1>2, <1>19, <1>21, <2>1 DEF s
  <2>3. till.e = y
    BY DEF y
  <2>4. DecodeTillPictureAtPts(e, e.current) = till
    BY <1>8 DEF t
  <2> QED BY <1>15, <1>18, <1>19, <2>2, <2>3, <2>4 DEF PreviousInSegment, None
<1>23. Displayed(file, y, g, r)
  <2>1. /\ Cut(file, y.segments) /\ y.segment \in DOMAIN y.segments /\ Segment(y) = s
    BY <1>13, <1>16, SegmentSame DEF SameFilm
  <2>2. Time(file, g) # TipTime(y.cache)
    BY <1>3, <1>16, <1>21
  <2> QED BY <1>0, <1>16, <1>19, <1>21, <1>22, <2>1, <2>2, Delivered
<1>24. Displayed(file, e, g, r)
  BY <1>12, <1>16, <1>23 DEF Displayed, SameFilm
<1> QED BY <1>20, <1>24

\* A full ring holds as many pictures as there are from its oldest to its newest.
LEMMA FullCount ==
  ASSUME NEW file, WellTimed(file), NEW c, Ring(file, c), Full(c)
  PROVE  Cardinality({f \in Good(file) : Oldest(c) <= Time(file, f) /\ Time(file, f) <= TipTime(c)})
           = NbImage
<1> DEFINE W == c.read..c.write - 1
           S == {f \in Good(file) : Oldest(c) <= Time(file, f) /\ Time(file, f) <= TipTime(c)}
           m == [i \in W |-> At(c, i)]
<1>1. /\ c.read \in Int /\ c.write \in Int /\ NbImage \in Nat /\ NbImage > 1
      /\ c.write - c.read = NbImage /\ W = Window(c)
  BY InRing DEF Ring, Full, Window
<1>2. IsFiniteSet(W) /\ Cardinality(W) = NbImage
  BY <1>1, FS_Interval
<1>3. c.read \in W /\ Has(c, Oldest(c))
  <2>1. c.read \in W
    BY <1>1
  <2>2. c.read \in Window(c)
    BY <1>1, <2>1
  <2> QED BY <2>1, <2>2 DEF Has, Oldest
<1>4. Has(c, TipTime(c))
  BY <1>3, Member
<1>5. ASSUME NEW i \in W
      PROVE  At(c, i) \in S /\ TimeOf(c, i) = Time(file, At(c, i))
  <2>1. At(c, i) \in Good(file) /\ TimeOf(c, i) = Time(file, At(c, i)) /\ Has(c, TimeOf(c, i))
    BY <1>1, <1>5, RingEntry DEF Has
  <2>2. TimeOf(c, i) <= TipTime(c) /\ Oldest(c) <= TimeOf(c, i)
    BY <2>1, Member
  <2> QED BY <2>1, <2>2
<1>6. ASSUME NEW f \in S PROVE \E i \in W : At(c, i) = f
  <2>1. Has(c, Time(file, f))
    BY <1>3, <1>4, <1>6, Between
  <2>2. PICK i \in W : TimeOf(c, i) = Time(file, f)
    BY <1>1, <2>1 DEF Has
  <2>3. At(c, i) \in Good(file) /\ Time(file, At(c, i)) = Time(file, f)
    BY <1>5, <2>2
  <2>4. At(c, i) = f
    <3>1. At(c, i) \in All(file)
      BY <2>3, GoodTime
    <3> QED BY <2>3, <3>1, GoodTime
  <2> QED BY <2>4
<1>7. ASSUME NEW i \in W, NEW j \in W, At(c, i) = At(c, j) PROVE i = j
  <2>1. TimeOf(c, i) = TimeOf(c, j)
    BY <1>5, <1>7
  <2> QED BY <1>1, <2>1, RingOrder
<1> HIDE DEF W, S
<1>8. m \in Bijection(W, S)
  <2>1. m \in [W -> S]
    BY <1>5
  <2>2. m \in Injection(W, S)
    BY <1>7, <2>1 DEF Injection, IsInjective
  <2>3. m \in Surjection(W, S)
    BY <1>6, <2>1 DEF Surjection
  <2> QED BY <2>2, <2>3 DEF Bijection
<1>9. Cardinality(S) = NbImage
  BY <1>2, <1>8, FS_Bijection DEF ExistsBijection
<1> QED BY <1>9 DEF S

(* Wherever the seek to the last key picture before the end of a segment   *)
(* has come to: the picture is not given up when one more is decoded, or   *)
(* the end is in the ring too.                                             *)
LEMMA SoughtKept ==
  ASSUME NEW file, WellTimed(file), NEW e, Synced(file, e), Cut(file, e.segments),
         Joined(file, e.segments), NEW s \in DOMAIN e.segments, s + 1 \in DOMAIN e.segments,
         NEW f \in Good(file), Has(e.cache, Time(file, f)),
         Time(file, f) = e.segments[s + 1].refStart,
         NEW h \in Good(file), Time(file, h) = e.segments[s].refStart,
         NEW x, Switched(file, e, s, h, x),
         NEW k \in Good(file), k = LastIn(KeysUnder(file, RefEnd(e.segments[s]) - 1)),
         NEW y, SeekFound(file, x, k, y),
         RefTime(y, y.current) = RefEnd(e.segments[s])
  PROVE  Kept(y)
<1> DEFINE c == x.cache
           end == RefEnd(e.segments[s])
<1>1. /\ Synced(file, x) /\ Has(c, Time(file, h)) /\ Ring(file, c) /\ Used(c)
      /\ IF Has(e.cache, Time(file, h)) /\ Time(file, 0) < Time(file, h)
         THEN c = e.cache /\ x.decoder = e.decoder
         ELSE TipTime(c) = Time(file, h) /\ ~x.decoder.ended
  BY DEF Switched, Synced
<1>2. /\ Synced(file, y) /\ Has(y.cache, Time(file, k)) /\ Ring(file, y.cache) /\ y.read = Time(file, k)
      /\ IF Has(c, Time(file, k)) /\ Time(file, 0) < Time(file, k)
         THEN y.cache = c /\ y.decoder = x.decoder
         ELSE TipTime(y.cache) = Time(file, k) /\ ~y.decoder.ended
  BY DEF SeekFound, Synced
<1>3. /\ Time(file, k) \in Nat /\ Time(file, h) \in Nat /\ Time(file, f) \in Nat /\ end \in Nat
      /\ TipTime(c) \in Nat
  <2>1. Time(file, k) \in Nat /\ Time(file, h) \in Nat /\ Time(file, f) \in Nat
    BY GoodTime
  <2>2. end \in Nat
    BY PartIs
  <2> QED BY <1>1, <2>1, <2>2, Member
<1>4. Time(file, 0) < Time(file, k) /\ Time(file, k) <= Time(file, h) =>
        /\ Cardinality({g \in Good(file) : Time(file, k) <= Time(file, g)
                                           /\ Time(file, g) <= Time(file, h)}) # NbImage
        /\ Time(file, k) <= Time(file, f) =>
             end < Time(file, f) /\ \E g \in Good(file) : Time(file, g) = end
  BY DEF Joined
<1> HIDE DEF c, end
<1>5. SUFFICES ASSUME Full(y.cache), y.read = Oldest(y.cache)
               PROVE  Has(y.cache, end) /\ end # TipTime(y.cache)
  BY DEF Kept, end
<1>6. Time(file, k) # TipTime(y.cache)
  <2>1. Oldest(y.cache) < TipTime(y.cache)
    BY <1>2, <1>5, FullOldest
  <2> QED BY <1>2, <1>3, <1>5, <2>1
<1>7. y.cache = c /\ Full(c) /\ Time(file, k) = Oldest(c) /\ Time(file, 0) < Time(file, k)
  BY <1>2, <1>5, <1>6
<1>8. Time(file, 0) < Time(file, k) /\ Time(file, k) <= Time(file, h)
  BY <1>1, <1>7, Member
<1>9. CASE TipTime(c) = Time(file, h)
  <2>1. Cardinality({g \in Good(file) : Oldest(c) <= Time(file, g) /\ Time(file, g) <= TipTime(c)})
          = NbImage
    BY <1>1, <1>7, FullCount
  <2> QED BY <1>4, <1>7, <1>8, <1>9, <2>1
<1>10. CASE c = e.cache
  <2>1. Has(c, Time(file, f))
    BY <1>10
  <2>2. Time(file, k) <= Time(file, f) /\ Time(file, f) <= TipTime(c)
    BY <1>1, <1>7, <2>1, Member
  <2>3. PICK g \in Good(file) : Time(file, g) = end
    BY <1>4, <1>8, <2>2
  <2>4. end < Time(file, f)
    BY <1>4, <1>8, <2>2
  <2>5. Time(file, k) <= end
    <3>1. end = e.segments[s].refStart + e.segments[s].duration /\ e.segments[s].duration \in Nat
      BY PartIs DEF end, RefEnd
    <3> QED BY <1>3, <1>8, <3>1
  <2>6. Has(c, Time(file, g))
    <3>1. Has(c, Time(file, k))
      BY <1>2, <1>7
    <3>2. Time(file, k) <= Time(file, g) /\ Time(file, g) <= Time(file, f)
      BY <1>3, <2>3, <2>4, <2>5
    <3> QED BY <1>1, <2>1, <3>1, <3>2, Between
  <2>7. end # TipTime(c)
    BY <1>3, <2>2, <2>4
  <2> QED BY <1>7, <2>3, <2>6, <2>7
<1> QED BY <1>1, <1>9, <1>10

\* Back to the last picture of the segment before.
SegmentBack(file, e, r) ==
  /\ SameFilm(e, r) /\ r.ok = TRUE /\ Synced(file, r) /\ r.segment = e.segment - 1
  /\ \E p \in Good(file) : PlacedAt(file, r, p) /\ Over(file, Segment(r), Time(file, p))

LEMMA LastOver ==
  ASSUME NEW file, WellTimed(file), NEW y, Synced(file, y), NEW s, RefEnd(s) \in Nat,
         RefEnd(s) <= TipTime(y.cache) \/ y.decoder.ended,
         NEW p, LastOne(file, y.cache, RefEnd(s), p)
  PROVE  /\ Over(file, s, Time(file, p))
         /\ Time(file, p) = TipTime(y.cache) => y.decoder.ended
<1>1. /\ p \in Good(file) /\ Has(y.cache, Time(file, p)) /\ Time(file, p) < RefEnd(s)
      /\ \/ Time(file, p) = TipTime(y.cache)
         \/ \E g \in Good(file) : /\ After(file, Time(file, p), g) /\ Has(y.cache, Time(file, g))
                                  /\ RefEnd(s) <= Time(file, g)
  BY DEF LastOne
<1>2. Time(file, p) \in Nat
  BY <1>1, GoodTime
<1>3. Time(file, p) = TipTime(y.cache) => y.decoder.ended
  BY <1>1, <1>2
<1>4. ASSUME NEW g \in Good(file), Time(file, p) < Time(file, g) PROVE RefEnd(s) <= Time(file, g)
  <2>1. Time(file, g) \in Nat
    BY GoodTime
  <2>2. CASE Time(file, p) = TipTime(y.cache)
    <3>1. Coming(file, TipTime(y.cache)) = {}
      BY <1>3, <2>2, EndedNothing
    <3>2. g \in Coming(file, TipTime(y.cache))
      BY <1>4, <2>2 DEF Coming
    <3> QED BY <3>1, <3>2
  <2>3. CASE \E i \in Good(file) : /\ After(file, Time(file, p), i) /\ Has(y.cache, Time(file, i))
                                   /\ RefEnd(s) <= Time(file, i)
    <3>1. PICK i \in Good(file) : After(file, Time(file, p), i) /\ RefEnd(s) <= Time(file, i)
      BY <2>3
    <3>2. Time(file, i) <= Time(file, g) /\ Time(file, i) \in Nat
      BY <1>4, <3>1, GoodTime DEF After
    <3> QED BY <2>1, <3>1, <3>2
  <2> QED BY <1>1, <2>2, <2>3
<1> QED BY <1>3, <1>4 DEF Over

LEMMA PreviousInOtherGoes ==
  ASSUME NEW file, Known(file), NEW e, e.file = file, e.trusted = TRUE, Cut(file, e.segments),
         Joined(file, e.segments), Synced(file, e), e.segment \in DOMAIN e.segments,
         NEW s \in DOMAIN e.segments, s + 1 = e.segment,
         NEW f \in Good(file), Has(e.cache, Time(file, f)), Time(file, f) = Segment(e).refStart,
         NEW t, t = Segment(e).start, e.current = t,
         NEW r, r = PreviousInOther(e, t, s)
  PROVE  SegmentBack(file, e, r)
<1> DEFINE part == e.segments[s]
           end == RefEnd(part)
           x == SwitchToSegment(e, s)
           keys == KeysUnder(file, RefTime(x, t - 1))
           k == LastIn(keys)
           there == SeekToTime(x, Time(file, k))
           till == PlayUpTo(there, t)
           y == till.e
           last == GetLast(y.cache)
<1>0. WellTimed(file) /\ Ready(file, e)
  BY DEF Known, Ready, Synced
<1>1. /\ part.refStart \in Nat /\ part.duration \in Nat /\ part.duration > 1 /\ part.start \in Nat
      /\ end \in Nat /\ end = part.refStart + part.duration
      /\ EndOf(part) = part.start + part.duration
  BY PartIs
<1>2. t = EndOf(part) /\ t \in Nat
  <2>1. e.segment # 1 /\ e.segment - 1 = s
    BY PartIs
  <2>2. Segment(e).start = EndOf(e.segments[e.segment - 1])
    BY <2>1 DEF Cut, Segment
  <2> QED BY <1>1, <2>1, <2>2
<1>3. PICK h \in Good(file) : Time(file, h) = part.refStart /\ Switched(file, e, s, h, x)
  BY <1>0, SwitchComes
<1>x. x = SwitchToSegment(e, s)
  OBVIOUS
<1> HIDE DEF x
<1>4. /\ x.file = file /\ x.segments = e.segments /\ x.trusted = TRUE /\ x.dead = e.dead
      /\ x.segment = s /\ x.current = t /\ x.ok = TRUE /\ Synced(file, x)
  BY <1>3 DEF Switched
<1>5. Segment(x) = part
  BY <1>4 DEF Segment
<1>6. RefTime(x, t) = end /\ RefTime(x, t - 1) = end - 1
  BY <1>1, <1>2, <1>5 DEF RefTime
<1>7. /\ RefTime(x, t - 1) \in Nat /\ Time(file, 0) < RefTime(x, t - 1)
  <2>1. Time(file, 0) \in Nat /\ Time(file, h) \in Nat /\ h \in All(file)
    BY <1>0, FileIs, GoodTime
  <2>2. Time(file, 0) <= Time(file, h)
    BY <1>0, <2>1 DEF WellTimed
  <2>3. Time(file, h) + 1 < end
    BY <1>1, <1>3
  <2> HIDE DEF part, end
  <2> QED BY <1>1, <1>6, <2>1, <2>2, <2>3
<1>8. /\ k \in keys /\ k \in Good(file) /\ SeekFound(file, x, k, there)
      /\ DecodeTillPictureAtPts(x, t) = till
  <2>1. TillFrom(file, x, t)
    BY <1>4, <1>7, TillIs
  <2> QED BY <2>1 DEF TillFrom
<1>9. /\ k = LastIn(KeysUnder(file, RefEnd(part) - 1)) /\ Time(file, k) < end
      /\ Time(file, k) \in Nat
  <2>1. Time(file, k) \in Nat
    BY <1>0, <1>8, GoodTime
  <2>2. Time(file, k) < RefTime(x, t - 1)
    BY <1>8 DEF KeysUnder
  <2>3. k = LastIn(KeysUnder(file, RefEnd(part) - 1))
    BY <1>6
  <2> HIDE DEF k, part, end
  <2> QED BY <1>1, <1>6, <2>1, <2>2, <2>3
<1> HIDE DEF k, keys, there, till
<1>10. /\ Still(x, there) /\ Synced(file, there) /\ there.read = Time(file, k)
       /\ Has(there.cache, Time(file, k))
  BY <1>8 DEF SeekFound
<1>11. /\ SameFilm(x, there) /\ there.segment = s /\ there.current = t
       /\ Segment(there) = part /\ RefTime(there, there.current) = end
  BY <1>4, <1>5, <1>6, <1>10, StillFilm, SegmentSame
<1>12. Kept(there)
  <2>1. RefTime(there, there.current) = RefEnd(e.segments[s])
    BY <1>11
  <2>2. Time(file, f) = e.segments[s + 1].refStart /\ s + 1 \in DOMAIN e.segments
    BY DEF Segment
  <2>3. k = LastIn(KeysUnder(file, RefEnd(e.segments[s]) - 1)) /\ Time(file, h) = e.segments[s].refStart
    BY <1>3, <1>9
  <2> QED BY <1>0, <1>3, <1>8, <2>1, <2>2, <2>3, SoughtKept
<1>13. /\ there.file = file /\ there.trusted = TRUE /\ Cut(file, there.segments)
       /\ there.segment \in DOMAIN there.segments
  BY <1>4, <1>11 DEF SameFilm
<1>14. till.answer = "elsewhere" /\ EndsFound(file, there, y)
  <2>1. till = PlayUpTo(there, EndOf(Segment(there)))
    BY <1>2, <1>11 DEF till
  <2>2. /\ Has(there.cache, there.read) /\ there.read < RefEnd(Segment(there))
        /\ RefTime(there, there.current) \in Int /\ there.read <= RefTime(there, there.current)
    BY <1>1, <1>9, <1>10, <1>11
  <2> QED BY <1>10, <1>12, <1>13, <2>1, <2>2, PlayEnds
<1> HIDE DEF y
<1>15. /\ SameFilm(there, y) /\ y.segment = s /\ Synced(file, y) /\ Ring(file, y.cache)
       /\ Used(y.cache) /\ (end <= TipTime(y.cache) \/ y.decoder.ended)
  BY <1>11, <1>14 DEF EndsFound, Synced
<1>16. PICK u \in Nat : Has(y.cache, u) /\ u < end
  BY <1>11, <1>14 DEF EndsFound
<1>17. /\ SameFilm(e, y) /\ Segment(y) = part /\ RefTime(y, t) = end
       /\ Cut(file, y.segments) /\ y.segment \in DOMAIN y.segments
  <2>1. SameFilm(e, y)
    BY <1>4, <1>11, <1>15 DEF SameFilm
  <2>2. Segment(y) = Segment(x) /\ RefTime(y, t) = RefTime(x, t)
    <3>1. SameFilm(x, y) /\ y.segment = x.segment
      BY <1>4, <1>11, <1>15 DEF SameFilm
    <3> QED BY <3>1, SegmentSame
  <2> QED BY <1>5, <1>6, <1>15, <2>1, <2>2 DEF SameFilm
<1>18. last # NoImage
  BY <1>0, <1>15, AskLast
<1>19. PICK p : LastOne(file, y.cache, end, p)
                /\ LastBefore(y.cache, last, end) = Image(p, Time(file, p))
  BY <1>0, <1>1, <1>15, <1>16, LastBeforeIs
<1>20. /\ Over(file, part, Time(file, p))
       /\ Time(file, p) = TipTime(y.cache) => y.decoder.ended
  BY <1>0, <1>1, <1>15, <1>19, LastOver
<1>21. /\ p \in Good(file) /\ Has(y.cache, Time(file, p)) /\ Time(file, p) < end
       /\ Time(file, p) \in Nat
  BY <1>0, <1>19, GoodTime DEF LastOne
<1>22. In(part, Time(file, p))
  <2>1. part.refStart <= Time(file, p)
    <3>1. SUFFICES ASSUME Time(file, p) < Time(file, h) PROVE FALSE
      BY <1>1, <1>3, <1>21
    <3>2. end <= Time(file, h)
      BY <1>20, <3>1 DEF Over
    <3> QED BY <1>1, <1>3, <3>2
  <2> QED BY <1>1, <1>21, <2>1 DEF In
<1>23. r = Deliver(y, Image(p, Time(file, p)))
  <2>1. till.e = y
    BY DEF y
  <2>2. ~(till.answer = "no" \/ RefTime(till.e, t) < 0 \/ last = None)
    BY <1>1, <1>14, <1>17, <1>18, <2>1 DEF None
  <2>3. last = GetLast(till.e.cache) /\ LastBefore(till.e.cache, last, RefTime(till.e, t)) = Image(p, Time(file, p))
    BY <1>17, <1>19, <2>1
  <2>4. x.ok = TRUE /\ x = SwitchToSegment(e, s) /\ DecodeTillPictureAtPts(x, t) = till
    BY <1>4, <1>8, <1>x
  <2> HIDE DEF last
  <2> QED BY <2>1, <2>2, <2>3, <2>4 DEF PreviousInOther, BackIn
<1>24. Displayed(file, y, p, r)
  <2>1. In(Segment(y), Time(file, p))
    BY <1>17, <1>22
  <2>2. Time(file, p) = TipTime(y.cache) /\ ~y.decoder.ended => y.read = Time(file, p)
    BY <1>20
  <2> QED BY <1>0, <1>15, <1>17, <1>21, <1>23, <2>1, <2>2, Delivered
<1>25. /\ SameFilm(y, r) /\ r.segment = y.segment /\ r.ok = TRUE /\ Synced(file, r)
       /\ PlacedAt(file, r, p)
  BY <1>24 DEF Displayed
<1>26. Segment(r) = part
  BY <1>17, <1>25, SegmentSame
<1>27. SameFilm(e, r) /\ r.segment = e.segment - 1
  <2>1. SameFilm(e, r)
    BY <1>17, <1>25 DEF SameFilm
  <2>2. s \in Nat
    BY PartIs
  <2> QED BY <1>15, <1>25, <2>1, <2>2
<1>28. \E i \in Good(file) : PlacedAt(file, r, i) /\ Over(file, Segment(r), Time(file, i))
  BY <1>20, <1>21, <1>25, <1>26
<1> QED BY <1>25, <1>27, <1>28 DEF SegmentBack

PreviousGoes(file, e, f, r) ==
  /\ SameFilm(e, r) /\ Synced(file, r)
  /\ \/ /\ r.ok = TRUE /\ r.segment = e.segment
        /\ \E g \in Good(file) : PlacedAt(file, r, g) /\ After(file, Time(file, g), f)
     \/ /\ Time(file, f) = Segment(e).refStart /\ e.segment - 1 \in DOMAIN e.segments
        /\ SegmentBack(file, e, r)
     \/ /\ Time(file, f) = Segment(e).refStart /\ e.segment = 1
        /\ r.ok = FALSE /\ r.segment = e.segment /\ PlacedAt(file, r, f)

\* A picture is at the beginning of its segment, or the time before it is in the segment.
EarlierIn(e, u, t) ==
  /\ e.segment = 1 => Segment(e).start = 0
  /\ e.segment # 1 => Segment(e).start > 0 /\ e.segment - 1 \in DOMAIN e.segments
  /\ Segment(e).refStart < u =>
       t > 0 /\ SegmentsAt(e, t - 1) = {e.segment} /\ SegmentAt(e, t - 1) = e.segment
  /\ Segment(e).refStart = u =>
       /\ t = Segment(e).start
       /\ e.segment # 1 => /\ SegmentsAt(e, t - 1) = {e.segment - 1}
                           /\ SegmentAt(e, t - 1) = e.segment - 1

LEMMA Earlier ==
  ASSUME NEW file, NEW e, Cut(file, e.segments), e.segment \in DOMAIN e.segments, NEW u \in Nat,
         In(Segment(e), u), NEW t, t = Segment(e).start + u - Segment(e).refStart
  PROVE  EarlierIn(e, u, t)
<1> DEFINE i == e.segment
           s == Segment(e)
<1>1. /\ s.refStart \in Nat /\ s.start \in Nat /\ s.duration \in Nat /\ s = e.segments[i]
      /\ EndOf(s) = s.start + s.duration
  BY PartIs DEF Segment
<1>2. i \in DOMAIN e.segments /\ i \in Nat /\ i >= 1 /\ Len(e.segments) \in Nat /\ i <= Len(e.segments)
  BY PartIs
<1>3. i = 1 => s.start = 0
  BY <1>1 DEF Cut
<1>4. u < s.refStart + s.duration /\ s.refStart <= u
  BY DEF In
<1>5. ASSUME i # 1
      PROVE  /\ i - 1 \in DOMAIN e.segments /\ s.start > 0
             /\ e.segments[i - 1].start <= s.start - 1 /\ s.start - 1 < EndOf(e.segments[i - 1])
  <2>1. DOMAIN e.segments = 1..Len(e.segments)
    BY DEF Cut
  <2>2. i - 1 \in DOMAIN e.segments
    BY <1>2, <1>5, <2>1
  <2>3. s.start = EndOf(e.segments[i - 1])
    BY <1>1, <1>2, <1>5 DEF Cut
  <2>4. /\ e.segments[i - 1].start \in Nat /\ e.segments[i - 1].start + 1 < EndOf(e.segments[i - 1])
        /\ EndOf(e.segments[i - 1]) \in Nat
    BY <2>2, PartIs
  <2> QED BY <2>2, <2>3, <2>4
<1> HIDE DEF i, s
<1>6. ASSUME s.refStart < u
      PROVE  t > 0 /\ SegmentsAt(e, t - 1) = {i} /\ SegmentAt(e, t - 1) = i
  <2>1. t = s.start + u - s.refStart
    BY DEF s
  <2>2. t - 1 \in Int /\ t > 0 /\ s.start <= t - 1 /\ t - 1 < EndOf(s)
    BY <1>1, <1>4, <1>6, <2>1
  <2> QED BY <1>1, <1>2, <2>2, SegmentIs
<1>7. ASSUME s.refStart = u
      PROVE  /\ t = s.start
             /\ i # 1 => SegmentsAt(e, t - 1) = {i - 1} /\ SegmentAt(e, t - 1) = i - 1
  <2>1. t = s.start
    BY <1>1, <1>7 DEF s
  <2>2. ASSUME i # 1 PROVE SegmentsAt(e, t - 1) = {i - 1} /\ SegmentAt(e, t - 1) = i - 1
    <3>1. t - 1 \in Int
      BY <1>1, <2>1
    <3> QED BY <1>5, <2>1, <2>2, <3>1, SegmentIs
  <2> QED BY <2>1, <2>2
<1> QED BY <1>3, <1>5, <1>6, <1>7 DEF i, s, EarlierIn

LEMMA PreviousPictureGoes ==
  ASSUME NEW file, Known(file), NEW e, e.file = file, e.trusted = TRUE, Cut(file, e.segments),
         Joined(file, e.segments), Synced(file, e), NEW f \in Good(file), PlacedAt(file, e, f),
         NEW r, r = PreviousPicture(e)
  PROVE  PreviousGoes(file, e, f, r)
<1> DEFINE s == Segment(e)
           t == e.current
           u == Time(file, f)
           cached == GetBefore(e.cache, u)
           first == u <= Time(file, 0)
<1>0. WellTimed(file) /\ Ring(file, e.cache)
  BY DEF Known, Synced
<1>1. /\ e.segment \in DOMAIN e.segments /\ In(s, u) /\ t = s.start + u - s.refStart
      /\ Has(e.cache, u)
  BY DEF PlacedAt
<1>2. /\ s.refStart \in Nat /\ s.start \in Nat /\ s.duration \in Nat /\ u \in Nat
      /\ Time(file, 0) \in Nat /\ e.segment \in Nat /\ s.refStart <= u /\ u < s.refStart + s.duration
  <2>1. s.refStart \in Nat /\ s.start \in Nat /\ s.duration \in Nat /\ e.segment \in Nat
    BY <1>1, PartIs DEF Segment
  <2>2. u \in Nat /\ Time(file, 0) \in Nat
    BY <1>0, GoodTime, FileIs
  <2> QED BY <1>1, <2>1, <2>2 DEF In
<1>3. /\ t \in Nat /\ RefTime(e, t) = u
  BY <1>0, <1>1, Clock
<1>4. /\ e.segment = 1 => s.start = 0
      /\ e.segment # 1 => s.start > 0 /\ e.segment - 1 \in DOMAIN e.segments
      /\ s.refStart < u => t > 0 /\ SegmentsAt(e, t - 1) = {e.segment} /\ SegmentAt(e, t - 1) = e.segment
      /\ s.refStart = u => /\ t = s.start
                           /\ e.segment # 1 => /\ SegmentsAt(e, t - 1) = {e.segment - 1}
                                               /\ SegmentAt(e, t - 1) = e.segment - 1
  <2>1. EarlierIn(e, u, t)
    BY <1>1, <1>2, Earlier
  <2> QED BY <2>1 DEF EarlierIn
<1>5. PICK h \in Good(file) : s.refStart = Time(file, h)
  BY <1>1 DEF Cut, Segment
<1>6. first => s.refStart = u
  <2>1. Time(file, 0) <= s.refStart
    <3>1. h \in All(file) /\ Time(file, h) \in Nat
      BY <1>0, GoodTime
    <3> QED BY <1>0, <1>2, <1>5, <3>1 DEF WellTimed
  <2> QED BY <1>2, <2>1
<1>7. FirstFramePts(e) = Time(file, 0)
  BY <1>0, FileIs
<1>8. r = IF t = 0 \/ u < 0 \/ (first /\ e.segment = 1) THEN Failed(e)
          ELSE IF cached # None /\ cached.pts < u /\ cached.pts >= s.refStart THEN Deliver(e, cached)
          ELSE IF SegmentsAt(e, t - 1) = {} THEN Failed(e)
          ELSE IF SegmentAt(e, t - 1) = e.segment THEN PreviousInSegment(e, t, u)
          ELSE IF SegmentAt(e, t - 1) + 1 # e.segment THEN [e EXCEPT !.dead = TRUE]
          ELSE PreviousInOther(e, t, SegmentAt(e, t - 1))
  <2>1. (IF first THEN s.start ELSE t) = t
    BY <1>4, <1>6
  <2>2. u = RefTime(e, t)
    BY <1>3
  <2> HIDE DEF u, t, first
  <2> QED BY <1>7, <2>1, <2>2 DEF PreviousPicture, first, t
<1>9. ASSUME r = Failed(e), s.refStart = u, e.segment = 1 PROVE PreviousGoes(file, e, f, r)
  <2>1. OnlyAnswered(file, e, r) /\ r.ok = FALSE
    BY <1>9, FailedAnswered
  <2>2. /\ SameFilm(e, r) /\ r.segment = e.segment /\ r.current = e.current /\ r.image = e.image
        /\ r.cache = e.cache /\ r.decoder = e.decoder /\ r.read = e.read /\ Synced(file, r)
    BY <2>1, StillFilm DEF OnlyAnswered
  <2>3. PlacedAt(file, r, f)
    <3>1. Has(r.cache, Time(file, f))
      BY <1>1, <2>2
    <3>2. Time(file, f) = TipTime(r.cache) /\ ~r.decoder.ended => r.read = Time(file, f)
      BY <2>2 DEF PlacedAt
    <3> QED BY <2>2, <3>1, <3>2, Stays
  <2> QED BY <1>9, <2>1, <2>2, <2>3 DEF PreviousGoes
<1>10. ASSUME NEW g \in Good(file), After(file, Time(file, g), f), Displayed(file, e, g, r)
       PROVE  PreviousGoes(file, e, f, r)
  <2>1. /\ SameFilm(e, r) /\ r.segment = e.segment /\ r.ok = TRUE /\ Synced(file, r)
        /\ PlacedAt(file, r, g)
    BY <1>10 DEF Displayed
  <2> QED BY <1>10, <2>1 DEF PreviousGoes
<1>11. CASE t = 0 \/ (first /\ e.segment = 1)
  <2>1. r = Failed(e)
    BY <1>8, <1>11
  <2>2. s.refStart = u /\ e.segment = 1
    <3>1. CASE t = 0
      <4>1. s.start = 0 /\ s.refStart = u
        <5>1. t = s.start + u - s.refStart
          BY <1>1
        <5>2. \A a, b, v \in Nat : a <= v /\ b + v - a = 0 => b = 0 /\ a = v
          OBVIOUS
        <5>3. s.refStart \in Nat /\ s.start \in Nat /\ u \in Nat /\ s.refStart <= u
          BY <1>2
        <5>4. s.start + u - s.refStart = 0
          BY <3>1, <5>1
        <5> HIDE DEF s, t, u
        <5> QED BY <5>2, <5>3, <5>4
      <4> QED BY <1>2, <1>4, <4>1
    <3>2. CASE first /\ e.segment = 1
      BY <1>6, <3>2
    <3> QED BY <1>11, <3>1, <3>2
  <2> QED BY <1>9, <2>1, <2>2
<1>12. CASE ~(t = 0 \/ (first /\ e.segment = 1))
  <2>1. ~(t = 0 \/ u < 0 \/ (first /\ e.segment = 1))
    BY <1>2, <1>12
  <2>2. CASE cached # None /\ cached.pts < u /\ cached.pts >= s.refStart
    <3>1. r = Deliver(e, cached)
      BY <1>8, <2>1, <2>2
    <3>2. u # Oldest(e.cache)
      BY <1>0, <1>1, <2>2, AskBefore DEF None
    <3>3. PICK g \in Good(file) :
            /\ Has(e.cache, Time(file, g))
            /\ \E i \in Good(file) : Time(file, i) = u /\ After(file, Time(file, g), i)
            /\ cached = Image(g, Time(file, g))
      BY <1>0, <1>1, <3>2, AskBefore
    <3>4. After(file, Time(file, g), f)
      <4>1. PICK i \in Good(file) : Time(file, i) = u /\ After(file, Time(file, g), i)
        BY <3>3
      <4>2. i = f
        BY <1>0, <4>1, GoodTime
      <4> QED BY <4>1, <4>2
    <3>5. cached.pts = Time(file, g) /\ Time(file, g) \in Nat
      BY <1>0, <3>3, GoodTime
    <3>6. In(s, Time(file, g))
      BY <1>2, <2>2, <3>5 DEF In
    <3>7. Time(file, g) # TipTime(e.cache)
      <4>1. u <= TipTime(e.cache) /\ TipTime(e.cache) \in Nat
        BY <1>0, <1>1, Member
      <4> QED BY <1>2, <2>2, <3>5, <4>1
    <3>8. Displayed(file, e, g, r)
      BY <1>0, <1>1, <3>1, <3>3, <3>6, <3>7, Delivered
    <3> QED BY <1>10, <3>4, <3>8
  <2>3. CASE ~(cached # None /\ cached.pts < u /\ cached.pts >= s.refStart)
    <3>1. CASE s.refStart < u
      <4>1. u = Oldest(e.cache)
        <5>1. SUFFICES ASSUME u # Oldest(e.cache) PROVE FALSE
          OBVIOUS
        <5>2. cached # NoImage
          BY <1>0, <1>1, <5>1, AskBefore
        <5>3. PICK g \in Good(file) :
                /\ \E i \in Good(file) : Time(file, i) = u /\ After(file, Time(file, g), i)
                /\ cached = Image(g, Time(file, g))
          BY <1>0, <1>1, <5>1, AskBefore
        <5>4. PICK i \in Good(file) : Time(file, i) = u /\ After(file, Time(file, g), i)
          BY <5>3
        <5>5. cached.pts = Time(file, g) /\ Time(file, g) \in Nat /\ Time(file, g) < u
          BY <1>0, <5>3, <5>4, GoodTime DEF After
        <5>6. Time(file, g) < Time(file, h)
          BY <1>2, <1>5, <2>3, <5>2, <5>5 DEF None
        <5>7. u <= Time(file, h)
          BY <5>4, <5>6 DEF After
        <5> QED BY <1>2, <1>5, <3>1, <5>7
      <4>2. r = PreviousInSegment(e, t, u)
        <5>1. SegmentsAt(e, t - 1) # {} /\ SegmentAt(e, t - 1) = e.segment
          BY <1>4, <3>1
        <5> QED BY <1>8, <2>1, <2>3, <5>1
      <4>3. \E g \in Good(file) : After(file, Time(file, g), f) /\ Displayed(file, e, g, r)
        BY <3>1, <4>1, <4>2, PreviousInSegmentGoes
      <4> QED BY <1>10, <4>3
    <3>2. CASE s.refStart = u
      <4>1. e.segment # 1
        BY <1>4, <2>1, <3>2
      <4> DEFINE i == e.segment - 1
      <4>2. /\ i \in DOMAIN e.segments /\ SegmentsAt(e, t - 1) # {} /\ SegmentAt(e, t - 1) = i
            /\ i + 1 = e.segment /\ i # e.segment /\ t = s.start
        <5>1. i + 1 = e.segment /\ i # e.segment
          BY <1>2
        <5>2. SegmentsAt(e, t - 1) = {i} /\ SegmentAt(e, t - 1) = i /\ t = s.start
          BY <1>4, <3>2, <4>1
        <5>3. i \in DOMAIN e.segments
          BY <1>4, <4>1
        <5> QED BY <5>1, <5>2, <5>3
      <4> HIDE DEF i
      <4>3. r = PreviousInOther(e, t, i)
        BY <1>8, <2>1, <2>3, <4>2
      <4>4. SegmentBack(file, e, r)
        BY <1>1, <3>2, <4>2, <4>3, PreviousInOtherGoes
      <4>5. SameFilm(e, r) /\ Synced(file, r)
        BY <4>4 DEF SegmentBack
      <4> QED BY <3>2, <4>2, <4>4, <4>5 DEF PreviousGoes, i
    <3> QED BY <1>2, <3>1, <3>2
  <2> QED BY <2>2, <2>3
<1> QED BY <1>11, <1>12

-----------------------------------------------------------------------------
(* The order of the film                                                   *)

Shot(file, s, f) == [at |-> When(file, s, f), frame |-> f]

\* The picture that is shown is the one at the place of the editor.
LEMMA PlaceIs ==
  ASSUME NEW file, WellTimed(file), NEW e, e.file = file, Cut(file, e.segments),
         NEW f \in Good(file), PlacedAt(file, e, f)
  PROVE  Places(e) = {Shot(file, Segment(e), f)}
<1>1. /\ e.segment \in DOMAIN e.segments /\ In(Segment(e), Time(file, f))
      /\ e.current = When(file, Segment(e), f) /\ e.image = [pts |-> e.current, pic |-> f + 1]
  BY DEF PlacedAt, When
<1>2. SegmentsAt(e, e.current) = {e.segment}
  BY <1>1, Clock DEF When
<1>3. Shot(file, Segment(e), f) \in Film(e)
  BY <1>1, FilmIs DEF Shot, Segment
<1>4. Shot(file, Segment(e), f) \in Places(e)
  BY <1>1, <1>2, <1>3 DEF Places, Shot
<1>5. ASSUME NEW p \in Places(e) PROVE p = Shot(file, Segment(e), f)
  <2>1. p \in Film(e) /\ p.at = e.current /\ e.image = [pts |-> p.at, pic |-> p.frame + 1]
    BY DEF Places
  <2>2. PICK i \in DOMAIN e.segments, g \in Good(file) :
          p = [at |-> When(file, e.segments[i], g), frame |-> g]
    BY <2>1, FilmIs
  <2>3. g \in Nat /\ f \in Nat /\ p.frame = g
    BY <2>2, GoodTime
  <2>4. f + 1 = g + 1
    <3>1. [pts |-> e.current, pic |-> f + 1].pic = [pts |-> p.at, pic |-> p.frame + 1].pic
      BY <1>1, <2>1
    <3> QED BY <2>3, <3>1
  <2>5. g = f
    BY <2>3, <2>4
  <2>6. When(file, e.segments[i], g) = When(file, Segment(e), f)
    BY <1>1, <2>1, <2>2
  <2> QED BY <2>2, <2>5, <2>6 DEF Shot
<1> QED BY <1>4, <1>5

\* One picture comes next, in the same segment or at the beginning of the next one.
Beside(file, segments, i, f, j, g) ==
  /\ i \in DOMAIN segments /\ j \in DOMAIN segments /\ f \in Good(file) /\ g \in Good(file)
  /\ In(segments[i], Time(file, f)) /\ In(segments[j], Time(file, g))
  /\ \/ i = j /\ After(file, Time(file, f), g)
     \/ /\ j = i + 1 /\ Over(file, segments[i], Time(file, f))
        /\ Time(file, g) = segments[j].refStart

LEMMA BesideFollows ==
  ASSUME NEW file, WellTimed(file), NEW e, e.file = file, Cut(file, e.segments),
         NEW i, NEW j, NEW f, NEW g, Beside(file, e.segments, i, f, j, g)
  PROVE  Follows(e, Shot(file, e.segments[i], f), Shot(file, e.segments[j], g))
<1> DEFINE S == e.segments
           p == When(file, S[i], f)
           q == When(file, S[j], g)
<1>1. /\ i \in DOMAIN S /\ j \in DOMAIN S /\ f \in Good(file) /\ g \in Good(file)
      /\ In(S[i], Time(file, f)) /\ In(S[j], Time(file, g))
      /\ \/ i = j /\ After(file, Time(file, f), g)
         \/ j = i + 1 /\ Over(file, S[i], Time(file, f)) /\ Time(file, g) = S[j].refStart
  BY DEF Beside
<1>2. ASSUME NEW k \in DOMAIN S, NEW h \in Good(file), In(S[k], Time(file, h))
      PROVE  /\ k \in Nat /\ Time(file, h) \in Nat /\ When(file, S[k], h) \in Nat
             /\ S[k].refStart \in Nat /\ S[k].start \in Nat /\ S[k].duration \in Nat
             /\ RefEnd(S[k]) = S[k].refStart + S[k].duration
             /\ EndOf(S[k]) = S[k].start + S[k].duration
             /\ S[k].start <= When(file, S[k], h) /\ When(file, S[k], h) < EndOf(S[k])
             /\ When(file, S[k], h) = S[k].start + Time(file, h) - S[k].refStart
             /\ Time(file, h) < RefEnd(S[k])
  <2>1. Time(file, h) \in Nat /\ h \in All(file)
    BY GoodTime
  <2>2. /\ When(file, S[k], h) \in Nat /\ S[k].start <= When(file, S[k], h)
        /\ When(file, S[k], h) < EndOf(S[k])
    BY <1>2, <2>1, SegmentOf
  <2>3. /\ k \in Nat /\ S[k].refStart \in Nat /\ S[k].start \in Nat /\ S[k].duration \in Nat
        /\ RefEnd(S[k]) = S[k].refStart + S[k].duration
        /\ EndOf(S[k]) = S[k].start + S[k].duration
    BY PartIs
  <2>4. Time(file, h) < RefEnd(S[k])
    BY <1>2, <2>3 DEF In
  <2> QED BY <2>1, <2>2, <2>3, <2>4 DEF When
<1>3. ASSUME NEW k \in DOMAIN S, NEW l \in DOMAIN S, k < l PROVE EndOf(S[k]) <= S[l].start
  BY <1>3, InOrder
<1> HIDE DEF S
<1>4. p < q
  <2>1. CASE i = j /\ After(file, Time(file, f), g)
    <3>1. Time(file, f) < Time(file, g)
      BY <2>1 DEF After
    <3>2. p = S[i].start + Time(file, f) - S[i].refStart /\ q = S[i].start + Time(file, g) - S[i].refStart
      BY <2>1 DEF When
    <3>3. S[i].start \in Nat /\ S[i].refStart \in Nat /\ Time(file, f) \in Nat /\ Time(file, g) \in Nat
      BY <1>1, <1>2
    <3> HIDE DEF p, q
    <3> QED BY <3>1, <3>2, <3>3
  <2>2. CASE j = i + 1
    <3>1. p < EndOf(S[i]) /\ S[j].start <= q /\ p \in Nat /\ q \in Nat /\ EndOf(S[i]) \in Nat
          /\ S[j].start \in Nat /\ i \in Nat
      BY <1>1, <1>2
    <3>2. EndOf(S[i]) <= S[j].start
      BY <1>1, <1>3, <2>2, <3>1
    <3> HIDE DEF p, q
    <3> QED BY <3>1, <3>2
  <2> QED BY <1>1, <2>1, <2>2
<1>5. ASSUME NEW r \in Film(e) PROVE r.at <= p \/ q <= r.at
  <2>1. PICK k \in DOMAIN S, h \in Good(file) :
          In(S[k], Time(file, h)) /\ r = [at |-> When(file, S[k], h), frame |-> h]
    BY FilmIs DEF S
  <2> DEFINE t == When(file, S[k], h)
  <2>2. r.at = t
    BY <2>1
  <2>3. /\ k \in Nat /\ t \in Nat /\ S[k].start \in Nat /\ EndOf(S[k]) \in Nat
        /\ S[k].start <= t /\ t < EndOf(S[k])
    BY <1>2, <2>1
  <2>4. /\ i \in Nat /\ p \in Nat /\ S[i].start \in Nat /\ EndOf(S[i]) \in Nat
        /\ S[i].start <= p /\ p < EndOf(S[i])
    BY <1>1, <1>2
  <2>5. /\ j \in Nat /\ q \in Nat /\ S[j].start \in Nat /\ EndOf(S[j]) \in Nat
        /\ S[j].start <= q /\ q < EndOf(S[j])
    BY <1>1, <1>2
  <2>6. CASE k < i
    <3>1. EndOf(S[k]) <= S[i].start
      BY <1>1, <1>3, <2>6
    <3> HIDE DEF p, q, t
    <3> QED BY <2>2, <2>3, <2>4, <3>1
  <2>7. CASE j < k
    <3>1. EndOf(S[j]) <= S[k].start
      BY <1>1, <1>3, <2>7
    <3> HIDE DEF p, q, t
    <3> QED BY <2>2, <2>3, <2>5, <3>1
  <2>8. CASE k = i
    <3>1. /\ t = S[i].start + Time(file, h) - S[i].refStart
          /\ p = S[i].start + Time(file, f) - S[i].refStart
          /\ S[i].start \in Nat /\ S[i].refStart \in Nat
          /\ Time(file, h) \in Nat /\ Time(file, f) \in Nat /\ Time(file, g) \in Nat
          /\ RefEnd(S[i]) \in Nat /\ Time(file, h) < RefEnd(S[i])
      BY <1>1, <1>2, <2>1, <2>8
    <3>2. CASE Time(file, h) <= Time(file, f)
      <4>1. t <= p
        <5> HIDE DEF p, t
        <5> QED BY <3>1, <3>2
      <4> QED BY <2>2, <4>1
    <3>3. CASE Time(file, f) < Time(file, h)
      <4>1. CASE i = j /\ After(file, Time(file, f), g)
        <5>1. Time(file, g) <= Time(file, h)
          BY <3>3, <4>1 DEF After
        <5>2. q = S[i].start + Time(file, g) - S[i].refStart
          BY <4>1 DEF When
        <5>3. q <= t
          <6> HIDE DEF q, t
          <6> QED BY <3>1, <5>1, <5>2
        <5> QED BY <2>2, <5>3
      <4>2. CASE Over(file, S[i], Time(file, f))
        <5>1. RefEnd(S[i]) <= Time(file, h)
          BY <3>3, <4>2 DEF Over
        <5> QED BY <3>1, <5>1
      <4> QED BY <1>1, <4>1, <4>2
    <3> QED BY <3>1, <3>2, <3>3
  <2>9. CASE k = j /\ j = i + 1 /\ Time(file, g) = S[j].refStart
    <3>1. q = S[j].start + Time(file, g) - S[j].refStart /\ S[j].refStart \in Nat
      BY <1>1, <1>2
    <3>2. q = S[j].start
      <4> HIDE DEF q
      <4> QED BY <2>5, <2>9, <3>1
    <3> QED BY <2>2, <2>3, <2>9, <3>2
  <2>10. k < i \/ j < k \/ k = i \/ (k = j /\ j = i + 1)
    BY <1>1, <2>3, <2>4, <2>5
  <2> QED BY <1>1, <2>6, <2>7, <2>8, <2>9, <2>10
<1>6. \A r \in Film(e) : r.at <= Shot(file, S[i], f).at \/ Shot(file, S[j], g).at <= r.at
  BY <1>5 DEF Shot
<1> QED BY <1>4, <1>6 DEF Follows, Shot, S

\* The first and the last picture of the film.
LEMMA FilmEnds ==
  ASSUME NEW file, WellTimed(file), NEW e, e.file = file, Cut(file, e.segments),
         NEW i \in DOMAIN e.segments, NEW f \in Good(file), In(e.segments[i], Time(file, f))
  PROVE  /\ i = 1 /\ Time(file, f) = e.segments[i].refStart =>
              \A q \in Film(e) : Shot(file, e.segments[i], f).at <= q.at
         /\ i = Len(e.segments) /\ Over(file, e.segments[i], Time(file, f)) =>
              \A q \in Film(e) : q.at <= Shot(file, e.segments[i], f).at
<1> DEFINE S == e.segments
           p == When(file, S[i], f)
<1>1. ASSUME NEW k \in DOMAIN S, NEW h \in Good(file), In(S[k], Time(file, h))
      PROVE  /\ k \in Nat /\ 1 <= k /\ k <= Len(S) /\ Len(S) \in Nat
             /\ Time(file, h) \in Nat /\ When(file, S[k], h) \in Nat
             /\ S[k].refStart \in Nat /\ S[k].start \in Nat /\ EndOf(S[k]) \in Nat
             /\ S[k].start <= When(file, S[k], h) /\ When(file, S[k], h) < EndOf(S[k])
             /\ Time(file, h) < RefEnd(S[k]) /\ RefEnd(S[k]) \in Nat
  <2>1. Time(file, h) \in Nat /\ h \in All(file)
    BY GoodTime
  <2>2. /\ When(file, S[k], h) \in Nat /\ S[k].start <= When(file, S[k], h)
        /\ When(file, S[k], h) < EndOf(S[k])
    BY <1>1, <2>1, SegmentOf
  <2>3. /\ k \in Nat /\ 1 <= k /\ k <= Len(S) /\ Len(S) \in Nat
        /\ S[k].refStart \in Nat /\ S[k].start \in Nat /\ EndOf(S[k]) \in Nat
        /\ RefEnd(S[k]) = S[k].refStart + S[k].duration /\ RefEnd(S[k]) \in Nat
    BY PartIs
  <2>4. Time(file, h) < RefEnd(S[k])
    BY <1>1, <2>3 DEF In
  <2> QED BY <2>1, <2>2, <2>3, <2>4
<1>2. ASSUME i = 1, Time(file, f) = S[i].refStart, NEW q \in Film(e) PROVE p <= q.at
  <2>1. PICK k \in DOMAIN S, h \in Good(file) :
          In(S[k], Time(file, h)) /\ q = [at |-> When(file, S[k], h), frame |-> h]
    BY FilmIs
  <2>2. q.at \in Nat
    BY <1>1, <2>1
  <2>3. S[i].start = 0 /\ S[i].refStart \in Nat
    BY <1>1, <1>2 DEF Cut
  <2>4. p = 0
    BY <1>2, <2>3 DEF When
  <2> QED BY <2>2, <2>4
<1>3. ASSUME i = Len(S), Over(file, S[i], Time(file, f)), NEW q \in Film(e) PROVE q.at <= p
  <2>1. PICK k \in DOMAIN S, h \in Good(file) :
          In(S[k], Time(file, h)) /\ q = [at |-> When(file, S[k], h), frame |-> h]
    BY FilmIs
  <2> DEFINE t == When(file, S[k], h)
  <2>2. q.at = t /\ t \in Nat /\ t < EndOf(S[k]) /\ EndOf(S[k]) \in Nat /\ k \in Nat /\ k <= Len(S)
    BY <1>1, <2>1
  <2>3. p \in Nat /\ S[i].start <= p /\ S[i].start \in Nat /\ i \in Nat
    BY <1>1
  <2>4. CASE k < i
    <3>1. EndOf(S[k]) <= S[i].start
      BY <2>4, InOrder
    <3> HIDE DEF p, t, S
    <3> QED BY <2>2, <2>3, <3>1
  <2>5. CASE k = i
    <3>1. Time(file, h) \in Nat /\ Time(file, f) \in Nat /\ Time(file, h) < RefEnd(S[i])
          /\ RefEnd(S[i]) \in Nat /\ S[i].refStart \in Nat
      BY <1>1, <2>1, <2>5
    <3>2. Time(file, h) <= Time(file, f)
      <4>1. SUFFICES ASSUME Time(file, f) < Time(file, h) PROVE FALSE
        BY <3>1
      <4>2. RefEnd(S[i]) <= Time(file, h)
        BY <1>3, <4>1 DEF Over
      <4> HIDE DEF S
      <4> QED BY <3>1, <4>2
    <3>3. t = S[i].start + Time(file, h) - S[i].refStart /\ p = S[i].start + Time(file, f) - S[i].refStart
      BY <2>5 DEF When
    <3>4. \A a, b, u, v \in Nat : u <= v => a + u - b <= a + v - b
      OBVIOUS
    <3>5. t <= p
      <4> HIDE DEF p, t, S
      <4> QED BY <2>3, <3>1, <3>2, <3>3, <3>4
    <3> QED BY <2>2, <3>5
  <2> QED BY <1>3, <2>2, <2>3, <2>4, <2>5
<1> QED BY <1>2, <1>3 DEF Shot

-----------------------------------------------------------------------------
(* The film that is shown                                                  *)

(* The inductive invariant: the decoder goes on where the ring ends, and a *)
(* picture of the film is shown, at its time.                              *)
Shows(film, e) ==
  /\ e.file = film.pictures /\ e.segments = film.segments
  /\ e.trusted = TRUE /\ e.dead = FALSE
  /\ Synced(film.pictures, e)
  /\ \E f \in Good(film.pictures) : PlacedAt(film.pictures, e, f)

LEMMA SameShows ==
  ASSUME NEW film, NEW e, Shows(film, e), NEW r, SameFilm(e, r), Synced(film.pictures, r),
         NEW g \in Good(film.pictures), PlacedAt(film.pictures, r, g)
  PROVE  Shows(film, r)
BY DEF Shows, SameFilm

\* A call that arrived at a picture.
Sought(film, r) == Shows(film, r) /\ r.ok = TRUE

LEMMA ArrivesShows ==
  ASSUME NEW film, NEW e, e.file = film.pictures, e.segments = film.segments,
         e.trusted = TRUE, e.dead = FALSE, NEW r, Arrives(film.pictures, e, r)
  PROVE  Sought(film, r)
BY DEF Arrives, Shows, SameFilm, Sought

LEMMA BeginShows ==
  ASSUME NEW film, Regular(film),
         NEW r, r = Rewind(NewEditor(film.pictures, film.segments, TRUE))
  PROVE  Sought(film, r)
<1> DEFINE e == NewEditor(film.pictures, film.segments, TRUE)
<1>1. /\ e.file = film.pictures /\ e.segments = film.segments /\ e.trusted = TRUE
      /\ e.dead = FALSE /\ e.cache = EmptyCache
  BY DEF NewEditor
<1> HIDE DEF e
<1>2. Ready(film.pictures, e)
  BY <1>1, EmptyRing DEF Ready
<1>3. Arrives(film.pictures, e, r)
  BY <1>1, <1>2, RewindArrives DEF Regular, e
<1> QED BY <1>1, <1>3, ArrivesShows

LEMMA SeekShows ==
  ASSUME NEW film, Regular(film), NEW e, Shows(film, e), NEW r,
         \/ r = Rewind(e)
         \/ \E t \in Times(e) : r = GoToTime(e, t)
         \/ \E t \in KeyTimes(e) : r = GoToIntraTime(e, t)
  PROVE  Sought(film, r)
<1>1. /\ e.file = film.pictures /\ e.segments = film.segments /\ e.trusted = TRUE
      /\ e.dead = FALSE /\ Synced(film.pictures, e) /\ e.segment \in DOMAIN e.segments
  BY DEF Shows, PlacedAt
<1>2. /\ Ready(film.pictures, e) /\ Known(film.pictures) /\ Cut(film.pictures, e.segments)
  BY <1>1 DEF Ready, Regular, Synced
<1>3. Arrives(film.pictures, e, r)
  <2>1. CASE r = Rewind(e)
    BY <1>2, <2>1, RewindArrives
  <2>2. CASE \E t \in Times(e) : r = GoToTime(e, t)
    BY <1>2, <2>2, SeekArrives
  <2>3. CASE \E t \in KeyTimes(e) : r = GoToIntraTime(e, t)
    BY <1>1, <1>2, <2>3, IntraArrives
  <2> QED BY <2>1, <2>2, <2>3
<1> QED BY <1>1, <1>3, ArrivesShows

\* What a call of nextPicture and of previousPicture may do.
NextRight(e, r) ==
  \A p \in Places(e) :
    IF r.ok THEN \E q \in Places(r) : Follows(e, p, q)
    ELSE \A q \in Film(e) : q.at <= p.at

PreviousRight(e, r) ==
  \A p \in Places(e) :
    IF r.ok THEN \E q \in Places(r) : Follows(e, q, p)
    ELSE \A q \in Film(e) : p.at <= q.at

LEMMA NextShows ==
  ASSUME NEW film, Regular(film), NEW e, Shows(film, e), NEW r, r = NextPicture(e, FALSE)
  PROVE  Shows(film, r) /\ NextRight(e, r)
<1> DEFINE file == film.pictures
<1>1. /\ e.file = file /\ e.trusted = TRUE /\ Synced(file, e) /\ Known(file) /\ WellTimed(file)
      /\ Cut(file, e.segments)
  BY DEF Shows, Regular, Known
<1>2. PICK f \in Good(file) : PlacedAt(file, e, f)
  BY DEF Shows
<1> HIDE DEF file
<1>3. NextGoes(file, e, f, r)
  BY <1>1, <1>2, NextPictureGoes
<1>4. /\ SameFilm(e, r) /\ Synced(file, r)
      /\ \/ /\ r.ok = TRUE /\ r.segment = e.segment
            /\ \E g \in Good(file) : PlacedAt(file, r, g) /\ After(file, Time(file, f), g)
         \/ /\ Over(file, Segment(e), Time(file, f)) /\ e.segment + 1 \in DOMAIN e.segments
            /\ SegmentStart(file, e, r)
         \/ /\ Over(file, Segment(e), Time(file, f)) /\ e.segment = Len(e.segments)
            /\ r.ok = FALSE /\ r.segment = e.segment /\ PlacedAt(file, r, f)
  BY <1>3 DEF NextGoes
<1>5. /\ Places(e) = {Shot(file, e.segments[e.segment], f)} /\ e.segment \in DOMAIN e.segments
      /\ In(e.segments[e.segment], Time(file, f))
  BY <1>1, <1>2, PlaceIs DEF PlacedAt, Segment
<1>6. r.file = file /\ r.segments = e.segments /\ Cut(file, r.segments)
  BY <1>1, <1>4 DEF SameFilm
<1>7. ASSUME NEW g \in Good(file), PlacedAt(file, r, g), r.ok = TRUE,
             Beside(file, e.segments, e.segment, f, r.segment, g)
      PROVE  Shows(film, r) /\ NextRight(e, r)
  <2>1. Shows(film, r)
    BY <1>4, <1>7, SameShows DEF file
  <2>2. Places(r) = {Shot(file, e.segments[r.segment], g)}
    <3>1. Places(r) = {Shot(file, Segment(r), g)}
      BY <1>1, <1>6, <1>7, PlaceIs
    <3> QED BY <1>6, <3>1 DEF Segment
  <2>3. Follows(e, Shot(file, e.segments[e.segment], f), Shot(file, e.segments[r.segment], g))
    BY <1>1, <1>7, BesideFollows
  <2> QED BY <1>5, <1>7, <2>1, <2>2, <2>3 DEF NextRight
<1>8. ASSUME NEW g \in Good(file), PlacedAt(file, r, g)
      PROVE  r.segment \in DOMAIN e.segments /\ In(e.segments[r.segment], Time(file, g))
  BY <1>6, <1>8 DEF PlacedAt, Segment
<1>9. CASE r.ok = TRUE /\ r.segment = e.segment
           /\ \E g \in Good(file) : PlacedAt(file, r, g) /\ After(file, Time(file, f), g)
  <2>1. PICK g \in Good(file) : PlacedAt(file, r, g) /\ After(file, Time(file, f), g)
    BY <1>9
  <2>2. Beside(file, e.segments, e.segment, f, r.segment, g)
    BY <1>5, <1>8, <1>9, <2>1 DEF Beside
  <2> QED BY <1>7, <1>9, <2>1, <2>2
<1>10. CASE /\ Over(file, Segment(e), Time(file, f)) /\ e.segment + 1 \in DOMAIN e.segments
            /\ SegmentStart(file, e, r)
  <2>1. r.segment = e.segment + 1 /\ r.ok = TRUE
    BY <1>10 DEF SegmentStart
  <2>2. PICK g \in Good(file) : PlacedAt(file, r, g) /\ Time(file, g) = Segment(r).refStart
    BY <1>10 DEF SegmentStart
  <2>3. Time(file, g) = e.segments[r.segment].refStart
    BY <1>6, <2>2 DEF Segment
  <2>4. Over(file, e.segments[e.segment], Time(file, f))
    BY <1>10 DEF Segment
  <2>5. Beside(file, e.segments, e.segment, f, r.segment, g)
    BY <1>5, <1>8, <2>1, <2>2, <2>3, <2>4 DEF Beside
  <2> QED BY <1>7, <2>1, <2>2, <2>5
<1>11. CASE /\ Over(file, Segment(e), Time(file, f)) /\ e.segment = Len(e.segments)
            /\ r.ok = FALSE /\ r.segment = e.segment /\ PlacedAt(file, r, f)
  <2>1. Shows(film, r)
    BY <1>4, <1>11, SameShows DEF file
  <2>2. \A q \in Film(e) : q.at <= Shot(file, e.segments[e.segment], f).at
    BY <1>1, <1>5, <1>11, FilmEnds DEF Segment
  <2> QED BY <1>5, <1>11, <2>1, <2>2 DEF NextRight
<1> QED BY <1>4, <1>9, <1>10, <1>11

LEMMA PreviousShows ==
  ASSUME NEW film, Regular(film), NEW e, Shows(film, e), NEW r, r = PreviousPicture(e)
  PROVE  Shows(film, r) /\ PreviousRight(e, r)
<1> DEFINE file == film.pictures
<1>1. /\ e.file = file /\ e.trusted = TRUE /\ Synced(file, e) /\ Known(file) /\ WellTimed(file)
      /\ Cut(file, e.segments) /\ Joined(file, e.segments)
  BY DEF Shows, Regular, Known
<1>2. PICK f \in Good(file) : PlacedAt(file, e, f)
  BY DEF Shows
<1> HIDE DEF file
<1>3. PreviousGoes(file, e, f, r)
  BY <1>1, <1>2, PreviousPictureGoes
<1>4. /\ SameFilm(e, r) /\ Synced(file, r)
      /\ \/ /\ r.ok = TRUE /\ r.segment = e.segment
            /\ \E g \in Good(file) : PlacedAt(file, r, g) /\ After(file, Time(file, g), f)
         \/ /\ Time(file, f) = Segment(e).refStart /\ e.segment - 1 \in DOMAIN e.segments
            /\ SegmentBack(file, e, r)
         \/ /\ Time(file, f) = Segment(e).refStart /\ e.segment = 1
            /\ r.ok = FALSE /\ r.segment = e.segment /\ PlacedAt(file, r, f)
  BY <1>3 DEF PreviousGoes
<1>5. /\ Places(e) = {Shot(file, e.segments[e.segment], f)} /\ e.segment \in DOMAIN e.segments
      /\ In(e.segments[e.segment], Time(file, f))
  BY <1>1, <1>2, PlaceIs DEF PlacedAt, Segment
<1>6. r.file = file /\ r.segments = e.segments /\ Cut(file, r.segments)
  BY <1>1, <1>4 DEF SameFilm
<1>7. ASSUME NEW g \in Good(file), PlacedAt(file, r, g), r.ok = TRUE,
             Beside(file, e.segments, r.segment, g, e.segment, f)
      PROVE  Shows(film, r) /\ PreviousRight(e, r)
  <2>1. Shows(film, r)
    BY <1>4, <1>7, SameShows DEF file
  <2>2. Places(r) = {Shot(file, e.segments[r.segment], g)}
    <3>1. Places(r) = {Shot(file, Segment(r), g)}
      BY <1>1, <1>6, <1>7, PlaceIs
    <3> QED BY <1>6, <3>1 DEF Segment
  <2>3. Follows(e, Shot(file, e.segments[r.segment], g), Shot(file, e.segments[e.segment], f))
    BY <1>1, <1>7, BesideFollows
  <2> QED BY <1>5, <1>7, <2>1, <2>2, <2>3 DEF PreviousRight
<1>8. ASSUME NEW g \in Good(file), PlacedAt(file, r, g)
      PROVE  r.segment \in DOMAIN e.segments /\ In(e.segments[r.segment], Time(file, g))
  BY <1>6, <1>8 DEF PlacedAt, Segment
<1>9. CASE r.ok = TRUE /\ r.segment = e.segment
           /\ \E g \in Good(file) : PlacedAt(file, r, g) /\ After(file, Time(file, g), f)
  <2>1. PICK g \in Good(file) : PlacedAt(file, r, g) /\ After(file, Time(file, g), f)
    BY <1>9
  <2>2. Beside(file, e.segments, r.segment, g, e.segment, f)
    BY <1>5, <1>8, <1>9, <2>1 DEF Beside
  <2> QED BY <1>7, <1>9, <2>1, <2>2
<1>10. CASE /\ Time(file, f) = Segment(e).refStart /\ e.segment - 1 \in DOMAIN e.segments
            /\ SegmentBack(file, e, r)
  <2>1. r.segment = e.segment - 1 /\ r.ok = TRUE
    BY <1>10 DEF SegmentBack
  <2>2. PICK g \in Good(file) : PlacedAt(file, r, g) /\ Over(file, Segment(r), Time(file, g))
    BY <1>10 DEF SegmentBack
  <2>3. Over(file, e.segments[r.segment], Time(file, g))
    BY <1>6, <2>2 DEF Segment
  <2>4. Time(file, f) = e.segments[e.segment].refStart
    BY <1>10 DEF Segment
  <2>5. e.segment = r.segment + 1
    <3>1. e.segment \in Nat
      BY <1>1, <1>5, PartIs
    <3> QED BY <2>1, <3>1
  <2>6. Beside(file, e.segments, r.segment, g, e.segment, f)
    BY <1>5, <1>8, <2>2, <2>3, <2>4, <2>5 DEF Beside
  <2> QED BY <1>7, <2>1, <2>2, <2>6
<1>11. CASE /\ Time(file, f) = Segment(e).refStart /\ e.segment = 1
            /\ r.ok = FALSE /\ r.segment = e.segment /\ PlacedAt(file, r, f)
  <2>1. Shows(film, r)
    BY <1>4, <1>11, SameShows DEF file
  <2>2. \A q \in Film(e) : Shot(file, e.segments[e.segment], f).at <= q.at
    BY <1>1, <1>5, <1>11, FilmEnds DEF Segment
  <2> QED BY <1>5, <1>11, <2>1, <2>2 DEF PreviousRight
<1> QED BY <1>4, <1>9, <1>10, <1>11

-----------------------------------------------------------------------------
(* The theorems                                                            *)

\* The film was opened.
Begins(film) == editor = Rewind(NewEditor(film.pictures, film.segments, TRUE))

\* The invariant of a film, and what a seek has answered.
Showing(film) ==
  Shows(film, editor) /\ (call \in {"seek", "intra", "rewind"} => editor.ok = TRUE)

LEMMA ShowingFirst ==
  ASSUME NEW film \in Films, Regular(film), Begins(film)
  PROVE  Showing(film)
BY BeginShows DEF Begins, Showing, Sought

LEMMA ShowingNext ==
  ASSUME NEW film \in Films, Regular(film), Showing(film), Next
  PROVE  /\ Showing(film)'
         /\ call' = "next" => NextRight(editor, editor')
         /\ call' = "previous" => PreviousRight(editor, editor')
<1>0. Shows(film, editor)
  BY DEF Showing
<1>1. CASE Call("next", NextPicture(editor, FALSE))
  <2>1. call' = "next" /\ editor' = NextPicture(editor, FALSE)
    BY <1>1 DEF Call
  <2>2. Shows(film, editor') /\ NextRight(editor, editor')
    BY <1>0, <2>1, NextShows
  <2> QED BY <2>1, <2>2 DEF Showing
<1>2. CASE Call("previous", PreviousPicture(editor))
  <2>1. call' = "previous" /\ editor' = PreviousPicture(editor)
    BY <1>2 DEF Call
  <2>2. Shows(film, editor') /\ PreviousRight(editor, editor')
    BY <1>0, <2>1, PreviousShows
  <2> QED BY <2>1, <2>2 DEF Showing
<1>3. CASE \/ Call("rewind", Rewind(editor))
           \/ \E t \in Times(editor) : Call("seek", GoToTime(editor, t))
           \/ \E t \in KeyTimes(editor) \ {editor.current} :
                Call("intra", GoToIntraTime(editor, t))
  <2>1. /\ call' \in {"seek", "intra", "rewind"}
        /\ \/ editor' = Rewind(editor)
           \/ \E t \in Times(editor) : editor' = GoToTime(editor, t)
           \/ \E t \in KeyTimes(editor) : editor' = GoToIntraTime(editor, t)
    BY <1>3 DEF Call
  <2>2. Sought(film, editor')
    BY <1>0, <2>1, SeekShows
  <2> QED BY <2>1, <2>2 DEF Showing, Sought
<1> QED BY <1>1, <1>2, <1>3 DEF Next

LEMMA ShowingStep ==
  ASSUME NEW film \in Films, Regular(film), Showing(film), [Next]_vars
  PROVE  Showing(film)'
<1>1. CASE Next
  BY <1>1, ShowingNext
<1>2. CASE UNCHANGED vars
  BY <1>2 DEF Showing, vars
<1> QED BY <1>1, <1>2

LEMMA ShowingOnFilm ==
  ASSUME NEW film \in Films, Regular(film), Showing(film)
  PROVE  OnFilm
<1>1. /\ editor.file = film.pictures /\ WellTimed(film.pictures)
      /\ Cut(film.pictures, editor.segments)
  BY DEF Showing, Shows, Regular, Known
<1>2. PICK f \in Good(film.pictures) : PlacedAt(film.pictures, editor, f)
  BY DEF Showing, Shows
<1>3. Places(editor) # {}
  BY <1>1, <1>2, PlaceIs
<1> QED BY <1>3 DEF OnFilm

LEMMA ShowingNeverDies ==
  ASSUME NEW film \in Films, Regular(film), Showing(film)
  PROVE  NeverDies
<1>1. /\ editor.dead = FALSE /\ WellTimed(film.pictures) /\ Ring(film.pictures, editor.cache)
  BY DEF Showing, Shows, Synced, Regular, Known
<1>2. ASSUME NEW i \in Window(editor.cache) PROVE TimeOf(editor.cache, i) # NoTime
  <2>1. TimeOf(editor.cache, i) \in Nat /\ TimeOf(editor.cache, i) < NoTime
    BY <1>1, RingEntry
  <2>2. NoTime \in Nat
    BY CacheAssumption DEF CacheAssumption
  <2> QED BY <2>1, <2>2
<1> QED BY <1>1, <1>2 DEF NeverDies, Untimed

LEMMA ShowingSeekFinds ==
  ASSUME NEW film \in Films, Regular(film), Showing(film)
  PROVE  SeekFinds
BY DEF Showing, SeekFinds

(* Of the film that was opened one picture is on screen, at its time, it   *)
(* is in the ring, and the decoder goes on where the ring ends, whatever   *)
(* the preview asked for (ADM_edRender.cpp and ADM_edRenderInternal.cpp);  *)
(* a seek to the time of a picture and going back to the start succeed.    *)
THEOREM EditorShows ==
  ASSUME NEW film \in Films, Regular(film)
  PROVE  Spec /\ Begins(film) => []Showing(film)
<1>1. Begins(film) => Showing(film)
  BY ShowingFirst
<1>2. Showing(film) /\ [Next]_vars => Showing(film)'
  BY ShowingStep
<1> QED BY <1>1, <1>2, PTL DEF Spec

(* The preview is on a picture of the film: the time the editor is at, the *)
(* segment it is in and the image delivered belong together (Deliver and   *)
(* SwitchToSegment, lines 77-83 and 659-686 of ADM_edRender.cpp).          *)
THEOREM EditorOnFilm ==
  ASSUME NEW film \in Films, Regular(film)
  PROVE  Spec /\ Begins(film) => []OnFilm
<1>1. Showing(film) => OnFilm
  BY ShowingOnFilm
<1>2. Spec /\ Begins(film) => []Showing(film)
  BY EditorShows
<1> QED BY <1>1, <1>2, PTL

(* No assertion of the editor fails (lines 469 and 539 of ADM_edRender.cpp *)
(* among them), and no entry of the ring is left without a time.           *)
THEOREM EditorNeverDies ==
  ASSUME NEW film \in Films, Regular(film)
  PROVE  Spec /\ Begins(film) => []NeverDies
<1>1. Showing(film) => NeverDies
  BY ShowingNeverDies
<1>2. Spec /\ Begins(film) => []Showing(film)
  BY EditorShows
<1> QED BY <1>1, <1>2, PTL

(* A seek to the time of a picture of the film finds it, wherever the film *)
(* was (goToTimeVideo, goToIntraTimeVideo and rewind).                     *)
THEOREM EditorSeekFinds ==
  ASSUME NEW film \in Films, Regular(film)
  PROVE  Spec /\ Begins(film) => []SeekFinds
<1>1. Showing(film) => SeekFinds
  BY ShowingSeekFinds
<1>2. Spec /\ Begins(film) => []Showing(film)
  BY EditorShows
<1> QED BY <1>1, <1>2, PTL

(* The next picture is the next of the film, within a segment and across   *)
(* its end, and it is refused at the end of the film only (nextPicture,    *)
(* lines 212-315 of ADM_edRender.cpp).                                     *)
THEOREM EditorNextIsNext ==
  ASSUME NEW film \in Films, Regular(film)
  PROVE  Spec /\ Begins(film) => NextIsNext
<1>1. Showing(film) /\ [Next]_vars =>
        [call' = "next" /\ Dependable(editor) =>
           \A p \in Places(editor) :
             IF editor'.ok THEN \E q \in Places(editor') : Follows(editor, p, q)
             ELSE \A q \in Film(editor) : q.at <= p.at]_vars
  BY ShowingNext DEF NextRight
<1>2. Spec /\ Begins(film) => []Showing(film)
  BY EditorShows
<1> QED BY <1>1, <1>2, PTL DEF Spec, NextIsNext

(* The previous picture is the one before in the film, from the ring or    *)
(* decoded again from the key picture before it, within a segment and into *)
(* the one before; it is refused at the beginning of the film only         *)
(* (previousPicture, lines 377-520 of ADM_edRender.cpp).                   *)
THEOREM EditorPreviousIsPrevious ==
  ASSUME NEW film \in Films, Regular(film)
  PROVE  Spec /\ Begins(film) => PreviousIsPrevious
<1>1. Showing(film) /\ [Next]_vars =>
        [call' = "previous" /\ Dependable(editor) =>
           \A p \in Places(editor) :
             IF editor'.ok THEN \E q \in Places(editor') : Follows(editor, q, p)
             ELSE \A q \in Film(editor) : p.at <= q.at]_vars
  BY ShowingNext DEF PreviousRight
<1>2. Spec /\ Begins(film) => []Showing(film)
  BY EditorShows
<1> QED BY <1>1, <1>2, PTL DEF Spec, PreviousIsPrevious

(* All of it, of an editor whose films are all regular and whose times are *)
(* trusted.                                                                *)
THEOREM EditorShowsEveryFilm ==
  ASSUME Trust = {TRUE}, \A film \in Films : Regular(film)
  PROVE  Spec => [](OnFilm /\ NeverDies /\ SeekFinds) /\ NextIsNext /\ PreviousIsPrevious
<1> DEFINE OneShown == \E film \in Films : Showing(film)
<1>1. Init => OneShown
  <2>1. SUFFICES ASSUME Init PROVE OneShown
    OBVIOUS
  <2>2. PICK film \in Films : Begins(film)
    BY <2>1 DEF Init, Begins
  <2> QED BY <2>2, ShowingFirst
<1>2. OneShown /\ [Next]_vars => OneShown'
  <2>1. SUFFICES ASSUME OneShown, [Next]_vars PROVE OneShown'
    OBVIOUS
  <2>2. PICK film \in Films : Showing(film)
    BY <2>1
  <2>3. Showing(film)'
    BY <2>1, <2>2, ShowingStep
  <2> QED BY <2>3
<1>3. OneShown => OnFilm /\ NeverDies /\ SeekFinds
  BY ShowingOnFilm, ShowingNeverDies, ShowingSeekFinds
<1>4. OneShown /\ [Next]_vars =>
        [call' = "next" /\ Dependable(editor) =>
           \A p \in Places(editor) :
             IF editor'.ok THEN \E q \in Places(editor') : Follows(editor, p, q)
             ELSE \A q \in Film(editor) : q.at <= p.at]_vars
  BY ShowingNext DEF NextRight
<1>5. OneShown /\ [Next]_vars =>
        [call' = "previous" /\ Dependable(editor) =>
           \A p \in Places(editor) :
             IF editor'.ok THEN \E q \in Places(editor') : Follows(editor, q, p)
             ELSE \A q \in Film(editor) : p.at <= q.at]_vars
  BY ShowingNext DEF PreviousRight
<1> HIDE DEF OneShown
<1> QED BY <1>1, <1>2, <1>3, <1>4, <1>5, PTL DEF Spec, NextIsNext, PreviousIsPrevious
=============================================================================
