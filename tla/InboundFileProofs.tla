------------------------- MODULE InboundFileProofs -------------------------
(***************************************************************************)
(* Theorems about InboundFile for any number of deliveries, pages,         *)
(* documents, attempts, faults and crashes.                                *)
(***************************************************************************)
EXTENDS InboundFile, FiniteSetTheorems, SequenceTheorems, NaturalsInduction, TLAPS

PC == {"idle", "store", "analyze", "screen", "ask", "cut", "cleanup", "mark", "list",
       "classify", "usage", "failing", "report", "ended", "dead"}

Judging == {"classify", "usage", "failing"}

\* The work a delivery holds fits the place where it stands.
WorkFits ==
  \A d \in Delivery :
    /\ cuts[d] # <<>> => pc[d] \in {"cut", "cleanup"}
    /\ pc[d] = "cut" => cuts[d] # <<>>
    /\ todo[d] # <<>> <=> pc[d] \in Judging
    /\ todo[d] = <<Whole>> \/ todo[d] \in Seq(Cut)

Screened == {"ask", "cut", "cleanup", "mark", "list"} \cup Judging
Analysing == {"analyze", "screen"} \cup Screened

\* The delivery whose insert made the row is the only one that analyses.
Alone ==
  /\ \A d, e \in Delivery : pc[d] \in Analysing /\ pc[e] \in Analysing => d = e
  /\ ~Stored(Whole) =>
       /\ ~passed
       /\ Children = {}
       /\ \A d \in Delivery : pc[d] \notin Analysing

\* Every page is in one of the parts, and in no other.
Partitions(parts, n) ==
  \A p \in 1 .. n : \E c \in parts : \A e \in parts : p \in e.from .. e.to <=> e = c

\* No child has been touched since it was stored.
ChildrenWait == \A c \in Children : row[c] = "pending"

\* The parts a delivery has still to classify wait, each of them once.
TodoWaits(d) ==
  /\ \A k \in DOMAIN todo[d] : pc[d] = "classify" \/ k > 1 => row[todo[d][k]] = "pending"
  /\ \A j, k \in DOMAIN todo[d] : todo[d][j] = todo[d][k] => j = k

\* The part at the head waits for its verdict, or has it when a call that
\* follows is made.  A file marked split by a call whose answer was lost is
\* classified over that mark.
LateSplit(r) == r = Whole /\ row[r] = "split" /\ late

HeadFits(d) ==
  /\ pc[d] = "classify" => row[Head(todo[d])] = "pending" \/ LateSplit(Head(todo[d]))
  /\ pc[d] = "usage" => row[Head(todo[d])] = "done"
  /\ pc[d] = "failing" =>
       \/ row[Head(todo[d])] = "pending" \/ LateSplit(Head(todo[d]))
       \/ row[Head(todo[d])] = "done" /\ faults > 0

\* The rows, whoever works on them.
RowsFit ==
  /\ Children # {} \/ row[Whole] \in {"split", "done"} => passed
  /\ (\E c \in Children : row[c] = "done") => row[Whole] = "split"
  /\ row[Whole] = "split" => Partitions(Children, pages)

\* The rows as the delivery that works on them finds them at each place.
PlaceFits(d) ==
  /\ pc[d] \in {"analyze", "screen"} => ~passed /\ row[Whole] = "pending" /\ Children = {}
  /\ pc[d] = "ask" => passed /\ row[Whole] = "pending" /\ Children = {}
  /\ pc[d] = "cut" =>
       /\ passed /\ row[Whole] = "pending" /\ ChildrenWait
       /\ Partitions(Children \cup Range(cuts[d]), pages)
  /\ pc[d] = "cleanup" => passed /\ row[Whole] = "pending" /\ ChildrenWait
  /\ pc[d] = "mark" => passed /\ row[Whole] = "pending" /\ ChildrenWait /\ Partitions(Children, pages)
  /\ pc[d] = "list" => passed /\ row[Whole] = "split" /\ ChildrenWait
  /\ pc[d] \in Judging /\ todo[d] = <<Whole>> =>
       /\ passed /\ ChildrenWait
       /\ Children = {} \/ late
  /\ pc[d] \in Judging /\ todo[d] # <<Whole>> =>
       passed /\ row[Whole] = "split" /\ TodoWaits(d)
  /\ pc[d] \in Judging => HeadFits(d)

FileFits == RowsFit /\ \A d \in Delivery : PlaceFits(d)

\* Every delivery that lost the file in silence goes with a failing call.
LossFits == IsFiniteSet(Silent) /\ LossIsReported

IInv == TypeOK /\ WorkFits /\ Alone /\ FileFits /\ LossFits

-----------------------------------------------------------------------------
(* The page ranges of a file are finitely many.                            *)
LEMMA CutIsFinite == IsFiniteSet(Cut)
<1> DEFINE Page == 0 .. MaxPages + 1
           range == [p \in Page \X Page |-> [from |-> p[1], to |-> p[2]]]
<1>1. IsFiniteSet(Page \X Page)
  <2>1. IsFiniteSet(Page)
    BY PositiveAssumption, FS_Interval
  <2> QED BY <2>1, FS_Product
<1>2. range \in Surjection(Page \X Page, PageRange)
  <2>1. \A r \in PageRange : <<r.from, r.to>> \in Page \X Page /\ range[<<r.from, r.to>>] = r
    BY DEF PageRange
  <2>2. range \in [Page \X Page -> PageRange]
    BY DEF PageRange
  <2> QED BY <2>1, <2>2 DEF Surjection
<1> QED
  BY <1>1, <1>2, FS_Surjection, FS_Subset DEF Cut

(* What the gate lets through with two ranges or more is a partition of the
   pages in page order (validate_file_split).                              *)
LEMMA AcceptedIsOrdered ==
  ASSUME NEW n \in 1 .. MaxPages, NEW ranges \in Accepted[n], Len(ranges) >= 2
  PROVE  ranges \in Seq(Cut) /\ Inside(ranges, n) /\ Ordered(ranges) /\ Covered(ranges, n)
<1>1. PICK a \in Answers : ranges = Gate(a, n)
  BY DEF Accepted
<1>2. PICK k \in 0 .. MaxDocuments + 1 : a \in [1 .. k -> PageRange]
  BY <1>1 DEF Answers
<1>3. a \in Seq(PageRange)
  BY <1>2, SeqDef, PositiveAssumption
<1>4. ranges = a /\ Inside(a, n) /\ Ordered(a) /\ Covered(a, n)
  BY <1>1, EmptySeq DEF Gate
<1>5. a \in [1 .. k -> Cut]
  <2> SUFFICES ASSUME NEW i \in 1 .. k PROVE a[i] \in Cut
    BY <1>2
  <2>1. a[i] \in PageRange
    BY <1>2
  <2>2. 1 <= a[i].from /\ a[i].to <= n /\ a[i].from <= a[i].to
    BY <1>2, <1>4 DEF Inside
  <2> QED BY <2>1, <2>2, PositiveAssumption DEF Cut, PageRange
<1>6. a \in Seq(Cut)
  BY <1>5, SeqDef, PositiveAssumption
<1> QED
  BY <1>4, <1>6

LEMMA LeastElement ==
  ASSUME NEW S \in SUBSET Nat, S # {}
  PROVE  \E m \in S : \A k \in S : m <= k
<1> DEFINE less == OpToRel(<, Nat)
<1>1. PICK m \in S : \A k \in S : ~(<<k, m>> \in less)
  BY WFMin, NatLessThanWellFounded
<1>2. \A k \in S : ~(k < m)
  BY <1>1 DEF OpToRel
<1> HIDE DEF less
<1>3. m \in Nat /\ \A k \in S : k \in Nat
  OBVIOUS
<1> QED
  BY <1>2, <1>3

(* In accepted ranges every page is in one range only: a range ends before all
   later ones begin, not only before the next.                             *)
LEMMA OrderedIsPartition ==
  ASSUME NEW n \in 1 .. MaxPages, NEW ranges \in Seq(Cut),
         Inside(ranges, n), Ordered(ranges), Covered(ranges, n)
  PROVE  Partitions(Range(ranges), n)
<1>0. /\ Len(ranges) \in Nat /\ DOMAIN ranges = 1 .. Len(ranges)
      /\ \A k \in DOMAIN ranges : ranges[k].from \in Nat /\ ranges[k].to \in Nat /\ ranges[k].from <= ranges[k].to
  BY LenProperties, ElementOfSeq, PositiveAssumption DEF Inside, Cut, PageRange
<1> DEFINE Late(i) == {j \in DOMAIN ranges : i < j /\ ~(ranges[i].to < ranges[j].from)}
<1>1. ASSUME NEW i \in DOMAIN ranges, NEW j \in DOMAIN ranges, i < j
      PROVE  ranges[i].to < ranges[j].from
  <2> SUFFICES ASSUME Late(i) # {} PROVE FALSE
    BY <1>1
  <2>1. Late(i) \subseteq Nat
    BY <1>0
  <2>2. PICK m \in Late(i) : \A k \in Late(i) : m <= k
    BY <2>1, LeastElement
  <2>3. m \in 2 .. Len(ranges) /\ m - 1 \in DOMAIN ranges /\ i <= m - 1
    BY <1>0
  <2>4. ranges[m].from > ranges[m - 1].to
    BY <2>3 DEF Ordered
  <2>5. CASE i = m - 1
    BY <1>0, <2>3, <2>4, <2>5
  <2>6. CASE i < m - 1
    <3>1. m - 1 \notin Late(i)
      BY <2>2, <2>3
    <3>2. ranges[i].to < ranges[m - 1].from
      BY <2>3, <2>6, <3>1
    <3> QED BY <1>0, <2>3, <2>4, <3>2
  <2> QED BY <2>3, <2>5, <2>6, <1>0
<1>2. ASSUME NEW p \in 1 .. n, NEW i \in DOMAIN ranges, NEW j \in DOMAIN ranges,
             p \in ranges[i].from .. ranges[i].to, p \in ranges[j].from .. ranges[j].to
      PROVE  i = j
  BY <1>0, <1>1, <1>2
<1>3. ASSUME NEW p \in 1 .. n
      PROVE  \E c \in Range(ranges) : \A e \in Range(ranges) : p \in e.from .. e.to <=> e = c
  <2>1. PICK i \in DOMAIN ranges : p \in ranges[i].from .. ranges[i].to
    BY DEF Covered
  <2>2. ASSUME NEW e \in Range(ranges), p \in e.from .. e.to PROVE e = ranges[i]
    <3>1. PICK j \in DOMAIN ranges : e = ranges[j]
      BY DEF Range
    <3> QED BY <1>2, <2>1, <2>2, <3>1
  <2> QED BY <2>1, <2>2 DEF Range
<1> QED
  BY <1>3 DEF Partitions

(* The children in page order are a sequence without repetition.           *)
LEMMA PageOrdersList ==
  ASSUME NEW S \in SUBSET Cut, NEW order \in PageOrders(S)
  PROVE  /\ order \in Seq(S)
         /\ order = <<>> <=> S = {}
         /\ \A i, j \in DOMAIN order : order[i] = order[j] => i = j
<1>1. IsFiniteSet(S) /\ Cardinality(S) \in Nat
  BY CutIsFinite, FS_Subset, FS_CardinalityType
<1>2. order \in [1 .. Cardinality(S) -> S]
  BY DEF PageOrders
<1>3. order \in Seq(S)
  BY <1>1, <1>2, SeqDef
<1>4. DOMAIN order = 1 .. Cardinality(S) /\ Len(order) = Cardinality(S)
  BY <1>1, <1>2, <1>3, LenProperties
<1>5. order = <<>> <=> S = {}
  BY <1>1, <1>3, <1>4, FS_EmptySet, EmptySeq
<1>6. ASSUME NEW i \in DOMAIN order, NEW j \in DOMAIN order, order[i] = order[j]
      PROVE  i = j
  <2>1. i \in Nat /\ j \in Nat /\ order[i].from \in Nat
    BY <1>1, <1>2, <1>4 DEF Cut, PageRange
  <2>2. i < j => order[i].from < order[j].from
    BY DEF PageOrders
  <2>3. j < i => order[j].from < order[i].from
    BY DEF PageOrders
  <2> QED BY <1>6, <2>1, <2>2, <2>3
<1> QED
  BY <1>3, <1>5, <1>6

-----------------------------------------------------------------------------
(* Types.                                                                  *)
LEMMA SetAnalysisType ==
  ASSUME TypeOK, NEW r, NEW status \in Verdict, SetAnalysis(r, status)
  PROVE  row' \in [Part -> {"absent", "pending"} \cup Verdict]
BY DEF TypeOK, SetAnalysis

LEMMA InsertedType == TypeOK => Inserted \in [Part -> {"absent", "pending"} \cup Verdict]
BY DEF TypeOK, Inserted

LEMMA KeepWholeType ==
  ASSUME TypeOK, NEW d \in Delivery, KeepWhole(d)
  PROVE  /\ todo' \in [Delivery -> Seq(Part)]
         /\ cuts' \in [Delivery -> Seq(Cut)]
         /\ pc' \in [Delivery -> PC]
<1>1. <<Whole>> \in Seq(Part) /\ <<>> \in Seq(Cut)
  BY EmptySeq DEF Part
<1> QED
  BY <1>1 DEF TypeOK, KeepWhole, Go, PC

LEMMA NextPartType ==
  ASSUME TypeOK, NEW d \in Delivery, todo[d] # <<>>, NextPart(d)
  PROVE  /\ todo' \in [Delivery -> Seq(Part)]
         /\ pc' \in [Delivery -> PC]
<1>1. Tail(todo[d]) \in Seq(Part)
  BY HeadTailProperties DEF TypeOK
<1> QED
  BY <1>1 DEF TypeOK, NextPart, Go, PC

LEMMA TypeInit == Init => TypeOK
<1> SUFFICES ASSUME Init PROVE TypeOK
  OBVIOUS
<1>1. /\ MaxPages \in Nat \ {0} /\ MaxAttempts \in Nat /\ MaxFaults \in Nat /\ MaxCrashes \in Nat
      /\ <<>> \in Seq(Cut) /\ <<>> \in Seq(Part)
  BY PositiveAssumption, BoundsAssumption, EmptySeq
<1>2. pages \in 1 .. MaxPages
  BY <1>1 DEF Init
<1>3. {passed, late, deleted} \subseteq BOOLEAN
  BY DEF Init
<1>4. faults \in 0 .. MaxFaults /\ crashes \in 0 .. MaxCrashes /\ attempt \in [Delivery -> 0 .. MaxAttempts]
  BY <1>1 DEF Init
<1>5. cuts \in [Delivery -> Seq(Cut)] /\ todo \in [Delivery -> Seq(Part)] /\ lost \subseteq Delivery
  BY <1>1 DEF Init
<1> QED
  BY <1>2, <1>3, <1>4, <1>5 DEF Init, TypeOK

LEMMA TypeStep ==
  ASSUME TypeOK, WorkFits, NEW d \in Delivery, Deliver(d) \/ Step(d)
  PROVE  TypeOK'
<1> USE DEF Go, fileVars, workVars, markVars, faultVars
<1>1. CASE Deliver(d)
  BY <1>1, PositiveAssumption DEF Deliver, TypeOK
<1>2. CASE Store(d)
  BY <1>2, InsertedType DEF Store, TypeOK
<1>3. CASE AttemptFails(d)
  <2>1. row' \in [Part -> {"absent", "pending"} \cup Verdict] /\ faults' \in 0 .. MaxFaults
    BY <1>3, InsertedType, BoundsAssumption DEF AttemptFails, Fault, TypeOK
  <2>2. CASE AttemptsLeft(d)
    <3>1. attempt[d] + 1 \in 0 .. MaxAttempts
      BY <2>2, PositiveAssumption DEF AttemptsLeft, TypeOK
    <3> QED BY <1>3, <2>1, <2>2, <3>1 DEF AttemptFails, TypeOK
  <2>3. CASE ~AttemptsLeft(d)
    BY <1>3, <2>1, <2>3 DEF AttemptFails, TypeOK
  <2> QED BY <2>2, <2>3
<1>4. CASE Analyze(d)
  BY <1>4, SetAnalysisType DEF Analyze, TypeOK, Verdict
<1>5. CASE Screen(d)
  BY <1>5, SetAnalysisType DEF Screen, Passes, TypeOK, Verdict
<1>6. CASE AnalysisThrows(d)
  BY <1>6, BoundsAssumption DEF AnalysisThrows, Fault, TypeOK
<1>7. CASE NoSplit(d)
  BY <1>7, KeepWholeType DEF NoSplit, TypeOK, PC
<1>8. CASE AskSplit(d)
  BY <1>8, AcceptedIsOrdered DEF AskSplit, TypeOK
<1>9. CASE StoreChild(d)
  <2>1. Head(cuts[d]) \in Cut /\ Tail(cuts[d]) \in Seq(Cut)
    BY <1>9, HeadTailProperties DEF StoreChild, WorkFits, TypeOK
  <2> QED BY <1>9, <2>1 DEF StoreChild, TypeOK, Part
<1>10. CASE StoreChildFails(d)
  BY <1>10 DEF StoreChildFails, ThenRemoveChildren, TypeOK
<1>11. CASE RemoveChildren(d)
  BY <1>11, KeepWholeType DEF RemoveChildren, TypeOK, PC
<1>12. CASE MarkSplit(d)
  BY <1>12, SetAnalysisType DEF MarkSplit, TypeOK, Verdict
<1>13. CASE ListChildren(d)
  <2>1. PICK order \in PageOrders({c \in Children : row[c] = "pending"}) :
          todo' = [todo EXCEPT ![d] = order]
    BY <1>13 DEF ListChildren
  <2>2. order \in Seq(Part)
    BY <2>1, PageOrdersList, SeqMonotonic DEF Children, Part
  <2> QED BY <1>13, <2>1, <2>2 DEF ListChildren, TypeOK
<1>14. CASE SplitFailsLate(d)
  <2>1. row' \in [Part -> {"absent", "pending"} \cup Verdict] /\ faults' \in 0 .. MaxFaults
    BY <1>14, SetAnalysisType, BoundsAssumption DEF SplitFailsLate, Fault, TypeOK, Verdict
  <2> QED BY <1>14, <2>1, KeepWholeType DEF SplitFailsLate, TypeOK, PC
<1>15. CASE Classify(d)
  BY <1>15, SetAnalysisType DEF Classify, TypeOK, Verdict
<1>16. CASE ClassifyFails(d)
  <2>1. row' \in [Part -> {"absent", "pending"} \cup Verdict] /\ faults' \in 0 .. MaxFaults
    BY <1>16, SetAnalysisType, BoundsAssumption DEF ClassifyFails, Fault, TypeOK, Verdict
  <2> QED BY <1>16, <2>1 DEF ClassifyFails, TypeOK
<1>17. CASE RecordUsage(d)
  BY <1>17, NextPartType DEF RecordUsage, WorkFits, Judging, TypeOK, PC
<1>18. CASE RecordFails(d)
  BY <1>18, BoundsAssumption DEF RecordFails, Fault, TypeOK
<1>19. CASE GiveUp(d)
  BY <1>19 DEF GiveUp, TypeOK
<1>20. CASE ReportFails(d)
  BY <1>20, BoundsAssumption DEF ReportFails, Fault, TypeOK
<1>21. CASE MarkFailed(d)
  BY <1>21, SetAnalysisType, NextPartType
     DEF MarkFailed, AfterFailure, WorkFits, Judging, TypeOK, PC, Verdict
<1>22. CASE MarkFailedFails(d)
  <2>1. row' \in [Part -> {"absent", "pending"} \cup Verdict] /\ faults' \in 0 .. MaxFaults
    BY <1>22, SetAnalysisType, BoundsAssumption DEF MarkFailedFails, Fault, TypeOK, Verdict
  <2> QED BY <1>22, <2>1, NextPartType
          DEF MarkFailedFails, AfterFailure, WorkFits, Judging, TypeOK, PC
<1> QED
  BY <1>1, <1>2, <1>3, <1>4, <1>5, <1>6, <1>7, <1>8, <1>9, <1>10, <1>11, <1>12, <1>13, <1>14,
     <1>15, <1>16, <1>17, <1>18, <1>19, <1>20, <1>21, <1>22 DEF Step

LEMMA TypeAround ==
  ASSUME TypeOK, DeleteClient \/ Crash \/ UNCHANGED vars
  PROVE  TypeOK'
<1> USE DEF fileVars, workVars, markVars, faultVars, vars
<1>1. CASE DeleteClient
  BY <1>1 DEF DeleteClient, TypeOK
<1>2. CASE Crash
  BY <1>2, BoundsAssumption, EmptySeq DEF Crash, TypeOK
<1>3. CASE UNCHANGED vars
  BY <1>3 DEF TypeOK
<1> QED BY <1>1, <1>2, <1>3

-----------------------------------------------------------------------------
(* What the writes of a row leave alone.                                   *)
LEMMA SetAnalysisFrame ==
  ASSUME TypeOK, NEW r \in Part, NEW status \in Verdict, SetAnalysis(r, status)
  PROVE  /\ Children' = Children
         /\ \A q \in Part : (row'[q] = "absent" <=> row[q] = "absent")
         /\ \A q \in Part : q # r => row'[q] = row[q]
         /\ row[r] # "absent" => row'[r] = status
         /\ row[r] = "absent" => row' = row
BY DEF TypeOK, SetAnalysis, Children, Stored, Part, Verdict

LEMMA InsertedFrame ==
  ASSUME TypeOK, row' = Inserted
  PROVE  /\ Children' = Children
         /\ \A c \in Cut : row'[c] = row[c]
         /\ row'[Whole] = IF Stored(Whole) THEN row[Whole] ELSE "pending"
         /\ Stored(Whole)'
BY WholeAssumption DEF TypeOK, Inserted, Children, Stored, Part

LEMMA EmptyIffNoLength ==
  ASSUME NEW S, NEW s \in Seq(S)
  PROVE  s = <<>> <=> Len(s) = 0
BY EmptySeq

LEMMA TailIsEmpty ==
  ASSUME NEW S, NEW s \in Seq(S), s # <<>>
  PROVE  Tail(s) = <<>> <=> Len(s) = 1
<1> DEFINE rest == Tail(s)
<1>1. rest \in Seq(S) /\ Len(rest) = Len(s) - 1 /\ Len(s) \in Nat
  BY HeadTailProperties, LenProperties
<1>2. rest = <<>> <=> Len(rest) = 0
  BY <1>1, EmptyIffNoLength
<1> QED
  BY <1>1, <1>2

LEMMA TailElement ==
  ASSUME NEW S, NEW s \in Seq(S), s # <<>>
  PROVE  /\ 1 \in DOMAIN s /\ Head(s) = s[1]
         /\ \A k \in DOMAIN Tail(s) : k + 1 \in DOMAIN s /\ k \in Nat \ {0} /\ Tail(s)[k] = s[k + 1]
         /\ \A k \in DOMAIN s : k = 1 \/ k - 1 \in DOMAIN Tail(s)
BY HeadTailProperties, LenProperties, EmptySeq

LEMMA NoCutIsWhole ==
  ASSUME NEW s \in Seq(Cut)
  PROVE  s # <<Whole>>
<1> SUFFICES ASSUME s = <<Whole>> PROVE FALSE
  OBVIOUS
<1>1. Len(s) = 1 /\ s[1] = Whole
  OBVIOUS
<1>2. s[1] \in Cut
  BY <1>1, ElementOfSeq
<1> QED
  BY <1>1, <1>2, WholeAssumption

LEMMA HeadType ==
  ASSUME TypeOK, WorkFits, NEW d \in Delivery, todo[d] # <<>>
  PROVE  /\ Head(todo[d]) \in Part
         /\ todo[d] = <<Whole>> => Head(todo[d]) = Whole /\ Tail(todo[d]) = <<>>
         /\ todo[d] # <<Whole>> => Head(todo[d]) \in Cut /\ Tail(todo[d]) \in Seq(Cut)
         /\ Tail(todo[d]) = <<>> <=> Len(todo[d]) = 1
<1>1. todo[d] \in Seq(Part) /\ <<Whole>> \in Seq(Part)
  BY EmptySeq DEF TypeOK, Part
<1>2. /\ Head(todo[d]) \in Part /\ Tail(todo[d]) \in Seq(Part)
      /\ Len(Tail(todo[d])) = Len(todo[d]) - 1 /\ Len(todo[d]) \in Nat
  BY <1>1, HeadTailProperties, LenProperties
<1>3. Tail(todo[d]) = <<>> <=> Len(todo[d]) = 1
  BY <1>1, TailIsEmpty
<1>4. ASSUME todo[d] = <<Whole>> PROVE Head(todo[d]) = Whole /\ Tail(todo[d]) = <<>>
  BY <1>3, <1>4
<1>5. ASSUME todo[d] # <<Whole>> PROVE Head(todo[d]) \in Cut /\ Tail(todo[d]) \in Seq(Cut)
  <2>1. todo[d] \in Seq(Cut)
    BY <1>5 DEF WorkFits
  <2> QED BY <2>1, HeadTailProperties
<1> QED
  BY <1>2, <1>3, <1>4, <1>5

(* A step of a delivery, other than one that stores or removes rows, may give
   a verdict to one part and leaves the others alone.                      *)
SameParts ==
  /\ Children' = Children
  /\ \A q \in Part : row'[q] = "absent" <=> row[q] = "absent"

LEMMA RowStep ==
  ASSUME IInv, NEW d \in Delivery, NEW r, NEW status \in Verdict, SetAnalysis(r, status),
         r = Whole \/ (todo[d] # <<>> /\ r = Head(todo[d]))
  PROVE  /\ SameParts
         /\ r \in Part
         /\ \A q \in Part : q # r => row'[q] = row[q]
         /\ row[r] # "absent" => row'[r] = status
         /\ row[r] = "absent" => row' = row
<1>1. r \in Part
  BY HeadType DEF IInv, Part
<1> QED
  BY <1>1, SetAnalysisFrame DEF IInv, SameParts

(* What the first look at a stored file and the screen may do.             *)
LEMMA AnalyzeCases ==
  ASSUME IInv, NEW d \in Delivery, Analyze(d)
  PROVE  /\ pc[d] = "analyze"
         /\ UNCHANGED <<kind, pages, attempt, cuts, todo, lost, passed, late, deleted, faults, crashes>>
         /\ \/ deleted /\ UNCHANGED row /\ Go(d, "ended")
            \/ ~deleted /\ UNCHANGED row /\ Go(d, "screen")
            \/ ~deleted /\ Go(d, "ended") /\ \E status \in {"unsupported", "failed"} : SetAnalysis(Whole, status)
BY DEF IInv, TypeOK, Analyze, fileVars, workVars, markVars, faultVars

LEMMA ScreenCases ==
  ASSUME NEW d \in Delivery, Screen(d)
  PROVE  /\ pc[d] = "screen"
         /\ UNCHANGED <<kind, pages, attempt, cuts, todo, lost, late, deleted, faults, crashes>>
         /\ \/ passed' /\ UNCHANGED row /\ Go(d, "ask")
            \/ ~passed' /\ SetAnalysis(Whole, "blocked") /\ Go(d, "ended")
BY DEF Screen, Passes, fileVars, workVars, markVars, faultVars

-----------------------------------------------------------------------------
(* One delivery at most analyses: the one whose insert made the row.       *)
LEMMA AloneStep ==
  ASSUME IInv, NEW d \in Delivery, Deliver(d) \/ Step(d)
  PROVE  Alone'
<1> USE DEF Go, fileVars, workVars, markVars, faultVars, IInv
<1>1. CASE Deliver(d)
  BY <1>1 DEF Deliver, Alone, TypeOK, Analysing, Screened, Judging, Verdict, Part, Children, Stored,
       WorkFits, SameParts, InsertIfNew
<1>2. CASE Store(d)
  <2>1. CASE Stored(Whole)
    BY <1>2, <2>1, InsertedFrame DEF Store, Inserted, Alone, TypeOK, Analysing, Screened,
         Judging, Verdict,
         Part, Children, Stored, WorkFits, SameParts, InsertIfNew
  <2>2. CASE ~Stored(Whole)
    BY <1>2, <2>2, InsertedFrame DEF Store, Inserted, Alone, TypeOK, Analysing, Screened,
         Judging, Verdict,
         Part, Children, Stored, WorkFits, SameParts, InsertIfNew
  <2> QED BY <2>1, <2>2
<1>3. CASE AttemptFails(d)
  BY <1>3, InsertedFrame DEF AttemptFails, Inserted, AttemptsLeft, Fault, Alone, TypeOK,
       Analysing, Screened, Judging, Verdict, Part, Children, Stored, WorkFits, SameParts, InsertIfNew
<1>4. CASE Analyze(d)
  <2>1. SameParts
    BY <1>4, AnalyzeCases, RowStep DEF Verdict, SameParts, Children, Stored
  <2>2. pc[d] \in Analysing /\ Stored(Whole)'
    BY <1>4, <2>1, AnalyzeCases DEF Alone, Analysing, Stored, SameParts, Part
  <2>3. \E place \in {"ended", "screen"} : Go(d, place)
    BY <1>4, AnalyzeCases
  <2> QED BY <2>1, <2>2, <2>3 DEF Alone, TypeOK, Analysing, Screened, Judging, SameParts
<1>5. CASE Screen(d)
  <2>1. SameParts
    BY <1>5, ScreenCases, RowStep DEF Verdict, SameParts, Children, Stored
  <2>2. pc[d] \in Analysing /\ Stored(Whole)'
    BY <1>5, <2>1, ScreenCases DEF Alone, Analysing, Stored, SameParts, Part
  <2>3. \E place \in {"ended", "ask"} : Go(d, place)
    BY <1>5, ScreenCases
  <2> QED BY <2>1, <2>2, <2>3 DEF Alone, TypeOK, Analysing, Screened, Judging, SameParts
<1>6. CASE AnalysisThrows(d)
  BY <1>6 DEF AnalysisThrows, Fault, Alone, TypeOK, Analysing, Screened, Judging, Verdict, Part,
       Children,
       Stored, WorkFits, SameParts, InsertIfNew
<1>7. CASE NoSplit(d)
  BY <1>7 DEF NoSplit, KeepWhole, Alone, TypeOK, Analysing, Screened, Judging, Verdict, Part,
       Children,
       Stored, WorkFits, SameParts, InsertIfNew
<1>8. CASE AskSplit(d)
  BY <1>8 DEF AskSplit, Alone, TypeOK, Analysing, Screened, Judging, Verdict, Part, Children,
       Stored,
       WorkFits, SameParts, InsertIfNew
<1>9. CASE StoreChild(d)
  BY <1>9 DEF StoreChild, Alone, TypeOK, Analysing, Screened, Judging, Verdict, Part, Children,
       Stored,
       WorkFits, SameParts, InsertIfNew
<1>10. CASE StoreChildFails(d)
  BY <1>10 DEF StoreChildFails, ThenRemoveChildren, Alone, TypeOK, Analysing, Screened, Judging,
       Verdict,
       Part, Children, Stored, WorkFits, SameParts, InsertIfNew
<1>11. CASE RemoveChildren(d)
  BY <1>11 DEF RemoveChildren, KeepWhole, Alone, TypeOK, Analysing, Screened, Judging, Verdict,
       Part,
       Children, Stored, WorkFits, SameParts, InsertIfNew
<1>12. CASE MarkSplit(d)
  BY <1>12, RowStep DEF MarkSplit, Alone, TypeOK, Analysing, Screened, Judging, Verdict, Part,
       Children,
       Stored, WorkFits, SameParts, InsertIfNew
<1>13. CASE ListChildren(d)
  BY <1>13 DEF ListChildren, Alone, TypeOK, Analysing, Screened, Judging, Verdict, Part,
       Children, Stored,
       WorkFits, SameParts, InsertIfNew
<1>14. CASE SplitFailsLate(d)
  BY <1>14, RowStep DEF SplitFailsLate, Fault, KeepWhole, Alone, TypeOK, Analysing, Screened,
       Judging,
       Verdict, Part, Children, Stored, WorkFits, SameParts, InsertIfNew
<1>15. CASE Classify(d)
  <2>1. todo[d] # <<>> /\ pc[d] \in Analysing
    BY <1>15 DEF Classify, WorkFits, Judging, Analysing, Screened
  <2>2. SameParts
    BY <1>15, <2>1, RowStep DEF Classify, SameParts, Children, Stored, Verdict
  <2>3. pc' = [pc EXCEPT ![d] = pc'[d]] /\ passed' = passed
    BY <1>15 DEF Classify, TypeOK
  <2> QED BY <2>1, <2>2, <2>3 DEF Alone, TypeOK, Analysing, Screened, Judging, Stored, Children,
       SameParts, Part
<1>16. CASE ClassifyFails(d)
  <2>1. todo[d] # <<>> /\ pc[d] \in Analysing
    BY <1>16 DEF ClassifyFails, WorkFits, Judging, Analysing, Screened
  <2>2. SameParts
    BY <1>16, <2>1, RowStep DEF ClassifyFails, SameParts, Children, Stored, Verdict
  <2>3. pc' = [pc EXCEPT ![d] = pc'[d]] /\ passed' = passed
    BY <1>16 DEF ClassifyFails, Fault, TypeOK
  <2> QED BY <2>1, <2>2, <2>3 DEF Alone, TypeOK, Analysing, Screened, Judging, Stored, Children,
       SameParts, Part
<1>17. CASE RecordUsage(d)
  <2>1. todo[d] # <<>> /\ pc[d] \in Analysing
    BY <1>17 DEF RecordUsage, WorkFits, Judging, Analysing, Screened
  <2>2. SameParts
    BY <1>17, <2>1, RowStep DEF RecordUsage, SameParts, Children, Stored, Verdict
  <2>3. pc' = [pc EXCEPT ![d] = pc'[d]] /\ passed' = passed
    BY <1>17 DEF RecordUsage, NextPart, TypeOK
  <2> QED BY <2>1, <2>2, <2>3 DEF Alone, TypeOK, Analysing, Screened, Judging, Stored, Children,
       SameParts, Part
<1>18. CASE RecordFails(d)
  <2>1. todo[d] # <<>> /\ pc[d] \in Analysing
    BY <1>18 DEF RecordFails, WorkFits, Judging, Analysing, Screened
  <2>2. SameParts
    BY <1>18, <2>1, RowStep DEF RecordFails, SameParts, Children, Stored, Verdict
  <2>3. pc' = [pc EXCEPT ![d] = pc'[d]] /\ passed' = passed
    BY <1>18 DEF RecordFails, Fault, TypeOK
  <2> QED BY <2>1, <2>2, <2>3 DEF Alone, TypeOK, Analysing, Screened, Judging, Stored, Children,
       SameParts, Part
<1>21. CASE MarkFailed(d)
  <2>1. todo[d] # <<>> /\ pc[d] \in Analysing
    BY <1>21 DEF MarkFailed, WorkFits, Judging, Analysing, Screened
  <2>2. SameParts
    BY <1>21, <2>1, RowStep DEF MarkFailed, SameParts, Children, Stored, Verdict
  <2>3. pc' = [pc EXCEPT ![d] = pc'[d]] /\ passed' = passed
    BY <1>21 DEF MarkFailed, AfterFailure, NextPart, TypeOK
  <2> QED BY <2>1, <2>2, <2>3 DEF Alone, TypeOK, Analysing, Screened, Judging, Stored, Children,
       SameParts, Part
<1>22. CASE MarkFailedFails(d)
  <2>1. todo[d] # <<>> /\ pc[d] \in Analysing
    BY <1>22 DEF MarkFailedFails, WorkFits, Judging, Analysing, Screened
  <2>2. SameParts
    BY <1>22, <2>1, RowStep DEF MarkFailedFails, SameParts, Children, Stored, Verdict
  <2>3. pc' = [pc EXCEPT ![d] = pc'[d]] /\ passed' = passed
    BY <1>22 DEF MarkFailedFails, Fault, AfterFailure, NextPart, TypeOK
  <2> QED BY <2>1, <2>2, <2>3 DEF Alone, TypeOK, Analysing, Screened, Judging, Stored, Children,
       SameParts, Part
<1>19. CASE GiveUp(d)
  BY <1>19 DEF GiveUp, Alone, TypeOK, Analysing, Screened, Judging, Stored, Children, SameParts,
       Part
<1>20. CASE ReportFails(d)
  BY <1>20 DEF ReportFails, Fault, Alone, TypeOK, Analysing, Screened, Judging, Stored, Children,
       SameParts, Part
<1> QED
  BY <1>1, <1>2, <1>3, <1>4, <1>5, <1>6, <1>7, <1>8, <1>9, <1>10, <1>11, <1>12, <1>13, <1>14,
     <1>15, <1>16, <1>17, <1>18, <1>19, <1>20, <1>21, <1>22 DEF Step

(* The ranges and the parts a delivery holds fit its place.                *)
LEMMA WorkStep ==
  ASSUME IInv, NEW d \in Delivery, Deliver(d) \/ Step(d)
  PROVE  WorkFits'
<1> USE DEF Go, fileVars, workVars, markVars, faultVars, IInv
<1>1. CASE Deliver(d)
  BY <1>1 DEF Deliver, WorkFits, Judging, TypeOK
<1>2. CASE Store(d)
  BY <1>2, InsertedFrame DEF Store, Inserted, WorkFits, Judging, TypeOK
<1>3. CASE AttemptFails(d)
  BY <1>3, InsertedFrame DEF AttemptFails, Inserted, AttemptsLeft, Fault, WorkFits, Judging, TypeOK
<1>4. CASE Analyze(d)
  <2>1. UNCHANGED <<cuts, todo>> /\ pc[d] = "analyze" /\ \E place \in {"ended", "screen"} : Go(d, place)
    BY <1>4, AnalyzeCases
  <2> QED BY <2>1 DEF WorkFits, Judging, TypeOK
<1>5. CASE Screen(d)
  BY <1>5, RowStep DEF Screen, Passes, WorkFits, Judging, TypeOK
<1>6. CASE AnalysisThrows(d)
  BY <1>6 DEF AnalysisThrows, Fault, WorkFits, Judging, TypeOK
<1>7. CASE NoSplit(d)
  BY <1>7 DEF NoSplit, KeepWhole, WorkFits, Judging, TypeOK
<1>8. CASE AskSplit(d)
  BY <1>8 DEF AskSplit, WorkFits, Judging, TypeOK
<1>9. CASE StoreChild(d)
  <2>1. Tail(cuts[d]) = <<>> <=> Len(cuts[d]) = 1
    BY <1>9, TailIsEmpty DEF StoreChild, WorkFits, Judging, TypeOK
  <2> QED BY <1>9, <2>1 DEF StoreChild, WorkFits, Judging, TypeOK
<1>10. CASE StoreChildFails(d)
  BY <1>10 DEF StoreChildFails, ThenRemoveChildren, WorkFits, Judging, TypeOK
<1>11. CASE RemoveChildren(d)
  BY <1>11 DEF RemoveChildren, KeepWhole, WorkFits, Judging, TypeOK
<1>12. CASE MarkSplit(d)
  BY <1>12, RowStep DEF MarkSplit, WorkFits, Judging, TypeOK
<1>13. CASE ListChildren(d)
  <2>1. PICK order \in PageOrders({c \in Children : row[c] = "pending"}) :
          todo' = [todo EXCEPT ![d] = order]
    BY <1>13 DEF ListChildren
  <2>2. order \in Seq(Cut) /\ (order = <<>> <=> {c \in Children : row[c] = "pending"} = {})
    BY <2>1, PageOrdersList, SeqMonotonic DEF Children
  <2> QED BY <1>13, <2>1, <2>2 DEF ListChildren, WorkFits, Judging, TypeOK
<1>14. CASE SplitFailsLate(d)
  BY <1>14, RowStep DEF SplitFailsLate, Fault, KeepWhole, WorkFits, Judging, TypeOK
<1>15. CASE Classify(d)
  BY <1>15, RowStep, HeadType DEF Classify, WorkFits, Judging, TypeOK
<1>16. CASE ClassifyFails(d)
  BY <1>16, RowStep, HeadType DEF ClassifyFails, Fault, WorkFits, Judging, TypeOK
<1>18. CASE RecordFails(d)
  BY <1>18 DEF RecordFails, Fault, WorkFits, Judging, TypeOK
<1>19. CASE GiveUp(d)
  BY <1>19 DEF GiveUp, WorkFits, Judging, TypeOK
<1>20. CASE ReportFails(d)
  BY <1>20 DEF ReportFails, Fault, WorkFits, Judging, TypeOK
<1>17. CASE RecordUsage(d)
  <2>1. Tail(todo[d]) = <<>> <=> Len(todo[d]) = 1
    BY <1>17, HeadType DEF RecordUsage, WorkFits, Judging, TypeOK
  <2>2. Tail(todo[d]) = <<>> \/ Tail(todo[d]) \in Seq(Cut)
    BY <1>17, HeadType DEF RecordUsage, WorkFits, Judging, TypeOK
  <2> QED BY <1>17, <2>1, <2>2, EmptySeq DEF RecordUsage, NextPart, WorkFits, Judging, TypeOK
<1>21. CASE MarkFailed(d)
  <2>1. Tail(todo[d]) = <<>> <=> Len(todo[d]) = 1
    BY <1>21, HeadType DEF MarkFailed, WorkFits, Judging, TypeOK
  <2>2. Tail(todo[d]) = <<>> \/ Tail(todo[d]) \in Seq(Cut)
    BY <1>21, HeadType DEF MarkFailed, WorkFits, Judging, TypeOK
  <2> QED BY <1>21, <2>1, <2>2, EmptySeq DEF MarkFailed, AfterFailure, NextPart, WorkFits,
       Judging, TypeOK
<1>22. CASE MarkFailedFails(d)
  <2>1. Tail(todo[d]) = <<>> <=> Len(todo[d]) = 1
    BY <1>22, HeadType DEF MarkFailedFails, WorkFits, Judging, TypeOK
  <2>2. Tail(todo[d]) = <<>> \/ Tail(todo[d]) \in Seq(Cut)
    BY <1>22, HeadType DEF MarkFailedFails, WorkFits, Judging, TypeOK
  <2> QED BY <1>22, <2>1, <2>2, EmptySeq DEF MarkFailedFails, Fault, AfterFailure, NextPart,
       WorkFits, Judging, TypeOK
<1> QED
  BY <1>1, <1>2, <1>3, <1>4, <1>5, <1>6, <1>7, <1>8, <1>9, <1>10, <1>11, <1>12, <1>13, <1>14,
     <1>15, <1>16, <1>17, <1>18, <1>19, <1>20, <1>21, <1>22 DEF Step

(* The whole file, once stored, stays stored.                              *)
LEMMA WholeStays ==
  ASSUME IInv, NEW d \in Delivery, Step(d), Stored(Whole)
  PROVE  Stored(Whole)'
<1>1. CASE Store(d) \/ AttemptFails(d)
  BY <1>1, InsertedFrame DEF Store, AttemptFails, IInv, Stored
<1>2. CASE StoreChild(d) \/ RemoveChildren(d)
  BY <1>2, WholeAssumption DEF StoreChild, RemoveChildren, IInv, TypeOK, Stored, Part
<1>3. ASSUME NEW r, \E status \in Verdict : SetAnalysis(r, status) PROVE Stored(Whole)'
  BY <1>3 DEF SetAnalysis, IInv, TypeOK, Stored, Verdict, Part
<1>4. CASE row' = row
  BY <1>4 DEF Stored
<1>5. \/ Store(d) \/ AttemptFails(d) \/ StoreChild(d) \/ RemoveChildren(d) \/ row' = row
      \/ SetAnalysis(Whole, "unsupported") \/ SetAnalysis(Whole, "failed")
      \/ SetAnalysis(Whole, "blocked") \/ SetAnalysis(Whole, "split")
      \/ SetAnalysis(Head(todo[d]), "done") \/ SetAnalysis(Head(todo[d]), "failed")
  BY AnalyzeCases DEF Step, GiveUp, ReportFails, Screen, AnalysisThrows, NoSplit, AskSplit,
         StoreChildFails, MarkSplit, ListChildren, SplitFailsLate, Classify, ClassifyFails,
         RecordUsage, RecordFails, MarkFailed, MarkFailedFails
<1> QED
  BY <1>1, <1>2, <1>3, <1>4, <1>5 DEF Verdict

\* A step of a delivery moves no other.
LEMMA OthersStay ==
  ASSUME IInv, NEW d \in Delivery, Deliver(d) \/ Step(d), NEW e \in Delivery, e # d
  PROVE  pc'[e] = pc[e]
<1> USE DEF Go, IInv, TypeOK
<1>1. CASE Deliver(d) \/ Store(d) \/ AttemptFails(d) \/ GiveUp(d) \/ ReportFails(d)
  BY <1>1 DEF Deliver, Store, AttemptFails, GiveUp, ReportFails
<1>2. CASE Analyze(d) \/ Screen(d) \/ AnalysisThrows(d) \/ NoSplit(d) \/ AskSplit(d)
  BY <1>2 DEF Analyze, Screen, AnalysisThrows, NoSplit, AskSplit, KeepWhole
<1>3. CASE \/ StoreChild(d) \/ StoreChildFails(d) \/ RemoveChildren(d) \/ MarkSplit(d)
           \/ ListChildren(d) \/ SplitFailsLate(d)
  BY <1>3 DEF StoreChild, StoreChildFails, ThenRemoveChildren, RemoveChildren, KeepWhole, MarkSplit,
       ListChildren, SplitFailsLate
<1>4. CASE \/ Classify(d) \/ ClassifyFails(d) \/ RecordUsage(d) \/ RecordFails(d)
           \/ MarkFailed(d) \/ MarkFailedFails(d)
  BY <1>4 DEF Classify, ClassifyFails, RecordUsage, RecordFails, MarkFailed, MarkFailedFails,
       AfterFailure, NextPart
<1> QED
  BY <1>1, <1>2, <1>3, <1>4 DEF Step

(* Whoever ends has stored the file, found it stored, or reported it, but for
   the one whose report fails.                                             *)
LEMMA LossStep ==
  ASSUME IInv, NEW d \in Delivery, Deliver(d) \/ Step(d)
  PROVE  LossFits'
<1> USE DEF fileVars, workVars, markVars, faultVars
<1>0. faults \in Nat /\ pc \in [Delivery -> PC]
  BY BoundsAssumption DEF IInv, TypeOK, PC
<1>1. lost \subseteq lost' /\ faults' \in {faults, faults + 1} /\ \A e \in Delivery : e # d => pc'[e] = pc[e]
  <2>1. lost \subseteq lost'
    BY DEF Deliver, Step, Store, AttemptFails, GiveUp, ReportFails, Analyze, Screen, AnalysisThrows,
         NoSplit, AskSplit, StoreChild, StoreChildFails, RemoveChildren, MarkSplit, ListChildren,
         SplitFailsLate, Classify, ClassifyFails, RecordUsage, RecordFails, MarkFailed, MarkFailedFails
  <2>2. faults' \in {faults, faults + 1}
    BY DEF Fault,
         Deliver, Step, Store, AttemptFails, GiveUp, ReportFails, Analyze, Screen, AnalysisThrows,
         NoSplit, AskSplit, StoreChild, StoreChildFails, RemoveChildren, MarkSplit, ListChildren,
         SplitFailsLate, Classify, ClassifyFails, RecordUsage, RecordFails, MarkFailed, MarkFailedFails
  <2>3. \A e \in Delivery : e # d => pc'[e] = pc[e]
    BY OthersStay
  <2> QED BY <2>1, <2>2, <2>3
<1>2. Stored(Whole) => Stored(Whole)'
  BY WholeStays DEF Deliver, Stored
<1>3. pc[d] \in Analysing => Stored(Whole)
  BY DEF IInv, Alone
<1>4. CASE ReportFails(d)
  <2>1. Silent' \subseteq Silent \cup {d}
    BY <1>1, <1>2 DEF Silent
  <2>2. /\ IsFiniteSet(Silent \cup {d})
        /\ Cardinality(Silent \cup {d}) <= Cardinality(Silent) + 1
        /\ Cardinality(Silent) \in Nat
    <3>1. IsFiniteSet(Silent)
      BY DEF IInv, LossFits
    <3> HIDE DEF Silent
    <3>2. Cardinality(Silent) \in Nat
      BY <3>1, FS_CardinalityType
    <3>3. /\ IsFiniteSet(Silent \cup {d})
          /\ Cardinality(Silent \cup {d}) = IF d \in Silent THEN Cardinality(Silent) ELSE Cardinality(Silent) + 1
      BY <3>1, FS_AddElement
    <3> QED BY <3>2, <3>3
  <2>3. IsFiniteSet(Silent') /\ Cardinality(Silent') <= Cardinality(Silent \cup {d})
    BY <2>1, <2>2, FS_Subset
  <2>4. Cardinality(Silent') \in Nat /\ Cardinality(Silent \cup {d}) \in Nat
    BY <2>2, <2>3, FS_CardinalityType
  <2>5. faults' = faults + 1 /\ Cardinality(Silent) <= faults
    BY <1>4 DEF ReportFails, Fault, IInv, LossFits, LossIsReported
  <2> QED BY <1>0, <2>2, <2>3, <2>4, <2>5 DEF LossFits, LossIsReported
<1>5. CASE ~ReportFails(d)
  <2>1. pc'[d] = "ended" => Stored(Whole)' \/ d \in lost' \/ pc[d] = "ended"
    <3>1. CASE pc[d] \in Analysing
      BY <1>2, <1>3, <3>1
    <3>2. CASE Deliver(d)
      BY <1>0, <3>2 DEF Deliver, Go
    <3>3. CASE Store(d)
      BY <3>3, InsertedFrame DEF Store, IInv
    <3>4. CASE AttemptFails(d)
      BY <1>0, <3>4 DEF AttemptFails, Go
    <3>5. CASE GiveUp(d)
      BY <3>5 DEF GiveUp
    <3> QED BY <1>5, <3>1, <3>2, <3>3, <3>4, <3>5
            DEF Analysing, Screened, Judging, Step, Analyze, Screen, AnalysisThrows, NoSplit, AskSplit,
                StoreChild, StoreChildFails, RemoveChildren, MarkSplit, ListChildren, SplitFailsLate,
                Classify, ClassifyFails, RecordUsage, RecordFails, MarkFailed, MarkFailedFails
  <2>2. Silent' \subseteq Silent
    BY <1>1, <1>2, <2>1 DEF Silent
  <2>3. /\ IsFiniteSet(Silent') /\ Cardinality(Silent') <= Cardinality(Silent)
        /\ Cardinality(Silent) \in Nat /\ Cardinality(Silent) <= faults
    BY <2>2, FS_Subset, FS_CardinalityType DEF IInv, LossFits, LossIsReported
  <2>4. Cardinality(Silent') \in Nat
    BY <2>3, FS_CardinalityType
  <2> QED BY <1>0, <1>1, <2>3, <2>4 DEF LossFits, LossIsReported
<1> QED
  BY <1>4, <1>5

-----------------------------------------------------------------------------
(* FileFits.                                                               *)

\* Whoever does not analyse asks nothing of the rows.
LEMMA Elsewhere ==
  ASSUME IInv, NEW d \in Delivery, Step(d), pc[d] \in Analysing, NEW e \in Delivery, e # d
  PROVE  PlaceFits(e)'
<1>1. pc'[e] = pc[e]
  BY OthersStay
<1>2. pc[e] \notin Analysing
  BY DEF IInv, Alone
<1> QED
  BY <1>1, <1>2 DEF PlaceFits, Analysing, Screened, Judging

LEMMA FitsAnalyze ==
  ASSUME IInv, NEW d \in Delivery, Analyze(d)
  PROVE  RowsFit' /\ PlaceFits(d)'
<1> USE DEF Go
<1>0. RowsFit /\ row[Whole] = "pending" /\ ~passed /\ Children = {} /\ pc \in [Delivery -> PC] /\ ~passed' /\ pages' = pages
  BY AnalyzeCases DEF IInv, FileFits, PlaceFits, TypeOK, PC
<1>1. Children' = {} /\ row'[Whole] \in {"pending", "unsupported", "failed"}
  BY <1>0, AnalyzeCases, RowStep DEF SameParts, Verdict, Children, Stored
<1>2. pc'[d] = "ended" \/ (pc'[d] = "screen" /\ row' = row)
  BY <1>0, AnalyzeCases
<1> QED
  BY <1>0, <1>1, <1>2 DEF RowsFit, PlaceFits, Judging

LEMMA FitsScreen ==
  ASSUME IInv, NEW d \in Delivery, Screen(d)
  PROVE  RowsFit' /\ PlaceFits(d)'
<1> USE DEF Go
<1>0. RowsFit /\ row[Whole] = "pending" /\ Children = {} /\ pc \in [Delivery -> PC]
  BY ScreenCases DEF IInv, FileFits, PlaceFits, TypeOK, PC
<1>1. Children' = {} /\ row'[Whole] \in {"pending", "blocked"}
  BY <1>0, ScreenCases, RowStep DEF SameParts, Verdict, Children, Stored
<1>2. pc'[d] = "ended" \/ (pc'[d] = "ask" /\ row'[Whole] = "pending" /\ passed')
  BY <1>0, ScreenCases
<1> QED
  BY <1>0, <1>1, <1>2 DEF RowsFit, PlaceFits, Judging

LEMMA FitsKeepWhole ==
  ASSUME IInv, NEW d \in Delivery, KeepWhole(d), row' = row,
         passed, passed', ChildrenWait, pages' = pages,
         row[Whole] = "pending", Children = {} \/ late'
  PROVE  RowsFit' /\ PlaceFits(d)'
<1>1. RowsFit'
  BY DEF IInv, FileFits, RowsFit, Children, Stored
<1>2. todo'[d] = <<Whole>> /\ pc'[d] = "classify"
  BY DEF IInv, TypeOK, KeepWhole, Go
<1>3. HeadFits(d)'
  BY <1>2 DEF HeadFits
<1> QED
  BY <1>1, <1>2, <1>3 DEF PlaceFits, ChildrenWait, Children, Stored

LEMMA FitsStoreChild ==
  ASSUME IInv, NEW d \in Delivery, StoreChild(d)
  PROVE  RowsFit' /\ PlaceFits(d)'
<1> DEFINE c == Head(cuts[d])
           rest == Tail(cuts[d])
<1>0. /\ RowsFit /\ passed /\ row[Whole] = "pending" /\ ChildrenWait
      /\ Partitions(Children \cup Range(cuts[d]), pages)
      /\ cuts[d] \in Seq(Cut) /\ cuts[d] # <<>> /\ c \in Cut
  BY HeadTailProperties DEF StoreChild, IInv, WorkFits, FileFits, PlaceFits, TypeOK
<1>1. Children' = Children \cup {c} /\ row'[Whole] = row[Whole] /\ ChildrenWait'
  BY <1>0, WholeAssumption DEF StoreChild, IInv, TypeOK, Children, Stored, Part, ChildrenWait
<1>2. Range(cuts[d]) = {c} \cup Range(rest)
  BY <1>0, TailElement DEF Range
<1>3. pc'[d] = IF rest = <<>> THEN "mark" ELSE "cut"
  <2>1. rest = <<>> <=> Len(cuts[d]) = 1
    BY <1>0, TailIsEmpty
  <2> QED BY <2>1 DEF StoreChild, Go, IInv, TypeOK
<1>4. cuts'[d] = rest /\ passed' = passed /\ pages' = pages
  BY DEF StoreChild, IInv, TypeOK, fileVars, markVars
<1>5. Partitions(Children' \cup Range(rest), pages)
  <2>1. Children' \cup Range(rest) = Children \cup Range(cuts[d])
    BY <1>1, <1>2
  <2> QED BY <1>0, <2>1
<1>6. rest = <<>> => Range(rest) = {}
  BY DEF Range
<1>7. RowsFit'
  BY <1>0, <1>1, <1>4 DEF RowsFit, ChildrenWait
<1>8. CASE rest = <<>>
  <2>1. Partitions(Children', pages')
    BY <1>4, <1>5, <1>6, <1>8
  <2> QED BY <1>0, <1>1, <1>3, <1>4, <1>7, <1>8, <2>1 DEF PlaceFits, Judging
<1>9. CASE rest # <<>>
  <2>1. Partitions((Children \cup Range(cuts[d]))', pages')
    BY <1>4, <1>5
  <2> QED BY <1>0, <1>1, <1>3, <1>4, <1>7, <1>9, <2>1 DEF PlaceFits, Judging
<1> QED
  BY <1>8, <1>9

LEMMA FitsRemoveChildren ==
  ASSUME IInv, NEW d \in Delivery, RemoveChildren(d)
  PROVE  RowsFit' /\ PlaceFits(d)'
<1>0. passed /\ row[Whole] = "pending"
  BY DEF RemoveChildren, IInv, FileFits, PlaceFits
<1>1. Children' = {} /\ row'[Whole] = row[Whole] /\ passed'
  BY <1>0, WholeAssumption DEF RemoveChildren, IInv, TypeOK, Children, Stored, Part, markVars
<1>2. todo'[d] = <<Whole>> /\ pc'[d] = "classify"
  BY DEF IInv, TypeOK, RemoveChildren, KeepWhole, Go
<1>3. HeadFits(d)'
  BY <1>0, <1>1, <1>2 DEF HeadFits
<1> QED
  BY <1>0, <1>1, <1>2, <1>3 DEF RowsFit, PlaceFits, ChildrenWait

LEMMA FitsMarkSplit ==
  ASSUME IInv, NEW d \in Delivery, MarkSplit(d)
  PROVE  RowsFit' /\ PlaceFits(d)'
<1>0. /\ passed /\ row[Whole] = "pending" /\ ChildrenWait /\ Partitions(Children, pages)
      /\ pc'[d] = "list" /\ pages' = pages /\ passed' = passed
  BY DEF MarkSplit, Go, IInv, FileFits, PlaceFits, TypeOK, fileVars, markVars
<1>1. Children' = Children /\ row'[Whole] = "split" /\ \A c \in Children : row'[c] = row[c]
  BY <1>0, RowStep, WholeAssumption DEF MarkSplit, SameParts, Verdict, Children, Part
<1>2. ChildrenWait'
  BY <1>0, <1>1 DEF ChildrenWait
<1> QED
  BY <1>0, <1>1, <1>2 DEF RowsFit, PlaceFits, Judging

LEMMA FitsListChildren ==
  ASSUME IInv, NEW d \in Delivery, ListChildren(d)
  PROVE  RowsFit' /\ PlaceFits(d)'
<1> DEFINE open == {c \in Children : row[c] = "pending"}
<1>1. PICK order \in PageOrders(open) : todo' = [todo EXCEPT ![d] = order]
  BY DEF ListChildren
<1>2. /\ order \in Seq(open) /\ (order = <<>> <=> open = {})
      /\ \A i, j \in DOMAIN order : order[i] = order[j] => i = j
  BY PageOrdersList DEF Children
<1>3. todo'[d] = order /\ pc'[d] = (IF order = <<>> THEN "ended" ELSE "classify")
  BY <1>1, <1>2 DEF ListChildren, Go, IInv, TypeOK
<1>4. order # <<Whole>>
  BY <1>2, WholeAssumption, ElementOfSeq DEF Children
<1>5. /\ RowsFit /\ passed /\ row[Whole] = "split" /\ row' = row /\ pages' = pages
      /\ passed' = passed
  BY DEF ListChildren, IInv, FileFits, PlaceFits, fileVars, markVars
<1>6. TodoWaits(d)'
  BY <1>2, <1>3, <1>5, LenProperties, ElementOfSeq DEF TodoWaits
<1>7. HeadFits(d)'
  <2>1. ASSUME order # <<>> PROVE row'[Head(order)] = "pending"
    BY <1>2, <1>5, <2>1, HeadTailProperties
  <2> QED BY <1>3, <2>1 DEF HeadFits
<1> QED
  BY <1>3, <1>4, <1>5, <1>6, <1>7 DEF RowsFit, PlaceFits, Judging, Children, Stored

LEMMA FitsAskSplit ==
  ASSUME IInv, NEW d \in Delivery, AskSplit(d)
  PROVE  RowsFit' /\ PlaceFits(d)'
<1>1. PICK ranges \in Accepted[pages] : Len(ranges) >= 2 /\ cuts' = [cuts EXCEPT ![d] = ranges]
  BY DEF AskSplit
<1>2. /\ RowsFit /\ passed /\ row[Whole] = "pending" /\ Children = {}
      /\ row' = row /\ pages' = pages /\ passed' = passed /\ pc'[d] = "cut"
      /\ pages \in 1 .. MaxPages
  BY DEF AskSplit, Go, IInv, FileFits, PlaceFits, TypeOK, fileVars, markVars
<1>3. cuts'[d] = ranges
  BY <1>1 DEF IInv, TypeOK
<1>4. Partitions(Range(ranges), pages)
  BY <1>1, <1>2, AcceptedIsOrdered, OrderedIsPartition
<1>5. Children' = {} /\ Partitions(Children' \cup Range(ranges), pages')
  BY <1>2, <1>4 DEF Children, Stored
<1> QED
  BY <1>2, <1>3, <1>5 DEF RowsFit, PlaceFits, Judging, ChildrenWait

LEMMA FitsSplitFailsLate ==
  ASSUME IInv, NEW d \in Delivery, SplitFailsLate(d)
  PROVE  RowsFit' /\ PlaceFits(d)'
<1>0. /\ RowsFit /\ passed /\ ChildrenWait /\ passed' = passed /\ pages' = pages /\ late'
      /\ row[Whole] \in {"pending", "split"}
      /\ faults \in Nat /\ faults' > 0
  <2>1. faults \in Nat /\ faults' = faults + 1
    BY BoundsAssumption DEF SplitFailsLate, Fault, IInv, TypeOK
  <2>2. RowsFit /\ PlaceFits(d) /\ pc[d] \in {"cleanup", "mark", "list"}
    BY DEF SplitFailsLate, IInv, FileFits
  <2>3. passed' = passed /\ pages' = pages /\ late'
    BY DEF SplitFailsLate, fileVars
  <2> QED BY <2>1, <2>2, <2>3 DEF PlaceFits
<1>1. todo'[d] = <<Whole>> /\ pc'[d] = "classify"
  BY DEF IInv, TypeOK, SplitFailsLate, KeepWhole, Go
<1>2. /\ Children' = Children /\ \A c \in Children : row'[c] = row[c]
      /\ row'[Whole] = row[Whole] \/ (row'[Whole] = "split" /\ Partitions(Children, pages))
  <2>1. CASE row' = row
    BY <2>1 DEF Children, Stored
  <2>2. CASE row' # row
    <3>1. pc[d] = "mark" /\ SetAnalysis(Whole, "split")
      BY <2>2 DEF SplitFailsLate
    <3>2. row[Whole] = "pending" /\ Partitions(Children, pages)
      BY <3>1 DEF IInv, FileFits, PlaceFits
    <3> QED
      BY <3>1, <3>2, RowStep, WholeAssumption DEF SameParts, Verdict, Children, Part
  <2> QED BY <2>1, <2>2
<1>3. RowsFit'
  BY <1>0, <1>2 DEF RowsFit
<1>4. ChildrenWait'
  BY <1>0, <1>2 DEF ChildrenWait
<1>5. HeadFits(d)'
  BY <1>0, <1>1, <1>2 DEF HeadFits, LateSplit
<1> QED
  BY <1>0, <1>1, <1>2, <1>3, <1>4, <1>5 DEF PlaceFits

\* The part at the head is done with: the others wait as before.
LEMMA NextPartWaits ==
  ASSUME IInv, NEW d \in Delivery, pc[d] \in Judging, todo[d] # <<Whole>>,
         TodoWaits(d), NextPart(d), \A q \in Part : q # Head(todo[d]) => row'[q] = row[q]
  PROVE  TodoWaits(d)' /\ pc'[d] \in {"ended", "classify"} /\ todo'[d] # <<Whole>>
<1> DEFINE rest == Tail(todo[d])
<1>1. todo[d] \in Seq(Cut) /\ todo[d] # <<>> /\ rest \in Seq(Cut)
  BY HeadTailProperties DEF IInv, WorkFits
<1>2. todo'[d] = rest /\ pc'[d] \in {"ended", "classify"}
  BY DEF NextPart, Go, IInv, TypeOK
<1>3. todo'[d] # <<Whole>>
  <2>1. rest # <<Whole>>
    BY <1>1, NoCutIsWhole
  <2> QED BY <1>2, <2>1
<1>4. /\ Head(todo[d]) = todo[d][1] /\ 1 \in DOMAIN todo[d]
      /\ \A k \in DOMAIN rest : k + 1 \in DOMAIN todo[d] /\ k \in Nat \ {0} /\ rest[k] = todo[d][k + 1]
  BY <1>1, TailElement
<1>5. ASSUME NEW k \in DOMAIN rest PROVE row'[rest[k]] = "pending"
  <2>1. k + 1 # 1 /\ k + 1 > 1 /\ k + 1 \in DOMAIN todo[d]
    BY <1>4
  <2>2. row[todo[d][k + 1]] = "pending" /\ todo[d][k + 1] # todo[d][1]
    BY <1>4, <2>1 DEF TodoWaits
  <2>3. todo[d][k + 1] \in Part
    BY <1>1, <2>1, LenProperties DEF Part
  <2> QED BY <1>4, <2>2, <2>3
<1>6. ASSUME NEW j \in DOMAIN rest, NEW k \in DOMAIN rest, rest[j] = rest[k] PROVE j = k
  <2>1. j + 1 = k + 1
    BY <1>4, <1>6 DEF TodoWaits
  <2> QED BY <1>4, <2>1
<1> QED
  BY <1>2, <1>3, <1>5, <1>6 DEF TodoWaits

\* A verdict on the whole file, or on a child of a file that was split.
LEMMA FitsVerdict ==
  ASSUME IInv, NEW d \in Delivery, pc[d] \in Judging,
         NEW status \in {"done", "failed"}, SetAnalysis(Head(todo[d]), status) \/ row' = row,
         passed' = passed, pages' = pages
  PROVE  /\ RowsFit' /\ Children' = Children
         /\ \A q \in Part : q # Head(todo[d]) => row'[q] = row[q]
         /\ todo[d] = <<Whole>> => ChildrenWait'
         /\ todo[d] # <<Whole>> => row'[Whole] = "split" /\ Head(todo[d]) # Whole
<1> DEFINE r == Head(todo[d])
<1>0. RowsFit /\ PlaceFits(d) /\ passed /\ todo[d] # <<>>
  BY DEF IInv, FileFits, PlaceFits, WorkFits
<1>1. /\ Children' = Children /\ \A q \in Part : q # r => row'[q] = row[q]
      /\ row'[r] \in {row[r], status}
  <2>1. CASE row' = row
    BY <2>1 DEF Children, Stored
  <2>2. CASE SetAnalysis(r, status)
    BY <1>0, <2>2, RowStep DEF SameParts, Verdict
  <2> QED BY <2>1, <2>2
<1>2. CASE todo[d] = <<Whole>>
  <2>1. r = Whole /\ ChildrenWait
    BY <1>0, <1>2 DEF PlaceFits
  <2>2. ChildrenWait'
    BY <1>1, <2>1, WholeAssumption DEF ChildrenWait, Children, Part
  <2>3. RowsFit'
    BY <1>0, <1>1, <2>1, <2>2 DEF RowsFit, ChildrenWait
  <2> QED BY <1>1, <1>2, <2>2, <2>3
<1>3. CASE todo[d] # <<Whole>>
  <2>1. r \in Cut /\ r # Whole /\ row[Whole] = "split"
    BY <1>0, <1>3, HeadType, WholeAssumption DEF PlaceFits, IInv
  <2>2. row'[Whole] = "split"
    BY <1>1, <2>1 DEF Part
  <2>3. RowsFit'
    BY <1>0, <1>1, <2>1, <2>2 DEF RowsFit
  <2> QED BY <1>1, <1>3, <2>1, <2>2, <2>3
<1> QED
  BY <1>2, <1>3

\* The part at the head stays there, with a verdict or on the way to a failure.
LEMMA FitsHead ==
  ASSUME IInv, NEW d \in Delivery, pc[d] \in {"classify", "usage"}, pc'[d] \in {"usage", "failing"},
         SetAnalysis(Head(todo[d]), "done") \/ row' = row,
         UNCHANGED <<todo, passed, pages, late>>, HeadFits(d)'
  PROVE  RowsFit' /\ PlaceFits(d)'
<1>0. PlaceFits(d) /\ passed /\ todo[d] # <<>> /\ pc[d] \in Judging
  BY DEF IInv, FileFits, PlaceFits, WorkFits, Judging
<1>1. /\ RowsFit' /\ Children' = Children
      /\ \A q \in Part : q # Head(todo[d]) => row'[q] = row[q]
      /\ todo[d] = <<Whole>> => ChildrenWait'
      /\ todo[d] # <<Whole>> => row'[Whole] = "split" /\ Head(todo[d]) # Whole
  BY <1>0, FitsVerdict
<1>2. CASE todo[d] = <<Whole>>
  BY <1>0, <1>1, <1>2 DEF PlaceFits
<1>3. CASE todo[d] # <<Whole>>
  <2>1. TodoWaits(d)
    BY <1>0, <1>3 DEF PlaceFits
  <2>2. /\ todo[d] \in Seq(Cut) /\ 1 \in DOMAIN todo[d] /\ Head(todo[d]) = todo[d][1]
        /\ \A k \in DOMAIN todo[d] : todo[d][k] \in Part
    BY <1>0, <1>3, TailElement, LenProperties DEF IInv, WorkFits, TypeOK
  <2>3. TodoWaits(d)'
    BY <1>0, <1>1, <2>1, <2>2 DEF TodoWaits
  <2> QED BY <1>0, <1>1, <1>3, <2>3 DEF PlaceFits
<1> QED
  BY <1>2, <1>3

LEMMA FitsClassify ==
  ASSUME IInv, NEW d \in Delivery, Classify(d) \/ ClassifyFails(d) \/ RecordFails(d)
  PROVE  RowsFit' /\ PlaceFits(d)'
<1> DEFINE r == Head(todo[d])
<1>0. HeadFits(d) /\ todo[d] # <<>> /\ r \in Part /\ faults \in Nat
  <2>1. pc[d] \in Judging /\ PlaceFits(d)
    BY DEF Classify, ClassifyFails, RecordFails, IInv, FileFits, Judging
  <2>2. todo[d] # <<>>
    BY <2>1 DEF IInv, WorkFits
  <2>3. r \in Part
    BY <2>2, HeadType DEF IInv
  <2> QED BY <2>1, <2>2, <2>3, BoundsAssumption DEF PlaceFits, IInv, TypeOK
<1>1. Stored(r)
  BY <1>0 DEF Classify, ClassifyFails, RecordFails, HeadFits, LateSplit, Stored
<1>2. UNCHANGED <<todo, passed, pages, late>> /\ pc \in [Delivery -> PC]
  BY DEF Classify, ClassifyFails, RecordFails, fileVars, workVars, markVars, IInv, TypeOK, PC
<1>3. SetAnalysis(r, "done") => row'[r] = "done"
  BY <1>0, <1>1, RowStep DEF Stored, Verdict
<1>4. CASE Classify(d)
  <2>1. pc[d] = "classify" /\ pc'[d] = "usage" /\ row'[r] = "done" /\ SetAnalysis(r, "done")
    BY <1>2, <1>3, <1>4 DEF Classify, Go
  <2>2. HeadFits(d)'
    BY <1>2, <2>1 DEF HeadFits
  <2> QED BY <1>2, <2>1, <2>2, FitsHead
<1>5. CASE ClassifyFails(d)
  <2>1. pc[d] = "classify" /\ pc'[d] = "failing"
    BY <1>2, <1>5 DEF ClassifyFails, Go
  <2>2. row' = row \/ (SetAnalysis(r, "done") /\ row'[r] = "done" /\ faults' > 0)
    BY <1>0, <1>3, <1>5 DEF ClassifyFails, Fault
  <2>3. HeadFits(d)'
    BY <1>0, <1>2, <2>1, <2>2 DEF HeadFits, LateSplit
  <2> QED BY <1>2, <2>1, <2>2, <2>3, FitsHead
<1>6. CASE RecordFails(d)
  <2>1. pc[d] = "usage" /\ pc'[d] = "failing" /\ row' = row /\ faults' > 0
    BY <1>0, <1>2, <1>6 DEF RecordFails, Go, Fault
  <2>2. HeadFits(d)'
    BY <1>0, <1>2, <2>1 DEF HeadFits
  <2> QED BY <1>2, <2>1, <2>2, FitsHead
<1> QED
  BY <1>4, <1>5, <1>6

LEMMA FitsNextPart ==
  ASSUME IInv, NEW d \in Delivery, pc[d] \in Judging, NextPart(d),
         SetAnalysis(Head(todo[d]), "failed") \/ row' = row,
         passed' = passed, pages' = pages, late' = late, TypeOK', WorkFits'
  PROVE  RowsFit' /\ PlaceFits(d)'
<1>0. PlaceFits(d) /\ passed /\ todo[d] # <<>>
  BY DEF IInv, FileFits, PlaceFits, WorkFits
<1>1. /\ RowsFit' /\ \A q \in Part : q # Head(todo[d]) => row'[q] = row[q]
      /\ todo[d] # <<Whole>> => row'[Whole] = "split"
  BY FitsVerdict
<1>2. CASE todo[d] = <<Whole>>
  <2>1. pc'[d] = "ended"
    BY <1>2 DEF NextPart, Go, IInv, TypeOK
  <2> QED BY <1>1, <2>1 DEF PlaceFits, Judging
<1>3. CASE todo[d] # <<Whole>>
  <2>1. TodoWaits(d)
    BY <1>0, <1>3 DEF PlaceFits
  <2>2. TodoWaits(d)' /\ pc'[d] \in {"ended", "classify"} /\ todo'[d] # <<Whole>>
    BY <1>1, <1>3, <2>1, NextPartWaits
  <2>3. pc'[d] = "classify" => row'[Head(todo'[d])] = "pending"
    <3> SUFFICES ASSUME pc'[d] = "classify" PROVE row'[Head(todo'[d])] = "pending"
      OBVIOUS
    <3>1. todo'[d] \in Seq(Part) /\ todo'[d] # <<>>
      BY DEF TypeOK, WorkFits, Judging
    <3>2. 1 \in DOMAIN todo'[d] /\ Head(todo'[d]) = todo'[d][1]
      BY <3>1, TailElement
    <3> QED BY <2>2, <3>2 DEF TodoWaits
  <2>4. HeadFits(d)'
    BY <2>2, <2>3 DEF HeadFits
  <2> QED BY <1>0, <1>1, <1>3, <2>2, <2>4 DEF PlaceFits
<1> QED
  BY <1>2, <1>3

\* Before it analyses, a delivery may insert the row of the file: nobody
\* analyses then.
LEMMA FitsStoring ==
  ASSUME IInv, NEW d \in Delivery,
         row' = row \/ row' = Inserted, UNCHANGED <<pages, passed, late, todo, cuts>>, faults' \in {faults, faults + 1},
         \A e \in Delivery : e # d => pc'[e] = pc[e],
         pc'[d] \in {"store", "report", "analyze", "ended"},
         pc'[d] = "analyze" => ~Stored(Whole) /\ row' = Inserted
  PROVE  RowsFit' /\ \A e \in Delivery : PlaceFits(e)'
<1>0. RowsFit /\ \A e \in Delivery : PlaceFits(e)
  BY DEF IInv, FileFits
<1>1. CASE row' = row
  <2>1. RowsFit'
    BY <1>0, <1>1 DEF RowsFit, Children, Stored
  <2>2. ASSUME NEW e \in Delivery, e # d PROVE PlaceFits(e)'
    <3>1. faults > 0 => faults' > 0
      BY BoundsAssumption DEF IInv, TypeOK
    <3>2. PlaceFits(e) /\ pc'[e] = pc[e] /\ todo'[e] = todo[e] /\ cuts'[e] = cuts[e]
      BY <1>0, <2>2
    <3>3. Children' = Children /\ (ChildrenWait <=> ChildrenWait') /\ (TodoWaits(e) <=> TodoWaits(e)')
      BY <1>1, <3>2 DEF Children, Stored, ChildrenWait, TodoWaits
    <3>4. HeadFits(e) => HeadFits(e)'
      BY <1>1, <3>1, <3>2 DEF HeadFits, LateSplit
    <3> QED BY <1>1, <3>2, <3>3, <3>4 DEF PlaceFits, Judging
  <2>3. pc'[d] # "analyze"
    BY <1>1, InsertedFrame DEF IInv, Stored
  <2> QED BY <2>1, <2>2, <2>3 DEF PlaceFits, Judging
<1>2. CASE row' # row
  <2>1. ~Stored(Whole) /\ row' = Inserted
    BY <1>2 DEF Inserted
  <2>2. ~passed /\ Children = {} /\ \A e \in Delivery : pc[e] \notin Analysing
    BY <2>1 DEF IInv, Alone
  <2>3. Children' = {} /\ row'[Whole] = "pending"
    BY <2>1, <2>2, InsertedFrame DEF IInv
  <2>4. RowsFit'
    BY <2>3 DEF RowsFit
  <2>5. ASSUME NEW e \in Delivery PROVE PlaceFits(e)'
    BY <2>2, <2>3 DEF PlaceFits, Analysing, Screened, Judging
  <2> QED BY <2>4, <2>5
<1> QED
  BY <1>1, <1>2

\* FileFits is kept by every step of a delivery.
LEMMA FitsStep ==
  ASSUME IInv, NEW d \in Delivery, Deliver(d) \/ Step(d)
  PROVE  FileFits'
<1> USE DEF Go, fileVars, workVars, markVars, faultVars
<1> SUFFICES RowsFit' /\ \A e \in Delivery : PlaceFits(e)'
  BY DEF FileFits
<1>a. TypeOK' /\ WorkFits'
  BY TypeStep, WorkStep DEF IInv
<1>b. pc \in [Delivery -> PC] /\ RowsFit /\ \A e \in Delivery : PlaceFits(e)
  BY DEF IInv, FileFits, TypeOK, PC
<1>c. pc[d] \in Analysing /\ Step(d) /\ RowsFit' /\ PlaceFits(d)' => RowsFit' /\ \A e \in Delivery : PlaceFits(e)'
  BY Elsewhere
<1> USE <1>b, <1>c DEF Step, Analysing, Screened, Judging
<1>1. CASE Deliver(d)
  BY <1>1, FitsStoring DEF Deliver
<1>2. CASE Store(d)
  BY <1>2, FitsStoring DEF Store, InsertIfNew
<1>3. CASE AttemptFails(d)
  BY <1>3, FitsStoring DEF AttemptFails, Fault
<1>4. CASE Analyze(d)
  BY <1>4, FitsAnalyze, AnalyzeCases
<1>5. CASE Screen(d)
  BY <1>5, FitsScreen, ScreenCases
<1>6. CASE AnalysisThrows(d)
  <2>1. RowsFit' /\ pc'[d] = "ended"
    BY <1>6 DEF AnalysisThrows, RowsFit, Children, Stored
  <2> QED BY <1>6, <2>1 DEF AnalysisThrows, PlaceFits
<1>7. CASE NoSplit(d)
  BY <1>7, FitsKeepWhole DEF NoSplit, PlaceFits, ChildrenWait
<1>8. CASE AskSplit(d)
  BY <1>8, FitsAskSplit DEF AskSplit
<1>9. CASE StoreChild(d)
  BY <1>9, FitsStoreChild DEF StoreChild
<1>10. CASE StoreChildFails(d)
  <2>1. RowsFit' /\ pc'[d] = "cleanup" /\ ChildrenWait'
    BY <1>10 DEF StoreChildFails, ThenRemoveChildren, RowsFit, PlaceFits, ChildrenWait, Children,
         Stored
  <2> QED BY <1>10, <2>1 DEF StoreChildFails, PlaceFits
<1>11. CASE RemoveChildren(d)
  BY <1>11, FitsRemoveChildren DEF RemoveChildren
<1>12. CASE MarkSplit(d)
  BY <1>12, FitsMarkSplit DEF MarkSplit
<1>13. CASE ListChildren(d)
  BY <1>13, FitsListChildren DEF ListChildren
<1>14. CASE SplitFailsLate(d)
  BY <1>14, FitsSplitFailsLate DEF SplitFailsLate
<1>15. CASE Classify(d)
  BY <1>15, FitsClassify DEF Classify
<1>16. CASE ClassifyFails(d)
  BY <1>16, FitsClassify DEF ClassifyFails
<1>17. CASE RecordUsage(d)
  BY <1>17, <1>a, FitsNextPart DEF RecordUsage
<1>18. CASE RecordFails(d)
  BY <1>18, FitsClassify DEF RecordFails
<1>19. CASE GiveUp(d)
  BY <1>19, FitsStoring DEF GiveUp
<1>20. CASE ReportFails(d)
  BY <1>20, FitsStoring DEF ReportFails, Fault
<1>21. CASE MarkFailed(d)
  BY <1>21, <1>a, FitsNextPart DEF MarkFailed, AfterFailure
<1>22. CASE MarkFailedFails(d)
  BY <1>22, <1>a, FitsNextPart DEF MarkFailedFails, AfterFailure
<1> QED
  BY <1>1, <1>2, <1>3, <1>4, <1>5, <1>6, <1>7, <1>8, <1>9, <1>10, <1>11, <1>12, <1>13, <1>14,
     <1>15, <1>16, <1>17, <1>18, <1>19, <1>20, <1>21, <1>22

LEMMA FitsAround ==
  ASSUME IInv, DeleteClient \/ Crash \/ UNCHANGED vars
  PROVE  FileFits'
<1> USE DEF fileVars, workVars, markVars, faultVars, vars
<1>1. CASE DeleteClient \/ UNCHANGED vars
  <2>1. UNCHANGED <<row, pc, cuts, todo, pages, passed, late, faults>>
    BY <1>1 DEF DeleteClient
  <2>2. Children' = Children /\ (ChildrenWait <=> ChildrenWait')
    BY <2>1 DEF Children, Stored, ChildrenWait
  <2>3. RowsFit'
    BY <2>1, <2>2 DEF IInv, FileFits, RowsFit
  <2>4. ASSUME NEW d \in Delivery PROVE PlaceFits(d)'
    <3>1. TodoWaits(d) => TodoWaits(d)'
      BY <2>1 DEF TodoWaits
    <3>2. HeadFits(d) => HeadFits(d)'
      BY <2>1 DEF HeadFits, LateSplit
    <3>3. PlaceFits(d)
      BY DEF IInv, FileFits
    <3> QED BY <2>1, <2>2, <3>1, <3>2, <3>3 DEF PlaceFits
  <2> QED BY <2>3, <2>4 DEF FileFits
<1>2. CASE Crash
  <2>1. RowsFit'
    BY <1>2 DEF Crash, IInv, FileFits, RowsFit, Children, Stored
  <2>2. \A e \in Delivery : pc'[e] \in {"idle", "ended", "dead"}
    BY <1>2 DEF Crash, Running
  <2> QED BY <2>1, <2>2 DEF FileFits, PlaceFits, Judging
<1> QED BY <1>1, <1>2

-----------------------------------------------------------------------------
(* The invariant.                                                          *)
LEMMA AroundStep ==
  ASSUME IInv, DeleteClient \/ Crash \/ UNCHANGED vars
  PROVE  WorkFits' /\ Alone' /\ LossFits'
<1> USE DEF fileVars, workVars, markVars, faultVars, vars
<1>1. CASE DeleteClient \/ UNCHANGED vars
  <2>1. UNCHANGED <<row, pc, cuts, todo, lost, passed, faults>>
    BY <1>1 DEF DeleteClient
  <2>2. Silent' = Silent
    BY <2>1 DEF Silent, Stored
  <2> QED BY <2>1, <2>2 DEF IInv, WorkFits, Alone, LossFits, LossIsReported, Stored, Children
<1>2. CASE Crash
  <2>1. \A d \in Delivery : pc'[d] \in {"idle", "ended", "dead"} /\ (pc'[d] = "ended" => pc[d] = "ended")
    BY <1>2 DEF Crash, Running
  <2>2. WorkFits'
    BY <1>2, <2>1, EmptySeq DEF Crash, WorkFits, Judging
  <2>3. Alone'
    BY <1>2, <2>1 DEF Crash, IInv, Alone, Stored, Children, Analysing, Screened, Judging
  <2>4. Silent' \subseteq Silent /\ faults' = faults
    BY <1>2, <2>1 DEF Crash, Silent, Stored
  <2>5. IsFiniteSet(Silent') /\ Cardinality(Silent') <= Cardinality(Silent)
    BY <2>4, FS_Subset DEF IInv, LossFits
  <2>6. Cardinality(Silent') \in Nat /\ Cardinality(Silent) \in Nat /\ faults \in Nat
    BY <2>5, FS_CardinalityType, BoundsAssumption DEF IInv, LossFits, TypeOK
  <2>7. LossFits'
    BY <2>4, <2>5, <2>6 DEF IInv, LossFits, LossIsReported
  <2> QED BY <2>2, <2>3, <2>7
<1> QED BY <1>1, <1>2

LEMMA IInvInit == Init => IInv
<1> SUFFICES ASSUME Init PROVE IInv
  OBVIOUS
<1>1. TypeOK
  BY TypeInit
<1>2. Children = {} /\ row[Whole] = "absent" /\ ~passed /\ faults = 0
      /\ \A d \in Delivery : pc[d] = "idle" /\ cuts[d] = <<>> /\ todo[d] = <<>>
  BY DEF Init, Children, Stored, Part
<1>3. WorkFits /\ Alone
  BY <1>2, EmptySeq DEF WorkFits, Alone, Analysing, Screened, Judging
<1>4. FileFits
  BY <1>2 DEF FileFits, RowsFit, PlaceFits, Judging
<1>5. LossFits
  <2>1. Silent = {}
    BY <1>2 DEF Silent
  <2> QED BY <1>2, <2>1, FS_EmptySet DEF LossFits, LossIsReported
<1> QED
  BY <1>1, <1>3, <1>4, <1>5 DEF IInv

LEMMA IInvStep == IInv /\ [Next]_vars => IInv'
<1> SUFFICES ASSUME IInv, [Next]_vars PROVE IInv'
  OBVIOUS
<1>1. ASSUME NEW d \in Delivery, Deliver(d) \/ Step(d) PROVE IInv'
  BY <1>1, TypeStep, WorkStep, AloneStep, FitsStep, LossStep DEF IInv
<1>2. ASSUME DeleteClient \/ Crash \/ UNCHANGED vars PROVE IInv'
  BY <1>2, TypeAround, AroundStep, FitsAround DEF IInv
<1> QED
  BY <1>1, <1>2 DEF Next

LEMMA IInvHolds == Spec => []IInv
BY IInvInit, IInvStep, PTL DEF Spec

-----------------------------------------------------------------------------
(* Every variable keeps its type; attempts, faults and crashes stay within
   their bounds (ingestInboundFileWith).                                   *)
THEOREM TypeCorrect == Spec => []TypeOK
<1>1. IInv => TypeOK
  BY DEF IInv
<1> QED
  BY <1>1, IInvHolds, PTL

(* Nothing is cut or classified before the screen answered "clean", whatever
   fails and however deliveries overlap (screenFileForAttackText).         *)
THEOREM ScreenedFirstHolds == Spec => []ScreenedFirst
<1>1. IInv => ScreenedFirst
  BY WholeAssumption DEF IInv, Alone, FileFits, RowsFit, ScreenedFirst, Children, Stored, Part
<1> QED
  BY <1>1, IInvHolds, PTL

(* As many deliveries as database calls failed may end with the file neither
   stored nor reported as lost, and no other (ingestInboundFileWith,
   recordAudit).                                                           *)
THEOREM LossIsReportedHolds == Spec => []LossIsReported
<1>1. IInv => LossIsReported
  BY DEF IInv, LossFits
<1> QED
  BY <1>1, IInvHolds, PTL

(* A file about to be classified whole has no children beside it, but for a
   failure after the last child or in the cleanup (cutIntoChildren).       *)
THEOREM HalfSplitIsRemovedHolds == Spec => []HalfSplitIsRemoved
<1>1. ASSUME IInv PROVE HalfSplitIsRemoved
  <2> SUFFICES ASSUME NEW d \in Delivery, todo[d] = <<Whole>> PROVE Children = {} \/ late
    BY DEF HalfSplitIsRemoved
  <2>1. todo[d] # <<>>
    OBVIOUS
  <2>2. pc[d] \in Judging
    BY <1>1, <2>1 DEF IInv, WorkFits
  <2> QED BY <1>1, <2>2 DEF IInv, FileFits, PlaceFits
<1> QED
  BY <1>1, IInvHolds, PTL

(* Every page of a file that was split is in exactly one of its children
   (validateFileSplit, cutIntoChildren).                                   *)
THEOREM SplitIsPartitionHolds == Spec => []SplitIsPartition
<1>1. ASSUME IInv PROVE SplitIsPartition
  <2> SUFFICES ASSUME row[Whole] = "split", NEW p \in 1 .. pages
               PROVE  Cardinality({c \in Children : p \in PagesOf(c)}) = 1
    BY DEF SplitIsPartition
  <2>1. Partitions(Children, pages)
    BY <1>1 DEF IInv, Alone, FileFits, RowsFit, Part
  <2>2. PICK c \in Children : \A e \in Children : p \in e.from .. e.to <=> e = c
    BY <2>1 DEF Partitions
  <2>3. \A e \in Children : PagesOf(e) = e.from .. e.to
    BY WholeAssumption DEF PagesOf, Children
  <2>4. {e \in Children : p \in PagesOf(e)} = {c}
    BY <2>2, <2>3
  <2> QED BY <2>4, FS_Singleton
<1> QED
  BY <1>1, IInvHolds, PTL

(* No page is evidence twice (splitOrKeepWhole): of the parts with a verdict
   "done" at most one holds it.                                            *)
THEOREM NoPageJudgedTwiceHolds == Spec => []NoPageJudgedTwice
<1>1. ASSUME IInv PROVE NoPageJudgedTwice
  <2> SUFFICES ASSUME NEW p \in 1 .. pages
               PROVE  Cardinality({r \in Part : row[r] = "done" /\ p \in PagesOf(r)}) <= 1
    BY DEF NoPageJudgedTwice
  <2> DEFINE Judged == {r \in Part : row[r] = "done" /\ p \in PagesOf(r)}
  <2>1. ASSUME NEW q \in Judged, NEW r \in Judged PROVE q = r
    <3>1. RowsFit
      BY <1>1 DEF IInv, FileFits
    <3>2. CASE q = Whole /\ r = Whole
      BY <3>2
    <3>3. CASE q # Whole \/ r # Whole
      <4>1. \E c \in Children : row[c] = "done"
        BY <3>3 DEF Children, Stored, Part
      <4>2. row[Whole] = "split" /\ Partitions(Children, pages)
        BY <3>1, <4>1 DEF RowsFit
      <4>3. q \in Children /\ r \in Children /\ p \in q.from .. q.to /\ p \in r.from .. r.to
        BY <4>2 DEF Children, Stored, Part, PagesOf
      <4> QED BY <4>2, <4>3 DEF Partitions
    <3> QED BY <3>2, <3>3
  <2>2. CASE Judged = {}
    BY <2>2, FS_EmptySet
  <2>3. CASE Judged # {}
    <3>1. PICK r \in Judged : TRUE
      BY <2>3
    <3>2. Judged = {r}
      BY <2>1, <3>1
    <3>3. Cardinality(Judged) = 1
      BY <3>2, FS_Singleton
    <3> QED BY <3>3
  <2> QED BY <2>2, <2>3
<1> QED
  BY <1>1, IInvHolds, PTL

-----------------------------------------------------------------------------
(* A verdict stands, but for the two exceptions.                           *)
Stands ==
  \A r \in Part : row[r] \in Verdict =>
    \/ row'[r] = row[r]
    \/ row[r] = "done" /\ row'[r] = "failed" /\ faults > 0
    \/ row[r] = "split" /\ late

LEMMA StandsStep ==
  ASSUME IInv, NEW d \in Delivery, Step(d)
  PROVE  Stands
<1> USE DEF markVars, faultVars
<1> DEFINE r == Head(todo[d])
<1>a. PlaceFits(d) /\ (pc[d] \in Judging => todo[d] # <<>> /\ HeadFits(d) /\ r \in Part)
  BY HeadType DEF IInv, FileFits, WorkFits, PlaceFits
<1>b. row' = row => Stands
  BY DEF Stands
<1>c. row' = Inserted => Stands
  BY InsertedFrame DEF Stands, IInv, Part, Stored, Verdict
<1>d. row[Whole] = "pending" /\ (\A q \in Part : q # Whole => row'[q] = row[q]) => Stands
  BY DEF Stands, Verdict
<1>1. CASE Store(d) \/ AttemptFails(d)
  BY <1>1, <1>b, <1>c DEF Store, AttemptFails
<1>2. CASE Analyze(d)
  BY <1>2, <1>a, <1>b, <1>d, AnalyzeCases, RowStep DEF PlaceFits, Verdict
<1>3. CASE Screen(d)
  BY <1>3, <1>a, <1>b, <1>d, ScreenCases, RowStep DEF PlaceFits, Verdict
<1>4. CASE \/ GiveUp(d) \/ ReportFails(d) \/ AnalysisThrows(d) \/ NoSplit(d) \/ AskSplit(d)
           \/ StoreChildFails(d) \/ ListChildren(d) \/ RecordUsage(d) \/ RecordFails(d)
  BY <1>4, <1>b DEF GiveUp, ReportFails, AnalysisThrows, NoSplit, AskSplit, StoreChildFails,
       ListChildren, RecordUsage, RecordFails
<1>5. CASE StoreChild(d)
  <2>1. Head(cuts[d]) \in Cut
    BY <1>5, HeadTailProperties DEF StoreChild, IInv, WorkFits, TypeOK
  <2> QED
    BY <1>5, <2>1, WholeAssumption DEF StoreChild, Stands, IInv, TypeOK, Stored, Verdict, Part
<1>6. CASE RemoveChildren(d)
  BY <1>6, <1>a, WholeAssumption
     DEF RemoveChildren, Stands, PlaceFits, ChildrenWait, Children, Stored, Verdict, Part
<1>7. CASE MarkSplit(d)
  BY <1>7, <1>a, <1>d, RowStep DEF MarkSplit, PlaceFits, Verdict
<1>8. CASE SplitFailsLate(d)
  <2>1. CASE row' = row
    BY <2>1, <1>b
  <2>2. CASE row' # row
    <3>1. pc[d] = "mark" /\ SetAnalysis(Whole, "split")
      BY <1>8, <2>2 DEF SplitFailsLate
    <3> QED BY <3>1, <1>a, <1>d, RowStep DEF PlaceFits, Verdict
  <2> QED BY <2>1, <2>2
<1>9. CASE Classify(d) \/ ClassifyFails(d)
  <2>1. pc[d] = "classify" /\ (row' = row \/ SetAnalysis(r, "done"))
    BY <1>9 DEF Classify, ClassifyFails
  <2>2. row[r] = "pending" \/ (row[r] = "split" /\ late)
    BY <1>a, <2>1 DEF HeadFits, LateSplit, Judging
  <2>3. \A q \in Part : q # r => row'[q] = row[q]
    BY <1>a, <2>1, RowStep DEF Verdict, Judging
  <2> QED BY <2>2, <2>3 DEF Stands, Verdict
<1>10. CASE MarkFailed(d) \/ MarkFailedFails(d)
  <2>1. pc[d] = "failing" /\ (row' = row \/ SetAnalysis(r, "failed"))
    BY <1>10 DEF MarkFailed, MarkFailedFails
  <2>2. row[r] = "pending" \/ (row[r] = "split" /\ late) \/ (row[r] = "done" /\ faults > 0)
    BY <1>a, <2>1 DEF HeadFits, LateSplit, Judging
  <2>3. row'[r] \in {row[r], "failed"} /\ \A q \in Part : q # r => row'[q] = row[q]
    BY <1>a, <2>1, RowStep DEF Verdict, Judging
  <2> QED BY <2>2, <2>3 DEF Stands, Verdict
<1> QED
  BY <1>1, <1>2, <1>3, <1>4, <1>5, <1>6, <1>7, <1>8, <1>9, <1>10 DEF Step

(* A verdict stands, however many deliveries of the message overlap; "done" may
   become "failed" when a database call failed, and a split whose last call
   failed is classified whole (ingestInboundFileWith, splitOrKeepWhole,
   classifyAndStore).                                                      *)
THEOREM VerdictStandsHolds == Spec => VerdictStands
<1>1. ASSUME IInv, [Next]_vars PROVE [Stands]_vars
  <2>1. ASSUME NEW d \in Delivery, Deliver(d) PROVE Stands
    BY <2>1 DEF Deliver, Stands
  <2>2. CASE DeleteClient
    BY <2>2 DEF DeleteClient, Stands
  <2>3. CASE Crash
    BY <2>3 DEF Crash, Stands
  <2> QED BY <1>1, <2>1, <2>2, <2>3, StandsStep DEF Next
<1> QED
  BY <1>1, IInvHolds, PTL DEF Spec, VerdictStands, Stands
====
