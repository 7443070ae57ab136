---------------------------- MODULE InboundFile ----------------------------
(***************************************************************************)
(* The life of one file a client sent: fetched and stored with retries by  *)
(* every delivery of its message (ingestInboundFileCore.ts), screened, cut *)
(* into one child per document, and classified (analyzeInboundFile.ts).    *)
(*                                                                         *)
(* A delivery is one run of the webhook's handler; the same message may be *)
(* delivered again, at the same time or after the first run failed.  A     *)
(* part of the file is the whole of it or the pages of a child, and every  *)
(* part that is stored has a row.  What the model says of a file is        *)
(* whatever TLC picks: the answer of the screen, the page ranges, and      *)
(* whether a document could be classified.  Blobs, labels and audit rows   *)
(* other than file.ingest_failed are left out.                             *)
(*                                                                         *)
(* Any call to the provider, the model or the blob store may fail.  faults *)
(* counts the calls of Postgres that fail, or commit and lose their        *)
(* answer; crashes the deaths of the web process.  The audit row of a lost *)
(* file is written behind the delivery's back: nobody waits for it, and    *)
(* nobody hears of its failure.                                            *)
(***************************************************************************)
EXTENDS Integers, SequencesExt, FiniteSetsExt

CONSTANTS
  Delivery,        \* runs of the webhook for the message of this file
  Whole,           \* the part that is the file as it came
  MaxAttempts,     \* INGEST_ATTEMPTS.attempts
  MaxPages,        \* bound on the pages of the file
  MaxDocuments,    \* MAX_SPLIT_DOCUMENTS
  MaxFaults,       \* bound on failing database calls
  MaxCrashes       \* bound on deaths of the web process

ASSUME PositiveAssumption == {MaxAttempts, MaxPages, MaxDocuments} \subseteq Nat \ {0}
ASSUME BoundsAssumption == {MaxFaults, MaxCrashes} \subseteq Nat

VARIABLES
  kind,        \* "unsupported", "broken" (it cannot be rendered) or "readable"
  pages,       \* the pages of a PDF that can be opened; 1 for any other file
  row,         \* the analysis_status of each part, "absent" without a row
  pc,          \* where each delivery stands
  attempt,     \* the attempt each delivery is at
  cuts,        \* the page ranges a delivery has still to store
  todo,        \* the parts a delivery has still to classify
  lost,        \* deliveries that recorded file.ingest_failed
  passed,      \* the injection screen let the file through
  late,        \* a split failed after its last child was stored, or its cleanup did
  deleted,     \* the client was deleted: clients.deleted_at, the rows stay
  faults, crashes

vars == <<kind, pages, row, pc, attempt, cuts, todo, lost, passed, late, deleted, faults, crashes>>

PageRange == [from : 0 .. MaxPages + 1, to : 0 .. MaxPages + 1]
Cut == {r \in PageRange : 1 <= r.from /\ r.from <= r.to /\ r.to <= MaxPages}
Part == Cut \cup {Whole}

ASSUME WholeAssumption == Whole \notin Cut

Verdict == {"unsupported", "failed", "blocked", "split", "done"}

Stored(r) == row[r] # "absent"
Children == {c \in Cut : Stored(c)}
PagesOf(r) == IF r = Whole THEN 1 .. pages ELSE r.from .. r.to

-----------------------------------------------------------------------------
(* validate_file_split: the page ranges code accepts.                      *)

Inside(answer, n) ==
  \A k \in DOMAIN answer : 1 <= answer[k].from /\ answer[k].to <= n /\ answer[k].from <= answer[k].to

\* Mutation: ranges may share their border page.
OrderedLoosely(answer) == \A k \in 2 .. Len(answer) : answer[k].from >= answer[k - 1].to

Ordered(answer) == \A k \in 2 .. Len(answer) : answer[k].from > answer[k - 1].to

\* Mutation: the first and the last page belong to a range, and that is all.
CoveredAtTheEnds(answer, n) ==
  \A p \in {1, n} : \E k \in DOMAIN answer : p \in answer[k].from .. answer[k].to

Covered(answer, n) ==
  \A p \in 1 .. n : \E k \in DOMAIN answer : p \in answer[k].from .. answer[k].to

\* The accepted ranges, none when the answer is rejected.
Gate(answer, n) ==
  IF Len(answer) \in 1 .. MaxDocuments /\ Inside(answer, n) /\ Ordered(answer) /\ Covered(answer, n)
    THEN answer
    ELSE <<>>

\* What the stage may answer about a file of n pages.
Answers == UNION {[1 .. k -> PageRange] : k \in 0 .. MaxDocuments + 1}
Accepted == [n \in 1 .. MaxPages |-> {Gate(a, n) : a \in Answers}]

-----------------------------------------------------------------------------
Init ==
  /\ kind \in {"unsupported", "broken", "readable"}
  /\ pages \in IF kind = "readable" THEN 1 .. MaxPages ELSE {1}
  /\ row = [r \in Part |-> "absent"]
  /\ pc = [d \in Delivery |-> "idle"]
  /\ attempt = [d \in Delivery |-> 0]
  /\ cuts = [d \in Delivery |-> <<>>]
  /\ todo = [d \in Delivery |-> <<>>]
  /\ lost = {}
  /\ passed = FALSE
  /\ late = FALSE
  /\ deleted = FALSE
  /\ faults = 0
  /\ crashes = 0

Go(d, place) == pc' = [pc EXCEPT ![d] = place]

\* A call of the database fails.
Fault == faults < MaxFaults /\ faults' = faults + 1

\* An UPDATE by id: it does nothing without a row.
SetAnalysis(r, status) == row' = IF Stored(r) THEN [row EXCEPT ![r] = status] ELSE row

fileVars == <<kind, pages>>
workVars == <<attempt, cuts, todo>>
markVars == <<lost, passed, late>>
faultVars == <<faults, crashes>>

-----------------------------------------------------------------------------
(* Storing.                                                                *)

\* The webhook fires for the message, for the first time or again; it finds the
\* sender among the clients that are not deleted.
Deliver(d) ==
  /\ pc[d] = "idle" /\ ~deleted
  /\ Go(d, "store")
  /\ attempt' = [attempt EXCEPT ![d] = 1]
  /\ UNCHANGED <<fileVars, row, cuts, todo, markVars, deleted, faultVars>>

\* Mutation: the stored row is returned to a delivery that comes again.
InsertReturnsRow == TRUE

\* insertIfNew: only the insert that made the row returns it.
InsertIfNew == ~Stored(Whole)

Inserted == IF Stored(Whole) THEN row ELSE [row EXCEPT ![Whole] = "pending"]

\* Fetch, upload and insert succeed, of a deleted client too; who did not insert
\* has nothing to do.
Store(d) ==
  /\ pc[d] = "store"
  /\ row' = Inserted
  /\ Go(d, IF InsertIfNew THEN "analyze" ELSE "ended")
  /\ UNCHANGED <<fileVars, workVars, markVars, deleted, faultVars>>

\* Mutation: one attempt too many.
AttemptsLeftOneMore(d) == attempt[d] <= MaxAttempts

AttemptsLeft(d) == attempt[d] < MaxAttempts

\* An attempt throws, before the insert or when its answer is lost.
AttemptFails(d) ==
  /\ pc[d] = "store"
  /\ \/ UNCHANGED <<row, faults>>
     \/ Fault /\ row' = Inserted
  /\ IF AttemptsLeft(d)
       THEN attempt' = [attempt EXCEPT ![d] = @ + 1] /\ UNCHANGED pc
       ELSE Go(d, "report") /\ UNCHANGED attempt
  /\ UNCHANGED <<fileVars, cuts, todo, markVars, deleted, crashes>>

\* Mutation: a file that is given up is reported by nobody.
GiveUpSilently(d) ==
  /\ pc[d] = "report"
  /\ Go(d, "ended")
  /\ UNCHANGED <<fileVars, row, workVars, markVars, deleted, faultVars>>

\* After the last attempt recordAudit writes that the file is lost ...
GiveUp(d) ==
  /\ pc[d] = "report"
  /\ lost' = lost \cup {d}
  /\ Go(d, "ended")
  /\ UNCHANGED <<fileVars, row, workVars, passed, late, deleted, faultVars>>

\* ... and swallows the failure of its own insert.
ReportFails(d) ==
  /\ pc[d] = "report"
  /\ Fault
  /\ lost' \in {lost, lost \cup {d}}
  /\ Go(d, "ended")
  /\ UNCHANGED <<fileVars, row, workVars, passed, late, deleted, crashes>>

-----------------------------------------------------------------------------
(* Analysis: type, rendering, screen.                                      *)

\* analyzeStoredFile, which passes over a deleted client, skipUnsupportedFile
\* and renderForModel.
Analyze(d) ==
  /\ pc[d] = "analyze"
  /\ CASE deleted -> UNCHANGED row /\ Go(d, "ended")
       [] ~deleted /\ kind = "unsupported" -> SetAnalysis(Whole, "unsupported") /\ Go(d, "ended")
       [] ~deleted /\ kind = "broken" -> SetAnalysis(Whole, "failed") /\ Go(d, "ended")
       [] ~deleted /\ kind = "readable" -> UNCHANGED row /\ Go(d, "screen")
  /\ UNCHANGED <<fileVars, workVars, markVars, deleted, faultVars>>

\* Mutation: a screen that fails lets the file through.
PassesUnlessHit(outcome) == outcome # "hit"

Passes(outcome) == outcome = "clean"

\* A screen that hits or fails quarantines the file.
Screen(d) ==
  /\ pc[d] = "screen"
  /\ \E outcome \in {"clean", "hit", "error"} :
       /\ passed' = (outcome = "clean")
       /\ IF Passes(outcome) THEN UNCHANGED row /\ Go(d, "ask")
          ELSE SetAnalysis(Whole, "blocked") /\ Go(d, "ended")
  /\ UNCHANGED <<fileVars, workVars, lost, late, deleted, faultVars>>

\* A query throws before the file is classified: the delivery logs it, and the
\* row stays as it is.
AnalysisThrows(d) ==
  /\ pc[d] \in {"analyze", "screen"}
  /\ Fault
  /\ Go(d, "ended")
  /\ UNCHANGED <<fileVars, row, workVars, markVars, deleted, crashes>>

-----------------------------------------------------------------------------
(* Splitting.                                                              *)

\* Any trouble means "no split": the whole file is classified.
KeepWhole(d) ==
  /\ todo' = [todo EXCEPT ![d] = <<Whole>>]
  /\ cuts' = [cuts EXCEPT ![d] = <<>>]
  /\ Go(d, "classify")

\* One page, no PDF, a stage or a cut that fails, a rejected answer, or one
\* document in it: nothing is cut.
NoSplit(d) ==
  /\ pc[d] = "ask"
  /\ KeepWhole(d)
  /\ UNCHANGED <<fileVars, row, attempt, markVars, deleted, faultVars>>

AskSplit(d) ==
  /\ pc[d] = "ask" /\ pages >= 2
  /\ \E ranges \in Accepted[pages] :
       /\ Len(ranges) >= 2
       /\ cuts' = [cuts EXCEPT ![d] = ranges]
  /\ Go(d, "cut")
  /\ UNCHANGED <<fileVars, row, attempt, todo, markVars, deleted, faultVars>>

StoreChild(d) ==
  /\ pc[d] = "cut"
  /\ LET c == Head(cuts[d]) IN row' = IF Stored(c) THEN row ELSE [row EXCEPT ![c] = "pending"]
  /\ cuts' = [cuts EXCEPT ![d] = Tail(@)]
  /\ Go(d, IF Len(cuts[d]) = 1 THEN "mark" ELSE "cut")
  /\ UNCHANGED <<fileVars, attempt, todo, markVars, deleted, faultVars>>

\* Mutation: the children stored so far stay.
LeaveChildren(d) == KeepWhole(d)

ThenRemoveChildren(d) == Go(d, "cleanup") /\ UNCHANGED <<cuts, todo>>

\* The upload or the insert of a child throws.
StoreChildFails(d) ==
  /\ pc[d] = "cut"
  /\ ThenRemoveChildren(d)
  /\ UNCHANGED <<fileVars, row, attempt, markVars, deleted, faultVars>>

RemoveChildren(d) ==
  /\ pc[d] = "cleanup"
  /\ row' = [r \in Part |-> IF r = Whole THEN row[r] ELSE "absent"]
  /\ KeepWhole(d)
  /\ UNCHANGED <<fileVars, attempt, markVars, deleted, faultVars>>

MarkSplit(d) ==
  /\ pc[d] = "mark"
  /\ SetAnalysis(Whole, "split")
  /\ Go(d, "list")
  /\ UNCHANGED <<fileVars, workVars, markVars, deleted, faultVars>>

\* The cleanup, setSplit or listChildren throws: the children stay beside a
\* file that is now classified whole.
SplitFailsLate(d) ==
  /\ pc[d] \in {"cleanup", "mark", "list"}
  /\ Fault
  /\ UNCHANGED row \/ (pc[d] = "mark" /\ SetAnalysis(Whole, "split"))
  /\ late' = TRUE
  /\ KeepWhole(d)
  /\ UNCHANGED <<fileVars, attempt, lost, passed, deleted, crashes>>

PageOrders(S) ==
  {s \in [1 .. Cardinality(S) -> S] : \A i, j \in DOMAIN s : i < j => s[i].from < s[j].from}

\* The children, in page order; one that has a verdict is skipped.
ListChildren(d) ==
  /\ pc[d] = "list"
  /\ LET open == {c \in Children : row[c] = "pending"}
     IN  /\ \E order \in PageOrders(open) : todo' = [todo EXCEPT ![d] = order]
         /\ Go(d, IF open = {} THEN "ended" ELSE "classify")
  /\ UNCHANGED <<fileVars, row, attempt, cuts, markVars, deleted, faultVars>>

-----------------------------------------------------------------------------
(* Classification of the whole file, or of one child after the other.      *)

NextPart(d) ==
  /\ todo' = [todo EXCEPT ![d] = Tail(@)]
  /\ Go(d, IF Len(todo[d]) = 1 THEN "ended" ELSE "classify")

Classify(d) ==
  /\ pc[d] = "classify"
  /\ SetAnalysis(Head(todo[d]), "done")
  /\ Go(d, "usage")
  /\ UNCHANGED <<fileVars, workVars, markVars, deleted, faultVars>>

\* Mutation: a child that cannot be read ends the analysis.
AfterFailureStop(d) == todo' = [todo EXCEPT ![d] = <<>>] /\ Go(d, "ended")

AfterFailure(d) == NextPart(d)

\* The part cannot be read, the model does not answer, or the write of the
\* verdict throws, before or after it is committed.
ClassifyFails(d) ==
  /\ pc[d] = "classify"
  /\ \/ UNCHANGED <<row, faults>>
     \/ Fault /\ SetAnalysis(Head(todo[d]), "done")
  /\ Go(d, "failing")
  /\ UNCHANGED <<fileVars, workVars, markVars, deleted, crashes>>

\* The label and the usage of the call are written.
RecordUsage(d) ==
  /\ pc[d] = "usage"
  /\ NextPart(d)
  /\ UNCHANGED <<fileVars, row, attempt, cuts, markVars, deleted, faultVars>>

\* One of them throws, with the verdict already on the row.
RecordFails(d) ==
  /\ pc[d] = "usage"
  /\ Fault
  /\ Go(d, "failing")
  /\ UNCHANGED <<fileVars, row, workVars, markVars, deleted, crashes>>

\* The catch of classifyAndStore and classifyChildren marks the part failed ...
MarkFailed(d) ==
  /\ pc[d] = "failing"
  /\ SetAnalysis(Head(todo[d]), "failed")
  /\ AfterFailure(d)
  /\ UNCHANGED <<fileVars, attempt, cuts, markVars, deleted, faultVars>>

\* ... and swallows the failure of that write.
MarkFailedFails(d) ==
  /\ pc[d] = "failing"
  /\ Fault
  /\ UNCHANGED row \/ SetAnalysis(Head(todo[d]), "failed")
  /\ AfterFailure(d)
  /\ UNCHANGED <<fileVars, attempt, cuts, markVars, deleted, crashes>>

-----------------------------------------------------------------------------
(* Around the file.                                                        *)

\* markDeleted keeps the client's row and everything under it.
DeleteClient ==
  /\ ~deleted
  /\ deleted' = TRUE
  /\ UNCHANGED <<fileVars, row, pc, workVars, markVars, faultVars>>

Running(d) == pc[d] \notin {"idle", "ended", "dead"}

\* The web process dies with every delivery it runs.
Crash ==
  /\ crashes < MaxCrashes
  /\ \E d \in Delivery : Running(d)
  /\ crashes' = crashes + 1
  /\ pc' = [d \in Delivery |-> IF Running(d) THEN "dead" ELSE pc[d]]
  /\ cuts' = [d \in Delivery |-> <<>>]
  /\ todo' = [d \in Delivery |-> <<>>]
  /\ UNCHANGED <<fileVars, row, attempt, markVars, deleted, faults>>

Step(d) ==
  \/ Store(d) \/ AttemptFails(d) \/ GiveUp(d) \/ ReportFails(d)
  \/ Analyze(d) \/ Screen(d) \/ AnalysisThrows(d)
  \/ NoSplit(d) \/ AskSplit(d) \/ StoreChild(d) \/ StoreChildFails(d)
  \/ RemoveChildren(d) \/ MarkSplit(d) \/ ListChildren(d) \/ SplitFailsLate(d)
  \/ Classify(d) \/ ClassifyFails(d) \/ RecordUsage(d) \/ RecordFails(d)
  \/ MarkFailed(d) \/ MarkFailedFails(d)

Next ==
  \/ \E d \in Delivery : Deliver(d) \/ Step(d)
  \/ DeleteClient
  \/ Crash

Spec == Init /\ [][Next]_vars

\* A handler runs to its end: every call of it returns or times out.
FairSpec == Spec /\ \A d \in Delivery : WF_vars(Step(d))

-----------------------------------------------------------------------------
(* Properties.                                                             *)

TypeOK ==
  /\ kind \in {"unsupported", "broken", "readable"}
  /\ pages \in 1 .. MaxPages
  /\ row \in [Part -> {"absent", "pending"} \cup Verdict]
  /\ pc \in [Delivery -> {"idle", "store", "analyze", "screen", "ask", "cut", "cleanup",
                          "mark", "list", "classify", "usage", "failing", "report", "ended", "dead"}]
  /\ attempt \in [Delivery -> 0 .. MaxAttempts]
  /\ cuts \in [Delivery -> Seq(Cut)]
  /\ todo \in [Delivery -> Seq(Part)]
  /\ lost \subseteq Delivery
  /\ {passed, late, deleted} \subseteq BOOLEAN
  /\ faults \in 0 .. MaxFaults
  /\ crashes \in 0 .. MaxCrashes

\* Every page of a file that was split is in exactly one of its children
\* (validateFileSplit), whatever fails and whenever the process dies.
SplitIsPartition ==
  row[Whole] = "split" =>
    \A p \in 1 .. pages : Cardinality({c \in Children : p \in PagesOf(c)}) = 1

\* No page is evidence twice: a classified whole file has no classified child,
\* and classified children share no page (splitOrKeepWhole), even when children
\* are left behind.
NoPageJudgedTwice ==
  \A p \in 1 .. pages : Cardinality({r \in Part : row[r] = "done" /\ p \in PagesOf(r)}) <= 1

\* Nothing is cut or classified unless the injection screen answered that the
\* file is clean (screenFileForAttackText fails closed; children are not
\* screened again).
ScreenedFirst == Children # {} \/ row[Whole] \in {"split", "done"} => passed

\* A file about to be classified whole has no children beside it
\* (cutIntoChildren), but for a failure after the last child or in the cleanup.
HalfSplitIsRemoved ==
  \A d \in Delivery : todo[d] = <<Whole>> => Children = {} \/ late

\* The deliveries that ran to their end with the file neither stored nor
\* reported as lost.
Silent == {d \in Delivery : pc[d] = "ended" /\ ~Stored(Whole) /\ d \notin lost}

\* The operators hear of every file that is given up (ingestInboundFileWith): as
\* many deliveries as database calls failed may end in silence, for recordAudit
\* swallows a failing insert, and no other.
LossIsReported == Cardinality(Silent) <= faults

\* A verdict stands: deliveries of the same message do not analyse the file
\* again, a quarantine is never lifted, a failure and an "unsupported" are never
\* replaced.  There are two exceptions.  classifyAndStore turns "done" into
\* "failed" when a database call after the verdict fails; and a split whose last
\* call failed (late) is classified whole.
VerdictStands ==
  [][\A r \in Part : row[r] \in Verdict =>
       \/ row'[r] = row[r]
       \/ row[r] = "done" /\ row'[r] = "failed" /\ faults > 0
       \/ row[r] = "split" /\ late]_vars

\* A stored part comes to a verdict, children after a failed one as well; the
\* turn waits for it.  A failing database and a death of the process may leave
\* it waiting, since a new delivery does not analyse a file that is stored; and
\* so may the deletion of the client before the file is analysed.
StoredFileIsJudged ==
  \A r \in Part :
    row[r] = "pending" ~>
      row[r] # "pending" \/ faults > 0 \/ crashes > 0 \/ (r = Whole /\ deleted)
=============================================================================
