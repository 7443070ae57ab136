-------------------------- MODULE ChecklistProofs --------------------------
(***************************************************************************)
(* Theorems about Checklist for any set of rows and requests and any       *)
(* number of edits, with and without deliveries by a portal fetch.         *)
(***************************************************************************)
EXTENDS Checklist, FiniteSetTheorems, TLAPS

Lists == [Row -> Present \cup {"absent"}]

\* A planner run carries the list it read until it verifies or ends.
PlanRecord ==
  [pc : {"asked", "settle", "confirm", "collect", "finish"}, docs : Lists, confirmed : BOOLEAN,
   request : {"none", "drafted", "dropped", "sent", "answered"}, after : BOOLEAN,
   attest : {"none", "confirmed", "request"}, kind : {"none", "follow_up", "goal_complete", "collect"}]

PlanFits == plan \in {NoPlan, [pc |-> "verify"]} \cup PlanRecord

\* A request that completes the goal does so for a settled list.
EditRecord ==
  {NoEdit}
    \cup [pc : {"write"}, row : Row, to : Present]
    \cup [pc : {"changed", "cancel", "replan"}]
    \cup [pc : {"derive"}, docs : Lists, clears : BOOLEAN, goal : {"complete", "pending", "same"}]

EditFits ==
  /\ edit \in [Request -> EditRecord]
  /\ \A q \in Request :
       edit[q].pc = "derive" /\ edit[q].goal = "complete" => Settled(edit[q].docs)

\* One row at a time is open for a verdict.
CheckFits ==
  /\ check \in [Batch -> [todo : SUBSET Row, open : SUBSET Row]]
  /\ \A b \in Batch :
       /\ check[b].todo \cap check[b].open = {}
       /\ check[b].open = {} \/ \E r \in Row : check[b].open = {r}
  /\ check["planner"] = NoCheck \/ plan.pc = "verify"
  /\ check["delivery"] = NoCheck \/ delivery = "checking"

\* Whatever is, or may become, approved without the accountant is vouched for.
EarnedFits == \A r \in Row : status[r] \in {"collected", "approved"} => r \in earned

\* A completion that the list no longer bears out is blind, or an edit has yet
\* to look at the list, or has looked and is about to reopen the goal.
GoalFits ==
  goal = "complete" /\ ~Settled(status) /\ Rows(status) # {} =>
    blind \/ \E q \in Request :
               edit[q].pc = "changed" \/ (edit[q].pc = "derive" /\ edit[q].goal = "pending")

DataFits ==
  /\ status \in Lists
  /\ stalled \cup adhoc \cup earned \subseteq Row
  /\ goal \in {"pending", "complete"}
  /\ {confirmed, reopened, blind} \subseteq BOOLEAN
  /\ request \in {"none", "drafted", "dropped", "sent", "answered"}
  /\ delivery \in {"idle", "checking"}
  /\ edits \in 0 .. MaxEdits

Inv == DataFits /\ PlanFits /\ EditFits /\ CheckFits /\ EarnedFits /\ GoalFits

-----------------------------------------------------------------------------
(* What the writes of the planner's answer do to the list.                 *)
LEMMA SettledIsBoolean == \A list : Settled(list) \in BOOLEAN
BY DEF Settled

LEMMA ChangeWrites ==
  ASSUME status \in Lists, plan.docs \in Lists, NEW c \in Change(plan.docs), Hits(c), Write(c)
  PROVE  /\ status' \in Lists
         /\ \A r \in Row : status'[r] \in {"collected", "approved"} => status'[r] = status[r]
         /\ \A r \in Row : status[r] = "approved" => status'[r] \in {"approved", "retired"}
<1> USE DEF Lists, Present
<1>1. c.what # "none" /\ status[c.row] \in Source(c)
  BY DEF Hits
<1>2. CASE c.what = "waive"
  <2>1. c.row \in Row /\ status[c.row] = "unresolved" /\ Move(c.row, "not_required")
    BY <1>1, <1>2 DEF Change, Source, Write, Rows
  <2> QED BY <2>1 DEF Move
<1>3. CASE c.what = "require"
  <2>1. c.row \in Row /\ c.born \in {"pending", "claimed", "stated"} /\ status[c.row] \in {"unresolved", "not_required"}
    BY <1>1, <1>3 DEF Change, Source, Rows
  <2>2. PICK more \in SUBSET Spare : Put({c.row} \cup more, c.born)
    BY <1>3 DEF Write
  <2> QED BY <2>1, <2>2 DEF Put, Spare, Rows
<1>4. CASE c.what = "add"
  <2>1. c.born \in {"pending", "claimed", "stated"}
    BY <1>1, <1>4 DEF Change
  <2>2. PICK more \in SUBSET Spare : Put(more, c.born)
    BY <1>4 DEF Write
  <2> QED BY <2>1, <2>2 DEF Put, Spare, Rows
<1>5. CASE c.what = "retire"
  <2>1. c.row \in Row /\ Move(c.row, "retired")
    BY <1>1, <1>5 DEF Change, Write, Rows
  <2> QED BY <2>1 DEF Move
<1>6. CASE c.what = "state"
  <2>1. c.row \in Row /\ status[c.row] \in {"pending", "stated"} /\ Move(c.row, "stated")
    BY <1>1, <1>6 DEF Change, Source, Write, Rows
  <2> QED BY <2>1 DEF Move
<1> QED
  BY <1>1, <1>2, <1>3, <1>4, <1>5, <1>6 DEF Change

LEMMA CollectionWrites ==
  ASSUME NEW now \in Lists, NEW filed, NEW told
  PROVE  /\ Collected(now, filed, told) \in Lists
         /\ \A r \in Row :
              /\ Collected(now, filed, told)[r] \in {"collected", "approved"} =>
                   r \in filed \/ Collected(now, filed, told)[r] = now[r]
              /\ now[r] = "approved" => Collected(now, filed, told)[r] = "approved"
BY DEF Collected, Lists, Present

\* What CollectFiles chooses.
LEMMA CollectChoice ==
  ASSUME CollectFiles
  PROVE  \E split \in SUBSET Spare, filed \in SUBSET Row, told \in SUBSET Row :
           /\ status' = Collected([r \in Row |-> IF r \in split THEN "pending" ELSE status[r]], filed, told)
           /\ Vouch(filed)
           /\ IF plan.kind = "collect"
                THEN plan' = [pc |-> "verify"] /\ check' = [check EXCEPT !["planner"].todo = filed]
                ELSE /\ plan' = [plan EXCEPT !.pc = "finish", !.docs = IF split = {} THEN @ ELSE status']
                     /\ UNCHANGED check
<1> DEFINE live == \E r \in Row : plan.docs[r] \in Present /\ status[r] \in {"pending", "claimed", "collected"}
           Offered(split) == {r \in Row : plan.docs[r] = "pending" \/ r \in split}
<1>1. PICK split \in SUBSET (IF live THEN Spare ELSE {}) :
        \E filed \in SUBSET Offered(split) : \E told \in SUBSET (Offered(split) \ filed) :
           /\ status' = Collected([r \in Row |-> IF r \in split THEN "pending" ELSE status[r]], filed, told)
           /\ Vouch(filed)
           /\ IF plan.kind = "collect"
                THEN plan' = [pc |-> "verify"] /\ check' = [check EXCEPT !["planner"].todo = filed]
                ELSE /\ plan' = [plan EXCEPT !.pc = "finish", !.docs = IF split = {} THEN @ ELSE status']
                     /\ UNCHANGED check
  BY DEF CollectFiles
<1>2. split \in SUBSET Spare
  OBVIOUS
<1>3. SUBSET Offered(split) \subseteq SUBSET Row /\ \A filed : SUBSET (Offered(split) \ filed) \subseteq SUBSET Row
  OBVIOUS
<1> HIDE DEF Offered, live
<1> QED BY <1>1, <1>2, <1>3

\* The planner's later steps keep what it carries well formed.
LEMMA OnwardFits ==
  ASSUME NEW p \in PlanRecord
  PROVE  Onward(p) \in PlanRecord
<1> USE DEF PlanRecord
<1>1. p.request \in {"none", "drafted", "dropped", "sent", "answered"}
  OBVIOUS
<1>2. [p EXCEPT !.request = "none"] \in PlanRecord
  OBVIOUS
<1> QED BY ZenonT(60), <1>2 DEF Onward

LEMMA CycleFits ==
  ASSUME DataFits, NEW after \in BOOLEAN,
         NEW req \in {"none", "drafted", "dropped", "sent", "answered"}
  PROVE  Cycle(req, after) \in PlanRecord
BY DEF DataFits, Cycle, PlanRecord

LEMMA BeginFits ==
  ASSUME DataFits, NEW after \in BOOLEAN, BeginPlan(after)
  PROVE  /\ PlanFits' /\ plan = NoPlan /\ goal = "pending"
         /\ request' \in {"none", "drafted", "dropped", "sent", "answered"}
<1>1. request' \in {"none", "drafted", "dropped", "sent", "answered"}
  BY DEF BeginPlan, DataFits
<1> QED BY <1>1, CycleFits DEF BeginPlan, PlanFits

LEMMA VouchFits ==
  ASSUME DataFits, EarnedFits, status' \in Lists, NEW S \in SUBSET Row, Vouch(S),
         \A r \in Row : status'[r] \in {"collected", "approved"} =>
           r \in S \/ status[r] \in {"collected", "approved"}
  PROVE  earned' \subseteq Row /\ EarnedFits'
BY DEF DataFits, EarnedFits, Vouch

LEMMA FlagsFit ==
  ASSUME DataFits
  PROVE  /\ Watch => reopened' \in BOOLEAN
         /\ Unseen => blind' \in BOOLEAN
BY DEF DataFits, Watch, Unseen

\* A step that leaves the goal and its edits alone and either leaves the list
\* alone or is seen to change it keeps GoalFits.
LEMMA GoalKept ==
  ASSUME GoalFits, DataFits, UNCHANGED <<goal, edit>>, UNCHANGED <<status, blind>> \/ Unseen
  PROVE  GoalFits'
BY DEF GoalFits, DataFits, Unseen, Settled, Rows

-----------------------------------------------------------------------------
(* One lemma per actor.                                                    *)
LEMMA PlannerKeeps ==
  ASSUME Inv, PlanStarts \/ PlanStep
  PROVE  Inv'
<1> USE DEF Inv, listVars, goalVars, ghostVars
<1>1. CASE PlanStarts
  <2>1. PlanFits' /\ plan = NoPlan /\ request' \in {"none", "drafted", "dropped", "sent", "answered"}
    BY <1>1, BeginFits DEF PlanStarts
  <2>2. DataFits' /\ EditFits' /\ EarnedFits'
    BY <1>1, <2>1 DEF PlanStarts, DataFits, EditFits, EarnedFits
  <2>3. CheckFits'
    BY <1>1, <2>1 DEF PlanStarts, CheckFits, NoPlan
  <2>4. GoalFits'
    BY <1>1, GoalKept DEF PlanStarts
  <2> QED BY <2>1, <2>2, <2>3, <2>4
<1>2. CASE PlanFails \/ RefuseCompletion
  <2>1. plan.pc # "verify" /\ plan' = NoPlan /\ UNCHANGED <<listVars, goalVars, check, delivery, edit, edits, ghostVars>>
    BY <1>2 DEF PlanFails, RefuseCompletion
  <2>2. DataFits' /\ EditFits' /\ EarnedFits' /\ PlanFits'
    BY <2>1 DEF DataFits, EditFits, EarnedFits, PlanFits
  <2>3. CheckFits'
    BY <2>1 DEF CheckFits
  <2>4. GoalFits'
    BY <2>1, GoalKept
  <2> QED BY <2>2, <2>3, <2>4
<1>3. CASE PlanDecides
  <2>1. plan \in PlanRecord /\ plan.pc = "asked"
    BY <1>3 DEF PlanDecides, PlanFits, NoPlan
  <2>2. PICK c \in Change(plan.docs), kind \in {"follow_up", "goal_complete", "collect"} :
          /\ IF Hits(c) THEN Write(c) ELSE UNCHANGED status
          /\ \E a \in Attests(kind, c) :
               LET p == [plan EXCEPT !.kind = kind, !.attest = a]
               IN  plan' = IF Hits(c) THEN [p EXCEPT !.pc = "settle", !.docs = NoRows] ELSE Onward(p)
    BY <1>3 DEF PlanDecides
  <2>3. PlanFits'
    <3>1. PICK a \in Attests(kind, c) :
            plan' = IF Hits(c) THEN [[plan EXCEPT !.kind = kind, !.attest = a] EXCEPT !.pc = "settle", !.docs = NoRows]
                    ELSE Onward([plan EXCEPT !.kind = kind, !.attest = a])
      BY <2>2
    <3>2. a \in {"none", "confirmed", "request"}
      BY DEF Attests
    <3>3. [plan EXCEPT !.kind = kind, !.attest = a] \in PlanRecord
      BY <2>1, <3>2 DEF PlanRecord
    <3>4. NoRows \in Lists
      BY DEF NoRows, Lists
    <3>5. [[plan EXCEPT !.kind = kind, !.attest = a] EXCEPT !.pc = "settle", !.docs = NoRows] \in PlanRecord
      BY <3>3, <3>4 DEF PlanRecord
    <3> QED BY <3>1, <3>3, <3>5, OnwardFits DEF PlanFits
  <2>4. /\ status' \in Lists
        /\ \A r \in Row : status'[r] \in {"collected", "approved"} => status'[r] = status[r]
    <3>1. CASE Hits(c)
      BY <2>1, <2>2, <3>1, ChangeWrites DEF DataFits, PlanRecord
    <3>2. CASE ~Hits(c)
      BY <2>2, <3>2 DEF DataFits
    <3> QED BY <3>1, <3>2
  <2>5. earned' \subseteq Row /\ EarnedFits'
    <3>1. Vouch({}) /\ {} \in SUBSET Row
      BY <1>3 DEF PlanDecides
    <3>2. \A r \in Row : status'[r] \in {"collected", "approved"} => r \in {} \/ status[r] \in {"collected", "approved"}
      BY <2>4
    <3> QED BY <2>4, <3>1, <3>2, VouchFits
  <2>6. DataFits'
    BY <1>3, <2>4, <2>5, FlagsFit DEF PlanDecides, DataFits
  <2>7. EditFits' /\ CheckFits'
    BY <1>3, <2>1 DEF PlanDecides, EditFits, CheckFits
  <2>8. GoalFits'
    BY <1>3, GoalKept DEF PlanDecides
  <2> QED BY <2>3, <2>5, <2>6, <2>7, <2>8
<1>4. CASE SettleChanges \/ ApplyAttestation
  <2>1. plan \in PlanRecord /\ plan.pc \in {"settle", "confirm"}
    BY <1>4 DEF SettleChanges, ApplyAttestation, PlanFits, NoPlan
  <2>2. PlanFits'
    <3>1. CASE SettleChanges
      <4> DEFINE p == [plan EXCEPT !.confirmed = @ /\ ~(plan.request \in {"sent", "answered"} \/ plan.confirmed), !.docs = status]
      <4>1. p \in PlanRecord
        BY <2>1 DEF PlanRecord, DataFits
      <4>2. plan' = Onward(p)
        BY <3>1 DEF SettleChanges
      <4> QED BY <4>1, <4>2, OnwardFits DEF PlanFits
    <3>2. CASE ApplyAttestation
      <4>1. [plan EXCEPT !.confirmed = TRUE, !.attest = "none"] \in PlanRecord
        BY <2>1 DEF PlanRecord
      <4> QED BY <3>2, <4>1, OnwardFits DEF ApplyAttestation, PlanFits
    <3> QED BY <1>4, <3>1, <3>2
  <2>3. DataFits'
    BY <1>4 DEF SettleChanges, ApplyAttestation, DataFits
  <2>4. UNCHANGED <<listVars, goal, check, delivery, edit, edits, ghostVars>>
    BY <1>4 DEF SettleChanges, ApplyAttestation
  <2>5. EditFits' /\ CheckFits' /\ EarnedFits'
    BY <2>1, <2>4 DEF EditFits, CheckFits, EarnedFits
  <2>6. GoalFits'
    BY <2>4, GoalKept
  <2> QED BY <2>2, <2>3, <2>5, <2>6
<1>5. CASE CollectFiles
  <2>1. plan \in PlanRecord /\ plan.pc = "collect"
    BY <1>5 DEF CollectFiles, PlanFits, NoPlan
  <2>2. PICK split \in SUBSET Spare, filed \in SUBSET Row, told \in SUBSET Row :
          /\ status' = Collected([r \in Row |-> IF r \in split THEN "pending" ELSE status[r]], filed, told)
          /\ Vouch(filed)
          /\ IF plan.kind = "collect"
               THEN plan' = [pc |-> "verify"] /\ check' = [check EXCEPT !["planner"].todo = filed]
               ELSE /\ plan' = [plan EXCEPT !.pc = "finish", !.docs = IF split = {} THEN @ ELSE status']
                    /\ UNCHANGED check
    BY <1>5, CollectChoice
  <2> DEFINE now == [r \in Row |-> IF r \in split THEN "pending" ELSE status[r]]
  <2>3. now \in Lists
    BY DEF DataFits, Lists, Present
  <2>4. /\ status' \in Lists
        /\ \A r \in Row : status'[r] \in {"collected", "approved"} => r \in filed \/ status[r] \in {"collected", "approved"}
    BY <2>2, <2>3, CollectionWrites
  <2>5. earned' \subseteq Row /\ EarnedFits'
    BY <2>2, <2>4, VouchFits
  <2>6. DataFits'
    BY <1>5, <2>4, <2>5, FlagsFit DEF CollectFiles, DataFits
  <2>7. PlanFits'
    BY <2>1, <2>2, <2>4 DEF PlanFits, PlanRecord
  <2>8. CheckFits'
    BY <1>5, <2>1, <2>2 DEF CollectFiles, CheckFits, NoCheck, Batch
  <2>9. EditFits'
    BY <1>5 DEF CollectFiles, EditFits
  <2>10. GoalFits'
    BY <1>5, GoalKept DEF CollectFiles
  <2> QED BY <2>5, <2>6, <2>7, <2>8, <2>9, <2>10
<1>6. CASE RerunAfterVerification
  <2>1. PlanFits'
    BY <1>6, CycleFits DEF RerunAfterVerification, PlanFits, DataFits
  <2>2. DataFits' /\ EditFits' /\ EarnedFits' /\ CheckFits'
    BY <1>6 DEF RerunAfterVerification, DataFits, EditFits, EarnedFits, CheckFits
  <2>3. GoalFits'
    BY <1>6, GoalKept DEF RerunAfterVerification
  <2> QED BY <2>1, <2>2, <2>3
<1>7. CASE CompleteGoal
  <2>1. DataFits' /\ PlanFits' /\ EditFits' /\ EarnedFits' /\ CheckFits'
    BY <1>7 DEF CompleteGoal, DataFits, PlanFits, EditFits, EarnedFits, CheckFits
  <2>2. ~blind' => plan.docs = status
    BY <1>7 DEF CompleteGoal
  <2>3. plan.docs = status => Settled(status) \/ Rows(status) = {}
    BY <1>7 DEF CompleteGoal, Done
  <2>4. status' = status
    BY <1>7 DEF CompleteGoal
  <2>5. GoalFits'
    BY <2>2, <2>3, <2>4 DEF GoalFits
  <2> QED BY <2>1, <2>5
<1>8. CASE ScheduleReply
  <2>1. DataFits' /\ PlanFits' /\ EditFits' /\ EarnedFits' /\ CheckFits'
    BY <1>8, SettledIsBoolean DEF ScheduleReply, DataFits, PlanFits, EditFits, EarnedFits, CheckFits
  <2>2. GoalFits'
    BY <1>8, GoalKept DEF ScheduleReply
  <2> QED BY <2>1, <2>2
<1> QED
  BY <1>1, <1>2, <1>3, <1>4, <1>5, <1>6, <1>7, <1>8 DEF PlanStep

LEMMA ChecksKeep ==
  ASSUME Inv, NEW b \in Batch, CheckStep(b)
  PROVE  Inv'
<1> USE DEF Inv, listVars, goalVars, ghostVars
<1>a. check \in [Batch -> [todo : SUBSET Row, open : SUBSET Row]]
  BY DEF CheckFits
<1>b. check[b] # NoCheck
  BY <1>a DEF CheckStep, CheckSkips, CheckLoads, CheckHiccups, CheckStalls, CheckEnds, NoCheck
<1>c. (b = "planner" => plan.pc = "verify") /\ (b = "delivery" => delivery = "checking")
  BY <1>b DEF CheckFits
<1>d. \/ \E r \in check[b].todo : check' = [check EXCEPT ![b].todo = @ \ {r}]
      \/ \E r \in check[b].todo : check' = [check EXCEPT ![b] = [todo |-> @.todo \ {r}, open |-> {r}]]
      \/ check' = [check EXCEPT ![b].open = {}]
  BY DEF CheckStep, CheckSkips, CheckLoads, CheckHiccups, CheckStalls, CheckEnds, Closed
<1>e. UNCHANGED <<plan, delivery, edit, edits, goal, blind, request, confirmed>>
  BY DEF CheckStep, CheckSkips, CheckLoads, CheckHiccups, CheckStalls, CheckEnds
<1>1. CheckFits'
  <2>1. ASSUME NEW r \in check[b].todo, check' = [check EXCEPT ![b].todo = @ \ {r}] PROVE CheckFits'
    BY <1>a, <1>c, <1>e, <2>1 DEF CheckFits, Batch
  <2>2. ASSUME NEW r \in check[b].todo, check' = [check EXCEPT ![b] = [todo |-> @.todo \ {r}, open |-> {r}]]
        PROVE  CheckFits'
    BY <1>a, <1>c, <1>e, <2>2 DEF CheckFits, Batch
  <2>3. CASE check' = [check EXCEPT ![b].open = {}]
    BY <1>a, <1>c, <1>e, <2>3 DEF CheckFits, Batch
  <2> QED BY <1>d, <2>1, <2>2, <2>3
<1>2. PlanFits' /\ EditFits'
  BY <1>e DEF PlanFits, EditFits
<1>3. CASE UNCHANGED <<status, adhoc, reopened, earned>> /\ stalled' \subseteq Row
  <2>1. DataFits' /\ EarnedFits'
    BY <1>3, <1>e DEF DataFits, EarnedFits
  <2>2. GoalFits'
    BY <1>3, <1>e, GoalKept
  <2> QED BY <1>1, <1>2, <2>1, <2>2
<1>4. CASE CheckSkips(b) \/ CheckLoads(b) \/ CheckHiccups(b)
  BY <1>3, <1>4 DEF CheckSkips, CheckLoads, CheckHiccups, DataFits
<1>5. CASE CheckStalls(b)
  BY <1>3, <1>5, <1>a DEF CheckStalls, DataFits
<1>6. CASE CheckEnds(b)
  <2>1. PICK r \in check[b].open, verdict \in {"approved", "pending"} :
          IF status[r] = "collected" THEN Move(r, verdict) /\ stalled' = stalled \ {r}
                                     ELSE UNCHANGED <<status, stalled>>
    BY <1>6 DEF CheckEnds
  <2>2. r \in Row
    BY <1>a
  <2>3. CASE status[r] # "collected"
    <3>1. earned' \subseteq Row /\ EarnedFits'
      <4>1. Vouch({}) /\ {} \in SUBSET Row /\ status' = status
        BY <1>6, <2>1, <2>3 DEF CheckEnds
      <4> QED BY <4>1, VouchFits DEF DataFits
    <3>2. DataFits'
      BY <1>6, <1>e, <2>1, <2>3, <3>1 DEF CheckEnds, DataFits
    <3>3. GoalFits'
      BY <1>e, <2>1, <2>3, GoalKept
    <3> QED BY <1>1, <1>2, <3>1, <3>2, <3>3
  <2>4. CASE status[r] = "collected"
    <3>1. status' = [status EXCEPT ![r] = verdict] /\ stalled' = stalled \ {r}
      BY <2>1, <2>4 DEF Move
    <3>2. status' \in Lists
      BY <3>1 DEF DataFits, Lists, Present
    <3>3. earned' \subseteq Row /\ EarnedFits'
      <4>1. Vouch({}) /\ {} \in SUBSET Row
        BY <1>6 DEF CheckEnds
      <4>2. \A x \in Row : status'[x] \in {"collected", "approved"} => x \in {} \/ status[x] \in {"collected", "approved"}
        BY <2>4, <3>1 DEF DataFits, Lists
      <4> QED BY <3>2, <4>1, <4>2, VouchFits
    <3>4. DataFits'
      BY <1>6, <1>e, <3>1, <3>2, <3>3 DEF CheckEnds, DataFits
    <3>5. ~Settled(status) /\ Rows(status) # {}
      BY <2>2, <2>4 DEF Settled, Rows, SettledStatus
    <3>6. GoalFits'
      BY <1>e, <3>5 DEF GoalFits
    <3> QED BY <1>1, <1>2, <3>3, <3>4, <3>6
  <2> QED BY <2>3, <2>4
<1> QED
  BY <1>4, <1>5, <1>6 DEF CheckStep

LEMMA OthersKeep ==
  ASSUME Inv, SummarySends \/ ClientAnswers \/ Deliver \/ ReportDelivery
  PROVE  Inv'
<1> USE DEF Inv, listVars, goalVars, ghostVars
<1>1. CASE SummarySends \/ ClientAnswers
  <2>1. DataFits' /\ PlanFits' /\ EditFits' /\ EarnedFits' /\ CheckFits'
    BY <1>1 DEF SummarySends, ClientAnswers, DataFits, PlanFits, EditFits, EarnedFits, CheckFits
  <2>2. GoalFits'
    BY <1>1, GoalKept DEF SummarySends, ClientAnswers
  <2> QED BY <2>1, <2>2
<1>2. CASE Deliver
  <2>1. PICK r \in Rows(status) :
          /\ status[r] \in {"pending", "claimed"} /\ Move(r, "collected") /\ Vouch({r})
          /\ check' = [check EXCEPT !["delivery"].todo = {r}]
    BY <1>2 DEF Deliver
  <2>2. r \in Row /\ ~Settled(status)
    BY <2>1 DEF Rows, Settled, SettledStatus
  <2>3. status' \in Lists
    BY <2>1, <2>2 DEF Move, DataFits, Lists, Present
  <2>4. earned' \subseteq Row /\ EarnedFits'
    <3>1. \A x \in Row : status'[x] \in {"collected", "approved"} => x \in {r} \/ status[x] \in {"collected", "approved"}
      BY <2>1, <2>2 DEF Move, DataFits, Lists
    <3> QED BY <2>1, <2>2, <2>3, <3>1, VouchFits
  <2>5. DataFits' /\ PlanFits' /\ EditFits'
    BY <1>2, <2>3, <2>4 DEF Deliver, DataFits, PlanFits, EditFits
  <2>6. CheckFits'
    BY <1>2, <2>1, <2>2 DEF Deliver, CheckFits, NoCheck, Batch
  <2>7. GoalFits'
    BY <1>2, <2>1, <2>2 DEF Deliver, GoalFits
  <2> QED BY <2>4, <2>5, <2>6, <2>7
<1>3. CASE ReportDelivery
  <2>1. PlanFits' /\ plan.pc # "verify" /\ request' \in {"none", "drafted", "dropped", "sent", "answered"}
    <3>1. CASE BeginPlan(TRUE)
      <4>1. PlanFits' /\ plan = NoPlan /\ request' \in {"none", "drafted", "dropped", "sent", "answered"}
        BY <3>1, BeginFits
      <4> QED BY <4>1 DEF NoPlan
    <3>2. CASE plan = NoPlan /\ UNCHANGED <<plan, request>>
      BY <3>2 DEF PlanFits, DataFits, NoPlan
    <3> QED BY <1>3, <3>1, <3>2 DEF ReportDelivery
  <2>2. DataFits' /\ EditFits' /\ EarnedFits' /\ CheckFits'
    BY <1>3, <2>1 DEF ReportDelivery, DataFits, EditFits, EarnedFits, CheckFits
  <2>3. GoalFits'
    BY <1>3, GoalKept DEF ReportDelivery
  <2> QED BY <2>1, <2>2, <2>3
<1> QED
  BY <1>1, <1>2, <1>3

LEMMA EditsKeep ==
  ASSUME Inv, NEW q \in Request, EditReads(q) \/ AddRow(q) \/ DeleteRow(q) \/ EditStep(q)
  PROVE  Inv'
<1> USE DEF Inv, listVars, goalVars, ghostVars
<1>a. edit \in [Request -> EditRecord]
  BY DEF EditFits
<1>1. CASE EditReads(q)
  <2>0. PICK r \in Rows(status) : \E t \in Manual(status[r]) :
          edit' = [edit EXCEPT ![q] = [pc |-> "write", row |-> r, to |-> t]]
    BY <1>1 DEF EditReads
  <2>1. PICK t \in Manual(status[r]) : edit' = [edit EXCEPT ![q] = [pc |-> "write", row |-> r, to |-> t]]
    BY <2>0
  <2>2. [pc |-> "write", row |-> r, to |-> t] \in EditRecord
    BY DEF Rows, Manual, Present, EditRecord
  <2>3. EditFits'
    BY <2>1, <2>2, <1>a DEF EditFits
  <2>4. DataFits' /\ PlanFits' /\ EarnedFits' /\ CheckFits'
    BY <1>1, ChecklistAssumption DEF EditReads, DataFits, PlanFits, EarnedFits, CheckFits
  <2>5. GoalFits'
    <3>1. edit[q].pc = "idle"
      BY <1>1 DEF EditReads, NoEdit
    <3> QED BY <1>1, <2>1, <3>1, <1>a DEF EditReads, GoalFits
  <2> QED BY <2>3, <2>4, <2>5
<1>b. ASSUME edit' = [edit EXCEPT ![q] = [pc |-> "changed"]] PROVE EditFits' /\ GoalFits'
  <2>1. [pc |-> "changed"] \in EditRecord
    BY DEF EditRecord
  <2>2. edit'[q].pc = "changed"
    BY <1>a, <1>b
  <2> QED BY <2>1, <2>2, <1>a, <1>b DEF EditFits, GoalFits
<1>2. CASE EditWrites(q)
  <2>a. PICK r : r = edit[q].row
    OBVIOUS
  <2>1. r \in Row /\ edit[q].to \in Present /\ edit[q].pc = "write"
    BY <1>2, <1>a, <2>a DEF EditWrites, EditRecord, NoEdit
  <2>2. CASE status[r] = "absent"
    <3>1. edit' = [edit EXCEPT ![q] = NoEdit] /\ UNCHANGED <<status, earned>>
      BY <1>2, <2>a, <2>2 DEF EditWrites
    <3>2. EditFits'
      BY <3>1, <1>a DEF EditFits, EditRecord, NoEdit
    <3>3. DataFits' /\ PlanFits' /\ EarnedFits' /\ CheckFits'
      BY <1>2, <3>1, FlagsFit DEF EditWrites, DataFits, PlanFits, EarnedFits, CheckFits
    <3>4. GoalFits'
      BY <1>2, <2>1, <3>1, <1>a DEF EditWrites, GoalFits
    <3> QED BY <3>2, <3>3, <3>4
  <2>3. CASE status[r] # "absent"
    <3>1. Move(r, edit[q].to) /\ Vouch({r}) /\ edit' = [edit EXCEPT ![q] = [pc |-> "changed"]]
      BY <1>2, <2>a, <2>3 DEF EditWrites
    <3>2. status' \in Lists
      BY <2>1, <3>1 DEF Move, DataFits, Lists
    <3>3. earned' \subseteq Row /\ EarnedFits'
      <4>1. \A x \in Row : status'[x] \in {"collected", "approved"} => x \in {r} \/ status[x] \in {"collected", "approved"}
        BY <2>1, <3>1 DEF Move, DataFits, Lists
      <4> QED BY <2>1, <3>1, <3>2, <4>1, VouchFits
    <3>4. DataFits' /\ PlanFits' /\ CheckFits'
      BY <1>2, <3>2, <3>3, FlagsFit DEF EditWrites, DataFits, PlanFits, CheckFits
    <3> QED BY <1>b, <3>1, <3>3, <3>4
  <2> QED BY <2>2, <2>3
<1>3. CASE AddRow(q)
  <2>1. PICK r \in Spare : Move(r, "pending") /\ adhoc' = adhoc \cup {r}
    BY <1>3 DEF AddRow
  <2>2. r \in Row /\ status' = [status EXCEPT ![r] = "pending"] /\ status' \in Lists
    BY <2>1 DEF Spare, Move, DataFits, Lists, Present
  <2>3. DataFits' /\ PlanFits' /\ CheckFits'
    BY <1>3, <2>1, <2>2, FlagsFit, ChecklistAssumption DEF AddRow, DataFits, PlanFits, CheckFits
  <2>4. EarnedFits'
    BY <1>3, <2>2 DEF AddRow, EarnedFits, DataFits, Lists
  <2> QED BY <1>b, <1>3, <2>3, <2>4 DEF AddRow
<1>4. CASE DeleteRow(q)
  <2>1. PICK r \in Rows(status) : Move(r, "absent") /\ stalled' = stalled \ {r} /\ adhoc' = adhoc \ {r} /\ Vouch({})
    BY <1>4 DEF DeleteRow
  <2>2. r \in Row /\ status' = [status EXCEPT ![r] = "absent"] /\ status' \in Lists
    BY <2>1 DEF Rows, Move, DataFits, Lists
  <2>3. earned' \subseteq Row /\ EarnedFits'
    <3>1. {} \in SUBSET Row /\ \A x \in Row : status'[x] \in {"collected", "approved"} => x \in {} \/ status[x] \in {"collected", "approved"}
      BY <2>2 DEF DataFits, Lists
    <3> QED BY <2>1, <2>2, <3>1, VouchFits
  <2>4. DataFits' /\ PlanFits' /\ CheckFits'
    BY <1>4, <2>1, <2>2, <2>3, FlagsFit, ChecklistAssumption DEF DeleteRow, DataFits, PlanFits,
         CheckFits
  <2> QED BY <1>b, <1>4, <2>3, <2>4 DEF DeleteRow
<1>5. CASE ChangeReads(q)
  <2> DEFINE done == Settled(status) /\ confirmed
             docs == IF done THEN status ELSE NoRows
             clears == ~Settled(status) /\ (confirmed \/ request # "none")
             to == IF done /\ goal = "pending" THEN "complete"
                   ELSE IF ~done /\ goal = "complete" THEN "pending" ELSE "same"
  <2>1. edit' = [edit EXCEPT ![q] = [pc |-> "derive", docs |-> docs, clears |-> clears, goal |-> to]]
    BY <1>5 DEF ChangeReads
  <2>2. docs \in Lists /\ clears \in BOOLEAN /\ to \in {"complete", "pending", "same"}
    BY DEF DataFits, NoRows, Lists
  <2>3. to = "complete" => Settled(docs)
    OBVIOUS
  <2>4. goal = "complete" /\ ~Settled(status) => to = "pending"
    OBVIOUS
  <2> HIDE DEF docs, clears, to
  <2>5. [pc |-> "derive", docs |-> docs, clears |-> clears, goal |-> to] \in EditRecord
    BY <2>2 DEF EditRecord
  <2>6. EditFits'
    BY <2>1, <2>3, <2>5, <1>a DEF EditFits
  <2>7. DataFits' /\ PlanFits' /\ EarnedFits' /\ CheckFits'
    BY <1>5 DEF ChangeReads, DataFits, PlanFits, EarnedFits, CheckFits
  <2>8. GoalFits'
    <3>1. UNCHANGED <<goal, status, blind>>
      BY <1>5 DEF ChangeReads
    <3> QED BY <2>1, <2>4, <3>1, <1>a DEF GoalFits
  <2> QED BY <2>6, <2>7, <2>8
<1>6. CASE ClearsAttestation(q)
  <2>1. edit[q] \in [pc : {"derive"}, docs : Lists, clears : BOOLEAN, goal : {"complete", "pending", "same"}]
    BY <1>6, <1>a DEF ClearsAttestation, EditRecord, NoEdit
  <2>2. edit' = [edit EXCEPT ![q].clears = FALSE]
    BY <1>6 DEF ClearsAttestation
  <2>3. /\ edit'[q] \in [pc : {"derive"}, docs : Lists, clears : BOOLEAN, goal : {"complete", "pending", "same"}]
        /\ edit'[q].docs = edit[q].docs /\ edit'[q].goal = edit[q].goal /\ edit[q].pc = "derive"
        /\ \A p \in Request : p # q => edit'[p] = edit[p]
        /\ DOMAIN edit' = Request
    BY <2>1, <2>2, <1>a
  <2>4. EditFits'
    <3>1. edit'[q] \in EditRecord
      BY <2>3 DEF EditRecord
    <3> QED BY <2>2, <2>3, <3>1, <1>a DEF EditFits
  <2>5. DataFits' /\ PlanFits' /\ EarnedFits' /\ CheckFits'
    BY <1>6 DEF ClearsAttestation, DataFits, PlanFits, EarnedFits, CheckFits
  <2>6. GoalFits'
    BY <1>6, <2>3 DEF ClearsAttestation, GoalFits
  <2> QED BY <2>4, <2>5, <2>6
<1>7. CASE DerivesGoal(q)
  <2>1. edit[q].goal \in {"complete", "pending", "same"} /\ edit[q].pc = "derive"
    BY <1>7, <1>a DEF DerivesGoal, EditRecord, NoEdit
  <2>2. UNCHANGED <<listVars, confirmed, request, plan, check, delivery, edits, earned, reopened>>
    BY <1>7 DEF DerivesGoal
  <2>3. PlanFits' /\ EarnedFits' /\ CheckFits'
    BY <2>2 DEF PlanFits, EarnedFits, CheckFits
  <2>4. CASE edit[q].goal = "complete"
    <3>1. goal' = "complete" /\ blind' = (edit[q].docs # status) /\ edit' = [edit EXCEPT ![q] = [pc |-> "cancel"]]
      BY <1>7, <2>4 DEF DerivesGoal
    <3>2. EditFits'
      BY <3>1, <1>a DEF EditFits, EditRecord
    <3>3. DataFits'
      BY <2>2, <3>1 DEF DataFits
    <3>4. ~blind' => Settled(status)
      BY <2>1, <2>4, <3>1 DEF EditFits
    <3>5. GoalFits'
      BY <2>2, <3>4 DEF GoalFits
    <3> QED BY <2>3, <3>2, <3>3, <3>5
  <2>5. CASE edit[q].goal = "pending"
    <3>1. goal' = "pending" /\ blind' = FALSE /\ edit' = [edit EXCEPT ![q] = [pc |-> "replan"]]
      BY <1>7, <2>5 DEF DerivesGoal
    <3>2. EditFits'
      BY <3>1, <1>a DEF EditFits, EditRecord
    <3>3. DataFits' /\ GoalFits'
      BY <2>2, <3>1 DEF DataFits, GoalFits
    <3> QED BY <2>3, <3>2, <3>3
  <2>6. CASE edit[q].goal = "same"
    <3>1. edit' = [edit EXCEPT ![q] = NoEdit] /\ UNCHANGED <<goal, blind>>
      BY <1>7, <2>6 DEF DerivesGoal
    <3>2. EditFits'
      BY <3>1, <1>a DEF EditFits, EditRecord, NoEdit
    <3>3. DataFits'
      BY <2>2, <3>1 DEF DataFits
    <3>4. GoalFits'
      BY <2>1, <2>2, <2>6, <3>1, <1>a DEF GoalFits
    <3> QED BY <2>3, <3>2, <3>3, <3>4
  <2> QED BY <2>1, <2>4, <2>5, <2>6
<1>8. CASE CancelsSend(q) \/ EditReplans(q)
  <2>1. edit' = [edit EXCEPT ![q] = NoEdit] /\ edit[q].pc \in {"cancel", "replan"} /\ plan = NoPlan
    BY <1>8 DEF CancelsSend, EditReplans, BeginPlan
  <2>2. PlanFits' /\ request' \in {"none", "drafted", "dropped", "sent", "answered"}
    BY <1>8, BeginFits DEF CancelsSend, EditReplans, PlanFits, DataFits
  <2>3. UNCHANGED <<listVars, goal, confirmed, check, delivery, edits, ghostVars>>
    BY <1>8 DEF CancelsSend, EditReplans
  <2>4. EditFits'
    BY <2>1, <1>a DEF EditFits, EditRecord, NoEdit
  <2>5. DataFits' /\ EarnedFits'
    BY <2>2, <2>3 DEF DataFits, EarnedFits
  <2>6. CheckFits'
    BY <2>1, <2>3 DEF CheckFits, NoPlan
  <2>7. GoalFits'
    BY <2>1, <2>3, <1>a DEF GoalFits
  <2> QED BY <2>2, <2>4, <2>5, <2>6, <2>7
<1> QED
  BY <1>1, <1>2, <1>3, <1>4, <1>5, <1>6, <1>7, <1>8 DEF EditStep

-----------------------------------------------------------------------------
(* The theorems.                                                           *)
LEMMA Invariance == Spec => []Inv
<1>1. Init => Inv
  <2> SUFFICES ASSUME Init PROVE Inv
    OBVIOUS
  <2> USE ChecklistAssumption DEF Init
  <2>1. DataFits
    <3>1. status \in Lists
      BY DEF Lists, Present
    <3>2. edits \in 0 .. MaxEdits
      OBVIOUS
    <3> QED BY <3>1, <3>2 DEF DataFits
  <2>2. PlanFits /\ EditFits
    BY DEF PlanFits, EditFits, EditRecord, NoEdit
  <2>3. CheckFits
    BY DEF CheckFits, NoCheck, Batch
  <2>4. EarnedFits /\ GoalFits
    BY DEF EarnedFits, GoalFits
  <2> QED BY <2>1, <2>2, <2>3, <2>4 DEF Inv
<1>2. Inv /\ [Next]_vars => Inv'
  <2> SUFFICES ASSUME Inv, [Next]_vars PROVE Inv'
    OBVIOUS
  <2>1. CASE UNCHANGED vars
    BY <2>1 DEF vars, listVars, goalVars, ghostVars, Inv, DataFits, PlanFits, EditFits, CheckFits,
         EarnedFits, GoalFits
  <2>2. CASE Next
    BY <2>2, PlannerKeeps, ChecksKeep, OthersKeep, EditsKeep DEF Next
  <2> QED BY <2>1, <2>2
<1> QED BY <1>1, <1>2, PTL DEF Spec

\* The list, the goal, the runs, the batches and the requests have their types,
\* and a batch is at work only for the run or the delivery that waits for it.
THEOREM TypeCorrect == Spec => []TypeOK
<1>1. Inv => TypeOK
  <2> SUFFICES ASSUME Inv PROVE TypeOK
    OBVIOUS
  <2>1. \A b \in Batch : Cardinality(check[b].open) <= 1
    <3> SUFFICES ASSUME NEW b \in Batch PROVE Cardinality(check[b].open) <= 1
      OBVIOUS
    <3>1. CASE check[b].open = {}
      BY <3>1, FS_EmptySet
    <3>2. ASSUME NEW r \in Row, check[b].open = {r} PROVE Cardinality(check[b].open) <= 1
      <4>1. Cardinality({r}) = 1
        BY FS_Singleton
      <4> QED BY <3>2, <4>1
    <3> QED BY <3>1, <3>2 DEF Inv, CheckFits
  <2>2. plan.pc \in {"idle", "asked", "settle", "confirm", "collect", "verify", "finish"}
    BY DEF Inv, PlanFits, PlanRecord, NoPlan
  <2>3. \A q \in Request : edit[q].pc \in {"idle", "write", "changed", "derive", "cancel", "replan"}
    BY DEF Inv, EditFits, EditRecord, NoEdit
  <2> QED BY <2>1, <2>2, <2>3 DEF Inv, DataFits, CheckFits, TypeOK, Lists
<1> QED BY Invariance, <1>1, PTL

\* A complete goal that its list does not bear out is one whose completion did
\* not see the list, or an edit is about to put it right.
THEOREM CompleteIsSettledHolds == Spec => []CompleteIsSettled
<1>1. Inv => CompleteIsSettled
  BY DEF Inv, GoalFits, CompleteIsSettled
<1> QED BY Invariance, <1>1, PTL

\* No document is approved on words alone.
THEOREM ApprovedIsEarnedHolds == Spec => []ApprovedIsEarned
<1>1. Inv => ApprovedIsEarned
  BY DEF Inv, EarnedFits, ApprovedIsEarned
<1> QED BY Invariance, <1>1, PTL

\* Only the accountant reopens an approved document.
THEOREM ApprovedStandsHolds == Spec => ApprovedStands
<1> DEFINE Stands(r) ==
      status[r] = "approved" /\ status'[r] \notin {"approved", "retired", "absent"} =>
        \E q \in Request : edit[q].pc = "write" /\ edit[q].row = r /\ edit' # edit
<1>1. Inv /\ [Next]_vars => [\A r \in Row : Stands(r)]_vars
  <2> SUFFICES ASSUME Inv, Next, NEW r \in Row, status[r] = "approved", status'[r] \notin {"approved", "retired", "absent"}
               PROVE  \E q \in Request : edit[q].pc = "write" /\ edit[q].row = r /\ edit' # edit
    OBVIOUS
  <2> USE DEF listVars, goalVars, ghostVars
  <2>a. status \in Lists /\ edit \in [Request -> EditRecord]
    BY DEF Inv, DataFits, EditFits
  <2>b. status' # status
    OBVIOUS
  <2>1. CASE PlanDecides
    <3>1. PICK c \in Change(plan.docs) : IF Hits(c) THEN Write(c) ELSE UNCHANGED status
      BY <2>1 DEF PlanDecides
    <3>2. plan.docs \in Lists
      BY <2>1 DEF PlanDecides, Inv, PlanFits, PlanRecord, NoPlan
    <3>3. Hits(c) /\ Write(c)
      BY <2>b, <3>1
    <3> QED BY <2>a, <3>2, <3>3, ChangeWrites
  <2>2. CASE CollectFiles
    <3>1. PICK split \in SUBSET Spare, filed \in SUBSET Row, told \in SUBSET Row :
            status' = Collected([x \in Row |-> IF x \in split THEN "pending" ELSE status[x]], filed, told)
      BY <2>2, CollectChoice
    <3> DEFINE now == [x \in Row |-> IF x \in split THEN "pending" ELSE status[x]]
    <3>2. now \in Lists /\ now[r] = "approved"
      BY <2>a DEF Lists, Present, Spare, Rows
    <3> QED BY <3>1, <3>2, CollectionWrites
  <2>3. ASSUME NEW b \in Batch, CheckEnds(b)
        PROVE  FALSE
    BY <2>3, <2>a DEF CheckEnds, Move, Lists
  <2>4. CASE Deliver
    BY <2>4, <2>a DEF Deliver, Move, Lists
  <2>5. ASSUME NEW q \in Request, EditWrites(q)
        PROVE  edit[q].pc = "write" /\ edit[q].row = r /\ edit' # edit
    <3>1. edit[q].pc = "write" /\ status[edit[q].row] # "absent" /\ Move(edit[q].row, edit[q].to)
          /\ edit' = [edit EXCEPT ![q] = [pc |-> "changed"]]
      BY <2>5, <2>b DEF EditWrites
    <3>2. edit[q].row = r
      BY <3>1, <2>a DEF Move, Lists
    <3>3. edit'[q].pc = "changed"
      BY <3>1, <2>a
    <3> QED BY <3>1, <3>2, <3>3
  <2>6. ASSUME NEW q \in Request, AddRow(q) \/ DeleteRow(q)
        PROVE  FALSE
    BY <2>6, <2>a DEF AddRow, DeleteRow, Move, Spare, Rows, Lists
  <2>7. CASE UNCHANGED status
    BY <2>7, <2>b
  <2> QED
    BY <2>1, <2>2, <2>3, <2>4, <2>5, <2>6, <2>7
       DEF Next, PlanStarts, PlanStep, PlanFails, SettleChanges, ApplyAttestation, RerunAfterVerification,
           CompleteGoal, RefuseCompletion, ScheduleReply, CheckStep, CheckSkips, CheckLoads, CheckHiccups,
           CheckStalls, SummarySends, ClientAnswers, ReportDelivery, EditReads, EditStep, ChangeReads,
           ClearsAttestation, DerivesGoal, CancelsSend, EditReplans
<1> QED BY <1>1, Invariance, PTL DEF Spec, ApprovedStands
=============================================================================
