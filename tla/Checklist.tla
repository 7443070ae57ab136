----------------------------- MODULE Checklist -----------------------------
(***************************************************************************)
(* The document checklist of one client and the goal derived from it.      *)
(* The planner reads the list, waits for the model, and applies the answer *)
(* row by row; files it collects are verified inside the same run, those a *)
(* portal fetch delivers outside of the client lock.  The accountant edits *)
(* the rows without the lock and re-derives the goal afterwards.  Every    *)
(* write of the planner and of a verification is guarded by the row's      *)
(* status; the accountant's is a write by id after a check of its own.     *)
(*                                                                         *)
(* A run of the planner holds the client lock from its read to its end, so *)
(* no message is sent meanwhile.  What the files say is a choice of the    *)
(* verification; what the client wrote is a choice of the planner.         *)
(***************************************************************************)
EXTENDS Naturals, FiniteSets

CONSTANTS
  Row,         \* ids of checklist rows
  Request,     \* slots for the accountant's requests
  MaxEdits,    \* bound: edits by the accountant
  Deliveries   \* whether a portal fetch delivers documents

ASSUME ChecklistAssumption ==
  /\ MaxEdits \in Nat
  /\ Deliveries \in BOOLEAN

VARIABLES
  status,     \* client_documents.status, "absent" where there is no row
  stalled,    \* rows whose verification carries stalled = true
  adhoc,      \* rows without a catalog type (the accountant added them)
  goal,       \* clients.goal_status
  confirmed,  \* attestation_confirmed_at is set
  request,    \* the closing summary of attestation_request_email_id
  plan,       \* the planner run that holds the lock
  check,      \* verification batches: of the planner, of a delivery
  delivery,   \* the fetch: idle, checking its files, reporting
  edit,       \* the accountant's requests
  edits,
  earned,     \* ghost: collected or approved rows that a file or the accountant vouches for
  reopened,   \* ghost: the list was not settled at some time since the summary was written
  blind       \* ghost: the completion did not see the list as it now is

listVars  == <<status, stalled, adhoc>>
goalVars  == <<goal, confirmed, request>>
ghostVars == <<earned, reopened, blind>>
vars == <<listVars, goalVars, plan, check, delivery, edit, edits, ghostVars>>

Present == {"unresolved", "not_required", "pending", "claimed", "collected",
            "approved", "stated", "retired"}
SettledStatus == {"approved", "stated", "not_required", "retired"}

NoRows        == [r \in Row |-> "absent"]
Rows(list)    == {r \in Row : list[r] # "absent"}
Settled(list) == Rows(list) # {} /\ \A r \in Rows(list) : list[r] \in SettledStatus

Batch    == {"planner", "delivery"}
NoCheck  == [todo |-> {}, open |-> {}]
NoPlan   == [pc |-> "idle"]
NoEdit   == [pc |-> "idle"]

\* A catalog is seeded unresolved; a kickoff form may have resolved some rows.
Init ==
  /\ status \in [Row -> {"absent", "unresolved", "pending"}]
  /\ Rows(status) # {}
  /\ stalled = {}
  /\ adhoc = {}
  /\ goal = "pending"
  /\ confirmed = FALSE
  /\ request = "none"
  /\ plan = NoPlan
  /\ check = [b \in Batch |-> NoCheck]
  /\ delivery = "idle"
  /\ edit = [q \in Request |-> NoEdit]
  /\ edits = 0
  /\ earned = {}
  /\ reopened = TRUE
  /\ blind = FALSE

-----------------------------------------------------------------------------
(* The planner.                                                            *)

\* What a cycle reads before it asks the model.
Cycle(req, after) ==
  [pc |-> "asked", docs |-> status, confirmed |-> confirmed, request |-> req,
   after |-> after, attest |-> "none", kind |-> "none"]

\* removeFutureEmail comes first, so a summary still queued is never sent.
BeginPlan(after) ==
  /\ plan = NoPlan
  /\ goal = "pending"
  /\ request' = IF request = "drafted" THEN "dropped" ELSE request
  /\ plan' = Cycle(request', after)

PlanStarts ==
  /\ BeginPlan(FALSE)
  /\ UNCHANGED <<listVars, goal, confirmed, check, delivery, edit, edits, ghostVars>>

\* The model call fails, the answer is refused, or the client declines.
PlanFails ==
  /\ plan.pc = "asked"
  /\ plan' = NoPlan
  /\ UNCHANGED <<listVars, goalVars, check, delivery, edit, edits, ghostVars>>

\* The list changes the gate accepts against the list that was read.
Change(docs) ==
  LET typed == {r \in Rows(docs) \ adhoc : docs[r] \notin {"unresolved", "not_required"}}
      open  == {r \in Row : docs[r] \in {"unresolved", "not_required"}}
  IN  {[what |-> "none"]}
        \cup [what : {"waive"}, row : open]
        \cup [what : {"require"}, row : open, born : {"pending", "claimed", "stated"}]
        \cup [what : {"add"}, row : typed, born : {"pending", "claimed", "stated"}]
        \cup [what : {"retire"}, row : {r \in typed : docs[r] # "retired"}]
        \cup [what : {"state"}, row : {r \in typed : docs[r] \in {"pending", "stated"}}]

Move(r, st) == status' = [status EXCEPT ![r] = st]

Spare == Row \ Rows(status)
Put(S, st) == status' = [r \in Row |-> IF r \in S THEN st ELSE status[r]]

\* What a row must be by then for the write of a change to find it.
Source(c) ==
  CASE c.what = "waive"   -> {"unresolved"}
    [] c.what = "require" -> {"unresolved", "not_required"}
    [] c.what = "add"     -> Present \ {"unresolved"}
    [] c.what = "retire"  -> {"pending", "claimed", "collected", "approved"}
    [] c.what = "state"   -> {"pending", "stated"}

Hits(c) == c.what # "none" /\ status[c.row] \in Source(c)

\* A required type becomes one row or several; an addition puts rows beside one.
Write(c) ==
  CASE c.what = "waive"   -> Move(c.row, "not_required")
    [] c.what = "require" -> \E more \in SUBSET Spare : Put({c.row} \cup more, c.born)
    [] c.what = "add"     -> \E more \in SUBSET Spare \ {{}} : Put(more, c.born)
    [] c.what = "retire"  -> Move(c.row, "retired")
    [] c.what = "state"   -> Move(c.row, "stated")

\* The ghosts.  What vouches for a row does so until the row is neither
\* collected nor approved any more; a list is seen to reopen; and so is a change
\* by the planner under a completion by the accountant.
Vouch(S) == earned' = {r \in earned \cup S : status'[r] \in {"collected", "approved"}}
Watch == reopened' = (reopened \/ ~Settled(status'))
Unseen == blind' = (blind \/ (goal = "complete" /\ status' # status))

\* The attestation steps the gate accepts.
Attests(kind, c) ==
  {"none"}
    \cup (IF plan.request = "answered" /\ ~plan.confirmed THEN {"confirmed"} ELSE {})
    \cup (IF kind = "follow_up" /\ c.what = "none" /\ Settled(plan.docs) /\ ~plan.confirmed
            THEN {"request"} ELSE {})

\* Documents that arrived are tied to the list only by a cycle that may collect.
Ties(p) == ~p.after /\ p.kind # "follow_up"

\* The next step that has something to do once the list is as the cycle sees it.
Onward(p) ==
  LET q == [p EXCEPT !.request = "none"]
  IN  IF p.attest = "confirmed" THEN [q EXCEPT !.pc = "confirm"]
      ELSE IF Ties(p) THEN [q EXCEPT !.pc = "collect"]
      ELSE [q EXCEPT !.pc = "finish", !.after = FALSE]

\* The answer arrives, is validated, and its list change is written.
PlanDecides ==
  /\ plan.pc = "asked"
  /\ \E c \in Change(plan.docs), kind \in {"follow_up", "goal_complete", "collect"} :
       /\ kind = "collect" => ~plan.after
       /\ IF Hits(c) THEN Write(c) ELSE UNCHANGED status
       /\ \E a \in Attests(kind, c) :
            LET p == [plan EXCEPT !.kind = kind, !.attest = a]
            IN  plan' = IF Hits(c) THEN [p EXCEPT !.pc = "settle", !.docs = NoRows] ELSE Onward(p)
  /\ Vouch({})
  /\ Watch
  /\ Unseen
  /\ UNCHANGED <<stalled, adhoc, goalVars, check, delivery, edit, edits>>

\* A changed list voids the attestation and is read again.
SettleChanges ==
  LET voids == plan.request \in {"sent", "answered"} \/ plan.confirmed
  IN  /\ plan.pc = "settle"
      /\ request' = IF voids THEN "none" ELSE request
      /\ confirmed' = (confirmed /\ ~voids)
      /\ plan' = Onward([plan EXCEPT !.confirmed = @ /\ ~voids, !.docs = status])
      /\ UNCHANGED <<listVars, goal, check, delivery, edit, edits, ghostVars>>

ApplyAttestation ==
  /\ plan.pc = "confirm"
  /\ confirmed' = TRUE
  /\ plan' = Onward([plan EXCEPT !.confirmed = TRUE, !.attest = "none"])
  /\ UNCHANGED <<listVars, goal, request, check, delivery, edit, edits, ghostVars>>

\* Mutations: markCollected that also takes what the client only claims, and
\* markCollected without its guard on the status.
CollectedOnClaims(now, filed, told) ==
  [r \in Row |-> IF r \in filed \cup told /\ now[r] \in {"pending", "claimed"} THEN "collected" ELSE now[r]]
CollectedUnguarded(now, filed, told) ==
  [r \in Row |-> IF r \in filed THEN "collected"
                 ELSE IF r \in told /\ now[r] = "pending" THEN "claimed" ELSE now[r]]

\* A proposed row becomes collected where a file earned it, claimed elsewhere.
Collected(now, filed, told) ==
  [r \in Row |-> IF r \in filed /\ now[r] \in {"pending", "claimed"} THEN "collected"
                 ELSE IF r \in told /\ now[r] = "pending" THEN "claimed" ELSE now[r]]

\* Items are split by company first, which puts pending rows beside a live one
\* and reads the list again.
CollectFiles ==
  LET live == \E r \in Row : plan.docs[r] \in Present /\ status[r] \in {"pending", "claimed", "collected"}
  IN  /\ plan.pc = "collect"
      /\ \E split \in SUBSET (IF live THEN Spare ELSE {}) :
         LET now     == [r \in Row |-> IF r \in split THEN "pending" ELSE status[r]]
             offered == {r \in Row : plan.docs[r] = "pending" \/ r \in split}
         IN  \E filed \in SUBSET offered : \E told \in SUBSET (offered \ filed) :
               /\ status' = Collected(now, filed, told)
               /\ Vouch(filed)
               /\ IF plan.kind = "collect"
                    THEN /\ plan' = [pc |-> "verify"]
                         /\ check' = [check EXCEPT !["planner"].todo = filed]
                    ELSE /\ plan' = [plan EXCEPT !.pc = "finish", !.docs = IF split = {} THEN @ ELSE status']
                         /\ UNCHANGED check
      /\ Watch
      /\ Unseen
      /\ UNCHANGED <<stalled, adhoc, goalVars, delivery, edit, edits>>

\* Mutation: the rerun that does not await the batch.
RerunAtOnce ==
  /\ plan.pc = "verify"
  /\ plan' = Cycle(request, TRUE)
  /\ UNCHANGED <<listVars, goalVars, check, delivery, edit, edits, ghostVars>>

\* The withheld reply: one more cycle once the batch is verified.
RerunAfterVerification ==
  /\ plan.pc = "verify"
  /\ check["planner"] = NoCheck
  /\ plan' = Cycle(request, TRUE)
  /\ UNCHANGED <<listVars, goalVars, check, delivery, edit, edits, ghostVars>>

Done(p) == IF Rows(p.docs) = {} THEN p.kind = "goal_complete" ELSE Settled(p.docs) /\ p.confirmed

CompleteGoal ==
  /\ plan.pc = "finish"
  /\ Done(plan)
  /\ goal' = "complete"
  /\ blind' = (plan.docs # status)
  /\ plan' = NoPlan
  /\ UNCHANGED <<listVars, confirmed, request, check, delivery, edit, edits, earned, reopened>>

\* goal_complete before the goal is done: the answer is refused.
RefuseCompletion ==
  /\ plan.pc = "finish"
  /\ ~Done(plan)
  /\ plan.kind = "goal_complete"
  /\ plan' = NoPlan
  /\ UNCHANGED <<listVars, goalVars, check, delivery, edit, edits, ghostVars>>

\* The reply is scheduled; when it is the summary, its id is stamped.
ScheduleReply ==
  /\ plan.pc = "finish"
  /\ ~Done(plan)
  /\ plan.kind = "follow_up"
  /\ plan' = NoPlan
  /\ IF plan.attest = "request"
       THEN request' = "drafted" /\ reopened' = ~Settled(status)
       ELSE UNCHANGED <<request, reopened>>
  /\ UNCHANGED <<listVars, goal, confirmed, check, delivery, edit, edits, earned, blind>>

\* The worker needs the lock to send the summary; the client writes back.
SummarySends ==
  /\ plan = NoPlan
  /\ goal = "pending"
  /\ request = "drafted"
  /\ request' = "sent"
  /\ UNCHANGED <<listVars, goal, confirmed, plan, check, delivery, edit, edits, ghostVars>>

ClientAnswers ==
  /\ request = "sent"
  /\ request' = "answered"
  /\ UNCHANGED <<listVars, goal, confirmed, plan, check, delivery, edit, edits, ghostVars>>

-----------------------------------------------------------------------------
(* Verification of one row after the other.                                *)

\* The row is no longer collected, is stalled, or the kill switch is on.
CheckSkips(b) ==
  /\ check[b].open = {}
  /\ \E r \in check[b].todo : check' = [check EXCEPT ![b].todo = @ \ {r}]
  /\ UNCHANGED <<listVars, goalVars, plan, delivery, edit, edits, ghostVars>>

CheckLoads(b) ==
  /\ check[b].open = {}
  /\ \E r \in check[b].todo \ stalled :
       /\ status[r] = "collected"
       /\ check' = [check EXCEPT ![b] = [todo |-> @.todo \ {r}, open |-> {r}]]
  /\ UNCHANGED <<listVars, goalVars, plan, delivery, edit, edits, ghostVars>>

Closed(b) == check' = [check EXCEPT ![b].open = {}]

\* A passing trouble: no verdict, no attempt counted.
CheckHiccups(b) ==
  /\ check[b].open # {}
  /\ Closed(b)
  /\ UNCHANGED <<listVars, goalVars, plan, delivery, edit, edits, ghostVars>>

\* The file cannot be checked, carries text aimed at the model, or has failed
\* too often: the accountant takes over.  A row that still exists is marked,
\* whatever its status is by now.
CheckStalls(b) ==
  /\ check[b].open # {}
  /\ stalled' = stalled \cup {r \in check[b].open : status[r] # "absent"}
  /\ Closed(b)
  /\ UNCHANGED <<status, adhoc, goalVars, plan, delivery, edit, edits, ghostVars>>

\* The file passes, or the client is asked for another one.  A verdict moves a
\* row only while it is collected.
CheckEnds(b) ==
  /\ \E r \in check[b].open, verdict \in {"approved", "pending"} :
       IF status[r] = "collected" THEN Move(r, verdict) /\ stalled' = stalled \ {r}
                                  ELSE UNCHANGED <<status, stalled>>
  /\ Vouch({})
  /\ Closed(b)
  /\ UNCHANGED <<adhoc, goalVars, plan, delivery, edit, edits, reopened, blind>>

\* A portal fetch files a document and verifies it outside of the lock.
Deliver ==
  /\ Deliveries
  /\ delivery = "idle"
  /\ delivery' = "checking"
  /\ \E r \in Rows(status) :
       /\ status[r] \in {"pending", "claimed"}
       /\ Move(r, "collected")
       /\ Vouch({r})
       /\ check' = [check EXCEPT !["delivery"].todo = {r}]
  /\ UNCHANGED <<stalled, adhoc, goalVars, plan, edit, edits, reopened, blind>>

\* The report is a planner cycle that may not collect.
ReportDelivery ==
  /\ delivery = "checking"
  /\ check["delivery"] = NoCheck
  /\ delivery' = "idle"
  /\ \/ BeginPlan(TRUE)
     \/ plan = NoPlan /\ goal = "complete" /\ UNCHANGED <<plan, request>>
  /\ UNCHANGED <<listVars, goal, confirmed, check, edit, edits, ghostVars>>

-----------------------------------------------------------------------------
(* The accountant.                                                         *)

\* MANUAL_TRANSITIONS; the status the row already has is accepted as well.
Manual(from) ==
  {t \in {"pending", "collected", "not_required", "approved"} :
    from \in {t} \cup CASE t = "pending"      -> Present
                         [] t = "collected"    -> {"pending", "claimed"}
                         [] t = "not_required" -> {"unresolved", "pending", "claimed"}
                         [] t = "approved"     -> {"collected", "claimed"}}

EditReads(q) ==
  /\ edit[q] = NoEdit
  /\ edits < MaxEdits
  /\ edits' = edits + 1
  /\ \E r \in Rows(status) : \E t \in Manual(status[r]) :
       edit' = [edit EXCEPT ![q] = [pc |-> "write", row |-> r, to |-> t]]
  /\ UNCHANGED <<listVars, goalVars, plan, check, delivery, ghostVars>>

\* By id, whatever the status is by now.
EditWrites(q) ==
  LET r == edit[q].row
  IN  /\ edit[q].pc = "write"
      /\ IF status[r] = "absent"
           THEN edit' = [edit EXCEPT ![q] = NoEdit] /\ UNCHANGED <<status, earned>>
           ELSE /\ Move(r, edit[q].to)
                /\ Vouch({r})
                /\ edit' = [edit EXCEPT ![q] = [pc |-> "changed"]]
      /\ Watch
      /\ UNCHANGED <<stalled, adhoc, goalVars, plan, check, delivery, edits, blind>>

AddRow(q) ==
  /\ edit[q] = NoEdit
  /\ edits < MaxEdits
  /\ edits' = edits + 1
  /\ \E r \in Spare : Move(r, "pending") /\ adhoc' = adhoc \cup {r}
  /\ edit' = [edit EXCEPT ![q] = [pc |-> "changed"]]
  /\ Watch
  /\ UNCHANGED <<stalled, goalVars, plan, check, delivery, earned, blind>>

DeleteRow(q) ==
  /\ edit[q] = NoEdit
  /\ edits < MaxEdits
  /\ edits' = edits + 1
  /\ \E r \in Rows(status) :
       /\ Move(r, "absent")
       /\ stalled' = stalled \ {r}
       /\ adhoc' = adhoc \ {r}
       /\ Vouch({})
  /\ edit' = [edit EXCEPT ![q] = [pc |-> "changed"]]
  /\ Watch
  /\ UNCHANGED <<goalVars, plan, check, delivery, blind>>

\* Mutation: a goal that is never reopened.
ChangeReadsOnlyCompletes(q) ==
  LET settled == Settled(status)
      done    == settled /\ confirmed
  IN  /\ edit[q].pc = "changed"
      /\ edit' = [edit EXCEPT ![q] =
           [pc |-> "derive", docs |-> IF done THEN status ELSE NoRows, clears |-> ~settled /\ (confirmed \/ request # "none"),
            goal |-> IF done /\ goal = "pending" THEN "complete" ELSE "same"]]
      /\ UNCHANGED <<listVars, goalVars, plan, check, delivery, edits, ghostVars>>

\* onDocumentsChanged reads the client and the list, then acts on what it read.
ChangeReads(q) ==
  LET settled == Settled(status)
      done    == settled /\ confirmed
  IN  /\ edit[q].pc = "changed"
      /\ edit' = [edit EXCEPT ![q] =
           [pc |-> "derive", docs |-> IF done THEN status ELSE NoRows, clears |-> ~settled /\ (confirmed \/ request # "none"),
            goal |-> IF done /\ goal = "pending" THEN "complete"
                     ELSE IF ~done /\ goal = "complete" THEN "pending" ELSE "same"]]
      /\ UNCHANGED <<listVars, goalVars, plan, check, delivery, edits, ghostVars>>

ClearsAttestation(q) ==
  /\ edit[q].pc = "derive"
  /\ edit[q].clears
  /\ confirmed' = FALSE
  /\ request' = "none"
  /\ edit' = [edit EXCEPT ![q].clears = FALSE]
  /\ UNCHANGED <<listVars, goal, plan, check, delivery, edits, ghostVars>>

DerivesGoal(q) ==
  /\ edit[q].pc = "derive"
  /\ ~edit[q].clears
  /\ CASE edit[q].goal = "complete" ->
            /\ goal' = "complete"
            /\ blind' = (edit[q].docs # status)
            /\ edit' = [edit EXCEPT ![q] = [pc |-> "cancel"]]
       [] edit[q].goal = "pending" ->
            /\ goal' = "pending"
            /\ blind' = FALSE
            /\ edit' = [edit EXCEPT ![q] = [pc |-> "replan"]]
       [] edit[q].goal = "same" ->
            /\ edit' = [edit EXCEPT ![q] = NoEdit]
            /\ UNCHANGED <<goal, blind>>
  /\ UNCHANGED <<listVars, confirmed, request, plan, check, delivery, edits, earned, reopened>>

\* A completed client is sent nothing more: what is queued is removed.
CancelsSend(q) ==
  /\ edit[q].pc = "cancel"
  /\ plan = NoPlan
  /\ request' = IF request = "drafted" THEN "dropped" ELSE request
  /\ edit' = [edit EXCEPT ![q] = NoEdit]
  /\ UNCHANGED <<listVars, goal, confirmed, plan, check, delivery, edits, ghostVars>>

\* The goal was reopened: the agent plans the next chase.
EditReplans(q) ==
  /\ edit[q].pc = "replan"
  /\ \/ BeginPlan(FALSE)
     \/ plan = NoPlan /\ goal = "complete" /\ UNCHANGED <<plan, request>>
  /\ edit' = [edit EXCEPT ![q] = NoEdit]
  /\ UNCHANGED <<listVars, goal, confirmed, check, delivery, edits, ghostVars>>

-----------------------------------------------------------------------------
PlanStep ==
  \/ PlanFails \/ PlanDecides \/ SettleChanges \/ ApplyAttestation \/ CollectFiles
  \/ RerunAfterVerification \/ CompleteGoal \/ RefuseCompletion \/ ScheduleReply

CheckStep(b) ==
  CheckSkips(b) \/ CheckLoads(b) \/ CheckHiccups(b) \/ CheckStalls(b) \/ CheckEnds(b)

EditStep(q) ==
  \/ EditWrites(q) \/ ChangeReads(q) \/ ClearsAttestation(q) \/ DerivesGoal(q)
  \/ CancelsSend(q) \/ EditReplans(q)

Next ==
  \/ PlanStarts \/ PlanStep
  \/ \E b \in Batch : CheckStep(b)
  \/ SummarySends \/ ClientAnswers
  \/ Deliver \/ ReportDelivery
  \/ \E q \in Request : EditReads(q) \/ AddRow(q) \/ DeleteRow(q) \/ EditStep(q)

Spec == Init /\ [][Next]_vars

-----------------------------------------------------------------------------
(* Properties.                                                             *)

\* Types, and one batch at a time for each process: the planner verifies only
\* while its reply is withheld, a fetch only between its filing and its report.
TypeOK ==
  /\ status \in [Row -> Present \cup {"absent"}]
  /\ stalled \cup adhoc \cup earned \subseteq Row
  /\ goal \in {"pending", "complete"}
  /\ {confirmed, reopened, blind} \subseteq BOOLEAN
  /\ request \in {"none", "drafted", "dropped", "sent", "answered"}
  /\ plan.pc \in {"idle", "asked", "settle", "confirm", "collect", "verify", "finish"}
  /\ delivery \in {"idle", "checking"}
  /\ check \in [Batch -> [todo : SUBSET Row, open : SUBSET Row]]
  /\ \A b \in Batch : check[b].todo \cap check[b].open = {} /\ Cardinality(check[b].open) <= 1
  /\ check["planner"] = NoCheck \/ plan.pc = "verify"
  /\ check["delivery"] = NoCheck \/ delivery = "checking"
  /\ \A q \in Request : edit[q].pc \in {"idle", "write", "changed", "derive", "cancel", "replan"}
  /\ edits \in 0 .. MaxEdits

\* A goal that is complete rests on a settled list, unless an edit of the
\* accountant is still deriving it, or the list had changed unseen when it was
\* completed.
CompleteIsSettled ==
  goal = "complete" /\ ~Settled(status) /\ Rows(status) # {} =>
    blind \/ \E q \in Request : edit[q].pc \in {"changed", "derive"}

\* The goal is completed only over a list that has stayed settled since the
\* summary the client confirmed was written.
CompletesWhatWasConfirmed ==
  [][goal = "pending" /\ goal' = "complete" /\ Rows(status) # {} => ~reopened]_vars

\* Nothing is approved on words alone: since the row was last asked for, a file
\* was collected for it or the accountant received it.
ApprovedIsEarned == \A r \in Row : status[r] = "approved" => r \in earned

\* What was approved stays approved unless the accountant reopens it or the
\* client's documents replace it: no answer of the planner and no verdict that
\* was under way undoes it.
ApprovedStands ==
  [][\A r \in Row : status[r] = "approved" /\ status'[r] \notin {"approved", "retired", "absent"} =>
       \E q \in Request : edit[q].pc = "write" /\ edit[q].row = r /\ edit' # edit]_vars
=============================================================================
