---------------------------- MODULE SendPipeline ----------------------------
(***************************************************************************)
(* The outgoing-message pipeline of one client: the drafts (table emails), *)
(* the row of table scheduled_jobs that tracks "the next send", the BullMQ *)
(* queue send_email, the send worker, and every request handler that       *)
(* changes the client's schedule.  All of them serialise on the client's   *)
(* Postgres advisory lock (withClientLock), which is held across the calls *)
(* to the planner (an LLM) and to the provider; flags of the client row    *)
(* are flipped outside of the lock.                                        *)
(*                                                                         *)
(* What one handler does to the two stores between two waits on the outer  *)
(* world is one step.  The LLM call, the provider call, the three writes   *)
(* of scheduleDraftMessage and the two lock sections of one handler are    *)
(* steps of their own.                                                     *)
(***************************************************************************)
EXTENDS Naturals, FiniteSets

CONSTANTS
  Draft,        \* ids of emails rows; bounds the drafts one behaviour makes
  Req,          \* slots for concurrent request handlers
  Worker,       \* the send worker
  Free, NoJob, NoDraft,
  Enrolment,    \* the flags a client may start with
  Ops,          \* the operations the environment may call
  MaxRetries,   \* retries draftFirstEmail has left (5 in the code)
  MaxCrashes,   \* bound: process deaths, and writes that fail, in one behaviour
  MaxWipes,     \* bound: losses of Redis in one behaviour
  MaxAccepts    \* bound: acceptances of one draft the ghost counter records

Kind == {"send_email", "send_email_approved"}
Job  == [kind : Kind, draft : Draft]
Proc == Req \cup {Worker}

OpName == {"inbound", "replan", "first_draft", "regenerate", "approve", "pause",
           "resume", "due_date", "overdue", "send_now", "retry", "delete",
           "docs_done", "docs_reopen", "admin_pause", "unpause", "block",
           "unblock", "review_on", "review_off"}

ASSUME ProcAssumption ==
  /\ Worker \notin Req
  /\ Free \notin Proc
  /\ NoJob \notin Job
  /\ NoDraft \notin Draft
ASSUME BoundAssumption ==
  /\ MaxRetries \in Nat
  /\ MaxCrashes \in Nat
  /\ MaxWipes \in Nat
  /\ MaxAccepts \in Nat
ASSUME OpsAssumption ==
  /\ Ops \subseteq OpName
  /\ Enrolment \subseteq {"paused", "reviewMode"}

VARIABLES
  flags,     \* the client's and its instance's flags that are set
  status,    \* emails.status of each draft
  review,    \* emails.review_status of each draft
  tracked,   \* scheduled_jobs.bullmq_job_id, NoJob when there is no row
  marks,     \* of that row: "failed" = send_failed_at set, "past" = scheduled_for passed
  queue,     \* BullMQ state of each job id
  stalled,   \* jobs BullMQ already recovered once from a dead worker
  lock,      \* holder of the client's advisory lock
  pc,        \* what each process does: for a request, the operation that waits
  arg,       \* the draft it works on
  wjob,      \* the job the worker is processing (at boot: the row resync listed)
  hold,      \* processes whose plan stores a held first message
  retries,   \* attempts a first-message plan may still make when it throws
  crashes,   \* deaths and failed writes so far
  wipes,
  accepted,  \* ghost: how often the provider accepted each draft
  quiet      \* ghost: a pause has been carried out and not been lifted

draftVars == <<status, review>>
rowVars   == <<tracked, marks>>
queueVars == <<queue, stalled>>
procVars  == <<lock, pc, arg, wjob, hold, retries>>
faultVars == <<crashes, wipes>>
ghostVars == <<accepted, quiet>>
vars == <<flags, draftVars, rowVars, queueVars, procVars, faultVars, ghostVars>>

Flag == {"paused", "adminPaused", "blocked", "complete", "deleted", "heard", "reviewMode"}
JobState == {"absent", "delayed", "waiting", "active", "completed", "failed"}
Cancelable == {"delayed", "waiting"}
WorkerPC == {"down", "resync", "idle", "active", "sending", "accepted", "settle",
             "plan", "stored", "enqueued", "done"}
ReqPC == OpName \cup {"idle", "tail", "regenerate_plan", "plan", "stored", "enqueued", "done"}
Holding == {"sending", "accepted", "settle", "plan", "stored", "enqueued", "done"}

TypeOK ==
  /\ flags \in SUBSET Flag
  /\ status \in [Draft -> {"none", "draft", "held", "sent"}]
  /\ review \in [Draft -> {"none", "pending", "approved", "superseded"}]
  /\ tracked \in Job \cup {NoJob}
  /\ marks \in SUBSET {"failed", "past"}
  /\ queue \in [Job -> JobState]
  /\ stalled \in SUBSET Job
  /\ lock \in Proc \cup {Free}
  /\ pc \in [Proc -> WorkerPC \cup ReqPC]
  /\ arg \in [Proc -> Draft \cup {NoDraft}]
  /\ wjob \in Job \cup {NoJob}
  /\ hold \in SUBSET Proc
  /\ retries \in [Req -> 0..MaxRetries]
  /\ crashes \in 0..MaxCrashes
  /\ wipes \in 0..MaxWipes
  /\ accepted \in [Draft -> 0..MaxAccepts]
  /\ quiet \in BOOLEAN

(***************************************************************************)
(* A client is enrolled paused or running (first-message approval), by an  *)
(* instance in review mode or not; nothing is drafted yet.                 *)
(***************************************************************************)
Init ==
  /\ flags \in SUBSET Enrolment
  /\ status = [d \in Draft |-> "none"]
  /\ review = [d \in Draft |-> "none"]
  /\ tracked = NoJob
  /\ marks = {}
  /\ queue = [j \in Job |-> "absent"]
  /\ stalled = {}
  /\ lock = Free
  /\ pc = [p \in Proc |-> "idle"]
  /\ arg = [p \in Proc |-> NoDraft]
  /\ wjob = NoJob
  /\ hold = {}
  /\ retries = [r \in Req |-> 0]
  /\ crashes = 0
  /\ wipes = 0
  /\ accepted = [d \in Draft |-> 0]
  /\ quiet = FALSE

-----------------------------------------------------------------------------
(* Effects the handlers share.                                             *)

SendJob(d) == [kind |-> "send_email", draft |-> d]
ApprovedJob(d) == [kind |-> "send_email_approved", draft |-> d]

\* BullMQ ignores an add under an id it already knows.
Added(j, state) == IF queue[j] = "absent" THEN [queue EXCEPT ![j] = state] ELSE queue

\* upsertForClient: a fresh row never carries an earlier failure.
Upsert(j, past) == tracked' = j /\ marks' = past

\* Mutation: the statement forgets to give a parked draft its status back.
SupersedeReviewOnly ==
  /\ review' = [d \in Draft |-> IF review[d] = "pending" THEN "superseded" ELSE review[d]]
  /\ UNCHANGED status

\* emails.supersedePendingReview.
SupersedePendingReview ==
  /\ status' = [d \in Draft |-> IF review[d] = "pending" THEN "draft" ELSE status[d]]
  /\ review' = [d \in Draft |-> IF review[d] = "pending" THEN "superseded" ELSE review[d]]

\* job.remove() for a job that is still in the queue.
Unqueued(j) == IF j # NoJob /\ queue[j] \in Cancelable THEN [queue EXCEPT ![j] = "absent"] ELSE queue

\* Mutation: the row is deleted, the job stays in the queue.
RemoveRowOnly ==
  /\ SupersedePendingReview
  /\ tracked' = NoJob /\ marks' = {}
  /\ UNCHANGED queue


RemoveFutureEmail ==
  /\ SupersedePendingReview
  /\ queue' = Unqueued(tracked)
  /\ tracked' = NoJob
  /\ marks' = {}

PauseFutureEmail == queue' = Unqueued(tracked)

\* isHeldFirstMessageClient of a paused client: nothing sent or received yet.
HoldsFirstMessage(st) == "heard" \notin flags /\ \A d \in Draft : st[d] # "sent"

\* The guards of setFutureEmail.
MayPlan(st) ==
  /\ {"deleted", "complete", "adminPaused"} \cap flags = {}
  /\ "paused" \in flags => HoldsFirstMessage(st)

\* The guards the admin's operations check before they touch the schedule.
Running == {"deleted", "complete", "paused", "adminPaused"} \cap flags = {}

\* p has the lock and calls setFutureEmail: the planner starts, or p is done.
SetFutureEmail(p) ==
  /\ lock' = p
  /\ pc' = [pc EXCEPT ![p] = IF MayPlan(status') THEN "plan" ELSE "done"]
  /\ hold' = IF "paused" \in flags THEN hold \cup {p} ELSE hold
  /\ arg' = [arg EXCEPT ![p] = NoDraft]

\* A lock section of r that ends at once.
Release(r) ==
  /\ pc' = [pc EXCEPT ![r] = "idle"]
  /\ arg' = [arg EXCEPT ![r] = NoDraft]
  /\ UNCHANGED <<lock, hold>>

\* p has nothing to do any more, or dies.
Stop(p, state) ==
  /\ pc' = [pc EXCEPT ![p] = state]
  /\ arg' = [arg EXCEPT ![p] = NoDraft]
  /\ hold' = hold \ {p}
  /\ wjob' = IF p = Worker THEN NoJob ELSE wjob
  /\ retries' = [r \in Req |-> IF r = p THEN 0 ELSE retries[r]]

-----------------------------------------------------------------------------
(* Request handlers, up to their wait for the lock.                        *)

\* kickoffStartable: nothing sent or received, nothing stored, nothing being written.
KickoffStartable ==
  /\ {"deleted", "complete"} \cap flags = {}
  /\ HoldsFirstMessage(status)
  /\ tracked = NoJob
  /\ \A p \in Proc : pc[p] \notin {"first_draft", "plan", "stored", "enqueued"}

\* The flags a handler writes, and the state it requires, before the lock.
Precondition(o) ==
  CASE o = "inbound"     -> {"deleted", "blocked"} \cap flags = {}
    [] o = "overdue"     -> {"deleted", "complete", "paused", "adminPaused", "blocked"} \cap flags = {}
    [] o = "docs_done"   -> {"deleted", "complete"} \cap flags = {}
    [] o = "docs_reopen" -> "complete" \in flags /\ "deleted" \notin flags
    [] o = "unpause"     -> "adminPaused" \in flags
    [] o = "first_draft" -> KickoffStartable
    [] o = "replan"      -> TRUE
    [] OTHER             -> "deleted" \notin flags

FlagsAtCall(o) ==
  CASE o = "inbound"     -> flags \cup {"heard"}
    [] o = "pause"       -> flags \cup {"paused"}
    [] o \in {"resume", "due_date"} -> flags \ {"paused"}
    [] o = "docs_done"   -> flags \cup {"complete"}
    [] o = "docs_reopen" -> flags \ {"complete"}
    [] o = "unpause"     -> flags \ {"adminPaused"}
    [] OTHER             -> flags

\* Operations that never reach the lock: pure flag flips.
FlipOps == {"admin_pause", "block", "unblock", "review_on", "review_off"}

\* The pause route stops after its flag write when a resumed goal is complete.
Call(r, o) ==
  /\ pc[r] = "idle"
  /\ Precondition(o)
  /\ flags' = FlagsAtCall(o)
  /\ quiet' = (quiet /\ "paused" \in flags')
  /\ pc' = [pc EXCEPT ![r] = IF o = "resume" /\ "complete" \in flags THEN "idle" ELSE o]
  /\ retries' = IF o = "first_draft" THEN [retries EXCEPT ![r] = MaxRetries] ELSE retries
  /\ UNCHANGED <<draftVars, rowVars, queueVars, lock, arg, wjob, hold, faultVars, accepted>>

\* loadPendingDraft: the admin's two review operations name a pending draft.
CallReview(r, o, d) ==
  /\ pc[r] = "idle"
  /\ review[d] = "pending"
  /\ pc' = [pc EXCEPT ![r] = o]
  /\ arg' = [arg EXCEPT ![r] = d]
  /\ UNCHANGED <<flags, draftVars, rowVars, queueVars, lock, wjob, retries, hold, faultVars, ghostVars>>

Flip(o) ==
  /\ flags' = CASE o = "admin_pause" -> flags \cup {"adminPaused"}
                [] o = "block"       -> flags \cup {"blocked"}
                [] o = "unblock"     -> flags \ {"blocked"}
                [] o = "review_on"   -> flags \cup {"reviewMode"}
                [] o = "review_off"  -> flags \ {"reviewMode"}
  /\ flags' # flags
  /\ UNCHANGED <<draftVars, rowVars, queueVars, procVars, faultVars, ghostVars>>

-----------------------------------------------------------------------------
(* Request handlers, under the lock.                                       *)

Enter(r, ops) == pc[r] \in ops /\ lock = Free

\* The webhook drops the outdated send before the slow media ingestion; the
\* documents list was settled by hand: the pending send is cancelled.
CancelSend(r) ==
  /\ Enter(r, {"inbound", "docs_done"})
  /\ RemoveFutureEmail
  /\ Release(r)
  /\ UNCHANGED <<flags, stalled, wjob, retries, faultVars, ghostVars>>

\* Deferred re-plan, redraft, channel toggles, verification, tax fetch, reopened
\* goal: each discards the pending send and plans afresh.
Replan(r) ==
  /\ Enter(r, {"replan", "docs_reopen"})
  /\ RemoveFutureEmail
  /\ SetFutureEmail(r)
  /\ UNCHANGED <<flags, stalled, wjob, retries, faultVars, ghostVars>>

\* replanClientsAfterUnpause.
ReplanAfterUnpause(r) ==
  /\ Enter(r, {"unpause"})
  /\ IF Running THEN RemoveFutureEmail /\ SetFutureEmail(r)
                ELSE Release(r) /\ UNCHANGED <<draftVars, rowVars, queue>>
  /\ UNCHANGED <<flags, stalled, wjob, retries, faultVars, ghostVars>>

\* draftFirstEmail, and the second lock section of a review regeneration:
\* a plan that cancels nothing.
DraftFirstEmail(r) ==
  /\ Enter(r, {"first_draft", "regenerate_plan"})
  /\ UNCHANGED <<draftVars, rowVars, queueVars>>
  /\ SetFutureEmail(r)
  /\ UNCHANGED <<flags, wjob, retries, faultVars, ghostVars>>

RegenerateReviewMessage(r) ==
  /\ Enter(r, {"regenerate"})
  /\ IF Running
       THEN /\ RemoveFutureEmail
            /\ pc' = [pc EXCEPT ![r] = "regenerate_plan"]
            /\ arg' = [arg EXCEPT ![r] = NoDraft]
            /\ UNCHANGED <<lock, hold>>
       ELSE /\ Release(r)
            /\ UNCHANGED <<draftVars, rowVars, queue>>
  /\ UNCHANGED <<flags, stalled, wjob, retries, faultVars, ghostVars>>

\* Mutation: the draft's review status is not read again under the lock.
ApproveUnchecked(r) ==
  /\ Enter(r, {"approve"})
  /\ IF Running
       THEN /\ review' = [review EXCEPT ![arg[r]] = "approved"]
            /\ status' = [status EXCEPT ![arg[r]] = "draft"]
            /\ queue' = Added(ApprovedJob(arg[r]), "waiting")
            /\ Upsert(ApprovedJob(arg[r]), {"past"})
       ELSE UNCHANGED <<draftVars, queue, rowVars>>
  /\ Release(r)
  /\ UNCHANGED <<flags, stalled, wjob, retries, faultVars, ghostVars>>

\* A draft the worker had parked is sent at once, under a job id of its own.
ApproveReviewMessage(r) ==
  /\ Enter(r, {"approve"})
  /\ LET d == arg[r]
         approved == Running /\ review[d] = "pending"
     IN  /\ review' = IF approved THEN [review EXCEPT ![d] = "approved"] ELSE review
         /\ status' = IF approved THEN [status EXCEPT ![d] = "draft"] ELSE status
         /\ IF approved /\ status[d] = "held"
              THEN queue' = Added(ApprovedJob(d), "waiting") /\ Upsert(ApprovedJob(d), {"past"})
              ELSE UNCHANGED <<queue, rowVars>>
  /\ Release(r)
  /\ UNCHANGED <<flags, stalled, wjob, retries, faultVars, ghostVars>>

PauseClient(r) ==
  /\ Enter(r, {"pause"})
  /\ PauseFutureEmail
  /\ quiet' = ("paused" \in flags)
  /\ Release(r)
  /\ UNCHANGED <<flags, draftVars, rowVars, stalled, wjob, retries, faultVars, accepted>>

\* runOverdueScan: markOverdueStopped claims the client under the lock.
StopOverdue(r) ==
  /\ Enter(r, {"overdue"})
  /\ IF {"deleted", "complete", "paused"} \cap flags = {}
       THEN flags' = flags \cup {"paused"} /\ PauseFutureEmail /\ quiet' = TRUE
       ELSE UNCHANGED <<flags, queue, quiet>>
  /\ Release(r)
  /\ UNCHANGED <<draftVars, rowVars, stalled, wjob, retries, faultVars, accepted>>

\* Mutation: a preserved draft counts as queued although pausing took its job out.
ResumeTrustsRow ==
  IF tracked = NoJob THEN "redraft"
  ELSE IF status[tracked.draft] = "held" THEN "keep"
  ELSE IF queue[tracked] \in {"completed", "failed"} THEN "redraft" ELSE "already_queued"

\* resumeAction: an early return for each reason, in the code's order.
ResumeAction ==
  IF tracked = NoJob THEN "redraft"
  ELSE IF status[tracked.draft] = "held" THEN "keep"
  ELSE IF queue[tracked] \in {"delayed", "waiting", "active"} THEN "already_queued"
  ELSE IF queue[tracked] # "absent" THEN "redraft"
  ELSE IF "past" \in marks THEN "send_now" ELSE "restore"

ResumeClient(r) ==
  /\ Enter(r, {"resume", "due_date"})
  /\ \/ /\ ResumeAction \in {"keep", "already_queued"}
        /\ Release(r)
        /\ UNCHANGED <<draftVars, rowVars, queue>>
     \/ /\ ResumeAction = "restore"
        /\ queue' = Added(tracked, "delayed")
        /\ Release(r)
        /\ UNCHANGED <<draftVars, rowVars>>
     \/ /\ ResumeAction = "send_now"
        /\ queue' = Added(tracked, "waiting")
        /\ Upsert(tracked, {"past"})
        /\ Release(r)
        /\ UNCHANGED draftVars
     \/ /\ ResumeAction = "redraft"
        /\ RemoveFutureEmail
        /\ SetFutureEmail(r)
  /\ UNCHANGED <<flags, stalled, wjob, retries, faultVars, ghostVars>>

\* sendFutureEmailNow: the refusals, then what the job's state calls for.
SendNowOutcome ==
  IF tracked = NoJob THEN "none_scheduled"
  ELSE IF "failed" \in marks THEN "send_failed"
  ELSE IF review[tracked.draft] = "pending" THEN "awaiting_review"
  ELSE IF queue[tracked] \in {"absent", "delayed"} THEN "promoted"
  ELSE IF queue[tracked] \in {"waiting", "active"} THEN "already_sending"
  ELSE IF queue[tracked] = "failed" THEN "unstamped_failure"
  ELSE IF status[tracked.draft] = "held" THEN "already_sending" ELSE "stale_row"

SendNow(r) ==
  /\ Enter(r, {"send_now"})
  /\ \/ /\ SendNowOutcome \in {"none_scheduled", "send_failed", "awaiting_review", "already_sending"}
        /\ UNCHANGED <<queue, rowVars>>
     \/ /\ SendNowOutcome = "promoted"
        /\ queue' = [queue EXCEPT ![tracked] = "waiting"]
        /\ Upsert(tracked, {"past"})
     \/ /\ SendNowOutcome = "unstamped_failure"
        /\ marks' = marks \cup {"failed"}
        /\ UNCHANGED <<queue, tracked>>
     \/ /\ SendNowOutcome = "stale_row"
        /\ tracked' = NoJob /\ marks' = {}
        /\ UNCHANGED queue
  /\ Release(r)
  /\ UNCHANGED <<flags, draftVars, stalled, wjob, retries, faultVars, ghostVars>>

RetryFailedSend(r) ==
  /\ Enter(r, {"retry"})
  /\ IF tracked # NoJob /\ "failed" \in marks
       THEN /\ queue' = IF queue[tracked] \in {"failed", "absent"}
                          THEN [queue EXCEPT ![tracked] = "waiting"] ELSE queue
            /\ Upsert(tracked, {"past"})
       ELSE UNCHANGED <<queue, rowVars>>
  /\ Release(r)
  /\ UNCHANGED <<flags, draftVars, stalled, wjob, retries, faultVars, ghostVars>>

\* The delete route cancels the send under the lock and marks the client
\* deleted after the lock is free again.
CancelForDelete(r) ==
  /\ Enter(r, {"delete"})
  /\ RemoveFutureEmail
  /\ pc' = [pc EXCEPT ![r] = "tail"]
  /\ UNCHANGED <<flags, stalled, lock, arg, wjob, retries, hold, faultVars, ghostVars>>

MarkDeleted(r) ==
  /\ pc[r] = "tail"
  /\ flags' = flags \cup {"deleted"}
  /\ pc' = [pc EXCEPT ![r] = "idle"]
  /\ UNCHANGED <<draftVars, rowVars, queueVars, lock, arg, wjob, retries, hold, faultVars, ghostVars>>

-----------------------------------------------------------------------------
(* The planner, run by whoever holds the lock (setFutureEmail).            *)

Planning(p) == pc[p] = "plan"

\* scheduleDraftMessage, first write: the draft, flagged for review in review mode.
StoreDraft(p) ==
  /\ Planning(p)
  /\ \E d \in Draft :
       /\ status[d] = "none"
       /\ status' = [status EXCEPT ![d] = "draft"]
       /\ review' = IF "reviewMode" \in flags /\ "deleted" \notin flags
                      THEN [review EXCEPT ![d] = "pending"] ELSE review
       /\ arg' = [arg EXCEPT ![p] = d]
  /\ pc' = [pc EXCEPT ![p] = "stored"]
  /\ UNCHANGED <<flags, rowVars, queueVars, lock, wjob, retries, hold, faultVars, ghostVars>>

\* Second write: the delayed job.  A held first message gets a row and no job.
EnqueueDraft(p) ==
  /\ pc[p] = "stored"
  /\ IF p \in hold
       THEN /\ Upsert(SendJob(arg[p]), {})
            /\ pc' = [pc EXCEPT ![p] = "done"]
            /\ UNCHANGED queue
       ELSE /\ queue' = Added(SendJob(arg[p]), "delayed")
            /\ pc' = [pc EXCEPT ![p] = "enqueued"]
            /\ UNCHANGED rowVars
  /\ UNCHANGED <<flags, draftVars, stalled, lock, arg, wjob, retries, hold, faultVars, ghostVars>>

\* Third write: the row that tracks the job.
TrackDraft(p) ==
  /\ pc[p] = "enqueued"
  /\ Upsert(SendJob(arg[p]), {})
  /\ pc' = [pc EXCEPT ![p] = "done"]
  /\ UNCHANGED <<flags, draftVars, queueVars, lock, arg, wjob, retries, hold, faultVars, ghostVars>>

\* completeGoalIfDone: every document is in, nothing is drafted.
CompleteGoal(p) ==
  /\ Planning(p)
  /\ flags' = flags \cup {"complete"}
  /\ pc' = [pc EXCEPT ![p] = "done"]
  /\ UNCHANGED <<draftVars, rowVars, queueVars, lock, arg, wjob, retries, hold, faultVars, ghostVars>>

\* handleClientDecline: the client refused; it is paused and its send dropped.
DeclineClient(p) ==
  /\ Planning(p)
  /\ IF {"deleted", "complete"} \cap flags = {}
       THEN flags' = flags \cup {"paused"} /\ RemoveFutureEmail /\ quiet' = TRUE
       ELSE UNCHANGED <<flags, draftVars, rowVars, queue, quiet>>
  /\ pc' = [pc EXCEPT ![p] = "done"]
  /\ UNCHANGED <<stalled, lock, arg, wjob, retries, hold, faultVars, accepted>>

Ended(j, state) == IF j # NoJob /\ queue[j] = "active" THEN [queue EXCEPT ![j] = state] ELSE queue

\* The end of p's lock section.  For the worker its job ends with it: completed,
\* or failed when the plan threw.
LeaveLock(p, outcome) ==
  /\ lock' = Free
  /\ Stop(p, "idle")
  /\ queue' = IF p = Worker THEN Ended(wjob, outcome) ELSE queue
  /\ UNCHANGED <<flags, draftVars, rowVars, stalled, wipes, ghostVars>>

Return(p) == pc[p] = "done" /\ LeaveLock(p, "completed") /\ UNCHANGED crashes

\* The plan throws: the LLM call or what is checked about its answer, or, counted
\* with the crashes, a write of scheduleDraftMessage or what the plan does after it.
Throws(p) ==
  \/ Planning(p) /\ UNCHANGED crashes
  \/ /\ pc[p] \in {"stored", "enqueued", "done"}
     /\ arg[p] # NoDraft
     /\ crashes < MaxCrashes
     /\ crashes' = crashes + 1

\* Mutation: the attempt after the last delay is made as well.
OneRetryMore(p) == p \in Req /\ retries[p] >= 0

\* draftFirstEmail alone tries again, from its lock on.
RetriesLeft(p) == p \in Req /\ retries[p] > 0

PlanFails(p) == Throws(p) /\ ~RetriesLeft(p) /\ LeaveLock(p, "failed")

RetryFirstDraft(r) ==
  /\ Throws(r)
  /\ RetriesLeft(r)
  /\ retries' = [retries EXCEPT ![r] = @ - 1]
  /\ pc' = [pc EXCEPT ![r] = "first_draft"]
  /\ lock' = Free
  /\ hold' = hold \ {r}
  /\ arg' = [arg EXCEPT ![r] = NoDraft]
  /\ UNCHANGED <<flags, draftVars, rowVars, queueVars, wjob, wipes, ghostVars>>

-----------------------------------------------------------------------------
(* The send worker: one job at a time (onScheduledSend).                   *)

TakeJob(j) ==
  /\ pc[Worker] = "idle"
  /\ queue[j] = "waiting"
  /\ queue' = [queue EXCEPT ![j] = "active"]
  /\ pc' = [pc EXCEPT ![Worker] = "active"]
  /\ wjob' = j
  /\ arg' = [arg EXCEPT ![Worker] = j.draft]
  /\ UNCHANGED <<flags, draftVars, rowVars, stalled, lock, hold, retries, faultVars, ghostVars>>

WorkerEnters == pc[Worker] = "active" /\ lock = Free

\* Mutation: the worker trusts that pausing emptied the queue.
SendableWhilePaused ==
  /\ {"deleted", "complete", "blocked", "adminPaused"} \cap flags = {}
  /\ status[arg[Worker]] = "draft"

\* Mutation: the worker does not look at the draft's status.
SendableInAnyStatus ==
  {"deleted", "complete", "paused", "blocked", "adminPaused"} \cap flags = {}

\* The checks made at act time, before any message leaves.
Sendable ==
  /\ {"deleted", "complete", "paused", "blocked", "adminPaused"} \cap flags = {}
  /\ status[arg[Worker]] = "draft"

\* Mutation: only a draft that was flagged for review needs the approval.
NeedsApprovalIfPending == "reviewMode" \in flags /\ review[arg[Worker]] = "pending"


NeedsApproval == "reviewMode" \in flags /\ review[arg[Worker]] # "approved"

\* A job that may not be sent is consumed; its row and its draft stay.
DropSend ==
  /\ WorkerEnters
  /\ ~Sendable
  /\ queue' = Ended(wjob, "completed")
  /\ Stop(Worker, "idle")
  /\ UNCHANGED <<flags, draftVars, rowVars, stalled, lock, faultVars, ghostVars>>

\* emails.markHeld: the send time came before the admin's approval.
HoldForReview ==
  /\ WorkerEnters
  /\ Sendable /\ NeedsApproval
  /\ status' = [status EXCEPT ![arg[Worker]] = "held"]
  /\ review' = [review EXCEPT ![arg[Worker]] = "pending"]
  /\ queue' = Ended(wjob, "completed")
  /\ Stop(Worker, "idle")
  /\ UNCHANGED <<flags, rowVars, stalled, lock, faultVars, ghostVars>>

\* sendWhatsAppDraft calls the provider, or finds that the channel was switched
\* off or the 24h window closed ('not_sent') and only re-plans.
BeginSend ==
  /\ WorkerEnters
  /\ Sendable /\ ~NeedsApproval
  /\ lock' = Worker
  /\ \E next \in {"sending", "settle"} : pc' = [pc EXCEPT ![Worker] = next]
  /\ UNCHANGED <<flags, draftVars, rowVars, queueVars, arg, wjob, retries, hold, faultVars, ghostVars>>

ProviderAccepts ==
  /\ pc[Worker] = "sending"
  /\ accepted[arg[Worker]] < MaxAccepts
  /\ accepted' = [accepted EXCEPT ![arg[Worker]] = @ + 1]
  /\ pc' = [pc EXCEPT ![Worker] = "accepted"]
  /\ UNCHANGED <<flags, draftVars, rowVars, queueVars, lock, arg, wjob, retries, hold, faultVars, quiet>>

\* The catch block.  It also runs when the provider took the message and the
\* answer or the write of emails.markSent was lost.
SendFails ==
  /\ pc[Worker] \in {"sending", "accepted"}
  /\ marks' = IF tracked = NoJob THEN {} ELSE marks \cup {"failed"}
  /\ queue' = Ended(wjob, "failed")
  /\ lock' = Free
  /\ Stop(Worker, "idle")
  /\ UNCHANGED <<flags, draftVars, tracked, stalled, faultVars, ghostVars>>

\* emails.markSent.
RecordSent ==
  /\ pc[Worker] = "accepted"
  /\ status' = [status EXCEPT ![arg[Worker]] = "sent"]
  /\ pc' = [pc EXCEPT ![Worker] = "settle"]
  /\ UNCHANGED <<flags, review, rowVars, queueVars, lock, arg, wjob, retries, hold, faultVars, ghostVars>>

\* The pending action is settled: plan the next one.
SettleSend ==
  /\ pc[Worker] = "settle"
  /\ RemoveFutureEmail
  /\ SetFutureEmail(Worker)
  /\ UNCHANGED <<flags, stalled, wjob, retries, faultVars, ghostVars>>

-----------------------------------------------------------------------------
(* BullMQ, time, crashes and the boot of the worker.                       *)

JobDue(j) ==
  /\ queue[j] = "delayed"
  /\ queue' = [queue EXCEPT ![j] = "waiting"]
  /\ marks' = IF tracked = j THEN marks \cup {"past"} ELSE marks
  /\ UNCHANGED <<flags, draftVars, tracked, stalled, procVars, faultVars, ghostVars>>

\* The planned time of a row passes that no delayed job stands for.
PlannedTimePasses ==
  /\ tracked # NoJob
  /\ "past" \notin marks
  /\ queue[tracked] # "delayed"
  /\ marks' = marks \cup {"past"}
  /\ UNCHANGED <<flags, draftVars, tracked, queueVars, procVars, faultVars, ghostVars>>

\* Redis is treated as disposable: every job is gone.
WipeRedis ==
  /\ wipes < MaxWipes
  /\ wipes' = wipes + 1
  /\ queue' = [j \in Job |-> "absent"]
  /\ stalled' = {}
  /\ UNCHANGED <<flags, draftVars, rowVars, procVars, crashes, ghostVars>>

\* A process dies: its database session ends and with it its lock.
Unlocked(p) == IF lock = p THEN Free ELSE lock

RequestDies(r) ==
  /\ pc[r] # "idle"
  /\ crashes < MaxCrashes
  /\ crashes' = crashes + 1
  /\ Stop(r, "idle")
  /\ lock' = Unlocked(r)
  /\ UNCHANGED <<flags, draftVars, rowVars, queueVars, wipes, ghostVars>>

WorkerDies ==
  /\ pc[Worker] # "down"
  /\ crashes < MaxCrashes
  /\ crashes' = crashes + 1
  /\ Stop(Worker, "down")
  /\ lock' = Unlocked(Worker)
  /\ UNCHANGED <<flags, draftVars, rowVars, queueVars, wipes, ghostVars>>

\* resyncScheduledJobs lists the rows, then visits each under its lock; the
\* send worker starts after it.
Boot ==
  /\ pc[Worker] = "down"
  /\ wjob' = tracked
  /\ pc' = [pc EXCEPT ![Worker] = IF tracked = NoJob THEN "idle" ELSE "resync"]
  /\ UNCHANGED <<flags, draftVars, rowVars, queueVars, lock, arg, hold, retries, faultVars, ghostVars>>

\* Mutation: the row is not read again under the lock.
ResyncListedRow ==
  /\ pc[Worker] = "resync"
  /\ lock = Free
  /\ queue' = IF {"deleted", "paused"} \cap flags = {} /\ "failed" \notin marks
                THEN Added(wjob, "delayed") ELSE queue
  /\ Stop(Worker, "idle")
  /\ UNCHANGED <<flags, draftVars, rowVars, stalled, lock, faultVars, ghostVars>>


Resync ==
  /\ pc[Worker] = "resync"
  /\ lock = Free
  /\ queue' = IF /\ tracked = wjob
                 /\ {"deleted", "paused"} \cap flags = {}
                 /\ "failed" \notin marks
                THEN Added(wjob, IF "past" \in marks THEN "waiting" ELSE "delayed")
                ELSE queue
  /\ Stop(Worker, "idle")
  /\ UNCHANGED <<flags, draftVars, rowVars, stalled, lock, faultVars, ghostVars>>

\* BullMQ finds an active job nobody works on: it runs once more, then fails.
RecoverStalled(j) ==
  /\ queue[j] = "active"
  /\ pc[Worker] = "idle"
  /\ queue' = [queue EXCEPT ![j] = IF j \in stalled THEN "failed" ELSE "waiting"]
  /\ stalled' = stalled \cup {j}
  /\ UNCHANGED <<flags, draftVars, rowVars, procVars, faultVars, ghostVars>>

-----------------------------------------------------------------------------
Locked(r) ==
  \/ CancelSend(r) \/ Replan(r) \/ ReplanAfterUnpause(r) \/ DraftFirstEmail(r)
  \/ RegenerateReviewMessage(r) \/ ApproveReviewMessage(r)
  \/ PauseClient(r) \/ StopOverdue(r) \/ ResumeClient(r)
  \/ SendNow(r) \/ RetryFailedSend(r) \/ CancelForDelete(r) \/ MarkDeleted(r)

Plan(p) ==
  \/ StoreDraft(p) \/ EnqueueDraft(p) \/ TrackDraft(p)
  \/ CompleteGoal(p) \/ DeclineClient(p)
  \/ PlanFails(p) \/ Return(p)

Send ==
  \/ \E j \in Job : TakeJob(j)
  \/ DropSend \/ HoldForReview \/ BeginSend
  \/ ProviderAccepts \/ SendFails \/ RecordSent \/ SettleSend

ReviewOps == {"approve", "regenerate"}

Environment ==
  \/ \E r \in Req, o \in Ops \ (FlipOps \cup ReviewOps) : Call(r, o)
  \/ \E r \in Req, o \in Ops \cap ReviewOps, d \in Draft : CallReview(r, o, d)
  \/ \E o \in Ops \cap FlipOps : Flip(o)
  \/ WipeRedis \/ WorkerDies
  \/ \E r \in Req : RequestDies(r)

Queue ==
  \/ \E j \in Job : JobDue(j) \/ RecoverStalled(j)
  \/ PlannedTimePasses

Next ==
  \/ Environment \/ Queue \/ Send \/ Boot \/ Resync
  \/ \E r \in Req : Locked(r) \/ RetryFirstDraft(r)
  \/ \E p \in Proc : Plan(p)

Spec == Init /\ [][Next]_vars

(***************************************************************************)
(* What the runtime guarantees.  Time passes and BullMQ delivers due jobs; *)
(* the worker process runs; LLM and provider calls return or time out; a   *)
(* Postgres advisory lock queues its waiters, so whoever waits for a lock  *)
(* that is released again and again gets it (strong fairness).  Nobody is  *)
(* obliged to call an operation, and nothing need crash.                   *)
(***************************************************************************)
Fairness ==
  /\ \A j \in Job : WF_vars(JobDue(j)) /\ WF_vars(TakeJob(j))
  /\ SF_vars(DropSend \/ HoldForReview \/ BeginSend)
  /\ WF_vars(ProviderAccepts \/ SendFails)
  /\ WF_vars(RecordSent)
  /\ WF_vars(SettleSend)
  /\ \A p \in Proc : WF_vars(Plan(p))
  /\ \A r \in Req : SF_vars(Locked(r)) /\ WF_vars(RetryFirstDraft(r))

FairSpec == Spec /\ Fairness

-----------------------------------------------------------------------------
(* Properties.                                                             *)

(***************************************************************************)
(* A message recorded as sent stays recorded and is never handed to the    *)
(* provider again: the idempotency that every path that enqueues a send a  *)
(* second time relies on (onScheduledSend, resyncScheduledJobs,            *)
(* retryFailedSend).                                                       *)
(***************************************************************************)
SentStays ==
  \A d \in Draft : status[d] = "sent" => status'[d] = "sent" /\ accepted'[d] = accepted[d]
SentIsFinal == [][SentStays]_vars

(***************************************************************************)
(* From the moment a pause (the accountant's, the overdue scan's, or a     *)
(* decline) has been carried out until it is lifted, the provider is given *)
(* nothing: not by a send that was already active, not by a plan that was  *)
(* already under way, not after a restart.                                 *)
(***************************************************************************)
QuietStep == quiet = TRUE => accepted' = accepted
PausedStaysQuiet == [][QuietStep]_vars

(***************************************************************************)
(* With review mode never switched off, no message goes out that waits for *)
(* the admin, or that a re-plan took from the review queue.                *)
(***************************************************************************)
ApprovedStep ==
  \A d \in Draft : accepted'[d] # accepted[d] => review[d] \in {"none", "approved"}
UnapprovedNeverSent == [][ApprovedStep]_vars

(***************************************************************************)
(* A parked message is always on the admin's list: otherwise no operation  *)
(* could ever bring it back (the list and approve select review 'pending').*)
(***************************************************************************)
HeldAwaitsReview == \A d \in Draft : status[d] = "held" => review[d] = "pending"

(***************************************************************************)
(* README: "There is never more than one pending job per client".          *)
(***************************************************************************)
AtMostOneQueuedSend ==
  \A i, j \in Job : queue[i] \in Cancelable /\ queue[j] \in Cancelable => i = j

(***************************************************************************)
(* The same, when no process died and no write of scheduleDraftMessage     *)
(* failed.  It holds when every plan cancels the pending send first, so    *)
(* only without draftFirstEmail's retries, without regenerate, and without *)
(* the approval of a draft that came back from a superseded plan.          *)
(***************************************************************************)
OneQueuedUnlessCrashed == crashes = 0 => AtMostOneQueuedSend

(***************************************************************************)
(* The tracked send of a running client does not get stuck: it goes out,   *)
(* is parked for review, fails visibly, is replaced, or the client stops   *)
(* running.  An approved draft is one such send.                           *)
(***************************************************************************)
DueToGoOut(d) ==
  /\ tracked # NoJob /\ tracked.draft = d
  /\ "failed" \notin marks
  /\ status[d] = "draft"
  /\ {"deleted", "complete", "paused", "adminPaused", "blocked"} \cap flags = {}

PendingSendSettles == \A d \in Draft : DueToGoOut(d) ~> ~DueToGoOut(d)

-----------------------------------------------------------------------------
(***************************************************************************)
(* Where each message stands, from the tracking row, the queue and the     *)
(* review status: planned as long as any of them can still lead to a send. *)
(***************************************************************************)
StillPlanned(d) ==
  \/ tracked # NoJob /\ tracked.draft = d
  \/ \E j \in Job : j.draft = d /\ queue[j] \in {"delayed", "waiting", "active"}
  \/ review[d] = "pending"
  \/ \E p \in Proc : pc[p] \in {"stored", "enqueued"} /\ arg[p] = d
  \/ pc[Worker] \in {"active", "sending"} /\ arg[Worker] = d

FateOf == [d \in Draft |->
  IF status[d] = "none" THEN "unplanned"
  ELSE IF accepted[d] > 0 THEN "delivered"
  ELSE IF StillPlanned(d) THEN "planned" ELSE "cancelled"]

Promise == INSTANCE Outbox WITH fate <- FateOf

(***************************************************************************)
(* The pipeline implements Outbox: a cancelled message never comes back.   *)
(***************************************************************************)
CancelledIsFinal == Promise!Spec
=============================================================================
