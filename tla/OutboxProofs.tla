---------------------------- MODULE OutboxProofs ----------------------------
(***************************************************************************)
(* SendPipeline implements Outbox, for any number of drafts and handlers.  *)
(* One frame lemma for each place a message can be planned in says who may *)
(* put it there: none of them takes a draft that stood nowhere, except the *)
(* planner, a new one.                                                     *)
(***************************************************************************)
EXTENDS SendPipelineProofs

Live == {"delayed", "waiting", "active"}

\* A draft that is in the planner's hands, and one that is waiting for a review.
InHand(p) == p \in Proc /\ pc[p] \in {"stored", "enqueued"}
InReview(r) == r \in Req /\ arg[r] \in Draft /\ review[arg[r]] = "pending"

LEMMA ProcFacts ==
  /\ Worker \in Proc /\ Worker \notin Req /\ Worker # Free
  /\ \A r \in Req : r \in Proc /\ r # Worker
BY ProcAssumption DEF Proc

LEMMA JobIs ==
  ASSUME NEW d \in Draft
  PROVE  /\ SendJob(d) \in Job /\ SendJob(d).draft = d
         /\ ApprovedJob(d) \in Job /\ ApprovedJob(d).draft = d
BY DEF SendJob, ApprovedJob, Job, Kind

\* Whose row the client's schedule can come to hold.
LEMMA TrackedFrame ==
  ASSUME TypeInv, [Next]_vars
  PROVE  \/ tracked' = tracked \/ tracked' = NoJob
         \/ \E p \in Proc : InHand(p) /\ tracked' = SendJob(arg[p])
         \/ \E r \in Req : InReview(r) /\ tracked' = ApprovedJob(arg[r])
<1>1. CASE Environment \/ Queue \/ Boot \/ Resync
  BY <1>1 DEF Environment, Call, CallReview, Flip, WipeRedis, WorkerDies, RequestDies,
     Queue, JobDue, RecoverStalled, PlannedTimePasses, Boot, Resync, rowVars
<1>2. CASE Send
  BY <1>2 DEF Send, TakeJob, DropSend, HoldForReview, BeginSend, ProviderAccepts, SendFails, RecordSent,
     SettleSend, RemoveFutureEmail, rowVars
<1>3. ASSUME NEW r \in Req, Locked(r) \/ RetryFirstDraft(r), ~ApproveReviewMessage(r)
      PROVE  tracked' = tracked \/ tracked' = NoJob
  BY <1>3 DEF Locked, CancelSend, Replan, ReplanAfterUnpause, DraftFirstEmail,
     RegenerateReviewMessage, PauseClient, StopOverdue, ResumeClient, SendNow,
     RetryFailedSend, CancelForDelete, MarkDeleted, RetryFirstDraft, RemoveFutureEmail, Upsert, rowVars
<1>4. ASSUME NEW r \in Req, ApproveReviewMessage(r)
      PROVE  tracked' = tracked \/ (InReview(r) /\ tracked' = ApprovedJob(arg[r]))
  <2>1. arg[r] \in Draft
    BY <1>4, ProcFacts DEF ApproveReviewMessage, Enter, TypeInv, PCOK
  <2> QED BY <1>4, <2>1 DEF ApproveReviewMessage, Upsert, rowVars, InReview
<1>5. ASSUME NEW p \in Proc, Plan(p)
      PROVE  tracked' = tracked \/ tracked' = NoJob \/ (InHand(p) /\ tracked' = SendJob(arg[p]))
  BY <1>5 DEF Plan, StoreDraft, EnqueueDraft, TrackDraft, CompleteGoal, DeclineClient, PlanFails,
     Return, LeaveLock, RemoveFutureEmail, Upsert, InHand, rowVars
<1>6. CASE UNCHANGED vars
  BY <1>6 DEF vars, rowVars
<1> QED
  BY <1>1, <1>2, <1>3, <1>4, <1>5, <1>6 DEF Next

\* Which jobs a step can put into the queue.
Enters(j) ==
  \/ queue[j] \in Live
  \/ j = tracked
  \/ \E p \in Proc : InHand(p) /\ j = SendJob(arg[p])
  \/ \E r \in Req : InReview(r) /\ j = ApprovedJob(arg[r])

LEMMA QueueFrame ==
  ASSUME TypeInv, [Next]_vars, NEW j \in Job, queue'[j] \in Live
  PROVE  Enters(j)
<1> USE DEF Live
<1>0. \A k : tracked = k /\ Unqueued(k)[j] \in Live => queue[j] \in Live
  BY DEF Unqueued, TypeInv, TypeOK, Cancelable
<1>1. CASE Environment \/ Queue
  BY <1>1 DEF Environment, Call, CallReview, Flip, WipeRedis, WorkerDies, RequestDies,
     Queue, JobDue, RecoverStalled, PlannedTimePasses, queueVars, Enters, TypeInv, TypeOK
<1>2. CASE Boot \/ Resync
  BY <1>2 DEF Boot, Resync, Added, queueVars, Enters, TypeInv, TypeOK
<1>3. CASE Send
  BY <1>0, <1>3 DEF Send, TakeJob, DropSend, HoldForReview, BeginSend, ProviderAccepts, SendFails, RecordSent,
     SettleSend, RemoveFutureEmail, Ended, queueVars, Enters, TypeInv, TypeOK
<1>4. ASSUME NEW r \in Req, Locked(r) \/ RetryFirstDraft(r), ~ApproveReviewMessage(r)
      PROVE  queue[j] \in Live \/ j = tracked
  <2>1. CASE queue' = queue \/ queue' = Unqueued(tracked)
    BY <1>0, <2>1
  <2>2. CASE \E s \in {"delayed", "waiting"} :
                queue' = Added(tracked, s) \/ queue' = [queue EXCEPT ![tracked] = s]
    BY <2>2 DEF Added, TypeInv, TypeOK
  <2> QED
    BY <1>4, <2>1, <2>2 DEF Locked, CancelSend, Replan, ReplanAfterUnpause, DraftFirstEmail,
     RegenerateReviewMessage, PauseClient, StopOverdue, ResumeClient, SendNow,
     RetryFailedSend, CancelForDelete, MarkDeleted, RetryFirstDraft, RemoveFutureEmail, PauseFutureEmail,
     queueVars
<1>5. ASSUME NEW r \in Req, ApproveReviewMessage(r)
      PROVE  queue[j] \in Live \/ (InReview(r) /\ j = ApprovedJob(arg[r]))
  <2>1. arg[r] \in Draft
    BY <1>5, ProcFacts DEF ApproveReviewMessage, Enter, TypeInv, PCOK
  <2> QED BY <1>5, <2>1 DEF ApproveReviewMessage, Added, InReview, TypeInv, TypeOK
<1>6. ASSUME NEW p \in Proc, Plan(p)
      PROVE  queue[j] \in Live \/ (InHand(p) /\ j = SendJob(arg[p]))
  <2>1. CASE EnqueueDraft(p)
    BY <2>1 DEF EnqueueDraft, Added, InHand, TypeInv, TypeOK
  <2>2. CASE DeclineClient(p)
    BY <1>0, <2>2 DEF DeclineClient, RemoveFutureEmail
  <2>3. CASE PlanFails(p) \/ Return(p)
    BY <2>3 DEF PlanFails, Return, LeaveLock, Ended, TypeInv, TypeOK
  <2>4. CASE StoreDraft(p) \/ TrackDraft(p) \/ CompleteGoal(p)
    BY <2>4 DEF StoreDraft, TrackDraft, CompleteGoal, queueVars
  <2> QED BY <1>6, <2>1, <2>2, <2>3, <2>4 DEF Plan
<1>7. CASE UNCHANGED vars
  BY <1>7 DEF vars, queueVars, Enters
<1> QED
  BY <1>1, <1>2, <1>3, <1>4, <1>5, <1>6, <1>7 DEF Next, Enters

\* A message comes to wait for a review as a new one, or from the worker.
LEMMA PendingFrame ==
  ASSUME TypeInv, [Next]_vars, NEW d \in Draft, review'[d] = "pending"
  PROVE  \/ review[d] = "pending"
         \/ pc[Worker] = "active" /\ arg[Worker] = d
         \/ \E p \in Proc : StoreDraft(p) /\ arg'[p] = d
<1>1. CASE UNCHANGED <<status, review>> \/ SupersedePendingReview \/ RecordSent
  BY <1>1 DEF SupersedePendingReview, RecordSent
<1>2. ASSUME NEW p \in Proc, StoreDraft(p)
      PROVE  review[d] = "pending" \/ arg'[p] = d
  BY <1>2 DEF StoreDraft, TypeInv, TypeOK
<1>3. ASSUME NEW r \in Req, ApproveReviewMessage(r)
      PROVE  review[d] = "pending"
  BY <1>3 DEF ApproveReviewMessage, TypeInv, TypeOK
<1>4. CASE HoldForReview
  BY <1>4 DEF HoldForReview, WorkerEnters, TypeInv, TypeOK
<1> QED
  BY <1>1, <1>2, <1>3, <1>4, DraftFrame

\* The planner has a draft in its hands that it stored, or had it before.
LEMMA InHandFrame ==
  ASSUME TypeInv, [Next]_vars, NEW p \in Proc, InHand(p)'
  PROVE  \/ InHand(p) /\ arg'[p] = arg[p]
         \/ StoreDraft(p)
<1> USE ProcFacts DEF InHand
<1>1. CASE Environment
  <2>1. ASSUME NEW r \in Req, NEW o \in Ops \ (FlipOps \cup ReviewOps), Call(r, o)
        PROVE  InHand(p) /\ arg'[p] = arg[p]
    <3>1. o \notin {"stored", "enqueued"}
      BY OpsAssumption DEF OpName
    <3> QED BY <2>1, <3>1 DEF Call, TypeInv, TypeOK
  <2>2. ASSUME NEW r \in Req, NEW o \in Ops \cap ReviewOps, NEW d \in Draft, CallReview(r, o, d)
        PROVE  InHand(p) /\ arg'[p] = arg[p]
    BY <2>2 DEF CallReview, ReviewOps, TypeInv, TypeOK
  <2>3. CASE WipeRedis \/ \E o \in Ops \cap FlipOps : Flip(o)
    BY <2>3 DEF WipeRedis, Flip, procVars
  <2>4. CASE WorkerDies \/ \E r \in Req : RequestDies(r)
    BY <2>4 DEF WorkerDies, RequestDies, Stop, TypeInv, TypeOK
  <2> QED BY <1>1, <2>1, <2>2, <2>3, <2>4 DEF Environment
<1>2. CASE Queue
  BY <1>2 DEF Queue, JobDue, RecoverStalled, PlannedTimePasses, procVars
<1>3. CASE Boot \/ Resync
  BY <1>3 DEF Boot, Resync, Stop, TypeInv, TypeOK
<1>4. CASE Send
  BY <1>4 DEF Send, TakeJob, DropSend, HoldForReview, BeginSend, ProviderAccepts, SendFails, RecordSent,
     SettleSend, SetFutureEmail, Stop, TypeInv, TypeOK
<1>5. ASSUME NEW r \in Req, Locked(r) \/ RetryFirstDraft(r)
      PROVE  InHand(p) /\ arg'[p] = arg[p]
  <2>1. /\ \E state : state \notin {"stored", "enqueued"} /\ pc' = [pc EXCEPT ![r] = state]
        /\ \/ arg' = arg /\ pc[r] \notin {"stored", "enqueued"}
           \/ arg' = [arg EXCEPT ![r] = NoDraft]
    BY <1>5 DEF Locked, Enter, CancelSend, Replan, ReplanAfterUnpause, DraftFirstEmail,
       RegenerateReviewMessage, ApproveReviewMessage, PauseClient, StopOverdue, ResumeClient, SendNow,
       RetryFailedSend, CancelForDelete, MarkDeleted, RetryFirstDraft, SetFutureEmail, Release
  <2> QED BY <2>1 DEF TypeInv, TypeOK
<1>6. ASSUME NEW q \in Proc, Plan(q)
      PROVE  (InHand(p) /\ arg'[p] = arg[p]) \/ StoreDraft(p)
  BY <1>6 DEF Plan, StoreDraft, EnqueueDraft, TrackDraft, CompleteGoal, DeclineClient, PlanFails,
     Return, LeaveLock, Stop, TypeInv, TypeOK
<1>7. CASE UNCHANGED vars
  BY <1>7 DEF vars, procVars
<1> QED
  BY <1>1, <1>2, <1>3, <1>4, <1>5, <1>6, <1>7 DEF Next

\* The worker works on the draft of a job it took from the queue.
LEMMA SendingOneFrame ==
  ASSUME TypeInv, [Next]_vars, pc'[Worker] \in {"active", "sending"}
  PROVE  \/ pc[Worker] \in {"active", "sending"} /\ arg'[Worker] = arg[Worker]
         \/ \E j \in Job : queue[j] = "waiting" /\ arg'[Worker] = j.draft
<1> USE ProcFacts
<1>1. CASE Environment
  BY <1>1 DEF Environment, Call, CallReview, Flip, WipeRedis, WorkerDies, RequestDies, Stop,
     procVars, TypeInv, TypeOK
<1>2. CASE Queue \/ Boot \/ Resync
  BY <1>2 DEF Queue, JobDue, RecoverStalled, PlannedTimePasses, Boot, Resync, Stop, procVars,
     TypeInv, TypeOK
<1>3. CASE Send
  BY <1>3 DEF Send, TakeJob, DropSend, HoldForReview, BeginSend, WorkerEnters, ProviderAccepts, SendFails,
     RecordSent, SettleSend, SetFutureEmail, Stop, TypeInv, TypeOK
<1>4. ASSUME NEW r \in Req, Locked(r) \/ RetryFirstDraft(r)
      PROVE  pc[Worker] \in {"active", "sending"} /\ arg'[Worker] = arg[Worker]
  <2>1. /\ \E state : pc' = [pc EXCEPT ![r] = state]
        /\ arg' = arg \/ arg' = [arg EXCEPT ![r] = NoDraft]
    BY <1>4 DEF Locked, CancelSend, Replan, ReplanAfterUnpause, DraftFirstEmail,
       RegenerateReviewMessage, ApproveReviewMessage, PauseClient, StopOverdue, ResumeClient, SendNow,
       RetryFailedSend, CancelForDelete, MarkDeleted, RetryFirstDraft, SetFutureEmail, Release
  <2> QED BY <2>1 DEF TypeInv, TypeOK
<1>5. ASSUME NEW p \in Proc, Plan(p)
      PROVE  pc[Worker] \in {"active", "sending"} /\ arg'[Worker] = arg[Worker]
  <2>1. /\ \E state \in {"stored", "enqueued", "done", "idle"} : pc' = [pc EXCEPT ![p] = state]
        /\ \E d : arg' = arg \/ arg' = [arg EXCEPT ![p] = d]
    BY <1>5 DEF Plan, StoreDraft, EnqueueDraft, TrackDraft, CompleteGoal, DeclineClient, PlanFails,
       Return, LeaveLock, Stop
  <2> QED BY <2>1 DEF TypeInv, TypeOK
<1>6. CASE UNCHANGED vars
  BY <1>6 DEF vars, procVars
<1> QED
  BY <1>1, <1>2, <1>3, <1>4, <1>5, <1>6 DEF Next

-----------------------------------------------------------------------------
\* What can still be sent could be sent before, or was stored just now.
LEMMA NoRevival ==
  ASSUME TypeInv, TypeInv', [Next]_vars, NEW d \in Draft, StillPlanned(d)'
  PROVE  StillPlanned(d) \/ \E p \in Proc : StoreDraft(p) /\ arg'[p] = d
<1>1. ASSUME NEW p \in Proc, InHand(p), arg[p] = d PROVE StillPlanned(d)
  BY <1>1 DEF InHand, StillPlanned
<1>2. ASSUME NEW p \in Proc, InHand(p) PROVE SendJob(arg[p]).draft = arg[p]
  BY <1>2, JobIs DEF InHand, TypeInv, PCOK
<1>3. ASSUME NEW r \in Req, InReview(r)
      PROVE  /\ ApprovedJob(arg[r]).draft = arg[r]
             /\ arg[r] = d => StillPlanned(d)
  BY <1>3, JobIs DEF InReview, StillPlanned
<1>4. CASE tracked' # NoJob /\ tracked'.draft = d
  <2>1. CASE tracked' = tracked
    BY <1>4, <2>1 DEF StillPlanned
  <2>2. ASSUME NEW p \in Proc, InHand(p), tracked' = SendJob(arg[p]) PROVE StillPlanned(d)
    BY <1>4, <2>2, <1>1, <1>2
  <2>3. ASSUME NEW r \in Req, InReview(r), tracked' = ApprovedJob(arg[r]) PROVE StillPlanned(d)
    BY <1>4, <2>3, <1>3
  <2> QED BY <1>4, <2>1, <2>2, <2>3, TrackedFrame
<1>5. ASSUME NEW j \in Job, j.draft = d, queue'[j] \in Live PROVE StillPlanned(d)
  <2>1. Enters(j)
    BY <1>5, QueueFrame
  <2>2. CASE queue[j] \in Live
    BY <1>5, <2>2 DEF StillPlanned, Live
  <2>3. CASE j = tracked
    BY <1>5, <2>3, ProcAssumption DEF StillPlanned
  <2>4. ASSUME NEW p \in Proc, InHand(p), j = SendJob(arg[p]) PROVE StillPlanned(d)
    BY <1>5, <2>4, <1>1, <1>2
  <2>5. ASSUME NEW r \in Req, InReview(r), j = ApprovedJob(arg[r]) PROVE StillPlanned(d)
    BY <1>5, <2>5, <1>3
  <2> QED BY <2>1, <2>2, <2>3, <2>4, <2>5 DEF Enters
<1>6. CASE review'[d] = "pending"
  BY <1>6, PendingFrame DEF StillPlanned
<1>7. ASSUME NEW p \in Proc, InHand(p)', arg'[p] = d
      PROVE  StillPlanned(d) \/ StoreDraft(p)
  BY <1>1, <1>7, InHandFrame
<1>8. CASE pc'[Worker] \in {"active", "sending"} /\ arg'[Worker] = d
  <2>1. CASE pc[Worker] \in {"active", "sending"} /\ arg[Worker] = d
    BY <2>1 DEF StillPlanned
  <2>2. ASSUME NEW j \in Job, queue[j] = "waiting", d = j.draft PROVE StillPlanned(d)
    BY <2>2 DEF StillPlanned
  <2> QED BY <1>8, <2>1, <2>2, SendingOneFrame
<1> QED
  BY <1>4, <1>5, <1>6, <1>7, <1>8 DEF StillPlanned, Live, InHand

-----------------------------------------------------------------------------
(***************************************************************************)
(* A draft id that is not used yet is on no list and with no provider.     *)
(***************************************************************************)
UnusedInv ==
  /\ \A d \in Draft : status[d] = "none" => accepted[d] = 0 /\ review[d] # "pending"
  /\ InFlight => status[arg[Worker]] # "none"

\* Rows of emails are inserted by the planner and never deleted.
LEMMA StatusFrame ==
  ASSUME TypeInv, UnusedInv, [Next]_vars, NEW d \in Draft
  PROVE  \/ status[d] = "none" /\ status'[d] = "none" /\ review'[d] # "pending"
         \/ status[d] # "none" /\ status'[d] # "none"
         \/ status[d] = "none" /\ status'[d] = "draft"
            /\ \E p \in Proc : StoreDraft(p) /\ arg'[p] = d
<1> USE DEF TypeInv, TypeOK, UnusedInv
<1>1. CASE UNCHANGED <<status, review>>
  BY <1>1
<1>2. CASE SupersedePendingReview
  BY <1>2 DEF SupersedePendingReview
<1>3. ASSUME NEW p \in Proc, StoreDraft(p)
      PROVE  \/ status[d] = "none" /\ status'[d] = "none" /\ review'[d] # "pending"
             \/ status[d] # "none" /\ status'[d] # "none"
             \/ status[d] = "none" /\ status'[d] = "draft" /\ arg'[p] = d
  BY <1>3 DEF StoreDraft
<1>4. ASSUME NEW r \in Req, ApproveReviewMessage(r)
      PROVE  \/ status[d] = "none" /\ status'[d] = "none" /\ review'[d] # "pending"
             \/ status[d] # "none" /\ status'[d] # "none"
  BY <1>4 DEF ApproveReviewMessage
<1>5. CASE HoldForReview
  BY <1>5 DEF HoldForReview, Sendable
<1>6. CASE RecordSent
  BY <1>6 DEF RecordSent, InFlight
<1> QED
  BY <1>1, <1>2, <1>3, <1>4, <1>5, <1>6, DraftFrame

LEMMA NextUnused ==
  ASSUME TypeInv, TypeInv', UnusedInv, [Next]_vars
  PROVE  UnusedInv'
<1>1. ASSUME NEW d \in Draft, status'[d] = "none"
      PROVE  accepted'[d] = 0 /\ review'[d] # "pending"
  <2>1. status[d] = "none" /\ review'[d] # "pending"
    BY <1>1, StatusFrame
  <2>2. accepted[d] = 0
    BY <2>1 DEF UnusedInv
  <2>3. CASE ProviderAccepts
    <3>1. d # arg[Worker]
      BY <2>1, <2>3 DEF ProviderAccepts, UnusedInv, InFlight
    <3> QED BY <2>1, <2>2, <2>3, <3>1 DEF ProviderAccepts, TypeInv, TypeOK
  <2> QED BY <2>1, <2>2, <2>3, AcceptFrame
<1>2. ASSUME InFlight' PROVE status'[arg'[Worker]] # "none"
  <2>1. arg'[Worker] \in Draft
    BY <1>2, ProcFacts DEF InFlight, TypeInv, PCOK
  <2>2. CASE InFlight /\ arg'[Worker] = arg[Worker]
    BY <2>1, <2>2, StatusFrame DEF UnusedInv
  <2>3. CASE BeginSend
    BY <2>1, <2>3 DEF BeginSend, Sendable, draftVars
  <2> QED BY <1>2, <2>2, <2>3, InFlightFrame
<1> QED BY <1>1, <1>2 DEF UnusedInv

-----------------------------------------------------------------------------
LEMMA FateIs ==
  ASSUME NEW d \in Draft
  PROVE  FateOf[d] = IF status[d] = "none" THEN "unplanned"
                     ELSE IF accepted[d] > 0 THEN "delivered"
                     ELSE IF StillPlanned(d) THEN "planned" ELSE "cancelled"
BY DEF FateOf

\* A step that takes no draft and delivers nothing cancels what it drops.
LEMMA OthersKeepFate ==
  ASSUME TypeInv, TypeInv', UnusedInv, [Next]_vars, NEW d \in Draft,
         ~\E p \in Proc : StoreDraft(p) /\ arg'[p] = d,
         accepted'[d] = accepted[d]
  PROVE  \/ FateOf'[d] = FateOf[d]
         \/ FateOf[d] = "planned" /\ FateOf'[d] = "cancelled"
<1>1. status'[d] = "none" <=> status[d] = "none"
  BY StatusFrame
<1>2. StillPlanned(d)' => StillPlanned(d)
  BY NoRevival
<1>3. FateOf'[d] = IF status'[d] = "none" THEN "unplanned"
                   ELSE IF accepted'[d] > 0 THEN "delivered"
                   ELSE IF StillPlanned(d)' THEN "planned" ELSE "cancelled"
  BY DEF FateOf
<1> QED BY <1>1, <1>2, <1>3, FateIs

\* A new draft is planned: it is in the planner's hands, and nobody else's fate
\* changes.
LEMMA StoreIsPlan ==
  ASSUME TypeInv, TypeInv', UnusedInv, Next, NEW p \in Proc, StoreDraft(p)
  PROVE  \E d \in Draft : Promise!Plan(d)
<1>1. PICK d \in Draft : /\ status[d] = "none"
                         /\ status' = [status EXCEPT ![d] = "draft"]
                         /\ review' = IF "reviewMode" \in flags /\ "deleted" \notin flags
                                        THEN [review EXCEPT ![d] = "pending"] ELSE review
                         /\ arg' = [arg EXCEPT ![p] = d]
  BY DEF StoreDraft
<1>2. /\ pc' = [pc EXCEPT ![p] = "stored"]
      /\ UNCHANGED <<tracked, queue, accepted>>
      /\ pc[p] = "plan"
  BY DEF StoreDraft, Planning, rowVars, queueVars, ghostVars
<1>3. FateOf[d] = "unplanned"
  BY <1>1, FateIs
<1>4. FateOf'[d] = "planned"
  <2>1. status'[d] = "draft" /\ accepted'[d] = 0
    BY <1>1, <1>2 DEF UnusedInv, TypeInv, TypeOK
  <2>2. pc'[p] = "stored" /\ arg'[p] = d
    BY <1>1, <1>2 DEF TypeInv, TypeOK
  <2>3. StillPlanned(d)'
    BY <2>2 DEF StillPlanned
  <2> QED BY <2>1, <2>3 DEF FateOf
<1>5. ASSUME NEW e \in Draft, e # d PROVE FateOf'[e] = FateOf[e]
  <2>1. status'[e] = status[e] /\ review'[e] = review[e] /\ accepted'[e] = accepted[e]
    BY <1>1, <1>2, <1>5 DEF TypeInv, TypeOK
  <2>2. \A q \in Proc : q # p => pc'[q] = pc[q] /\ arg'[q] = arg[q]
    BY <1>1, <1>2 DEF TypeInv, TypeOK
  <2>3. pc'[p] = "stored" /\ arg'[p] # e
    BY <1>1, <1>2, <1>5 DEF TypeInv, TypeOK
  <2>4. StillPlanned(e)' <=> StillPlanned(e)
    BY <1>2, <2>1, <2>2, <2>3, ProcFacts DEF StillPlanned
  <2>5. FateOf'[e] = IF status'[e] = "none" THEN "unplanned"
                     ELSE IF accepted'[e] > 0 THEN "delivered"
                     ELSE IF StillPlanned(e)' THEN "planned" ELSE "cancelled"
    BY DEF FateOf
  <2> QED BY <2>1, <2>4, <2>5, FateIs
<1>6. FateOf' = [FateOf EXCEPT ![d] = "planned"]
  BY <1>4, <1>5 DEF FateOf
<1> QED BY <1>3, <1>6 DEF Promise!Plan

\* The provider takes a planned message, or once more one that it has.
LEMMA AcceptIsDeliver ==
  ASSUME TypeInv, TypeInv', UnusedInv, Next, ProviderAccepts
  PROVE  UNCHANGED FateOf \/ \E d \in Draft : Promise!Deliver(d)
<1> DEFINE d == arg[Worker]
<1>1. d \in Draft /\ status[d] # "none"
  BY ProcFacts DEF ProviderAccepts, UnusedInv, InFlight, TypeInv, PCOK
<1>2. /\ accepted' = [accepted EXCEPT ![d] = accepted[d] + 1]
      /\ pc' = [pc EXCEPT ![Worker] = "accepted"] /\ pc[Worker] = "sending"
      /\ UNCHANGED <<status, review, tracked, queue, arg>>
  BY DEF ProviderAccepts, draftVars, rowVars, queueVars
<1> HIDE DEF d
<1>3. accepted[d] \in Nat /\ accepted'[d] = accepted[d] + 1
  BY <1>1, <1>2, BoundAssumption DEF TypeInv, TypeOK
<1>4. FateOf'[d] = "delivered"
  <2>1. accepted'[d] > 0 /\ status'[d] # "none"
    BY <1>1, <1>2, <1>3
  <2> QED BY <1>1, <2>1 DEF FateOf
<1>5. FateOf[d] \in {"planned", "delivered"}
  <2>1. StillPlanned(d)
    BY <1>2 DEF StillPlanned, d
  <2> QED BY <1>1, <2>1, FateIs
<1>6. ASSUME NEW e \in Draft, e # d PROVE FateOf'[e] = FateOf[e]
  <2>1. status'[e] = status[e] /\ review'[e] = review[e] /\ accepted'[e] = accepted[e]
    BY <1>1, <1>2, <1>6 DEF TypeInv, TypeOK
  <2>2. \A q \in Proc : q # Worker => pc'[q] = pc[q]
    BY <1>2 DEF TypeInv, TypeOK
  <2>3. pc'[Worker] = "accepted" /\ arg[Worker] # e
    BY <1>2, <1>6, ProcFacts DEF TypeInv, TypeOK, d
  <2>4. StillPlanned(e)' <=> StillPlanned(e)
    BY <1>2, <2>1, <2>2, <2>3, ProcFacts DEF StillPlanned
  <2>5. FateOf'[e] = IF status'[e] = "none" THEN "unplanned"
                     ELSE IF accepted'[e] > 0 THEN "delivered"
                     ELSE IF StillPlanned(e)' THEN "planned" ELSE "cancelled"
    BY DEF FateOf
  <2> QED BY <2>1, <2>4, <2>5, FateIs
<1>7. FateOf' = [FateOf EXCEPT ![d] = "delivered"]
  BY <1>1, <1>4, <1>6 DEF FateOf
<1>8. FateOf = [e \in Draft |-> FateOf[e]]
  BY DEF FateOf
<1>9. CASE FateOf[d] = "planned"
  BY <1>1, <1>7, <1>9 DEF Promise!Deliver
<1>10. CASE FateOf[d] = "delivered"
  BY <1>1, <1>7, <1>8, <1>10
<1> QED BY <1>5, <1>9, <1>10

\* Every other step cancels the messages it drops.
LEMMA OtherIsCancel ==
  ASSUME TypeInv, TypeInv', UnusedInv, [Next]_vars,
         ~ProviderAccepts, ~\E p \in Proc : StoreDraft(p)
  PROVE  \E S \in SUBSET Draft : Promise!Cancel(S)
<1> DEFINE S == {d \in Draft : FateOf[d] = "planned" /\ FateOf'[d] = "cancelled"}
<1>1. accepted' = accepted
  BY AcceptFrame
<1>2. \A d \in Draft : FateOf'[d] = FateOf[d] \/ d \in S
  BY <1>1, OthersKeepFate
<1>3. FateOf' = [d \in Draft |-> FateOf'[d]]
  BY DEF FateOf
<1>4. \A d \in Draft : FateOf'[d] = IF d \in S THEN "cancelled" ELSE FateOf[d]
  BY <1>2
<1>5. \A d \in S : FateOf[d] = "planned"
  OBVIOUS
<1>6. S \in SUBSET Draft
  OBVIOUS
<1> HIDE DEF S
<1>7. FateOf' = [d \in Draft |-> IF d \in S THEN "cancelled" ELSE FateOf[d]]
  BY <1>3, <1>4
<1>8. Promise!Cancel(S)
  BY <1>5, <1>7 DEF Promise!Cancel
<1> QED BY <1>6, <1>8

(***************************************************************************)
(* The pipeline implements Outbox: a message is planned once, then         *)
(* delivered or cancelled, and neither a restart, a retry, a resume nor a  *)
(* late approval brings a cancelled message back (removeFutureEmail,       *)
(* supersedePendingReview, resyncScheduledJobs, resumeClient,              *)
(* approveReviewMessage).                                                  *)
(***************************************************************************)
THEOREM CancelledIsFinalHolds == Spec => CancelledIsFinal
<1>1. Init => TypeInv /\ UnusedInv /\ Promise!Init
  <2> SUFFICES ASSUME Init PROVE TypeInv /\ UnusedInv /\ Promise!Init
    OBVIOUS
  <2>1. UnusedInv
    BY ProcFacts DEF Init, UnusedInv, InFlight
  <2>2. FateOf = [d \in Draft |-> "unplanned"]
    BY DEF Init, FateOf
  <2> QED BY InitType, <2>1, <2>2 DEF Promise!Init
<1>2. TypeInv /\ UnusedInv /\ [Next]_vars => (TypeInv /\ UnusedInv)'
  BY NextType, NextUnused
<1>3. TypeInv /\ UnusedInv /\ [Next]_vars => [Promise!Next]_FateOf
  <2> SUFFICES ASSUME TypeInv, UnusedInv, [Next]_vars PROVE [Promise!Next]_FateOf
    OBVIOUS
  <2>1. TypeInv'
    BY NextType
  <2>2. CASE ProviderAccepts
    <3>1. Next
      BY <2>2 DEF Next, Send
    <3> QED BY <2>1, <2>2, <3>1, AcceptIsDeliver DEF Promise!Next
  <2>3. ASSUME NEW p \in Proc, StoreDraft(p) PROVE Promise!Next
    <3>1. Next
      BY <2>3 DEF Next, Plan
    <3> QED BY <2>1, <2>3, <3>1, StoreIsPlan DEF Promise!Next
  <2>4. CASE ~ProviderAccepts /\ ~\E p \in Proc : StoreDraft(p)
    BY <2>1, <2>4, OtherIsCancel DEF Promise!Next
  <2> QED BY <2>2, <2>3, <2>4
<1> QED
  BY <1>1, <1>2, <1>3, PTL DEF Spec, CancelledIsFinal, Promise!Spec
=============================================================================
