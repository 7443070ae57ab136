------------------------- MODULE SendPipelineProofs -------------------------
(***************************************************************************)
(* Theorems about SendPipeline for any number of drafts and handlers.      *)
(***************************************************************************)
EXTENDS SendPipeline, TLAPS

\* Which program counters belong to whom, and who works on a draft.
PCOK ==
  /\ pc[Worker] \in WorkerPC
  /\ \A r \in Req : pc[r] \in ReqPC
  /\ \A p \in Proc : pc[p] \in {"approve", "stored", "enqueued", "active", "sending", "accepted"}
                        => arg[p] \in Draft

TypeInv == TypeOK /\ PCOK

-----------------------------------------------------------------------------
(* Cancelling the pending send keeps the types of what it writes.          *)
LEMMA RemoveFutureEmailType ==
  ASSUME TypeOK, RemoveFutureEmail
  PROVE  /\ status' \in [Draft -> {"none", "draft", "held", "sent"}]
         /\ review' \in [Draft -> {"none", "pending", "approved", "superseded"}]
         /\ tracked' \in Job \cup {NoJob}
         /\ marks' \in SUBSET {"failed", "past"}
         /\ queue' \in [Job -> JobState]
BY DEF TypeOK, RemoveFutureEmail, SupersedePendingReview, Unqueued, JobState

(* Starting the planner keeps the types of what it writes.                 *)
LEMMA SetFutureEmailType ==
  ASSUME TypeInv, NEW p \in Proc, SetFutureEmail(p)
  PROVE  /\ lock' \in Proc \cup {Free}
         /\ pc' \in [Proc -> WorkerPC \cup ReqPC]
         /\ arg' \in [Proc -> Draft \cup {NoDraft}]
         /\ hold' \in SUBSET Proc
         /\ PCOK'
BY ProcAssumption DEF TypeInv, TypeOK, PCOK, SetFutureEmail, Proc, WorkerPC, ReqPC, OpName

LEMMA ReleaseType ==
  ASSUME TypeInv, NEW r \in Req, Release(r)
  PROVE  /\ lock' \in Proc \cup {Free}
         /\ pc' \in [Proc -> WorkerPC \cup ReqPC]
         /\ arg' \in [Proc -> Draft \cup {NoDraft}]
         /\ hold' \in SUBSET Proc
         /\ PCOK'
BY ProcAssumption DEF TypeInv, TypeOK, PCOK, Release, Proc, WorkerPC, ReqPC

LEMMA StopType ==
  ASSUME TypeInv, NEW p \in Proc, NEW state \in {"idle", "down"},
         p # Worker => state = "idle", Stop(p, state)
  PROVE  /\ pc' \in [Proc -> WorkerPC \cup ReqPC]
         /\ arg' \in [Proc -> Draft \cup {NoDraft}]
         /\ hold' \in SUBSET Proc
         /\ wjob' \in Job \cup {NoJob}
         /\ retries' \in [Req -> 0..MaxRetries]
         /\ PCOK'
BY ProcAssumption, BoundAssumption DEF TypeInv, TypeOK, PCOK, Stop, Proc, WorkerPC, ReqPC

LEMMA EndedType ==
  ASSUME TypeOK, NEW state \in JobState
  PROVE  Ended(wjob, state) \in [Job -> JobState]
BY DEF TypeOK, Ended

-----------------------------------------------------------------------------
LEMMA InitType == Init => TypeInv
<1> SUFFICES ASSUME Init PROVE TypeInv
  OBVIOUS
<1>1. flags \in SUBSET Flag
  BY OpsAssumption DEF Init, Flag
<1>2. /\ retries \in [Req -> 0..MaxRetries]
      /\ accepted \in [Draft -> 0..MaxAccepts]
      /\ crashes \in 0..MaxCrashes /\ wipes \in 0..MaxWipes
  BY BoundAssumption DEF Init
<1>3. pc \in [Proc -> WorkerPC \cup ReqPC] /\ arg \in [Proc -> Draft \cup {NoDraft}]
  BY DEF Init, ReqPC
<1>4. PCOK
  BY DEF Init, PCOK, Proc, WorkerPC, ReqPC
<1> QED
  BY <1>1, <1>2, <1>3, <1>4 DEF Init, TypeInv, TypeOK, JobState

LEMMA LockedType ==
  ASSUME TypeInv, NEW r \in Req, Locked(r)
  PROVE  TypeInv'
<1>0. r \in Proc /\ r # Worker
  BY ProcAssumption DEF Proc
<1>1. CASE CancelSend(r)
  BY <1>1, RemoveFutureEmailType, ReleaseType DEF CancelSend, TypeInv, TypeOK, faultVars, ghostVars
<1>2. CASE Replan(r)
  BY <1>0, <1>2, RemoveFutureEmailType, SetFutureEmailType DEF Replan, TypeInv, TypeOK, faultVars, ghostVars
<1>3. CASE ReplanAfterUnpause(r)
  BY <1>0, <1>3, RemoveFutureEmailType, SetFutureEmailType, ReleaseType
     DEF ReplanAfterUnpause, TypeInv, TypeOK, faultVars, ghostVars, draftVars, rowVars
<1>4. CASE DraftFirstEmail(r)
  BY <1>0, <1>4, SetFutureEmailType
     DEF DraftFirstEmail, TypeInv, TypeOK, faultVars, ghostVars, draftVars, rowVars, queueVars
<1>5. CASE RegenerateReviewMessage(r)
  <2>1. CASE Running
    BY <1>0, <1>5, <2>1, RemoveFutureEmailType, ProcAssumption
       DEF RegenerateReviewMessage, TypeInv, TypeOK, PCOK, faultVars, ghostVars, ReqPC, WorkerPC, Proc
  <2>2. CASE ~Running
    BY <1>5, <2>2, ReleaseType DEF RegenerateReviewMessage, TypeInv, TypeOK, faultVars, ghostVars, draftVars, rowVars
  <2> QED BY <2>1, <2>2
<1>6. CASE ApproveReviewMessage(r)
  <2>1. arg[r] \in Draft
    BY <1>0, <1>6 DEF ApproveReviewMessage, Enter, TypeInv, PCOK
  <2>2. ApprovedJob(arg[r]) \in Job
    BY <2>1 DEF ApprovedJob, Job, Kind
  <2>3. /\ status' \in [Draft -> {"none", "draft", "held", "sent"}]
        /\ review' \in [Draft -> {"none", "pending", "approved", "superseded"}]
    BY <1>6, <2>1 DEF ApproveReviewMessage, TypeInv, TypeOK
  <2>4. /\ queue' \in [Job -> JobState]
        /\ tracked' \in Job \cup {NoJob}
        /\ marks' \in SUBSET {"failed", "past"}
    <3>1. \/ UNCHANGED <<queue, tracked, marks>>
          \/ /\ queue' = Added(ApprovedJob(arg[r]), "waiting")
             /\ Upsert(ApprovedJob(arg[r]), {"past"})
      BY <1>6 DEF ApproveReviewMessage, rowVars
    <3> QED
      BY <2>2, <3>1 DEF TypeInv, TypeOK, Upsert, Added, JobState
  <2>5. Release(r) /\ UNCHANGED <<flags, stalled, wjob, retries, crashes, wipes, accepted, quiet>>
    BY <1>6 DEF ApproveReviewMessage, faultVars, ghostVars
  <2> QED
    BY <2>3, <2>4, <2>5, ReleaseType DEF TypeInv, TypeOK
<1>7. CASE PauseClient(r)
  BY <1>7, ReleaseType DEF PauseClient, PauseFutureEmail, Unqueued, JobState, TypeInv, TypeOK,
     faultVars, ghostVars, draftVars, rowVars
<1>8. CASE StopOverdue(r)
  BY <1>8, ReleaseType DEF StopOverdue, PauseFutureEmail, Unqueued, JobState, TypeInv, TypeOK, Flag,
     faultVars, ghostVars, draftVars, rowVars
<1>9. CASE ResumeClient(r)
  <2>1. CASE ResumeAction = "redraft" /\ RemoveFutureEmail /\ SetFutureEmail(r)
    BY <1>0, <1>9, <2>1, RemoveFutureEmailType, SetFutureEmailType
       DEF ResumeClient, TypeInv, TypeOK, faultVars, ghostVars
  <2>2. CASE Release(r) /\ ResumeAction # "redraft"
    <3>1. ResumeAction \in {"restore", "send_now"} => tracked \in Job
      BY DEF ResumeAction, TypeInv, TypeOK
    <3> QED
      BY <1>9, <2>2, <3>1, ReleaseType
         DEF ResumeClient, Added, Upsert, JobState, TypeInv, TypeOK, faultVars, ghostVars, draftVars, rowVars
  <2> QED BY <1>9, <2>1, <2>2 DEF ResumeClient
<1>10. CASE SendNow(r)
  BY <1>10, ReleaseType DEF SendNow, SendNowOutcome, Upsert, JobState, TypeInv, TypeOK,
     faultVars, ghostVars, draftVars, rowVars
<1>11. CASE RetryFailedSend(r)
  BY <1>11, ReleaseType DEF RetryFailedSend, Upsert, JobState, TypeInv, TypeOK,
     faultVars, ghostVars, draftVars, rowVars
<1>12. CASE CancelForDelete(r)
  BY <1>0, <1>12, RemoveFutureEmailType DEF CancelForDelete, TypeInv, TypeOK, PCOK, ReqPC, Proc, faultVars, ghostVars
<1>13. CASE MarkDeleted(r)
  BY <1>0, <1>13 DEF MarkDeleted, TypeInv, TypeOK, PCOK, ReqPC, Flag,
     faultVars, ghostVars, draftVars, rowVars, queueVars
<1> QED
  BY <1>1, <1>2, <1>3, <1>4, <1>5, <1>6, <1>7, <1>8, <1>9, <1>10, <1>11, <1>12, <1>13 DEF Locked

(* A plan that throws stays within the bound on crashes.                   *)
LEMMA ThrowsType ==
  ASSUME TypeInv, NEW p \in Proc, Throws(p)
  PROVE  crashes' \in 0..MaxCrashes
BY BoundAssumption DEF Throws, TypeInv, TypeOK

LEMMA PlanType ==
  ASSUME TypeInv, NEW p \in Proc, Plan(p)
  PROVE  TypeInv'
<1>1. CASE StoreDraft(p)
  BY <1>1, ProcAssumption DEF StoreDraft, Planning, TypeInv, TypeOK, PCOK, ReqPC, WorkerPC, Proc,
     rowVars, queueVars, faultVars, ghostVars
<1>2. CASE EnqueueDraft(p)
  <2>1. SendJob(arg[p]) \in Job
    BY <1>2 DEF EnqueueDraft, TypeInv, PCOK, SendJob, Job, Kind
  <2>2. pc' \in [Proc -> WorkerPC \cup ReqPC] /\ PCOK'
    BY <1>2, ProcAssumption DEF EnqueueDraft, TypeInv, TypeOK, PCOK, ReqPC, WorkerPC, Proc
  <2>3. CASE p \in hold
    BY <1>2, <2>1, <2>2, <2>3 DEF EnqueueDraft, TypeInv, TypeOK, Upsert, draftVars, faultVars, ghostVars
  <2>4. CASE p \notin hold
    BY <1>2, <2>1, <2>2, <2>4 DEF EnqueueDraft, TypeInv, TypeOK, Added, JobState,
       draftVars, rowVars, faultVars, ghostVars
  <2> QED
    BY <2>3, <2>4
<1>3. CASE TrackDraft(p)
  <2>1. SendJob(arg[p]) \in Job
    BY <1>3 DEF TrackDraft, TypeInv, PCOK, SendJob, Job, Kind
  <2> QED
    BY <1>3, <2>1, ProcAssumption DEF TrackDraft, TypeInv, TypeOK, PCOK, ReqPC, WorkerPC, Proc,
       Upsert, draftVars, queueVars, faultVars, ghostVars
<1>4. CASE CompleteGoal(p)
  BY <1>4, ProcAssumption DEF CompleteGoal, TypeInv, TypeOK, PCOK, ReqPC, WorkerPC, Proc, Flag,
     draftVars, rowVars, queueVars, faultVars, ghostVars
<1>5. CASE DeclineClient(p)
  <2>1. /\ PCOK'
        /\ pc' \in [Proc -> WorkerPC \cup ReqPC]
    BY <1>5, ProcAssumption DEF DeclineClient, TypeInv, TypeOK, PCOK, ReqPC, WorkerPC, Proc
  <2> QED
    BY <1>5, <2>1, RemoveFutureEmailType
       DEF DeclineClient, TypeInv, TypeOK, Flag, draftVars, rowVars, faultVars
<1>6. ASSUME NEW outcome \in JobState, LeaveLock(p, outcome), crashes' \in 0..MaxCrashes
      PROVE  TypeInv'
  <2>1. queue' \in [Job -> JobState]
    BY <1>6, EndedType DEF LeaveLock, TypeInv, TypeOK
  <2>2. Stop(p, "idle") /\ lock' = Free
    BY <1>6 DEF LeaveLock
  <2> QED
    BY <1>6, <2>1, <2>2, StopType DEF LeaveLock, TypeInv, TypeOK, draftVars, rowVars, faultVars, ghostVars
<1>7. CASE Return(p)
  BY <1>6, <1>7 DEF Return, JobState, TypeInv, TypeOK
<1>8. CASE PlanFails(p)
  BY <1>6, <1>8, ThrowsType DEF PlanFails, JobState
<1> QED
  BY <1>1, <1>2, <1>3, <1>4, <1>5, <1>7, <1>8 DEF Plan

LEMMA SendType ==
  ASSUME TypeInv, Send
  PROVE  TypeInv'
<1>0. Worker \in Proc
  BY DEF Proc
<1>1. ASSUME NEW j \in Job, TakeJob(j) PROVE TypeInv'
  <2>1. j.draft \in Draft
    BY DEF Job
  <2> QED
    BY <1>0, <1>1, <2>1, ProcAssumption DEF TakeJob, TypeInv, TypeOK, PCOK, Proc, WorkerPC, ReqPC, JobState,
       draftVars, rowVars, faultVars, ghostVars
<1>2. CASE DropSend
  BY <1>0, <1>2, StopType, EndedType DEF DropSend, TypeInv, TypeOK, JobState, draftVars, rowVars, faultVars, ghostVars
<1>3. CASE HoldForReview
  BY <1>0, <1>3, StopType, EndedType DEF HoldForReview, TypeInv, TypeOK, JobState, rowVars, faultVars, ghostVars
<1>4. CASE BeginSend
  BY <1>0, <1>4, ProcAssumption DEF BeginSend, WorkerEnters, TypeInv, TypeOK, PCOK, Proc, WorkerPC, ReqPC,
     draftVars, rowVars, queueVars, faultVars, ghostVars
<1>5. CASE ProviderAccepts
  <2>1. accepted' \in [Draft -> 0..MaxAccepts]
    <3>1. arg[Worker] \in Draft
      BY <1>0, <1>5 DEF ProviderAccepts, TypeInv, PCOK
    <3>2. accepted[arg[Worker]] + 1 \in 0..MaxAccepts
      BY <1>5, <3>1, BoundAssumption DEF ProviderAccepts, TypeInv, TypeOK
    <3> QED
      BY <1>5, <3>2 DEF ProviderAccepts, TypeInv, TypeOK
  <2> QED
    BY <1>0, <1>5, <2>1, ProcAssumption DEF ProviderAccepts, TypeInv, TypeOK, PCOK, Proc, WorkerPC, ReqPC,
       draftVars, rowVars, queueVars, faultVars
<1>6. CASE SendFails
  BY <1>0, <1>6, StopType, EndedType DEF SendFails, TypeInv, TypeOK, JobState, draftVars, faultVars, ghostVars
<1>7. CASE RecordSent
  BY <1>0, <1>7, ProcAssumption DEF RecordSent, TypeInv, TypeOK, PCOK, Proc, WorkerPC, ReqPC,
     rowVars, queueVars, faultVars, ghostVars
<1>8. CASE SettleSend
  BY <1>0, <1>8, RemoveFutureEmailType, SetFutureEmailType
     DEF SettleSend, TypeInv, TypeOK, faultVars, ghostVars
<1> QED
  BY <1>1, <1>2, <1>3, <1>4, <1>5, <1>6, <1>7, <1>8 DEF Send

LEMMA EnvironmentType ==
  ASSUME TypeInv, Environment
  PROVE  TypeInv'
<1>1. ASSUME NEW r \in Req, NEW o \in Ops \ (FlipOps \cup ReviewOps), Call(r, o) PROVE TypeInv'
  <2>1. flags' \in SUBSET Flag
    BY <1>1 DEF Call, FlagsAtCall, TypeInv, TypeOK, Flag
  <2>2. retries' \in [Req -> 0..MaxRetries]
    BY <1>1, BoundAssumption DEF Call, TypeInv, TypeOK
  <2>3. quiet' \in BOOLEAN
    BY <1>1 DEF Call, TypeInv, TypeOK
  <2>4. o \in OpName /\ o # "approve"
    BY OpsAssumption DEF ReviewOps
  <2>5. pc' \in [Proc -> WorkerPC \cup ReqPC] /\ PCOK'
    BY <1>1, <2>4, ProcAssumption DEF Call, TypeInv, TypeOK, PCOK, Proc, ReqPC, WorkerPC, OpName
  <2> QED
    BY <1>1, <2>1, <2>2, <2>3, <2>5 DEF Call, TypeInv, TypeOK, draftVars, rowVars, queueVars, faultVars
<1>2. ASSUME NEW r \in Req, NEW o \in ReviewOps, NEW d \in Draft, CallReview(r, o, d) PROVE TypeInv'
  BY <1>2, ProcAssumption DEF CallReview, ReviewOps, TypeInv, TypeOK, PCOK, Proc, ReqPC, WorkerPC, OpName,
     draftVars, rowVars, queueVars, faultVars, ghostVars
<1>3. ASSUME NEW o \in FlipOps, Flip(o) PROVE TypeInv'
  <2>1. flags' \in SUBSET Flag
    BY <1>3 DEF Flip, FlipOps, TypeInv, TypeOK, Flag
  <2> QED
    BY <1>3, <2>1 DEF Flip, TypeInv, TypeOK, PCOK, draftVars, rowVars, queueVars, procVars, faultVars, ghostVars
<1>4. CASE WipeRedis
  BY <1>4, BoundAssumption DEF WipeRedis, TypeInv, TypeOK, PCOK, JobState, draftVars, rowVars, procVars, ghostVars
<1>5. ASSUME NEW p \in Proc, NEW state \in {"idle", "down"}, p # Worker => state = "idle",
             crashes < MaxCrashes, crashes' = crashes + 1,
             Stop(p, state), lock' = Unlocked(p),
             UNCHANGED <<flags, draftVars, rowVars, queueVars, wipes, ghostVars>>
      PROVE  TypeInv'
  <2>1. crashes' \in 0..MaxCrashes
    BY <1>5, BoundAssumption DEF TypeInv, TypeOK
  <2> QED
    BY <1>5, <2>1, StopType DEF Unlocked, TypeInv, TypeOK, draftVars, rowVars, queueVars, ghostVars
<1>6. CASE WorkerDies
  BY <1>5, <1>6 DEF WorkerDies, Proc
<1>7. ASSUME NEW r \in Req, RequestDies(r) PROVE TypeInv'
  BY <1>5, <1>7 DEF RequestDies, Proc
<1> QED
  BY <1>1, <1>2, <1>3, <1>4, <1>6, <1>7 DEF Environment

LEMMA QueueType ==
  ASSUME TypeInv, Queue
  PROVE  TypeInv'
BY ZenonT(60) DEF Queue, JobDue, RecoverStalled, PlannedTimePasses, TypeInv, TypeOK, PCOK, JobState,
   draftVars, rowVars, queueVars, procVars, faultVars, ghostVars

LEMMA WorkerBootType ==
  ASSUME TypeInv, Boot \/ Resync
  PROVE  TypeInv'
<1>0. Worker \in Proc
  BY DEF Proc
<1>1. CASE Boot
  BY <1>0, <1>1, ProcAssumption DEF Boot, TypeInv, TypeOK, PCOK, Proc, WorkerPC, ReqPC,
     draftVars, rowVars, queueVars, faultVars, ghostVars
<1>2. CASE Resync
  <2>1. queue' \in [Job -> JobState]
    BY <1>2 DEF Resync, Added, TypeInv, TypeOK, JobState
  <2> QED
    BY <1>0, <1>2, <2>1, StopType DEF Resync, TypeInv, TypeOK, draftVars, rowVars, faultVars, ghostVars
<1> QED
  BY <1>1, <1>2

LEMMA RetryType ==
  ASSUME TypeInv, NEW r \in Req, RetryFirstDraft(r)
  PROVE  TypeInv'
<1>1. retries' \in [Req -> 0..MaxRetries]
  BY BoundAssumption DEF RetryFirstDraft, RetriesLeft, TypeInv, TypeOK
<1>2. crashes' \in 0..MaxCrashes
  BY ThrowsType, ProcAssumption DEF RetryFirstDraft, Proc
<1> QED
  BY <1>1, <1>2, ProcAssumption DEF RetryFirstDraft, TypeInv, TypeOK, PCOK, Proc, ReqPC, WorkerPC, OpName,
     draftVars, rowVars, queueVars, faultVars, ghostVars

LEMMA NextType == TypeInv /\ [Next]_vars => TypeInv'
<1> SUFFICES ASSUME TypeInv, [Next]_vars PROVE TypeInv'
  OBVIOUS
<1>1. CASE Next
  BY <1>1, EnvironmentType, QueueType, SendType, WorkerBootType, LockedType, RetryType, PlanType DEF Next
<1>2. CASE UNCHANGED vars
  BY <1>2 DEF vars, TypeInv, TypeOK, PCOK, draftVars, rowVars, queueVars, procVars, faultVars, ghostVars
<1> QED
  BY <1>1, <1>2

(***************************************************************************)
(* Every variable keeps its type, and a process that works on a draft has  *)
(* one: what SendPipeline writes to the two stores is always a row or a    *)
(* job of the client.                                                      *)
(***************************************************************************)
THEOREM TypeCorrect == Spec => []TypeOK
<1>1. TypeInv => TypeOK
  BY DEF TypeInv
<1> QED
  BY InitType, NextType, <1>1, PTL DEF Spec

-----------------------------------------------------------------------------
(***************************************************************************)
(* The lock.  A process is inside a section of several steps exactly while *)
(* the client's advisory lock is its own.                                  *)
(***************************************************************************)
LockInv == \A p \in Proc : pc[p] \in Holding <=> lock = p

LEMMA InitLock == Init => LockInv
BY ProcAssumption DEF Init, LockInv, Holding

LEMMA LockedLock ==
  ASSUME TypeInv, LockInv, NEW r \in Req, Locked(r)
  PROVE  LockInv'
<1>0. r \in Proc /\ r # Worker /\ \A p \in Proc : p # Free
  BY ProcAssumption DEF Proc
<1>1. ASSUME lock = Free, SetFutureEmail(r) PROVE LockInv'
  BY <1>0, <1>1 DEF SetFutureEmail, LockInv, Holding, TypeInv, TypeOK
<1>2. ASSUME lock = Free, Release(r) PROVE LockInv'
  BY <1>0, <1>2 DEF Release, LockInv, Holding, TypeInv, TypeOK
<1>3. CASE MarkDeleted(r) \/ CancelForDelete(r)
  BY <1>0, <1>3 DEF MarkDeleted, CancelForDelete, Enter, LockInv, Holding, TypeInv, TypeOK
<1>4. CASE RegenerateReviewMessage(r) /\ Running
  BY <1>0, <1>4 DEF RegenerateReviewMessage, Enter, LockInv, Holding, TypeInv, TypeOK
<1> QED
  BY <1>1, <1>2, <1>3, <1>4 DEF Locked, Enter, CancelSend, Replan, ReplanAfterUnpause, DraftFirstEmail,
     RegenerateReviewMessage, ApproveReviewMessage, PauseClient, StopOverdue, ResumeClient, SendNow,
     RetryFailedSend

LEMMA PlanLock ==
  ASSUME TypeInv, LockInv, NEW p \in Proc, Plan(p)
  PROVE  LockInv'
<1>0. \A q \in Proc : q # Free
  BY ProcAssumption
<1>1. CASE StoreDraft(p) \/ EnqueueDraft(p) \/ TrackDraft(p) \/ CompleteGoal(p) \/ DeclineClient(p)
  BY <1>0, <1>1 DEF StoreDraft, EnqueueDraft, TrackDraft, CompleteGoal, DeclineClient, Planning,
     LockInv, Holding, TypeInv, TypeOK
<1>2. ASSUME NEW outcome, pc[p] \in Holding, LeaveLock(p, outcome) PROVE LockInv'
  BY <1>0, <1>2 DEF LeaveLock, Stop, LockInv, Holding, TypeInv, TypeOK
<1> QED
  BY <1>1, <1>2 DEF Plan, PlanFails, Throws, Return, Planning, Holding

LEMMA SendLock ==
  ASSUME TypeInv, LockInv, Send
  PROVE  LockInv'
<1>0. Worker \in Proc /\ \A q \in Proc : q # Free
  BY ProcAssumption DEF Proc
<1>1. ASSUME NEW j \in Job, TakeJob(j) PROVE LockInv'
  BY <1>0, <1>1 DEF TakeJob, LockInv, Holding, TypeInv, TypeOK
<1>2. CASE DropSend \/ HoldForReview
  BY <1>0, <1>2 DEF DropSend, HoldForReview, WorkerEnters, Stop, LockInv, Holding, TypeInv, TypeOK
<1>3. CASE BeginSend
  BY <1>0, <1>3 DEF BeginSend, WorkerEnters, LockInv, Holding, TypeInv, TypeOK
<1>4. CASE ProviderAccepts \/ RecordSent
  BY <1>0, <1>4 DEF ProviderAccepts, RecordSent, LockInv, Holding, TypeInv, TypeOK
<1>5. CASE SendFails
  BY <1>0, <1>5 DEF SendFails, Stop, LockInv, Holding, TypeInv, TypeOK
<1>6. CASE SettleSend
  BY <1>0, <1>6 DEF SettleSend, SetFutureEmail, LockInv, Holding, TypeInv, TypeOK
<1> QED
  BY <1>1, <1>2, <1>3, <1>4, <1>5, <1>6 DEF Send

LEMMA OtherLock ==
  ASSUME TypeInv, LockInv,
         Environment \/ Queue \/ Boot \/ Resync \/ \E r \in Req : RetryFirstDraft(r)
  PROVE  LockInv'
<1>0. /\ Worker \in Proc /\ Worker \notin Req
      /\ \A r \in Req : r \in Proc
      /\ \A q \in Proc : q # Free
  BY ProcAssumption DEF Proc
<1>1. ASSUME NEW r \in Req, NEW o \in OpName, Call(r, o) PROVE LockInv'
  <2>1. /\ pc[r] = "idle" /\ lock' = lock
        /\ \E q \in OpName : pc' = [pc EXCEPT ![r] = q] \/ pc' = [pc EXCEPT ![r] = "idle"]
    BY <1>1 DEF Call
  <2>2. \A q \in OpName : q \notin Holding
    BY DEF OpName, Holding
  <2> QED
    BY <1>0, <2>1, <2>2 DEF LockInv, Holding, TypeInv, TypeOK
<1>2. ASSUME NEW r \in Req, NEW o \in ReviewOps, NEW d \in Draft, CallReview(r, o, d) PROVE LockInv'
  BY <1>0, <1>2 DEF CallReview, ReviewOps, LockInv, Holding, TypeInv, TypeOK
<1>3. CASE \/ WipeRedis \/ Queue \/ \E o \in FlipOps : Flip(o)
  BY <1>3 DEF WipeRedis, Queue, JobDue, RecoverStalled, PlannedTimePasses, Flip, procVars, LockInv
<1>4. CASE WorkerDies \/ \E r \in Req : RequestDies(r)
  BY <1>0, <1>4 DEF WorkerDies, RequestDies, Stop, Unlocked, LockInv, Holding, TypeInv, TypeOK
<1>5. CASE Boot \/ Resync
  BY <1>0, <1>5 DEF Boot, Resync, Stop, LockInv, Holding, TypeInv, TypeOK
<1>6. ASSUME NEW r \in Req, RetryFirstDraft(r) PROVE LockInv'
  BY <1>0, <1>6 DEF RetryFirstDraft, Throws, Planning, LockInv, Holding, TypeInv, TypeOK
<1> QED
  BY <1>1, <1>2, <1>3, <1>4, <1>5, <1>6, OpsAssumption DEF Environment

LEMMA NextLock == TypeInv /\ LockInv /\ [Next]_vars => LockInv'
<1> SUFFICES ASSUME TypeInv, LockInv, [Next]_vars PROVE LockInv'
  OBVIOUS
<1>1. CASE Next
  BY <1>1, LockedLock, PlanLock, SendLock, OtherLock DEF Next
<1>2. CASE UNCHANGED vars
  BY <1>2 DEF vars, procVars, LockInv
<1> QED
  BY <1>1, <1>2

-----------------------------------------------------------------------------
(***************************************************************************)
(* A pause that took effect under the lock.  The strengthening says why    *)
(* the provider is quiet: no call to it is open, and the flag that every   *)
(* new call checks is still set.                                           *)
(***************************************************************************)
QuietInv == quiet = TRUE => "paused" \in flags /\ pc[Worker] # "sending"

\* Only the worker's own check before the provider call opens that call.
LEMMA SendingFrame ==
  ASSUME TypeInv, Next, pc'[Worker] = "sending"
  PROVE  pc[Worker] = "sending" \/ BeginSend
<1>0. Worker \in Proc /\ Worker \notin Req /\ \A r \in Req : r \in Proc
  BY ProcAssumption DEF Proc
<1>1. CASE Environment
  BY <1>0, <1>1 DEF Environment, Call, CallReview, Flip, WipeRedis, WorkerDies, RequestDies, Stop,
     procVars, TypeInv, TypeOK
<1>2. CASE Queue \/ Boot \/ Resync
  BY <1>0, <1>2 DEF Queue, JobDue, RecoverStalled, PlannedTimePasses, Boot, Resync, Stop, procVars,
     TypeInv, TypeOK
<1>3. CASE Send
  BY <1>0, <1>3 DEF Send, TakeJob, DropSend, HoldForReview, ProviderAccepts, SendFails, RecordSent,
     SettleSend, SetFutureEmail, Stop, TypeInv, TypeOK
<1>4. ASSUME NEW r \in Req, Locked(r) \/ RetryFirstDraft(r)
      PROVE  pc[Worker] = "sending"
  <2>1. \E state : pc' = [pc EXCEPT ![r] = state]
    BY <1>4 DEF Locked, CancelSend, Replan, ReplanAfterUnpause, DraftFirstEmail,
       RegenerateReviewMessage, ApproveReviewMessage, PauseClient, StopOverdue, ResumeClient, SendNow,
       RetryFailedSend, CancelForDelete, MarkDeleted, RetryFirstDraft, SetFutureEmail, Release
  <2> QED
    BY <1>0, <2>1 DEF TypeInv, TypeOK
<1>5. ASSUME NEW p \in Proc, Plan(p)
      PROVE  pc[Worker] = "sending"
  <2>1. \E state \in {"stored", "enqueued", "done", "idle"} : pc' = [pc EXCEPT ![p] = state]
    BY <1>5 DEF Plan, StoreDraft, EnqueueDraft, TrackDraft, CompleteGoal, DeclineClient, PlanFails,
       Return, LeaveLock, Stop
  <2> QED
    BY <1>0, <2>1 DEF TypeInv, TypeOK
<1> QED
  BY <1>1, <1>2, <1>3, <1>4, <1>5 DEF Next

\* The steps that lift a pause lift the promise with it; the steps that make
\* the promise have the lock, so no provider call is open.
LEMMA QuietFrame ==
  ASSUME TypeInv, LockInv, Next, quiet' = TRUE
  PROVE  \/ quiet = TRUE /\ ("paused" \in flags => "paused" \in flags')
         \/ "paused" \in flags' /\ pc[Worker] # "sending"
<1>0. Worker \in Proc /\ Worker # Free /\ \A r \in Req : r \in Proc
  BY ProcAssumption DEF Proc
<1>1. CASE Environment
  <2>1. ASSUME NEW r \in Req, NEW o \in Ops, Call(r, o)
        PROVE  quiet = TRUE /\ "paused" \in flags'
    BY <1>1, <2>1 DEF Call, TypeInv, TypeOK
  <2>2. ASSUME NEW o \in FlipOps, Flip(o)
        PROVE  quiet = TRUE /\ ("paused" \in flags => "paused" \in flags')
    BY <2>2 DEF Flip, FlipOps, ghostVars
  <2> QED
    BY <1>1, <2>1, <2>2 DEF Environment, CallReview, WipeRedis, WorkerDies, RequestDies, ghostVars
<1>2. CASE Queue \/ Boot \/ Resync \/ Send
  BY <1>2 DEF Queue, JobDue, RecoverStalled, PlannedTimePasses, Boot, Resync, Send, TakeJob, DropSend,
     HoldForReview, BeginSend, ProviderAccepts, SendFails, RecordSent, SettleSend, ghostVars
<1>3. ASSUME NEW r \in Req, PauseClient(r) \/ StopOverdue(r)
      PROVE  \/ quiet = TRUE /\ flags' = flags
             \/ "paused" \in flags' /\ pc[Worker] # "sending"
  <2>1. pc[Worker] # "sending"
    BY <1>0, <1>3 DEF PauseClient, StopOverdue, Enter, LockInv, Holding
  <2> QED
    BY <1>3, <2>1 DEF PauseClient, StopOverdue
<1>4. ASSUME NEW p \in Proc, DeclineClient(p)
      PROVE  \/ quiet = TRUE /\ flags' = flags
             \/ "paused" \in flags' /\ pc[Worker] # "sending"
  <2>1. pc[Worker] # "sending"
    BY <1>0, <1>4 DEF DeclineClient, Planning, LockInv, Holding
  <2> QED
    BY <1>4, <2>1 DEF DeclineClient
<1>5. ASSUME NEW r \in Req, Locked(r) \/ RetryFirstDraft(r), ~PauseClient(r), ~StopOverdue(r)
      PROVE  quiet = TRUE /\ ("paused" \in flags => "paused" \in flags')
  BY <1>5 DEF Locked, CancelSend, Replan, ReplanAfterUnpause, DraftFirstEmail,
     RegenerateReviewMessage, ApproveReviewMessage, ResumeClient, SendNow,
     RetryFailedSend, CancelForDelete, MarkDeleted, RetryFirstDraft, ghostVars
<1>6. ASSUME NEW p \in Proc, Plan(p), ~DeclineClient(p)
      PROVE  quiet = TRUE /\ ("paused" \in flags => "paused" \in flags')
  BY <1>6 DEF Plan, StoreDraft, EnqueueDraft, TrackDraft, CompleteGoal, PlanFails, Return, LeaveLock, ghostVars
<1> QED
  BY <1>1, <1>2, <1>3, <1>4, <1>5, <1>6 DEF Next

LEMMA NextQuiet == TypeInv /\ LockInv /\ QuietInv /\ [Next]_vars => QuietInv'
<1> SUFFICES ASSUME TypeInv, LockInv, QuietInv, [Next]_vars, quiet' = TRUE
             PROVE  "paused" \in flags' /\ pc'[Worker] # "sending"
  BY DEF QuietInv
<1>1. CASE Next
  <2>1. CASE BeginSend
    BY <1>1, <2>1 DEF BeginSend, Sendable, QuietInv, ghostVars
  <2>2. CASE ~BeginSend
    BY <1>1, <2>2, QuietFrame, SendingFrame DEF QuietInv
  <2> QED BY <2>1, <2>2
<1>2. CASE UNCHANGED vars
  BY <1>2 DEF vars, procVars, ghostVars, QuietInv
<1> QED
  BY <1>1, <1>2

\* Only one step hands a message to the provider.
LEMMA AcceptFrame ==
  ASSUME [Next]_vars, accepted' # accepted
  PROVE  ProviderAccepts
<1>1. Next
  BY DEF vars, ghostVars
<1>2. CASE Environment \/ Queue \/ Boot \/ Resync \/ Send
  BY <1>2 DEF Environment, Call, CallReview, Flip, WipeRedis, WorkerDies, RequestDies,
     Queue, JobDue, RecoverStalled, PlannedTimePasses, Boot, Resync, Send, TakeJob, DropSend,
     HoldForReview, BeginSend, SendFails, RecordSent, SettleSend, ghostVars
<1>3. CASE \E r \in Req : Locked(r) \/ RetryFirstDraft(r)
  BY <1>3 DEF Locked, CancelSend, Replan, ReplanAfterUnpause, DraftFirstEmail,
     RegenerateReviewMessage, ApproveReviewMessage, PauseClient, StopOverdue, ResumeClient, SendNow,
     RetryFailedSend, CancelForDelete, MarkDeleted, RetryFirstDraft, ghostVars
<1>4. CASE \E p \in Proc : Plan(p)
  BY <1>4 DEF Plan, StoreDraft, EnqueueDraft, TrackDraft, CompleteGoal, DeclineClient, PlanFails,
     Return, LeaveLock, ghostVars
<1> QED
  BY <1>1, <1>2, <1>3, <1>4 DEF Next

(***************************************************************************)
(* Once a pause, an overdue stop or a decline has been carried out, the    *)
(* provider is given nothing until it is lifted, whatever crashes, retries *)
(* and late jobs do (setPaused with pauseFutureEmail, and the guard of     *)
(* onScheduledSend).                                                       *)
(***************************************************************************)
THEOREM PauseIsQuiet == Spec => PausedStaysQuiet
<1>1. Init => TypeInv /\ LockInv /\ QuietInv
  BY InitType, InitLock DEF Init, QuietInv
<1>2. TypeInv /\ LockInv /\ QuietInv /\ [Next]_vars => (TypeInv /\ LockInv /\ QuietInv)'
  BY NextType, NextLock, NextQuiet
<1>3. QuietInv /\ [Next]_vars => [QuietStep]_vars
  <2> SUFFICES ASSUME QuietInv, [Next]_vars, quiet = TRUE, accepted' # accepted PROVE FALSE
    BY DEF QuietStep
  <2>1. pc[Worker] = "sending"
    BY AcceptFrame DEF ProviderAccepts
  <2> QED BY <2>1 DEF QuietInv
<1> QED
  BY <1>1, <1>2, <1>3, PTL DEF Spec, PausedStaysQuiet

-----------------------------------------------------------------------------
(* Drafts and their review.                                                *)

\* The steps that write the emails rows.
LEMMA DraftFrame ==
  ASSUME [Next]_vars
  PROVE  \/ UNCHANGED <<status, review>>
         \/ SupersedePendingReview
         \/ \E p \in Proc : StoreDraft(p)
         \/ \E r \in Req : ApproveReviewMessage(r)
         \/ HoldForReview
         \/ RecordSent
<1>1. CASE Environment \/ Queue \/ Boot \/ Resync
  BY <1>1 DEF Environment, Call, CallReview, Flip, WipeRedis, WorkerDies, RequestDies,
     Queue, JobDue, RecoverStalled, PlannedTimePasses, Boot, Resync, draftVars
<1>2. CASE Send
  BY <1>2 DEF Send, TakeJob, DropSend, BeginSend, ProviderAccepts, SendFails, SettleSend,
     RemoveFutureEmail, draftVars
<1>3. CASE \E r \in Req : Locked(r) \/ RetryFirstDraft(r)
  BY <1>3 DEF Locked, CancelSend, Replan, ReplanAfterUnpause, DraftFirstEmail,
     RegenerateReviewMessage, PauseClient, StopOverdue, ResumeClient, SendNow,
     RetryFailedSend, CancelForDelete, MarkDeleted, RetryFirstDraft, RemoveFutureEmail, draftVars
<1>4. CASE \E p \in Proc : Plan(p)
  BY <1>4 DEF Plan, EnqueueDraft, TrackDraft, CompleteGoal, DeclineClient, PlanFails,
     Return, LeaveLock, RemoveFutureEmail, draftVars
<1>5. CASE UNCHANGED vars
  BY <1>5 DEF vars, draftVars
<1> QED
  BY <1>1, <1>2, <1>3, <1>4, <1>5 DEF Next

(***************************************************************************)
(* A parked draft is always pending, so the review list shows it and       *)
(* approve or a re-plan can bring it back (emails.ts, markHeld,            *)
(* approvePending, supersedePendingReview).                                *)
(***************************************************************************)
THEOREM HeldIsListed == Spec => []HeldAwaitsReview
<1>1. Init => TypeInv /\ HeldAwaitsReview
  BY InitType DEF Init, HeldAwaitsReview
<1>2. TypeInv /\ HeldAwaitsReview /\ [Next]_vars => (TypeInv /\ HeldAwaitsReview)'
  <2> SUFFICES ASSUME TypeInv, HeldAwaitsReview, [Next]_vars PROVE HeldAwaitsReview'
    BY NextType
  <2>1. CASE UNCHANGED <<status, review>>
    BY <2>1 DEF HeldAwaitsReview
  <2>2. CASE SupersedePendingReview
    BY <2>2 DEF SupersedePendingReview, HeldAwaitsReview
  <2>3. ASSUME NEW p \in Proc, StoreDraft(p) PROVE HeldAwaitsReview'
    BY <2>3 DEF StoreDraft, HeldAwaitsReview, TypeInv, TypeOK
  <2>4. ASSUME NEW r \in Req, ApproveReviewMessage(r) PROVE HeldAwaitsReview'
    BY <2>4 DEF ApproveReviewMessage, HeldAwaitsReview, TypeInv, TypeOK
  <2>5. CASE HoldForReview \/ RecordSent
    BY <2>5 DEF HoldForReview, RecordSent, HeldAwaitsReview, TypeInv, TypeOK
  <2> QED
    BY <2>1, <2>2, <2>3, <2>4, <2>5, DraftFrame
<1> QED
  BY <1>1, <1>2, PTL DEF Spec

(***************************************************************************)
(* As long as nobody switches the review mode off: outside of it nothing   *)
(* was ever flagged; what the provider has been given or is being given is *)
(* free of review or approved.                                             *)
(***************************************************************************)
InFlight == pc[Worker] \in {"sending", "accepted"}

ReviewInv ==
  /\ "reviewMode" \notin flags => \A d \in Draft : review[d] = "none"
  /\ InFlight => /\ status[arg[Worker]] = "draft"
                 /\ review[arg[Worker]] \in {"none", "approved"}
  /\ \A d \in Draft : status[d] = "sent" => review[d] \in {"none", "approved"}

LEMMA ReviewModeKept ==
  ASSUME "review_off" \notin Ops, [Next]_vars, "reviewMode" \in flags
  PROVE  "reviewMode" \in flags'
<1>1. CASE Environment
  <2>1. ASSUME NEW r \in Req, NEW o \in Ops, Call(r, o) PROVE "reviewMode" \in flags'
    BY <2>1 DEF Call, FlagsAtCall
  <2>2. ASSUME NEW o \in Ops \cap FlipOps, Flip(o) PROVE "reviewMode" \in flags'
    BY <2>2 DEF Flip, FlipOps
  <2> QED
    BY <1>1, <2>1, <2>2 DEF Environment, CallReview, WipeRedis, WorkerDies, RequestDies
<1>2. CASE Queue \/ Boot \/ Resync \/ Send
  BY <1>2 DEF Queue, JobDue, RecoverStalled, PlannedTimePasses, Boot, Resync, Send, TakeJob, DropSend,
     HoldForReview, BeginSend, ProviderAccepts, SendFails, RecordSent, SettleSend
<1>3. CASE \E r \in Req : Locked(r) \/ RetryFirstDraft(r)
  BY <1>3 DEF Locked, CancelSend, Replan, ReplanAfterUnpause, DraftFirstEmail,
     RegenerateReviewMessage, ApproveReviewMessage, PauseClient, StopOverdue, ResumeClient, SendNow,
     RetryFailedSend, CancelForDelete, MarkDeleted, RetryFirstDraft
<1>4. CASE \E p \in Proc : Plan(p)
  BY <1>4 DEF Plan, StoreDraft, EnqueueDraft, TrackDraft, CompleteGoal, DeclineClient, PlanFails,
     Return, LeaveLock
<1>5. CASE UNCHANGED vars
  BY <1>5 DEF vars
<1> QED
  BY <1>1, <1>2, <1>3, <1>4, <1>5 DEF Next

\* Who is in flight stays so with the same draft, or has just begun.
LEMMA InFlightFrame ==
  ASSUME TypeInv, [Next]_vars, InFlight'
  PROVE  \/ InFlight /\ arg'[Worker] = arg[Worker]
         \/ BeginSend
<1>0. Worker \in Proc /\ Worker \notin Req /\ \A r \in Req : r \in Proc
  BY ProcAssumption DEF Proc
<1>1. CASE Environment
  BY <1>0, <1>1 DEF Environment, Call, CallReview, Flip, WipeRedis, WorkerDies, RequestDies, Stop,
     procVars, TypeInv, TypeOK, InFlight
<1>2. CASE Queue \/ Boot \/ Resync
  BY <1>0, <1>2 DEF Queue, JobDue, RecoverStalled, PlannedTimePasses, Boot, Resync, Stop, procVars,
     TypeInv, TypeOK, InFlight
<1>3. CASE Send
  BY <1>0, <1>3 DEF Send, TakeJob, DropSend, HoldForReview, ProviderAccepts, SendFails, RecordSent,
     SettleSend, SetFutureEmail, Stop, TypeInv, TypeOK, InFlight
<1>4. ASSUME NEW r \in Req, Locked(r) \/ RetryFirstDraft(r)
      PROVE  InFlight /\ arg'[Worker] = arg[Worker]
  <2>1. /\ \E state : pc' = [pc EXCEPT ![r] = state]
        /\ arg' = arg \/ arg' = [arg EXCEPT ![r] = NoDraft]
    BY <1>4 DEF Locked, CancelSend, Replan, ReplanAfterUnpause, DraftFirstEmail,
       RegenerateReviewMessage, ApproveReviewMessage, PauseClient, StopOverdue, ResumeClient, SendNow,
       RetryFailedSend, CancelForDelete, MarkDeleted, RetryFirstDraft, SetFutureEmail, Release
  <2> QED
    BY <1>0, <2>1 DEF TypeInv, TypeOK, InFlight
<1>5. ASSUME NEW p \in Proc, Plan(p)
      PROVE  InFlight /\ arg'[Worker] = arg[Worker]
  <2>1. /\ \E state \in {"stored", "enqueued", "done", "idle"} : pc' = [pc EXCEPT ![p] = state]
        /\ \E d : arg' = arg \/ arg' = [arg EXCEPT ![p] = d]
    BY <1>5 DEF Plan, StoreDraft, EnqueueDraft, TrackDraft, CompleteGoal, DeclineClient, PlanFails,
       Return, LeaveLock, Stop
  <2> QED
    BY <1>0, <2>1 DEF TypeInv, TypeOK, InFlight
<1>6. CASE UNCHANGED vars
  BY <1>6 DEF vars, procVars, InFlight
<1> QED
  BY <1>1, <1>2, <1>3, <1>4, <1>5, <1>6 DEF Next

\* Nobody else writes the drafts while a message is in flight.
LEMMA InFlightDrafts ==
  ASSUME TypeInv, LockInv, [Next]_vars, InFlight, InFlight'
  PROVE  UNCHANGED <<status, review>>
<1>0. Worker \in Proc /\ Worker # Free /\ Worker \notin Req
  BY ProcAssumption DEF Proc
<1>1. lock = Worker
  BY <1>0 DEF InFlight, LockInv, Holding
<1>2. CASE Environment \/ Queue \/ Boot \/ Resync
  BY <1>2 DEF Environment, Call, CallReview, Flip, WipeRedis, WorkerDies, RequestDies,
     Queue, JobDue, RecoverStalled, PlannedTimePasses, Boot, Resync, draftVars
<1>3. CASE Send
  BY <1>0, <1>3 DEF Send, TakeJob, DropSend, HoldForReview, BeginSend, WorkerEnters, ProviderAccepts,
     SendFails, RecordSent, SettleSend, InFlight, draftVars, TypeInv, TypeOK
<1>4. ASSUME NEW r \in Req, Locked(r) \/ RetryFirstDraft(r)
      PROVE  UNCHANGED <<status, review>>
  BY <1>0, <1>1, <1>4 DEF Locked, Enter, CancelSend, Replan, ReplanAfterUnpause, DraftFirstEmail,
     RegenerateReviewMessage, ApproveReviewMessage, PauseClient, StopOverdue, ResumeClient, SendNow,
     RetryFailedSend, CancelForDelete, MarkDeleted, RetryFirstDraft, draftVars
<1>5. ASSUME NEW p \in Proc, Plan(p)
      PROVE  UNCHANGED <<status, review>>
  <2>1. pc[p] \in {"plan", "stored", "enqueued", "done"}
    BY <1>5 DEF Plan, Planning, StoreDraft, EnqueueDraft, TrackDraft, CompleteGoal, DeclineClient,
       PlanFails, Throws, Return
  <2>2. lock = p
    BY <2>1 DEF LockInv, Holding
  <2> QED
    BY <1>1, <2>1, <2>2 DEF InFlight
<1>6. CASE UNCHANGED vars
  BY <1>6 DEF vars, draftVars
<1> QED
  BY <1>2, <1>3, <1>4, <1>5, <1>6 DEF Next

LEMMA NextReview ==
  ASSUME "review_off" \notin Ops, TypeInv, LockInv, ReviewInv, [Next]_vars
  PROVE  ReviewInv'
<1>1. "reviewMode" \notin flags' => \A d \in Draft : review'[d] = "none"
  <2> SUFFICES ASSUME "reviewMode" \notin flags' PROVE \A d \in Draft : review'[d] = "none"
    OBVIOUS
  <2>1. "reviewMode" \notin flags /\ \A d \in Draft : review[d] = "none"
    BY ReviewModeKept DEF ReviewInv
  <2>2. CASE UNCHANGED <<status, review>> \/ SupersedePendingReview \/ RecordSent
    BY <2>1, <2>2 DEF SupersedePendingReview, RecordSent
  <2>3. ASSUME NEW p \in Proc, StoreDraft(p) PROVE review' = review
    BY <2>1, <2>3 DEF StoreDraft
  <2>4. ASSUME NEW r \in Req, ApproveReviewMessage(r) PROVE review' = review
    <3>1. r \in Proc /\ arg[r] \in Draft
      BY <2>4 DEF ApproveReviewMessage, Enter, Proc, TypeInv, PCOK
    <3> QED BY <2>1, <2>4, <3>1 DEF ApproveReviewMessage
  <2>5. ~HoldForReview
    BY <2>1 DEF HoldForReview, NeedsApproval
  <2> QED
    BY <2>1, <2>2, <2>3, <2>4, <2>5, DraftFrame
<1>2. InFlight' => /\ status'[arg'[Worker]] = "draft"
                   /\ review'[arg'[Worker]] \in {"none", "approved"}
  <2>1. CASE InFlight /\ InFlight' /\ arg'[Worker] = arg[Worker]
    BY <2>1, InFlightDrafts DEF ReviewInv
  <2>2. CASE BeginSend
    <3>1. Worker \in Proc
      BY DEF Proc
    <3>2. arg[Worker] \in Draft
      BY <2>2, <3>1 DEF BeginSend, WorkerEnters, TypeInv, PCOK
    <3> QED
      BY <2>2, <3>2 DEF BeginSend, Sendable, NeedsApproval, ReviewInv, draftVars
  <2> QED
    BY <2>1, <2>2, InFlightFrame
<1>3. \A d \in Draft : status'[d] = "sent" => review'[d] \in {"none", "approved"}
  <2>1. CASE UNCHANGED <<status, review>>
    BY <2>1 DEF ReviewInv
  <2>2. CASE SupersedePendingReview
    BY <2>2 DEF SupersedePendingReview, ReviewInv
  <2>3. ASSUME NEW p \in Proc, StoreDraft(p)
        PROVE  \A d \in Draft : status'[d] = "sent" => review'[d] \in {"none", "approved"}
    BY <2>3 DEF StoreDraft, ReviewInv, TypeInv, TypeOK
  <2>4. ASSUME NEW r \in Req, ApproveReviewMessage(r)
        PROVE  \A d \in Draft : status'[d] = "sent" => review'[d] \in {"none", "approved"}
    BY <2>4 DEF ApproveReviewMessage, ReviewInv, TypeInv, TypeOK
  <2>5. CASE HoldForReview
    BY <2>5 DEF HoldForReview, ReviewInv, TypeInv, TypeOK
  <2>6. CASE RecordSent
    BY <2>6 DEF RecordSent, ReviewInv, InFlight, TypeInv, TypeOK
  <2> QED
    BY <2>1, <2>2, <2>3, <2>4, <2>5, <2>6, DraftFrame
<1> QED
  BY <1>1, <1>2, <1>3 DEF ReviewInv, InFlight

LEMMA ReviewInvariant ==
  ASSUME "review_off" \notin Ops
  PROVE  Spec => [](TypeInv /\ LockInv /\ ReviewInv)
<1>1. Init => TypeInv /\ LockInv /\ ReviewInv
  BY InitType, InitLock, ProcAssumption DEF Init, ReviewInv, InFlight, Proc
<1>2. TypeInv /\ LockInv /\ ReviewInv /\ [Next]_vars => (TypeInv /\ LockInv /\ ReviewInv)'
  BY NextType, NextLock, NextReview
<1> QED
  BY <1>1, <1>2, PTL DEF Spec

(***************************************************************************)
(* Without a switch out of review mode, nothing goes out that waits for    *)
(* the admin or that a re-plan took from the review queue (the review gate *)
(* of onScheduledSend).                                                    *)
(***************************************************************************)
THEOREM OnlyApprovedIsSent ==
  ASSUME "review_off" \notin Ops
  PROVE  Spec => UnapprovedNeverSent
<1>1. TypeInv /\ ReviewInv /\ [Next]_vars => [ApprovedStep]_vars
  <2> SUFFICES ASSUME TypeInv, ReviewInv, [Next]_vars, NEW d \in Draft, accepted'[d] # accepted[d]
               PROVE  review[d] \in {"none", "approved"}
    BY DEF ApprovedStep
  <2>1. ProviderAccepts
    BY AcceptFrame
  <2>2. d = arg[Worker]
    BY <2>1 DEF ProviderAccepts, TypeInv, TypeOK
  <2> QED
    BY <2>1, <2>2 DEF ProviderAccepts, ReviewInv, InFlight
<1> QED
  BY <1>1, ReviewInvariant, PTL DEF Spec, UnapprovedNeverSent

(***************************************************************************)
(* Without a switch out of review mode, a message recorded as sent stays   *)
(* recorded and is never given to the provider again: what every path that *)
(* enqueues a send a second time relies on (onScheduledSend,               *)
(* resyncScheduledJobs, retryFailedSend).                                  *)
(***************************************************************************)
THEOREM SentOnce ==
  ASSUME "review_off" \notin Ops
  PROVE  Spec => SentIsFinal
<1>1. TypeInv /\ ReviewInv /\ [Next]_vars => [SentStays]_vars
  <2> SUFFICES ASSUME TypeInv, ReviewInv, [Next]_vars, NEW d \in Draft, status[d] = "sent"
               PROVE  status'[d] = "sent" /\ accepted'[d] = accepted[d]
    BY DEF SentStays
  <2>1. accepted'[d] = accepted[d]
    <3>1. CASE ProviderAccepts
      BY <3>1 DEF ProviderAccepts, ReviewInv, InFlight, TypeInv, TypeOK
    <3> QED BY <3>1, AcceptFrame
  <2>2. status'[d] = "sent"
    <3>1. CASE UNCHANGED <<status, review>>
      BY <3>1
    <3>2. CASE SupersedePendingReview
      BY <3>2 DEF SupersedePendingReview, ReviewInv
    <3>3. ASSUME NEW p \in Proc, StoreDraft(p) PROVE status'[d] = "sent"
      BY <3>3 DEF StoreDraft, TypeInv, TypeOK
    <3>4. ASSUME NEW r \in Req, ApproveReviewMessage(r) PROVE status'[d] = "sent"
      BY <3>4 DEF ApproveReviewMessage, ReviewInv, TypeInv, TypeOK
    <3>5. CASE HoldForReview
      BY <3>5 DEF HoldForReview, Sendable, TypeInv, TypeOK
    <3>6. CASE RecordSent
      BY <3>6 DEF RecordSent, TypeInv, TypeOK
    <3> QED
      BY <3>1, <3>2, <3>3, <3>4, <3>5, <3>6, DraftFrame
  <2> QED BY <2>1, <2>2
<1> QED
  BY <1>1, ReviewInvariant, PTL DEF Spec, SentIsFinal

-----------------------------------------------------------------------------
(***************************************************************************)
(* One queued send.  The condition says that no plan starts before the     *)
(* pending send was cancelled: draftFirstEmail and the second section of a *)
(* regeneration do not, and an approval queues a job of its own.           *)
(***************************************************************************)
CancelsFirst == Ops \cap {"first_draft", "regenerate", "approve"} = {}

\* Then nobody waits in one of the sections that cancel nothing.
FirstInv ==
  /\ \A r \in Req : pc[r] \notin {"first_draft", "regenerate", "regenerate_plan", "approve"}
  /\ \A r \in Req : retries[r] = 0

\* What is queued is tracked, or about to be by the process that has the lock;
\* whoever plans has nothing tracked; what is active is the worker's.
QueuedIsTracked ==
  \A j \in Job : queue[j] \in Cancelable =>
    j = tracked \/ \E p \in Proc : pc[p] = "enqueued" /\ j = SendJob(arg[p])
PlansAfresh ==
  \A p \in Proc : pc[p] \in {"plan", "stored", "enqueued"} => tracked = NoJob
ActiveIsRun ==
  \A j \in Job : queue[j] = "active" => j = wjob /\ pc[Worker] \notin {"idle", "down", "resync"}
TidyInv == crashes = 0 => QueuedIsTracked /\ PlansAfresh /\ ActiveIsRun

LEMMA NextFirst ==
  ASSUME CancelsFirst, TypeInv, FirstInv, [Next]_vars
  PROVE  FirstInv'
<1> USE DEF FirstInv, TypeInv, TypeOK
<1>0. /\ Worker \in Proc /\ Worker \notin Req
      /\ \A r \in Req : r \in Proc
  BY ProcAssumption DEF Proc
<1>1. CASE Environment
  <2>1. ASSUME NEW r \in Req, NEW o \in Ops \ (FlipOps \cup ReviewOps), Call(r, o) PROVE FirstInv'
    <3>1. o \in OpName /\ o \notin {"first_draft", "regenerate", "regenerate_plan", "approve"}
      BY OpsAssumption DEF CancelsFirst, OpName
    <3> QED BY <1>0, <2>1, <3>1 DEF Call
  <2>2. Ops \cap ReviewOps = {}
    BY DEF CancelsFirst, ReviewOps
  <2>3. CASE WipeRedis \/ \E o \in Ops \cap FlipOps : Flip(o)
    BY <2>3 DEF WipeRedis, Flip, procVars
  <2>4. CASE WorkerDies \/ \E r \in Req : RequestDies(r)
    BY <1>0, <2>4 DEF WorkerDies, RequestDies, Stop
  <2> QED BY <1>1, <2>1, <2>2, <2>3, <2>4 DEF Environment
<1>2. CASE Queue \/ Boot \/ Resync
  BY <1>0, <1>2 DEF Queue, JobDue, RecoverStalled, PlannedTimePasses, Boot, Resync, Stop, procVars
<1>3. CASE Send
  BY <1>0, <1>3 DEF Send, TakeJob, DropSend, HoldForReview, BeginSend, ProviderAccepts, SendFails, RecordSent,
     SettleSend, SetFutureEmail, Stop
<1>4. ASSUME NEW r \in Req, Locked(r) PROVE FirstInv'
  <2>1. ~RegenerateReviewMessage(r) /\ ~DraftFirstEmail(r) /\ ~ApproveReviewMessage(r)
    BY DEF RegenerateReviewMessage, DraftFirstEmail, ApproveReviewMessage, Enter
  <2>2. /\ \E state \in {"plan", "done", "idle", "tail"} : pc' = [pc EXCEPT ![r] = state]
        /\ retries' = retries
    BY <1>4, <2>1 DEF Locked, CancelSend, Replan, ReplanAfterUnpause,
       PauseClient, StopOverdue, ResumeClient, SendNow,
       RetryFailedSend, CancelForDelete, MarkDeleted, SetFutureEmail, Release
  <2> QED BY <1>0, <2>2
<1>5. ASSUME NEW r \in Req PROVE ~RetryFirstDraft(r)
  BY DEF RetryFirstDraft, RetriesLeft
<1>6. ASSUME NEW p \in Proc, Plan(p) PROVE FirstInv'
  <2>1. /\ \E state \in {"stored", "enqueued", "done", "idle"} : pc' = [pc EXCEPT ![p] = state]
        /\ retries' = retries \/ retries' = [r \in Req |-> IF r = p THEN 0 ELSE retries[r]]
    BY <1>6 DEF Plan, StoreDraft, EnqueueDraft, TrackDraft, CompleteGoal, DeclineClient, PlanFails,
       Return, LeaveLock, Stop
  <2> QED BY <1>0, <2>1
<1>7. CASE UNCHANGED vars
  BY <1>7 DEF vars, procVars
<1> QED
  BY <1>1, <1>2, <1>3, <1>4, <1>5, <1>6, <1>7 DEF Next

\* A process in a section of the lock excludes the others.
LEMMA LockFacts ==
  ASSUME TypeInv, LockInv
  PROVE  /\ Worker \in Proc /\ Worker \notin Req /\ \A r \in Req : r \in Proc /\ r # Worker
         /\ lock = Free => \A q \in Proc : pc[q] \notin Holding
         /\ \A p \in Proc : pc[p] \in Holding => \A q \in Proc : pc[q] \in Holding => q = p
BY ProcAssumption DEF Proc, LockInv, TypeInv, TypeOK

\* The pending send is cancelled by a process that has the lock and holds no draft.
LEMMA CancelTidies ==
  ASSUME TypeInv, QueuedIsTracked, ActiveIsRun, RemoveFutureEmail,
         \A p \in Proc : pc[p] # "enqueued",
         wjob' = wjob,
         pc'[Worker] = pc[Worker] \/ pc'[Worker] \notin {"idle", "down", "resync"}
  PROVE  QueuedIsTracked' /\ PlansAfresh' /\ ActiveIsRun'
<1>1. ASSUME NEW j \in Job PROVE queue'[j] \notin Cancelable
  <2>1. queue'[j] = IF tracked # NoJob /\ queue[tracked] \in Cancelable /\ j = tracked
                      THEN "absent" ELSE queue[j]
    BY DEF RemoveFutureEmail, Unqueued, TypeInv, TypeOK
  <2>2. queue[j] \in Cancelable => j = tracked
    BY DEF QueuedIsTracked
  <2> QED BY <2>1, <2>2, ProcAssumption DEF Cancelable
<1>2. ASSUME NEW j \in Job, queue'[j] = "active" PROVE queue[j] = "active"
  BY <1>2 DEF RemoveFutureEmail, Unqueued, TypeInv, TypeOK
<1>3. tracked' = NoJob
  BY DEF RemoveFutureEmail
<1> QED BY <1>1, <1>2, <1>3 DEF QueuedIsTracked, PlansAfresh, ActiveIsRun

LEMMA LockedTidy ==
  ASSUME TypeInv, LockInv, FirstInv, QueuedIsTracked, PlansAfresh, ActiveIsRun,
         NEW r \in Req, Locked(r)
  PROVE  QueuedIsTracked' /\ PlansAfresh' /\ ActiveIsRun'
<1> USE LockFacts
<1>1. ~RegenerateReviewMessage(r) /\ ~DraftFirstEmail(r) /\ ~ApproveReviewMessage(r)
  BY DEF RegenerateReviewMessage, DraftFirstEmail, ApproveReviewMessage, Enter, FirstInv
<1>2. CASE MarkDeleted(r)
  BY <1>2 DEF MarkDeleted, rowVars, queueVars, QueuedIsTracked, PlansAfresh, ActiveIsRun, TypeInv, TypeOK
<1>3. CASE ~MarkDeleted(r)
  <2>1. /\ lock = Free
        /\ \E state \in {"plan", "done", "idle", "tail"} : pc' = [pc EXCEPT ![r] = state]
        /\ wjob' = wjob
    BY <1>1, <1>3 DEF Locked, CancelSend, Replan, ReplanAfterUnpause,
       PauseClient, StopOverdue, ResumeClient, SendNow, Enter,
       RetryFailedSend, CancelForDelete, SetFutureEmail, Release
  <2>2. /\ \A p \in Proc : pc[p] \notin Holding /\ pc[p] # "enqueued"
        /\ pc'[Worker] = pc[Worker]
        /\ \A p \in Proc : p # r => pc'[p] = pc[p]
    BY <2>1 DEF TypeInv, TypeOK, Holding
  <2>3. CASE RemoveFutureEmail
    BY <2>1, <2>2, <2>3, CancelTidies
  <2>4. CASE ~RemoveFutureEmail
    <3>1. /\ pc'[r] = "idle"
          /\ \/ tracked' = tracked
             \/ tracked' = NoJob /\ queue' = queue /\ tracked # NoJob /\ queue[tracked] \notin Cancelable
          /\ \/ queue' = queue
             \/ queue' = Unqueued(tracked)
             \/ \E s \in {"delayed", "waiting"} :
                  \/ queue' = Added(tracked, s)
                  \/ queue' = [queue EXCEPT ![tracked] = s]
      BY <1>1, <1>3, <2>4 DEF Locked, CancelSend, Replan, ReplanAfterUnpause,
       PauseClient, PauseFutureEmail, StopOverdue, ResumeClient, SendNow, SendNowOutcome, Upsert, Cancelable,
       RetryFailedSend, CancelForDelete, SetFutureEmail, Release, TypeInv, TypeOK, rowVars, queueVars
    <3>2. ASSUME NEW j \in Job, queue'[j] \in Cancelable PROVE j = tracked
      BY <2>2, <3>1, <3>2 DEF QueuedIsTracked, Unqueued, Added, Cancelable, TypeInv, TypeOK
    <3>3. ASSUME NEW j \in Job, queue'[j] = "active" PROVE queue[j] = "active"
      BY <3>1, <3>3 DEF Unqueued, Added, TypeInv, TypeOK
    <3>4. \A p \in Proc : pc'[p] \notin {"plan", "stored", "enqueued"}
      BY <2>2, <3>1 DEF Holding
    <3>5. QueuedIsTracked'
      BY <3>1, <3>2 DEF QueuedIsTracked
    <3> QED BY <2>1, <2>2, <3>3, <3>4, <3>5 DEF PlansAfresh, ActiveIsRun
  <2> QED BY <2>3, <2>4
<1> QED BY <1>2, <1>3

\* The job that ends was the only active one.
LEMMA EndedIsIdle ==
  ASSUME TypeInv, ActiveIsRun, NEW outcome \in {"completed", "failed"}, NEW j \in Job
  PROVE  Ended(wjob, outcome)[j] # "active"
<1>1. queue \in [Job -> JobState]
  BY DEF TypeInv, TypeOK
<1>2. CASE queue[j] = "active"
  <2>1. j = wjob /\ j # NoJob
    BY <1>2, ProcAssumption DEF ActiveIsRun
  <2> QED BY <1>1, <1>2, <2>1 DEF Ended
<1>3. CASE queue[j] # "active"
  BY <1>1, <1>3 DEF Ended
<1> QED BY <1>2, <1>3

LEMMA PlanTidy ==
  ASSUME TypeInv, LockInv, QueuedIsTracked, PlansAfresh, ActiveIsRun,
         NEW p \in Proc, Plan(p), crashes' = crashes
  PROVE  QueuedIsTracked' /\ PlansAfresh' /\ ActiveIsRun'
<1> USE LockFacts
<1>1. pc[p] \in {"plan", "stored", "enqueued", "done"}
  BY DEF Plan, Planning, StoreDraft, EnqueueDraft, TrackDraft, CompleteGoal, DeclineClient,
     PlanFails, Throws, Return
<1>2. \A q \in Proc : q # p => pc[q] \notin Holding
  BY <1>1 DEF Holding
<1>3. CASE StoreDraft(p)
  <2>1. /\ pc' = [pc EXCEPT ![p] = "stored"] /\ pc[p] = "plan"
        /\ UNCHANGED <<tracked, queue, wjob>>
    BY <1>3 DEF StoreDraft, Planning, rowVars, queueVars
  <2>2. \A q \in Proc : pc[q] # "enqueued"
    BY <1>2, <2>1 DEF Holding
  <2> QED BY <2>1, <2>2 DEF QueuedIsTracked, PlansAfresh, ActiveIsRun, TypeInv, TypeOK
<1>4. CASE EnqueueDraft(p)
  <2>1. /\ pc[p] = "stored" /\ tracked = NoJob
        /\ \A q \in Proc : pc[q] # "enqueued"
        /\ \A j \in Job : queue[j] \notin Cancelable
    BY <1>2, <1>4, ProcAssumption DEF EnqueueDraft, Holding, PlansAfresh, QueuedIsTracked
  <2>2. CASE p \in hold
    <3>1. /\ pc' = [pc EXCEPT ![p] = "done"]
          /\ UNCHANGED <<queue, wjob>>
      BY <1>4, <2>2 DEF EnqueueDraft
    <3> QED BY <1>2, <2>1, <3>1 DEF QueuedIsTracked, PlansAfresh, ActiveIsRun, Holding, TypeInv, TypeOK
  <2>3. CASE p \notin hold
    <3>1. /\ pc' = [pc EXCEPT ![p] = "enqueued"]
          /\ queue' = Added(SendJob(arg[p]), "delayed")
          /\ UNCHANGED <<tracked, wjob, arg>>
      BY <1>4, <2>3 DEF EnqueueDraft, rowVars
    <3>2. pc'[p] = "enqueued" /\ arg' = arg /\ tracked' = NoJob
      BY <2>1, <3>1 DEF TypeInv, TypeOK
    <3>3. ASSUME NEW j \in Job, queue'[j] # queue[j] PROVE j = SendJob(arg[p]) /\ queue'[j] = "delayed"
      BY <3>1, <3>3 DEF Added, TypeInv, TypeOK
    <3>4. QueuedIsTracked'
      BY <2>1, <3>2, <3>3 DEF QueuedIsTracked
    <3>5. ActiveIsRun'
      BY <3>1, <3>3 DEF ActiveIsRun, TypeInv, TypeOK
    <3> QED BY <3>2, <3>4, <3>5 DEF PlansAfresh
  <2> QED BY <2>2, <2>3
<1>5. CASE TrackDraft(p)
  <2>1. /\ pc[p] = "enqueued" /\ tracked = NoJob
        /\ pc' = [pc EXCEPT ![p] = "done"]
        /\ tracked' = SendJob(arg[p])
        /\ UNCHANGED <<queue, wjob>>
    BY <1>5 DEF TrackDraft, Upsert, PlansAfresh, queueVars
  <2>2. \A j \in Job : queue[j] \in Cancelable => j = SendJob(arg[p])
    BY <1>2, <2>1, ProcAssumption DEF QueuedIsTracked, Holding
  <2> QED BY <1>2, <2>1, <2>2 DEF QueuedIsTracked, PlansAfresh, ActiveIsRun, Holding, TypeInv, TypeOK
<1>6. CASE CompleteGoal(p) \/ (DeclineClient(p) /\ ~RemoveFutureEmail)
  <2>1. /\ pc' = [pc EXCEPT ![p] = "done"] /\ pc[p] = "plan"
        /\ UNCHANGED <<tracked, queue, wjob>>
    BY <1>6 DEF CompleteGoal, DeclineClient, Planning, rowVars, queueVars
  <2>2. \A q \in Proc : pc[q] # "enqueued"
    BY <1>2, <2>1 DEF Holding
  <2> QED BY <2>1, <2>2 DEF QueuedIsTracked, PlansAfresh, ActiveIsRun, TypeInv, TypeOK
<1>7. CASE DeclineClient(p) /\ RemoveFutureEmail
  <2>1. /\ pc' = [pc EXCEPT ![p] = "done"] /\ pc[p] = "plan" /\ wjob' = wjob
    BY <1>7 DEF DeclineClient, Planning
  <2>2. \A q \in Proc : pc[q] # "enqueued"
    BY <1>2, <2>1 DEF Holding
  <2>3. pc'[Worker] = pc[Worker] \/ pc'[Worker] \notin {"idle", "down", "resync"}
    BY <2>1 DEF TypeInv, TypeOK
  <2> QED BY <1>7, <2>1, <2>2, <2>3, CancelTidies
<1>8. ASSUME NEW outcome \in {"completed", "failed"}, LeaveLock(p, outcome), pc[p] # "enqueued"
      PROVE  QueuedIsTracked' /\ PlansAfresh' /\ ActiveIsRun'
  <2>1. /\ pc' = [pc EXCEPT ![p] = "idle"]
        /\ tracked' = tracked
        /\ wjob' = IF p = Worker THEN NoJob ELSE wjob
        /\ queue' = IF p = Worker THEN Ended(wjob, outcome) ELSE queue
    BY <1>8 DEF LeaveLock, Stop, rowVars
  <2>2. /\ \A q \in Proc : pc'[q] \notin {"plan", "stored", "enqueued"}
        /\ \A q \in Proc : pc[q] # "enqueued"
    BY <1>2, <1>8, <2>1 DEF Holding, TypeInv, TypeOK
  <2>3. ASSUME NEW j \in Job, queue'[j] # queue[j] PROVE queue'[j] \notin Cancelable /\ queue'[j] # "active"
    BY <2>1, <2>3 DEF Ended, Cancelable, TypeInv, TypeOK
  <2>4. QueuedIsTracked'
    BY <2>1, <2>2, <2>3 DEF QueuedIsTracked
  <2>5. ActiveIsRun'
    <3>1. CASE p = Worker
      <4>1. \A j \in Job : queue'[j] # "active"
        BY <2>1, <3>1, EndedIsIdle
      <4> QED BY <4>1 DEF ActiveIsRun
    <3>2. CASE p # Worker
      BY <2>1, <3>2 DEF ActiveIsRun, TypeInv, TypeOK
    <3> QED BY <3>1, <3>2
  <2> QED BY <2>2, <2>4, <2>5 DEF PlansAfresh
<1>9. CASE PlanFails(p) \/ Return(p)
  <2>1. crashes \in Nat
    BY DEF TypeInv, TypeOK
  <2>2. pc[p] \in {"plan", "done"}
    BY <1>9, <2>1 DEF PlanFails, Throws, Planning, Return
  <2> QED BY <1>8, <1>9, <2>2 DEF PlanFails, Return
<1> QED
  BY <1>3, <1>4, <1>5, <1>6, <1>7, <1>9 DEF Plan

LEMMA SendTidy ==
  ASSUME TypeInv, LockInv, QueuedIsTracked, PlansAfresh, ActiveIsRun, Send
  PROVE  QueuedIsTracked' /\ PlansAfresh' /\ ActiveIsRun'
<1> USE LockFacts
<1>1. ASSUME NEW j \in Job, TakeJob(j) PROVE QueuedIsTracked' /\ PlansAfresh' /\ ActiveIsRun'
  <2>1. /\ pc' = [pc EXCEPT ![Worker] = "active"] /\ pc[Worker] = "idle"
        /\ queue' = [queue EXCEPT ![j] = "active"]
        /\ arg' = [arg EXCEPT ![Worker] = j.draft]
        /\ tracked' = tracked /\ wjob' = j
    BY <1>1 DEF TakeJob, rowVars
  <2>2. \A k \in Job : queue'[k] = "active" => k = j
    BY <2>1 DEF ActiveIsRun, TypeInv, TypeOK
  <2>3. \A k \in Job : queue'[k] \in Cancelable => queue[k] \in Cancelable
    BY <2>1 DEF Cancelable, TypeInv, TypeOK
  <2>4. \A p \in Proc : p # Worker => pc'[p] = pc[p] /\ arg'[p] = arg[p]
    BY <2>1 DEF TypeInv, TypeOK
  <2>5. pc'[Worker] = "active"
    BY <2>1 DEF TypeInv, TypeOK
  <2>6. QueuedIsTracked'
    <3> SUFFICES ASSUME NEW k \in Job, queue'[k] \in Cancelable, k # tracked
                 PROVE  \E p \in Proc : pc'[p] = "enqueued" /\ k = SendJob(arg'[p])
      BY <2>1 DEF QueuedIsTracked
    <3>1. PICK p \in Proc : pc[p] = "enqueued" /\ k = SendJob(arg[p])
      BY <2>3 DEF QueuedIsTracked
    <3>2. pc'[p] = "enqueued" /\ arg'[p] = arg[p]
      BY <2>1, <2>4, <3>1
    <3> QED BY <3>1, <3>2
  <2> QED BY <2>1, <2>2, <2>4, <2>5, <2>6 DEF PlansAfresh, ActiveIsRun
<1>2. ASSUME lock = Free \/ pc[Worker] \in Holding,
             pc[Worker] \notin {"plan", "stored", "enqueued"},
             NEW outcome \in {"completed", "failed"},
             queue' = Ended(wjob, outcome), Stop(Worker, "idle"), tracked' = tracked
      PROVE  QueuedIsTracked' /\ PlansAfresh' /\ ActiveIsRun'
  <2>1. pc' = [pc EXCEPT ![Worker] = "idle"] /\ wjob' = NoJob
    BY <1>2 DEF Stop
  <2>2. /\ \A q \in Proc : pc'[q] \notin {"plan", "stored", "enqueued"}
        /\ \A q \in Proc : pc[q] # "enqueued"
    BY <1>2, <2>1 DEF Holding, TypeInv, TypeOK
  <2>3. ASSUME NEW j \in Job, queue'[j] \in Cancelable PROVE queue[j] \in Cancelable
    BY <1>2, <2>3 DEF Ended, Cancelable, TypeInv, TypeOK
  <2>4. \A j \in Job : queue'[j] # "active"
    BY <1>2, EndedIsIdle
  <2>5. QueuedIsTracked'
    BY <1>2, <2>2, <2>3 DEF QueuedIsTracked
  <2> QED BY <2>2, <2>4, <2>5 DEF PlansAfresh, ActiveIsRun
<1>3. CASE DropSend \/ HoldForReview
  BY <1>2, <1>3 DEF DropSend, HoldForReview, WorkerEnters, rowVars
<1>4. CASE SendFails
  BY <1>2, <1>4 DEF SendFails, Holding
<1>5. CASE BeginSend \/ ProviderAccepts \/ RecordSent
  <2>1. /\ UNCHANGED <<tracked, queue, arg, wjob>>
        /\ pc[Worker] \in {"active", "sending", "accepted"}
        /\ \E state \in {"sending", "settle", "accepted"} : pc' = [pc EXCEPT ![Worker] = state]
    BY <1>5 DEF BeginSend, WorkerEnters, ProviderAccepts, RecordSent, rowVars, queueVars
  <2> QED BY <2>1 DEF QueuedIsTracked, PlansAfresh, ActiveIsRun, TypeInv, TypeOK
<1>6. CASE SettleSend
  <2>1. RemoveFutureEmail /\ SetFutureEmail(Worker) /\ wjob' = wjob /\ pc[Worker] = "settle"
    BY <1>6 DEF SettleSend
  <2>2. \A p \in Proc : pc[p] # "enqueued"
    BY <2>1 DEF Holding
  <2>3. pc'[Worker] \notin {"idle", "down", "resync"}
    BY <2>1 DEF SetFutureEmail, TypeInv, TypeOK
  <2> QED BY <2>1, <2>2, <2>3, CancelTidies
<1> QED
  BY <1>1, <1>3, <1>4, <1>5, <1>6 DEF Send

LEMMA OtherTidy ==
  ASSUME CancelsFirst, TypeInv, LockInv, QueuedIsTracked, PlansAfresh, ActiveIsRun,
         Environment \/ Queue \/ Boot \/ Resync, crashes' = crashes
  PROVE  QueuedIsTracked' /\ PlansAfresh' /\ ActiveIsRun'
<1> USE LockFacts DEF TypeInv, TypeOK
<1>1. ASSUME NEW r \in Req, NEW o \in Ops \ (FlipOps \cup ReviewOps), Call(r, o)
      PROVE  QueuedIsTracked' /\ PlansAfresh' /\ ActiveIsRun'
  <2>1. /\ UNCHANGED <<tracked, queue, arg, wjob>>
        /\ pc[r] = "idle"
        /\ \E state \in OpName \cup {"idle"} : pc' = [pc EXCEPT ![r] = state]
    BY <1>1, OpsAssumption DEF Call, rowVars, queueVars
  <2>2. \A q \in OpName \cup {"idle"} : q \notin {"plan", "stored", "enqueued"}
    BY DEF OpName
  <2> QED BY <2>1, <2>2 DEF QueuedIsTracked, PlansAfresh, ActiveIsRun
<1>2. Ops \cap ReviewOps = {}
  BY DEF CancelsFirst, ReviewOps
<1>3. CASE \E o \in Ops \cap FlipOps : Flip(o)
  BY <1>3 DEF Flip, rowVars, queueVars, procVars, QueuedIsTracked, PlansAfresh, ActiveIsRun
<1>4. CASE WipeRedis
  BY <1>4 DEF WipeRedis, rowVars, procVars, QueuedIsTracked, PlansAfresh, ActiveIsRun, Cancelable
<1>5. ~WorkerDies /\ \A r \in Req : ~RequestDies(r)
  BY DEF WorkerDies, RequestDies
<1>6. CASE Boot
  BY <1>6 DEF Boot, rowVars, queueVars, QueuedIsTracked, PlansAfresh, ActiveIsRun
<1>7. CASE Resync
  <2>1. /\ pc[Worker] = "resync" /\ tracked' = tracked
        /\ \A q \in Proc : pc[q] \notin Holding
        /\ pc' = [pc EXCEPT ![Worker] = "idle"]
        /\ queue' = queue \/ \E s \in {"delayed", "waiting"} : queue' = Added(tracked, s)
    BY <1>7 DEF Resync, Stop, rowVars
  <2>2. \A q \in Proc : pc'[q] \notin {"plan", "stored", "enqueued"} /\ pc[q] # "enqueued"
    BY <2>1 DEF Holding
  <2>3. \A j \in Job : queue'[j] # "active"
    BY <2>1 DEF Added, ActiveIsRun
  <2>4. QueuedIsTracked'
    BY <2>1, <2>2 DEF QueuedIsTracked, Added, Cancelable
  <2> QED BY <2>2, <2>3, <2>4 DEF PlansAfresh, ActiveIsRun
<1>8. CASE Queue
  <2>1. ASSUME NEW j \in Job PROVE ~RecoverStalled(j)
    BY DEF RecoverStalled, ActiveIsRun
  <2>2. ASSUME NEW j \in Job, JobDue(j) PROVE QueuedIsTracked' /\ PlansAfresh' /\ ActiveIsRun'
    BY <2>2 DEF JobDue, procVars, QueuedIsTracked, PlansAfresh, ActiveIsRun, Cancelable
  <2>3. CASE PlannedTimePasses
    BY <2>3 DEF PlannedTimePasses, queueVars, procVars, QueuedIsTracked, PlansAfresh, ActiveIsRun
  <2> QED BY <1>8, <2>1, <2>2, <2>3 DEF Queue
<1> QED
  BY <1>1, <1>2, <1>3, <1>4, <1>5, <1>6, <1>7, <1>8 DEF Environment

\* Deaths and failed writes are counted, and the count does not go back.
LEMMA CrashFrame ==
  ASSUME TypeInv, [Next]_vars
  PROVE  crashes' = crashes \/ crashes' = crashes + 1
<1>1. CASE Environment \/ Queue \/ Boot \/ Resync \/ Send
  BY <1>1 DEF Environment, Call, CallReview, Flip, WipeRedis, WorkerDies, RequestDies,
     Queue, JobDue, RecoverStalled, PlannedTimePasses, Boot, Resync, Send, TakeJob, DropSend,
     HoldForReview, BeginSend, ProviderAccepts, SendFails, RecordSent, SettleSend, faultVars
<1>2. CASE \E r \in Req : Locked(r) \/ RetryFirstDraft(r)
  BY <1>2 DEF Locked, CancelSend, Replan, ReplanAfterUnpause, DraftFirstEmail,
     RegenerateReviewMessage, ApproveReviewMessage, PauseClient, StopOverdue, ResumeClient, SendNow,
     RetryFailedSend, CancelForDelete, MarkDeleted, RetryFirstDraft, Throws, faultVars
<1>3. CASE \E p \in Proc : Plan(p)
  BY <1>3 DEF Plan, StoreDraft, EnqueueDraft, TrackDraft, CompleteGoal, DeclineClient, PlanFails, Throws,
     Return, LeaveLock, faultVars
<1>4. CASE UNCHANGED vars
  BY <1>4 DEF vars, faultVars
<1> QED
  BY <1>1, <1>2, <1>3, <1>4 DEF Next

LEMMA NextTidy ==
  ASSUME CancelsFirst, TypeInv, LockInv, FirstInv, TidyInv, [Next]_vars
  PROVE  TidyInv'
<1> SUFFICES ASSUME crashes' = 0 PROVE QueuedIsTracked' /\ PlansAfresh' /\ ActiveIsRun'
  BY DEF TidyInv
<1>1. crashes = 0 /\ crashes' = crashes
  BY CrashFrame DEF TypeInv, TypeOK
<1>2. QueuedIsTracked /\ PlansAfresh /\ ActiveIsRun
  BY <1>1 DEF TidyInv
<1>3. ASSUME NEW r \in Req PROVE ~RetryFirstDraft(r)
  BY DEF RetryFirstDraft, RetriesLeft, FirstInv
<1>4. CASE UNCHANGED vars
  BY <1>2, <1>4 DEF vars, procVars, rowVars, queueVars, QueuedIsTracked, PlansAfresh, ActiveIsRun
<1>5. CASE Next
  BY <1>1, <1>2, <1>3, <1>5, LockedTidy, PlanTidy, SendTidy, OtherTidy DEF Next
<1> QED BY <1>4, <1>5

(***************************************************************************)
(* README: "There is never more than one pending job per client".  Without *)
(* deaths and failed writes at most one send is queued, under any          *)
(* interleaving of the operations that cancel before they plan, losses of  *)
(* Redis included (removeFutureEmail, setFutureEmail,                      *)
(* scheduleDraftMessage, resumeClient, sendFutureEmailNow).                *)
(***************************************************************************)
THEOREM OneQueuedHolds ==
  ASSUME CancelsFirst
  PROVE  Spec => []OneQueuedUnlessCrashed
<1> DEFINE Inv == TypeInv /\ LockInv /\ FirstInv /\ TidyInv
<1>1. Init => Inv
  <2> SUFFICES ASSUME Init PROVE FirstInv /\ TidyInv
    BY InitType, InitLock
  <2>1. \A r \in Req : r \in Proc
    BY DEF Proc
  <2> QED BY <2>1 DEF Init, FirstInv, TidyInv, QueuedIsTracked, PlansAfresh, ActiveIsRun, Cancelable
<1>2. Inv /\ [Next]_vars => Inv'
  BY NextType, NextLock, NextFirst, NextTidy
<1>3. Inv => OneQueuedUnlessCrashed
  <2> SUFFICES ASSUME Inv, crashes = 0, NEW i \in Job, NEW j \in Job,
                      queue[i] \in Cancelable, queue[j] \in Cancelable
               PROVE  i = j
    BY DEF OneQueuedUnlessCrashed, AtMostOneQueuedSend
  <2>1. QueuedIsTracked /\ PlansAfresh
    BY DEF TidyInv
  <2>2. \A p, q \in Proc : pc[p] = "enqueued" /\ pc[q] = "enqueued" => p = q
    BY LockFacts DEF Holding
  <2> QED BY <2>1, <2>2, ProcAssumption DEF QueuedIsTracked, PlansAfresh
<1> QED
  BY <1>1, <1>2, <1>3, PTL DEF Spec
=============================================================================
