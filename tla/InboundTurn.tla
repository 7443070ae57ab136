----------------------------- MODULE InboundTurn -----------------------------
(***************************************************************************)
(* One turn of one client, from the webhooks to the deferred re-plan.      *)
(* WhatsApp delivers the text and every file of a turn as webhooks of      *)
(* their own, whose handlers run side by side; each one stores its         *)
(* message, cancels the outdated send, ingests the files and then asks for *)
(* ONE deferred planner run (job replan-<clientId>).  The run waits until  *)
(* nothing is in flight and the client has been quiet; what arrives while  *)
(* it plans leaves a dirty flag.  Handlers, the replan worker, BullMQ and  *)
(* three Redis keys interleave at every call to Redis, BullMQ or Postgres. *)
(*                                                                         *)
(* A message slot is not one message: a later message of the client may    *)
(* take the same slot, so a client may go on writing forever.  The planner *)
(* itself is the one of SendPipeline, reduced to what it reads and whether *)
(* it returns.                                                             *)
(***************************************************************************)
EXTENDS Integers, FiniteSets

CONSTANTS
  Msg,         \* slots for inbound messages
  Handler,     \* slots for webhook handlers that run at the same time
  Worker,      \* the replan worker
  Free,        \* the client's advisory lock is free
  NoMsg,
  MaxAged,     \* bound: handlers at a time that run for longer than the maximum wait
  Events       \* bound: which of the client's stop, the kill switch and deaths of
               \* the worker may happen (each any number of times)

ASSUME TurnAssumption ==
  /\ IsFiniteSet(Handler)
  /\ Worker \notin Handler
  /\ Free \notin Handler \cup {Worker}
  /\ NoMsg \notin Msg
  /\ MaxAged \in Nat
  /\ Events \subseteq {"stop", "kill", "death"}

VARIABLES
  msg,        \* what is stored of each message: nothing, the text, the text and its files
  planned,    \* what of it the last finished planner run had read
  seen,       \* what the planner run under way has read
  dropped,    \* ghost: messages whose re-plan the code gave up on
  hpc,        \* what each handler does next
  work,       \* the message it handles
  fresh,      \* handlers that inserted their message (no duplicate delivery)
  old,        \* handlers that run for longer than the maximum wait
  carry,      \* handlers whose request carries on a turn that is late
  inflight,   \* Redis: handlers counted as running; the readers take what is below zero for zero
  dirty,      \* Redis: the dirty flag
  quiet,      \* the quiet window since the last inbound has passed
  job,        \* BullMQ: the client's replan job
  late,       \* its turn started longer ago than the maximum wait
  stalled,    \* BullMQ already recovered it once from a dead worker
  wpc,        \* what the replan worker does next
  lock,       \* holder of the client's advisory lock
  drafting,   \* clients.drafting_since ("since") or draft_failed_at ("failed")
  running,    \* the client is neither paused nor complete
  killed      \* the platform kill switch

msgVars  == <<msg, planned, seen, dropped>>
handVars == <<hpc, work, fresh, old, carry>>
keyVars  == <<inflight, dirty, quiet>>
jobVars  == <<job, late, stalled>>
flagVars == <<drafting, running, killed>>
vars == <<msgVars, handVars, keyVars, jobVars, wpc, lock, flagVars>>

Content == {"none", "text", "full"}
HandlerPC == {"idle", "received", "cancel", "drafting", "ingest", "hook",
              "getjob", "getstate", "remove", "add", "setdirty", "finish", "reset"}
TurnPC == {"down", "idle", "fired", "back", "clear", "lock", "planning", "failing",
           "stamp", "take", "again", "finish"}

TypeOK ==
  /\ msg \in [Msg -> Content]
  /\ planned \in [Msg -> Content]
  /\ seen \in [Msg -> Content]
  /\ dropped \in SUBSET Msg
  /\ hpc \in [Handler -> HandlerPC]
  /\ work \in [Handler -> Msg \cup {NoMsg}]
  /\ fresh \in SUBSET Handler
  /\ old \in SUBSET Handler
  /\ carry \in SUBSET Handler
  /\ inflight \in (-Cardinality(Handler))..Cardinality(Handler)
  /\ dirty \in BOOLEAN
  /\ quiet \in BOOLEAN
  /\ job \in {"absent", "delayed", "active"}
  /\ late \in BOOLEAN
  /\ stalled \in BOOLEAN
  /\ wpc \in TurnPC
  /\ lock \in {Free, Worker}
  /\ drafting \in {"none", "since", "failed"}
  /\ running \in BOOLEAN
  /\ killed \in BOOLEAN

Init ==
  /\ msg = [m \in Msg |-> "none"]
  /\ planned = msg
  /\ seen = msg
  /\ dropped = {}
  /\ hpc = [h \in Handler |-> "idle"]
  /\ work = [h \in Handler |-> NoMsg]
  /\ fresh = {} /\ old = {} /\ carry = {}
  /\ inflight = 0
  /\ dirty = FALSE
  /\ quiet = TRUE
  /\ job = "absent"
  /\ late = FALSE
  /\ stalled = FALSE
  /\ wpc = "idle"
  /\ lock = Free
  /\ drafting = "none"
  /\ running = TRUE
  /\ killed = FALSE

Unplanned == {m \in Msg : msg[m] # planned[m]}

NothingSeen == [m \in Msg |-> "none"]

-----------------------------------------------------------------------------
(* A webhook handler (withInboundInFlight around handleClientMessage).     *)

Goto(h, next) == hpc' = [hpc EXCEPT ![h] = next]

\* markInboundStarted; the kill switch makes the route ignore the message.
Receive(h, m) ==
  /\ hpc[h] = "idle"
  /\ ~killed
  /\ work' = [work EXCEPT ![h] = m]
  /\ inflight' = inflight + 1
  /\ quiet' = FALSE
  /\ Goto(h, "received")
  /\ UNCHANGED <<msgVars, fresh, old, carry, dirty, jobVars, wpc, lock, flagVars>>

\* storeInboundMessage: a new row (its slot may have held an earlier message),
\* or a duplicate delivery of a stored one.
StoreMessage(h) ==
  /\ hpc[h] = "received"
  /\ \/ /\ msg[work[h]] = "none" \/ \A g \in Handler \ {h} : work[g] # work[h]
        /\ msg' = [msg EXCEPT ![work[h]] = "text"]
        /\ planned' = [planned EXCEPT ![work[h]] = "none"]
        /\ seen' = [seen EXCEPT ![work[h]] = "none"]
        /\ dropped' = dropped \ {work[h]}
        /\ fresh' = fresh \cup {h}
        /\ Goto(h, "cancel")
     \/ /\ msg[work[h]] # "none"
        /\ Goto(h, "ingest")
        /\ UNCHANGED <<msgVars, fresh>>
  /\ UNCHANGED <<work, old, carry, keyVars, jobVars, wpc, lock, flagVars>>

\* cancelPendingSendAndShowDrafting, its lock section (Replan of SendPipeline
\* knows what is cancelled) ...
CancelPendingSend(h) ==
  /\ hpc[h] = "cancel"
  /\ lock = Free
  /\ Goto(h, "drafting")
  /\ UNCHANGED <<msgVars, work, fresh, old, carry, keyVars, jobVars, wpc, lock, flagVars>>

\* ... and the stamp, outside of the lock, if the client ran when the webhook
\* came in (it may have stopped since).
ShowDrafting(h) ==
  /\ hpc[h] = "drafting"
  /\ drafting' \in IF running THEN {"since"} ELSE {"since", drafting}
  /\ Goto(h, "ingest")
  /\ UNCHANGED <<msgVars, work, fresh, old, carry, keyVars, jobVars, wpc, lock, running, killed>>

\* ingestMessageMedia: the message had files (a backfill after a duplicate
\* delivery counts as well), or none that are new.
IngestMedia(h) ==
  /\ hpc[h] = "ingest"
  /\ \/ /\ msg[work[h]] = "text"
        /\ msg' = [msg EXCEPT ![work[h]] = "full"]
        /\ dropped' = dropped \ {work[h]}
        /\ Goto(h, "hook")
        /\ UNCHANGED <<planned, seen>>
     \/ /\ Goto(h, IF h \in fresh THEN "hook" ELSE "finish")
        /\ UNCHANGED msgVars
  /\ fresh' = fresh \ {h}
  /\ UNCHANGED <<work, old, carry, keyVars, jobVars, wpc, lock, flagVars>>

\* onInboundMessage: the screening, then the request; or the decline button,
\* which pauses the client under the lock and clears the stamp (a client who has
\* declined before is left as it is).
ScreenMessage(h) ==
  /\ hpc[h] = "hook"
  /\ \/ /\ Goto(h, "getjob")
        /\ UNCHANGED <<running, drafting>>
     \/ /\ "stop" \in Events
        /\ lock = Free
        /\ running' = FALSE
        /\ drafting' \in IF running THEN {"none"} ELSE {"none", drafting}
        /\ Goto(h, "finish")
  /\ UNCHANGED <<msgVars, work, fresh, old, carry, keyVars, jobVars, wpc, lock, killed>>

\* The screening, or a database call before it, throws: nobody asks for a re-plan.
HookThrows(h) ==
  /\ hpc[h] = "hook"
  /\ dropped' = dropped \cup {work[h]}
  /\ Goto(h, "finish")
  /\ UNCHANGED <<msg, planned, seen, work, fresh, old, carry, keyVars, jobVars, wpc, lock, flagVars>>

-----------------------------------------------------------------------------
(* requestReplan, one BullMQ or Redis call at a time.                      *)

GetJob(h) ==
  /\ hpc[h] = "getjob"
  /\ Goto(h, IF job = "absent" THEN "add" ELSE "getstate")
  /\ carry' = IF job # "absent" /\ late THEN carry \cup {h} ELSE carry \ {h}
  /\ UNCHANGED <<msgVars, work, fresh, old, keyVars, jobVars, wpc, lock, flagVars>>

\* The turn's start is kept only while the job has not started.
GetState(h) ==
  /\ hpc[h] = "getstate"
  /\ Goto(h, IF job = "active" THEN "setdirty" ELSE "remove")
  /\ carry' = IF job = "delayed" THEN carry ELSE carry \ {h}
  /\ UNCHANGED <<msgVars, work, fresh, old, keyVars, jobVars, wpc, lock, flagVars>>

\* BullMQ refuses to remove a job that a worker has locked.
RemoveJob(h) ==
  /\ hpc[h] = "remove"
  /\ IF job = "active" THEN UNCHANGED <<job, stalled>> ELSE job' = "absent" /\ stalled' = FALSE
  /\ carry' = IF job = "active" THEN carry \ {h} ELSE carry
  /\ Goto(h, IF job = "active" THEN "setdirty" ELSE "add")
  /\ UNCHANGED <<msgVars, work, fresh, old, keyVars, late, wpc, lock, flagVars>>

SetDirty(h) ==
  /\ hpc[h] = "setdirty"
  /\ dirty' = TRUE
  /\ Goto(h, "finish")
  /\ UNCHANGED <<msgVars, work, fresh, old, carry, inflight, quiet, jobVars, wpc, lock, flagVars>>

\* queue.add does nothing while a job of this id exists.
AddJob(h) ==
  /\ hpc[h] = "add"
  /\ IF job = "absent" THEN job' = "delayed" /\ late' = (h \in carry)
                       ELSE UNCHANGED <<job, late>>
  /\ carry' = carry \ {h}
  /\ Goto(h, "finish")
  /\ UNCHANGED <<msgVars, work, fresh, old, keyVars, stalled, wpc, lock, flagVars>>

\* Mutation: a count that is not positive is left where it is.
FinishKeepsKey(h) ==
  /\ hpc[h] = "finish"
  /\ inflight' = inflight - 1
  /\ Goto(h, "idle")
  /\ work' = [work EXCEPT ![h] = NoMsg]
  /\ old' = old \ {h}
  /\ UNCHANGED <<msgVars, fresh, carry, dirty, quiet, jobVars, wpc, lock, flagVars>>

\* markInboundFinished, its DECR: zero or less (the count expired meanwhile, or
\* another handler dropped it) means that the key is to go ...
Finish(h) ==
  /\ hpc[h] = "finish"
  /\ inflight' = inflight - 1
  /\ work' = [work EXCEPT ![h] = NoMsg]
  /\ IF inflight > 1 THEN Goto(h, "idle") /\ old' = old \ {h}
                     ELSE Goto(h, "reset") /\ UNCHANGED old
  /\ UNCHANGED <<msgVars, fresh, carry, dirty, quiet, jobVars, wpc, lock, flagVars>>

\* ... and its DEL, a call of its own: a handler that was counted in between is
\* erased with the key.
ResetCount(h) ==
  /\ hpc[h] = "reset"
  /\ inflight' = 0
  /\ Goto(h, "idle")
  /\ old' = old \ {h}
  /\ UNCHANGED <<msgVars, work, fresh, carry, dirty, quiet, jobVars, wpc, lock, flagVars>>

-----------------------------------------------------------------------------
(* The replan worker (onReplan).                                           *)

FireJob ==
  /\ wpc = "idle"
  /\ job = "delayed"
  /\ job' = "active"
  /\ wpc' = "fired"
  /\ UNCHANGED <<msgVars, handVars, keyVars, late, stalled, lock, flagVars>>

\* A handler in the ingestion may have files that wait for their analysis;
\* only recent ones count.
PendingFiles == {h \in Handler \ old : hpc[h] = "ingest"}

IsTurnSettled == inflight <= 0 /\ PendingFiles = {} /\ quiet

\* Mutation: the maximum wait is not looked at.
DecideReplanUnforced == IF IsTurnSettled THEN "plan" ELSE "wait"

DecideReplan == IF IsTurnSettled THEN "plan" ELSE IF late THEN "force" ELSE "wait"

Wait ==
  /\ wpc = "fired"
  /\ DecideReplan = "wait"
  /\ drafting' = "since"
  /\ wpc' = "back"
  /\ UNCHANGED <<msgVars, handVars, keyVars, jobVars, lock, running, killed>>

\* job.moveToDelayed.
RunAgain ==
  /\ wpc = "back"
  /\ job' = "delayed"
  /\ wpc' = "idle"
  /\ UNCHANGED <<msgVars, handVars, keyVars, late, stalled, lock, flagVars>>

\* The kill switch drops the run and whatever waited for it.
Proceed ==
  /\ wpc = "fired"
  /\ DecideReplan \in {"plan", "force"}
  /\ \/ /\ killed
        /\ drafting' = "none"
        /\ dropped' = dropped \cup Unplanned
        /\ wpc' = "finish"
     \/ /\ ~killed
        /\ wpc' = "clear"
        /\ UNCHANGED <<drafting, dropped>>
  /\ UNCHANGED <<msg, planned, seen, handVars, keyVars, jobVars, lock, running, killed>>

ClearDirty ==
  /\ wpc = "clear"
  /\ dirty' = FALSE
  /\ wpc' = "lock"
  /\ UNCHANGED <<msgVars, handVars, inflight, quiet, jobVars, lock, flagVars>>

\* removeFutureEmail, then setFutureEmail up to the planner's reads.
BeginPlan ==
  /\ wpc = "lock"
  /\ lock = Free
  /\ \/ /\ running
        /\ lock' = Worker
        /\ drafting' = "since"
        /\ seen' = msg
        /\ wpc' = "planning"
     \/ /\ ~running
        /\ wpc' = "stamp"
        /\ UNCHANGED <<lock, drafting, seen>>
  /\ UNCHANGED <<msg, planned, dropped, handVars, keyVars, jobVars, running, killed>>

\* The planner returns; it may have completed the goal or paused the client.
PlanReturns ==
  /\ wpc = "planning"
  /\ planned' = seen
  /\ seen' = NothingSeen
  /\ running' \in IF "stop" \in Events THEN {running, FALSE} ELSE {running}
  /\ drafting' = "none"
  /\ lock' = Free
  /\ wpc' = "stamp"
  /\ UNCHANGED <<msg, dropped, handVars, keyVars, jobVars, killed>>

\* The stamp draft_failed_at tells the accountant that what was read has no draft.
PlanThrows ==
  /\ wpc = "planning"
  /\ drafting' = "failed"
  /\ dropped' = dropped \cup {m \in Unplanned : seen[m] = msg[m]}
  /\ seen' = NothingSeen
  /\ lock' = Free
  /\ wpc' = "failing"
  /\ UNCHANGED <<msg, planned, handVars, keyVars, jobVars, running, killed>>

\* Mutation: the dirty flag is cleared after the plan, with the stamp.
ClearStampAndDirty ==
  /\ wpc = "stamp"
  /\ drafting' = "none"
  /\ dirty' = FALSE
  /\ wpc' = "take"
  /\ UNCHANGED <<msgVars, handVars, inflight, quiet, jobVars, lock, running, killed>>

\* clearDraftingState, after the lock.
ClearStamp ==
  /\ wpc = "stamp"
  /\ drafting' = "none"
  /\ wpc' = "take"
  /\ UNCHANGED <<msgVars, handVars, keyVars, jobVars, lock, running, killed>>

\* Mutation: the flag is taken and the run ends all the same.
TakeDirtyInVain ==
  /\ wpc = "take"
  /\ dirty' = FALSE
  /\ wpc' = "finish"
  /\ UNCHANGED <<msgVars, handVars, inflight, quiet, jobVars, lock, flagVars>>

TakeDirty ==
  /\ wpc = "take"
  /\ dirty' = FALSE
  /\ wpc' = IF dirty THEN "again" ELSE "finish"
  /\ UNCHANGED <<msgVars, handVars, inflight, quiet, jobVars, lock, flagVars>>

\* A new turn, planned by the same job.
PlanAgain ==
  /\ wpc = "again"
  /\ late' = FALSE
  /\ drafting' = "since"
  /\ job' = "delayed"
  /\ wpc' = "idle"
  /\ UNCHANGED <<msgVars, handVars, keyVars, stalled, lock, running, killed>>

\* The processor returned or threw; BullMQ removes the job (removeOnComplete,
\* removeOnFail).
JobEnds ==
  /\ wpc \in {"finish", "failing"}
  /\ job' = "absent"
  /\ late' = FALSE
  /\ stalled' = FALSE
  /\ wpc' = "idle"
  /\ UNCHANGED <<msgVars, handVars, keyVars, lock, flagVars>>

-----------------------------------------------------------------------------
(* Time, the kill switch, the accountant's pause, and the worker's death.  *)

QuietWindowPasses ==
  /\ ~quiet
  /\ quiet' = TRUE
  /\ UNCHANGED <<msgVars, handVars, inflight, dirty, jobVars, wpc, lock, flagVars>>

MaxWaitPasses ==
  /\ job # "absent"
  /\ ~late
  /\ late' = TRUE
  /\ UNCHANGED <<msgVars, handVars, keyVars, job, stalled, wpc, lock, flagVars>>

HandlerAges(h) ==
  /\ hpc[h] \in {"ingest", "hook"}
  /\ h \notin old
  /\ Cardinality(old) < MaxAged
  /\ old' = old \cup {h}
  /\ UNCHANGED <<msgVars, hpc, work, fresh, carry, keyVars, jobVars, wpc, lock, flagVars>>

\* The key's time to live is renewed by every handler that starts.
InflightExpires ==
  /\ inflight # 0
  /\ \A h \in Handler : hpc[h] # "idle" => h \in old
  /\ inflight' = 0
  /\ UNCHANGED <<msgVars, handVars, dirty, quiet, jobVars, wpc, lock, flagVars>>

ThrowKillSwitch ==
  /\ "kill" \in Events
  /\ killed' = ~killed
  /\ UNCHANGED <<msgVars, handVars, keyVars, jobVars, wpc, lock, drafting, running>>

WorkerDies ==
  /\ wpc # "down"
  /\ "death" \in Events
  /\ wpc' = "down"
  /\ lock' = Free
  /\ seen' = NothingSeen
  /\ UNCHANGED <<msg, planned, dropped, handVars, keyVars, jobVars, flagVars>>

\* recoverLostReplans asks again for a turn that shows as being drafted and has
\* nothing scheduled (a plan may have scheduled something: either is possible).
WorkerBoots ==
  /\ wpc = "down"
  /\ wpc' = "idle"
  /\ \/ job = "absent" /\ drafting = "since" /\ running /\ job' = "delayed" /\ late' = FALSE
     \/ UNCHANGED <<job, late>>
  /\ UNCHANGED <<msgVars, handVars, keyVars, stalled, lock, flagVars>>

\* BullMQ finds an active job nobody works on, after the boot's recovery has
\* passed over the job that still exists.  It queues it again once
\* (maxStalledCount) ...
RecoverStalled ==
  /\ wpc = "idle"
  /\ job = "active"
  /\ ~stalled
  /\ job' = "delayed"
  /\ stalled' = TRUE
  /\ UNCHANGED <<msgVars, handVars, keyVars, late, wpc, lock, flagVars>>

\* ... and fails it the second time; a failed job is removed, and no step of the
\* code asks for its turn again before the next boot of the worker.
DropStalled ==
  /\ wpc = "idle"
  /\ job = "active"
  /\ stalled
  /\ job' = "absent"
  /\ late' = FALSE
  /\ stalled' = FALSE
  /\ dropped' = dropped \cup Unplanned
  /\ UNCHANGED <<msg, planned, seen, handVars, keyVars, wpc, lock, flagVars>>

-----------------------------------------------------------------------------
Request(h) == GetJob(h) \/ GetState(h) \/ RemoveJob(h) \/ SetDirty(h) \/ AddJob(h)

Handle(h) ==
  \/ StoreMessage(h) \/ CancelPendingSend(h) \/ ShowDrafting(h)
  \/ Request(h) \/ Finish(h) \/ ResetCount(h)

\* The steps that wait for a provider or an LLM.
Slow(h) == IngestMedia(h) \/ ScreenMessage(h) \/ HookThrows(h)

Replan ==
  \/ Wait \/ RunAgain \/ Proceed \/ ClearDirty \/ BeginPlan
  \/ PlanReturns \/ PlanThrows \/ ClearStamp \/ TakeDirty \/ PlanAgain \/ JobEnds

Next ==
  \/ \E h \in Handler, m \in Msg : Receive(h, m)
  \/ \E h \in Handler : Handle(h) \/ Slow(h) \/ HandlerAges(h)
  \/ FireJob \/ Replan
  \/ QuietWindowPasses \/ MaxWaitPasses \/ InflightExpires
  \/ ThrowKillSwitch \/ WorkerDies \/ WorkerBoots \/ RecoverStalled \/ DropStalled

Spec == Init /\ [][Next]_vars

(***************************************************************************)
(* Redis, Postgres and BullMQ answer, due jobs are delivered and the       *)
(* maximum wait ends, the planner's LLM call returns or times out.  A      *)
(* handler may hang in a download, an analysis or a screening for ever,    *)
(* and a client may write so often that the quiet window never passes.     *)
(***************************************************************************)
Fairness ==
  /\ \A h \in Handler : WF_vars(Handle(h)) /\ SF_vars(CancelPendingSend(h))
  /\ WF_vars(FireJob) /\ WF_vars(Replan) /\ SF_vars(BeginPlan)
  /\ WF_vars(WorkerBoots) /\ WF_vars(RecoverStalled) /\ WF_vars(DropStalled)
  /\ WF_vars(MaxWaitPasses)

FairSpec == Spec /\ Fairness

-----------------------------------------------------------------------------
(* Properties.                                                             *)

(***************************************************************************)
(* The in-flight count is never above the handlers that have yet to finish *)
(* (a turn would wait for nobody), and below zero only while a handler     *)
(* that saw it there is about to drop the key: inboundTurnCore.ts:44, "the *)
(* next handler starts from a clean count".  It may be too low: a key that *)
(* expired, or was dropped after another handler had been counted.         *)
(***************************************************************************)
Counted == {h \in Handler : hpc[h] \notin {"idle", "reset"}}
Resetting == {h \in Handler : hpc[h] = "reset"}

CountIsClean == inflight \in (-Cardinality(Resetting))..Cardinality(Counted)

(***************************************************************************)
(* Whatever of a message the planner has not read is on its way to it: the *)
(* handler has yet to ask, a request is between remove and add, the job is *)
(* due or has not begun to plan, the run under way has read it, or the     *)
(* dirty flag is set (one set after the run's last look stays unread).     *)
(* The exceptions are the ones the code decides: the client stopped        *)
(* running, the handler threw, the kill switch, a plan that threw and left *)
(* its failure stamp, and a job that stalled twice, which BullMQ drops.    *)
(* One death of the worker in the life of a job is no exception.           *)
(***************************************************************************)
OnItsWay(m) ==
  \/ \E h \in Handler : work[h] = m /\ hpc[h] # "finish"
  \/ \E h \in Handler : hpc[h] = "add"
  \/ job = "delayed"
  \/ job = "active" /\ wpc \in {"down", "idle", "fired", "back", "clear", "lock", "again"}
  \/ wpc = "planning" /\ seen[m] = msg[m]
  \/ dirty

NothingForgotten == \A m \in Unplanned \ dropped : running => OnItsWay(m)

(***************************************************************************)
(* A turn of a client who stops writing is planned, even when a file or a  *)
(* handler hangs for ever (inboundTurnRules: "a hung file ... must not     *)
(* block the reply"), unless the worker dies for ever or a second death of *)
(* it takes the job.                                                       *)
(***************************************************************************)
DiedTwice == wpc = "down" /\ job = "active" /\ stalled

TurnIsPlanned == job = "delayed" ~> wpc = "planning" \/ ~running \/ killed \/ DiedTwice

HungWorkDoesNotBlock == <>[]quiet /\ <>[](wpc # "down") => TurnIsPlanned
=============================================================================
