# fiscalMindAgent: a formal model

TLA+ modules that model the concurrent core of fiscalMindAgent, the
configurations that check them with TLC, and theorems about them that TLAPS
checks. The paths below are relative to the repository's root.

fiscalMindAgent collects the documents of a declaration of capital from an
accountant's clients. It writes to each client over WhatsApp, reads the replies
and the files with an LLM, plans the next message, and sends it at the planned
time; an administrator may have to approve each message first. Two processes
run it: the web process (`src/web.ts`: the accountant's routes, the
administrator's routes, the webhooks) and the worker (`src/worker.ts`: BullMQ
workers for sends, re-plans, scans and portal fetches). A third one
(`src/browserRunner.ts`) drives portals in a browser. They share Postgres and
Redis (BullMQ's queues and a few keys), and nothing else.

## Inventory

| Component | State | Operations | Interacts through | What is hard | What makes it correct |
|---|---|---|---|---|---|
| Send pipeline (`src/orchestration/*`, `src/queue/sendEmailWorker.ts`, `resyncScheduledJobs.ts`) | rows of `emails` (status, review_status), the client's row of `scheduled_jobs`, the BullMQ queue `send_email`, the advisory lock | cancel, plan, schedule, pause, resume, send now, retry, send, settle, resync at boot | the client lock, held across LLM and provider calls; flags of the client row, written outside of it | an active job waits for the lock while its send is cancelled; three writes schedule one message; jobs survive crashes, Redis need not | one queued send; nothing to a paused client; nothing sent twice; a cancelled message stays cancelled; the tracked send settles |
| Workspace routes and scans (`src/api/workspace.ts`, `draftFirstEmail.ts`, `overdueScan.ts`, `clientDecline.ts`) | flags of the client row | pause, resume, due date, send now, retry, delete, finish or reopen by hand, stop overdue clients | call the send pipeline under the lock | a flag flips before the lock is taken; a retry comes minutes later | each operation leaves the schedule consistent with the flags |
| Admin review and pause (`src/api/reviewAdmin.ts`, `src/db/queries/emails.ts`) | review_status, review mode, admin pause | approve, regenerate, pause, unpause | the pending draft is read before the lock | a re-plan supersedes a draft that is being approved; review mode changes between drafting and sending | only approved messages go out; a parked message stays on the list |
| Inbound turn (`src/orchestration/inboundTurn*.ts`, `requestReplan.ts`, `src/queue/replanWorker.ts`, `src/webhook/onInboundWhatsApp.ts`) | Redis: handlers in flight, dirty flag, last inbound; BullMQ job `replan-<client>`; drafting stamps | receive, store, cancel, ingest, request, fire, wait, plan, plan again | each Redis, BullMQ and Postgres call of handlers and worker interleaves | debounce by remove and add, a job that starts meanwhile, a message during the plan, hung files | every message is read by a plan; a hung file or a busy client does not block the reply |
| Planner and checklist (`src/agents/declarationOfCapital/plan.ts`, `decisionSchema.ts`, `router.ts`, `src/db/queries/clientDocuments.ts`) | rows of `client_documents`, the goal and the attestation fields of the client | decide, change the list, confirm, collect, complete; edit, add, delete a row by hand, derive the goal | reads, waits for the LLM, then writes, under the client lock; the accountant's routes write without it | the decision is applied to a list that has changed; the goal is derived from what was read earlier | what is approved stays approved; complete only when all is settled and confirmed |
| Ties of files (`fileTies.ts`, `companySplit.ts`, `splitChildNames.ts`, `institutions.ts`, `src/agents/shared/fileEvidence.ts`) | names of the rows, stored analyses and homes of the files | check a tie, divide an item by company and employer, collect or claim, file, choose what to verify | one planner cycle, several writes | matches stored before a split, the order of the ties, files that were not analysed, a row renamed meanwhile | companies and employers kept apart; equal ones together; verified on its own file |
| Inbound files (`src/webhook/ingest*.ts`, `analyzeStoredFile.ts`, `analyzeInboundFile.ts`, `splitFile*.ts`) | rows of `document_files` with their analysis status, blobs | fetch and store with retries, screen, split into children, classify | downloads, queries and LLM calls inside the webhook handlers; the turn waits for rows without a verdict | duplicate deliveries, a retry of an insert that committed, a split that fails half-way, page ranges from a model | analysed once and after the screen; no page lost or judged twice; a loss is reported; a stored file comes to a verdict |
| Document verification (`verifyDocument.ts`, `verifyChecks.ts`, `verifyBatchRules.ts`) | verification verdicts, stalled rows, withheld replies | verify a batch, stall, approve, ask again, re-plan | LLM, then the send pipeline | a verdict for a row that was edited meanwhile; two batches | a verdict undoes nothing that was settled; nothing is approved on words alone |
| Portal fetch (`taxFetch/*`, `src/queue/taxFetch*.ts`, `src/browserRunner/server.ts`) | rows of `tax_fetch_sessions`, sessions in the worker's memory with their timers, delayed jobs, logged-in pages at the runner | agree, log in, wait for the code, submit, download, deliver, cancel, expire, sweep at boot | planner, queue, worker memory, browser process, the client's code | no transaction covers the three places; timers and jobs of one session; a login that goes on after the worker gave up; a restart; the limit of live browsers | one login per session; ended is ended; a session that waits is watched; every session ends |
| LLM calls (`src/gemini/*`) | spend cache, priced rows | check, call, retry, hand over to the backup, record | every component | loads that interleave at every query, costs noted and recorded apart | counters never above what was spent; late calls refused; bounded attempts |
| Enrolment and kickoff (`kickoff.ts`, `formIntake.ts`, `mondayKickoffRoute.ts`, `clientImportScan.ts`) | client rows, kickoff payload | enrol, start, import | the first draft of the send pipeline | a webhook delivered twice, two starts | one first message |
| Kill switch (`src/agents/killSwitch.ts`) | one flag | throw, lift | read by webhooks and workers | read once, used later | nothing new starts while it is thrown |
| Send-time rules (`sendAtGuard.ts`, `jewishHolidays.ts`, `whatsappWindow.ts`) | none | shift a time | pure | calendar boundaries | the result is an allowed time, as early as possible |
| Alerts, audit, events, accounts, integrations, portals, user interface, evaluations | side records, sessions, third-party pages | - | - | - | not modelled, see below |

`PROJECT.json` lists the components with their files, and under `hazards` each
place where this code may go wrong in a way a test hardly reaches, with the
property that is about it or the reason there is none yet.

## Modules

### SendPipeline: one client's outgoing messages

| In the module | In the code |
|---|---|
| `status`, `review` | `emails.status` (`draft`, `held`, `sent`; "none": not inserted yet) and `emails.review_status` |
| `tracked`, `marks` | the client's row of `scheduled_jobs`: its job, `send_failed_at`, and whether `scheduled_for` has passed |
| `queue`, `stalled` | BullMQ's state of the jobs `send_email:<client>:<draft>` and `send_email_approved:<client>:<draft>`; jobs already recovered once |
| `flags` | `paused`, `admin_paused` (client or instance), kill switch or disabled instance ("blocked"), `goal_complete`, `deleted_at`, "something was received", review mode |
| `lock` | `pg_advisory_lock` of `withClientLock` |
| `pc`, `arg`, `hold`, `retries`, `wjob` | the program counters and locals of the handlers in `Req` and of the send worker |
| `accepted`, `quiet` | ghosts: how often the provider took a draft; a pause has been carried out and stands |

A handler is: `Call` (the flag it writes and the conditions it checks before the
lock), a lock section of its own (`CancelSend`, `Replan`, `ReplanAfterUnpause`,
`DraftFirstEmail`, `RegenerateReviewMessage`, `ApproveReviewMessage`,
`PauseClient`, `StopOverdue`, `ResumeClient`, `SendNow`, `RetryFailedSend`,
`CancelForDelete` with `MarkDeleted` after it), and, if it plans, the steps of
the planner: `StoreDraft`, `EnqueueDraft`, `TrackDraft` (the three writes of
`scheduleDraftMessage`), or `CompleteGoal`, `DeclineClient`, `PlanFails`, and
`Return`. The worker is `TakeJob`, then `DropSend`, `HoldForReview` or
`BeginSend`, then `ProviderAccepts`, `SendFails`, `RecordSent`, `SettleSend` and
the planner's steps; `Boot` and `Resync` start it, `WorkerDies`, `RequestDies`,
`WipeRedis` and `RecoverStalled` are the faults and BullMQ's answer to them.
A plan may throw (`Throws`): before its first write, or, counted with the
deaths, when one of its writes or what follows them fails; `draftFirstEmail` then
tries again (`RetryFirstDraft`).

Within one step are the calls of one handler that no other actor of the model can
come between because all of them hold the lock, and no wait on a provider or
an LLM; a death falls between steps, hence the three writes of
`scheduleDraftMessage` and the provider's acceptance and `markSent` are
steps of their own.

Left out: texts, templates, recipients and times; the drafting stamps (they are
in `InboundTurn`); the closing message and the decline acknowledgement, which are
sent directly and recorded as sent; drafts of channel email, which the planner no
longer makes (a send that finds no sender mailbox is theirs alone);
overdue and decline markers that only keep a scan from repeating itself; the race
of `getState` and `remove` inside `removeFutureEmail` for a job that is being
started (the active job that survives a cancellation is there by other
means); the first-contact hook.

### Outbox: what the pipeline promises

Each message is planned once, and then delivered or cancelled, for good.
`SendPipeline` implements it under the mapping `FateOf` (property
`CancelledIsFinal`): a message is still planned while the row, the queue, the
review list or a process under way can lead to its sending. A message comes
back from "cancelled" if any path (a restart, a retry, a resume, a late
approval) reaches a draft that nothing tracked any more.

### InboundTurn: from the webhooks to the deferred plan

| In the module | In the code |
|---|---|
| `msg`, `planned`, `seen`, `dropped` | what is stored of each message; what the last finished plan had read, what the current one has; ghost of what the code gave up on |
| `hpc`, `work`, `fresh`, `old`, `carry` | the handlers: next call, message, not a duplicate, past the maximum wait, the turn's start they carry |
| `inflight`, `dirty`, `quiet` | Redis: the counter of running handlers, the dirty flag, the age of the last inbound |
| `job`, `late`, `stalled`, `wpc`, `lock` | the BullMQ job `replan-<client>`, its `firstAt` and whether it was recovered once, the replan worker, the client lock |
| `drafting`, `running`, `killed` | `drafting_since` / `draft_failed_at`, neither paused nor complete, the kill switch |

A handler is one step per Redis, BullMQ or Postgres call: `Receive`,
`StoreMessage`, `CancelPendingSend`, `ShowDrafting`, `IngestMedia`,
`ScreenMessage` (or `HookThrows`), then `requestReplan`: `GetJob`, `GetState`,
`RemoveJob`, `AddJob` or `SetDirty`, and `Finish` (DECR) with `ResetCount` (DEL) after it when the count is
not positive. The worker is `FireJob`, then
`Wait` and `RunAgain`, or `Proceed`, `ClearDirty`, `BeginPlan`, `PlanReturns` (or
`PlanThrows`), `ClearStamp`, `TakeDirty`, `PlanAgain`, `JobEnds`. After its death, `WorkerBoots` is
`recoverLostReplans`, and BullMQ recovers the job it finds active once (`RecoverStalled`) and fails it
the second time (`DropStalled`).
A message slot holds one message at a time and may be used again, so a client can
write for ever in a finite model. The planner is reduced to what it reads and
whether it returns; what it schedules is the business of `SendPipeline`.

Left out: the route of one-time codes, email as a channel (its handler makes the
same calls), deaths of the web process and losses of Redis, the expiry of the
dirty flag, and the reads inside `recoverLostReplans`, which is one step.

### TaxFetch: a portal session in three places

| In the module | In the code |
|---|---|
| `status`, `portal`, `attempts` | `tax_fetch_sessions`: status, provider, `otp_attempts` |
| `collected`, `fetched`, `deleted`, `mail` | providers whose documents are collected; ghost: those a fetch brought in and nobody reopened; the client; the heads-up messages a login waits for |
| `plan` | a planner run: the situation it read and the fetch action it was allowed |
| `jobs`, `slot` | waiting jobs of the `tax_fetch` queue; what the worker runs, one slot per unit of concurrency, with the place its handler stands at |
| `tracker`, `expiring` | `sessionTracker`: sessions in memory with a timer; timers that fired and have not written yet |
| `browser`, `late`, `logins` | logged-in pages at the runner; logins under way there after the worker gave up on them; ghost: how often the portal sent a code |
| `sweep`, `up` | the boot sweep and the rows it listed; the worker process runs |

`PlanReads`, then `PlanActs` (`PlanAgrees`, `PlanStartsLogin`, `PlanCancels`) or
`PlanFails`, is `loadTaxFetchContexts` and `applyTaxFetchAction`.
`runStartLogin` is `StartReads` to `LoginConfirmed`, `runSubmitOtp` is `CodeReads`
to `Replanned` or `DeliveryFails`, `runCancel` is `CancelCloses` and `CancelMarks`: one step from one
await to the next. `RunnerAccepts`, `CodeScreen`, `LateLogin`, `LateLoginFails`, `CodeAccepted`, `CodeRejected`
and `Backstop` are the runner (`server.ts`), which registers a browser when its page stands on the code
screen, whether or not the worker still waits for the answer (`LoginTimesOut`); a close that fails leaves
the browser to the backstop (`CloseRemote`). `ListMoves` is the checklist outside of the fetch: the client's
own files, the planner and the accountant settle and reopen the portal's documents. `TimerFires` and `Expire` the timer,
`Crash`, `Boot`, `SweepLists` and `SweepExpires` the restart. A status write is an
unconditional update by id, which only the partial unique index of active sessions
refuses (`Refused`). `FetchLife` is what a session promises: agreed once, live
at most while it has not ended, back to agreed only without a browser, ended for
good; a login taken on only for a live session and while fewer browsers than the limit are open; and
a browser only as the end of a login, which may come after the end of the session.

Left out: canned messages, audit and evidence shots, the re-plan that follows an end
(the planner may run at any time), the redaction of the code, the pool of
containers behind the cloud runner.

### Checklist: documents, verdicts and the goal

| In the module | In the code |
|---|---|
| `status`, `stalled`, `adhoc` | `client_documents`: status, verification with `stalled = true`, rows without a catalog type |
| `goal`, `confirmed`, `request` | `goal_status`, `attestation_confirmed_at`, and what became of the summary `attestation_request_email_id` names |
| `plan` | the planner cycle that holds the lock: what it read, what it decided, its place |
| `check` | the verification batch of the planner and that of a delivery |
| `delivery`, `edit` | a portal fetch that files documents; the accountant's requests |
| `earned`, `reopened`, `blind` | ghosts: rows a file or the accountant vouches for; the list was open since the summary was written; the goal was completed over a list that had changed |

A cycle is `PlanStarts` (what `loadPlanningContext` reads), the LLM call,
`PlanDecides` (the gate's verdict on the answer and the guarded write of its list change),
`SettleChanges`, `ApplyAttestation`, `CollectFiles`, and then either the withheld reply
(`RerunAfterVerification`, after the batch) or `CompleteGoal`, `RefuseCompletion` or
`ScheduleReply`. `Change` and `Attests` are what the gate accepts against the list
that was *read*; `Source` is the status guard of each write against the row as it *is*.
Verification is `CheckLoads` or `CheckSkips`, then `CheckEnds`, `CheckStalls` or
`CheckHiccups`. A request of the accountant is `EditReads`/`EditWrites`, `AddRow` or
`DeleteRow`, then `onDocumentsChanged`: `ChangeReads`, `ClearsAttestation`,
`DerivesGoal`, `CancelsSend` or `EditReplans`, one step per database call.

Left out: types and names of documents (`FileTies` has them), vehicle declarations
and spouse identities, which write "stated" rows like `state`; at most one list
change per answer, where the gate accepts several.

### FileTies: what an answer does with the files

| In the module | In the code |
|---|---|
| `row` | `client_documents`: status, and what code reads in the name: a company, employers, the employer that ends it |
| `file` | `document_files`: quality (or not analysed yet, or never to be), company, employer and type agreement of the stored analysis, the match the analyzer kept, the row it is filed under |
| `run` | the cycle: documents and homes as read, ties that were let through and refused, the split, what is to be verified |
| `recast` | ghost: rows the accountant renamed since the answer was read |

`Arrive` is a file stored with the analysis the gate (`validateClassification`) let
stand, or without one: still waiting for it (`Analysed` ends that), failed, unsupported, or brought in and
filed by a portal fetch. Such files are not quarantined and may be tied on the client's words. `Answer` is `filterPairsByCompany` and `assignFilesToNewRows` on the answer's
ties; `SplitItems` is `splitItemsByCompany` with the pure `planCompanySplit`
(`HeadCompany` and `PlaceCompany` are its company stage, `Lead`, `EmployerItem` and `Place` its
employer stage, `ItemAt` the item of a place: the row every tie ends on, where the code builds
groups in loops); a `Pair` is a tie on its way, with the item it was made to and its turn; `Collect` is
`decideCollectOrClaim` with its two writes; `Link` files; `Verify` is the batch with
`pickVerificationTargets`. The accountant may write between any two of them (`Edit`): `Patch` a status, a name or both, or
`Delete` a row, from which its files come loose.

An answer may be about any ties the company check lets through; of those it refuses, only the
rows matter later. A file that arrives when no answer will come is left out.

Left out: items of types that name no company or are not opened per employer, on which
these rules do nothing; papers, labels, descriptions and evidence records; the cycle after
a verification, which collects nothing; rows added as already provided.

### InboundFile: the life of one file

| In the module | In the code |
|---|---|
| `row` | `document_files.analysis_status` of the file as it came (`Whole`) and of each child, a range of its pages |
| `pc`, `attempt`, `cuts`, `todo` | each delivery's handler: its place, its attempt, the children it has still to store, the parts it has still to classify |
| `lost` | deliveries whose `file.ingest_failed` row was written |
| `deleted` | `clients.deleted_at`: the deletion is soft, the rows stay |
| `passed`, `late` | ghosts: the screen answered "clean"; a split failed after its last child was stored, or its cleanup did |

A delivery is `Deliver`, then `Store` or `AttemptFails` (`ingestInboundFileWith`, with or
without an insert whose answer is lost) and, past the last attempt, `GiveUp` or `ReportFails` (`recordAudit`,
which swallows the failure of its own insert); `Analyze` (`analyzeStoredFile`, which passes over a deleted client, type and rendering), `Screen`,
`AskSplit` with `Gate` (`validateFileSplit` on any ranges the model may propose) or
`NoSplit`, one `StoreChild` per range, `RemoveChildren` when one fails, `MarkSplit` and
`ListChildren`; then each part is classified (`Classify`, `RecordUsage`; their failures, `ClassifyFails` and `RecordFails`, lead to the write of `failed`,
`MarkFailed`, whose own failure is swallowed: `MarkFailedFails`).
Each query and each LLM call is a step; two deliveries, the deletion of the client and a death of the
web process fall between any two.

Left out: labels of children and blobs, which no decision here reads; the content of
an analysis (`FileTies`). No code path analyses a row a second time, so the branches for "a re-run"
(`file.analysis_status === 'split'`) are never taken.

### LlmBudget: the spend ceilings

| In the module | In the code |
|---|---|
| `limit`, `recorded` | `app_settings` with the two ceilings; today's priced rows of `llm_calls` |
| `cache`, `maps` | `budget.ts`: the cache object, and its maps of spend by instance, which loads share by reference |
| `call` | the calls of the process: place, attempt, model, and the locals of the check |
| `admin`, `clock` | a change of the ceilings between its two writes; cache lifetimes |
| `billed` | what the providers charged |

A check is `CheckHits`, or `CheckLoads` / `CheckLoadsInstance` and one step per query
(`Answers`, then `SettingsLoaded`, `PlatformLoaded`, `InstanceLoaded`); a step of
JavaScript between two awaits is atomic, so a load stores what it read before
whatever other calls did meanwhile. Then `ProviderAnswers`, `ProviderFails` (another
attempt, the backup model, or the end) or `CallThrows`; `NoteSpend` and `InsertRow`
follow in the background. `SpendsElsewhere`, `SaveBegins`/`SaveEnds` and
`Restart` are the other processes.

Left out: the day's rollover, the harness's calls (exempt from the check), and
the order of the two keys inside one read of the settings.

A call is *due* when it asks the database (`CheckLoads`) while a ceiling's worth is recorded and
nobody else's check is in flight; it stays due as long as its queries work and the ceilings
stay. `LateCallsRefused` is that such a call is not sent. The stronger claim, for a check that
overlaps with one that began before the cache expired, is false of the code: that one
writes the older platform sum back under the newer time (*Known behaviours*).

`SendPipelineMC`, `InboundTurnMC`, `ChecklistMC`, `FileTiesMC` and `LlmBudgetMC` define the
symmetry sets of the runs, `TaxFetchMC` the portals of their sessions. The theorems about a module `M` are in `MProofs`, and those about the refinement of `Outbox`
in `OutboxProofs`, which extends `SendPipelineProofs`.

## What TLC checks

| Run | Checks | Shows |
|---|---|---|
| `send_accountant` | `OneQueuedUnlessCrashed`, `PausedStaysQuiet`, `CancelledIsFinal`, `SentIsFinal` | two of the accountant's operations, replies, re-plans and scans at a time, beside the worker, with one death: one queued send; silence while paused; cancelled and sent are final |
| `send_review` | `HeldAwaitsReview`, `UnapprovedNeverSent`, `CancelledIsFinal` | review mode, approvals, regenerations and retries of a failed send beside re-plans and the worker, with one loss of Redis |
| `send_settles` | `PendingSendSettles`, `TypeOK` | liveness: the tracked send of a running client goes out, is parked, fails visibly or is replaced, through first drafts, deletions, completions by hand, admin pauses and the end of review mode |
| `turn_covered` | `NothingForgotten` | two handlers and two messages interleave with the worker at every call: what the planner has not read is on its way to it |
| `turn_live` | `HungWorkDoesNotBlock`, `CountIsClean`, `NothingForgotten` | liveness: the turn of a client who went quiet is planned, even if a handler hangs for ever, unless a second death of the worker takes its job; through any number of throws of the kill switch and deaths of the worker, what the planner has not read is on its way to it or was given up by a decision of the code, and the in-flight count stays clean |
| `fetch_restart` | `TypeOK`, `OneLoginPerSession`, `AwaitingIsWatched`, `NoFetchHangs` | one session with late, wrong and missing codes, cancellations, timers, logins the worker gave up on and a death of the worker; liveness: a session with a browser comes to an end |
| `fetch_shared` | `LivesOneLife`, `NoNeedlessLogin` | two sessions, one or two portals, one browser: each session refines `FetchLife`; nobody is asked for a code for documents a fetch has brought in |
| `checklist` | `TypeOK`, `CompleteIsSettled`, `ApprovedIsEarned`, `ApprovedStands` | planner cycles, verdicts, a delivery and an edit of the same rows interleave between their reads and writes |
| `ties` | `TypeOK`, `FiledApart`, `SharedByEmployer`, `OnItsOwnFile` | one answer over every pair of files, analysed or not, every name of an item and every order of two ties; over one file, with an edit between its writes |
| `llm_budget` | `TypeOK`, `NeverOvercounts`, `LateCallsRefused` | two calls interleave at every query of the check, with other processes, changed ceilings, failing queries and a restart |
| `file_life` | `TypeOK`, `SplitIsPartition`, `NoPageJudgedTwice`, `ScreenedFirst`, `HalfSplitIsRemoved`, `LossIsReported`, `VerdictStands`, `StoredFileIsJudged` | two deliveries of one file, any page ranges, failing calls, two failing queries, a death and a soft deletion: analysed once, after the screen, every page once, a loss reported unless the report itself fails; liveness: a stored file comes to a verdict |
| `checklist_confirmed` | one property, violated | see *Where the code and its comments differ* |

Each property of a passing run has a mutant in `PROJECT.json`: a plausible error
in one modelled function under which TLC finds the property violated.

**Bounds of the send runs.** `Draft` bounds the messages of one behaviour, not the
behaviour's length: with two, a message can be cancelled, parked, delivered or superseded
while a second one is planned, queued or sent, which is what every send property
relates; a plan that finds no free draft id waits or ends in another way. `Req`
bounds concurrent handlers: two, so that one may be between its flag and its lock,
or between two lock sections, while the other runs whole; a handler slot is
used again without limit. `MaxRetries = 1` instead of the code's 5: a
further retry repeats the step from the same states. `MaxCrashes = 1` and
`MaxWipes = 1` put a death, a failing write, or a loss of Redis between any two steps; a second
death matters to BullMQ's stalled counter only, and a job that is recovered
twice fails. `MaxAccepts = 2` lets a message be delivered twice if anything would do
so (a send whose answer was lost and is retried does); the ghost need not count
further. `send_review` has a loss of Redis and no death, `send_accountant` a death and no loss:
both at once with two handlers is out of reach. `Ops` and `Enrolment` select the operations of a run, since all twenty
at once with two handlers is out of reach; the theorems hold for all of them.
`send_settles` leaves out the kill switch, because no code path revives a send it
dropped until the next boot, and deaths, because a row is then revived at the
next boot only.

**Bounds of the turn runs.** `MaxAged` bounds the handlers that outlive the maximum
wait at one time; `Events` says which of the client's stop, the kill switch and deaths of the worker
may happen, each of them any number of times.
`turn_covered` has none of them: it is about the interleavings of two handlers (five
calls of `requestReplan` each) and the worker, and `turn_live`, with all of them and one handler, is about the faults.
The theorems have both at once.

**Bounds of the fetch runs.** One slot is the static runner; what two slots may do
is under *Known behaviours*. One session lives through every status, with
two rejected codes (`MaxOtpAttempts = 2`, so that one is asked again and one ends
it), two heads-up messages (one superseded), two codes (one early or late) and one
job put off (`MaxWaits`). `fetch_shared` has two sessions, of one portal one after the
other or of two portals at a time (`Portals`), for one browser; the documents of one of the portals come in
and are reopened outside of the fetch as well (`Edited`), any number of times.

**Bounds of the checklist runs.** Two rows: the one an answer or a verdict is about,
and one that is added, split off, edited or decides whether the list is settled. One
edit suffices for each of the accountant's routes to fall between any two steps of a
cycle, a verification and a delivery, which come again without limit.

**Bounds of the ties runs.** Two companies, two employers, two files, two ties and
two rows: two files of one item may agree or differ in company and in employer, and the
split of one pair opens one row. (Three rows with no edit, where an item may be divided twice, were checked beside the run and hold as well.)
`MaxRaced = 1`: the accountant writes under an answer when there is one file; what an edit does
to a row under an answer does not depend on the second file. One edit (`MaxEdits`) falls between any
two writes of the answer; two of them were checked beside the run, and the theorems have any number. A second answer sees rows and homes of the first one: it was
checked with one file and holds; every run starts from rows that carry any name an
earlier answer may have left.

**Bounds of the file run.** Two deliveries race, or one comes after the other failed or
died. Four pages and at most two documents (20 in the code) let a proposed range overlap, leave a page out in the
middle, run backwards or past either end, and a proposal exceed the cap; three attempts are the
code's own. Two failing queries: one that leaves something behind, and one in the handling of it (the catch of a
classification, the report of a lost file).

**Bounds of the budget run.** Two calls are enough for a load to store over the other's,
one instance for its map (`StartLimits = {1}`: both ceilings start at one, and a change of the
ceilings may lower or raise them), `PrimaryAttempts = 1` and `MaxAttempts = 2` for each loop to be
left by its own limit, one expiry of the cache, ceilings of nothing or one, and two events of
other processes.

Draft ids, requests, messages, handlers, rows, companies and employers are symmetric
in safety runs and not in liveness runs.

**Deadlock** is checked in the send and turn runs. The others set `CHECK_DEADLOCK
FALSE`: a session that has ended with its messages used up, a list that is complete with
no edits left, an answer that was applied, deliveries and calls that have all ended leave nothing to do,
and that is how these parts stop.

**Fairness.** `FairSpec` of `SendPipeline` assumes that time passes and BullMQ
delivers due jobs (WF of `JobDue` and `TakeJob`), that the worker process runs and
provider and LLM calls return or time out (WF of its steps and of `Plan`), and
that whoever waits for the client lock gets it, because Postgres serves the
waiters of an advisory lock in order (SF of the steps that take the lock).
Nobody is obliged to call an operation, and nothing need crash. `FairSpec` of
`InboundTurn` assumes the same of the handlers' Redis and Postgres calls and of the
worker, and that the maximum wait ends; it assumes nothing of the downloads,
analyses and screening of a handler (`Slow`), which may hang, and nothing of the
quiet window, which a busy client may keep open. The premise `<>[]quiet` of
a property is the client who stops writing. `FairSpec` of `TaxFetch` assumes that the
worker takes its jobs and that each handler's calls to the runner, the database and the
messaging provider return or time out (WF of `TakeJob` and of a slot's work), that timers
fire and their writes end, and that a dead worker is started again and sweeps; it assumes
nothing of the client, the planner, or the runner's own backstop. `FairSpec` of `InboundFile`
assumes that a handler runs to its end, since the attempts of an LLM call have a timeout and
queries and blob reads return or throw; `StoredFileIsJudged` begins with a stored row, so a
download that hangs is no exception to it. The other runs check safety only.

## What is proved

Every theorem holds for all values of the constants, under the assumptions named in the modules that
declare them (`BoundAssumption`, `ProcAssumption`, `OpsAssumption`, `TiesAssumption`, ...: types of
bounds, distinct markers), and where the table names a condition, under it. Each property was
checked by TLC on a run before it was proved. A leaf that names a pragma (`ZenonT(60)`) needs more than the default time on a slow machine.

| Theorem | States | Condition | Argument |
|---|---|---|---|
| `SendPipelineProofs!TypeCorrect` | `[]TypeOK` | | `TypeInv`, that is `TypeOK` and `PCOK`: program counters belong to their process, and a process that works on a draft has one; without `PCOK` the updates at `arg[p]` have no type |
| `PauseIsQuiet` | `PausedStaysQuiet` | | `LockInv`: a process is in a section of the lock iff it is the holder. `QuietInv`: while a carried-out pause stands, the client is paused and the worker is not sending |
| `HeldIsListed` | `[]HeldAwaitsReview` | | every write of `status` and `review` in one frame lemma (`DraftFrame`) |
| `OnlyApprovedIsSent` | `UnapprovedNeverSent` | `"review_off" \notin Ops` | `ReviewInv`: while review mode was never on, nothing is flagged; a message in flight has status "draft" and is free of review or approved. `InFlightDrafts`: nobody writes the drafts while one is in flight, by `LockInv` |
| `SentOnce` | `SentIsFinal` | the same | the same invariant: a message in flight is not recorded as sent, and a sent one is not pending, so no cancellation takes its status back |
| `OneQueuedHolds` | `[]OneQueuedUnlessCrashed` | `CancelsFirst`: no first drafts, regenerations, approvals | `FirstInv`: nobody is in a section that cancels nothing. `TidyInv`: until something dies, what is queued is tracked (`QueuedIsTracked`), who is about to plan has emptied queue and row (`PlansAfresh`), and an active job is the one the worker holds (`ActiveIsRun`) |
| `OutboxProofs!CancelledIsFinalHolds` | `CancelledIsFinal`: the pipeline implements `Outbox` | | a message is planned while a list, a queue or a process can lead to its sending: one frame lemma for each of these places says who may put a message there (`TrackedFrame`, `QueueFrame`, `PendingFrame`, `InHandFrame`, `SendingOneFrame`), and none takes one that stood nowhere (`NoRevival`). `UnusedInv`: a fresh draft is on no list. `StoreDraft` is a plan, `ProviderAccepts` a delivery, each other step the cancellation of what it drops |
| `InboundTurnProofs!TypeCorrect` | `[]TypeOK` | | together with `CountIsClean`; BullMQ keeps an active job for the worker that is on it (`JobFits`) |
| `CountIsCleanHolds` | `[]CountIsClean` | | each step moves one handler into or out of the counted and the resetting ones, whose cardinalities bound the counter from both sides |
| `NothingForgottenHolds` | `[]NothingForgotten` | | the property is not inductive: it counts an `add` on its way as enough, and an add of a job that exists does nothing. `WillBeRead` leaves out the adds that may be in vain; `ReadFits` orders what the runs have read. Any number of deaths: the job that BullMQ drops at its second stall is among the exceptions |
| `TaxFetchProofs!TypeCorrect` | `[]TypeOK` | `OneSlot` | what a handler holds fits its place; `LoginsFit`: a session is agreed on before its only login |
| `OneLoginHolds` | `[]OneLoginPerSession` | `OneSlot` | `LoginsFit`: no session goes back to "agreed" once it has logged in |
| `AwaitingIsWatchedHolds` | `[]AwaitingIsWatched` | `OneSlot` | `WatchFits`: the timer is armed before the row says "awaiting", and a handler that lost the browser is a watcher until it closes the row |
| `LivesOneLifeHolds` | `LivesOneLife`: the fetch implements `FetchLife` | `OneSlot`, `MaxCrashes = 0` | `LifeFits`: while the worker lives, row, tracker and expiring timers of a session show one phase at each place of its handler; each step has one `Effect` on one session, its row, its login and its browser, and each effect is a step of `FetchLife` or a stutter |
| `NoNeedlessLoginHolds` | `NoNeedlessLogin` | the same | `NeedFits`: the active session of a portal is one, and no fetch has brought its documents in before it downloads, whatever comes in otherwise |
| `ChecklistProofs!TypeCorrect` | `[]TypeOK` | | `PlanFits`, `EditFits`, `CheckFits`: a run, a request and a batch hold what their place needs |
| `CompleteIsSettledHolds` | `[]CompleteIsSettled` | | `GoalFits`: a completed goal over an open list is blind, or an edit has yet to look at the list or is about to reopen it; a request that completes the goal read a settled list |
| `ApprovedIsEarnedHolds` | `[]ApprovedIsEarned` | | `EarnedFits`: what is collected is vouched for already, since a verdict only looks at collected rows |
| `ApprovedStandsHolds` | `ApprovedStands` | | each writer of a row by its status guard |
| `FileTiesProofs!TypeCorrect` | `[]TypeOK` | | `FilesFit`: the row a file is filed under is there; a newest pair is fileable, and no pair before it is gone |
| `FiledApartHolds` | `[]FiledApart` | | `PairFits`: a pair's row agrees with its file unless it was deleted or renamed by the accountant since. It rests on `PlaceNames`: the item of a tie's place has the company and the employer of the file, for any number of ties |
| `SharedByEmployerHolds` | `[]SharedByEmployer` | | a place depends on the item and on what the file prints (`SamePlace`), so equal files have equal rows, raced or not |
| `OnItsOwnFileHolds` | `[]OnItsOwnFile` | | `RenamedKeepsFile`: an item that was renamed keeps the file its name was read from, so each touched row has a pair; `FiledFit`: a file that was tied once is filed where its pair says |
| `InboundFileProofs!TypeCorrect` | `[]TypeOK` | | `WorkFits`: what a delivery has still to do fits its place |
| `ScreenedFirstHolds` | `[]ScreenedFirst` | | `PlaceFits`: whoever is past the screen has passed it |
| `LossIsReportedHolds` | `[]LossIsReported` | | `LossFits`: a step that adds a silent delivery is `ReportFails`, which spends a failing call; a file that is stored stays stored |
| `HalfSplitIsRemovedHolds` | `[]HalfSplitIsRemoved` | | `PlaceFits`, and `Alone`: only the delivery whose insert made the row touches it |
| `SplitIsPartitionHolds`, `NoPageJudgedTwiceHolds` | `[]SplitIsPartition`, `[]NoPageJudgedTwice` | | what the gate accepts is a partition (`Partitions`), by the least page that would be missed; `TodoWaits`: the parts still to classify wait, each of them once |
| `VerdictStandsHolds` | `VerdictStands` | | `HeadFits`: a part is classified while its row waits, or was marked split by a call whose answer was lost; `failed` replaces a verdict only after a failing call |
| `LlmBudgetProofs!TypeCorrect` | `[]TypeOK` | | `Fits`: the locals of a call belong to its place; sums of rows by induction on the set of owners (`Sums`) |
| `NeverOvercountsHolds` | `[]NeverOvercounts` | | `SpendInv`: cache, maps and sums held by a load stay below the bill less the costs yet to be noted (`Room`), rows below the bill less the costs yet to be recorded |
| `LateCallsRefusedHolds` | `[]LateCallsRefused` | | `DueFits`: whatever a due call can still find, in the database, in another load or in a renewed cache, has reached the same ceiling |

The conditions. `review_off`: with it a delivered message can lose its status (*Known behaviours*).
`CancelsFirst`: the three operations plan without cancelling, and two queued sends are what the
code then has; everything else, replies, re-plans, pauses, resumes, scans and losses of Redis, is in.
`OneSlot` is the static runner; with several slots two jobs of a session overlap and
the statements are false (*Known behaviours*). `MaxCrashes = 0`: a death of the worker takes timers and
memory of all its sessions at once, which `FetchLife`, a life of one session, has no step for;
the three invariants of the fetch are proved with any number of deaths.
`LossIsReported` and `VerdictStands` name their exceptions by `faults`, the failing database calls: the theorems say that
nothing but such a call makes a loss silent or a verdict a failure.

Model-checked only: the liveness properties `PendingSendSettles`, `HungWorkDoesNotBlock`, `NoFetchHangs`
and `StoredFileIsJudged` (liveness and ENABLED are outside of what the prover does), and the violated
`CompletesWhatWasConfirmed`. The provers cannot do induction over data with an operator
parameter, nor reason behind a RECURSIVE operator, so the modules use neither: folds over ties are a
least index (`Min`, by `LeastElement`), sums a recursive function.

## Where the code and its comments differ

- **A confirmation of an older list** (`checklist_confirmed`). `plan.ts` says that "a
  stale confirmation must never complete the goal over a changed list". One answer may
  change the list and relay the client's confirmation. `settleChecklistChanges` clears the
  attestation; `applyAttestationConfirmed` runs after it and sets it again. When the
  new row has been collected and verified, the goal completes, and the client has seen no summary of the
  list as it is.

## Known behaviours

What the code does, the models have, and no checked property forbids; each is a
hazard in `PROJECT.json` with its line.

- *Two queued sends.* `draftFirstEmail` and its retries, and the second section of
  a review regeneration, plan without cancelling what another handler has queued; the row
  tracks the later job only. `OneQueuedUnlessCrashed` is checked for the
  operations that cancel before they plan.
- *An obsolete send goes out.* A job that is already active while it waits for the
  lock is not cancelled by `removeFutureEmail`, and its draft is still sendable.
- *A delivered message becomes a draft again.* A message flagged "pending" and sent
  after review mode was switched off loses its status "sent" at the settling
  cancellation, which looks at `review_status` only.
- *A dirty flag nobody takes.* A handler that saw the job active sets the flag after
  the worker took it for the last time.
- *A count that is too low.* The last handler drops the in-flight key with a DECR and, in a call of its
  own, a DEL. A handler that is counted between the two is erased with the key: until the next webhook its
  turn looks settled to the counter while it is at work, and the planner may run before it has stored its files
  (its pending rows still hold the turn back). It asks for a plan of its own at its end.
- *A turn lost with its job.* BullMQ recovers a job of a dead worker once and fails it the
  second time, and `recoverLostReplans`, at the boot, passes over a job that still exists. Two deaths in the life
  of one job leave the message to the next one the client writes. `NothingForgotten` counts such messages
  as given up (`DropStalled`), `HungWorkDoesNotBlock` excepts the second death.
- *A busy client waits.* The maximum wait is looked at by a job that fires, and
  each message moves the job.
- *Two logins of one session.* With eight slots (the container pool) two start jobs of a
  session may both pass the check of its status; a cancel between the arming of the
  timer and the write of `awaiting_otp` leaves a row that only a restart ends; the boot sweep runs
  after the job worker has started, and may expire a session that is just logging in.
- *A login nobody waits for.* When the worker's call of a login breaks off or times out, the session is
  failed, and `closeSession` finds nothing to close, for the runner registers a browser only when it stands on the
  code screen (`server.ts:36-38`, `159-160`). The login goes on: the client gets a code that nobody
  takes, and the browser of an ended session stays open until the runner's backstop. The limit "At
  most this many browsers open at once" (`server.ts:20`) is checked before such a browser counts, so it
  may be exceeded by it.
- *A browser left to the backstop.* A close that fails is logged (`fetchClient.ts:177-183`), and the page stays
  until the backstop of the runner.
- *A login for documents that came in meanwhile.* `runStartLogin` looks at the status of the session, not at
  the checklist: when the client's own file or the accountant settles the documents while the heads-up is
  out, the client is asked for a code all the same. `NoNeedlessLogin` is about documents a fetch itself
  brought in.
- *Delivered, then failed.* A re-plan that throws after the delivery (`deliver.ts:200-206`) runs into the catch of
  the download, which writes "failed" over "delivered"; the documents stay collected, and no second login
  follows (`NoNeedlessLogin`).
- *Completed while edited.* A goal may be completed over a list that was edited
  during the LLM call (`blind` in `CompleteIsSettled`); the next edit reopens it.
- *A collected row nobody verifies.* A check that was skipped or failed in passing is not
  repeated.
- *A file of the sibling.* `pickVerificationTargets` says that an item the split touched is
  verified against the file tied to it, because a sibling's file "would otherwise pass as
  the head's". The set it looks at (`splitTouched`) holds renamed and created rows; an item that
  already names company and employer is divided without a rename. Its only file, which the
  analyzer had matched to it, is filed under the sibling, and the item is collected and
  verified on it. `OnItsOwnFile` is about `splitTouched`. Of a row in it, a quarantined file that was
  tied first is the one verified, though it is filed nowhere and another file earned the row.
- *A file nobody could read is filed.* Files whose analysis is pending, failed or does not apply are not
  quarantined (`fileEvidence.ts:17-25`); the planner may tie one on the client's words, and it is filed like
  a readable one. One whose analysis later calls it suspicious stays where it is.
- *A rename that crosses an answer.* The accountant may rename a row while an answer is applied. The company
  check and the split have used the name that was read before, so a file may be filed under a row that by now names another
  company, and an item that gets siblings is written the name it was read with, over the new one.
  `FiledApart` leaves out rows renamed since the answer was read (`recast`).
- *A loss that is not reported.* `recordAudit` logs and swallows the failure of its own insert
  (`audit.ts:133-158`), in the Postgres whose failure may have lost the file: nothing but a log line then tells of it.
  `LossIsReported` allows one silent loss per failing call, and no other.
- *A file of a deleted client.* The deletion of a client is soft. A delivery under way stores its file all the
  same, and `analyzeStoredFile` then passes over it: the row stays "pending" for good, with no failure anywhere.
- *A stored file nobody analyses.* An insert that committed and lost its answer, or a death
  of the web process after it, leaves a row "pending": the next attempt or delivery finds it and
  returns null, although `onInboundEmail.ts` says that a new delivery "backfills attachments a
  failed earlier run missed". So does a query that throws before the screen, where the
  comment says that such a failure "marks the file analysed-with-error". The turn waits for
  the row up to its maximum.
- *Children beside the whole file.* `cutIntoChildren` removes the children "on any failure", but
  a failure of `setSplit` or `listChildren` comes after the block that does so: the children stay,
  waiting for an analysis, while the whole file is classified. No page becomes evidence twice by it
  (`NoPageJudgedTwice`).
- *A verdict turned into a failure.* When the label or the usage of a classification cannot be recorded, the
  verdict that was already stored is overwritten with "failed" (`analyzeInboundFile.ts:345-358`), the first
  exception of `VerdictStands`; the second is the whole file of a split that failed in its last calls.
- *One file, two items.* A file tied to two items collects both and is filed under
  the last. A quarantined file may name a sibling into which nothing is filed.
- *A cost the cache loses.* A load that waits for the instance's sum stores the platform's
  sum it read before; a cost noted meanwhile is missing until the cache expires.
- *A refusal that comes late.* A check that took the platform's sum from the cache before it
  expired, and waits for the instance's sum, stores the old sum under the time of a newer check.
  The next call may be sent although the ceiling was recorded before; `LateCallsRefused` speaks of
  checks that begin while no other is in flight.

## Not modelled, and why

Text classification, prompts and message layout (their outcome is a choice);
accounts, authentication and administration (request and response, nothing
interleaves); board and OAuth mirrors, events and the audit trail but for the report of a lost file (no modelled decision
reads them); the portals' pages and the user interface (external, or without decisions of
their own); evaluations and migrations (offline); the calendar rules of sending
times (pure functions of a date, covered by tables of tests). Of the modelled
parts: deaths of the web process and losses of Redis in `InboundTurn`; the labels of the children of a
file; the webhook and the import sweep that enrol a client; the request
translation of the three LLM providers.

## Plan

1. **Proofs**: what the fetch keeps with several slots (one browser per session, an ended session
   stays ended), and its refinement through deaths, with a `FetchLife` that may lose all lives at once;
   `OneQueuedUnlessCrashed` with approvals, whose job replaces the parked one; bounds of the turn's
   and the batch's retries as theorems of their own; that the actions of the modules are
   total where the code is (a handler is never stuck outside of its waits).
2. **Extensions**: two slots of the fetch worker with the properties they keep;
   deaths of the web process in `InboundTurn`; the labels of children.
