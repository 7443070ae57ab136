------------------------------ MODULE TaxFetch ------------------------------
(***************************************************************************)
(* Fetching a client's documents from a portal (tax authority, pension     *)
(* houses).  The planner agrees on a fetch and asks for a login; jobs of   *)
(* the tax_fetch queue log in, submit the one-time code the client sends   *)
(* back and download; a browser runner holds the logged-in page.  A        *)
(* session lives in three places that no transaction covers: its row, the  *)
(* worker's in-memory tracker with the timer of the code, and the browser. *)
(* Status writes are unconditional updates by id.                          *)
(*                                                                         *)
(* One client; its sessions are numbered in creation order.  Slot is the   *)
(* worker's concurrency: one slot with the static runner, several with a   *)
(* container per session.  Canned messages, audit and evidence shots are   *)
(* left out, and so is the re-plan that follows an end: the planner may    *)
(* run at any time.                                                        *)
(***************************************************************************)
EXTENDS Integers, FiniteSets

CONSTANTS
  Provider,        \* portals
  Portals,         \* bound: portals of the sessions, in creation order
  Edited,          \* bound: portals whose documents also come in and are reopened otherwise
  MaxSessions,     \* bound: sessions of the client
  Slot,            \* jobs the worker runs at a time
  MaxLive,         \* browsers at a time
  MaxOtpAttempts,  \* rejected codes before a session fails
  MaxWaits,        \* times a job puts itself off: unsent heads-up, unsettled login
  MaxMails,        \* bound: heads-up messages
  MaxCodes,        \* bound: messages with digits the client writes
  MaxCrashes       \* bound: deaths of the worker process

Session == 1 .. MaxSessions
NoSession == 0

ASSUME FetchAssumption ==
  /\ IsFiniteSet(Provider)
  /\ Portals \subseteq [Session -> Provider]
  /\ Edited \subseteq Provider
  /\ MaxSessions \in Nat \ {0}
  /\ MaxLive \in Nat \ {0}
  /\ MaxOtpAttempts \in Nat \ {0}
  /\ {MaxWaits, MaxMails, MaxCodes, MaxCrashes} \subseteq Nat

VARIABLES
  status,     \* tax_fetch_sessions.status, "none" before the insert
  portal,     \* the provider of the session
  attempts,   \* tax_fetch_sessions.otp_attempts
  collected,  \* providers whose documents are on the checklist as collected
  fetched,    \* ghost: those a fetch brought in, and nobody has reopened since
  deleted,    \* the client is (soft-)deleted
  plan,       \* the planner run under way: what it read and decided
  mail,       \* heads-up messages
  jobs,       \* waiting tax_fetch jobs
  slot,       \* what the worker runs
  tracker,    \* sessions in the worker's memory, with a timer armed
  expiring,   \* sessions whose timer fired and whose row is not yet written
  sweep,      \* boot sweep: "due", or the rows it listed and has not yet expired
  up,         \* the worker process runs
  browser,    \* sessions with a logged-in page at the runner
  late,       \* sessions that log in at the runner for a worker that gave up on it
  logins,     \* ghost: logins of the session that reached the code screen
  codes, crashes

rowVars   == <<status, portal, attempts>>
listVars == <<collected, fetched>>
clientVars == <<listVars, deleted, mail>>
workVars  == <<tracker, expiring, sweep, up>>
faultVars == <<codes, crashes>>
vars == <<rowVars, clientVars, plan, jobs, slot, workVars, browser, late, logins, faultVars>>

PreLogin    == {"wa_intro_sent"}
LiveBrowser == {"logging_in", "awaiting_otp", "verifying", "downloading"}
Active      == PreLogin \cup LiveBrowser
Ended       == {"delivered", "failed", "expired", "cancelled"}
Status      == {"none"} \cup Active \cup Ended

Job == [kind : {"start_login", "submit_otp", "cancel"}, session : Session,
        ref : 0 .. (MaxMails + MaxCodes), tries : 0 .. MaxWaits]

\* A slot runs a job; pc is where its handler stands.
NoJob == [kind |-> "none"]
Idle  == [pc |-> "idle", job |-> NoJob]

NoPlan == [action |-> "none"]

Init ==
  /\ status = [s \in Session |-> "none"]
  /\ portal \in Portals
  /\ attempts = [s \in Session |-> 0]
  /\ collected = {}
  /\ fetched = {}
  /\ deleted = FALSE
  /\ plan = NoPlan
  /\ mail = [m \in 1 .. MaxMails |-> "none"]
  /\ jobs = {}
  /\ slot = [k \in Slot |-> Idle]
  /\ tracker = {}
  /\ expiring = {}
  /\ sweep = {}
  /\ up = TRUE
  /\ browser = {}
  /\ late = {}
  /\ logins = [s \in Session |-> 0]
  /\ codes = 0
  /\ crashes = 0

ActiveOf(p) == {s \in Session : portal[s] = p /\ status[s] \in Active}

\* The partial unique index: one active session of a client and a provider.
Refused(s, st) == st \in Active /\ ActiveOf(portal[s]) \ {s} # {}

SetStatus(s, st) == status' = [status EXCEPT ![s] = st]

-----------------------------------------------------------------------------
(* The planner, under the client lock: it reads the fetch's situation, asks
   the model, and acts on the answer. *)

Created == {s \in Session : status[s] # "none"}
Latest(S) == CHOOSE s \in S : \A t \in S : t <= s

\* The session a provider's situation is told from.
ContextSession(p) ==
  LET mine == {s \in Created : portal[s] = p}
  IN  IF ActiveOf(p) # {} THEN Latest(ActiveOf(p))
      ELSE IF mine # {} /\ status[Latest(mine)] \in {"delivered", "failed"} THEN Latest(mine)
      ELSE NoSession

\* Mutation: a failed fetch may always be tried again.
AllowedAfterFailure(p) ==
  LET s == ContextSession(p)
  IN  IF s = NoSession THEN IF p \in collected THEN {} ELSE {"client_agreed", "start_login"}
      ELSE IF status[s] = "failed" THEN {"client_agreed", "start_login"}
      ELSE IF status[s] \in LiveBrowser \cup PreLogin THEN {"cancel"} ELSE {}

\* Offered while a document of the provider is pending; the login also needs
\* the client to be on WhatsApp, which may or may not be so.
AllowedActions(p) ==
  LET s       == ContextSession(p)
      offered == IF p \in collected THEN {} ELSE {"client_agreed", "start_login"}
  IN  IF s = NoSession THEN offered
      ELSE CASE status[s] = "failed"      -> offered
             [] status[s] \in PreLogin    -> (offered \ {"client_agreed"}) \cup {"cancel"}
             [] status[s] \in LiveBrowser -> {"cancel"}
             [] OTHER                     -> {}

\* removeFutureEmail comes first: a queued heads-up is superseded.
Superseded == [m \in DOMAIN mail |-> IF mail[m] = "queued" THEN "dropped" ELSE mail[m]]

PlanReads(p) ==
  /\ plan = NoPlan
  /\ ~deleted
  /\ \E a \in AllowedActions(p) :
       plan' = [action |-> a, provider |-> p, session |-> ContextSession(p),
                active |-> ActiveOf(p) # {}]
  /\ mail' = Superseded
  /\ UNCHANGED <<rowVars, listVars, deleted, jobs, slot, workVars, browser, late, logins, faultVars>>

\* A planner run without a fetch action.
PlanWithoutFetch ==
  /\ plan = NoPlan
  /\ mail' = Superseded
  /\ UNCHANGED <<rowVars, listVars, deleted, plan, jobs, slot, workVars, browser, late, logins, faultVars>>

Insertable(p, s) ==
  /\ ActiveOf(p) = {}
  /\ status[s] = "none"
  /\ portal[s] = p
  /\ \A t \in Session : t < s => status[t] # "none"

\* The session acted on: the one that was read as active, or a fresh row.
FetchSession(s) ==
  IF plan.active THEN s = plan.session /\ UNCHANGED status
                 ELSE Insertable(plan.provider, s) /\ SetStatus(s, "wa_intro_sent")

PlanAgrees ==
  /\ plan.action = "client_agreed"
  /\ \/ \E s \in Session : FetchSession(s)
     \/ ActiveOf(plan.provider) # {} /\ UNCHANGED status   \* the insert is refused
  /\ UNCHANGED <<mail, jobs>>

\* The heads-up is drafted first; the job waits for that very message.
PlanStartsLogin ==
  /\ plan.action = "start_login"
  /\ \E m \in DOMAIN mail :
       /\ mail[m] = "none"
       /\ mail' = [mail EXCEPT ![m] = "queued"]
       /\ \/ \E s \in Session :
               /\ FetchSession(s)
               /\ jobs' = jobs \cup {[kind |-> "start_login", session |-> s, ref |-> m, tries |-> 0]}
          \/ ~plan.active /\ ActiveOf(plan.provider) # {} /\ UNCHANGED <<status, jobs>>

PlanCancels ==
  /\ plan.action = "cancel"
  /\ jobs' = jobs \cup {[kind |-> "cancel", session |-> plan.session, ref |-> 0, tries |-> 0]}
  /\ UNCHANGED <<status, mail>>

PlanActs ==
  /\ PlanAgrees \/ PlanStartsLogin \/ PlanCancels
  /\ plan' = NoPlan
  /\ UNCHANGED <<portal, attempts, listVars, deleted, slot, workVars, browser, late, logins, faultVars>>

\* The model call fails, or its answer does not validate.
PlanFails ==
  /\ plan # NoPlan
  /\ plan' = NoPlan
  /\ UNCHANGED <<rowVars, clientVars, jobs, slot, workVars, browser, late, logins, faultVars>>

MailSends(m) ==
  /\ mail[m] = "queued"
  /\ mail' = [mail EXCEPT ![m] = "sent"]
  /\ UNCHANGED <<rowVars, listVars, deleted, plan, jobs, slot, workVars, browser, late, logins, faultVars>>

\* A WhatsApp message with a run of 4 to 8 digits goes to the newest session
\* that waits for a code, of whatever provider, without a planner run.
ClientWritesCode ==
  LET waiting == {s \in Session : status[s] \in {"logging_in", "awaiting_otp"}}
  IN  /\ waiting # {}
      /\ ~deleted
      /\ codes < MaxCodes
      /\ codes' = codes + 1
      /\ jobs' = jobs \cup {[kind |-> "submit_otp", session |-> Latest(waiting),
                             ref |-> codes + 1, tries |-> 0]}
      /\ UNCHANGED <<rowVars, clientVars, plan, slot, workVars, browser, late, logins, crashes>>

\* The checklist outside the fetch: the client's own files and words, their
\* verification, the planner and the accountant settle and reopen documents.
ListMoves(p) ==
  /\ p \in Edited
  /\ IF p \in collected THEN collected' = collected \ {p} /\ fetched' = fetched \ {p}
                        ELSE collected' = collected \cup {p} /\ UNCHANGED fetched
  /\ UNCHANGED <<rowVars, deleted, mail, plan, jobs, slot, workVars, browser, late, logins, faultVars>>

DeleteClient ==
  /\ ~deleted
  /\ plan = NoPlan
  /\ deleted' = TRUE
  /\ UNCHANGED <<rowVars, listVars, mail, plan, jobs, slot, workVars, browser, late, logins, faultVars>>

-----------------------------------------------------------------------------
(* Jobs.  A handler steps from one await to the next. *)

At(k, pc) == slot[k].pc = pc
Of(k)     == slot[k].job.session
Goto(k, pc) == slot' = [slot EXCEPT ![k].pc = pc]
Done(k)     == slot' = [slot EXCEPT ![k] = Idle]

\* The job is added again, to look once more after a while.
PutOff(j) == jobs' = jobs \cup {[j EXCEPT !.tries = @ + 1]}

TakeJob(k) ==
  /\ up
  /\ At(k, "idle")
  /\ \E j \in jobs :
       /\ slot' = [slot EXCEPT ![k] = [pc |-> j.kind, job |-> j]]
       /\ jobs' = jobs \ {j}
  /\ UNCHANGED <<rowVars, clientVars, plan, workVars, browser, late, logins, faultVars>>

StartReads(k) ==
  /\ At(k, "start_login")
  /\ IF status[Of(k)] \in PreLogin /\ ~deleted THEN Goto(k, "checks") ELSE Done(k)
  /\ UNCHANGED <<rowVars, clientVars, plan, jobs, workVars, browser, late, logins, faultVars>>

\* The agent or the platform was switched off while the job waited.
StartBlocked(k) ==
  /\ At(k, "checks")
  /\ SetStatus(Of(k), "cancelled")
  /\ Done(k)
  /\ UNCHANGED <<portal, attempts, clientVars, plan, jobs, workVars, browser, late, logins, faultVars>>

\* Mutation: off by one in the number of looks.
StartWaitsOnceMore(k) ==
  LET j == slot[k].job
  IN  /\ At(k, "checks")
      /\ mail[j.ref] # "sent"
      /\ IF j.tries <= MaxWaits THEN PutOff(j) ELSE UNCHANGED jobs
      /\ Done(k)
      /\ UNCHANGED <<rowVars, clientVars, plan, workVars, browser, late, logins, faultVars>>

\* The heads-up has not been sent: look again, at last give up.
StartWaits(k) ==
  LET j == slot[k].job
  IN  /\ At(k, "checks")
      /\ mail[j.ref] # "sent"
      /\ IF j.tries < MaxWaits THEN PutOff(j) ELSE UNCHANGED jobs
      /\ Done(k)
      /\ UNCHANGED <<rowVars, clientVars, plan, workVars, browser, late, logins, faultVars>>

Announced(k) == mail[slot[k].job.ref] = "sent"

\* No credentials on file any more.
StartImpossible(k) ==
  /\ At(k, "checks")
  /\ Announced(k)
  /\ SetStatus(Of(k), "failed")
  /\ Done(k)
  /\ UNCHANGED <<portal, attempts, clientVars, plan, jobs, workVars, browser, late, logins, faultVars>>

AtCapacity == Cardinality(tracker) >= MaxLive

StartDeferred(k) ==
  /\ At(k, "checks")
  /\ Announced(k)
  /\ AtCapacity
  /\ Done(k)
  /\ UNCHANGED <<rowVars, clientVars, plan, jobs, workVars, browser, late, logins, faultVars>>

\* Mutation: the row is left alone until the code screen is reached.
StartLoginUnmarked(k) ==
  /\ At(k, "checks")
  /\ Announced(k)
  /\ ~AtCapacity
  /\ Goto(k, "logging")
  /\ UNCHANGED <<rowVars, clientVars, plan, jobs, workVars, browser, late, logins, faultVars>>

StartLogin(k) ==
  /\ At(k, "checks")
  /\ Announced(k)
  /\ ~AtCapacity
  /\ IF Refused(Of(k), "logging_in")
       THEN UNCHANGED status /\ Done(k)
       ELSE SetStatus(Of(k), "logging_in") /\ Goto(k, "logging")
  /\ UNCHANGED <<portal, attempts, clientVars, plan, jobs, workVars, browser, late, logins, faultVars>>

\* close() logs a failing request: the runner's backstop is left to reap.
CloseRemote(s) == browser' \in {browser, browser \ {s}}

\* Mutation: the runner opens a browser for every login.
RunnerAcceptsAll(k) ==
  /\ At(k, "logging")
  /\ Goto(k, "opened")
  /\ UNCHANGED <<rowVars, clientVars, plan, jobs, workVars, browser, late, logins, faultVars>>

\* The runner has a limit of its own; a browser of this session is replaced.
RunnerAccepts(k) ==
  /\ At(k, "logging")
  /\ Cardinality(browser) < MaxLive
  /\ browser' = browser \ {Of(k)}
  /\ Goto(k, "opened")
  /\ UNCHANGED <<rowVars, clientVars, plan, jobs, workVars, late, logins, faultVars>>

\* The page stands on the code screen: the portal has sent the code, and only
\* now does the runner register the browser.
Registers(s) ==
  /\ browser' = browser \cup {s}
  /\ logins' = [logins EXCEPT ![s] = @ + 1]

CodeScreen(k) ==
  /\ At(k, "opened")
  /\ Registers(Of(k))
  /\ Goto(k, "answered")
  /\ UNCHANGED <<rowVars, clientVars, plan, jobs, workVars, late, faultVars>>

LoginSucceeds(k) ==
  /\ At(k, "answered")
  /\ tracker' = tracker \cup {Of(k)}
  /\ Goto(k, "confirm")
  /\ UNCHANGED <<rowVars, clientVars, plan, jobs, expiring, sweep, up, browser, late, logins, faultVars>>

\* The runner is full: back to the status read at the start.
LoginDeferred(k) ==
  /\ At(k, "logging")
  /\ IF Refused(Of(k), "wa_intro_sent") THEN UNCHANGED status ELSE SetStatus(Of(k), "wa_intro_sent")
  /\ Done(k)
  /\ UNCHANGED <<portal, attempts, clientVars, plan, jobs, workVars, browser, late, logins, faultVars>>

\* Drops the browser and fails the session.
Abandon(k) ==
  /\ tracker' = tracker \ {Of(k)}
  /\ CloseRemote(Of(k))
  /\ SetStatus(Of(k), "failed")
  /\ Done(k)

\* The runner cannot be reached or reports a failure, or its answer is lost.
LoginFails(k) ==
  /\ slot[k].pc \in {"logging", "opened", "answered"}
  /\ Abandon(k)
  /\ UNCHANGED <<portal, attempts, clientVars, plan, jobs, expiring, sweep, up, late, logins, faultVars>>

\* The call breaks off or times out: there is no browser to close yet, and the
\* runner goes on.
LoginTimesOut(k) ==
  /\ At(k, "opened")
  /\ Abandon(k)
  /\ late' = late \cup {Of(k)}
  /\ UNCHANGED <<portal, attempts, clientVars, plan, jobs, expiring, sweep, up, logins, faultVars>>

LateLogin(s) ==
  /\ s \in late
  /\ late' = late \ {s}
  /\ Registers(s)
  /\ UNCHANGED <<rowVars, clientVars, plan, jobs, slot, workVars, faultVars>>

\* The late login fails at the portal.
LateLoginFails(s) ==
  /\ s \in late
  /\ late' = late \ {s}
  /\ UNCHANGED <<rowVars, clientVars, plan, jobs, slot, workVars, browser, logins, faultVars>>

LoginConfirmed(k) ==
  /\ At(k, "confirm")
  /\ IF Refused(Of(k), "awaiting_otp")
       THEN Abandon(k)
       ELSE /\ SetStatus(Of(k), "awaiting_otp")
            /\ Done(k)
            /\ UNCHANGED <<tracker, browser>>
  /\ UNCHANGED <<portal, attempts, clientVars, plan, jobs, expiring, sweep, up, late, logins, faultVars>>


\* An early code waits for the login to settle; then the session leaves the
\* tracker, which disarms its timer.
CodeReads(k) ==
  LET j == slot[k].job
      s == j.session
  IN  /\ At(k, "submit_otp")
      /\ IF status[s] = "logging_in"
           THEN /\ IF j.tries < MaxWaits THEN PutOff(j) ELSE UNCHANGED jobs
                /\ Done(k)
                /\ UNCHANGED tracker
           ELSE /\ tracker' = tracker \ {s}
                /\ IF s \in tracker THEN Goto(k, "armed") ELSE Goto(k, "lost")
                /\ UNCHANGED jobs
      /\ UNCHANGED <<rowVars, clientVars, plan, expiring, sweep, up, browser, late, logins, faultVars>>

\* Nobody tracks the session: its timer fired, or the worker was restarted.
CodeTooLate(k) ==
  /\ At(k, "lost")
  /\ CloseRemote(Of(k))
  /\ IF status[Of(k)] = "awaiting_otp" THEN SetStatus(Of(k), "expired") ELSE UNCHANGED status
  /\ Done(k)
  /\ UNCHANGED <<portal, attempts, clientVars, plan, jobs, workVars, late, logins, faultVars>>

CodeOfDeletedClient(k) ==
  /\ At(k, "armed")
  /\ deleted
  /\ CloseRemote(Of(k))
  /\ Done(k)
  /\ UNCHANGED <<rowVars, clientVars, plan, jobs, workVars, late, logins, faultVars>>

CodeBlocked(k) ==
  /\ At(k, "armed")
  /\ ~deleted
  /\ CloseRemote(Of(k))
  /\ SetStatus(Of(k), "cancelled")
  /\ Done(k)
  /\ UNCHANGED <<portal, attempts, clientVars, plan, jobs, workVars, late, logins, faultVars>>

\* A write the index refuses makes the step fail like any other error.
CodeSubmitted(k) ==
  /\ At(k, "armed")
  /\ ~deleted
  /\ IF Refused(Of(k), "verifying")
       THEN Abandon(k)
       ELSE SetStatus(Of(k), "verifying") /\ Goto(k, "verifying") /\ UNCHANGED <<tracker, browser>>
  /\ UNCHANGED <<portal, attempts, clientVars, plan, jobs, expiring, sweep, up, late, logins, faultVars>>

CodeAccepted(k) ==
  /\ At(k, "verifying")
  /\ Of(k) \in browser
  /\ Goto(k, "verified")
  /\ UNCHANGED <<rowVars, clientVars, plan, jobs, workVars, browser, late, logins, faultVars>>

\* Mutation: the timer is not armed again for the next code.
RejectedUntracked(k) ==
  /\ At(k, "verifying")
  /\ Of(k) \in browser
  /\ attempts' = [attempts EXCEPT ![Of(k)] = @ + 1]
  /\ IF attempts[Of(k)] + 1 < MaxOtpAttempts
       THEN Goto(k, "rearm") /\ UNCHANGED <<status, tracker, browser>>
       ELSE Abandon(k)
  /\ UNCHANGED <<portal, clientVars, plan, jobs, expiring, sweep, up, late, logins, faultVars>>

CodeRejected(k) ==
  /\ At(k, "verifying")
  /\ Of(k) \in browser
  /\ attempts' = [attempts EXCEPT ![Of(k)] = @ + 1]
  /\ IF attempts[Of(k)] + 1 < MaxOtpAttempts
       THEN tracker' = tracker \cup {Of(k)} /\ Goto(k, "rearm") /\ UNCHANGED <<status, browser>>
       ELSE Abandon(k)
  /\ UNCHANGED <<portal, clientVars, plan, jobs, expiring, sweep, up, late, logins, faultVars>>

Rearmed(k) ==
  /\ At(k, "rearm")
  /\ IF Refused(Of(k), "awaiting_otp") THEN UNCHANGED status ELSE SetStatus(Of(k), "awaiting_otp")
  /\ Done(k)
  /\ UNCHANGED <<portal, attempts, clientVars, plan, jobs, workVars, browser, late, logins, faultVars>>

SessionGone(k) ==
  /\ At(k, "verifying")
  /\ Of(k) \notin browser
  /\ SetStatus(Of(k), "expired")
  /\ Done(k)
  /\ UNCHANGED <<portal, attempts, clientVars, plan, jobs, workVars, browser, late, logins, faultVars>>

VerificationFails(k) ==
  /\ At(k, "verifying")
  /\ Abandon(k)
  /\ UNCHANGED <<portal, attempts, clientVars, plan, jobs, expiring, sweep, up, late, logins, faultVars>>

BeginDownload(k) ==
  /\ At(k, "verified")
  /\ IF Refused(Of(k), "downloading")
       THEN Abandon(k)
       ELSE SetStatus(Of(k), "downloading") /\ Goto(k, "downloading") /\ UNCHANGED <<tracker, browser>>
  /\ UNCHANGED <<portal, attempts, clientVars, plan, jobs, expiring, sweep, up, late, logins, faultVars>>

DownloadFails(k) ==
  /\ At(k, "downloading")
  /\ Abandon(k)
  /\ UNCHANGED <<portal, attempts, clientVars, plan, jobs, expiring, sweep, up, late, logins, faultVars>>

\* The runner closes after the download; the confirmation goes out, the files
\* are stored and linked, and their checklist items are marked collected.
Downloaded(k) ==
  /\ At(k, "downloading")
  /\ Of(k) \in browser
  /\ browser' = browser \ {Of(k)}
  /\ collected' = collected \cup {portal[Of(k)]}
  /\ fetched' = fetched \cup {portal[Of(k)]}
  /\ Goto(k, "delivering")
  /\ UNCHANGED <<rowVars, deleted, mail, plan, jobs, workVars, late, logins, faultVars>>

Delivered(k) ==
  /\ At(k, "delivering")
  /\ SetStatus(Of(k), "delivered")
  /\ Goto(k, "replanning")
  /\ UNCHANGED <<portal, attempts, clientVars, plan, jobs, workVars, browser, late, logins, faultVars>>

\* The planner runs once more before the handler ends.
Replanned(k) ==
  /\ At(k, "replanning")
  /\ Done(k)
  /\ UNCHANGED <<rowVars, clientVars, plan, jobs, workVars, browser, late, logins, faultVars>>

\* The copies by email, or a write, fail after the documents were collected; or
\* the re-plan throws, and the delivered session is marked failed.
DeliveryFails(k) ==
  /\ slot[k].pc \in {"delivering", "replanning"}
  /\ SetStatus(Of(k), "failed")
  /\ Done(k)
  /\ UNCHANGED <<portal, attempts, clientVars, plan, jobs, workVars, browser, late, logins, faultVars>>

CancelCloses(k) ==
  /\ At(k, "cancel")
  /\ tracker' = tracker \ {Of(k)}
  /\ CloseRemote(Of(k))
  /\ Goto(k, "closed")
  /\ UNCHANGED <<rowVars, clientVars, plan, jobs, expiring, sweep, up, late, logins, faultVars>>

CancelMarks(k) ==
  /\ At(k, "closed")
  /\ IF status[Of(k)] \in Active THEN SetStatus(Of(k), "cancelled") ELSE UNCHANGED status
  /\ Done(k)
  /\ UNCHANGED <<portal, attempts, clientVars, plan, jobs, workVars, browser, late, logins, faultVars>>

-----------------------------------------------------------------------------
(* Timers, the runner's own clean-up, the worker's death and its boot.     *)

\* Ten minutes, far more than the status write that follows the arming takes.
TimerFires(s) ==
  /\ s \in tracker
  /\ ~ \E k \in Slot : slot[k].pc \in {"confirm", "rearm"} /\ Of(k) = s
  /\ tracker' = tracker \ {s}
  /\ expiring' = expiring \cup {s}
  /\ UNCHANGED <<rowVars, clientVars, plan, jobs, slot, sweep, up, browser, late, logins, faultVars>>

Expire(s) ==
  /\ s \in expiring
  /\ expiring' = expiring \ {s}
  /\ CloseRemote(s)
  /\ IF status[s] = "awaiting_otp" THEN SetStatus(s, "expired") ELSE UNCHANGED status
  /\ UNCHANGED <<portal, attempts, clientVars, plan, jobs, slot, tracker, sweep, up, late, logins, faultVars>>

\* The runner reaps what the worker forgot, a minute after the worker's timer.
Backstop(s) ==
  /\ s \in browser \ tracker
  /\ browser' = browser \ {s}
  /\ UNCHANGED <<rowVars, clientVars, plan, jobs, slot, workVars, late, logins, faultVars>>

\* A running job is stalled and is run again.  A login under way goes on at the
\* runner.
Crash ==
  LET running == {k \in Slot : slot[k] # Idle}
  IN  /\ up
      /\ crashes < MaxCrashes
      /\ crashes' = crashes + 1
      /\ up' = FALSE
      /\ tracker' = {}
      /\ expiring' = {}
      /\ sweep' = {}
      /\ slot' = [k \in Slot |-> Idle]
      /\ jobs' = jobs \cup {slot[k].job : k \in running}
      /\ late' = late \cup {Of(k) : k \in {r \in Slot : At(r, "opened")}}
      /\ UNCHANGED <<rowVars, clientVars, plan, browser, logins, codes>>

\* The job worker is started first, the sweep of orphaned rows after it.
Boot ==
  /\ ~up
  /\ up' = TRUE
  /\ sweep' = {NoSession}
  /\ UNCHANGED <<rowVars, clientVars, plan, jobs, slot, tracker, expiring, browser, late, logins, faultVars>>

\* Mutation: a row caught at its login is not swept.
SweepListsSettled ==
  /\ NoSession \in sweep
  /\ sweep' = {s \in Session : status[s] \in LiveBrowser \ {"logging_in"}}
  /\ UNCHANGED <<rowVars, clientVars, plan, jobs, slot, tracker, expiring, up, browser, late, logins, faultVars>>

SweepLists ==
  /\ NoSession \in sweep
  /\ sweep' = {s \in Session : status[s] \in LiveBrowser}
  /\ UNCHANGED <<rowVars, clientVars, plan, jobs, slot, tracker, expiring, up, browser, late, logins, faultVars>>

SweepExpires(s) ==
  /\ s \in sweep \ {NoSession}
  /\ sweep' = sweep \ {s}
  /\ CloseRemote(s)
  /\ SetStatus(s, "expired")
  /\ UNCHANGED <<portal, attempts, clientVars, plan, jobs, slot, tracker, expiring, up, late, logins, faultVars>>

-----------------------------------------------------------------------------
Start(k) ==
  \/ StartReads(k) \/ StartBlocked(k) \/ StartWaits(k) \/ StartImpossible(k)
  \/ StartDeferred(k) \/ StartLogin(k) \/ RunnerAccepts(k) \/ CodeScreen(k) \/ LoginSucceeds(k)
  \/ LoginDeferred(k) \/ LoginFails(k) \/ LoginTimesOut(k) \/ LoginConfirmed(k)

Submit(k) ==
  \/ CodeReads(k) \/ CodeTooLate(k) \/ CodeOfDeletedClient(k) \/ CodeBlocked(k)
  \/ CodeSubmitted(k) \/ CodeAccepted(k) \/ CodeRejected(k) \/ Rearmed(k)
  \/ SessionGone(k) \/ VerificationFails(k) \/ BeginDownload(k)
  \/ DownloadFails(k) \/ Downloaded(k) \/ Delivered(k) \/ Replanned(k) \/ DeliveryFails(k)

Cancel(k) == CancelCloses(k) \/ CancelMarks(k)

Work(k) == Start(k) \/ Submit(k) \/ Cancel(k)

Next ==
  \/ \E p \in Provider : PlanReads(p) \/ ListMoves(p)
  \/ PlanWithoutFetch \/ PlanActs \/ PlanFails
  \/ \E m \in DOMAIN mail : MailSends(m)
  \/ ClientWritesCode \/ DeleteClient
  \/ \E k \in Slot : TakeJob(k) \/ Work(k)
  \/ \E s \in Session :
       TimerFires(s) \/ Expire(s) \/ Backstop(s) \/ SweepExpires(s) \/ LateLogin(s) \/ LateLoginFails(s)
  \/ Crash \/ Boot \/ SweepLists

Spec == Init /\ [][Next]_vars

\* Handlers run to their end, timers fire, a dead worker is restarted.
Fairness ==
  /\ \A k \in Slot : WF_vars(TakeJob(k)) /\ WF_vars(Work(k))
  /\ \A s \in Session : WF_vars(TimerFires(s)) /\ WF_vars(Expire(s)) /\ WF_vars(SweepExpires(s))
  /\ WF_vars(Boot) /\ WF_vars(SweepLists)

FairSpec == Spec /\ Fairness

-----------------------------------------------------------------------------
(* Properties.                                                             *)

TypeOK ==
  /\ status \in [Session -> Status]
  /\ portal \in [Session -> Provider]
  /\ attempts \in [Session -> 0 .. MaxOtpAttempts]
  /\ fetched \subseteq collected /\ collected \subseteq Provider
  /\ deleted \in BOOLEAN
  /\ mail \in [1 .. MaxMails -> {"none", "queued", "sent", "dropped"}]
  /\ jobs \subseteq Job
  /\ \A k \in Slot : slot[k].job \in Job \/ slot[k] = Idle
  /\ tracker \cup expiring \cup browser \cup late \subseteq Session
  /\ sweep \subseteq Session \cup {NoSession}
  /\ up \in BOOLEAN
  /\ logins \in [Session -> Nat]
  /\ codes \in 0 .. MaxCodes
  /\ crashes \in 0 .. MaxCrashes

\* A session makes the portal send a code once, whatever is queued, repeated
\* or restarted: every login fires a real one at the client.
OneLoginPerSession == \A s \in Session : logins[s] <= 1

\* Whoever handles session s now.
Handled(s) == \E k \in Slot : slot[k] # Idle /\ Of(k) = s

\* A row that waits for a code has somebody who will move it on: the timer, its
\* handler, a running job or the boot sweep; else it would block the provider
\* for this client until the next restart.
AwaitingIsWatched ==
  \A s \in Session :
    status[s] = "awaiting_otp" /\ up /\ ~deleted =>
      s \in tracker \cup expiring \cup sweep \/ NoSession \in sweep \/ Handled(s)

\* Logins under way at the runner.
AtRunner == late \cup {Of(k) : k \in {r \in Slot : At(r, "opened")}}

\* No login, and so no code, is asked for documents that a fetch has already
\* brought in, whether it then failed or not, unless somebody reopened them.
\* (Documents that came in otherwise are not looked at again once the planner
\* has asked for the login.)
NoNeedlessLogin ==
  [][\A s \in AtRunner' \ AtRunner : portal[s] \notin fetched]_vars

\* A session that holds a browser comes to an end (or back to before its
\* login): codes that never come, lost browsers, deaths of the worker.
NoFetchHangs ==
  \A s \in Session : status[s] \in LiveBrowser ~> (status[s] \notin LiveBrowser \/ deleted)

\* The three places a session lives in, seen as one life of it: ended sessions
\* stay ended, a login is taken on for a live session and within the limit, and
\* a browser is what a login ends in, as long as the worker lives.  (The boot
\* sweep runs beside the worker it has started, and may end a session that a job
\* is just logging in.)
Phase(s) ==
  CASE status[s] = "none"            -> "absent"
    [] status[s] \in PreLogin        -> "agreed"
    [] status[s] \in LiveBrowser     -> "live"
    [] status[s] \in Ended           -> "ended"

Life == INSTANCE FetchLife WITH
  Sessions <- Session, Limit <- MaxLive,
  phase <- [s \in Session |-> Phase(s)], due <- AtRunner, open <- browser

LivesOneLife == Life!Spec
=============================================================================
