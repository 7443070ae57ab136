--------------------------- MODULE TaxFetchProofs ---------------------------
(***************************************************************************)
(* Theorems about TaxFetch for any number of portals, sessions, codes,     *)
(* heads-up messages and deaths of the worker, with the static runner,     *)
(* where the worker runs one job at a time: with several slots two jobs of *)
(* one session overlap, and OneLoginPerSession fails.  The two theorems    *)
(* about the life of a session suppose a worker that lives.                *)
(***************************************************************************)
EXTENDS TaxFetch, WellFoundedInduction, TLAPS

OneSlot == \A j, k \in Slot : j = k

PC == {"idle", "start_login", "submit_otp", "cancel", "checks", "logging", "opened", "answered",
       "confirm", "lost", "armed", "verifying", "verified", "rearm", "downloading", "delivering",
       "replanning", "closed"}

Plan == {NoPlan} \cup
        [action : {"client_agreed", "start_login", "cancel"}, provider : Provider,
         session : Session \cup {NoSession}, active : BOOLEAN]

\* What the handlers hold, and what the planner decided.
SlotFits ==
  /\ slot \in [Slot -> [pc : PC, job : Job \cup {NoJob}]]
  /\ \A k \in Slot : slot[k].pc = "idle" <=> slot[k] = Idle
  /\ \A k \in Slot : slot[k].pc # "idle" => slot[k].job \in Job

PlanFits ==
  /\ plan \in Plan
  /\ plan.action = "cancel" => plan.session \in Session
  /\ plan # NoPlan /\ plan.active => plan.session \in Session

\* A session logs in while it has only been agreed on, and is never agreed on
\* again; only a session that logged in has a browser, a timer, a code or an
\* attempt, and only one that did not may still do so behind the worker's back.
LoginsFit ==
  /\ \A s \in Session :
       /\ logins[s] \in {0, 1}
       /\ status[s] \in {"none"} \cup PreLogin => logins[s] = 0 /\ s \notin late
       /\ logins[s] = 0 => attempts[s] = 0 /\ s \notin tracker \cup expiring \cup browser
       /\ logins[s] = 1 => s \notin late
       /\ s \in tracker => attempts[s] < MaxOtpAttempts
  /\ \A k \in Slot :
       /\ slot[k].pc \in {"checks", "logging", "opened"} => logins[Of(k)] = 0 /\ Of(k) \notin late
       /\ slot[k].pc \in {"logging", "opened", "answered", "confirm"} =>
            status[Of(k)] \notin {"none"} \cup PreLogin
       /\ slot[k].pc \in {"answered", "confirm", "armed", "verifying", "verified", "rearm"} =>
            logins[Of(k)] = 1 /\ attempts[Of(k)] < MaxOtpAttempts

\* Who watches a session that waits for a code.
Watcher(k, s) == slot[k].pc \in {"armed", "lost", "closed"} /\ Of(k) = s

WatchFits ==
  /\ \A k \in Slot : slot[k].pc \in {"confirm", "rearm"} => Of(k) \in tracker
  /\ \A s \in Session :
       status[s] = "awaiting_otp" /\ up /\ ~deleted =>
         \/ s \in tracker \cup expiring \cup sweep \/ NoSession \in sweep
         \/ \E k \in Slot : Watcher(k, s)

\* As long as the worker lives, the row of a session agrees with its handler
\* and its timer.
RowFits(k) ==
  /\ slot[k].pc = "checks" => status[Of(k)] \in PreLogin
  /\ slot[k].pc \in {"logging", "opened", "answered", "confirm"} => status[Of(k)] = "logging_in"
  /\ slot[k].pc = "armed" => status[Of(k)] = "awaiting_otp"
  /\ slot[k].pc \in {"verifying", "verified", "rearm"} => status[Of(k)] = "verifying"
  /\ slot[k].pc \in {"downloading", "delivering"} => status[Of(k)] = "downloading"
  /\ slot[k].pc = "replanning" => status[Of(k)] = "delivered"
  /\ slot[k].pc \in {"answered", "confirm", "armed", "verifying", "verified", "rearm", "downloading",
                    "delivering"} => Of(k) \notin expiring
  /\ slot[k].pc \in {"armed", "lost", "closed"} => Of(k) \notin tracker

TrackFits(s) ==
  /\ s \in tracker => s \notin expiring
  /\ s \in tracker =>
       \/ status[s] = "awaiting_otp"
       \/ \E k \in Slot : slot[k].pc \in {"confirm", "rearm"} /\ Of(k) = s

LifeFits ==
  /\ up /\ sweep = {}
  /\ \A k \in Slot : RowFits(k)
  /\ \A s \in Session : TrackFits(s)

\* As long as the worker lives, the active session of a portal is one, and no
\* fetch has brought in its documents before it downloads.
NeedFits ==
  /\ \A s, t \in Session :
       portal[s] = portal[t] /\ status[s] \in Active /\ status[t] \in Active => s = t
  /\ \A s \in Session : status[s] \in Active \ {"downloading"} => portal[s] \notin fetched
  /\ plan # NoPlan /\ plan.action # "cancel" /\ ~plan.active =>
       ActiveOf(plan.provider) = {} /\ plan.provider \notin fetched

-----------------------------------------------------------------------------
(* The newest of some sessions is one of them.                             *)
LEMMA LatestIsOneOf ==
  ASSUME NEW S \in SUBSET Session, S # {}
  PROVE  Latest(S) \in S
<1> DEFINE less == OpToRel(<, Nat)
           T == {MaxSessions - s : s \in S}
<1>1. MaxSessions \in Nat /\ \A s \in S : s \in Nat /\ s <= MaxSessions
  BY FetchAssumption DEF Session
<1>2. T \subseteq Nat /\ T # {}
  BY <1>1
<1>3. PICK x \in T : \A y \in T : ~(<<y, x>> \in less)
  BY <1>2, WFMin, NatLessThanWellFounded
<1>4. \A y \in T : ~(y < x)
  BY <1>2, <1>3 DEF OpToRel
<1> HIDE DEF less
<1>5. PICK s \in S : x = MaxSessions - s
  BY <1>3
<1>6. \A t \in S : t <= s
  <2> SUFFICES ASSUME NEW t \in S PROVE t <= s
    OBVIOUS
  <2>1. ~(MaxSessions - t < MaxSessions - s)
    BY <1>4, <1>5
  <2> QED BY <1>1, <2>1
<1> QED
  BY <1>5, <1>6 DEF Latest

LEMMA ContextSessionType ==
  ASSUME TypeOK, NEW p \in Provider
  PROVE  /\ ContextSession(p) \in Session \cup {NoSession}
         /\ ActiveOf(p) # {} => ContextSession(p) \in ActiveOf(p)
<1>1. ActiveOf(p) # {} => Latest(ActiveOf(p)) \in ActiveOf(p)
  BY LatestIsOneOf DEF ActiveOf
<1>2. {s \in Created : portal[s] = p} # {} => Latest({s \in Created : portal[s] = p}) \in Session
  BY LatestIsOneOf DEF Created
<1> QED
  BY <1>1, <1>2 DEF ContextSession, ActiveOf

\* What the planner may decide on, by the session it reads.
LEMMA AllowedActionsSound ==
  ASSUME TypeOK, NEW p \in Provider, NEW a \in AllowedActions(p)
  PROVE  /\ a \in {"client_agreed", "start_login", "cancel"}
         /\ a = "cancel" => ContextSession(p) \in Session
         /\ a # "cancel" => p \notin collected
BY ContextSessionType DEF AllowedActions, PreLogin

-----------------------------------------------------------------------------
(* How a handler moves.                                                    *)
LEMMA JobFacts ==
  ASSUME SlotFits, NEW k \in Slot, slot[k].pc # "idle"
  PROVE  slot[k].job \in Job /\ Of(k) \in Session /\ slot[k].pc \in PC
BY DEF SlotFits, Of, Job

LEMMA SlotType == SlotFits => \A k \in Slot : slot[k].job \in Job \/ slot[k] = Idle
BY DEF SlotFits

LEMMA GotoFits ==
  ASSUME SlotFits, NEW k \in Slot, slot[k].pc # "idle", NEW pc \in PC \ {"idle"}, Goto(k, pc)
  PROVE  /\ SlotFits'
         /\ slot'[k].pc = pc /\ slot'[k].job = slot[k].job
         /\ \A j \in Slot : j # k => slot'[j] = slot[j]
BY DEF SlotFits, Goto, Idle, Job, NoJob

LEMMA DoneFits ==
  ASSUME SlotFits, NEW k \in Slot, Done(k)
  PROVE  /\ SlotFits'
         /\ slot'[k].pc = "idle" /\ slot'[k] = Idle
         /\ \A j \in Slot : j # k => slot'[j] = slot[j]
BY DEF SlotFits, Done, Idle, PC

LEMMA Moves ==
  ASSUME SlotFits, NEW k \in Slot, slot[k].pc # "idle"
  PROVE  /\ \A pc \in PC \ {"idle"} : Goto(k, pc) => slot'[k].pc = pc /\ Of(k)' = Of(k)
         /\ Done(k) => slot'[k].pc = "idle"
BY DEF SlotFits, Goto, Done, Idle, Of

LEMMA PutOffType ==
  ASSUME TypeOK, NEW j \in Job, j.tries < MaxWaits, PutOff(j)
  PROVE  jobs' \subseteq Job
<1>1. j.tries + 1 \in 0 .. MaxWaits
  BY FetchAssumption DEF Job
<1>2. [j EXCEPT !.tries = @ + 1] \in Job
  BY <1>1 DEF Job
<1> QED
  BY <1>2 DEF TypeOK, PutOff

-----------------------------------------------------------------------------
(* Types.                                                                  *)
TypeInv == TypeOK /\ SlotFits /\ PlanFits /\ LoginsFit /\ WatchFits

LEMMA SlotWork ==
  ASSUME TypeInv, NEW k \in Slot, Work(k)
  PROVE  SlotFits'
<1>1. CASE StartReads(k)
  BY <1>1, GotoFits, DoneFits DEF StartReads, At, Goto, Done, Of, TypeInv, PC
<1>2. CASE StartBlocked(k)
  BY <1>2, GotoFits, DoneFits DEF StartBlocked, At, Done, SetStatus, Of, TypeInv, PC
<1>3. CASE StartWaits(k)
  BY <1>3, GotoFits, DoneFits DEF StartWaits, At, Done, PutOff, TypeInv, PC
<1>4. CASE StartImpossible(k)
  BY <1>4, GotoFits, DoneFits DEF StartImpossible, At, Done, SetStatus, Of, Announced, TypeInv, PC
<1>5. CASE StartDeferred(k)
  BY <1>5, GotoFits, DoneFits DEF StartDeferred, At, Done, Announced, AtCapacity, TypeInv, PC
<1>6. CASE StartLogin(k)
  BY <1>6, GotoFits, DoneFits DEF StartLogin, At, Goto, Done, SetStatus, Of, Announced, AtCapacity,
       Refused, TypeInv, PC
<1>7. CASE RunnerAccepts(k)
  BY <1>7, GotoFits, DoneFits DEF RunnerAccepts, At, Goto, Of, TypeInv, PC
<1>8. CASE LoginSucceeds(k)
  BY <1>8, GotoFits, DoneFits DEF LoginSucceeds, At, Goto, Of, TypeInv, PC
<1>9. CASE LoginDeferred(k)
  BY <1>9, GotoFits, DoneFits DEF LoginDeferred, At, Done, SetStatus, Of, Refused, TypeInv, PC
<1>10. CASE LoginFails(k)
  BY <1>10, GotoFits, DoneFits DEF LoginFails, At, Abandon, Done, SetStatus, Of, TypeInv, PC
<1>11. CASE LoginConfirmed(k)
  BY <1>11, GotoFits, DoneFits DEF LoginConfirmed, At, Abandon, Done, SetStatus, Of, Refused,
       TypeInv, PC
<1>12. CASE CodeReads(k)
  BY <1>12, GotoFits, DoneFits DEF CodeReads, At, Goto, Done, PutOff, TypeInv, PC
<1>13. CASE CodeTooLate(k)
  BY <1>13, GotoFits, DoneFits DEF CodeTooLate, At, Done, SetStatus, Of, TypeInv, PC
<1>14. CASE CodeOfDeletedClient(k)
  BY <1>14, GotoFits, DoneFits DEF CodeOfDeletedClient, At, Done, Of, TypeInv, PC
<1>15. CASE CodeBlocked(k)
  BY <1>15, GotoFits, DoneFits DEF CodeBlocked, At, Done, SetStatus, Of, TypeInv, PC
<1>16. CASE CodeSubmitted(k)
  BY <1>16, GotoFits, DoneFits DEF CodeSubmitted, At, Abandon, Goto, Done, SetStatus, Of, Refused,
       TypeInv, PC
<1>17. CASE CodeAccepted(k)
  BY <1>17, GotoFits, DoneFits DEF CodeAccepted, At, Goto, Of, TypeInv, PC
<1>18. CASE CodeRejected(k)
  BY <1>18, GotoFits, DoneFits DEF CodeRejected, At, Abandon, Goto, Done, SetStatus, Of, TypeInv, PC
<1>19. CASE Rearmed(k)
  BY <1>19, GotoFits, DoneFits DEF Rearmed, At, Done, SetStatus, Of, Refused, TypeInv, PC
<1>20. CASE SessionGone(k)
  BY <1>20, GotoFits, DoneFits DEF SessionGone, At, Done, SetStatus, Of, TypeInv, PC
<1>21. CASE VerificationFails(k)
  BY <1>21, GotoFits, DoneFits DEF VerificationFails, At, Abandon, Done, SetStatus, Of, TypeInv, PC
<1>22. CASE BeginDownload(k)
  BY <1>22, GotoFits, DoneFits DEF BeginDownload, At, Abandon, Goto, Done, SetStatus, Of, Refused,
       TypeInv, PC
<1>23. CASE DownloadFails(k)
  BY <1>23, GotoFits, DoneFits DEF DownloadFails, At, Abandon, Done, SetStatus, Of, TypeInv, PC
<1>24. CASE Downloaded(k)
  BY <1>24, GotoFits, DoneFits DEF Downloaded, At, Goto, Of, TypeInv, PC
<1>25. CASE Delivered(k)
  BY <1>25, GotoFits, DoneFits DEF Delivered, At, Goto, SetStatus, Of, TypeInv, PC
<1>26. CASE DeliveryFails(k)
  BY <1>26, GotoFits, DoneFits DEF DeliveryFails, At, Done, SetStatus, Of, TypeInv, PC
<1>27. CASE CancelCloses(k)
  BY <1>27, GotoFits, DoneFits DEF CancelCloses, At, Goto, Of, TypeInv, PC
<1>28. CASE CancelMarks(k)
  BY <1>28, GotoFits, DoneFits DEF CancelMarks, At, Done, SetStatus, Of, TypeInv, PC
<1>29. CASE CodeScreen(k)
  BY <1>29, GotoFits DEF CodeScreen, At, Goto, Of, TypeInv, PC
<1>30. CASE LoginTimesOut(k)
  BY <1>30, DoneFits DEF LoginTimesOut, At, Abandon, Done, SetStatus, Of, TypeInv, PC
<1>31. CASE Replanned(k)
  BY <1>31, DoneFits DEF Replanned, At, Done, TypeInv, PC
<1> QED
  BY <1>1, <1>2, <1>3, <1>4, <1>5, <1>6, <1>7, <1>8, <1>9, <1>10, <1>11,
       <1>12, <1>13, <1>14, <1>15, <1>16, <1>17, <1>18, <1>19, <1>20, <1>21, <1>22, <1>23,
       <1>24, <1>25, <1>26, <1>27, <1>28, <1>29, <1>30, <1>31
       DEF Work, Start, Submit, Cancel

LEMMA TypeWork ==
  ASSUME TypeInv, SlotFits', NEW k \in Slot, Work(k)
  PROVE  TypeOK'
<1> USE DEF rowVars, listVars, clientVars, workVars, faultVars
<1>a. \A j \in Slot : slot'[j].job \in Job \/ slot'[j] = Idle
  BY DEF SlotFits
<1>1. CASE StartReads(k)
  <2>1. Of(k) \in Session
    BY <1>1, JobFacts DEF StartReads, At, TypeInv
  <2> QED BY <1>1, <2>1, <1>a DEF StartReads, At, TypeInv, TypeOK, Status, Active, PreLogin,
       LiveBrowser, Ended
<1>2. CASE StartBlocked(k)
  <2>1. Of(k) \in Session
    BY <1>2, JobFacts DEF StartBlocked, At, TypeInv
  <2> QED BY <1>2, <2>1, <1>a DEF StartBlocked, At, SetStatus, TypeInv, TypeOK, Status, Active,
       PreLogin, LiveBrowser, Ended
<1>3. CASE StartWaits(k)
  <2>1. jobs' \subseteq Job
    BY <1>3, JobFacts, PutOffType DEF StartWaits, At, Of, TypeInv, TypeOK
  <2> QED BY <1>3, <2>1, <1>a, JobFacts DEF StartWaits, At, Of, TypeInv, TypeOK
<1>4. CASE StartImpossible(k)
  <2>1. Of(k) \in Session
    BY <1>4, JobFacts DEF StartImpossible, At, TypeInv
  <2> QED BY <1>4, <2>1, <1>a DEF StartImpossible, At, SetStatus, TypeInv, TypeOK, Status, Active,
       PreLogin, LiveBrowser, Ended
<1>5. CASE StartDeferred(k)
  <2>1. Of(k) \in Session
    BY <1>5, JobFacts DEF StartDeferred, At, TypeInv
  <2> QED BY <1>5, <2>1, <1>a DEF StartDeferred, At, TypeInv, TypeOK, Status, Active, PreLogin,
       LiveBrowser, Ended
<1>6. CASE StartLogin(k)
  <2>1. Of(k) \in Session
    BY <1>6, JobFacts DEF StartLogin, At, TypeInv
  <2> QED BY <1>6, <2>1, <1>a DEF StartLogin, At, SetStatus, TypeInv, TypeOK, Status, Active,
       PreLogin, LiveBrowser, Ended
<1>7. CASE RunnerAccepts(k)
  <2>1. Of(k) \in Session
    BY <1>7, JobFacts DEF RunnerAccepts, At, TypeInv
  <2> QED BY <1>7, <2>1, <1>a DEF RunnerAccepts, At, TypeInv, TypeOK, Status, Active, PreLogin,
       LiveBrowser, Ended
<1>8. CASE LoginSucceeds(k)
  <2>1. Of(k) \in Session
    BY <1>8, JobFacts DEF LoginSucceeds, At, TypeInv
  <2> QED BY <1>8, <2>1, <1>a DEF LoginSucceeds, At, TypeInv, TypeOK, Status, Active, PreLogin,
       LiveBrowser, Ended
<1>9. CASE LoginDeferred(k)
  <2>1. Of(k) \in Session
    BY <1>9, JobFacts DEF LoginDeferred, At, TypeInv
  <2> QED BY <1>9, <2>1, <1>a DEF LoginDeferred, At, SetStatus, TypeInv, TypeOK, Status, Active,
       PreLogin, LiveBrowser, Ended
<1>10. CASE LoginFails(k)
  <2>1. Of(k) \in Session
    BY <1>10, JobFacts DEF LoginFails, At, TypeInv
  <2> QED BY <1>10, <2>1, <1>a DEF LoginFails, At, Abandon, CloseRemote, SetStatus, TypeInv,
       TypeOK, Status,
       Active, PreLogin, LiveBrowser, Ended
<1>11. CASE LoginConfirmed(k)
  <2>1. Of(k) \in Session
    BY <1>11, JobFacts DEF LoginConfirmed, At, TypeInv
  <2> QED BY <1>11, <2>1, <1>a DEF LoginConfirmed, At, Abandon, CloseRemote, SetStatus, TypeInv,
       TypeOK, Status,
       Active, PreLogin, LiveBrowser, Ended
<1>12. CASE CodeReads(k)
  <2>1. jobs' \subseteq Job
    BY <1>12, JobFacts, PutOffType DEF CodeReads, At, Of, TypeInv, TypeOK
  <2> QED BY <1>12, <2>1, <1>a, JobFacts DEF CodeReads, At, Of, TypeInv, TypeOK
<1>13. CASE CodeTooLate(k)
  <2>1. Of(k) \in Session
    BY <1>13, JobFacts DEF CodeTooLate, CloseRemote, At, TypeInv
  <2> QED BY <1>13, <2>1, <1>a DEF CodeTooLate, CloseRemote, At, SetStatus, TypeInv, TypeOK,
       Status, Active,
       PreLogin, LiveBrowser, Ended
<1>14. CASE CodeOfDeletedClient(k)
  <2>1. Of(k) \in Session
    BY <1>14, JobFacts DEF CodeOfDeletedClient, CloseRemote, At, TypeInv
  <2> QED BY <1>14, <2>1, <1>a DEF CodeOfDeletedClient, CloseRemote, At, TypeInv, TypeOK, Status,
       Active,
       PreLogin, LiveBrowser, Ended
<1>15. CASE CodeBlocked(k)
  <2>1. Of(k) \in Session
    BY <1>15, JobFacts DEF CodeBlocked, CloseRemote, At, TypeInv
  <2> QED BY <1>15, <2>1, <1>a DEF CodeBlocked, CloseRemote, At, SetStatus, TypeInv, TypeOK,
       Status, Active,
       PreLogin, LiveBrowser, Ended
<1>16. CASE CodeSubmitted(k)
  <2>1. Of(k) \in Session
    BY <1>16, JobFacts DEF CodeSubmitted, At, TypeInv
  <2> QED BY <1>16, <2>1, <1>a DEF CodeSubmitted, At, Abandon, CloseRemote, SetStatus, TypeInv,
       TypeOK, Status,
       Active, PreLogin, LiveBrowser, Ended
<1>17. CASE CodeAccepted(k)
  <2>1. Of(k) \in Session
    BY <1>17, JobFacts DEF CodeAccepted, At, TypeInv
  <2> QED BY <1>17, <2>1, <1>a DEF CodeAccepted, At, TypeInv, TypeOK, Status, Active, PreLogin,
       LiveBrowser, Ended
<1>18. CASE CodeRejected(k)
  <2>1. Of(k) \in Session /\ attempts[Of(k)] + 1 \in 0 .. MaxOtpAttempts
    BY <1>18, JobFacts, FetchAssumption DEF CodeRejected, At, TypeInv, TypeOK, LoginsFit
  <2> QED BY <1>18, <2>1, <1>a DEF CodeRejected, Abandon, CloseRemote, SetStatus, TypeInv,
       TypeOK, Status, Ended
<1>19. CASE Rearmed(k)
  <2>1. Of(k) \in Session
    BY <1>19, JobFacts DEF Rearmed, At, TypeInv
  <2> QED BY <1>19, <2>1, <1>a DEF Rearmed, At, SetStatus, TypeInv, TypeOK, Status, Active,
       PreLogin, LiveBrowser, Ended
<1>20. CASE SessionGone(k)
  <2>1. Of(k) \in Session
    BY <1>20, JobFacts DEF SessionGone, At, TypeInv
  <2> QED BY <1>20, <2>1, <1>a DEF SessionGone, At, SetStatus, TypeInv, TypeOK, Status, Active,
       PreLogin, LiveBrowser, Ended
<1>21. CASE VerificationFails(k)
  <2>1. Of(k) \in Session
    BY <1>21, JobFacts DEF VerificationFails, At, TypeInv
  <2> QED BY <1>21, <2>1, <1>a DEF VerificationFails, At, Abandon, CloseRemote, SetStatus,
       TypeInv, TypeOK,
       Status, Active, PreLogin, LiveBrowser, Ended
<1>22. CASE BeginDownload(k)
  <2>1. Of(k) \in Session
    BY <1>22, JobFacts DEF BeginDownload, At, TypeInv
  <2> QED BY <1>22, <2>1, <1>a DEF BeginDownload, At, Abandon, CloseRemote, SetStatus, TypeInv,
       TypeOK, Status,
       Active, PreLogin, LiveBrowser, Ended
<1>23. CASE DownloadFails(k)
  <2>1. Of(k) \in Session
    BY <1>23, JobFacts DEF DownloadFails, At, TypeInv
  <2> QED BY <1>23, <2>1, <1>a DEF DownloadFails, At, Abandon, CloseRemote, SetStatus, TypeInv,
       TypeOK, Status,
       Active, PreLogin, LiveBrowser, Ended
<1>24. CASE Downloaded(k)
  <2>1. Of(k) \in Session
    BY <1>24, JobFacts DEF Downloaded, At, TypeInv
  <2> QED BY <1>24, <2>1, <1>a DEF Downloaded, At, TypeInv, TypeOK, Status, Active, PreLogin,
       LiveBrowser, Ended
<1>25. CASE Delivered(k)
  <2>1. Of(k) \in Session
    BY <1>25, JobFacts DEF Delivered, At, TypeInv
  <2> QED BY <1>25, <2>1, <1>a DEF Delivered, At, SetStatus, TypeInv, TypeOK, Status, Active,
       PreLogin, LiveBrowser, Ended
<1>26. CASE DeliveryFails(k)
  <2>1. Of(k) \in Session
    BY <1>26, JobFacts DEF DeliveryFails, At, TypeInv
  <2> QED BY <1>26, <2>1, <1>a DEF DeliveryFails, At, SetStatus, TypeInv, TypeOK, Status, Active,
       PreLogin, LiveBrowser, Ended
<1>27. CASE CancelCloses(k)
  <2>1. Of(k) \in Session
    BY <1>27, JobFacts DEF CancelCloses, CloseRemote, At, TypeInv
  <2> QED BY <1>27, <2>1, <1>a DEF CancelCloses, CloseRemote, At, TypeInv, TypeOK, Status,
       Active, PreLogin,
       LiveBrowser, Ended
<1>28. CASE CancelMarks(k)
  <2>1. Of(k) \in Session
    BY <1>28, JobFacts DEF CancelMarks, At, TypeInv
  <2> QED BY <1>28, <2>1, <1>a DEF CancelMarks, At, SetStatus, TypeInv, TypeOK, Status, Active,
       PreLogin, LiveBrowser, Ended
<1>29. CASE CodeScreen(k)
  <2>1. Of(k) \in Session
    BY <1>29, JobFacts DEF CodeScreen, At, TypeInv
  <2> QED BY <1>29, <2>1, <1>a DEF CodeScreen, Registers, TypeInv, TypeOK
<1>30. CASE LoginTimesOut(k)
  <2>1. Of(k) \in Session
    BY <1>30, JobFacts DEF LoginTimesOut, At, TypeInv
  <2> QED BY <1>30, <2>1, <1>a DEF LoginTimesOut, Abandon, CloseRemote, SetStatus, TypeInv, TypeOK,
       Status, Ended
<1>31. CASE Replanned(k)
  BY <1>31, <1>a DEF Replanned, TypeInv, TypeOK
<1> QED
  BY <1>1, <1>2, <1>3, <1>4, <1>5, <1>6, <1>7, <1>8, <1>9, <1>10, <1>11,
       <1>12, <1>13, <1>14, <1>15, <1>16, <1>17, <1>18, <1>19, <1>20, <1>21, <1>22, <1>23,
       <1>24, <1>25, <1>26, <1>27, <1>28, <1>29, <1>30, <1>31
       DEF Work, Start, Submit, Cancel

\* The planner, the client, the timers, and the worker's death and boot.
Around ==
  \/ \E p \in Provider : PlanReads(p) \/ ListMoves(p)
  \/ PlanWithoutFetch \/ PlanActs \/ PlanFails
  \/ \E m \in DOMAIN mail : MailSends(m)
  \/ ClientWritesCode \/ DeleteClient
  \/ \E k \in Slot : TakeJob(k)
  \/ \E s \in Session :
       TimerFires(s) \/ Expire(s) \/ Backstop(s) \/ SweepExpires(s) \/ LateLogin(s) \/ LateLoginFails(s)
  \/ Crash \/ Boot \/ SweepLists

LEMMA FetchSessionType ==
  ASSUME TypeOK, PlanFits, plan # NoPlan, NEW s \in Session, FetchSession(s)
  PROVE  status' \in [Session -> Status] /\ status' \in {status, [status EXCEPT ![s] = "wa_intro_sent"]}
BY DEF FetchSession, SetStatus, TypeOK, Status, Active, PreLogin

LEMMA NotNoPlan == \A a \in {"client_agreed", "start_login", "cancel"} : plan.action = a => plan # NoPlan
BY DEF NoPlan

LEMMA PlanActsType ==
  ASSUME TypeOK, PlanFits, PlanActs
  PROVE  TypeOK' /\ PlanFits'
<1> USE DEF rowVars, listVars, clientVars, workVars, faultVars
<1>1. PlanFits'
  BY DEF PlanActs, PlanFits, Plan, NoPlan
<1>2. CASE PlanAgrees
  <2>1. status' \in [Session -> Status]
    BY <1>2, FetchSessionType, NotNoPlan DEF PlanAgrees, TypeOK
  <2> QED BY <1>1, <1>2, <2>1 DEF PlanActs, PlanAgrees, TypeOK
<1>3. CASE PlanStartsLogin
  <2>1. PICK m \in DOMAIN mail :
          /\ mail' = [mail EXCEPT ![m] = "queued"]
          /\ \/ \E s \in Session :
                  /\ FetchSession(s)
                  /\ jobs' = jobs \cup {[kind |-> "start_login", session |-> s, ref |-> m, tries |-> 0]}
             \/ UNCHANGED <<status, jobs>>
    BY <1>3 DEF PlanStartsLogin
  <2>2. m \in 1 .. MaxMails /\ m \in 0 .. (MaxMails + MaxCodes) /\ 0 \in 0 .. MaxWaits
    BY <2>1, FetchAssumption DEF TypeOK
  <2>3. status' \in [Session -> Status] /\ jobs' \subseteq Job
    <3>1. CASE UNCHANGED <<status, jobs>>
      BY <3>1 DEF TypeOK
    <3>2. ASSUME NEW s \in Session, FetchSession(s),
                 jobs' = jobs \cup {[kind |-> "start_login", session |-> s, ref |-> m, tries |-> 0]}
          PROVE  status' \in [Session -> Status] /\ jobs' \subseteq Job
      BY SMTT(30), <1>3, <2>2, <3>2, FetchSessionType, NotNoPlan DEF PlanStartsLogin, TypeOK, Job
    <3> QED BY <2>1, <3>1, <3>2
  <2> QED BY <1>1, <1>3, <2>1, <2>2, <2>3 DEF PlanActs, TypeOK
<1>4. CASE PlanCancels
  <2>1. [kind |-> "cancel", session |-> plan.session, ref |-> 0, tries |-> 0] \in Job
    BY <1>4, FetchAssumption DEF PlanCancels, PlanFits, Job
  <2> QED BY <1>1, <1>4, <2>1 DEF PlanActs, PlanCancels, TypeOK
<1> QED
  BY <1>1, <1>2, <1>3, <1>4 DEF PlanActs

LEMMA TypeAround ==
  ASSUME TypeInv, Around \/ UNCHANGED vars
  PROVE  TypeOK' /\ SlotFits' /\ PlanFits'
<1> USE DEF rowVars, listVars, clientVars, workVars, faultVars, TypeInv
<1>1. ASSUME NEW p \in Provider, PlanReads(p) PROVE TypeOK' /\ SlotFits' /\ PlanFits'
  <2>1. mail' \in [1 .. MaxMails -> {"none", "queued", "sent", "dropped"}]
    BY <1>1 DEF PlanReads, Superseded, TypeOK
  <2>2. PICK a \in AllowedActions(p) :
          plan' = [action |-> a, provider |-> p, session |-> ContextSession(p), active |-> ActiveOf(p) # {}]
    BY <1>1 DEF PlanReads
  <2>3. /\ a \in {"client_agreed", "start_login", "cancel"} /\ (a = "cancel" => ContextSession(p) \in Session)
        /\ ContextSession(p) \in Session \cup {NoSession} /\ (ActiveOf(p) # {} => ContextSession(p) \in Session)
        /\ (ActiveOf(p) # {}) \in BOOLEAN
    BY AllowedActionsSound, ContextSessionType DEF ActiveOf
  <2>4. PlanFits'
    BY <2>2, <2>3 DEF PlanFits, Plan
  <2> QED BY <1>1, <2>1, <2>4 DEF PlanReads, TypeOK, SlotFits
<1>2. CASE PlanWithoutFetch
  <2>1. mail' \in [1 .. MaxMails -> {"none", "queued", "sent", "dropped"}]
    BY <1>2 DEF PlanWithoutFetch, Superseded, TypeOK
  <2> QED BY <1>2, <2>1 DEF PlanWithoutFetch, TypeOK, SlotFits, PlanFits
<1>3. CASE PlanActs
  BY <1>3, PlanActsType DEF PlanActs, SlotFits
<1>4. CASE PlanFails
  BY <1>4 DEF PlanFails, TypeOK, SlotFits, PlanFits, Plan, NoPlan
<1>5. ASSUME NEW m \in DOMAIN mail, MailSends(m) PROVE TypeOK' /\ SlotFits' /\ PlanFits'
  BY <1>5 DEF MailSends, TypeOK, SlotFits, PlanFits
<1>6. CASE ClientWritesCode
  <2> DEFINE waiting == {s \in Session : status[s] \in {"logging_in", "awaiting_otp"}}
  <2>1. Latest(waiting) \in Session
    BY <1>6, LatestIsOneOf DEF ClientWritesCode
  <2>2. codes + 1 \in 0 .. (MaxMails + MaxCodes) /\ 0 \in 0 .. MaxWaits /\ codes + 1 \in 0 .. MaxCodes
    BY <1>6, FetchAssumption DEF ClientWritesCode, TypeOK
  <2>3. [kind |-> "submit_otp", session |-> Latest(waiting), ref |-> codes + 1, tries |-> 0] \in Job
    BY <2>1, <2>2 DEF Job
  <2> QED BY <1>6, <2>2, <2>3 DEF ClientWritesCode, TypeOK, SlotFits, PlanFits
<1>7. CASE DeleteClient
  BY <1>7 DEF DeleteClient, TypeOK, SlotFits, PlanFits
<1>8. ASSUME NEW k \in Slot, TakeJob(k) PROVE TypeOK' /\ SlotFits' /\ PlanFits'
  <2>1. PICK j \in jobs : slot' = [slot EXCEPT ![k] = [pc |-> j.kind, job |-> j]] /\ jobs' = jobs \ {j}
    BY <1>8 DEF TakeJob
  <2>2. j \in Job /\ j.kind \in PC \ {"idle"}
    BY <2>1 DEF TypeOK, Job, PC
  <2>3. SlotFits'
    BY <2>1, <2>2 DEF SlotFits, Idle
  <2> QED BY <1>8, <2>1, <2>3 DEF TakeJob, TypeOK, SlotFits, PlanFits
<1>9. ASSUME NEW s \in Session, TimerFires(s) \/ Expire(s) \/ Backstop(s) \/ SweepExpires(s)
      PROVE  TypeOK' /\ SlotFits' /\ PlanFits'
  <2>1. SlotFits' /\ PlanFits'
    BY <1>9 DEF TimerFires, Expire, Backstop, SweepExpires, SlotFits, PlanFits
  <2>2. status' \in [Session -> Status]
    BY <1>9 DEF TimerFires, Expire, Backstop, SweepExpires, SetStatus, TypeOK, Status, Ended
  <2>3. (tracker \cup expiring \cup browser \cup late)' \subseteq Session
    BY <1>9 DEF TimerFires, Expire, Backstop, SweepExpires, CloseRemote, TypeOK
  <2>4. sweep' \subseteq Session \cup {NoSession}
    BY <1>9 DEF TimerFires, Expire, Backstop, SweepExpires, TypeOK
  <2> QED BY <1>9, <2>1, <2>2, <2>3, <2>4 DEF TimerFires, Expire, Backstop, SweepExpires, TypeOK
<1>10. CASE Crash
  <2>1. jobs' \subseteq Job
    <3>1. \A k \in Slot : slot[k] # Idle => slot[k].job \in Job
      BY DEF TypeOK
    <3> QED BY <1>10, <3>1 DEF Crash, TypeOK
  <2>2. late' \subseteq Session
    BY <1>10, JobFacts DEF Crash, At, TypeOK
  <2>3. SlotFits'
    BY <1>10 DEF Crash, SlotFits, Idle, PC
  <2>4. crashes' \in 0 .. MaxCrashes
    BY <1>10, FetchAssumption DEF Crash, TypeOK
  <2>5. PlanFits'
    BY <1>10 DEF Crash, PlanFits
  <2> QED BY <1>10, <2>1, <2>2, <2>3, <2>4, <2>5 DEF Crash, TypeOK
<1>11. CASE Boot \/ SweepLists
  BY <1>11 DEF Boot, SweepLists, TypeOK, SlotFits, PlanFits
<1>12. CASE UNCHANGED vars
  BY <1>12 DEF vars, TypeOK, SlotFits, PlanFits
<1>13. ASSUME NEW p \in Provider, ListMoves(p) PROVE TypeOK' /\ SlotFits' /\ PlanFits'
  BY <1>13 DEF ListMoves, TypeOK, SlotFits, PlanFits
<1>14. ASSUME NEW s \in Session, LateLogin(s) \/ LateLoginFails(s)
       PROVE  TypeOK' /\ SlotFits' /\ PlanFits'
  BY <1>14 DEF LateLogin, LateLoginFails, Registers, TypeOK, SlotFits, PlanFits
<1> QED
  BY <1>1, <1>2, <1>3, <1>4, <1>5, <1>6, <1>7, <1>8, <1>9, <1>10, <1>11, <1>12, <1>13, <1>14
  DEF Around

LEMMA LoginsWork ==
  ASSUME OneSlot, TypeInv, NEW k \in Slot, Work(k)
  PROVE  LoginsFit' /\ WatchFits'
<1> USE DEF rowVars, listVars, clientVars, workVars, faultVars
<1>a. \A j \in Slot : j = k
  BY DEF OneSlot
<1>b. TypeOK /\ LoginsFit /\ WatchFits /\ MaxOtpAttempts \in Nat \ {0}
  BY FetchAssumption DEF TypeInv
<1> USE DEF TypeOK, PreLogin
<1>1. CASE StartReads(k)
  <2>1. /\ Of(k) \in Session
        /\ \/ status[Of(k)] \in PreLogin /\ slot'[k].pc = "checks" /\ Of(k)' = Of(k)
           \/ slot'[k].pc = "idle"
    BY <1>1, JobFacts, Moves DEF TypeInv, StartReads, At, PC
  <2>2. LoginsFit'
    BY <1>1, <2>1, <1>a, <1>b DEF StartReads, At, LoginsFit
  <2>3. WatchFits'
    BY <1>1, <2>1, <1>a, <1>b DEF StartReads, At, WatchFits, Watcher
  <2> QED BY <2>2, <2>3
<1>2. CASE StartBlocked(k)
  <2>1. Of(k) \in Session /\ (slot'[k].pc = "idle")
    BY <1>2, JobFacts, Moves DEF TypeInv, StartBlocked, At, PC
  <2>2. LoginsFit'
    BY <1>2, <2>1, <1>a, <1>b DEF StartBlocked, At, SetStatus, LoginsFit
  <2>3. WatchFits'
    BY <1>2, <2>1, <1>a, <1>b DEF StartBlocked, At, SetStatus, WatchFits, Watcher
  <2> QED BY <2>2, <2>3
<1>3. CASE StartWaits(k)
  <2>1. Of(k) \in Session /\ (slot'[k].pc = "idle")
    BY <1>3, JobFacts, Moves DEF TypeInv, StartWaits, At, PC
  <2>2. LoginsFit'
    BY <1>3, <2>1, <1>a, <1>b DEF StartWaits, At, LoginsFit
  <2>3. WatchFits'
    BY <1>3, <2>1, <1>a, <1>b DEF StartWaits, At, WatchFits, Watcher
  <2> QED BY <2>2, <2>3
<1>4. CASE StartImpossible(k)
  <2>1. Of(k) \in Session /\ (slot'[k].pc = "idle")
    BY <1>4, JobFacts, Moves DEF TypeInv, StartImpossible, At, PC
  <2>2. LoginsFit'
    BY <1>4, <2>1, <1>a, <1>b DEF StartImpossible, At, SetStatus, LoginsFit
  <2>3. WatchFits'
    BY <1>4, <2>1, <1>a, <1>b DEF StartImpossible, At, SetStatus, WatchFits, Watcher
  <2> QED BY <2>2, <2>3
<1>5. CASE StartDeferred(k)
  <2>1. Of(k) \in Session /\ (slot'[k].pc = "idle")
    BY <1>5, JobFacts, Moves DEF TypeInv, StartDeferred, At, PC
  <2>2. LoginsFit'
    BY <1>5, <2>1, <1>a, <1>b DEF StartDeferred, At, LoginsFit
  <2>3. WatchFits'
    BY <1>5, <2>1, <1>a, <1>b DEF StartDeferred, At, WatchFits, Watcher
  <2> QED BY <2>2, <2>3
<1>6. CASE StartLogin(k)
  <2>1. /\ Of(k) \in Session
        /\ \/ /\ status' = [status EXCEPT ![Of(k)] = "logging_in"]
              /\ slot'[k].pc = "logging" /\ Of(k)' = Of(k)
           \/ UNCHANGED status /\ slot'[k].pc = "idle"
    BY <1>6, JobFacts, Moves DEF TypeInv, StartLogin, At, SetStatus, Announced, AtCapacity,
         Refused, PC
  <2>2. LoginsFit'
    BY <1>6, <2>1, <1>a, <1>b DEF StartLogin, At, LoginsFit
  <2>3. WatchFits'
    BY ZenonT(60), <1>6, <2>1, <1>a, <1>b DEF StartLogin, At, WatchFits, Watcher
  <2> QED BY <2>2, <2>3
<1>7. CASE RunnerAccepts(k)
  <2>1. Of(k) \in Session /\ ((slot'[k].pc = "opened" /\ Of(k)' = Of(k)))
    BY <1>7, JobFacts, Moves DEF TypeInv, RunnerAccepts, At, PC
  <2>2. LoginsFit'
    BY <1>7, <2>1, <1>a, <1>b DEF RunnerAccepts, At, LoginsFit
  <2>3. WatchFits'
    BY <1>7, <2>1, <1>a, <1>b DEF RunnerAccepts, At, WatchFits, Watcher
  <2> QED BY <2>2, <2>3
<1>8. CASE LoginSucceeds(k)
  <2>1. Of(k) \in Session /\ ((slot'[k].pc = "confirm" /\ Of(k)' = Of(k)))
    BY <1>8, JobFacts, Moves DEF TypeInv, LoginSucceeds, At, PC
  <2>2. LoginsFit'
    BY <1>8, <2>1, <1>a, <1>b DEF LoginSucceeds, At, LoginsFit
  <2>3. WatchFits'
    BY <1>8, <2>1, <1>a, <1>b DEF LoginSucceeds, At, WatchFits, Watcher
  <2> QED BY <2>2, <2>3
<1>9. CASE LoginDeferred(k)
  <2>1. Of(k) \in Session /\ (slot'[k].pc = "idle")
    BY <1>9, JobFacts, Moves DEF TypeInv, LoginDeferred, At, PC
  <2>2. LoginsFit'
    BY <1>9, <2>1, <1>a, <1>b DEF LoginDeferred, At, SetStatus, LoginsFit
  <2>3. WatchFits'
    BY <1>9, <2>1, <1>a, <1>b DEF LoginDeferred, At, SetStatus, WatchFits, Watcher
  <2> QED BY <2>2, <2>3
<1>10. CASE LoginFails(k)
  <2>1. Of(k) \in Session /\ (slot'[k].pc = "idle")
    BY <1>10, JobFacts, Moves DEF TypeInv, LoginFails, At, PC, Abandon
  <2>2. LoginsFit'
    BY <1>10, <2>1, <1>a, <1>b DEF LoginFails, At, Abandon, CloseRemote, SetStatus, LoginsFit
  <2>3. WatchFits'
    BY <1>10, <2>1, <1>a, <1>b DEF LoginFails, At, Abandon, CloseRemote, SetStatus, WatchFits,
         Watcher
  <2> QED BY <2>2, <2>3
<1>11. CASE LoginConfirmed(k)
  <2>1. Of(k) \in Session /\ (slot'[k].pc = "idle")
    BY <1>11, JobFacts, Moves DEF TypeInv, LoginConfirmed, At, PC, Abandon
  <2>2. LoginsFit'
    BY <1>11, <2>1, <1>a, <1>b DEF LoginConfirmed, At, Abandon, CloseRemote, SetStatus, LoginsFit
  <2>4. \/ status' = [status EXCEPT ![Of(k)] = "awaiting_otp"] /\ UNCHANGED tracker
        \/ status' = [status EXCEPT ![Of(k)] = "failed"] /\ tracker' = tracker \ {Of(k)}
    BY <1>11, <2>1 DEF LoginConfirmed, At, SetStatus, Active, LiveBrowser, Abandon
  <2>3. WatchFits'
    BY ZenonT(60), <1>11, <2>1, <2>4, <1>a, <1>b DEF LoginConfirmed, At, WatchFits, Watcher
  <2> QED BY <2>2, <2>3
<1>12. CASE CodeReads(k)
  <2>1. /\ Of(k) \in Session
        /\ \/ /\ Of(k) \in tracker /\ tracker' = tracker \ {Of(k)}
              /\ slot'[k].pc = "armed" /\ Of(k)' = Of(k)
           \/ tracker' = tracker \ {Of(k)} /\ slot'[k].pc = "lost" /\ Of(k)' = Of(k)
           \/ UNCHANGED tracker /\ slot'[k].pc = "idle"
    BY <1>12, JobFacts, Moves DEF TypeInv, CodeReads, At, PutOff, PC, Of
  <2>2. LoginsFit'
    BY <1>12, <2>1, <1>a, <1>b DEF CodeReads, At, LoginsFit
  <2>3. WatchFits'
    BY <1>12, <2>1, <1>a, <1>b DEF CodeReads, At, WatchFits, Watcher
  <2> QED BY <2>2, <2>3
<1>13. CASE CodeTooLate(k)
  <2>1. Of(k) \in Session /\ (slot'[k].pc = "idle")
    BY <1>13, JobFacts, Moves DEF TypeInv, CodeTooLate, At, PC
  <2>2. LoginsFit'
    BY <1>13, <2>1, <1>a, <1>b DEF CodeTooLate, CloseRemote, At, SetStatus, LoginsFit
  <2>3. WatchFits'
    BY <1>13, <2>1, <1>a, <1>b DEF CodeTooLate, At, SetStatus, WatchFits, Watcher
  <2> QED BY <2>2, <2>3
<1>14. CASE CodeOfDeletedClient(k)
  <2>1. Of(k) \in Session /\ (slot'[k].pc = "idle")
    BY <1>14, JobFacts, Moves DEF TypeInv, CodeOfDeletedClient, At, PC
  <2>2. LoginsFit'
    BY <1>14, <2>1, <1>a, <1>b DEF CodeOfDeletedClient, CloseRemote, At, LoginsFit
  <2>3. WatchFits'
    BY <1>14, <2>1, <1>a, <1>b DEF CodeOfDeletedClient, CloseRemote, At, WatchFits, Watcher
  <2> QED BY <2>2, <2>3
<1>15. CASE CodeBlocked(k)
  <2>1. Of(k) \in Session /\ (slot'[k].pc = "idle")
    BY <1>15, JobFacts, Moves DEF TypeInv, CodeBlocked, At, PC
  <2>2. LoginsFit'
    BY <1>15, <2>1, <1>a, <1>b DEF CodeBlocked, CloseRemote, At, SetStatus, LoginsFit
  <2>3. WatchFits'
    BY <1>15, <2>1, <1>a, <1>b DEF CodeBlocked, CloseRemote, At, SetStatus, WatchFits, Watcher
  <2> QED BY <2>2, <2>3
<1>16. CASE CodeSubmitted(k)
  <2>1. Of(k) \in Session /\ ((slot'[k].pc = "verifying" /\ Of(k)' = Of(k)) \/ slot'[k].pc = "idle")
    BY <1>16, JobFacts, Moves DEF TypeInv, CodeSubmitted, At, PC, Abandon
  <2>2. LoginsFit'
    BY <1>16, <2>1, <1>a, <1>b DEF CodeSubmitted, At, Abandon, CloseRemote, SetStatus, LoginsFit
  <2>3. WatchFits'
    BY ZenonT(60), <1>16, <2>1, <1>a, <1>b DEF CodeSubmitted, At, Abandon, CloseRemote,
         SetStatus, WatchFits, Watcher
  <2> QED BY <2>2, <2>3
<1>17. CASE CodeAccepted(k)
  <2>1. Of(k) \in Session /\ ((slot'[k].pc = "verified" /\ Of(k)' = Of(k)))
    BY <1>17, JobFacts, Moves DEF TypeInv, CodeAccepted, At, PC
  <2>2. LoginsFit'
    BY <1>17, <2>1, <1>a, <1>b DEF CodeAccepted, At, LoginsFit
  <2>3. WatchFits'
    BY <1>17, <2>1, <1>a, <1>b DEF CodeAccepted, At, WatchFits, Watcher
  <2> QED BY <2>2, <2>3
<1>18. CASE CodeRejected(k)
  <2>1. /\ Of(k) \in Session
        /\ \/ /\ attempts[Of(k)] + 1 < MaxOtpAttempts
              /\ tracker' = tracker \cup {Of(k)} /\ UNCHANGED status
              /\ slot'[k].pc = "rearm" /\ Of(k)' = Of(k)
           \/ /\ tracker' = tracker \ {Of(k)}
              /\ status' = [status EXCEPT ![Of(k)] = "failed"]
              /\ slot'[k].pc = "idle"
    BY <1>18, JobFacts, Moves DEF TypeInv, CodeRejected, At, Abandon, SetStatus, PC
  <2>2. LoginsFit'
    BY <1>18, <2>1, <1>a, <1>b DEF CodeRejected, At, Abandon, CloseRemote, LoginsFit
  <2>3. WatchFits'
    BY <1>18, <2>1, <1>a, <1>b DEF CodeRejected, At, WatchFits, Watcher
  <2> QED BY <2>2, <2>3
<1>19. CASE Rearmed(k)
  <2>1. Of(k) \in Session /\ (slot'[k].pc = "idle")
    BY <1>19, JobFacts, Moves DEF TypeInv, Rearmed, At, PC
  <2>2. LoginsFit'
    BY <1>19, <2>1, <1>a, <1>b DEF Rearmed, At, SetStatus, LoginsFit
  <2>4. status' \in {status, [status EXCEPT ![Of(k)] = "awaiting_otp"]} /\ UNCHANGED tracker
    BY <1>19, <2>1 DEF Rearmed, At, SetStatus, Active, LiveBrowser
  <2>3. WatchFits'
    BY <1>19, <2>1, <2>4, <1>a, <1>b DEF Rearmed, At, WatchFits, Watcher
  <2> QED BY <2>2, <2>3
<1>20. CASE SessionGone(k)
  <2>1. Of(k) \in Session /\ (slot'[k].pc = "idle")
    BY <1>20, JobFacts, Moves DEF TypeInv, SessionGone, At, PC
  <2>2. LoginsFit'
    BY <1>20, <2>1, <1>a, <1>b DEF SessionGone, At, SetStatus, LoginsFit
  <2>3. WatchFits'
    BY <1>20, <2>1, <1>a, <1>b DEF SessionGone, At, SetStatus, WatchFits, Watcher
  <2> QED BY <2>2, <2>3
<1>21. CASE VerificationFails(k)
  <2>1. Of(k) \in Session /\ (slot'[k].pc = "idle")
    BY <1>21, JobFacts, Moves DEF TypeInv, VerificationFails, At, PC, Abandon
  <2>2. LoginsFit'
    BY <1>21, <2>1, <1>a, <1>b DEF VerificationFails, At, Abandon, CloseRemote, SetStatus, LoginsFit
  <2>3. WatchFits'
    BY <1>21, <2>1, <1>a, <1>b DEF VerificationFails, At, Abandon, CloseRemote, SetStatus,
         WatchFits, Watcher
  <2> QED BY <2>2, <2>3
<1>22. CASE BeginDownload(k)
  <2>1. Of(k) \in Session /\ ((slot'[k].pc = "downloading" /\ Of(k)' = Of(k)) \/ slot'[k].pc = "idle")
    BY <1>22, JobFacts, Moves DEF TypeInv, BeginDownload, At, PC, Abandon
  <2>2. LoginsFit'
    BY <1>22, <2>1, <1>a, <1>b DEF BeginDownload, At, Abandon, CloseRemote, SetStatus, LoginsFit
  <2>3. WatchFits'
    BY <1>22, <2>1, <1>a, <1>b DEF BeginDownload, At, Abandon, CloseRemote, SetStatus, WatchFits,
         Watcher
  <2> QED BY <2>2, <2>3
<1>23. CASE DownloadFails(k)
  <2>1. Of(k) \in Session /\ (slot'[k].pc = "idle")
    BY <1>23, JobFacts, Moves DEF TypeInv, DownloadFails, At, PC, Abandon
  <2>2. LoginsFit'
    BY <1>23, <2>1, <1>a, <1>b DEF DownloadFails, At, Abandon, CloseRemote, SetStatus, LoginsFit
  <2>3. WatchFits'
    BY <1>23, <2>1, <1>a, <1>b DEF DownloadFails, At, Abandon, CloseRemote, SetStatus, WatchFits,
         Watcher
  <2> QED BY <2>2, <2>3
<1>24. CASE Downloaded(k)
  <2>1. Of(k) \in Session /\ ((slot'[k].pc = "delivering" /\ Of(k)' = Of(k)))
    BY <1>24, JobFacts, Moves DEF TypeInv, Downloaded, At, PC
  <2>2. LoginsFit'
    BY <1>24, <2>1, <1>a, <1>b DEF Downloaded, At, LoginsFit
  <2>3. WatchFits'
    BY <1>24, <2>1, <1>a, <1>b DEF Downloaded, At, WatchFits, Watcher
  <2> QED BY <2>2, <2>3
<1>25. CASE Delivered(k)
  <2>1. Of(k) \in Session /\ slot'[k].pc = "replanning" /\ Of(k)' = Of(k)
    BY <1>25, JobFacts, Moves DEF TypeInv, Delivered, At, PC
  <2>2. LoginsFit'
    BY <1>25, <2>1, <1>a, <1>b DEF Delivered, At, SetStatus, LoginsFit
  <2>3. WatchFits'
    BY <1>25, <2>1, <1>a, <1>b DEF Delivered, At, SetStatus, WatchFits, Watcher
  <2> QED BY <2>2, <2>3
<1>26. CASE DeliveryFails(k)
  <2>1. Of(k) \in Session /\ (slot'[k].pc = "idle")
    BY <1>26, JobFacts, Moves DEF TypeInv, DeliveryFails, At, PC
  <2>2. LoginsFit'
    BY <1>26, <2>1, <1>a, <1>b DEF DeliveryFails, At, SetStatus, LoginsFit
  <2>3. WatchFits'
    BY <1>26, <2>1, <1>a, <1>b DEF DeliveryFails, At, SetStatus, WatchFits, Watcher
  <2> QED BY <2>2, <2>3
<1>27. CASE CancelCloses(k)
  <2>1. Of(k) \in Session /\ ((slot'[k].pc = "closed" /\ Of(k)' = Of(k)))
    BY <1>27, JobFacts, Moves DEF TypeInv, CancelCloses, At, PC
  <2>2. LoginsFit'
    BY <1>27, <2>1, <1>a, <1>b DEF CancelCloses, CloseRemote, At, LoginsFit
  <2>3. WatchFits'
    BY <1>27, <2>1, <1>a, <1>b DEF CancelCloses, CloseRemote, At, WatchFits, Watcher
  <2> QED BY <2>2, <2>3
<1>28. CASE CancelMarks(k)
  <2>1. Of(k) \in Session /\ (slot'[k].pc = "idle")
    BY <1>28, JobFacts, Moves DEF TypeInv, CancelMarks, At, PC
  <2>2. LoginsFit'
    BY <1>28, <2>1, <1>a, <1>b DEF CancelMarks, At, SetStatus, LoginsFit
  <2>4. status[Of(k)] # "awaiting_otp" \/ status' = [status EXCEPT ![Of(k)] = "cancelled"]
    BY <1>28, <2>1 DEF CancelMarks, At, SetStatus, Active, LiveBrowser
  <2>5. UNCHANGED status \/ status' = [status EXCEPT ![Of(k)] = "cancelled"]
    BY <1>28, <2>1 DEF CancelMarks, At, SetStatus, Active, LiveBrowser
  <2>3. WatchFits'
    BY <1>28, <2>1, <2>4, <2>5, <1>a, <1>b DEF CancelMarks, At, WatchFits, Watcher
  <2> QED BY <2>2, <2>3
<1>29. CASE CodeScreen(k)
  <2>1. Of(k) \in Session /\ ((slot'[k].pc = "answered" /\ Of(k)' = Of(k)))
    BY <1>29, JobFacts, Moves DEF TypeInv, CodeScreen, At, PC
  <2>2. LoginsFit'
    BY <1>29, <2>1, <1>a, <1>b DEF CodeScreen, Registers, At, LoginsFit
  <2>3. WatchFits'
    BY <1>29, <2>1, <1>a, <1>b DEF CodeScreen, At, WatchFits, Watcher
  <2> QED BY <2>2, <2>3
<1>30. CASE LoginTimesOut(k)
  <2>1. Of(k) \in Session /\ (slot'[k].pc = "idle")
    BY <1>30, JobFacts, Moves DEF TypeInv, LoginTimesOut, At, PC, Abandon
  <2>2. LoginsFit'
    BY <1>30, <2>1, <1>a, <1>b DEF LoginTimesOut, At, Abandon, CloseRemote, SetStatus, LoginsFit
  <2>3. WatchFits'
    BY <1>30, <2>1, <1>a, <1>b DEF LoginTimesOut, At, Abandon, SetStatus, WatchFits, Watcher
  <2> QED BY <2>2, <2>3
<1>31. CASE Replanned(k)
  <2>1. Of(k) \in Session /\ (slot'[k].pc = "idle")
    BY <1>31, JobFacts, Moves DEF TypeInv, Replanned, At, PC
  <2>2. LoginsFit'
    BY <1>31, <2>1, <1>a, <1>b DEF Replanned, At, LoginsFit
  <2>3. WatchFits'
    BY <1>31, <2>1, <1>a, <1>b DEF Replanned, At, WatchFits, Watcher
  <2> QED BY <2>2, <2>3
<1> QED
  BY <1>1, <1>2, <1>3, <1>4, <1>5, <1>6, <1>7, <1>8, <1>9, <1>10, <1>11,
       <1>12, <1>13, <1>14, <1>15, <1>16, <1>17, <1>18, <1>19, <1>20, <1>21, <1>22, <1>23,
       <1>24, <1>25, <1>26, <1>27, <1>28, <1>29, <1>30, <1>31
       DEF Work, Start, Submit, Cancel

LEMMA PlanWork ==
  ASSUME TypeInv, NEW k \in Slot, Work(k)
  PROVE  PlanFits'
<1> USE DEF rowVars, listVars, clientVars, workVars, faultVars
<1>1. CASE StartReads(k)
  BY <1>1 DEF StartReads, TypeInv, PlanFits
<1>2. CASE StartBlocked(k)
  BY <1>2 DEF StartBlocked, TypeInv, PlanFits
<1>3. CASE StartWaits(k)
  BY <1>3 DEF StartWaits, TypeInv, PlanFits
<1>4. CASE StartImpossible(k)
  BY <1>4 DEF StartImpossible, TypeInv, PlanFits
<1>5. CASE StartDeferred(k)
  BY <1>5 DEF StartDeferred, TypeInv, PlanFits
<1>6. CASE StartLogin(k)
  BY <1>6 DEF StartLogin, TypeInv, PlanFits
<1>7. CASE RunnerAccepts(k)
  BY <1>7 DEF RunnerAccepts, TypeInv, PlanFits
<1>8. CASE LoginSucceeds(k)
  BY <1>8 DEF LoginSucceeds, TypeInv, PlanFits
<1>9. CASE LoginDeferred(k)
  BY <1>9 DEF LoginDeferred, TypeInv, PlanFits
<1>10. CASE LoginFails(k)
  BY <1>10 DEF LoginFails, TypeInv, PlanFits
<1>11. CASE LoginConfirmed(k)
  BY <1>11 DEF LoginConfirmed, TypeInv, PlanFits
<1>12. CASE CodeReads(k)
  BY <1>12 DEF CodeReads, TypeInv, PlanFits
<1>13. CASE CodeTooLate(k)
  BY <1>13 DEF CodeTooLate, TypeInv, PlanFits
<1>14. CASE CodeOfDeletedClient(k)
  BY <1>14 DEF CodeOfDeletedClient, TypeInv, PlanFits
<1>15. CASE CodeBlocked(k)
  BY <1>15 DEF CodeBlocked, TypeInv, PlanFits
<1>16. CASE CodeSubmitted(k)
  BY <1>16 DEF CodeSubmitted, TypeInv, PlanFits
<1>17. CASE CodeAccepted(k)
  BY <1>17 DEF CodeAccepted, TypeInv, PlanFits
<1>18. CASE CodeRejected(k)
  BY <1>18 DEF CodeRejected, TypeInv, PlanFits
<1>19. CASE Rearmed(k)
  BY <1>19 DEF Rearmed, TypeInv, PlanFits
<1>20. CASE SessionGone(k)
  BY <1>20 DEF SessionGone, TypeInv, PlanFits
<1>21. CASE VerificationFails(k)
  BY <1>21 DEF VerificationFails, TypeInv, PlanFits
<1>22. CASE BeginDownload(k)
  BY <1>22 DEF BeginDownload, TypeInv, PlanFits
<1>23. CASE DownloadFails(k)
  BY <1>23 DEF DownloadFails, TypeInv, PlanFits
<1>24. CASE Downloaded(k)
  BY <1>24 DEF Downloaded, TypeInv, PlanFits
<1>25. CASE Delivered(k)
  BY <1>25 DEF Delivered, TypeInv, PlanFits
<1>26. CASE DeliveryFails(k)
  BY <1>26 DEF DeliveryFails, TypeInv, PlanFits
<1>27. CASE CancelCloses(k)
  BY <1>27 DEF CancelCloses, TypeInv, PlanFits
<1>28. CASE CancelMarks(k)
  BY <1>28 DEF CancelMarks, TypeInv, PlanFits
<1>29. CASE CodeScreen(k)
  BY <1>29 DEF CodeScreen, TypeInv, PlanFits
<1>30. CASE LoginTimesOut(k)
  BY <1>30 DEF LoginTimesOut, TypeInv, PlanFits
<1>31. CASE Replanned(k)
  BY <1>31 DEF Replanned, TypeInv, PlanFits
<1> QED
  BY <1>1, <1>2, <1>3, <1>4, <1>5, <1>6, <1>7, <1>8, <1>9, <1>10, <1>11,
       <1>12, <1>13, <1>14, <1>15, <1>16, <1>17, <1>18, <1>19, <1>20, <1>21, <1>22, <1>23,
       <1>24, <1>25, <1>26, <1>27, <1>28, <1>29, <1>30, <1>31
       DEF Work, Start, Submit, Cancel

LEMMA LoginsAround ==
  ASSUME OneSlot, TypeInv, Around \/ UNCHANGED vars
  PROVE  LoginsFit' /\ WatchFits'
<1> USE DEF rowVars, listVars, clientVars, workVars, faultVars, TypeOK, PreLogin
<1>a. \A j, k \in Slot : j = k
  BY DEF OneSlot
<1>b. TypeOK /\ LoginsFit /\ WatchFits /\ MaxOtpAttempts \in Nat \ {0}
  BY FetchAssumption DEF TypeInv
<1>1. CASE UNCHANGED <<rowVars, deleted, slot, workVars, browser, late, logins>>
  BY <1>1, <1>b DEF LoginsFit, WatchFits, Watcher, Of
<1>2. ASSUME NEW p \in Provider, PlanReads(p) PROVE LoginsFit' /\ WatchFits'
  BY <1>1, <1>2 DEF PlanReads
<1>3. CASE PlanWithoutFetch
  BY <1>1, <1>3 DEF PlanWithoutFetch
<1>4. CASE PlanActs
  <2>1. CASE UNCHANGED status
    BY <1>1, <1>4, <2>1 DEF PlanActs
  <2>2. ASSUME NEW s \in Session, status[s] = "none", status' = [status EXCEPT ![s] = "wa_intro_sent"]
        PROVE  LoginsFit' /\ WatchFits'
    BY <1>4, <1>b, <2>2 DEF PlanActs, LoginsFit, WatchFits, Watcher, Of
  <2> QED
    BY <1>4, <2>1, <2>2 DEF PlanActs, PlanAgrees, PlanStartsLogin, PlanCancels, FetchSession,
         Insertable, SetStatus
<1>5. CASE PlanFails
  BY <1>1, <1>5 DEF PlanFails
<1>6. ASSUME NEW m \in DOMAIN mail, MailSends(m) PROVE LoginsFit' /\ WatchFits'
  BY <1>1, <1>6 DEF MailSends
<1>7. CASE ClientWritesCode
  BY <1>1, <1>7 DEF ClientWritesCode
<1>8. CASE DeleteClient
  BY <1>8, <1>b DEF DeleteClient, LoginsFit, WatchFits, Watcher, Of
<1>9. ASSUME NEW k \in Slot, TakeJob(k) PROVE LoginsFit' /\ WatchFits'
  <2>1. slot[k].pc = "idle" /\ slot'[k].pc \in {"start_login", "submit_otp", "cancel"}
    <3>1. PICK j \in jobs : slot' = [slot EXCEPT ![k] = [pc |-> j.kind, job |-> j]]
      BY <1>9 DEF TakeJob
    <3> QED BY <1>9, <3>1 DEF TakeJob, At, Job, TypeInv, SlotFits
  <2>2. UNCHANGED <<rowVars, deleted, workVars, browser, late, logins>>
    BY <1>9 DEF TakeJob
  <2>3. LoginsFit'
    BY <2>1, <2>2, <1>a, <1>b DEF LoginsFit
  <2> QED BY <2>1, <2>2, <2>3, <1>a, <1>b DEF WatchFits, Watcher
<1>10. ASSUME NEW s \in Session, TimerFires(s) PROVE LoginsFit' /\ WatchFits'
  BY <1>10, <1>b DEF TimerFires, LoginsFit, WatchFits, Watcher, Of
<1>11. ASSUME NEW s \in Session, Expire(s) \/ SweepExpires(s) PROVE LoginsFit' /\ WatchFits'
  <2>1. status' = status \/ status' = [status EXCEPT ![s] = "expired"]
    BY <1>11 DEF Expire, SweepExpires, SetStatus
  <2>2. /\ UNCHANGED <<attempts, slot, tracker, late, logins, up, deleted>>
        /\ expiring' \subseteq expiring /\ browser' \subseteq browser
    BY <1>11 DEF Expire, SweepExpires, CloseRemote
  <2>3. LoginsFit'
    <3>1. \A t \in Session : status'[t] = status[t] \/ status'[t] = "expired"
      BY <2>1, <1>b
    <3>2. \A k \in Slot : Of(k)' = Of(k) /\ slot'[k] = slot[k]
      BY <2>2 DEF Of
    <3>3. \A s1 \in Session : status'[s1] \in {"none", "wa_intro_sent"} => status[s1] = status'[s1]
      BY <3>1
    <3>4. \A k \in Slot : slot[k].pc # "idle" => Of(k) \in Session
      BY JobFacts DEF TypeInv
    <3> QED BY <2>2, <3>2, <3>3, <3>4, <1>b DEF LoginsFit
  <2>4. WatchFits'
    BY SMTT(30), <1>11, <2>2, <1>b DEF Expire, SweepExpires, SetStatus, WatchFits, Watcher, Of,
         NoSession
  <2> QED BY <2>3, <2>4
<1>12. ASSUME NEW s \in Session, Backstop(s) PROVE LoginsFit' /\ WatchFits'
  BY <1>12, <1>b DEF Backstop, LoginsFit, WatchFits, Watcher, Of
<1>13. CASE Crash
  <2>1. \A k \in Slot : slot'[k].pc = "idle"
    BY <1>13 DEF Crash, Idle
  <2>2. \A s \in late' \ late : \E k \in Slot : slot[k].pc = "opened" /\ s = Of(k)
    BY <1>13 DEF Crash, At
  <2>3. \A s \in late' \ late : logins[s] = 0 /\ status[s] \notin {"none"} \cup PreLogin
    BY <2>2, <1>b DEF LoginsFit
  <2>5. LoginsFit'
    BY <1>13, <2>1, <2>3, <1>b DEF Crash, LoginsFit
  <2> QED BY <1>13, <2>1, <2>5 DEF Crash, WatchFits
<1>14. CASE Boot
  BY <1>14, <1>b DEF Boot, LoginsFit, WatchFits, Watcher, Of
<1>15. CASE SweepLists
  BY <1>15, <1>b DEF SweepLists, LoginsFit, WatchFits, Watcher, Of, LiveBrowser
<1>16. CASE UNCHANGED vars
  BY <1>1, <1>16 DEF vars
<1>17. ASSUME NEW p \in Provider, ListMoves(p) PROVE LoginsFit' /\ WatchFits'
  BY <1>1, <1>17 DEF ListMoves
<1>18. ASSUME NEW s \in Session, LateLogin(s) PROVE LoginsFit' /\ WatchFits'
  <2>1. /\ s \in late /\ late' = late \ {s} /\ browser' = browser \cup {s}
        /\ logins' = [logins EXCEPT ![s] = @ + 1] /\ UNCHANGED <<rowVars, deleted, slot, workVars>>
    BY <1>18 DEF LateLogin, Registers
  <2>2. logins[s] = 0 /\ logins'[s] = 1 /\ status[s] \notin {"none"} \cup PreLogin /\ attempts[s] = 0
    BY <2>1, <1>b DEF LoginsFit
  <2>3. \A k \in Slot : Of(k)' = Of(k) /\ slot'[k] = slot[k]
    BY <2>1 DEF Of
  <2>4. \A k \in Slot : slot[k].pc # "idle" => Of(k) \in Session
    BY JobFacts DEF TypeInv
  <2>5. LoginsFit'
    BY <2>1, <2>2, <2>3, <2>4, <1>b DEF LoginsFit
  <2> QED BY <2>1, <2>5, <1>b DEF WatchFits, Watcher, Of
<1>19. ASSUME NEW s \in Session, LateLoginFails(s) PROVE LoginsFit' /\ WatchFits'
  BY <1>19, <1>b DEF LateLoginFails, LoginsFit, WatchFits, Watcher, Of
<1> QED
  BY <1>2, <1>3, <1>4, <1>5, <1>6, <1>7, <1>8, <1>9, <1>10, <1>11, <1>12, <1>13, <1>14, <1>15,
       <1>16, <1>17, <1>18, <1>19 DEF Around

LEMMA Starts == Init => TypeInv
<1> SUFFICES ASSUME Init PROVE TypeInv
  OBVIOUS
<1> USE FetchAssumption DEF Init
<1>1. TypeOK
  <2>1. 0 \in 0 .. MaxOtpAttempts /\ 0 \in 0 .. MaxCodes /\ 0 \in 0 .. MaxCrashes /\ 0 \in Nat
    OBVIOUS
  <2> QED BY <2>1 DEF TypeOK, Status
<1>2. SlotFits /\ PlanFits
  BY DEF SlotFits, PlanFits, Idle, PC, Plan, NoPlan
<1>3. LoginsFit /\ WatchFits
  BY DEF LoginsFit, WatchFits, Idle
<1> QED BY <1>1, <1>2, <1>3 DEF TypeInv

LEMMA Steps ==
  ASSUME OneSlot, TypeInv, [Next]_vars
  PROVE  TypeInv'
<1>1. CASE Around \/ UNCHANGED vars
  BY <1>1, TypeAround, LoginsAround DEF TypeInv
<1>2. ASSUME NEW k \in Slot, Work(k) PROVE TypeInv'
  <2>1. SlotFits'
    BY <1>2, SlotWork
  <2>2. TypeOK'
    BY <1>2, <2>1, TypeWork
  <2>3. LoginsFit' /\ WatchFits'
    BY <1>2, LoginsWork
  <2>4. PlanFits'
    BY <1>2, PlanWork
  <2> QED BY <2>1, <2>2, <2>3, <2>4 DEF TypeInv
<1> QED BY <1>1, <1>2 DEF Next, Around

\* The invariant of the first theorems.
LEMMA Invariance ==
  ASSUME OneSlot
  PROVE  Spec => []TypeInv
<1>1. TypeInv /\ [Next]_vars => TypeInv'
  BY Steps
<1> QED BY Starts, <1>1, PTL DEF Spec

\* What the worker, the planner, the rows and the runner hold has its type, and
\* a session never counts more rejected codes than it may have.
THEOREM TypeCorrect ==
  ASSUME OneSlot
  PROVE  Spec => []TypeOK
<1>1. TypeInv => TypeOK
  BY DEF TypeInv
<1> QED BY Invariance, <1>1, PTL

\* The portal sends the client one code in the life of a session, also when
\* jobs are repeated after a crash or put off.
THEOREM OneLoginHolds ==
  ASSUME OneSlot
  PROVE  Spec => []OneLoginPerSession
<1>1. TypeInv => OneLoginPerSession
  BY DEF TypeInv, LoginsFit, OneLoginPerSession
<1> QED BY Invariance, <1>1, PTL

\* No row waits for a code that nobody will time out.
THEOREM AwaitingIsWatchedHolds ==
  ASSUME OneSlot
  PROVE  Spec => []AwaitingIsWatched
<1>1. TypeInv => AwaitingIsWatched
  BY DEF TypeInv, WatchFits, Watcher, AwaitingIsWatched, Handled, Idle
<1> QED BY Invariance, <1>1, PTL

-----------------------------------------------------------------------------
(* As long as the worker lives, every step is a step of FetchLife.         *)
LEMMA AtRunnerIs ==
  ASSUME OneSlot, NEW k \in Slot
  PROVE  AtRunner = late \cup (IF slot[k].pc = "opened" THEN {Of(k)} ELSE {})
BY DEF OneSlot, AtRunner, At

\* What a step may do to one session's row, login and browser.
Kept == AtRunner' = AtRunner /\ browser' = browser

Effect(s) ==
  \/ /\ \/ status' = status
        \/ status[s] \in LiveBrowser /\ \E st \in LiveBrowser : status' = [status EXCEPT ![s] = st]
        \/ status[s] \in Ended /\ \E st \in Ended : status' = [status EXCEPT ![s] = st]
     /\ AtRunner' = AtRunner /\ browser' \in {browser, browser \ {s}}
  \/ status[s] = "none" /\ status' = [status EXCEPT ![s] = "wa_intro_sent"] /\ Kept
  \/ status[s] \in PreLogin /\ status' = [status EXCEPT ![s] = "logging_in"] /\ Kept
  \/ /\ status[s] \in LiveBrowser /\ s \notin AtRunner \cup browser
     /\ status' = [status EXCEPT ![s] = "wa_intro_sent"] /\ Kept
  \/ /\ status[s] \in Active
     /\ \E st \in Ended : status' = [status EXCEPT ![s] = st]
     /\ AtRunner' \in {AtRunner, AtRunner \ {s}} /\ browser' \in {browser, browser \ {s}}
  \/ /\ status' = status /\ status[s] = "logging_in" /\ s \notin AtRunner \cup browser
     /\ Cardinality(browser) < MaxLive
     /\ AtRunner' = AtRunner \cup {s} /\ browser' = browser
  \/ /\ status' = status /\ s \in AtRunner
     /\ AtRunner' = AtRunner \ {s} /\ browser' = browser \cup {s}
  \/ status' = status /\ AtRunner' = AtRunner \ {s} /\ browser' = browser

LEMMA PhaseIs ==
  ASSUME NEW s \in Session
  PROVE  /\ status[s] = "none" => Phase(s) = "absent"
         /\ status[s] \in PreLogin => Phase(s) = "agreed"
         /\ status[s] \in LiveBrowser => Phase(s) = "live"
         /\ status[s] \in Ended => Phase(s) = "ended"
BY DEF Phase, PreLogin, LiveBrowser, Ended

\* The worker's steps leave an inactive session inactive, and only an active
\* session starts to download.
StatusMoves ==
  \A s \in Session :
    /\ status'[s] \in Active \ {"downloading"} => status[s] \in Active \ {"downloading"}
    /\ status'[s] = "downloading" => status[s] \in Active

LEMMA NeedKept ==
  ASSUME TypeOK, NeedFits, StatusMoves, UNCHANGED <<portal, fetched>>, plan' \in {plan, NoPlan}
  PROVE  NeedFits'
BY DEF TypeOK, NeedFits, StatusMoves, ActiveOf, Active

LEMMA LifeWork ==
  ASSUME OneSlot, MaxCrashes = 0, TypeInv, LifeFits, NeedFits, NEW k \in Slot, Work(k)
  PROVE  Effect(Of(k)) /\ LifeFits' /\ NeedFits'
<1> USE DEF rowVars, listVars, clientVars, workVars, faultVars
<1>a. \A j \in Slot : j = k
  BY DEF OneSlot
<1>b. TypeOK /\ LoginsFit /\ LifeFits /\ NeedFits
  BY DEF TypeInv
<1>c. AtRunner = late \cup (IF slot[k].pc = "opened" THEN {Of(k)} ELSE {})
  BY AtRunnerIs
<1>d. AtRunner' = late' \cup (IF slot'[k].pc = "opened" THEN {Of(k)'} ELSE {})
  BY <1>a DEF AtRunner, At
<1> USE DEF TypeOK, PreLogin
<1>1. CASE StartReads(k)
  <2>1. Of(k) \in Session /\ slot[k].pc = "start_login"
    BY <1>1, JobFacts DEF StartReads, At, TypeInv
  <2>2. \/ /\ slot'[k].pc = "checks" /\ Of(k)' = Of(k)
           /\ UNCHANGED status /\ UNCHANGED tracker /\ UNCHANGED browser
           /\ status[Of(k)] \in PreLogin
        \/ /\ slot'[k].pc = "idle"
           /\ UNCHANGED status /\ UNCHANGED tracker /\ UNCHANGED browser
    BY <1>1, <2>1, Moves DEF TypeInv, StartReads, At, PC
  <2>3. UNCHANGED <<portal, plan, expiring, sweep, up, fetched, late>>
    BY <1>1 DEF StartReads
  <2>4. Effect(Of(k))
    BY <2>1, <2>2, <2>3, <1>b, <1>c, <1>d DEF Effect, Kept, LifeFits, RowFits, LoginsFit,
         LiveBrowser,
         Active, Ended
  <2>8. RowFits(k)'
    BY <2>1, <2>2, <2>3, <1>a, <1>b DEF LifeFits, TrackFits, RowFits, LoginsFit, LiveBrowser,
         Active
  <2>9. ASSUME NEW s \in Session PROVE TrackFits(s)'
    BY <2>1, <2>2, <2>3, <1>a, <1>b DEF LifeFits, TrackFits, RowFits, LoginsFit, LiveBrowser, Active
  <2>5. LifeFits'
    BY <2>3, <2>8, <2>9, <1>a, <1>b DEF LifeFits
  <2>7. StatusMoves
    BY <2>1, <2>2, <1>a, <1>b DEF StatusMoves, LifeFits, RowFits, LiveBrowser, Active
  <2>6. NeedFits'
    BY <2>3, <2>7, <1>b, NeedKept
  <2> QED BY <2>4, <2>5, <2>6
<1>2. CASE StartBlocked(k)
  <2>1. Of(k) \in Session /\ slot[k].pc = "checks"
    BY <1>2, JobFacts DEF StartBlocked, At, TypeInv
  <2>2. /\ slot'[k].pc = "idle"
        /\ status' = [status EXCEPT ![Of(k)] = "cancelled"] /\ UNCHANGED tracker
        /\ UNCHANGED browser
    BY <1>2, <2>1, Moves DEF TypeInv, StartBlocked, At, SetStatus, PC
  <2>3. UNCHANGED <<portal, plan, expiring, sweep, up, fetched, late>>
    BY <1>2 DEF StartBlocked
  <2>4. Effect(Of(k))
    BY <2>1, <2>2, <2>3, <1>b, <1>c, <1>d DEF Effect, Kept, LifeFits, RowFits, LoginsFit,
         LiveBrowser,
         Active, Ended
  <2>8. RowFits(k)'
    BY <2>1, <2>2, <2>3, <1>a, <1>b DEF LifeFits, TrackFits, RowFits, LoginsFit, LiveBrowser,
         Active
  <2>9. ASSUME NEW s \in Session PROVE TrackFits(s)'
    BY <2>1, <2>2, <2>3, <1>a, <1>b DEF LifeFits, TrackFits, RowFits, LoginsFit, LiveBrowser, Active
  <2>5. LifeFits'
    BY <2>3, <2>8, <2>9, <1>a, <1>b DEF LifeFits
  <2>7. StatusMoves
    BY <2>1, <2>2, <1>a, <1>b DEF StatusMoves, LifeFits, RowFits, LiveBrowser, Active
  <2>6. NeedFits'
    BY <2>3, <2>7, <1>b, NeedKept
  <2> QED BY <2>4, <2>5, <2>6
<1>3. CASE StartWaits(k)
  <2>1. Of(k) \in Session /\ slot[k].pc = "checks"
    BY <1>3, JobFacts DEF StartWaits, At, TypeInv
  <2>2. /\ slot'[k].pc = "idle"
        /\ UNCHANGED status /\ UNCHANGED tracker /\ UNCHANGED browser
    BY <1>3, <2>1, Moves DEF TypeInv, StartWaits, At, PutOff, PC
  <2>3. UNCHANGED <<portal, plan, expiring, sweep, up, fetched, late>>
    BY <1>3 DEF StartWaits
  <2>4. Effect(Of(k))
    BY <2>1, <2>2, <2>3, <1>b, <1>c, <1>d DEF Effect, Kept, LifeFits, RowFits, LoginsFit,
         LiveBrowser,
         Active, Ended
  <2>8. RowFits(k)'
    BY <2>1, <2>2, <2>3, <1>a, <1>b DEF LifeFits, TrackFits, RowFits, LoginsFit, LiveBrowser,
         Active
  <2>9. ASSUME NEW s \in Session PROVE TrackFits(s)'
    BY <2>1, <2>2, <2>3, <1>a, <1>b DEF LifeFits, TrackFits, RowFits, LoginsFit, LiveBrowser, Active
  <2>5. LifeFits'
    BY <2>3, <2>8, <2>9, <1>a, <1>b DEF LifeFits
  <2>7. StatusMoves
    BY <2>1, <2>2, <1>a, <1>b DEF StatusMoves, LifeFits, RowFits, LiveBrowser, Active
  <2>6. NeedFits'
    BY <2>3, <2>7, <1>b, NeedKept
  <2> QED BY <2>4, <2>5, <2>6
<1>4. CASE StartImpossible(k)
  <2>1. Of(k) \in Session /\ slot[k].pc = "checks"
    BY <1>4, JobFacts DEF StartImpossible, At, TypeInv
  <2>2. /\ slot'[k].pc = "idle"
        /\ status' = [status EXCEPT ![Of(k)] = "failed"] /\ UNCHANGED tracker /\ UNCHANGED browser
    BY <1>4, <2>1, Moves DEF TypeInv, StartImpossible, At, SetStatus, PC
  <2>3. UNCHANGED <<portal, plan, expiring, sweep, up, fetched, late>>
    BY <1>4 DEF StartImpossible
  <2>4. Effect(Of(k))
    BY <2>1, <2>2, <2>3, <1>b, <1>c, <1>d DEF Effect, Kept, LifeFits, RowFits, LoginsFit,
         LiveBrowser,
         Active, Ended
  <2>8. RowFits(k)'
    BY <2>1, <2>2, <2>3, <1>a, <1>b DEF LifeFits, TrackFits, RowFits, LoginsFit, LiveBrowser,
         Active
  <2>9. ASSUME NEW s \in Session PROVE TrackFits(s)'
    BY <2>1, <2>2, <2>3, <1>a, <1>b DEF LifeFits, TrackFits, RowFits, LoginsFit, LiveBrowser, Active
  <2>5. LifeFits'
    BY <2>3, <2>8, <2>9, <1>a, <1>b DEF LifeFits
  <2>7. StatusMoves
    BY <2>1, <2>2, <1>a, <1>b DEF StatusMoves, LifeFits, RowFits, LiveBrowser, Active
  <2>6. NeedFits'
    BY <2>3, <2>7, <1>b, NeedKept
  <2> QED BY <2>4, <2>5, <2>6
<1>5. CASE StartDeferred(k)
  <2>1. Of(k) \in Session /\ slot[k].pc = "checks"
    BY <1>5, JobFacts DEF StartDeferred, At, TypeInv
  <2>2. /\ slot'[k].pc = "idle"
        /\ UNCHANGED status /\ UNCHANGED tracker /\ UNCHANGED browser
    BY <1>5, <2>1, Moves DEF TypeInv, StartDeferred, At, PC
  <2>3. UNCHANGED <<portal, plan, expiring, sweep, up, fetched, late>>
    BY <1>5 DEF StartDeferred
  <2>4. Effect(Of(k))
    BY <2>1, <2>2, <2>3, <1>b, <1>c, <1>d DEF Effect, Kept, LifeFits, RowFits, LoginsFit,
         LiveBrowser,
         Active, Ended
  <2>8. RowFits(k)'
    BY <2>1, <2>2, <2>3, <1>a, <1>b DEF LifeFits, TrackFits, RowFits, LoginsFit, LiveBrowser,
         Active
  <2>9. ASSUME NEW s \in Session PROVE TrackFits(s)'
    BY <2>1, <2>2, <2>3, <1>a, <1>b DEF LifeFits, TrackFits, RowFits, LoginsFit, LiveBrowser, Active
  <2>5. LifeFits'
    BY <2>3, <2>8, <2>9, <1>a, <1>b DEF LifeFits
  <2>7. StatusMoves
    BY <2>1, <2>2, <1>a, <1>b DEF StatusMoves, LifeFits, RowFits, LiveBrowser, Active
  <2>6. NeedFits'
    BY <2>3, <2>7, <1>b, NeedKept
  <2> QED BY <2>4, <2>5, <2>6
<1>6. CASE StartLogin(k)
  <2>1. Of(k) \in Session /\ slot[k].pc = "checks"
    BY <1>6, JobFacts DEF StartLogin, At, TypeInv
  <2>2. \/ /\ slot'[k].pc = "logging" /\ Of(k)' = Of(k)
           /\ status' = [status EXCEPT ![Of(k)] = "logging_in"] /\ UNCHANGED tracker
           /\ UNCHANGED browser
        \/ /\ slot'[k].pc = "idle"
           /\ UNCHANGED status /\ UNCHANGED tracker /\ UNCHANGED browser
    BY <1>6, <2>1, Moves DEF TypeInv, StartLogin, At, SetStatus, PC
  <2>3. UNCHANGED <<portal, plan, expiring, sweep, up, fetched, late>>
    BY <1>6 DEF StartLogin
  <2>4. Effect(Of(k))
    BY <2>1, <2>2, <2>3, <1>b, <1>c, <1>d DEF Effect, Kept, LifeFits, RowFits, LoginsFit,
         LiveBrowser,
         Active, Ended
  <2>8. RowFits(k)'
    BY <2>1, <2>2, <2>3, <1>a, <1>b DEF LifeFits, TrackFits, RowFits, LoginsFit, LiveBrowser,
         Active
  <2>9. ASSUME NEW s \in Session PROVE TrackFits(s)'
    BY <2>1, <2>2, <2>3, <1>a, <1>b DEF LifeFits, TrackFits, RowFits, LoginsFit, LiveBrowser, Active
  <2>5. LifeFits'
    BY <2>3, <2>8, <2>9, <1>a, <1>b DEF LifeFits
  <2>7. StatusMoves
    BY <2>1, <2>2, <1>a, <1>b DEF StatusMoves, LifeFits, RowFits, LiveBrowser, Active
  <2>6. NeedFits'
    BY <2>3, <2>7, <1>b, NeedKept
  <2> QED BY <2>4, <2>5, <2>6
<1>7. CASE RunnerAccepts(k)
  <2>1. Of(k) \in Session /\ slot[k].pc = "logging"
    BY <1>7, JobFacts DEF RunnerAccepts, At, TypeInv
  <2>2. /\ slot'[k].pc = "opened" /\ Of(k)' = Of(k)
        /\ UNCHANGED status /\ UNCHANGED tracker /\ browser' = browser \ {Of(k)}
        /\ Cardinality(browser) < MaxLive
    BY <1>7, <2>1, Moves DEF TypeInv, RunnerAccepts, At, PC
  <2>3. UNCHANGED <<portal, plan, expiring, sweep, up, fetched, late>>
    BY <1>7 DEF RunnerAccepts
  <2>4. Effect(Of(k))
    BY <2>1, <2>2, <2>3, <1>b, <1>c, <1>d DEF Effect, Kept, LifeFits, RowFits, LoginsFit,
         LiveBrowser,
         Active, Ended
  <2>8. RowFits(k)'
    BY <2>1, <2>2, <2>3, <1>a, <1>b DEF LifeFits, TrackFits, RowFits, LoginsFit, LiveBrowser,
         Active
  <2>9. ASSUME NEW s \in Session PROVE TrackFits(s)'
    BY <2>1, <2>2, <2>3, <1>a, <1>b DEF LifeFits, TrackFits, RowFits, LoginsFit, LiveBrowser, Active
  <2>5. LifeFits'
    BY <2>3, <2>8, <2>9, <1>a, <1>b DEF LifeFits
  <2>7. StatusMoves
    BY <2>1, <2>2, <1>a, <1>b DEF StatusMoves, LifeFits, RowFits, LiveBrowser, Active
  <2>6. NeedFits'
    BY <2>3, <2>7, <1>b, NeedKept
  <2> QED BY <2>4, <2>5, <2>6
<1>8. CASE LoginSucceeds(k)
  <2>1. Of(k) \in Session /\ slot[k].pc = "answered"
    BY <1>8, JobFacts DEF LoginSucceeds, At, TypeInv
  <2>2. /\ slot'[k].pc = "confirm" /\ Of(k)' = Of(k)
        /\ UNCHANGED status /\ tracker' = tracker \cup {Of(k)} /\ UNCHANGED browser
    BY <1>8, <2>1, Moves DEF TypeInv, LoginSucceeds, At, PC
  <2>3. UNCHANGED <<portal, plan, expiring, sweep, up, fetched, late>>
    BY <1>8 DEF LoginSucceeds
  <2>4. Effect(Of(k))
    BY <2>1, <2>2, <2>3, <1>b, <1>c, <1>d DEF Effect, Kept, LifeFits, RowFits, LoginsFit,
         LiveBrowser,
         Active, Ended
  <2>8. RowFits(k)'
    BY <2>1, <2>2, <2>3, <1>a, <1>b DEF LifeFits, TrackFits, RowFits, LoginsFit, LiveBrowser,
         Active
  <2>9. ASSUME NEW s \in Session PROVE TrackFits(s)'
    BY <2>1, <2>2, <2>3, <1>a, <1>b DEF LifeFits, TrackFits, RowFits, LoginsFit, LiveBrowser, Active
  <2>5. LifeFits'
    BY <2>3, <2>8, <2>9, <1>a, <1>b DEF LifeFits
  <2>7. StatusMoves
    BY <2>1, <2>2, <1>a, <1>b DEF StatusMoves, LifeFits, RowFits, LiveBrowser, Active
  <2>6. NeedFits'
    BY <2>3, <2>7, <1>b, NeedKept
  <2> QED BY <2>4, <2>5, <2>6
<1>9. CASE LoginDeferred(k)
  <2>1. Of(k) \in Session /\ slot[k].pc = "logging"
    BY <1>9, JobFacts DEF LoginDeferred, At, TypeInv
  <2>2. \/ /\ slot'[k].pc = "idle"
           /\ status' = [status EXCEPT ![Of(k)] = "wa_intro_sent"] /\ UNCHANGED tracker
           /\ UNCHANGED browser
        \/ /\ slot'[k].pc = "idle"
           /\ UNCHANGED status /\ UNCHANGED tracker /\ UNCHANGED browser
    BY <1>9, <2>1, Moves DEF TypeInv, LoginDeferred, At, SetStatus, PC
  <2>3. UNCHANGED <<portal, plan, expiring, sweep, up, fetched, late>>
    BY <1>9 DEF LoginDeferred
  <2>4. Effect(Of(k))
    BY <2>1, <2>2, <2>3, <1>b, <1>c, <1>d DEF Effect, Kept, LifeFits, RowFits, LoginsFit,
         LiveBrowser,
         Active, Ended
  <2>8. RowFits(k)'
    BY <2>1, <2>2, <2>3, <1>a, <1>b DEF LifeFits, TrackFits, RowFits, LoginsFit, LiveBrowser,
         Active
  <2>9. ASSUME NEW s \in Session PROVE TrackFits(s)'
    BY <2>1, <2>2, <2>3, <1>a, <1>b DEF LifeFits, TrackFits, RowFits, LoginsFit, LiveBrowser, Active
  <2>5. LifeFits'
    BY <2>3, <2>8, <2>9, <1>a, <1>b DEF LifeFits
  <2>7. StatusMoves
    BY <2>1, <2>2, <1>a, <1>b DEF StatusMoves, LifeFits, RowFits, LiveBrowser, Active
  <2>6. NeedFits'
    BY <2>3, <2>7, <1>b, NeedKept
  <2> QED BY <2>4, <2>5, <2>6
<1>10. CASE LoginFails(k)
  <2>1. Of(k) \in Session /\ slot[k].pc \in {"logging", "opened", "answered"}
    BY <1>10, JobFacts DEF LoginFails, At, TypeInv
  <2>2. /\ slot'[k].pc = "idle"
        /\ status' = [status EXCEPT ![Of(k)] = "failed"] /\ tracker' = tracker \ {Of(k)}
        /\ browser' \in {browser, browser \ {Of(k)}}
    BY <1>10, <2>1, Moves DEF TypeInv, LoginFails, At, CloseRemote, Abandon, SetStatus, PC
  <2>3. UNCHANGED <<portal, plan, expiring, sweep, up, fetched, late>>
    BY <1>10 DEF LoginFails, Abandon
  <2>4. Effect(Of(k))
    BY <2>1, <2>2, <2>3, <1>b, <1>c, <1>d DEF Effect, Kept, LifeFits, RowFits, LoginsFit,
         LiveBrowser,
         Active, Ended
  <2>8. RowFits(k)'
    BY <2>1, <2>2, <2>3, <1>a, <1>b DEF LifeFits, TrackFits, RowFits, LoginsFit, LiveBrowser,
         Active
  <2>9. ASSUME NEW s \in Session PROVE TrackFits(s)'
    BY <2>1, <2>2, <2>3, <1>a, <1>b DEF LifeFits, TrackFits, RowFits, LoginsFit, LiveBrowser, Active
  <2>5. LifeFits'
    BY <2>3, <2>8, <2>9, <1>a, <1>b DEF LifeFits
  <2>7. StatusMoves
    BY <2>1, <2>2, <1>a, <1>b DEF StatusMoves, LifeFits, RowFits, LiveBrowser, Active
  <2>6. NeedFits'
    BY <2>3, <2>7, <1>b, NeedKept
  <2> QED BY <2>4, <2>5, <2>6
<1>11. CASE LoginConfirmed(k)
  <2>1. Of(k) \in Session /\ slot[k].pc = "confirm"
    BY <1>11, JobFacts DEF LoginConfirmed, At, TypeInv
  <2>2. \/ /\ slot'[k].pc = "idle"
           /\ status' = [status EXCEPT ![Of(k)] = "failed"] /\ tracker' = tracker \ {Of(k)}
           /\ browser' \in {browser, browser \ {Of(k)}}
        \/ /\ slot'[k].pc = "idle"
           /\ status' = [status EXCEPT ![Of(k)] = "awaiting_otp"] /\ UNCHANGED tracker
           /\ UNCHANGED browser
    BY <1>11, <2>1, Moves DEF TypeInv, LoginConfirmed, At, CloseRemote, Abandon, SetStatus, PC
  <2>3. UNCHANGED <<portal, plan, expiring, sweep, up, fetched, late>>
    BY <1>11 DEF LoginConfirmed, Abandon
  <2>4. Effect(Of(k))
    BY <2>1, <2>2, <2>3, <1>b, <1>c, <1>d DEF Effect, Kept, LifeFits, RowFits, LoginsFit,
         LiveBrowser,
         Active, Ended
  <2>8. RowFits(k)'
    BY <2>1, <2>2, <2>3, <1>a, <1>b DEF LifeFits, TrackFits, RowFits, LoginsFit, LiveBrowser,
         Active
  <2>9. ASSUME NEW s \in Session PROVE TrackFits(s)'
    BY <2>1, <2>2, <2>3, <1>a, <1>b DEF LifeFits, TrackFits, RowFits, LoginsFit, LiveBrowser, Active
  <2>5. LifeFits'
    BY <2>3, <2>8, <2>9, <1>a, <1>b DEF LifeFits
  <2>7. StatusMoves
    BY <2>1, <2>2, <1>a, <1>b DEF StatusMoves, LifeFits, RowFits, LiveBrowser, Active
  <2>6. NeedFits'
    BY <2>3, <2>7, <1>b, NeedKept
  <2> QED BY <2>4, <2>5, <2>6
<1>12. CASE CodeReads(k)
  <2>1. Of(k) \in Session /\ slot[k].pc = "submit_otp"
    BY <1>12, JobFacts DEF CodeReads, At, TypeInv
  <2>2. \/ /\ slot'[k].pc = "armed" /\ Of(k)' = Of(k)
           /\ UNCHANGED status /\ tracker' = tracker \ {Of(k)} /\ UNCHANGED browser
           /\ Of(k) \in tracker
        \/ /\ slot'[k].pc = "lost" /\ Of(k)' = Of(k)
           /\ UNCHANGED status /\ tracker' = tracker \ {Of(k)} /\ UNCHANGED browser
        \/ /\ slot'[k].pc = "idle"
           /\ UNCHANGED status /\ UNCHANGED tracker /\ UNCHANGED browser
    BY <1>12, <2>1, Moves DEF TypeInv, CodeReads, At, PutOff, PC, Of
  <2>3. UNCHANGED <<portal, plan, expiring, sweep, up, fetched, late>>
    BY <1>12 DEF CodeReads
  <2>4. Effect(Of(k))
    BY <2>1, <2>2, <2>3, <1>b, <1>c, <1>d DEF Effect, Kept, LifeFits, RowFits, LoginsFit,
         LiveBrowser,
         Active, Ended
  <2>8. RowFits(k)'
    BY <2>1, <2>2, <2>3, <1>a, <1>b DEF LifeFits, TrackFits, RowFits, LoginsFit, LiveBrowser,
         Active
  <2>9. ASSUME NEW s \in Session PROVE TrackFits(s)'
    BY <2>1, <2>2, <2>3, <1>a, <1>b DEF LifeFits, TrackFits, RowFits, LoginsFit, LiveBrowser, Active
  <2>5. LifeFits'
    BY <2>3, <2>8, <2>9, <1>a, <1>b DEF LifeFits
  <2>7. StatusMoves
    BY <2>1, <2>2, <1>a, <1>b DEF StatusMoves, LifeFits, RowFits, LiveBrowser, Active
  <2>6. NeedFits'
    BY <2>3, <2>7, <1>b, NeedKept
  <2> QED BY <2>4, <2>5, <2>6
<1>13. CASE CodeTooLate(k)
  <2>1. Of(k) \in Session /\ slot[k].pc = "lost"
    BY <1>13, JobFacts DEF CodeTooLate, At, TypeInv
  <2>2. \/ /\ slot'[k].pc = "idle"
           /\ status' = [status EXCEPT ![Of(k)] = "expired"] /\ UNCHANGED tracker
           /\ browser' \in {browser, browser \ {Of(k)}} /\ status[Of(k)] = "awaiting_otp"
        \/ /\ slot'[k].pc = "idle"
           /\ UNCHANGED status /\ UNCHANGED tracker /\ browser' \in {browser, browser \ {Of(k)}}
           /\ status[Of(k)] # "awaiting_otp"
    BY <1>13, <2>1, Moves DEF TypeInv, CodeTooLate, At, CloseRemote, SetStatus, PC
  <2>3. UNCHANGED <<portal, plan, expiring, sweep, up, fetched, late>>
    BY <1>13 DEF CodeTooLate
  <2>4. Effect(Of(k))
    BY <2>1, <2>2, <2>3, <1>b, <1>c, <1>d DEF Effect, Kept, LifeFits, RowFits, LoginsFit,
         LiveBrowser,
         Active, Ended
  <2>8. RowFits(k)'
    BY <2>1, <2>2, <2>3, <1>a, <1>b DEF LifeFits, TrackFits, RowFits, LoginsFit, LiveBrowser,
         Active
  <2>9. ASSUME NEW s \in Session PROVE TrackFits(s)'
    BY <2>1, <2>2, <2>3, <1>a, <1>b DEF LifeFits, TrackFits, RowFits, LoginsFit, LiveBrowser, Active
  <2>5. LifeFits'
    BY <2>3, <2>8, <2>9, <1>a, <1>b DEF LifeFits
  <2>7. StatusMoves
    BY <2>1, <2>2, <1>a, <1>b DEF StatusMoves, LifeFits, RowFits, LiveBrowser, Active
  <2>6. NeedFits'
    BY <2>3, <2>7, <1>b, NeedKept
  <2> QED BY <2>4, <2>5, <2>6
<1>14. CASE CodeOfDeletedClient(k)
  <2>1. Of(k) \in Session /\ slot[k].pc = "armed"
    BY <1>14, JobFacts DEF CodeOfDeletedClient, At, TypeInv
  <2>2. /\ slot'[k].pc = "idle"
        /\ UNCHANGED status /\ UNCHANGED tracker /\ browser' \in {browser, browser \ {Of(k)}}
    BY <1>14, <2>1, Moves DEF TypeInv, CodeOfDeletedClient, At, CloseRemote, PC
  <2>3. UNCHANGED <<portal, plan, expiring, sweep, up, fetched, late>>
    BY <1>14 DEF CodeOfDeletedClient
  <2>4. Effect(Of(k))
    BY <2>1, <2>2, <2>3, <1>b, <1>c, <1>d DEF Effect, Kept, LifeFits, RowFits, LoginsFit,
         LiveBrowser,
         Active, Ended
  <2>8. RowFits(k)'
    BY <2>1, <2>2, <2>3, <1>a, <1>b DEF LifeFits, TrackFits, RowFits, LoginsFit, LiveBrowser,
         Active
  <2>9. ASSUME NEW s \in Session PROVE TrackFits(s)'
    BY <2>1, <2>2, <2>3, <1>a, <1>b DEF LifeFits, TrackFits, RowFits, LoginsFit, LiveBrowser, Active
  <2>5. LifeFits'
    BY <2>3, <2>8, <2>9, <1>a, <1>b DEF LifeFits
  <2>7. StatusMoves
    BY <2>1, <2>2, <1>a, <1>b DEF StatusMoves, LifeFits, RowFits, LiveBrowser, Active
  <2>6. NeedFits'
    BY <2>3, <2>7, <1>b, NeedKept
  <2> QED BY <2>4, <2>5, <2>6
<1>15. CASE CodeBlocked(k)
  <2>1. Of(k) \in Session /\ slot[k].pc = "armed"
    BY <1>15, JobFacts DEF CodeBlocked, At, TypeInv
  <2>2. /\ slot'[k].pc = "idle"
        /\ status' = [status EXCEPT ![Of(k)] = "cancelled"] /\ UNCHANGED tracker
        /\ browser' \in {browser, browser \ {Of(k)}}
    BY <1>15, <2>1, Moves DEF TypeInv, CodeBlocked, At, CloseRemote, SetStatus, PC
  <2>3. UNCHANGED <<portal, plan, expiring, sweep, up, fetched, late>>
    BY <1>15 DEF CodeBlocked
  <2>4. Effect(Of(k))
    BY <2>1, <2>2, <2>3, <1>b, <1>c, <1>d DEF Effect, Kept, LifeFits, RowFits, LoginsFit,
         LiveBrowser,
         Active, Ended
  <2>8. RowFits(k)'
    BY <2>1, <2>2, <2>3, <1>a, <1>b DEF LifeFits, TrackFits, RowFits, LoginsFit, LiveBrowser,
         Active
  <2>9. ASSUME NEW s \in Session PROVE TrackFits(s)'
    BY <2>1, <2>2, <2>3, <1>a, <1>b DEF LifeFits, TrackFits, RowFits, LoginsFit, LiveBrowser, Active
  <2>5. LifeFits'
    BY <2>3, <2>8, <2>9, <1>a, <1>b DEF LifeFits
  <2>7. StatusMoves
    BY <2>1, <2>2, <1>a, <1>b DEF StatusMoves, LifeFits, RowFits, LiveBrowser, Active
  <2>6. NeedFits'
    BY <2>3, <2>7, <1>b, NeedKept
  <2> QED BY <2>4, <2>5, <2>6
<1>16. CASE CodeSubmitted(k)
  <2>1. Of(k) \in Session /\ slot[k].pc = "armed"
    BY <1>16, JobFacts DEF CodeSubmitted, At, TypeInv
  <2>2. \/ /\ slot'[k].pc = "idle"
           /\ status' = [status EXCEPT ![Of(k)] = "failed"] /\ tracker' = tracker \ {Of(k)}
           /\ browser' \in {browser, browser \ {Of(k)}}
        \/ /\ slot'[k].pc = "verifying" /\ Of(k)' = Of(k)
           /\ status' = [status EXCEPT ![Of(k)] = "verifying"] /\ UNCHANGED tracker
           /\ UNCHANGED browser
    BY <1>16, <2>1, Moves DEF TypeInv, CodeSubmitted, At, CloseRemote, Abandon, SetStatus, PC
  <2>3. UNCHANGED <<portal, plan, expiring, sweep, up, fetched, late>>
    BY <1>16 DEF CodeSubmitted, Abandon
  <2>4. Effect(Of(k))
    BY <2>1, <2>2, <2>3, <1>b, <1>c, <1>d DEF Effect, Kept, LifeFits, RowFits, LoginsFit,
         LiveBrowser,
         Active, Ended
  <2>8. RowFits(k)'
    BY <2>1, <2>2, <2>3, <1>a, <1>b DEF LifeFits, TrackFits, RowFits, LoginsFit, LiveBrowser,
         Active
  <2>9. ASSUME NEW s \in Session PROVE TrackFits(s)'
    <3>1. CASE s = Of(k)
      BY <2>1, <2>2, <2>3, <3>1, <1>a, <1>b DEF LifeFits, TrackFits, RowFits, LiveBrowser
    <3>2. CASE s # Of(k)
      <4>1. status'[s] = status[s] /\ (s \in tracker' => s \in tracker) /\ (s \in browser' => s \in browser)
        BY <2>1, <2>2, <3>2, <1>b
      <4> QED BY <2>1, <2>3, <3>2, <4>1, <1>a, <1>b DEF LifeFits, TrackFits
    <3> QED BY <3>1, <3>2
  <2>5. LifeFits'
    BY <2>3, <2>8, <2>9, <1>a, <1>b DEF LifeFits
  <2>7. StatusMoves
    BY <2>1, <2>2, <1>a, <1>b DEF StatusMoves, LifeFits, RowFits, LiveBrowser, Active
  <2>6. NeedFits'
    BY <2>3, <2>7, <1>b, NeedKept
  <2> QED BY <2>4, <2>5, <2>6
<1>17. CASE CodeAccepted(k)
  <2>1. Of(k) \in Session /\ slot[k].pc = "verifying"
    BY <1>17, JobFacts DEF CodeAccepted, At, TypeInv
  <2>2. /\ slot'[k].pc = "verified" /\ Of(k)' = Of(k)
        /\ UNCHANGED status /\ UNCHANGED tracker /\ UNCHANGED browser
    BY <1>17, <2>1, Moves DEF TypeInv, CodeAccepted, At, PC
  <2>3. UNCHANGED <<portal, plan, expiring, sweep, up, fetched, late>>
    BY <1>17 DEF CodeAccepted
  <2>4. Effect(Of(k))
    BY <2>1, <2>2, <2>3, <1>b, <1>c, <1>d DEF Effect, Kept, LifeFits, RowFits, LoginsFit,
         LiveBrowser,
         Active, Ended
  <2>8. RowFits(k)'
    BY <2>1, <2>2, <2>3, <1>a, <1>b DEF LifeFits, TrackFits, RowFits, LoginsFit, LiveBrowser,
         Active
  <2>9. ASSUME NEW s \in Session PROVE TrackFits(s)'
    BY <2>1, <2>2, <2>3, <1>a, <1>b DEF LifeFits, TrackFits, RowFits, LoginsFit, LiveBrowser, Active
  <2>5. LifeFits'
    BY <2>3, <2>8, <2>9, <1>a, <1>b DEF LifeFits
  <2>7. StatusMoves
    BY <2>1, <2>2, <1>a, <1>b DEF StatusMoves, LifeFits, RowFits, LiveBrowser, Active
  <2>6. NeedFits'
    BY <2>3, <2>7, <1>b, NeedKept
  <2> QED BY <2>4, <2>5, <2>6
<1>18. CASE CodeRejected(k)
  <2>1. Of(k) \in Session /\ slot[k].pc = "verifying"
    BY <1>18, JobFacts DEF CodeRejected, At, TypeInv
  <2>2. \/ /\ slot'[k].pc = "rearm" /\ Of(k)' = Of(k)
           /\ UNCHANGED status /\ tracker' = tracker \cup {Of(k)} /\ UNCHANGED browser
        \/ /\ slot'[k].pc = "idle"
           /\ status' = [status EXCEPT ![Of(k)] = "failed"] /\ tracker' = tracker \ {Of(k)}
           /\ browser' \in {browser, browser \ {Of(k)}}
    BY <1>18, <2>1, Moves DEF TypeInv, CodeRejected, At, CloseRemote, Abandon, SetStatus, PC
  <2>3. UNCHANGED <<portal, plan, expiring, sweep, up, fetched, late>>
    BY <1>18 DEF CodeRejected, Abandon
  <2>4. Effect(Of(k))
    BY <2>1, <2>2, <2>3, <1>b, <1>c, <1>d DEF Effect, Kept, LifeFits, RowFits, LoginsFit,
         LiveBrowser,
         Active, Ended
  <2>8. RowFits(k)'
    BY <2>1, <2>2, <2>3, <1>a, <1>b DEF LifeFits, TrackFits, RowFits, LoginsFit, LiveBrowser,
         Active
  <2>9. ASSUME NEW s \in Session PROVE TrackFits(s)'
    BY <2>1, <2>2, <2>3, <1>a, <1>b DEF LifeFits, TrackFits, RowFits, LoginsFit, LiveBrowser, Active
  <2>5. LifeFits'
    BY <2>3, <2>8, <2>9, <1>a, <1>b DEF LifeFits
  <2>7. StatusMoves
    BY <2>1, <2>2, <1>a, <1>b DEF StatusMoves, LifeFits, RowFits, LiveBrowser, Active
  <2>6. NeedFits'
    BY <2>3, <2>7, <1>b, NeedKept
  <2> QED BY <2>4, <2>5, <2>6
<1>19. CASE Rearmed(k)
  <2>1. Of(k) \in Session /\ slot[k].pc = "rearm"
    BY <1>19, JobFacts DEF Rearmed, At, TypeInv
  <2>0. ~Refused(Of(k), "awaiting_otp")
    BY <1>19, <2>1, <1>b, <1>a DEF RowFits, LifeFits, NeedFits, Refused, ActiveOf, Active,
         LiveBrowser
  <2>2. /\ slot'[k].pc = "idle"
        /\ status' = [status EXCEPT ![Of(k)] = "awaiting_otp"] /\ UNCHANGED tracker
        /\ UNCHANGED browser
    BY <1>19, <2>1, <2>0, Moves DEF TypeInv, Rearmed, At, SetStatus, PC
  <2>3. UNCHANGED <<portal, plan, expiring, sweep, up, fetched, late>>
    BY <1>19 DEF Rearmed
  <2>4. Effect(Of(k))
    BY <2>1, <2>2, <2>3, <1>b, <1>c, <1>d DEF Effect, Kept, LifeFits, RowFits, LoginsFit,
         LiveBrowser,
         Active, Ended
  <2>8. RowFits(k)'
    BY <2>1, <2>2, <2>3, <1>a, <1>b DEF LifeFits, TrackFits, RowFits, LoginsFit, LiveBrowser,
         Active
  <2>9. ASSUME NEW s \in Session PROVE TrackFits(s)'
    BY <2>1, <2>2, <2>3, <1>a, <1>b DEF LifeFits, TrackFits, RowFits, LoginsFit, LiveBrowser, Active
  <2>5. LifeFits'
    BY <2>3, <2>8, <2>9, <1>a, <1>b DEF LifeFits
  <2>7. StatusMoves
    BY <2>1, <2>2, <1>a, <1>b DEF StatusMoves, LifeFits, RowFits, LiveBrowser, Active
  <2>6. NeedFits'
    BY <2>3, <2>7, <1>b, NeedKept
  <2> QED BY <2>4, <2>5, <2>6
<1>20. CASE SessionGone(k)
  <2>1. Of(k) \in Session /\ slot[k].pc = "verifying"
    BY <1>20, JobFacts DEF SessionGone, At, TypeInv
  <2>2. /\ slot'[k].pc = "idle"
        /\ status' = [status EXCEPT ![Of(k)] = "expired"] /\ UNCHANGED tracker
        /\ UNCHANGED browser /\ Of(k) \notin browser
    BY <1>20, <2>1, Moves DEF TypeInv, SessionGone, At, SetStatus, PC
  <2>3. UNCHANGED <<portal, plan, expiring, sweep, up, fetched, late>>
    BY <1>20 DEF SessionGone
  <2>4. Effect(Of(k))
    BY <2>1, <2>2, <2>3, <1>b, <1>c, <1>d DEF Effect, Kept, LifeFits, RowFits, LoginsFit,
         LiveBrowser,
         Active, Ended
  <2>8. RowFits(k)'
    BY <2>1, <2>2, <2>3, <1>a, <1>b DEF LifeFits, TrackFits, RowFits, LoginsFit, LiveBrowser,
         Active
  <2>9. ASSUME NEW s \in Session PROVE TrackFits(s)'
    BY <2>1, <2>2, <2>3, <1>a, <1>b DEF LifeFits, TrackFits, RowFits, LoginsFit, LiveBrowser, Active
  <2>5. LifeFits'
    BY <2>3, <2>8, <2>9, <1>a, <1>b DEF LifeFits
  <2>7. StatusMoves
    BY <2>1, <2>2, <1>a, <1>b DEF StatusMoves, LifeFits, RowFits, LiveBrowser, Active
  <2>6. NeedFits'
    BY <2>3, <2>7, <1>b, NeedKept
  <2> QED BY <2>4, <2>5, <2>6
<1>21. CASE VerificationFails(k)
  <2>1. Of(k) \in Session /\ slot[k].pc = "verifying"
    BY <1>21, JobFacts DEF VerificationFails, At, TypeInv
  <2>2. /\ slot'[k].pc = "idle"
        /\ status' = [status EXCEPT ![Of(k)] = "failed"] /\ tracker' = tracker \ {Of(k)}
        /\ browser' \in {browser, browser \ {Of(k)}}
    BY <1>21, <2>1, Moves DEF TypeInv, VerificationFails, At, CloseRemote, Abandon, SetStatus, PC
  <2>3. UNCHANGED <<portal, plan, expiring, sweep, up, fetched, late>>
    BY <1>21 DEF VerificationFails, Abandon
  <2>4. Effect(Of(k))
    BY <2>1, <2>2, <2>3, <1>b, <1>c, <1>d DEF Effect, Kept, LifeFits, RowFits, LoginsFit,
         LiveBrowser,
         Active, Ended
  <2>8. RowFits(k)'
    BY <2>1, <2>2, <2>3, <1>a, <1>b DEF LifeFits, TrackFits, RowFits, LoginsFit, LiveBrowser,
         Active
  <2>9. ASSUME NEW s \in Session PROVE TrackFits(s)'
    BY <2>1, <2>2, <2>3, <1>a, <1>b DEF LifeFits, TrackFits, RowFits, LoginsFit, LiveBrowser, Active
  <2>5. LifeFits'
    BY <2>3, <2>8, <2>9, <1>a, <1>b DEF LifeFits
  <2>7. StatusMoves
    BY <2>1, <2>2, <1>a, <1>b DEF StatusMoves, LifeFits, RowFits, LiveBrowser, Active
  <2>6. NeedFits'
    BY <2>3, <2>7, <1>b, NeedKept
  <2> QED BY <2>4, <2>5, <2>6
<1>22. CASE BeginDownload(k)
  <2>1. Of(k) \in Session /\ slot[k].pc = "verified"
    BY <1>22, JobFacts DEF BeginDownload, At, TypeInv
  <2>2. \/ /\ slot'[k].pc = "idle"
           /\ status' = [status EXCEPT ![Of(k)] = "failed"] /\ tracker' = tracker \ {Of(k)}
           /\ browser' \in {browser, browser \ {Of(k)}}
        \/ /\ slot'[k].pc = "downloading" /\ Of(k)' = Of(k)
           /\ status' = [status EXCEPT ![Of(k)] = "downloading"] /\ UNCHANGED tracker
           /\ UNCHANGED browser
    BY <1>22, <2>1, Moves DEF TypeInv, BeginDownload, At, CloseRemote, Abandon, SetStatus, PC
  <2>3. UNCHANGED <<portal, plan, expiring, sweep, up, fetched, late>>
    BY <1>22 DEF BeginDownload, Abandon
  <2>4. Effect(Of(k))
    BY <2>1, <2>2, <2>3, <1>b, <1>c, <1>d DEF Effect, Kept, LifeFits, RowFits, LoginsFit,
         LiveBrowser,
         Active, Ended
  <2>8. RowFits(k)'
    BY <2>1, <2>2, <2>3, <1>a, <1>b DEF LifeFits, TrackFits, RowFits, LoginsFit, LiveBrowser,
         Active
  <2>9. ASSUME NEW s \in Session PROVE TrackFits(s)'
    BY <2>1, <2>2, <2>3, <1>a, <1>b DEF LifeFits, TrackFits, RowFits, LoginsFit, LiveBrowser, Active
  <2>5. LifeFits'
    BY <2>3, <2>8, <2>9, <1>a, <1>b DEF LifeFits
  <2>7. StatusMoves
    BY <2>1, <2>2, <1>a, <1>b DEF StatusMoves, LifeFits, RowFits, LiveBrowser, Active
  <2>6. NeedFits'
    BY <2>3, <2>7, <1>b, NeedKept
  <2> QED BY <2>4, <2>5, <2>6
<1>23. CASE DownloadFails(k)
  <2>1. Of(k) \in Session /\ slot[k].pc = "downloading"
    BY <1>23, JobFacts DEF DownloadFails, At, TypeInv
  <2>2. /\ slot'[k].pc = "idle"
        /\ status' = [status EXCEPT ![Of(k)] = "failed"] /\ tracker' = tracker \ {Of(k)}
        /\ browser' \in {browser, browser \ {Of(k)}}
    BY <1>23, <2>1, Moves DEF TypeInv, DownloadFails, At, CloseRemote, Abandon, SetStatus, PC
  <2>3. UNCHANGED <<portal, plan, expiring, sweep, up, fetched, late>>
    BY <1>23 DEF DownloadFails, Abandon
  <2>4. Effect(Of(k))
    BY <2>1, <2>2, <2>3, <1>b, <1>c, <1>d DEF Effect, Kept, LifeFits, RowFits, LoginsFit,
         LiveBrowser,
         Active, Ended
  <2>8. RowFits(k)'
    BY <2>1, <2>2, <2>3, <1>a, <1>b DEF LifeFits, TrackFits, RowFits, LoginsFit, LiveBrowser,
         Active
  <2>9. ASSUME NEW s \in Session PROVE TrackFits(s)'
    BY <2>1, <2>2, <2>3, <1>a, <1>b DEF LifeFits, TrackFits, RowFits, LoginsFit, LiveBrowser, Active
  <2>5. LifeFits'
    BY <2>3, <2>8, <2>9, <1>a, <1>b DEF LifeFits
  <2>7. StatusMoves
    BY <2>1, <2>2, <1>a, <1>b DEF StatusMoves, LifeFits, RowFits, LiveBrowser, Active
  <2>6. NeedFits'
    BY <2>3, <2>7, <1>b, NeedKept
  <2> QED BY <2>4, <2>5, <2>6
<1>24. CASE Downloaded(k)
  <2>1. Of(k) \in Session /\ slot[k].pc = "downloading"
    BY <1>24, JobFacts DEF Downloaded, At, TypeInv
  <2>2. /\ slot'[k].pc = "delivering" /\ Of(k)' = Of(k)
        /\ UNCHANGED status /\ UNCHANGED tracker /\ browser' = browser \ {Of(k)}
    BY <1>24, <2>1, Moves DEF TypeInv, Downloaded, At, PC
  <2>3. UNCHANGED <<portal, plan, expiring, sweep, up, late>>
    BY <1>24 DEF Downloaded
  <2>4. Effect(Of(k))
    BY <2>1, <2>2, <2>3, <1>b, <1>c, <1>d DEF Effect, Kept, LifeFits, RowFits, LoginsFit,
         LiveBrowser,
         Active, Ended
  <2>8. RowFits(k)'
    BY <2>1, <2>2, <2>3, <1>a, <1>b DEF LifeFits, TrackFits, RowFits, LoginsFit, LiveBrowser,
         Active
  <2>9. ASSUME NEW s \in Session PROVE TrackFits(s)'
    BY <2>1, <2>2, <2>3, <1>a, <1>b DEF LifeFits, TrackFits, RowFits, LoginsFit, LiveBrowser, Active
  <2>5. LifeFits'
    BY <2>3, <2>8, <2>9, <1>a, <1>b DEF LifeFits
  <2>6. NeedFits'
    BY <1>24, <2>1, <2>2, <2>3, <1>a, <1>b DEF Downloaded, NeedFits, LifeFits, RowFits, ActiveOf,
         Active, LiveBrowser
  <2> QED BY <2>4, <2>5, <2>6
<1>25. CASE Delivered(k)
  <2>1. Of(k) \in Session /\ slot[k].pc = "delivering"
    BY <1>25, JobFacts DEF Delivered, At, TypeInv
  <2>2. /\ slot'[k].pc = "replanning" /\ Of(k)' = Of(k)
        /\ status' = [status EXCEPT ![Of(k)] = "delivered"] /\ UNCHANGED tracker
        /\ UNCHANGED browser
    BY <1>25, <2>1, Moves DEF TypeInv, Delivered, At, SetStatus, PC
  <2>3. UNCHANGED <<portal, plan, expiring, sweep, up, fetched, late>>
    BY <1>25 DEF Delivered
  <2>4. Effect(Of(k))
    BY <2>1, <2>2, <2>3, <1>b, <1>c, <1>d DEF Effect, Kept, LifeFits, RowFits, LoginsFit,
         LiveBrowser,
         Active, Ended
  <2>8. RowFits(k)'
    BY <2>1, <2>2, <2>3, <1>a, <1>b DEF LifeFits, TrackFits, RowFits, LoginsFit, LiveBrowser,
         Active
  <2>9. ASSUME NEW s \in Session PROVE TrackFits(s)'
    BY <2>1, <2>2, <2>3, <1>a, <1>b DEF LifeFits, TrackFits, RowFits, LoginsFit, LiveBrowser, Active
  <2>5. LifeFits'
    BY <2>3, <2>8, <2>9, <1>a, <1>b DEF LifeFits
  <2>7. StatusMoves
    BY <2>1, <2>2, <1>a, <1>b DEF StatusMoves, LifeFits, RowFits, LiveBrowser, Active
  <2>6. NeedFits'
    BY <2>3, <2>7, <1>b, NeedKept
  <2> QED BY <2>4, <2>5, <2>6
<1>26. CASE DeliveryFails(k)
  <2>1. Of(k) \in Session /\ slot[k].pc \in {"delivering", "replanning"}
    BY <1>26, JobFacts DEF DeliveryFails, TypeInv
  <2>2. /\ slot'[k].pc = "idle"
        /\ status' = [status EXCEPT ![Of(k)] = "failed"] /\ UNCHANGED tracker /\ UNCHANGED browser
    BY <1>26, <2>1, Moves DEF TypeInv, DeliveryFails, At, SetStatus, Done, PC
  <2>3. UNCHANGED <<portal, plan, expiring, sweep, up, fetched, late>>
    BY <1>26 DEF DeliveryFails
  <2>4. Effect(Of(k))
    BY <2>1, <2>2, <2>3, <1>b, <1>c, <1>d DEF Effect, Kept, LifeFits, RowFits, LoginsFit,
         LiveBrowser,
         Active, Ended
  <2>8. RowFits(k)'
    BY <2>1, <2>2, <2>3, <1>a, <1>b DEF LifeFits, TrackFits, RowFits, LoginsFit, LiveBrowser,
         Active
  <2>9. ASSUME NEW s \in Session PROVE TrackFits(s)'
    BY <2>1, <2>2, <2>3, <1>a, <1>b DEF LifeFits, TrackFits, RowFits, LoginsFit, LiveBrowser, Active
  <2>5. LifeFits'
    BY <2>3, <2>8, <2>9, <1>a, <1>b DEF LifeFits
  <2>7. StatusMoves
    BY <2>1, <2>2, <1>a, <1>b DEF StatusMoves, LifeFits, RowFits, LiveBrowser, Active
  <2>6. NeedFits'
    BY <2>3, <2>7, <1>b, NeedKept
  <2> QED BY <2>4, <2>5, <2>6
<1>27. CASE CancelCloses(k)
  <2>1. Of(k) \in Session /\ slot[k].pc = "cancel"
    BY <1>27, JobFacts DEF CancelCloses, At, TypeInv
  <2>2. /\ slot'[k].pc = "closed" /\ Of(k)' = Of(k)
        /\ UNCHANGED status /\ tracker' = tracker \ {Of(k)}
        /\ browser' \in {browser, browser \ {Of(k)}}
    BY <1>27, <2>1, Moves DEF TypeInv, CancelCloses, At, CloseRemote, PC
  <2>3. UNCHANGED <<portal, plan, expiring, sweep, up, fetched, late>>
    BY <1>27 DEF CancelCloses
  <2>4. Effect(Of(k))
    BY <2>1, <2>2, <2>3, <1>b, <1>c, <1>d DEF Effect, Kept, LifeFits, RowFits, LoginsFit,
         LiveBrowser,
         Active, Ended
  <2>8. RowFits(k)'
    BY <2>1, <2>2, <2>3, <1>a, <1>b DEF LifeFits, TrackFits, RowFits, LoginsFit, LiveBrowser,
         Active
  <2>9. ASSUME NEW s \in Session PROVE TrackFits(s)'
    BY <2>1, <2>2, <2>3, <1>a, <1>b DEF LifeFits, TrackFits, RowFits, LoginsFit, LiveBrowser, Active
  <2>5. LifeFits'
    BY <2>3, <2>8, <2>9, <1>a, <1>b DEF LifeFits
  <2>7. StatusMoves
    BY <2>1, <2>2, <1>a, <1>b DEF StatusMoves, LifeFits, RowFits, LiveBrowser, Active
  <2>6. NeedFits'
    BY <2>3, <2>7, <1>b, NeedKept
  <2> QED BY <2>4, <2>5, <2>6
<1>28. CASE CancelMarks(k)
  <2>1. Of(k) \in Session /\ slot[k].pc = "closed"
    BY <1>28, JobFacts DEF CancelMarks, At, TypeInv
  <2>2. \/ /\ slot'[k].pc = "idle"
           /\ status' = [status EXCEPT ![Of(k)] = "cancelled"] /\ UNCHANGED tracker
           /\ UNCHANGED browser /\ status[Of(k)] \in Active
        \/ /\ slot'[k].pc = "idle"
           /\ UNCHANGED status /\ UNCHANGED tracker /\ UNCHANGED browser
    BY <1>28, <2>1, Moves DEF TypeInv, CancelMarks, At, SetStatus, PC
  <2>3. UNCHANGED <<portal, plan, expiring, sweep, up, fetched, late>>
    BY <1>28 DEF CancelMarks
  <2>4. Effect(Of(k))
    BY <2>1, <2>2, <2>3, <1>b, <1>c, <1>d DEF Effect, Kept, LifeFits, RowFits, LoginsFit,
         LiveBrowser,
         Active, Ended
  <2>8. RowFits(k)'
    BY <2>1, <2>2, <2>3, <1>a, <1>b DEF LifeFits, TrackFits, RowFits, LoginsFit, LiveBrowser,
         Active
  <2>9. ASSUME NEW s \in Session PROVE TrackFits(s)'
    BY <2>1, <2>2, <2>3, <1>a, <1>b DEF LifeFits, TrackFits, RowFits, LoginsFit, LiveBrowser, Active
  <2>5. LifeFits'
    BY <2>3, <2>8, <2>9, <1>a, <1>b DEF LifeFits
  <2>7. StatusMoves
    BY <2>1, <2>2, <1>a, <1>b DEF StatusMoves, LifeFits, RowFits, LiveBrowser, Active
  <2>6. NeedFits'
    BY <2>3, <2>7, <1>b, NeedKept
  <2> QED BY <2>4, <2>5, <2>6

<1>29. CASE CodeScreen(k)
  <2>1. Of(k) \in Session /\ slot[k].pc = "opened"
    BY <1>29, JobFacts DEF CodeScreen, At, TypeInv
  <2>2. /\ slot'[k].pc = "answered" /\ Of(k)' = Of(k)
        /\ UNCHANGED status /\ UNCHANGED tracker /\ browser' = browser \cup {Of(k)}
    BY <1>29, <2>1, Moves DEF TypeInv, CodeScreen, Registers, At, PC
  <2>3. UNCHANGED <<portal, plan, expiring, sweep, up, fetched, late>>
    BY <1>29 DEF CodeScreen
  <2>4. Effect(Of(k))
    BY <2>1, <2>2, <2>3, <1>b, <1>c, <1>d DEF Effect, Kept, LifeFits, RowFits, LoginsFit,
         LiveBrowser,
         Active, Ended
  <2>8. RowFits(k)'
    BY <2>1, <2>2, <2>3, <1>a, <1>b DEF LifeFits, TrackFits, RowFits, LoginsFit, LiveBrowser,
         Active
  <2>9. ASSUME NEW s \in Session PROVE TrackFits(s)'
    BY <2>1, <2>2, <2>3, <1>a, <1>b DEF LifeFits, TrackFits, RowFits, LoginsFit, LiveBrowser, Active
  <2>5. LifeFits'
    BY <2>3, <2>8, <2>9, <1>a, <1>b DEF LifeFits
  <2>7. StatusMoves
    BY <2>1, <2>2, <1>a, <1>b DEF StatusMoves, LifeFits, RowFits, LiveBrowser, Active
  <2>6. NeedFits'
    BY <2>3, <2>7, <1>b, NeedKept
  <2> QED BY <2>4, <2>5, <2>6
<1>30. CASE LoginTimesOut(k)
  <2>1. Of(k) \in Session /\ slot[k].pc = "opened"
    BY <1>30, JobFacts DEF LoginTimesOut, At, TypeInv
  <2>2. /\ slot'[k].pc = "idle" /\ late' = late \cup {Of(k)}
        /\ status' = [status EXCEPT ![Of(k)] = "failed"] /\ tracker' = tracker \ {Of(k)}
        /\ browser' \in {browser, browser \ {Of(k)}}
    BY <1>30, <2>1, Moves DEF TypeInv, LoginTimesOut, At, CloseRemote, Abandon, SetStatus, PC
  <2>3. UNCHANGED <<portal, plan, expiring, sweep, up, fetched>>
    BY <1>30 DEF LoginTimesOut, Abandon
  <2>4. Effect(Of(k))
    BY <2>1, <2>2, <2>3, <1>b, <1>c, <1>d DEF Effect, Kept, LifeFits, RowFits, LoginsFit,
         LiveBrowser,
         Active, Ended
  <2>8. RowFits(k)'
    BY <2>1, <2>2, <2>3, <1>a, <1>b DEF LifeFits, TrackFits, RowFits, LoginsFit, LiveBrowser,
         Active
  <2>9. ASSUME NEW s \in Session PROVE TrackFits(s)'
    BY <2>1, <2>2, <2>3, <1>a, <1>b DEF LifeFits, TrackFits, RowFits, LoginsFit, LiveBrowser, Active
  <2>5. LifeFits'
    BY <2>3, <2>8, <2>9, <1>a, <1>b DEF LifeFits
  <2>7. StatusMoves
    BY <2>1, <2>2, <1>a, <1>b DEF StatusMoves, LifeFits, RowFits, LiveBrowser, Active
  <2>6. NeedFits'
    BY <2>3, <2>7, <1>b, NeedKept
  <2> QED BY <2>4, <2>5, <2>6
<1>31. CASE Replanned(k)
  <2>1. Of(k) \in Session /\ slot[k].pc = "replanning"
    BY <1>31, JobFacts DEF Replanned, At, TypeInv
  <2>2. /\ slot'[k].pc = "idle"
        /\ UNCHANGED status /\ UNCHANGED tracker /\ UNCHANGED browser
    BY <1>31, <2>1, Moves DEF TypeInv, Replanned, At, PC
  <2>3. UNCHANGED <<portal, plan, expiring, sweep, up, fetched, late>>
    BY <1>31 DEF Replanned
  <2>4. Effect(Of(k))
    BY <2>1, <2>2, <2>3, <1>b, <1>c, <1>d DEF Effect, Kept, LifeFits, RowFits, LoginsFit,
         LiveBrowser,
         Active, Ended
  <2>8. RowFits(k)'
    BY <2>1, <2>2, <2>3, <1>a, <1>b DEF LifeFits, TrackFits, RowFits, LoginsFit, LiveBrowser,
         Active
  <2>9. ASSUME NEW s \in Session PROVE TrackFits(s)'
    BY <2>1, <2>2, <2>3, <1>a, <1>b DEF LifeFits, TrackFits, RowFits, LoginsFit, LiveBrowser, Active
  <2>5. LifeFits'
    BY <2>3, <2>8, <2>9, <1>a, <1>b DEF LifeFits
  <2>7. StatusMoves
    BY <2>1, <2>2, <1>a, <1>b DEF StatusMoves, LifeFits, RowFits, LiveBrowser, Active
  <2>6. NeedFits'
    BY <2>3, <2>7, <1>b, NeedKept
  <2> QED BY <2>4, <2>5, <2>6
<1> QED
  BY <1>1, <1>2, <1>3, <1>4, <1>5, <1>6, <1>7, <1>8, <1>9, <1>10, <1>11,
       <1>12, <1>13, <1>14, <1>15, <1>16, <1>17, <1>18, <1>19, <1>20, <1>21, <1>22, <1>23,
       <1>24, <1>25, <1>26, <1>27, <1>28, <1>29, <1>30, <1>31
       DEF Work, Start, Submit, Cancel

LEMMA WorkOf ==
  ASSUME SlotFits, NEW k \in Slot, Work(k)
  PROVE  Of(k) \in Session
<1>1. CASE StartReads(k)
  BY <1>1, JobFacts DEF StartReads, At
<1>2. CASE StartBlocked(k)
  BY <1>2, JobFacts DEF StartBlocked, At
<1>3. CASE StartWaits(k)
  BY <1>3, JobFacts DEF StartWaits, At
<1>4. CASE StartImpossible(k)
  BY <1>4, JobFacts DEF StartImpossible, At
<1>5. CASE StartDeferred(k)
  BY <1>5, JobFacts DEF StartDeferred, At
<1>6. CASE StartLogin(k)
  BY <1>6, JobFacts DEF StartLogin, At
<1>7. CASE RunnerAccepts(k)
  BY <1>7, JobFacts DEF RunnerAccepts, At
<1>8. CASE LoginSucceeds(k)
  BY <1>8, JobFacts DEF LoginSucceeds, At
<1>9. CASE LoginDeferred(k)
  BY <1>9, JobFacts DEF LoginDeferred, At
<1>10. CASE LoginFails(k)
  BY <1>10, JobFacts DEF LoginFails
<1>11. CASE LoginConfirmed(k)
  BY <1>11, JobFacts DEF LoginConfirmed, At
<1>12. CASE CodeReads(k)
  BY <1>12, JobFacts DEF CodeReads, At
<1>13. CASE CodeTooLate(k)
  BY <1>13, JobFacts DEF CodeTooLate, At
<1>14. CASE CodeOfDeletedClient(k)
  BY <1>14, JobFacts DEF CodeOfDeletedClient, At
<1>15. CASE CodeBlocked(k)
  BY <1>15, JobFacts DEF CodeBlocked, At
<1>16. CASE CodeSubmitted(k)
  BY <1>16, JobFacts DEF CodeSubmitted, At
<1>17. CASE CodeAccepted(k)
  BY <1>17, JobFacts DEF CodeAccepted, At
<1>18. CASE CodeRejected(k)
  BY <1>18, JobFacts DEF CodeRejected, At
<1>19. CASE Rearmed(k)
  BY <1>19, JobFacts DEF Rearmed, At
<1>20. CASE SessionGone(k)
  BY <1>20, JobFacts DEF SessionGone, At
<1>21. CASE VerificationFails(k)
  BY <1>21, JobFacts DEF VerificationFails, At
<1>22. CASE BeginDownload(k)
  BY <1>22, JobFacts DEF BeginDownload, At
<1>23. CASE DownloadFails(k)
  BY <1>23, JobFacts DEF DownloadFails, At
<1>24. CASE Downloaded(k)
  BY <1>24, JobFacts DEF Downloaded, At
<1>25. CASE Delivered(k)
  BY <1>25, JobFacts DEF Delivered, At
<1>26. CASE DeliveryFails(k)
  BY <1>26, JobFacts DEF DeliveryFails
<1>27. CASE CancelCloses(k)
  BY <1>27, JobFacts DEF CancelCloses, At
<1>28. CASE CancelMarks(k)
  BY <1>28, JobFacts DEF CancelMarks, At
<1>29. CASE CodeScreen(k)
  BY <1>29, JobFacts DEF CodeScreen, At
<1>30. CASE LoginTimesOut(k)
  BY <1>30, JobFacts DEF LoginTimesOut, At
<1>31. CASE Replanned(k)
  BY <1>31, JobFacts DEF Replanned, At
<1> QED
  BY <1>1, <1>2, <1>3, <1>4, <1>5, <1>6, <1>7, <1>8, <1>9, <1>10, <1>11,
       <1>12, <1>13, <1>14, <1>15, <1>16, <1>17, <1>18, <1>19, <1>20, <1>21, <1>22, <1>23,
       <1>24, <1>25, <1>26, <1>27, <1>28, <1>29, <1>30, <1>31
       DEF Work, Start, Submit, Cancel

LEMMA LifeAround ==
  ASSUME OneSlot, MaxCrashes = 0, TypeInv, LifeFits, NeedFits, Around \/ UNCHANGED vars
  PROVE  (\E s \in Session : Effect(s)) /\ LifeFits' /\ NeedFits' /\ AtRunner' \subseteq AtRunner
<1> USE DEF rowVars, listVars, clientVars, workVars, faultVars, TypeOK, PreLogin
<1>a. \A j, k \in Slot : j = k
  BY DEF OneSlot
<1>b. TypeOK /\ LoginsFit /\ LifeFits /\ NeedFits
  BY DEF TypeInv
<1>c. 1 \in Session
  BY FetchAssumption DEF Session
<1> DEFINE Goal == (\E s \in Session : Effect(s)) /\ LifeFits' /\ NeedFits' /\ AtRunner' \subseteq AtRunner
<1>d. UNCHANGED <<slot, late>> => AtRunner' = AtRunner
  BY DEF AtRunner, At, Of
<1>0. CASE UNCHANGED <<rowVars, fetched, plan, slot, workVars, browser, late>>
  <2>1. LifeFits'
    BY <1>0, <1>b DEF LifeFits, RowFits, TrackFits, Of
  <2>2. NeedFits'
    BY <1>0, <1>b DEF NeedFits, ActiveOf
  <2>3. Effect(1)
    BY <1>0, <1>d DEF Effect
  <2> QED BY <1>0, <1>c, <1>d, <2>1, <2>2, <2>3
<1>1. ASSUME NEW p \in Provider, PlanReads(p) PROVE Goal
  <2>1. LifeFits' /\ UNCHANGED <<slot, late>>
    BY <1>1, <1>b DEF PlanReads, LifeFits, RowFits, TrackFits, Of
  <2>2. NeedFits'
    <3>1. PICK a \in AllowedActions(p) :
            plan' = [action |-> a, provider |-> p, session |-> ContextSession(p), active |-> ActiveOf(p) # {}]
      BY <1>1 DEF PlanReads
    <3>2. a # "cancel" => p \notin fetched
      BY <1>b, AllowedActionsSound
    <3> QED BY <1>1, <3>1, <3>2, <1>b DEF PlanReads, NeedFits, ActiveOf
  <2>3. Effect(1)
    BY <1>1, <1>d, <2>1 DEF PlanReads, Effect
  <2> QED BY <1>c, <1>d, <2>1, <2>2, <2>3
<1>2. CASE PlanWithoutFetch
  BY <1>0, <1>2 DEF PlanWithoutFetch
<1>3. CASE PlanActs
  <2>1. CASE UNCHANGED status
    <3>1. LifeFits'
      BY <1>3, <2>1, <1>b DEF PlanActs, LifeFits, RowFits, TrackFits, Of
    <3>2. NeedFits'
      BY <1>3, <2>1, <1>b DEF PlanActs, NeedFits, ActiveOf, NoPlan
    <3>3. Effect(1)
      BY <1>3, <1>d, <2>1 DEF PlanActs, Effect
    <3> QED BY <1>3, <1>c, <1>d, <3>1, <3>2, <3>3 DEF PlanActs
  <2>2. ASSUME NEW s \in Session, Insertable(plan.provider, s), ~plan.active,
               plan.action \in {"client_agreed", "start_login"},
               status' = [status EXCEPT ![s] = "wa_intro_sent"]
        PROVE  Goal
    <3>1. status[s] = "none" /\ portal[s] = plan.provider /\ ActiveOf(plan.provider) = {}
      BY <2>2 DEF Insertable
    <3>2. LifeFits'
      BY <1>3, <2>2, <3>1, <1>b DEF PlanActs, LifeFits, RowFits, TrackFits, Of, LiveBrowser
    <3>3. plan.provider \notin fetched
      BY <2>2, <1>b DEF NeedFits, NoPlan
    <3>4. NeedFits'
      BY <1>3, <2>2, <3>1, <3>3, <1>b DEF PlanActs, NeedFits, ActiveOf, Active, NoPlan
    <3>5. Effect(s)
      BY <1>3, <1>d, <2>2, <3>1 DEF PlanActs, Effect, Kept
    <3> QED BY <1>3, <1>d, <3>2, <3>4, <3>5 DEF PlanActs
  <2> QED
    BY <1>3, <2>1, <2>2 DEF PlanActs, PlanAgrees, PlanStartsLogin, PlanCancels, FetchSession,
         SetStatus
<1>4. CASE PlanFails
  <2>1. LifeFits' /\ UNCHANGED <<slot, late>>
    BY <1>4, <1>b DEF PlanFails, LifeFits, RowFits, TrackFits, Of
  <2>2. NeedFits'
    BY <1>4, <1>b DEF PlanFails, NeedFits, ActiveOf, NoPlan
  <2>3. Effect(1)
    BY <1>4, <1>d, <2>1 DEF PlanFails, Effect
  <2> QED BY <1>c, <1>d, <2>1, <2>2, <2>3
<1>5. ASSUME NEW m \in DOMAIN mail, MailSends(m) PROVE Goal
  BY <1>0, <1>5 DEF MailSends
<1>6. CASE ClientWritesCode
  BY <1>0, <1>6 DEF ClientWritesCode
<1>7. CASE DeleteClient
  BY <1>0, <1>7 DEF DeleteClient
<1>8. ASSUME NEW k \in Slot, TakeJob(k) PROVE Goal
  <2>1. slot[k].pc = "idle" /\ slot'[k].pc \in {"start_login", "submit_otp", "cancel"}
    <3>1. PICK j \in jobs : slot' = [slot EXCEPT ![k] = [pc |-> j.kind, job |-> j]]
      BY <1>8 DEF TakeJob
    <3> QED BY <1>8, <3>1 DEF TakeJob, At, Job, TypeInv, SlotFits
  <2>2. UNCHANGED <<rowVars, fetched, plan, workVars, browser, late>>
    BY <1>8 DEF TakeJob
  <2>3. RowFits(k)'
    BY <2>1 DEF RowFits
  <2>4. ASSUME NEW s \in Session PROVE TrackFits(s)'
    BY <2>1, <2>2, <1>a, <1>b DEF LifeFits, TrackFits
  <2>5. LifeFits'
    BY <2>2, <2>3, <2>4, <1>a, <1>b DEF LifeFits
  <2>6. NeedFits'
    BY <2>2, <1>b DEF NeedFits, ActiveOf
  <2>7. AtRunner' = AtRunner
    BY <2>1, <2>2, <1>a DEF AtRunner, At
  <2>8. Effect(1)
    BY <2>2, <2>7 DEF Effect
  <2> QED BY <1>c, <2>2, <2>5, <2>6, <2>7, <2>8
<1>9. ASSUME NEW s \in Session, TimerFires(s) PROVE Goal
  <2>1. /\ s \in tracker /\ tracker' = tracker \ {s} /\ expiring' = expiring \cup {s}
        /\ UNCHANGED <<rowVars, fetched, plan, slot, sweep, up, browser, late>>
    BY <1>9 DEF TimerFires
  <2>2. status[s] = "awaiting_otp" /\ \A k \in Slot : Of(k) = s => slot[k].pc \notin {"confirm", "rearm"}
    BY <1>9, <1>b DEF TimerFires, LifeFits, TrackFits
  <2>3. ASSUME NEW k \in Slot PROVE RowFits(k)'
    BY <2>1, <2>2, <1>b DEF LifeFits, RowFits, Of
  <2>4. ASSUME NEW t \in Session PROVE TrackFits(t)'
    BY <2>1, <1>b DEF LifeFits, TrackFits, Of
  <2>5. LifeFits' /\ NeedFits'
    BY <2>1, <2>3, <2>4, <1>b DEF LifeFits, NeedFits, ActiveOf
  <2>6. Effect(s)
    BY <2>1, <1>d DEF Effect
  <2> QED BY <2>1, <1>d, <2>5, <2>6
<1>10. ASSUME NEW s \in Session, Expire(s) \/ Backstop(s) PROVE Goal
  <2>1. /\ browser' \in {browser, browser \ {s}} /\ expiring' \subseteq expiring
        /\ UNCHANGED <<portal, attempts, fetched, plan, slot, tracker, sweep, up, late>>
    BY <1>10 DEF Expire, Backstop, CloseRemote
  <2>2. \/ UNCHANGED status
        \/ s \in expiring /\ status[s] = "awaiting_otp" /\ status' = [status EXCEPT ![s] = "expired"]
    BY <1>10 DEF Expire, Backstop, SetStatus
  <2>5. ASSUME NEW k \in Slot PROVE RowFits(k)'
    <3>1. RowFits(k) /\ Of(k)' = Of(k) /\ slot'[k] = slot[k]
      BY <2>1, <1>b DEF LifeFits, Of
    <3>2. CASE UNCHANGED status
      BY <2>1, <3>1, <3>2 DEF RowFits
    <3>3. CASE s \in expiring /\ status[s] = "awaiting_otp" /\ status' = [status EXCEPT ![s] = "expired"]
      <4>1. CASE Of(k) = s
        BY <2>1, <3>1, <3>3, <4>1 DEF RowFits
      <4>2. CASE Of(k) # s
        <5>1. status'[Of(k)] = status[Of(k)]
          BY <3>3, <4>2, <1>b
        <5> QED BY <2>1, <3>1, <5>1 DEF RowFits
      <4> QED BY <4>1, <4>2
    <3> QED BY <2>2, <3>2, <3>3
  <2>6. ASSUME NEW t \in Session PROVE TrackFits(t)'
    <3>1. (s \in expiring => s \notin tracker) /\ TrackFits(t)
      BY <1>b DEF LifeFits, TrackFits
    <3>2. \A k \in Slot : Of(k)' = Of(k) /\ slot'[k] = slot[k]
      BY <2>1 DEF Of
    <3> QED BY <2>1, <2>2, <3>1, <3>2, <1>b DEF TrackFits
  <2>7. LifeFits'
    BY <2>1, <2>5, <2>6, <1>b DEF LifeFits
  <2>8. StatusMoves
    BY <2>2, <1>b DEF StatusMoves, Active, LiveBrowser
  <2>9. NeedFits'
    BY <2>1, <2>8, <1>b, NeedKept
  <2>10. Effect(s)
    BY <2>1, <2>2, <1>d DEF Effect, Active, LiveBrowser, Ended
  <2> QED BY <2>1, <1>d, <2>7, <2>9, <2>10
<1>11. (\A s \in Session : ~SweepExpires(s)) /\ ~Crash /\ ~Boot /\ ~SweepLists
  BY <1>b DEF LifeFits, SweepExpires, Crash, Boot, SweepLists
<1>12. CASE UNCHANGED vars
  BY <1>0, <1>12 DEF vars
<1>13. ASSUME NEW p \in Provider, ListMoves(p) PROVE Goal
  <2>1. fetched' \subseteq fetched /\ UNCHANGED <<rowVars, plan, slot, workVars, browser, late>>
    BY <1>13 DEF ListMoves
  <2>2. LifeFits'
    BY <2>1, <1>b DEF LifeFits, RowFits, TrackFits, Of
  <2>3. NeedFits'
    BY <2>1, <1>b DEF NeedFits, ActiveOf
  <2>4. Effect(1)
    BY <2>1, <1>d DEF Effect
  <2> QED BY <1>c, <1>d, <2>1, <2>2, <2>3, <2>4
<1>14. ASSUME NEW s \in Session, LateLogin(s) \/ LateLoginFails(s) PROVE Goal
  <2>1. /\ s \in late /\ late' = late \ {s} /\ browser' \in {browser, browser \cup {s}}
        /\ UNCHANGED <<rowVars, fetched, plan, slot, workVars>>
    BY <1>14 DEF LateLogin, LateLoginFails, Registers
  <2>2. LifeFits'
    BY <2>1, <1>b DEF LifeFits, RowFits, TrackFits, Of
  <2>3. NeedFits'
    BY <2>1, <1>b DEF NeedFits, ActiveOf
  <2>4. ~(\E k \in Slot : At(k, "opened") /\ Of(k) = s)
    BY <2>1, <1>b DEF LoginsFit, At
  <2>5. s \in AtRunner /\ AtRunner' = AtRunner \ {s}
    BY <2>1, <2>4 DEF AtRunner, At, Of
  <2>6. Effect(s)
    BY <2>1, <2>5 DEF Effect
  <2> QED BY <2>2, <2>3, <2>5, <2>6
<1> QED
  BY <1>1, <1>2, <1>3, <1>4, <1>5, <1>6, <1>7, <1>8, <1>9, <1>10, <1>11, <1>12, <1>13,
       <1>14 DEF Around

\* The invariant as long as the worker lives.
LifeInv == TypeInv /\ LifeFits /\ NeedFits

LEMMA LifeStarts == OneSlot /\ MaxCrashes = 0 /\ Init => LifeInv
<1> SUFFICES ASSUME Init PROVE LifeInv
  OBVIOUS
<1>2. LifeFits
  BY DEF Init, LifeFits, RowFits, TrackFits, Idle
<1>3. NeedFits
  BY DEF Init, NeedFits, Active, PreLogin, LiveBrowser
<1> QED BY <1>2, <1>3, Starts DEF LifeInv

LEMMA LifeSteps ==
  ASSUME OneSlot, MaxCrashes = 0, LifeInv, [Next]_vars
  PROVE  LifeInv' /\ \E s \in Session : Effect(s)
<1>1. CASE Around \/ UNCHANGED vars
  BY <1>1, LifeAround, Steps DEF LifeInv
<1>2. ASSUME NEW k \in Slot, Work(k) PROVE LifeInv' /\ \E s \in Session : Effect(s)
  <2>1. Of(k) \in Session
    BY <1>2, WorkOf DEF LifeInv, TypeInv
  <2> QED BY <1>2, <2>1, LifeWork, Steps DEF LifeInv
<1> QED BY <1>1, <1>2 DEF Next, Around

LEMMA LifeInvariance ==
  ASSUME OneSlot, MaxCrashes = 0
  PROVE  Spec => []LifeInv
<1>1. Init => LifeInv
  BY LifeStarts
<1>2. LifeInv /\ [Next]_vars => LifeInv'
  BY LifeSteps
<1> QED BY <1>1, <1>2, PTL DEF Spec

\* An effect on a session is a step of its life.
LEMMA EffectIsLife ==
  ASSUME TypeOK, TypeOK', NEW s \in Session, Effect(s)
  PROVE  [Life!Next]_Life!life
<1> DEFINE ph == [t \in Session |-> Phase(t)]
<1> USE DEF TypeOK
<1>1. Life!life = <<ph, AtRunner, browser>> /\ Life!life' = <<ph', AtRunner', browser'>>
  BY DEF Life!life
<1>2. \A t \in Session : status'[t] = status[t] => Phase(t)' = Phase(t)
  BY DEF Phase
<1>3. /\ status'[s] = "none" => Phase(s)' = "absent"
      /\ status'[s] \in PreLogin => Phase(s)' = "agreed"
      /\ status'[s] \in LiveBrowser => Phase(s)' = "live"
      /\ status'[s] \in Ended => Phase(s)' = "ended"
  BY DEF Phase, PreLogin, LiveBrowser, Ended
<1>4. ASSUME NEW st, status' = [status EXCEPT ![s] = st]
      PROVE  ph' = [ph EXCEPT ![s] = Phase(s)']
  <2>1. \A t \in Session : t # s => Phase(t)' = Phase(t)
    BY <1>2, <1>4
  <2> QED BY <2>1
<1>5. status' = status => ph' = ph
  BY <1>2
<1>6. ASSUME Phase(s)' = Phase(s), NEW st, status' = [status EXCEPT ![s] = st] PROVE ph' = ph
  <2>1. \A t \in Session : Phase(t)' = Phase(t)
    BY <1>2, <1>6
  <2> QED BY <2>1
<1>7. ph[s] = Phase(s)
  OBVIOUS
<1>8. CASE /\ \/ status' = status
              \/ status[s] \in LiveBrowser /\ \E st \in LiveBrowser : status' = [status EXCEPT ![s] = st]
              \/ status[s] \in Ended /\ \E st \in Ended : status' = [status EXCEPT ![s] = st]
           /\ AtRunner' = AtRunner /\ browser' \in {browser, browser \ {s}}
  <2>1. ph' = ph
    BY ZenonT(60), <1>3, <1>5, <1>6, <1>8, PhaseIs
  <2> QED BY <1>1, <1>8, <2>1 DEF Life!Next, Life!Close, Life!life
<1>10. CASE status[s] = "none" /\ status' = [status EXCEPT ![s] = "wa_intro_sent"] /\ Kept
  <2>1. Phase(s) = "absent" /\ Phase(s)' = "agreed" /\ ph' = [ph EXCEPT ![s] = Phase(s)']
    BY <1>3, <1>4, <1>10, PhaseIs DEF PreLogin
  <2> QED BY <1>10, <2>1 DEF Life!Next, Life!Agree, Life!Moves, Kept
<1>11. CASE status[s] \in PreLogin /\ status' = [status EXCEPT ![s] = "logging_in"] /\ Kept
  <2>1. Phase(s) = "agreed" /\ Phase(s)' = "live" /\ ph' = [ph EXCEPT ![s] = Phase(s)']
    BY <1>3, <1>4, <1>11, PhaseIs DEF LiveBrowser
  <2> QED BY <1>11, <2>1 DEF Life!Next, Life!Login, Life!Moves, Kept
<1>12. CASE /\ status[s] \in LiveBrowser /\ s \notin AtRunner \cup browser
            /\ status' = [status EXCEPT ![s] = "wa_intro_sent"] /\ Kept
  <2>1. Phase(s) = "live" /\ Phase(s)' = "agreed" /\ ph' = [ph EXCEPT ![s] = Phase(s)']
    BY <1>3, <1>4, <1>12, PhaseIs DEF PreLogin
  <2> QED BY <1>12, <2>1 DEF Life!Next, Life!BackOff, Life!Moves, Kept
<1>13. CASE /\ status[s] \in Active
            /\ \E st \in Ended : status' = [status EXCEPT ![s] = st]
            /\ AtRunner' \in {AtRunner, AtRunner \ {s}} /\ browser' \in {browser, browser \ {s}}
  <2>1. Phase(s) \in {"agreed", "live"} /\ Phase(s)' = "ended" /\ ph' = [ph EXCEPT ![s] = Phase(s)']
    BY ZenonT(60), <1>3, <1>4, <1>13, PhaseIs DEF Active
  <2> QED BY <1>13, <2>1 DEF Life!Next, Life!End, Life!Moves
<1>14. CASE /\ status' = status /\ status[s] = "logging_in" /\ s \notin AtRunner \cup browser
            /\ Cardinality(browser) < MaxLive
            /\ AtRunner' = AtRunner \cup {s} /\ browser' = browser
  <2>1. Phase(s) = "live" /\ ph' = ph
    BY <1>5, <1>14, PhaseIs DEF LiveBrowser
  <2>2. Life!Cardinality(browser) = Cardinality(browser)
    BY DEF Life!Cardinality, Cardinality
  <2>3. Life!TakeOn(s)
    BY <1>7, <1>14, <2>1, <2>2 DEF Life!TakeOn
  <2> QED BY <2>3 DEF Life!Next
<1>15. CASE /\ status' = status /\ s \in AtRunner
            /\ AtRunner' = AtRunner \ {s} /\ browser' = browser \cup {s}
  BY <1>5, <1>15 DEF Life!Next, Life!Open
<1>16. CASE status' = status /\ AtRunner' = AtRunner \ {s} /\ browser' = browser
  BY <1>5, <1>16 DEF Life!Next, Life!GiveUp
<1> QED
  BY <1>8, <1>10, <1>11, <1>12, <1>13, <1>14, <1>15, <1>16 DEF Effect

\* TaxFetch implements FetchLife while the worker lives: the three places a
\* session is kept in, its row, the worker's memory and the runner, show one
\* life.  An ended session stays ended, a login is taken on for a live session
\* and within the limit, and the browser it ends in may open when the worker has
\* given up on it and the session has ended.
THEOREM LivesOneLifeHolds ==
  ASSUME OneSlot, MaxCrashes = 0
  PROVE  Spec => LivesOneLife
<1>1. Init => Life!Init
  <2> SUFFICES ASSUME Init PROVE Life!Init
    OBVIOUS
  <2>1. \A s \in Session : Phase(s) = "absent"
    BY PhaseIs DEF Init
  <2>2. AtRunner = {}
    BY DEF Init, AtRunner, At, Idle
  <2> QED BY <2>1, <2>2 DEF Init, Life!Init
<1>2. LifeInv /\ [Next]_vars => [Life!Next]_Life!life
  <2> SUFFICES ASSUME LifeInv, [Next]_vars PROVE [Life!Next]_Life!life
    OBVIOUS
  <2>1. LifeInv' /\ \E s \in Session : Effect(s)
    BY LifeSteps
  <2>2. TypeOK /\ TypeOK'
    BY <2>1 DEF LifeInv, TypeInv
  <2> QED BY <2>1, <2>2, EffectIsLife
<1> QED BY <1>1, <1>2, LifeInvariance, PTL DEF Spec, LivesOneLife, Life!Spec

\* The portal is not made to send a code for documents that a fetch has brought
\* in and nobody has reopened since.
THEOREM NoNeedlessLoginHolds ==
  ASSUME OneSlot, MaxCrashes = 0
  PROVE  Spec => NoNeedlessLogin
<1> DEFINE Needed == \A s \in AtRunner' \ AtRunner : portal[s] \notin fetched
<1>1. LifeInv /\ [Next]_vars => [Needed]_vars
  <2> SUFFICES ASSUME LifeInv, [Next]_vars PROVE Needed
    OBVIOUS
  <2>1. TypeOK /\ LifeFits /\ NeedFits
    BY DEF LifeInv, TypeInv
  <2>2. CASE Around \/ UNCHANGED vars
    BY <2>2, LifeAround DEF LifeInv
  <2>3. ASSUME NEW k \in Slot, Work(k) PROVE Needed
    <3> SUFFICES ASSUME NEW s \in AtRunner' \ AtRunner PROVE portal[s] \notin fetched
      OBVIOUS
    <3>1. PICK t \in Session : Effect(t)
      BY LifeSteps
    <3>2. s = t /\ status[s] = "logging_in"
      BY <3>1 DEF Effect, Kept
    <3> QED BY <2>1, <3>2 DEF NeedFits, Active, LiveBrowser
  <2> QED BY <2>2, <2>3 DEF Next, Around
<1> QED BY <1>1, LifeInvariance, PTL DEF Spec, NoNeedlessLogin
====
