------------------------- MODULE InboundTurnProofs -------------------------
(***************************************************************************)
(* Theorems about InboundTurn for any number of messages and handlers, of  *)
(* deaths of the worker and of throws of the kill switch.                  *)
(***************************************************************************)
EXTENDS InboundTurn, FiniteSetTheorems, TLAPS

\* A handler at work has a message, and inserted the one it cancels for.
WorkFits ==
  \A h \in Handler :
    /\ hpc[h] \notin {"idle", "reset"} => work[h] \in Msg
    /\ hpc[h] \in {"cancel", "drafting"} => h \in fresh

\* BullMQ keeps the job of a worker that is on it.
JobFits == wpc \notin {"down", "idle"} => job = "active"

\* The planner has read no more of a message than there is, and a run under
\* way has read at least what the last one had.
ReadFits ==
  \A m \in Msg :
    /\ msg[m] = "full" \/ planned[m] \in {"none", msg[m]}
    /\ msg[m] = "full" \/ seen[m] \in {"none", msg[m]}
    /\ wpc = "planning" /\ planned[m] = msg[m] => seen[m] = msg[m]

\* The handlers that will ask for a run: a duplicate delivery may find nothing
\* new, and what is between remove and add asks for whatever is stored by then.
Asks(h) ==
  \/ hpc[h] \in {"cancel", "drafting", "hook", "getjob", "getstate", "remove", "setdirty"}
  \/ hpc[h] = "ingest" /\ h \in fresh

\* OnItsWay, without the handlers whose request may turn out to be in vain: an
\* add does nothing unless the job is absent.
WillBeRead(m) ==
  \/ \E h \in Handler : Asks(h) /\ work[h] = m
  \/ job = "absent" /\ \E h \in Handler : hpc[h] = "add"
  \/ job = "delayed"
  \/ job = "active" /\ wpc \in {"down", "idle", "fired", "back", "clear", "lock", "again"}
  \/ wpc = "planning" /\ seen[m] = msg[m]
  \/ dirty

WayFits == \A m \in Unplanned \ dropped : running => WillBeRead(m)

TypeInv == TypeOK /\ CountIsClean /\ WorkFits /\ JobFits

Inv == TypeInv /\ ReadFits /\ WayFits

-----------------------------------------------------------------------------
(* Every reachable state is well typed.                                    *)

LEMMA CountsAreFinite ==
  /\ IsFiniteSet(Counted) /\ Cardinality(Counted) \in 0 .. Cardinality(Handler)
  /\ IsFiniteSet(Resetting) /\ Cardinality(Resetting) \in 0 .. Cardinality(Handler)
  /\ Cardinality(Handler) \in Nat
<1>1. IsFiniteSet(Handler)
  BY TurnAssumption
<1>2. Counted \subseteq Handler /\ Resetting \subseteq Handler
  BY DEF Counted, Resetting
<1> QED BY <1>1, <1>2, FS_Subset, FS_CardinalityType

\* The range of the type invariant follows from the handlers' own.
LEMMA CountIsTyped == CountIsClean => inflight \in (-Cardinality(Handler)) .. Cardinality(Handler)
<1>1. SUFFICES ASSUME CountIsClean PROVE inflight \in (-Cardinality(Handler)) .. Cardinality(Handler)
  OBVIOUS
<1> DEFINE c == Cardinality(Counted)
           r == Cardinality(Resetting)
           n == Cardinality(Handler)
<1>2. c \in 0 .. n /\ r \in 0 .. n /\ n \in Nat
  BY CountsAreFinite
<1>3. inflight \in (-r) .. c
  BY <1>1 DEF CountIsClean
<1> HIDE DEF c, r, n
<1>4. inflight \in (-n) .. n
  BY <1>2, <1>3
<1> QED BY <1>4 DEF n

LEMMA InitTyped == Init => TypeInv
<1> SUFFICES ASSUME Init PROVE TypeInv
  OBVIOUS
<1> USE DEF Init
<1>1. CountIsClean
  BY CountsAreFinite DEF CountIsClean
<1>2. TypeOK
  <2>1. msg \in [Msg -> Content] /\ planned \in [Msg -> Content] /\ seen \in [Msg -> Content]
    BY DEF Content
  <2>2. hpc \in [Handler -> HandlerPC] /\ work \in [Handler -> Msg \cup {NoMsg}] /\ wpc \in TurnPC
    BY DEF HandlerPC, TurnPC
  <2> QED BY <1>1, CountIsTyped, <2>1, <2>2 DEF TypeOK
<1>3. WorkFits /\ JobFits
  BY DEF WorkFits, JobFits
<1> QED BY <1>1, <1>2, <1>3 DEF TypeInv

\* What the steps do that neither begin nor finish a handler.
LEMMA CountStays ==
  ASSUME TypeInv, inflight' \in {inflight, 0},
         \A h \in Handler : /\ hpc'[h] \in {"idle", "reset"} <=> hpc[h] \in {"idle", "reset"}
                            /\ hpc'[h] = "reset" <=> hpc[h] = "reset"
  PROVE  CountIsClean'
<1>1. Counted' = Counted /\ Resetting' = Resetting
  BY DEF Counted, Resetting
<1> QED BY <1>1, CountsAreFinite DEF TypeInv, CountIsClean

LEMMA ReceiveTyped ==
  ASSUME TypeInv, NEW h \in Handler, NEW m \in Msg, Receive(h, m)
  PROVE  TypeInv'
<1> USE DEF Receive, Goto
<1>1. Counted' = Counted \cup {h} /\ h \notin Counted /\ Resetting' = Resetting
  BY DEF TypeInv, TypeOK, Counted, Resetting
<1>2. Cardinality(Counted') = Cardinality(Counted) + 1
  BY <1>1, CountsAreFinite, FS_AddElement
<1>3. CountIsClean'
  BY <1>1, <1>2, CountsAreFinite DEF TypeInv, CountIsClean
<1>4. inflight' \in (-Cardinality(Handler)) .. Cardinality(Handler)
  <2>1. Cardinality(Counted') <= Cardinality(Handler)
    <3>1. Counted' \subseteq Handler /\ IsFiniteSet(Handler)
      BY TurnAssumption DEF Counted
    <3> QED BY <3>1, FS_Subset
  <2> QED BY <1>2, <2>1, CountIsTyped, CountsAreFinite DEF TypeInv, CountIsClean
<1>5. TypeOK'
  BY <1>4 DEF TypeInv, TypeOK, HandlerPC, msgVars, jobVars, flagVars
<1>6. WorkFits'
  BY DEF TypeInv, TypeOK, WorkFits
<1>7. JobFits'
  BY DEF TypeInv, JobFits, jobVars
<1> QED BY <1>3, <1>5, <1>6, <1>7 DEF TypeInv

\* The two calls that end a handler.
Ends(h) == Finish(h) \/ ResetCount(h)

LEMMA EndsClean ==
  ASSUME TypeInv, NEW h \in Handler, Ends(h)
  PROVE  CountIsClean' /\ inflight' \in (-Cardinality(Handler)) .. Cardinality(Handler)
<1> DEFINE c == Cardinality(Counted)
           r == Cardinality(Resetting)
           n == Cardinality(Handler)
<1>a. c \in 0 .. n /\ r \in 0 .. n /\ n \in Nat /\ inflight \in (-r) .. c
  BY CountsAreFinite DEF TypeInv, CountIsClean
<1>b. IsFiniteSet(Counted) /\ IsFiniteSet(Resetting)
  BY CountsAreFinite
<1>c. hpc \in [Handler -> HandlerPC]
  BY DEF TypeInv, TypeOK
<1>1. CASE Finish(h) /\ inflight > 1
  <2>1. Counted' = Counted \ {h} /\ h \in Counted /\ Resetting' = Resetting /\ inflight' = inflight - 1
    BY <1>1, <1>c DEF Finish, Goto, Counted, Resetting
  <2>2. Cardinality(Counted') = c - 1 /\ Cardinality(Resetting') = r
    BY <1>b, <2>1, FS_RemoveElement
  <2> HIDE DEF c, r, n
  <2>3. inflight' \in (-r) .. (c - 1) /\ inflight' \in (-n) .. n
    BY <1>1, <1>a, <2>1
  <2> QED BY <2>2, <2>3 DEF CountIsClean, n
<1>2. CASE Finish(h) /\ ~(inflight > 1)
  <2>1. /\ Counted' = Counted \ {h} /\ h \in Counted
        /\ Resetting' = Resetting \cup {h} /\ h \notin Resetting /\ inflight' = inflight - 1
    BY <1>2, <1>c DEF Finish, Goto, Counted, Resetting
  <2>2. Cardinality(Counted') = c - 1 /\ Cardinality(Resetting') = r + 1
    BY <1>b, <2>1, FS_RemoveElement, FS_AddElement
  <2>3. Cardinality(Counted') \in Nat /\ Cardinality(Resetting') <= n
    <3>1. Resetting' \subseteq Handler /\ IsFiniteSet(Handler)
      BY TurnAssumption DEF Resetting
    <3> QED BY <1>b, <2>1, <3>1, FS_Subset, FS_RemoveElement, FS_CardinalityType
  <2> HIDE DEF c, r, n
  <2>4. inflight' \in (-(r + 1)) .. (c - 1) /\ inflight' \in (-n) .. n
    BY <1>2, <1>a, <2>1, <2>2, <2>3
  <2> QED BY <2>2, <2>4 DEF CountIsClean, n
<1>3. CASE ResetCount(h)
  <2>1. Counted' = Counted /\ Resetting' = Resetting \ {h} /\ inflight' = 0
    BY <1>3, <1>c DEF ResetCount, Goto, Counted, Resetting
  <2>2. IsFiniteSet(Resetting') /\ Cardinality(Resetting') \in Nat
    BY <1>b, <2>1, FS_RemoveElement, FS_CardinalityType
  <2>3. Cardinality(Counted') = c
    BY <2>1
  <2> HIDE DEF c, r, n
  <2>4. 0 \in (-Cardinality(Resetting')) .. c /\ 0 \in (-n) .. n
    BY <1>a, <2>2
  <2> QED BY <2>1, <2>3, <2>4 DEF CountIsClean, n
<1> QED BY <1>1, <1>2, <1>3 DEF Ends

LEMMA EndsTyped ==
  ASSUME TypeInv, NEW h \in Handler, Ends(h)
  PROVE  TypeInv'
<1> USE DEF Ends, Finish, ResetCount, Goto
<1>1. CountIsClean' /\ inflight' \in (-Cardinality(Handler)) .. Cardinality(Handler)
  BY EndsClean
<1>2. TypeOK'
  BY <1>1 DEF TypeInv, TypeOK, HandlerPC, msgVars, jobVars, flagVars
<1>3. WorkFits'
  BY DEF TypeInv, TypeOK, WorkFits
<1>4. JobFits'
  BY DEF TypeInv, JobFits, jobVars
<1> QED BY <1>1, <1>2, <1>3, <1>4 DEF TypeInv

LEMMA HandlerTyped ==
  ASSUME TypeInv, NEW h \in Handler, (Handle(h) /\ ~Ends(h)) \/ Slow(h) \/ HandlerAges(h)
  PROVE  TypeInv'
<1> USE DEF TypeInv, msgVars, keyVars, jobVars, flagVars, handVars, Goto
<1>a. work[h] \in Msg \/ hpc[h] \in {"idle", "reset"}
  BY DEF WorkFits
<1>1. CASE StoreMessage(h)
  <2>1. TypeOK'
    BY <1>1, <1>a DEF StoreMessage, TypeOK, Content, HandlerPC
  <2>2. CountIsClean'
    BY <1>1, CountStays DEF StoreMessage, TypeOK
  <2>3. WorkFits' /\ JobFits'
    BY <1>1 DEF StoreMessage, WorkFits, JobFits, TypeOK
  <2> QED BY <2>1, <2>2, <2>3
<1>2. CASE CancelPendingSend(h) \/ ShowDrafting(h)
  <2>1. TypeOK'
    BY <1>2, <1>a DEF CancelPendingSend, ShowDrafting, TypeOK, HandlerPC
  <2>2. CountIsClean'
    BY <1>2, CountStays DEF CancelPendingSend, ShowDrafting, TypeOK
  <2>3. WorkFits' /\ JobFits'
    BY <1>2 DEF CancelPendingSend, ShowDrafting, WorkFits, JobFits, TypeOK
  <2> QED BY <2>1, <2>2, <2>3
<1>3. CASE GetJob(h) \/ GetState(h) \/ SetDirty(h)
  <2>1. TypeOK'
    <3>1. CASE GetJob(h)
      BY ZenonT(60), <3>1 DEF GetJob, TypeOK, HandlerPC
    <3>2. CASE GetState(h)
      BY ZenonT(60), <3>2 DEF GetState, TypeOK, HandlerPC
    <3>3. CASE SetDirty(h)
      BY ZenonT(60), <3>3 DEF SetDirty, TypeOK, HandlerPC
    <3> QED BY <1>3, <3>1, <3>2, <3>3
  <2>2. CountIsClean'
    BY <1>3, CountStays DEF GetJob, GetState, SetDirty, TypeOK
  <2>3. WorkFits' /\ JobFits'
    BY <1>3 DEF GetJob, GetState, SetDirty, WorkFits, JobFits, TypeOK
  <2> QED BY <2>1, <2>2, <2>3
<1>4. CASE RemoveJob(h) \/ AddJob(h)
  <2>1. TypeOK'
    <3>1. job' \in {job, "absent", "delayed"} /\ late' \in BOOLEAN
      <4>1. late' = late \/ late' = (h \in carry)
        BY <1>4 DEF RemoveJob, AddJob
      <4>2. late' \in BOOLEAN
        <5>1. late \in BOOLEAN
          BY DEF TypeOK
        <5>2. (h \in carry) \in BOOLEAN
          OBVIOUS
        <5> QED BY <4>1, <5>1, <5>2, Zenon
      <4> QED BY <1>4, <4>2 DEF RemoveJob, AddJob
    <3>2. hpc' \in [Handler -> HandlerPC] /\ carry' \in SUBSET Handler
      BY <1>4 DEF RemoveJob, AddJob, TypeOK, HandlerPC
    <3>3. stalled' \in BOOLEAN
      BY <1>4 DEF RemoveJob, AddJob, TypeOK
    <3>4. UNCHANGED <<msgVars, work, fresh, old, keyVars, wpc, lock, flagVars>>
      BY <1>4 DEF RemoveJob, AddJob
    <3> QED BY <3>1, <3>2, <3>3, <3>4 DEF TypeOK
  <2>2. CountIsClean'
    BY <1>4, CountStays DEF RemoveJob, AddJob, TypeOK
  <2>3. WorkFits'
    BY <1>4 DEF RemoveJob, AddJob, WorkFits, TypeOK
  <2>4. JobFits'
    BY <1>4 DEF RemoveJob, AddJob, JobFits
  <2> QED BY <2>1, <2>2, <2>3, <2>4
<1>5. CASE IngestMedia(h)
  <2>1. TypeOK'
    BY <1>5, <1>a DEF IngestMedia, TypeOK, Content, HandlerPC
  <2>2. CountIsClean'
    BY <1>5, CountStays DEF IngestMedia, TypeOK
  <2>3. WorkFits' /\ JobFits'
    BY <1>5 DEF IngestMedia, WorkFits, JobFits, TypeOK
  <2> QED BY <2>1, <2>2, <2>3
<1>6. CASE ScreenMessage(h) \/ HookThrows(h)
  <2>1. TypeOK'
    <3>1. CASE ScreenMessage(h)
      BY ZenonT(60), <3>1, <1>a DEF ScreenMessage, TypeOK, HandlerPC
    <3>2. CASE HookThrows(h)
      BY ZenonT(60), <3>2, <1>a DEF HookThrows, TypeOK, HandlerPC
    <3> QED BY <1>6, <3>1, <3>2
  <2>2. CountIsClean'
    BY <1>6, CountStays DEF ScreenMessage, HookThrows, TypeOK
  <2>3. WorkFits' /\ JobFits'
    BY <1>6 DEF ScreenMessage, HookThrows, WorkFits, JobFits, TypeOK
  <2> QED BY <2>1, <2>2, <2>3
<1>7. CASE HandlerAges(h)
  <2>1. TypeOK' /\ WorkFits' /\ JobFits'
    BY <1>7 DEF HandlerAges, TypeOK, WorkFits, JobFits
  <2>2. CountIsClean'
    BY <1>7, CountStays DEF HandlerAges, TypeOK
  <2> QED BY <2>1, <2>2
<1> QED
  BY <1>1, <1>2, <1>3, <1>4, <1>5, <1>6, <1>7 DEF Handle, Request, Slow, Ends

\* The worker, time and the switch leave the handlers alone.
Around ==
  \/ FireJob \/ Replan
  \/ QuietWindowPasses \/ MaxWaitPasses \/ InflightExpires
  \/ ThrowKillSwitch \/ WorkerDies \/ WorkerBoots \/ RecoverStalled \/ DropStalled

LEMMA AroundTyped == TypeInv /\ Around => TypeInv'
<1> SUFFICES ASSUME TypeInv, Around PROVE TypeInv'
  OBVIOUS
<1> USE DEF TypeInv, msgVars, keyVars, jobVars, flagVars, handVars
<1>1. hpc' = hpc /\ work' = work /\ fresh' = fresh /\ old' = old /\ carry' = carry
  BY DEF Around, FireJob, Replan, Wait, RunAgain, Proceed, ClearDirty, BeginPlan, PlanReturns, PlanThrows, ClearStamp,
         TakeDirty, PlanAgain, JobEnds, QuietWindowPasses, MaxWaitPasses, InflightExpires, ThrowKillSwitch,
         WorkerDies, WorkerBoots, RecoverStalled, DropStalled
<1>2. inflight' \in {inflight, 0}
  BY DEF Around, FireJob, Replan, Wait, RunAgain, Proceed, ClearDirty, BeginPlan, PlanReturns, PlanThrows, ClearStamp,
         TakeDirty, PlanAgain, JobEnds, QuietWindowPasses, MaxWaitPasses, InflightExpires, ThrowKillSwitch,
         WorkerDies, WorkerBoots, RecoverStalled, DropStalled
<1>3. CountIsClean'
  BY <1>1, <1>2, CountStays DEF TypeOK
<1>4. WorkFits'
  BY <1>1 DEF WorkFits
<1>5. JobFits'
  BY DEF Around, FireJob, Replan, Wait, RunAgain, Proceed, ClearDirty, BeginPlan, PlanReturns, PlanThrows, ClearStamp,
         TakeDirty, PlanAgain, JobEnds, QuietWindowPasses, MaxWaitPasses, InflightExpires, ThrowKillSwitch,
         WorkerDies, WorkerBoots, RecoverStalled, DropStalled, JobFits, TypeOK, TurnPC
<1>6. TypeOK'
  <2> USE <1>1, <1>2 DEF TypeOK
  <2>1. CASE FireJob \/ RunAgain \/ PlanAgain \/ JobEnds \/ RecoverStalled \/ WorkerBoots
    <3>1. CASE FireJob \/ JobEnds \/ RecoverStalled
      BY ZenonT(60), <3>1 DEF FireJob, JobEnds, RecoverStalled, TurnPC
    <3>2. CASE RunAgain \/ PlanAgain \/ WorkerBoots
      BY ZenonT(60), <3>2 DEF RunAgain, PlanAgain, WorkerBoots, TurnPC
    <3> QED BY <2>1, <3>1, <3>2
  <2>2. CASE Wait \/ ClearDirty \/ ClearStamp \/ TakeDirty
    <3>1. CASE Wait \/ ClearDirty
      BY ZenonT(60), <3>1 DEF Wait, ClearDirty, TurnPC
    <3>2. CASE ClearStamp \/ TakeDirty
      BY ZenonT(60), <3>2 DEF ClearStamp, TakeDirty, TurnPC
    <3> QED BY <2>2, <3>1, <3>2
  <2>3. CASE Proceed
    BY <2>3 DEF Proceed, TurnPC, Unplanned
  <2>4. CASE BeginPlan
    BY <2>4 DEF BeginPlan, TurnPC
  <2>5. CASE PlanReturns
    BY <2>5 DEF PlanReturns, NothingSeen, Content, TurnPC
  <2>6. CASE PlanThrows
    BY <2>6 DEF PlanThrows, NothingSeen, Content, TurnPC, Unplanned
  <2>7. CASE WorkerDies
    BY <2>7, TurnAssumption DEF WorkerDies, NothingSeen, Content, TurnPC
  <2>8. CASE ThrowKillSwitch
    BY <2>8, TurnAssumption DEF ThrowKillSwitch
  <2>9. CASE QuietWindowPasses \/ MaxWaitPasses
    BY ZenonT(60), <2>9 DEF QuietWindowPasses, MaxWaitPasses
  <2>10. CASE InflightExpires
    BY <2>10, CountsAreFinite DEF InflightExpires
  <2>11. CASE DropStalled
    BY <2>11 DEF DropStalled, Unplanned
  <2> QED
    BY <2>1, <2>2, <2>3, <2>4, <2>5, <2>6, <2>7, <2>8, <2>9, <2>10, <2>11 DEF Around, Replan
<1> QED BY <1>3, <1>4, <1>5, <1>6

LEMMA StutterTyped == TypeInv /\ UNCHANGED vars => TypeInv'
BY DEF TypeInv, TypeOK, CountIsClean, WorkFits, JobFits, Counted, Resetting, vars, msgVars, handVars, keyVars, jobVars, flagVars

\* Exactly one of the steps the lemmas are about.
LEMMA Steps ==
  Next => \/ \E h \in Handler, m \in Msg : Receive(h, m)
          \/ \E h \in Handler : (Handle(h) /\ ~Ends(h)) \/ Slow(h) \/ HandlerAges(h) \/ Ends(h)
          \/ Around
BY DEF Next, Around

LEMMA TypeInvariance == Spec => []TypeInv
<1>1. TypeInv /\ [Next]_vars => TypeInv'
  BY Steps, ReceiveTyped, HandlerTyped, EndsTyped, AroundTyped, StutterTyped
<1> QED BY InitTyped, <1>1, PTL DEF Spec

\* Every reachable state of a client's turn is well typed.
THEOREM TypeCorrect == Spec => []TypeOK
<1>1. TypeInv => TypeOK
  BY DEF TypeInv
<1> QED BY TypeInvariance, <1>1, PTL

\* The in-flight counter never counts a handler that is through, and is below
\* zero only while a handler that saw it there has yet to delete the key.
THEOREM CountIsCleanHolds == Spec => []CountIsClean
<1>1. TypeInv => CountIsClean
  BY DEF TypeInv
<1> QED BY TypeInvariance, <1>1, PTL

-----------------------------------------------------------------------------
(* Nothing is forgotten.                                                   *)

\* What the planner has read of a message that did not change.
LEMMA ReadStays ==
  ASSUME ReadFits, UNCHANGED <<msg, planned, seen>>, wpc' = "planning" => wpc = "planning"
  PROVE  ReadFits'
BY DEF ReadFits

LEMMA HandlerReads ==
  ASSUME TypeInv, ReadFits, NEW h \in Handler, Handle(h) \/ Slow(h) \/ HandlerAges(h)
  PROVE  ReadFits'
<1> USE DEF msgVars, keyVars, jobVars, flagVars, handVars, Goto
<1>1. CASE StoreMessage(h)
  <2>1. work[h] \in Msg /\ wpc' = wpc
    BY <1>1 DEF StoreMessage, TypeInv, WorkFits
  <2>2. CASE UNCHANGED msgVars
    BY <2>1, <2>2, ReadStays
  <2>3. CASE /\ msg' = [msg EXCEPT ![work[h]] = "text"]
             /\ planned' = [planned EXCEPT ![work[h]] = "none"]
             /\ seen' = [seen EXCEPT ![work[h]] = "none"]
    BY <2>1, <2>3 DEF ReadFits, TypeInv, TypeOK
  <2> QED BY <1>1, <2>2, <2>3 DEF StoreMessage
<1>2. CASE IngestMedia(h)
  <2>1. work[h] \in Msg /\ wpc' = wpc
    BY <1>2 DEF IngestMedia, TypeInv, WorkFits
  <2>2. CASE UNCHANGED msgVars
    BY <2>1, <2>2, ReadStays
  <2>3. CASE msg[work[h]] = "text" /\ msg' = [msg EXCEPT ![work[h]] = "full"] /\ UNCHANGED <<planned, seen>>
    BY <2>1, <2>3 DEF ReadFits, TypeInv, TypeOK
  <2> QED BY <1>2, <2>2, <2>3 DEF IngestMedia
<1>3. CASE ~StoreMessage(h) /\ ~IngestMedia(h)
  <2>1. UNCHANGED <<msg, planned, seen, wpc>>
    BY <1>3 DEF Handle, Request, Slow, CancelPendingSend, ShowDrafting, GetJob, GetState, RemoveJob, SetDirty, AddJob,
                Finish, ResetCount, ScreenMessage, HookThrows, HandlerAges
  <2> QED BY <2>1, ReadStays
<1> QED BY <1>1, <1>2, <1>3

LEMMA AroundReads == TypeInv /\ ReadFits /\ Around => ReadFits'
<1> SUFFICES ASSUME TypeInv, ReadFits, Around PROVE ReadFits'
  OBVIOUS
<1> USE DEF msgVars, keyVars, jobVars, flagVars, handVars
<1>1. CASE BeginPlan
  BY <1>1 DEF BeginPlan, ReadFits
<1>2. CASE PlanReturns
  BY <1>2 DEF PlanReturns, ReadFits, NothingSeen
<1>3. CASE PlanThrows \/ WorkerDies
  BY <1>3 DEF PlanThrows, WorkerDies, ReadFits, NothingSeen
<1>4. CASE ~BeginPlan /\ ~PlanReturns /\ ~PlanThrows /\ ~WorkerDies
  <2>1. UNCHANGED <<msg, planned, seen>> /\ (wpc' = "planning" => wpc = "planning")
    BY <1>4 DEF Around, FireJob, Replan, Wait, RunAgain, Proceed, ClearDirty, ClearStamp, TakeDirty, PlanAgain, JobEnds,
                QuietWindowPasses, MaxWaitPasses, InflightExpires, ThrowKillSwitch, WorkerBoots, RecoverStalled, DropStalled
  <2> QED BY <2>1, ReadStays
<1> QED BY <1>1, <1>2, <1>3, <1>4

\* A message waits in vain when its handler leaves off, when the job is taken
\* from the queue, or when a run ends: any other step keeps what carries it.
LEMMA WayStays ==
  ASSUME NEW m \in Msg, WillBeRead(m), seen'[m] = seen[m], msg'[m] = msg[m],
         \A h \in Handler : Asks(h) /\ work[h] = m => Asks(h)' /\ work'[h] = m,
         \A h \in Handler : hpc[h] = "add" => hpc'[h] = "add",
         UNCHANGED <<job, wpc>>, dirty => dirty'
  PROVE  WillBeRead(m)'
BY DEF WillBeRead

LEMMA HandlerCarries ==
  ASSUME TypeInv, ReadFits, WayFits, NEW h \in Handler, Handle(h) \/ Slow(h) \/ HandlerAges(h)
  PROVE  WayFits'
<1> SUFFICES ASSUME NEW m \in Msg, msg'[m] # planned'[m], m \notin dropped', running'
             PROVE  WillBeRead(m)'
  BY DEF WayFits, Unplanned
<1> USE DEF msgVars, keyVars, jobVars, flagVars, handVars, Goto
<1>a. hpc \in [Handler -> HandlerPC] /\ work \in [Handler -> Msg \cup {NoMsg}]
      /\ msg \in [Msg -> Content] /\ planned \in [Msg -> Content] /\ seen \in [Msg -> Content]
      /\ fresh \in SUBSET Handler
  BY DEF TypeInv, TypeOK
<1>b. \A g \in Handler \ {h} : hpc'[g] = hpc[g] /\ work'[g] = work[g] /\ (g \in fresh' <=> g \in fresh)
  BY <1>a DEF Handle, Request, Slow, StoreMessage, CancelPendingSend, ShowDrafting, GetJob, GetState, RemoveJob, SetDirty,
              AddJob, Finish, ResetCount, IngestMedia, ScreenMessage, HookThrows, HandlerAges
<1>c. hpc[h] \notin {"idle", "reset"} => work[h] \in Msg
  BY DEF TypeInv, WorkFits
<1>d. wpc' = wpc
  BY DEF Handle, Request, Slow, StoreMessage, CancelPendingSend, ShowDrafting, GetJob, GetState, RemoveJob, SetDirty,
         AddJob, Finish, ResetCount, IngestMedia, ScreenMessage, HookThrows, HandlerAges
<1>e. \A g \in Handler \ {h} : Asks(g)' <=> Asks(g)
  BY <1>b DEF Asks
<1>1. CASE StoreMessage(h)
  <2>1. hpc[h] = "received" /\ UNCHANGED <<job, dirty, work, running>> /\ work[h] \in Msg
    BY <1>1, <1>c DEF StoreMessage
  <2>2. CASE UNCHANGED msgVars
    <3>1. WillBeRead(m)
      BY <2>1, <2>2 DEF WayFits, Unplanned
    <3> QED BY <1>b, <1>d, <1>e, <2>1, <2>2, <3>1, WayStays DEF Asks
  <2>3. CASE /\ msg' = [msg EXCEPT ![work[h]] = "text"]
             /\ planned' = [planned EXCEPT ![work[h]] = "none"]
             /\ seen' = [seen EXCEPT ![work[h]] = "none"]
             /\ dropped' = dropped \ {work[h]}
             /\ hpc' = [hpc EXCEPT ![h] = "cancel"]
    <3>1. CASE m = work[h]
      <4>1. Asks(h)' /\ work'[h] = m
        BY <1>a, <2>1, <2>3, <3>1 DEF Asks
      <4> QED BY <4>1 DEF WillBeRead
    <3>2. CASE m # work[h]
      <4>1. msg'[m] = msg[m] /\ planned'[m] = planned[m] /\ seen'[m] = seen[m] /\ m \notin dropped
        BY <1>a, <2>3, <3>2
      <4>2. WillBeRead(m)
        BY <2>1, <4>1 DEF WayFits, Unplanned
      <4> QED BY <1>b, <1>d, <1>e, <2>1, <4>1, <4>2, WayStays DEF Asks
    <3> QED BY <3>1, <3>2
  <2> QED BY <1>1, <2>2, <2>3 DEF StoreMessage
<1>2. CASE IngestMedia(h)
  <2>1. hpc[h] = "ingest" /\ UNCHANGED <<job, dirty, work, running>> /\ work[h] \in Msg
    BY <1>2, <1>c DEF IngestMedia
  <2>2. CASE UNCHANGED msgVars /\ hpc' = [hpc EXCEPT ![h] = IF h \in fresh THEN "hook" ELSE "finish"]
    <3>1. WillBeRead(m)
      BY <2>1, <2>2 DEF WayFits, Unplanned
    <3>2. Asks(h) => Asks(h)'
      BY <1>a, <2>1, <2>2 DEF Asks
    <3> QED BY <1>b, <1>d, <1>e, <2>1, <2>2, <3>1, <3>2, WayStays
  <2>3. CASE /\ msg' = [msg EXCEPT ![work[h]] = "full"]
             /\ dropped' = dropped \ {work[h]}
             /\ hpc' = [hpc EXCEPT ![h] = "hook"]
             /\ UNCHANGED <<planned, seen>>
    <3>1. Asks(h)'
      BY <1>a, <2>3 DEF Asks
    <3>2. CASE m = work[h]
      BY <2>1, <3>1, <3>2 DEF WillBeRead
    <3>3. CASE m # work[h]
      <4>1. msg'[m] = msg[m] /\ m \notin dropped
        BY <1>a, <2>3, <3>3
      <4>2. WillBeRead(m)
        BY <2>1, <2>3, <4>1 DEF WayFits, Unplanned
      <4> QED BY <1>b, <1>d, <1>e, <2>1, <2>3, <3>1, <4>1, <4>2, WayStays
    <3> QED BY <3>2, <3>3
  <2> QED BY <1>2, <2>2, <2>3 DEF IngestMedia
<1>3. CASE HookThrows(h)
  <2>1. hpc[h] = "hook" /\ UNCHANGED <<job, dirty, work, running, msg, planned, seen>>
        /\ m \notin dropped /\ m # work[h] /\ hpc' = [hpc EXCEPT ![h] = "finish"]
    BY <1>3 DEF HookThrows
  <2>2. WillBeRead(m)
    BY <2>1 DEF WayFits, Unplanned
  <2> QED BY <1>b, <1>d, <1>e, <2>1, <2>2, WayStays
\* The other steps store nothing and drop nothing.
<1>4. CASE ~StoreMessage(h) /\ ~IngestMedia(h) /\ ~HookThrows(h)
  <2>1. UNCHANGED <<msg, planned, seen, dropped>> /\ running
    BY <1>4 DEF Handle, Request, Slow, CancelPendingSend, ShowDrafting, GetJob, GetState, RemoveJob, SetDirty, AddJob,
                Finish, ResetCount, ScreenMessage, HandlerAges, TypeInv, TypeOK
  <2>2. WillBeRead(m)
    BY <2>1 DEF WayFits, Unplanned
  <2>3. CASE CancelPendingSend(h) \/ ShowDrafting(h) \/ HandlerAges(h)
    <3>1. UNCHANGED <<job, dirty, work, fresh>> /\ hpc[h] # "add"
      BY <2>3 DEF CancelPendingSend, ShowDrafting, HandlerAges
    <3>2. Asks(h) => Asks(h)'
      BY <1>a, <2>3, <3>1 DEF CancelPendingSend, ShowDrafting, HandlerAges, Asks, TypeInv, WorkFits
    <3> QED BY <1>b, <1>d, <1>e, <2>1, <2>2, <3>1, <3>2, WayStays
  <2>4. CASE ScreenMessage(h)
    <3>1. hpc[h] = "hook" /\ hpc' = [hpc EXCEPT ![h] = "getjob"] /\ UNCHANGED <<job, dirty, work>>
      BY <2>4, <1>4 DEF ScreenMessage
    <3>2. Asks(h)'
      BY <1>a, <3>1 DEF Asks
    <3> QED BY <1>b, <1>d, <1>e, <2>1, <2>2, <3>1, <3>2, WayStays
  <2>5. CASE GetJob(h)
    <3>1. hpc[h] = "getjob" /\ UNCHANGED <<job, dirty, work>>
          /\ hpc' = [hpc EXCEPT ![h] = IF job = "absent" THEN "add" ELSE "getstate"]
      BY <2>5 DEF GetJob
    <3>2. CASE job = "absent"
      <4>1. hpc'[h] = "add" /\ job' = "absent"
        BY <1>a, <3>1, <3>2
      <4> QED BY <4>1 DEF WillBeRead
    <3>3. CASE job # "absent"
      <4>1. Asks(h)'
        BY <1>a, <3>1, <3>3 DEF Asks
      <4> QED BY <1>b, <1>d, <1>e, <2>1, <2>2, <3>1, <4>1, WayStays
    <3> QED BY <3>2, <3>3
  <2>6. CASE GetState(h)
    <3>1. hpc[h] = "getstate" /\ hpc' = [hpc EXCEPT ![h] = IF job = "active" THEN "setdirty" ELSE "remove"]
          /\ UNCHANGED <<job, dirty, work>>
      BY <2>6 DEF GetState
    <3>2. Asks(h)'
      BY <1>a, <3>1 DEF Asks
    <3> QED BY <1>b, <1>d, <1>e, <2>1, <2>2, <3>1, <3>2, WayStays
  <2>7. CASE RemoveJob(h)
    <3>1. hpc[h] = "remove" /\ UNCHANGED <<dirty, work>>
      BY <2>7 DEF RemoveJob
    <3>2. CASE job = "active"
      <4>1. hpc' = [hpc EXCEPT ![h] = "setdirty"] /\ job' = job
        BY <2>7, <3>2 DEF RemoveJob
      <4>2. Asks(h)'
        BY <1>a, <4>1 DEF Asks
      <4> QED BY <1>b, <1>d, <1>e, <2>1, <2>2, <3>1, <4>1, <4>2, WayStays
    <3>3. CASE job # "active"
      <4>1. hpc'[h] = "add" /\ job' = "absent"
        BY <1>a, <2>7, <3>3 DEF RemoveJob
      <4> QED BY <4>1 DEF WillBeRead
    <3> QED BY <3>2, <3>3
  <2>8. CASE SetDirty(h)
    BY <2>8 DEF SetDirty, WillBeRead
  <2>9. CASE AddJob(h)
    <3>1. hpc[h] = "add" /\ UNCHANGED <<dirty, work>>
      BY <2>9 DEF AddJob
    <3>2. CASE job = "absent"
      BY <2>9, <3>2 DEF AddJob, WillBeRead
    \* The add was in vain: somebody else's job carries the message.
    <3>3. CASE job # "absent"
      <4>1. UNCHANGED job
        BY <2>9, <3>3 DEF AddJob
      <4>2. ~Asks(h)
        BY <3>1 DEF Asks
      <4>3. CASE \E g \in Handler : Asks(g) /\ work[g] = m
        BY <1>e, <3>1, <4>2, <4>3 DEF WillBeRead
      <4>4. CASE ~\E g \in Handler : Asks(g) /\ work[g] = m
        BY <1>d, <2>1, <2>2, <3>1, <3>3, <4>1, <4>4 DEF WillBeRead
      <4> QED BY <4>3, <4>4
    <3> QED BY <3>2, <3>3
  <2>10. CASE Ends(h)
    <3>1. hpc[h] \in {"finish", "reset"} /\ UNCHANGED <<job, dirty>> /\ (\A g \in Handler : hpc[g] = "add" => hpc'[g] = "add")
      BY <2>10, <1>a DEF Ends, Finish, ResetCount
    <3>2. ~Asks(h)
      BY <3>1 DEF Asks
    <3> QED BY <1>b, <1>d, <1>e, <2>1, <2>2, <3>1, <3>2, WayStays
  <2> QED
    BY <1>3, <1>4, <2>3, <2>4, <2>5, <2>6, <2>7, <2>8, <2>9, <2>10 DEF Handle, Request, Slow, Ends
<1> QED BY <1>1, <1>2, <1>3, <1>4

LEMMA ReceiveCarries ==
  ASSUME TypeInv, WayFits, NEW h \in Handler, NEW n \in Msg, Receive(h, n)
  PROVE  WayFits'
<1> SUFFICES ASSUME NEW m \in Msg, msg'[m] # planned'[m], m \notin dropped', running'
             PROVE  WillBeRead(m)'
  BY DEF WayFits, Unplanned
<1>1. hpc[h] = "idle" /\ hpc' = [hpc EXCEPT ![h] = "received"] /\ work' = [work EXCEPT ![h] = n]
      /\ UNCHANGED <<msg, planned, seen, dropped, fresh, dirty, job, wpc, running>>
  BY DEF Receive, Goto, msgVars, jobVars, flagVars
<1>2. WillBeRead(m)
  BY <1>1 DEF WayFits, Unplanned
<1>3. \A g \in Handler \ {h} : hpc'[g] = hpc[g] /\ work'[g] = work[g]
  BY <1>1 DEF TypeInv, TypeOK
<1>4. ~Asks(h)
  BY <1>1 DEF Asks
<1>5. \A g \in Handler \ {h} : Asks(g)' <=> Asks(g)
  BY <1>1, <1>3 DEF Asks
<1> QED BY <1>1, <1>2, <1>3, <1>4, <1>5, WayStays

LEMMA AroundCarries == TypeInv /\ ReadFits /\ WayFits /\ Around => WayFits'
<1> SUFFICES ASSUME TypeInv, ReadFits, WayFits, Around,
                    NEW m \in Msg, msg'[m] # planned'[m], m \notin dropped', running'
             PROVE  WillBeRead(m)'
  BY DEF WayFits, Unplanned
<1> USE DEF msgVars, keyVars, jobVars, flagVars, handVars
<1>1. hpc' = hpc /\ work' = work /\ fresh' = fresh /\ msg' = msg
  BY DEF Around, FireJob, Replan, Wait, RunAgain, Proceed, ClearDirty, BeginPlan, PlanReturns, PlanThrows, ClearStamp,
         TakeDirty, PlanAgain, JobEnds, QuietWindowPasses, MaxWaitPasses, InflightExpires, ThrowKillSwitch,
         WorkerDies, WorkerBoots, RecoverStalled, DropStalled
<1>2. \A h \in Handler : Asks(h)' <=> Asks(h)
  BY <1>1 DEF Asks
<1>3. wpc \notin {"down", "idle"} => job = "active"
  BY DEF TypeInv, JobFits
<1>4. running
  BY DEF Around, FireJob, Replan, Wait, RunAgain, Proceed, ClearDirty, BeginPlan, PlanReturns, PlanThrows, ClearStamp,
         TakeDirty, PlanAgain, JobEnds, QuietWindowPasses, MaxWaitPasses, InflightExpires, ThrowKillSwitch,
         WorkerDies, WorkerBoots, RecoverStalled, DropStalled, TypeInv, TypeOK
\* The planner's return is the one step that may leave a message unplanned
\* which was not before; what it had read of that message was up to date.
<1>5. CASE PlanReturns
  <2>1. wpc = "planning" /\ planned' = seen /\ dropped' = dropped /\ dirty' = dirty /\ job' = job
    BY <1>5 DEF PlanReturns
  <2>2. msg[m] # seen[m]
    BY <1>1, <2>1
  <2>3. msg[m] # planned[m]
    BY <2>1, <2>2 DEF ReadFits
  <2>4. WillBeRead(m)
    BY <1>4, <2>1, <2>3 DEF WayFits, Unplanned
  <2>5. dirty \/ \E h \in Handler : Asks(h) /\ work[h] = m
    BY <1>3, <2>1, <2>2, <2>4 DEF WillBeRead
  <2> QED BY <1>1, <1>2, <2>1, <2>5 DEF WillBeRead
<1>6. CASE ~PlanReturns
  <2>1. planned' = planned /\ m \notin dropped
    BY <1>6 DEF Around, FireJob, Replan, Wait, RunAgain, Proceed, ClearDirty, BeginPlan, PlanThrows, ClearStamp,
                TakeDirty, PlanAgain, JobEnds, QuietWindowPasses, MaxWaitPasses, InflightExpires, ThrowKillSwitch,
                WorkerDies, WorkerBoots, RecoverStalled, DropStalled
  <2>2. WillBeRead(m) /\ m \in Unplanned
    BY <1>1, <1>4, <2>1 DEF WayFits, Unplanned
  <2>3. CASE \E h \in Handler : Asks(h) /\ work[h] = m
    BY <1>1, <1>2, <2>3 DEF WillBeRead
  <2>4. CASE ~\E h \in Handler : Asks(h) /\ work[h] = m
    <3>1. \/ job = "absent" /\ (\E h \in Handler : hpc[h] = "add") /\ wpc \in {"down", "idle"}
          \/ job = "delayed" /\ wpc \in {"down", "idle"}
          \/ job = "active" /\ wpc \in {"down", "idle", "fired", "back", "clear", "lock", "again"}
          \/ wpc = "planning" /\ seen[m] = msg[m] /\ job = "active"
          \/ dirty
      BY <1>3, <2>2, <2>4 DEF WillBeRead
    <3>2. CASE FireJob \/ RunAgain \/ PlanAgain \/ RecoverStalled
      BY <3>2 DEF FireJob, RunAgain, PlanAgain, RecoverStalled, WillBeRead
    <3>13. CASE DropStalled
      BY <1>1, <2>2, <3>13 DEF DropStalled
    <3>3. CASE WorkerBoots
      BY <1>1, <3>1, <3>3 DEF WorkerBoots, WillBeRead
    <3>4. CASE WorkerDies
      BY <1>1, <3>1, <3>4 DEF WorkerDies, WillBeRead
    <3>5. CASE Wait
      BY <1>3, <3>5 DEF Wait, WillBeRead
    <3>6. CASE Proceed
      BY <1>1, <1>3, <2>2, <3>6 DEF Proceed, WillBeRead
    <3>7. CASE ClearDirty
      BY <1>3, <3>7 DEF ClearDirty, WillBeRead
    <3>8. CASE BeginPlan
      BY <1>1, <1>4, <3>8 DEF BeginPlan, WillBeRead
    <3>9. CASE PlanThrows
      BY <1>1, <2>2, <3>1, <3>9 DEF PlanThrows, WillBeRead
    <3>10. CASE ClearStamp \/ JobEnds
      BY <3>1, <3>10 DEF ClearStamp, JobEnds, WillBeRead
    <3>11. CASE TakeDirty
      BY <1>3, <3>1, <3>11 DEF TakeDirty, WillBeRead
    <3>12. CASE QuietWindowPasses \/ MaxWaitPasses \/ InflightExpires \/ ThrowKillSwitch
      BY <1>1, <3>1, <3>12 DEF QuietWindowPasses, MaxWaitPasses, InflightExpires, ThrowKillSwitch, WillBeRead
    <3> QED
      BY <1>6, <3>2, <3>3, <3>4, <3>5, <3>6, <3>7, <3>8, <3>9, <3>10, <3>11, <3>12, <3>13 DEF Around, Replan
  <2> QED BY <2>3, <2>4
<1> QED BY <1>5, <1>6

LEMMA StutterCarries == Inv /\ UNCHANGED vars => Inv'
<1> SUFFICES ASSUME Inv, UNCHANGED vars PROVE Inv'
  OBVIOUS
<1> USE DEF vars, msgVars, handVars, keyVars, jobVars, flagVars
<1>1. TypeInv'
  BY StutterTyped DEF Inv
<1>2. ReadFits' /\ WayFits'
  BY DEF Inv, ReadFits, WayFits, WillBeRead, Unplanned, Asks
<1> QED BY <1>1, <1>2 DEF Inv

LEMMA InitCarries == Init => Inv
<1>1. Init => ReadFits /\ WayFits
  BY DEF Init, ReadFits, WayFits, Unplanned
<1> QED BY <1>1, InitTyped DEF Inv

LEMMA ReceiveReads == \A h \in Handler, m \in Msg : ReadFits /\ Receive(h, m) => ReadFits'
BY ReadStays DEF Receive, msgVars

LEMMA Invariance == Spec => []Inv
<1>1. Inv /\ Next => Inv'
  <2> SUFFICES ASSUME Inv, Next PROVE Inv'
    OBVIOUS
  <2> USE DEF Inv
  <2>1. CASE \E h \in Handler, m \in Msg : Receive(h, m)
    BY <2>1, ReceiveTyped, ReceiveReads, ReceiveCarries
  <2>2. CASE \E h \in Handler : Handle(h) \/ Slow(h) \/ HandlerAges(h)
    BY <2>2, HandlerTyped, EndsTyped, HandlerReads, HandlerCarries
  <2>3. CASE Around
    BY <2>3, AroundTyped, AroundReads, AroundCarries
  <2> QED BY <2>1, <2>2, <2>3 DEF Next, Around
<1> QED BY <1>1, InitCarries, StutterCarries, PTL DEF Spec

\* Whatever the planner has not read of a message is on its way to it, whatever
\* handlers, worker and the switch do between two calls and however often the
\* worker dies, unless the code gave up on the message, BullMQ dropped its job at
\* the second stall, or the client stopped running.
THEOREM NothingForgottenHolds == Spec => []NothingForgotten
<1>1. Inv => NothingForgotten
  <2> SUFFICES ASSUME Inv, NEW m \in Unplanned \ dropped, running PROVE OnItsWay(m)
    BY DEF NothingForgotten
  <2>1. WillBeRead(m)
    BY DEF Inv, WayFits
  <2> QED BY <2>1 DEF WillBeRead, Asks, OnItsWay
<1> QED BY Invariance, <1>1, PTL
=============================================================================
