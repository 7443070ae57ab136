----------------------------- MODULE LlmBudget -----------------------------
(***************************************************************************)
(* The LLM calls of one process under the daily spend ceilings: the budget *)
(* check with its cache of a minute (gemini/budget.ts), the retry loop     *)
(* that sends a call and records its cost in the background                *)
(* (gemini/generate.ts), and the backup model that takes over when the     *)
(* primary does not answer (gemini/llmCall.ts).                            *)
(*                                                                         *)
(* A JavaScript process runs one step at a time and others run at every    *)
(* await, so a check that queries the database is split there.  Other      *)
(* processes only show as rows and settings that appear in the database.   *)
(* A priced answer costs 1; the clock counts cache lifetimes within one    *)
(* day; calls of the evals harness, which skip the check, are left out.    *)
(***************************************************************************)
EXTENDS Integers, FiniteSets, Functions

CONSTANTS
  Call,             \* LLM calls of the process
  Instance,         \* agent instances
  None,             \* a call of no instance; no cache; no answer yet
  MaxAttempts,      \* attempts of a call (5 in the code)
  PrimaryAttempts,  \* attempts of a primary with a backup behind it (2)
  MaxClock,         \* bound: minutes
  MaxLimit,         \* bound: ceilings
  StartLimits,      \* bound: the ceilings a behaviour starts with
  MaxEvents         \* bound: calls of other processes, changes of the ceilings, deaths

ASSUME BudgetAssumption ==
  /\ IsFiniteSet(Instance) /\ None \notin Instance
  /\ IsFiniteSet(Call) /\ None \notin Nat
  /\ {MaxAttempts, PrimaryAttempts} \subseteq Nat \ {0}
  /\ {MaxClock, MaxLimit, MaxEvents} \subseteq Nat
  /\ StartLimits \subseteq 0 .. MaxLimit

VARIABLES
  limit,     \* app_settings: the two ceilings, 0 for none
  recorded,  \* llm_calls: priced rows of today by instance
  cache,     \* budget.ts: the cache object
  maps,      \* its instanceSpent maps, shared by reference
  clock,
  call,      \* the calls, each with the locals of its check
  admin,     \* PUT of the ceilings, between its two writes
  billed,    \* what the providers have charged, by instance
  left       \* events left

vars == <<limit, recorded, cache, maps, clock, call, admin, billed, left>>

Limits == [platform : 0 .. MaxLimit, instance : 0 .. MaxLimit]
Owner == Instance \cup {None}
MapId == 1 .. Cardinality(Call) + 1
Missing == -1
EmptyMap == [i \in Instance |-> Missing]

Total(rows) == FoldFunction(+, 0, rows)

\* Calls that wait for an answer of the database.
Awaits == {"settings", "platform", "instance"}
Loading(c) == call[c].pc \in Awaits

NewCall == [pc |-> "idle", inst |-> None, model |-> "only", attempt |-> 0, record |-> "none",
            now |-> 0, got |-> None, limits |-> None, platform |-> 0, map |-> None,
            due |-> FALSE]

\* A call that was answered, refused or failed, or that died with its process:
\* all that is left of it is the cost to record.
Finished(k, record) == [NewCall EXCEPT !.pc = "over", !.inst = IF record = "none" THEN None ELSE k.inst, !.record = record]

Init ==
  /\ limit \in [platform : StartLimits, instance : StartLimits]
  /\ recorded = [o \in Owner |-> 0]
  /\ cache = None
  /\ maps = [m \in MapId |-> EmptyMap]
  /\ clock = 0
  /\ call = [c \in Call |-> NewCall]
  /\ admin = None
  /\ billed = [o \in Owner |-> 0]
  /\ left = MaxEvents

-----------------------------------------------------------------------------
(* The check.                                                              *)

Fresh(now) == cache # None /\ now <= cache.at
Knows(m, i) == i # None => maps[m][i] # Missing

\* A ceiling of `lim` is reached by these counters.
Reached(lim, platform, inst, instance) ==
  \/ lim.platform > 0 /\ platform >= lim.platform
  \/ inst # None /\ lim.instance > 0 /\ instance >= lim.instance

\* The check lets the call through.
Sent(k) == [NewCall EXCEPT !.pc = "send", !.inst = k.inst, !.model = k.model, !.due = k.due]

\* The call is judged by the cache object its check ends with.
Judged(k, seen, map) ==
  LET instance == IF k.inst = None \/ map[k.inst] = Missing THEN 0 ELSE map[k.inst]
  IN  IF Reached(seen.limits, seen.platform, k.inst, instance) THEN Finished(k, "none") ELSE Sent(k)

\* The check of c ends with a new cache object; maps nobody refers to are gone.
Store(c, k, lim, platform, id, map) ==
  LET seen == [at |-> IF Fresh(k.now) THEN cache.at ELSE k.now, limits |-> lim, platform |-> platform, map |-> id]
      kept == {id} \cup {call[d].map : d \in Call \ {c}}
  IN  /\ cache' = seen
      /\ maps' = [m \in MapId |-> IF m = id THEN map ELSE IF m \in kept THEN maps[m] ELSE EmptyMap]
      /\ call' = [call EXCEPT ![c] = Judged(k, seen, map)]

UnusedMap == CHOOSE m \in MapId : (cache = None \/ m # cache.map) /\ \A d \in Call : m # call[d].map

\* Mutation: a fresh cache is trusted although it lacks the instance.
WithPlatformUnasked(c, k, lim, platform) ==
  LET shared == Fresh(k.now)
      known  == shared \/ k.inst = None
  IN  IF lim.instance > 0 /\ ~known
        THEN /\ call' = [call EXCEPT ![c] = [k EXCEPT !.pc = "instance", !.got = None, !.limits = lim,
                           !.platform = platform, !.map = IF shared THEN cache.map ELSE None]]
             /\ UNCHANGED <<cache, maps>>
        ELSE IF shared THEN Store(c, k, lim, platform, cache.map, maps[cache.map])
        ELSE Store(c, k, lim, platform, UnusedMap, EmptyMap)

\* The rest of a load, once it has its settings and the platform's spend; a
\* fresh cache shares its map, which another check may be filling.
WithPlatform(c, k, lim, platform) ==
  LET shared == Fresh(k.now)
      known  == IF shared THEN Knows(cache.map, k.inst) ELSE k.inst = None
  IN  IF lim.instance > 0 /\ ~known
        THEN /\ call' = [call EXCEPT ![c] = [k EXCEPT !.pc = "instance", !.got = None, !.limits = lim,
                           !.platform = platform, !.map = IF shared THEN cache.map ELSE None]]
             /\ UNCHANGED <<cache, maps>>
        ELSE IF shared THEN Store(c, k, lim, platform, cache.map, maps[cache.map])
        ELSE Store(c, k, lim, platform, UnusedMap, EmptyMap)

DbUnchanged == UNCHANGED <<limit, recorded, admin, billed, left>>

\* A stage asks for a call; it has a backup model or it has none.
Request(c) ==
  /\ call[c].pc = "idle"
  /\ \E i \in Owner, m \in {"only", "primary"} :
       call' = [call EXCEPT ![c] = [@ EXCEPT !.pc = "check", !.inst = i, !.model = m]]
  /\ UNCHANGED <<cache, maps, clock>> /\ DbUnchanged

Hit(c, now) == Fresh(now) /\ Knows(cache.map, call[c].inst)

OverLimit(i) == Reached(limit, Total(recorded), i, IF i = None THEN 0 ELSE recorded[i])

CheckHits(c) ==
  /\ call[c].pc = "check"
  /\ Hit(c, clock)
  /\ call' = [call EXCEPT ![c] = Judged([@ EXCEPT !.due = FALSE], cache, maps[cache.map])]
  /\ UNCHANGED <<cache, maps, clock>> /\ DbUnchanged

\* The cache has expired.  The call is due for refusal when the database holds
\* a ceiling's worth and no other check is in flight.
CheckLoads(c) ==
  /\ call[c].pc = "check"
  /\ ~Fresh(clock)
  /\ LET due == OverLimit(call[c].inst) /\ \A d \in Call : ~Loading(d)
     IN  call' = [call EXCEPT ![c] = [@ EXCEPT !.pc = "settings", !.now = clock, !.due = due]]
  /\ UNCHANGED <<cache, maps, clock>> /\ DbUnchanged

CheckLoadsInstance(c) ==
  /\ call[c].pc = "check"
  /\ Fresh(clock) /\ ~Hit(c, clock)
  /\ WithPlatform(c, [call[c] EXCEPT !.now = clock, !.due = FALSE], cache.limits, cache.platform)
  /\ UNCHANGED clock /\ DbUnchanged

\* The database answers the query a check waits for.
Answers(c) ==
  /\ Loading(c) /\ call[c].got = None
  /\ call' = [call EXCEPT ![c].got =
       CASE call[c].pc = "settings" -> limit
         [] call[c].pc = "platform" -> Total(recorded)
         [] call[c].pc = "instance" -> recorded[call[c].inst]]
  /\ UNCHANGED <<cache, maps, clock>> /\ DbUnchanged

SettingsLoaded(c) ==
  /\ call[c].pc = "settings" /\ call[c].got # None
  /\ LET lim == call[c].got
     IN  IF lim.platform > 0 /\ ~Fresh(call[c].now)
           THEN /\ call' = [call EXCEPT ![c] = [@ EXCEPT !.pc = "platform", !.got = None, !.limits = lim]]
                /\ UNCHANGED <<cache, maps>>
           ELSE WithPlatform(c, call[c], lim, IF cache = None THEN 0 ELSE cache.platform)
  /\ UNCHANGED clock /\ DbUnchanged

PlatformLoaded(c) ==
  /\ call[c].pc = "platform" /\ call[c].got # None
  /\ WithPlatform(c, call[c], call[c].limits, call[c].got)
  /\ UNCHANGED clock /\ DbUnchanged

\* A map of another check that is still in use is shared with it.
InstanceLoaded(c) ==
  LET id == IF call[c].map = None THEN UnusedMap ELSE call[c].map
      map == IF call[c].map = None THEN EmptyMap ELSE maps[id]
  IN  /\ call[c].pc = "instance" /\ call[c].got # None
      /\ Store(c, call[c], call[c].limits, call[c].platform, id, [map EXCEPT ![call[c].inst] = call[c].got])
      /\ UNCHANGED clock /\ DbUnchanged

\* A query fails: the call goes through unchecked.
CheckFails(c) ==
  /\ Loading(c) /\ call[c].got = None
  /\ call' = [call EXCEPT ![c] = Sent([@ EXCEPT !.due = FALSE])]
  /\ UNCHANGED <<cache, maps, clock>> /\ DbUnchanged

-----------------------------------------------------------------------------
(* Sending, retrying, recording.                                           *)

\* A primary with a backup behind it gets one retry, the others the full loop.
Tries(model) == IF model = "primary" THEN PrimaryAttempts ELSE MaxAttempts

\* Mutation: the attempt that fails is not counted.
LastAttemptOffByOne(k) == k.attempt >= Tries(k.model)

LastAttempt(k) == k.attempt >= Tries(k.model) - 1

\* The provider answers and the caller goes on; the cost is recorded behind it.
ProviderAnswers(c) ==
  /\ call[c].pc = "send"
  /\ \E priced \in BOOLEAN :
       /\ call' = [call EXCEPT ![c] = Finished(@, IF priced THEN "noting" ELSE "none")]
       /\ billed' = IF priced THEN [billed EXCEPT ![call[c].inst] = @ + 1] ELSE billed
  /\ UNCHANGED <<limit, recorded, cache, maps, clock, admin, left>>

\* Rate limits, server errors, timeouts and lost connections are tried again;
\* a primary that did not answer hands over to its backup, which is checked
\* against the budget anew.
ProviderFails(c) ==
  /\ call[c].pc = "send"
  /\ \E retryable \in BOOLEAN :
       call' = [call EXCEPT ![c] =
         IF retryable /\ ~LastAttempt(@) THEN [call[c] EXCEPT !.attempt = @ + 1]
         ELSE IF @.model = "primary" THEN [NewCall EXCEPT !.pc = "check", !.inst = call[c].inst, !.model = "backup"]
         ELSE Finished(@, "none")]
  /\ UNCHANGED <<cache, maps, clock>> /\ DbUnchanged

\* An error that is not the provider's is not answered by a backup.
CallThrows(c) ==
  /\ call[c].pc = "send"
  /\ call' = [call EXCEPT ![c] = Finished(@, "none")]
  /\ UNCHANGED <<cache, maps, clock>> /\ DbUnchanged

\* noteSpend: the counters of the cache, if there is one.
NoteSpend(c) ==
  LET i == call[c].inst
  IN  /\ call[c].record = "noting"
      /\ call' = [call EXCEPT ![c].record = "inserting"]
      /\ cache' = IF cache = None THEN None ELSE [cache EXCEPT !.platform = @ + 1]
      /\ maps' = IF cache = None \/ i = None \/ ~Knows(cache.map, i) THEN maps
                 ELSE [maps EXCEPT ![cache.map][i] = @ + 1]
      /\ UNCHANGED clock /\ DbUnchanged

InsertRow(c) ==
  /\ call[c].record = "inserting"
  /\ recorded' = [recorded EXCEPT ![call[c].inst] = @ + 1]
  /\ call' = [call EXCEPT ![c] = Finished(@, "none")]
  /\ UNCHANGED <<limit, cache, maps, clock, admin, billed, left>>

\* Mutation: a record that fails is tried again from the start.
RecordRetried(c) ==
  /\ call[c].record # "none"
  /\ call' = [call EXCEPT ![c].record = "noting"]
  /\ UNCHANGED <<cache, maps, clock>> /\ DbUnchanged

\* The price lookup or the insert fails; the call is not affected.
RecordFails(c) ==
  /\ call[c].record # "none"
  /\ call' = [call EXCEPT ![c] = Finished(@, "none")]
  /\ UNCHANGED <<cache, maps, clock>> /\ DbUnchanged

-----------------------------------------------------------------------------
(* The world around the process.                                           *)

MinutePasses ==
  /\ clock < MaxClock
  /\ clock' = clock + 1
  /\ UNCHANGED <<cache, maps, call>> /\ DbUnchanged

\* Another process makes a call and records it.
SpendsElsewhere(i) ==
  /\ left > 0
  /\ left' = left - 1
  /\ billed' = [billed EXCEPT ![i] = @ + 1]
  /\ recorded' = [recorded EXCEPT ![i] = @ + 1]
  /\ UNCHANGED <<limit, cache, maps, clock, call, admin>>

\* saveBudgetSettings writes the two ceilings, then drops the cache of its own
\* process, which may be another one.
SaveBegins(new) ==
  /\ left > 0 /\ admin = None /\ new # limit
  /\ left' = left - 1
  /\ limit' = [limit EXCEPT !.platform = new.platform]
  /\ admin' = new
  /\ call' = [d \in Call |-> [call[d] EXCEPT !.due = FALSE]]
  /\ UNCHANGED <<recorded, cache, maps, clock, billed>>

SaveEnds ==
  /\ admin # None
  /\ limit' = admin
  /\ admin' = None
  /\ cache' \in {cache, None}
  /\ call' = [d \in Call |-> [call[d] EXCEPT !.due = FALSE]]
  /\ maps' = [m \in MapId |-> IF (cache' # None /\ m = cache.map) \/ \E d \in Call : m = call[d].map
                              THEN maps[m] ELSE EmptyMap]
  /\ UNCHANGED <<recorded, clock, billed, left>>

\* The process dies with its calls, their records under way and its cache.
Restart ==
  /\ left > 0
  /\ left' = left - 1
  /\ cache' = None
  /\ maps' = [m \in MapId |-> EmptyMap]
  /\ call' = [c \in Call |->
       IF call[c].pc = "idle" THEN call[c] ELSE Finished(call[c], "none")]
  /\ UNCHANGED <<limit, recorded, clock, admin, billed>>

Steps(c) ==
  \/ CheckHits(c) \/ CheckLoads(c) \/ CheckLoadsInstance(c)
  \/ Answers(c) \/ SettingsLoaded(c) \/ PlatformLoaded(c) \/ InstanceLoaded(c) \/ CheckFails(c)
  \/ ProviderAnswers(c) \/ ProviderFails(c) \/ CallThrows(c)

Next ==
  \/ \E c \in Call : Request(c) \/ Steps(c) \/ NoteSpend(c) \/ InsertRow(c) \/ RecordFails(c)
  \/ MinutePasses
  \/ \E i \in Instance : SpendsElsewhere(i)
  \/ \E new \in Limits : SaveBegins(new)
  \/ SaveEnds
  \/ Restart

Spec == Init /\ [][Next]_vars

-----------------------------------------------------------------------------
(* Properties.                                                             *)

\* Counters are well formed, and no call makes more attempts than its loop
\* allows (generateWithRetryDetailed).
TypeOK ==
  /\ limit \in Limits
  /\ clock \in 0 .. MaxClock
  /\ \A c \in Call : call[c].attempt < Tries(call[c].model)
  /\ \A o \in Owner : recorded[o] \in Nat /\ billed[o] \in Nat
  /\ cache # None => cache.limits \in Limits /\ cache.at <= clock /\ cache.map \in MapId

\* The counters a refusal rests on never exceed what was really spent: a cost
\* is not counted from the row and from the note of it as well (noteSpend runs
\* before the insert, and a query replaces what a check held).
NeverOvercounts ==
  cache # None =>
    /\ cache.platform <= Total(billed)
    /\ \A i \in Instance : maps[cache.map][i] <= billed[i]

\* Once the database holds a ceiling's worth, the cache has expired and no check
\* is in flight, the next call that is checked is not sent, whatever other checks
\* join it, as long as its queries work and the ceilings stay (loadCache).  With a
\* check in flight it may be: a check that took the platform's spend from the old
\* cache writes it back under the time of the newer one.
LateCallsRefused == \A c \in Call : call[c].pc = "send" => ~call[c].due
=============================================================================
