--------------------------- MODULE LlmBudgetProofs ---------------------------
(***************************************************************************)
(* Theorems about LlmBudget for any number of calls, instances, ceilings,  *)
(* changes of them, calls of other processes and deaths.                   *)
(***************************************************************************)
EXTENDS LlmBudget, FiniteSetTheorems, WellFoundedInduction, TLAPS

-----------------------------------------------------------------------------
(* What Total sums up.  The fold is a recursive function on the subsets of *)
(* Owner, in the order in which CHOOSE takes their elements.               *)

LEMMA LeastElement ==
  ASSUME NEW S \in SUBSET Nat, S # {}
  PROVE  \E m \in S : \A k \in S : m <= k
<1> DEFINE less == OpToRel(<, Nat)
<1>1. PICK m \in S : \A k \in S : ~(<<k, m>> \in less)
  BY WFMin, NatLessThanWellFounded
<1>2. \A k \in S : ~(k < m)
  BY <1>1 DEF OpToRel
<1> HIDE DEF less
<1>3. m \in Nat /\ \A k \in S : k \in Nat
  OBVIOUS
<1> QED BY <1>2, <1>3

First(s) == CHOOSE x \in s : TRUE

\* g[s] is the sum of the rows in s.
Adds(g, rows, s) == g[s] = IF s = {} THEN 0 ELSE rows[First(s)] + g[s \ {First(s)}]

Sums(g, rows) == g = [s \in SUBSET Owner |-> IF s = {} THEN 0 ELSE rows[First(s)] + g[s \ {First(s)}]]

LEMMA OwnerIsFinite == IsFiniteSet(Owner)
BY BudgetAssumption, FS_AddElement DEF Owner

LEMMA FirstIsIn == \A s : s # {} => First(s) \in s
BY DEF First

\* A subset loses one element with its first.
LEMMA Smaller ==
  ASSUME NEW s \in SUBSET Owner, s # {}
  PROVE  /\ s \ {First(s)} \in SUBSET Owner
         /\ Cardinality(s) \in Nat
         /\ Cardinality(s \ {First(s)}) \in Nat
         /\ Cardinality(s \ {First(s)}) = Cardinality(s) - 1
<1>1. IsFiniteSet(s) /\ First(s) \in s
  BY FS_Subset, OwnerIsFinite, FirstIsIn
<1>2. IsFiniteSet(s \ {First(s)})
  BY <1>1, FS_RemoveElement
<1> QED BY <1>1, <1>2, FS_RemoveElement, FS_CardinalityType

LEMMA SubsetSize == \A s \in SUBSET Owner : Cardinality(s) \in Nat /\ Cardinality(s) <= Cardinality(Owner)
                                            /\ (Cardinality(s) = 0 => s = {})
<1> SUFFICES ASSUME NEW s \in SUBSET Owner
             PROVE  Cardinality(s) \in Nat /\ Cardinality(s) <= Cardinality(Owner) /\ (Cardinality(s) = 0 => s = {})
  OBVIOUS
<1>1. IsFiniteSet(s)
  BY FS_Subset, OwnerIsFinite
<1> QED BY <1>1, FS_Subset, FS_CardinalityType, FS_EmptySet, OwnerIsFinite

\* The recursion has a solution: one that is right for the subsets of up to n
\* elements gives one that is right for n + 1.
LEMMA SumExists ==
  ASSUME NEW rows
  PROVE  \E g : Sums(g, rows)
<1> DEFINE Right(g, n) == \A s \in SUBSET Owner : Cardinality(s) <= n => Adds(g, rows, s)
           Wrong == {n \in Nat : ~\E g : Right(g, n)}
<1>1. Right([s \in SUBSET Owner |-> 0], 0)
  <2>1. \A s \in SUBSET Owner : Cardinality(s) <= 0 => s = {}
    BY SubsetSize
  <2> QED BY <2>1 DEF Adds
<1>2. ASSUME NEW n \in Nat, NEW g, Right(g, n)
      PROVE  \E h : Right(h, n + 1)
  <2> DEFINE h == [s \in SUBSET Owner |-> IF s = {} THEN 0 ELSE rows[First(s)] + g[s \ {First(s)}]]
  <2>1. ASSUME NEW s \in SUBSET Owner, Cardinality(s) <= n + 1
        PROVE  Adds(h, rows, s)
    <3>1. CASE s = {}
      BY <3>1 DEF Adds
    <3>2. CASE s # {}
      <4> DEFINE t == s \ {First(s)}
      <4>1. t \in SUBSET Owner /\ Cardinality(t) <= n
        BY <2>1, <3>2, Smaller
      <4>2. Adds(g, rows, t)
        BY <1>2, <4>1
      <4>3. h[t] = g[t]
        BY <4>1, <4>2 DEF Adds
      <4>4. h[s] = rows[First(s)] + g[t]
        BY <3>2
      <4> HIDE DEF h, t
      <4>5. h[s] = rows[First(s)] + h[t]
        BY <4>3, <4>4
      <4> QED BY <3>2, <4>5 DEF Adds, t
    <3> QED BY <3>1, <3>2
  <2>2. Right(h, n + 1)
    BY <2>1
  <2> QED BY <2>2
<1>3. Wrong = {}
  <2> SUFFICES ASSUME Wrong # {} PROVE FALSE
    OBVIOUS
  <2>1. PICK m \in Wrong : \A k \in Wrong : m <= k
    <3>1. Wrong \in SUBSET Nat
      OBVIOUS
    <3> HIDE DEF Wrong
    <3> QED BY <3>1, LeastElement
  <2>2. m \in Nat /\ ~\E g : Right(g, m)
    BY <2>1
  <2> HIDE DEF Right
  <2>3. m # 0
    BY <1>1, <2>2
  <2>4. m - 1 \in Nat /\ m - 1 \notin Wrong
    <3> HIDE DEF Wrong
    <3> QED BY <2>1, <2>2, <2>3
  <2>5. PICK g : Right(g, m - 1)
    BY <2>4
  <2>6. \E h : Right(h, m - 1 + 1)
    BY <1>2, <2>4, <2>5
  <2> QED BY <2>2, <2>6
<1>4. PICK g : Right(g, Cardinality(Owner))
  <2>1. Cardinality(Owner) \in Nat
    BY OwnerIsFinite, FS_CardinalityType
  <2> HIDE DEF Right
  <2> QED BY <1>3, <2>1
<1> DEFINE h == [s \in SUBSET Owner |-> IF s = {} THEN 0 ELSE rows[First(s)] + g[s \ {First(s)}]]
<1>5. \A s \in SUBSET Owner : Adds(g, rows, s)
  BY <1>4, SubsetSize
<1>6. \A s \in SUBSET Owner : h[s] = g[s]
  BY <1>5 DEF Adds
<1>7. ASSUME NEW s \in SUBSET Owner, s # {}
      PROVE  h[s \ {First(s)}] = g[s \ {First(s)}]
  BY <1>6, <1>7, Smaller
<1>8. h = [s \in SUBSET Owner |-> IF s = {} THEN 0 ELSE rows[First(s)] + h[s \ {First(s)}]]
  BY <1>7
<1> HIDE DEF h
<1> QED BY <1>8 DEF Sums

Sum(rows, I) == (CHOOSE g : Sums(g, rows))[I]

LEMMA TotalIsSum ==
  ASSUME NEW rows, DOMAIN rows = Owner
  PROVE  Total(rows) = Sum(rows, Owner)
BY DEF Total, FoldFunction, FoldFunctionOnSet, MapThenFoldSet, Sum, Sums, First

LEMMA SumStep ==
  ASSUME NEW rows, NEW s \in SUBSET Owner
  PROVE  Sum(rows, s) = IF s = {} THEN 0 ELSE rows[First(s)] + Sum(rows, s \ {First(s)})
<1> DEFINE g == CHOOSE f : Sums(f, rows)
<1>1. Sums(g, rows)
  BY SumExists
<1> HIDE DEF g
<1>2. g[s] = IF s = {} THEN 0 ELSE rows[First(s)] + g[s \ {First(s)}]
  BY <1>1 DEF Sums
<1> QED BY <1>2 DEF Sum, g

LEMMA SumOfNone == \A rows : Sum(rows, {}) = 0
<1> SUFFICES ASSUME NEW rows PROVE Sum(rows, {}) = 0
  OBVIOUS
<1>1. {} \in SUBSET Owner
  OBVIOUS
<1>2. Sum(rows, {}) = IF {} = {} THEN 0 ELSE rows[First({})] + Sum(rows, {} \ {First({})})
  BY <1>1, SumStep
<1> QED BY <1>2

\* A set of subsets that holds the empty one, and each one whose rest after its
\* first element it holds, holds them all.
LEMMA AllSubsets ==
  ASSUME NEW T, {} \in T, \A s \in SUBSET Owner : s # {} /\ s \ {First(s)} \in T => s \in T
  PROVE  SUBSET Owner \subseteq T
<1> DEFINE Out == {n \in Nat : \E s \in SUBSET Owner : Cardinality(s) = n /\ s \notin T}
<1>1. ASSUME NEW s \in SUBSET Owner, s \notin T
      PROVE  FALSE
  <2>1. Out # {} /\ Out \in SUBSET Nat
    BY <1>1, SubsetSize
  <2> HIDE DEF Out
  <2>2. PICK m \in Out : \A k \in Out : m <= k
    BY <2>1, LeastElement
  <2>3. PICK t \in SUBSET Owner : Cardinality(t) = m /\ t \notin T
    BY <2>2 DEF Out
  <2>4. t # {}
    BY <2>3
  <2> DEFINE rest == t \ {First(t)}
  <2>5. rest \in SUBSET Owner /\ Cardinality(rest) \in Nat /\ Cardinality(rest) < m /\ rest \notin T
    BY <2>3, <2>4, Smaller
  <2>6. Cardinality(rest) \in Out
    BY <2>5 DEF Out
  <2>7. m \in Nat
    BY <2>1
  <2> QED BY <2>2, <2>5, <2>6, <2>7
<1> QED BY <1>1

LEMMA SumIsNat ==
  ASSUME NEW rows \in [Owner -> Nat]
  PROVE  \A s \in SUBSET Owner : Sum(rows, s) \in Nat
<1> DEFINE T == {s \in SUBSET Owner : Sum(rows, s) \in Nat}
<1>1. {} \in T
  BY SumOfNone
<1>2. ASSUME NEW s \in SUBSET Owner, s # {}, s \ {First(s)} \in T
      PROVE  s \in T
  <2>1. rows[First(s)] \in Nat
    BY <1>2, FirstIsIn
  <2> QED BY <1>2, <2>1, SumStep
<1> HIDE DEF T
<1>3. SUBSET Owner \subseteq T
  BY <1>1, <1>2, AllSubsets
<1> QED BY <1>3 DEF T

LEMMA SumOfOne ==
  ASSUME NEW rows \in [Owner -> Nat], NEW i \in Owner
  PROVE  Sum(rows, {i}) = rows[i]
<1>1. First({i}) = i
  BY DEF First
<1>2. {i} \ {First({i})} = {} /\ {i} \in SUBSET Owner /\ {i} # {}
  BY <1>1
<1>3. Sum(rows, {}) = 0 /\ rows[i] \in Nat
  BY SumOfNone
<1>4. Sum(rows, {i}) = rows[i] + Sum(rows, {})
  BY <1>1, <1>2, SumStep
<1> QED BY <1>3, <1>4

\* One more in a row is one more in every sum over it.
LEMMA SumGrows ==
  ASSUME NEW rows \in [Owner -> Nat], NEW o \in Owner
  PROVE  \A s \in SUBSET Owner :
           Sum([rows EXCEPT ![o] = @ + 1], s) = Sum(rows, s) + (IF o \in s THEN 1 ELSE 0)
<1> DEFINE new == [rows EXCEPT ![o] = @ + 1]
           T == {s \in SUBSET Owner : Sum(new, s) = Sum(rows, s) + (IF o \in s THEN 1 ELSE 0)}
<1>1. {} \in T
  BY SumOfNone
<1>2. ASSUME NEW s \in SUBSET Owner, s # {}, s \ {First(s)} \in T
      PROVE  s \in T
  <2> DEFINE x == First(s)
             rest == s \ {x}
  <2>1. x \in s /\ x \in Owner /\ rest \in SUBSET Owner
    BY <1>2, FirstIsIn
  <2>2. Sum(new, s) = new[x] + Sum(new, rest) /\ Sum(rows, s) = rows[x] + Sum(rows, rest)
    BY <1>2, SumStep
  <2>3. Sum(rows, rest) \in Nat /\ rows[x] \in Nat
    BY <2>1, SumIsNat
  <2>4. Sum(new, rest) = Sum(rows, rest) + (IF o \in rest THEN 1 ELSE 0)
    BY <1>2
  <2>5. o \in rest <=> o \in s /\ o # x
    OBVIOUS
  <2>6. new[x] = IF x = o THEN rows[x] + 1 ELSE rows[x]
    BY <2>1
  <2> HIDE DEF new, x, rest
  <2>7. Sum(new, s) = Sum(rows, s) + (IF o \in s THEN 1 ELSE 0)
    BY <2>1, <2>2, <2>3, <2>4, <2>5, <2>6
  <2> QED BY <2>7
<1> HIDE DEF T
<1>3. SUBSET Owner \subseteq T
  BY <1>1, <1>2, AllSubsets
<1> QED BY <1>3 DEF T

-----------------------------------------------------------------------------
(* The inductive invariant.                                                *)

Calls ==
  [pc : {"idle", "check", "settings", "platform", "instance", "send", "over"}, inst : Owner,
   model : {"only", "primary", "backup"}, attempt : Nat, record : {"none", "noting", "inserting"},
   now : 0 .. MaxClock, got : Limits \cup Nat \cup {None}, limits : Limits \cup {None},
   platform : Nat, map : MapId \cup {None}, due : BOOLEAN]

Spent == [Instance -> Nat \cup {Missing}]

Seen == [at : 0 .. MaxClock, limits : Limits, platform : Nat, map : MapId]

\* What a call holds belongs to the step it is at.
Fits(k) ==
  /\ k.record # "none" => k.pc = "over"
  /\ k.now <= clock
  /\ k.attempt < Tries(k.model)
  /\ k.pc # "send" => k.attempt = 0
  /\ k.map # None => k.pc = "instance"
  /\ k.got # None => k.pc \in Awaits
  /\ k.pc = "settings" /\ k.got # None => k.got \in Limits
  /\ k.pc \in {"platform", "instance"} => k.limits \in Limits
  /\ k.pc \in {"platform", "instance"} /\ k.got # None => k.got \in Nat
  /\ k.pc = "instance" => k.inst \in Instance

TypeInv ==
  /\ limit \in Limits /\ admin \in Limits \cup {None}
  /\ recorded \in [Owner -> Nat] /\ billed \in [Owner -> Nat]
  /\ cache \in Seen \cup {None}
  /\ cache # None => cache.at <= clock
  /\ maps \in [MapId -> Spent]
  /\ clock \in 0 .. MaxClock
  /\ call \in [Call -> Calls]
  /\ \A c \in Call : Fits(call[c])

\* Calls whose cost is yet to be noted, or yet to be inserted as a row, and what
\* that leaves for a counter of the process: I is one instance or everybody.
Count(f, R, I) == Cardinality({c \in Call : f[c].record \in R /\ f[c].inst \in I})

Scopes == {Owner} \cup {{i} : i \in Instance}
Noting == {"noting"}
Unrecorded == {"noting", "inserting"}

Room(I) == Sum(billed, I) - Count(call, Noting, I)

RecordFits == \A I \in Scopes : Sum(recorded, I) + Count(call, Unrecorded, I) <= Sum(billed, I)
CacheFits == cache # None => cache.platform <= Room(Owner)
MapsFit == \A m \in MapId, i \in Instance : maps[m][i] <= Room({i})
HeldFits(k) ==
  /\ k.pc = "platform" /\ k.got # None => k.got <= Room(Owner)
  /\ k.pc = "instance" => k.platform <= Room(Owner)
  /\ k.pc = "instance" /\ k.got # None => k.got <= Room({k.inst})


SpendInv == TypeInv /\ RecordFits /\ CacheFits /\ MapsFit /\ \A c \in Call : HeldFits(call[c])

\* A call that is due, and that asked at `now` for instance i, has reached a
\* ceiling by all that a check from then on can find: in the database, in what a
\* call holds, and, once another check has renewed it, in the cache.
SameLimits(now, k) ==
  /\ k.pc \in Awaits => k.now >= now
  /\ k.pc = "settings" /\ k.got # None => k.got = limit
  /\ k.pc \in {"platform", "instance"} => k.limits = limit

PlatformFull(k) ==
  /\ k.pc = "platform" /\ k.got # None => k.got >= limit.platform
  /\ k.pc = "instance" => k.platform >= limit.platform

PlatformDue(now) ==
  /\ limit.platform > 0 /\ Total(recorded) >= limit.platform
  /\ Fresh(now) => cache.platform >= limit.platform
  /\ \A d \in Call : PlatformFull(call[d])

Full(m, i) == maps[m][i] = Missing \/ maps[m][i] >= limit.instance

InstanceFull(i, k) ==
  /\ k.pc = "instance" /\ k.map # None => Full(k.map, i)
  /\ k.pc = "instance" /\ k.inst = i /\ k.got # None => k.got >= limit.instance

InstanceDue(now, i) ==
  /\ i \in Instance /\ limit.instance > 0 /\ recorded[i] >= limit.instance
  /\ Fresh(now) => Full(cache.map, i)
  /\ \A d \in Call : InstanceFull(i, call[d])

Due(now, i) ==
  /\ Fresh(now) => cache.limits = limit
  /\ \A d \in Call : SameLimits(now, call[d])
  /\ PlatformDue(now) \/ InstanceDue(now, i)

DueFits ==
  \A c \in Call, now \in 0 .. MaxClock, i \in Owner :
    call[c].due /\ call[c].now = now /\ call[c].inst = i => Loading(c) /\ Due(now, i)

-----------------------------------------------------------------------------
(* What the steps make of a call.                                          *)

LEMMA TriesIsPositive == \A m : Tries(m) \in Nat /\ 0 < Tries(m)
BY BudgetAssumption DEF Tries

LEMMA NewCallIs == NewCall \in Calls /\ NewCall.record = "none"
BY BudgetAssumption DEF NewCall, Calls, Owner

LEMMA FinishedIs ==
  ASSUME NEW k \in Calls, NEW r \in {"none", "noting", "inserting"}
  PROVE  /\ Finished(k, r) \in Calls
         /\ Finished(k, r).pc = "over" /\ Finished(k, r).record = r /\ Finished(k, r).due = FALSE
         /\ r # "none" => Finished(k, r).inst = k.inst
         /\ clock \in 0 .. MaxClock => Fits(Finished(k, r))
<1>1. Finished(k, r) \in Calls
  <2>1. NewCall \in Calls /\ (IF r = "none" THEN None ELSE k.inst) \in Owner
    BY NewCallIs DEF Calls, Owner
  <2> QED BY ZenonT(60), <2>1 DEF Finished, Calls
<1>2. Finished(k, r).pc = "over" /\ Finished(k, r).record = r /\ Finished(k, r).due = FALSE
      /\ Finished(k, r).now = 0 /\ Finished(k, r).attempt = 0 /\ Finished(k, r).map = None
      /\ Finished(k, r).got = None
      /\ (r # "none" => Finished(k, r).inst = k.inst)
  BY DEF Finished, NewCall
<1>3. clock \in 0 .. MaxClock => Fits(Finished(k, r))
  BY <1>2, TriesIsPositive DEF Fits
<1> QED BY <1>1, <1>2, <1>3

LEMMA SentIs ==
  ASSUME NEW k \in Calls
  PROVE  /\ Sent(k) \in Calls
         /\ Sent(k).pc = "send" /\ Sent(k).record = "none" /\ Sent(k).due = k.due
         /\ clock \in 0 .. MaxClock => Fits(Sent(k))
<1>1. Sent(k) \in Calls
  <2>1. NewCall \in Calls /\ k.inst \in Owner /\ k.model \in {"only", "primary", "backup"} /\ k.due \in BOOLEAN
    BY NewCallIs DEF Calls
  <2> QED BY <2>1 DEF Sent, Calls
<1>2. Sent(k).pc = "send" /\ Sent(k).record = "none" /\ Sent(k).due = k.due /\ Sent(k).now = 0
      /\ Sent(k).attempt = 0 /\ Sent(k).map = None /\ Sent(k).got = None
  BY DEF Sent, NewCall
<1>3. clock \in 0 .. MaxClock => Fits(Sent(k))
  BY <1>2, TriesIsPositive DEF Fits
<1> QED BY <1>1, <1>2, <1>3

LEMMA JudgedIs ==
  ASSUME NEW k \in Calls, NEW seen, NEW map
  PROVE  /\ Judged(k, seen, map) \in Calls
         /\ Judged(k, seen, map).pc \in {"over", "send"} /\ Judged(k, seen, map).record = "none"
         /\ Judged(k, seen, map).due => k.due
         /\ clock \in 0 .. MaxClock => Fits(Judged(k, seen, map))
<1>1. Judged(k, seen, map) \in {Finished(k, "none"), Sent(k)}
  BY DEF Judged
<1>2. /\ Finished(k, "none") \in Calls /\ Finished(k, "none").pc = "over" /\ Finished(k, "none").record = "none"
      /\ Finished(k, "none").due = FALSE /\ (clock \in 0 .. MaxClock => Fits(Finished(k, "none")))
  BY FinishedIs
<1>3. /\ Sent(k) \in Calls /\ Sent(k).pc = "send" /\ Sent(k).record = "none" /\ Sent(k).due = k.due
      /\ (clock \in 0 .. MaxClock => Fits(Sent(k)))
  BY SentIs
<1>4. CASE Judged(k, seen, map) = Finished(k, "none")
  BY <1>2, <1>4
<1>5. CASE Judged(k, seen, map) = Sent(k)
  BY <1>3, <1>5
<1> QED BY <1>1, <1>4, <1>5

\* One more map than there are calls is enough: a call that asks for a new map
\* holds none.
LEMMA UnusedMapIs ==
  ASSUME TypeInv, NEW c \in Call, call[c].map = None
  PROVE  UnusedMap \in MapId
<1> SUFFICES \E m \in MapId : (cache = None \/ m # cache.map) /\ \A d \in Call : m # call[d].map
  BY DEF UnusedMap
<1> SUFFICES ASSUME \A m \in MapId : (cache # None /\ m = cache.map) \/ \E d \in Call : m = call[d].map
             PROVE  FALSE
  OBVIOUS
<1> DEFINE f == [m \in MapId |-> IF cache # None /\ m = cache.map THEN c ELSE CHOOSE d \in Call : m = call[d].map]
<1>1. f \in [MapId -> Call]
  OBVIOUS
<1>2. Cardinality(Call) \in Nat /\ IsFiniteSet(Call)
  BY BudgetAssumption, FS_CardinalityType
<1>3. IsFiniteSet(MapId) /\ Cardinality(MapId) = Cardinality(Call) + 1
  <2> DEFINE n == Cardinality(Call) + 1
  <2>1. 1 \in Int /\ n \in Int /\ ~(1 > n)
    BY <1>2
  <2>2. IsFiniteSet(1 .. n) /\ Cardinality(1 .. n) = IF 1 > n THEN 0 ELSE n - 1 + 1
    BY <2>1, FS_Interval
  <2> QED BY <1>2, <2>1, <2>2 DEF MapId
<1> HIDE DEF f
<1>4. Cardinality(Call) < Cardinality(MapId)
  BY <1>2, <1>3
<1>5. PICK x, y \in MapId : x # y /\ f[x] = f[y]
  BY <1>1, <1>2, <1>3, <1>4, FS_PigeonHole
<1>6. \A m \in MapId : IF cache # None /\ m = cache.map THEN f[m] = c ELSE m = call[f[m]].map
  BY DEF f
<1>7. None \notin MapId
  BY BudgetAssumption, <1>2 DEF MapId
<1> QED BY <1>5, <1>6, <1>7

\* One call changes, and fits.
LEMMA CallSteps ==
  ASSUME TypeInv, NEW c \in Call, NEW k \in Calls, call' = [call EXCEPT ![c] = k], clock' = clock, Fits(k)
  PROVE  call' \in [Call -> Calls] /\ \A d \in Call : Fits(call[d])'
<1>1. call' \in [Call -> Calls]
  BY DEF TypeInv
<1>2. ASSUME NEW d \in Call PROVE Fits(call[d])'
  <2>1. Fits(call'[d])
    BY DEF TypeInv
  <2> QED BY <2>1 DEF Fits
<1> QED BY <1>1, <1>2

StoreHolds(c, k, lim, platform, id, map) ==
  /\ k \in Calls /\ k.now <= clock
  /\ lim \in Limits /\ platform \in Nat /\ id \in MapId /\ map \in Spent

\* The cache that a check leaves.
LEMMA StoreIs ==
  ASSUME TypeInv, NEW c \in Call, NEW k, NEW lim, NEW platform, NEW id, NEW map,
         StoreHolds(c, k, lim, platform, id, map), Store(c, k, lim, platform, id, map)
  PROVE  /\ cache' \in Seen /\ cache'.at = (IF Fresh(k.now) THEN cache.at ELSE k.now)
         /\ cache'.limits = lim /\ cache'.platform = platform /\ cache'.map = id
         /\ call' = [call EXCEPT ![c] = Judged(k, cache', map)]
         /\ maps' \in [MapId -> Spent] /\ maps'[id] = map
         /\ \A m \in MapId \ {id} : maps'[m] \in {maps[m], EmptyMap}
         /\ \A d \in Call \ {c} : call[d].map # None /\ call[d].map # id => maps'[call[d].map] = maps[call[d].map]
<1> DEFINE seen == [at |-> IF Fresh(k.now) THEN cache.at ELSE k.now, limits |-> lim, platform |-> platform, map |-> id]
           kept == {id} \cup {call[d].map : d \in Call \ {c}}
<1>1. /\ cache' = seen
      /\ maps' = [m \in MapId |-> IF m = id THEN map ELSE IF m \in kept THEN maps[m] ELSE EmptyMap]
      /\ call' = [call EXCEPT ![c] = Judged(k, seen, map)]
  BY DEF Store
<1>2. seen.at \in 0 .. MaxClock
  BY DEF TypeInv, Fresh, StoreHolds, Calls, Seen
<1>3. cache' \in Seen
  BY <1>1, <1>2 DEF StoreHolds, Seen
<1>4. EmptyMap \in Spent
  BY DEF EmptyMap, Spent
<1> HIDE DEF kept
<1>5. maps' \in [MapId -> Spent] /\ maps'[id] = map
      /\ \A m \in MapId \ {id} : maps'[m] = IF m \in kept THEN maps[m] ELSE EmptyMap
  BY <1>1, <1>4 DEF StoreHolds, TypeInv
<1>6. ASSUME NEW d \in Call \ {c}, call[d].map # None, call[d].map # id
      PROVE  maps'[call[d].map] = maps[call[d].map]
  <2>1. call[d].map \in MapId /\ call[d].map \in kept
    BY <1>6 DEF kept, TypeInv, Calls
  <2> QED BY <1>5, <1>6, <2>1
<1> QED BY <1>1, <1>3, <1>5, <1>6

LEMMA StoreTyped ==
  ASSUME TypeInv, NEW c \in Call, NEW k, NEW lim, NEW platform, NEW id, NEW map,
         StoreHolds(c, k, lim, platform, id, map), Store(c, k, lim, platform, id, map),
         UNCHANGED clock, DbUnchanged
  PROVE  TypeInv'
<1>1. /\ cache' \in Seen /\ cache'.at = (IF Fresh(k.now) THEN cache.at ELSE k.now)
      /\ call' = [call EXCEPT ![c] = Judged(k, cache', map)]
      /\ maps' \in [MapId -> Spent]
  BY StoreIs
<1>2. cache'.at <= clock'
  BY <1>1 DEF Fresh, StoreHolds, TypeInv
<1>3. call' \in [Call -> Calls] /\ \A d \in Call : Fits(call[d])'
  <2>1. Judged(k, cache', map) \in Calls /\ Fits(Judged(k, cache', map))
    BY JudgedIs DEF StoreHolds, TypeInv
  <2> QED BY <1>1, <2>1, CallSteps
<1> QED BY <1>1, <1>2, <1>3 DEF TypeInv, DbUnchanged

LoadHolds(c, k, lim, platform) ==
  /\ k \in Calls /\ k.now <= clock /\ k.record = "none" /\ k.attempt = 0
  /\ call[c].map = None /\ lim \in Limits /\ platform \in Nat

Asks(c, k, lim, platform) ==
  /\ k.inst \in Instance /\ lim.instance > 0
  /\ \E w \in Calls :
       /\ call' = [call EXCEPT ![c] = w]
       /\ w.pc = "instance" /\ w.inst = k.inst /\ w.got = None /\ w.limits = lim /\ w.platform = platform
       /\ w.now = k.now /\ w.due = k.due /\ w.record = "none"
       /\ w.map = IF Fresh(k.now) THEN cache.map ELSE None
       /\ Fits(w)
  /\ UNCHANGED <<cache, maps>>

Knowing(k, lim, id, map) ==
  /\ IF Fresh(k.now) THEN id = cache.map /\ map = maps[cache.map] ELSE map = EmptyMap
  /\ lim.instance > 0 /\ k.inst # None => Fresh(k.now) /\ map[k.inst] # Missing

\* A check that has the platform's spend asks for the instance's or is through.
LEMMA LoadIs ==
  ASSUME TypeInv, NEW c \in Call, NEW k, NEW lim, NEW platform,
         LoadHolds(c, k, lim, platform), WithPlatform(c, k, lim, platform)
  PROVE  \/ Asks(c, k, lim, platform)
         \/ \E id \in MapId, map \in Spent :
              StoreHolds(c, k, lim, platform, id, map) /\ Store(c, k, lim, platform, id, map) /\ Knowing(k, lim, id, map)
<1> DEFINE shared == Fresh(k.now)
           known == IF shared THEN Knows(cache.map, k.inst) ELSE k.inst = None
<1>1. shared => cache \in Seen /\ cache.map \in MapId /\ maps[cache.map] \in Spent
  BY DEF Fresh, TypeInv, Seen
<1>2. CASE lim.instance > 0 /\ ~known
  <2> DEFINE w == [k EXCEPT !.pc = "instance", !.got = None, !.limits = lim,
                     !.platform = platform, !.map = IF shared THEN cache.map ELSE None]
  <2>1. call' = [call EXCEPT ![c] = w] /\ UNCHANGED <<cache, maps>>
    BY <1>2 DEF WithPlatform
  <2>2. k.inst \in Instance
    BY <1>2 DEF Knows, LoadHolds, Calls, Owner
  <2>3. (IF shared THEN cache.map ELSE None) \in MapId \cup {None}
    BY <1>1
  <2>4. w \in Calls
    <3> HIDE DEF shared
    <3> QED BY ZenonT(60), <2>3 DEF LoadHolds, Calls
  <2>5. /\ w.pc = "instance" /\ w.inst = k.inst /\ w.got = None /\ w.limits = lim /\ w.platform = platform
        /\ w.now = k.now /\ w.due = k.due /\ w.record = "none" /\ w.attempt = 0
        /\ w.map = IF shared THEN cache.map ELSE None
    <3> HIDE DEF shared
    <3> QED BY DEF LoadHolds, Calls
  <2> HIDE DEF w, shared
  <2>6. Fits(w)
    BY <2>2, <2>5, TriesIsPositive DEF Fits, LoadHolds, Awaits
  <2>7. Asks(c, k, lim, platform)
    BY <1>2, <2>1, <2>2, <2>4, <2>5, <2>6 DEF Asks, shared
  <2> QED BY <2>7
<1>3. CASE ~(lim.instance > 0 /\ ~known)
  <2>1. CASE shared
    <3>1. Store(c, k, lim, platform, cache.map, maps[cache.map])
      BY <1>3, <2>1 DEF WithPlatform
    <3>2. Knowing(k, lim, cache.map, maps[cache.map])
      BY <1>3, <2>1 DEF Knowing, Knows
    <3> QED BY <1>1, <2>1, <3>1, <3>2 DEF StoreHolds, LoadHolds
  <2>2. CASE ~shared
    <3>1. Store(c, k, lim, platform, UnusedMap, EmptyMap)
      BY <1>3, <2>2 DEF WithPlatform
    <3>2. Knowing(k, lim, UnusedMap, EmptyMap)
      BY <1>3, <2>2 DEF Knowing
    <3>3. UnusedMap \in MapId
      BY UnusedMapIs DEF LoadHolds
    <3>4. EmptyMap \in Spent
      BY DEF EmptyMap, Spent
    <3> QED BY <3>1, <3>2, <3>3, <3>4 DEF StoreHolds, LoadHolds
  <2> QED BY <2>1, <2>2
<1> QED BY <1>2, <1>3

LEMMA AsksTyped ==
  ASSUME TypeInv, NEW c \in Call, NEW k, NEW lim, NEW platform,
         Asks(c, k, lim, platform), UNCHANGED clock, DbUnchanged
  PROVE  TypeInv'
<1>1. PICK w \in Calls : call' = [call EXCEPT ![c] = w] /\ Fits(w)
  BY DEF Asks
<1>2. call' \in [Call -> Calls] /\ \A d \in Call : Fits(call[d])'
  BY <1>1, CallSteps
<1> QED BY <1>2 DEF TypeInv, Asks, DbUnchanged

\* The record of a check that has its settings, or needs none.
Resumed(c, k, lim, platform) ==
  \/ /\ call[c].pc = "check" /\ Fresh(clock)
     /\ k = [call[c] EXCEPT !.now = clock, !.due = FALSE] /\ lim = cache.limits /\ platform = cache.platform
  \/ /\ call[c].pc = "settings" /\ call[c].got # None
     /\ k = call[c] /\ lim = call[c].got /\ platform = IF cache = None THEN 0 ELSE cache.platform
     /\ lim.platform > 0 => Fresh(call[c].now)
  \/ /\ call[c].pc = "platform" /\ call[c].got # None
     /\ k = call[c] /\ lim = call[c].limits /\ platform = call[c].got

Resumes(c) ==
  \E k, lim, platform : Resumed(c, k, lim, platform) /\ WithPlatform(c, k, lim, platform)

LEMMA ResumedHolds ==
  ASSUME TypeInv, NEW c \in Call, NEW k, NEW lim, NEW platform, Resumed(c, k, lim, platform)
  PROVE  /\ LoadHolds(c, k, lim, platform)
         /\ k.inst = call[c].inst
         /\ IF call[c].pc = "check" THEN k.now = clock /\ k.due = FALSE ELSE k.now = call[c].now /\ k.due = call[c].due
<1>1. call[c] \in Calls /\ Fits(call[c])
  BY DEF TypeInv
<1>2. cache # None => cache \in Seen
  BY DEF TypeInv
<1>3. CASE call[c].pc = "check"
  <2>1. k = [call[c] EXCEPT !.now = clock, !.due = FALSE] /\ lim = cache.limits /\ platform = cache.platform
        /\ cache \in Seen
    BY <1>2, <1>3 DEF Resumed, Fresh
  <2>2. k \in Calls /\ k.now = clock /\ k.due = FALSE /\ k.inst = call[c].inst /\ k.record = call[c].record
        /\ k.attempt = call[c].attempt
    BY <1>1, <2>1 DEF Calls, TypeInv
  <2>3. lim \in Limits /\ platform \in Nat
    BY <2>1 DEF Seen
  <2> QED BY <1>1, <1>3, <2>2, <2>3 DEF LoadHolds, Fits, TypeInv
<1>4. CASE call[c].pc # "check"
  <2>1. k = call[c] /\ call[c].pc \in {"settings", "platform"}
    BY <1>4 DEF Resumed
  <2>2. lim \in Limits /\ platform \in Nat
    BY <1>1, <1>2, <1>4 DEF Resumed, Fits, Seen
  <2> QED BY <1>1, <1>4, <2>1, <2>2 DEF LoadHolds, Fits
<1> QED BY <1>3, <1>4

\* What the answer of the instance's spend brings to the cache.
Brings(c, id, map) ==
  /\ call[c].pc = "instance" /\ call[c].got # None
  /\ IF call[c].map = None THEN map = [EmptyMap EXCEPT ![call[c].inst] = call[c].got]
     ELSE id = call[c].map /\ map = [maps[id] EXCEPT ![call[c].inst] = call[c].got]
  /\ StoreHolds(c, call[c], call[c].limits, call[c].platform, id, map)
  /\ Store(c, call[c], call[c].limits, call[c].platform, id, map)

LEMMA InstanceLoadedIs ==
  ASSUME TypeInv, NEW c \in Call, InstanceLoaded(c)
  PROVE  \E id \in MapId, map \in Spent : Brings(c, id, map)
<1>1. call[c] \in Calls /\ Fits(call[c]) /\ call[c].pc = "instance" /\ call[c].got # None
  BY DEF TypeInv, InstanceLoaded
<1>2. call[c].got \in Nat /\ call[c].inst \in Instance /\ call[c].limits \in Limits /\ call[c].now <= clock
      /\ call[c].platform \in Nat
  BY <1>1 DEF Fits, Calls
<1>3. CASE call[c].map = None
  <2> DEFINE map == [EmptyMap EXCEPT ![call[c].inst] = call[c].got]
  <2>1. UnusedMap \in MapId
    BY <1>3, UnusedMapIs
  <2>2. map \in Spent
    BY <1>2 DEF EmptyMap, Spent
  <2>3. Store(c, call[c], call[c].limits, call[c].platform, UnusedMap, map)
    BY <1>3 DEF InstanceLoaded
  <2> HIDE DEF map
  <2>4. StoreHolds(c, call[c], call[c].limits, call[c].platform, UnusedMap, map)
    BY <1>1, <1>2, <2>1, <2>2 DEF StoreHolds
  <2> QED BY <1>1, <1>3, <2>1, <2>2, <2>3, <2>4 DEF Brings, map
<1>4. CASE call[c].map # None
  <2> DEFINE id == call[c].map
             map == [maps[id] EXCEPT ![call[c].inst] = call[c].got]
  <2>1. id \in MapId
    BY <1>1, <1>4 DEF Calls
  <2>2. map \in Spent
    BY <1>2, <2>1 DEF TypeInv, Spent
  <2>3. Store(c, call[c], call[c].limits, call[c].platform, id, map)
    BY <1>4 DEF InstanceLoaded
  <2> HIDE DEF map
  <2>4. StoreHolds(c, call[c], call[c].limits, call[c].platform, id, map)
    BY <1>1, <1>2, <2>1, <2>2 DEF StoreHolds
  <2> QED BY <1>1, <1>4, <2>1, <2>2, <2>3, <2>4 DEF Brings, map
<1> QED BY <1>3, <1>4

\* The steps of a check that end with its record for the next step.
Loads(c) == CheckLoadsInstance(c) \/ SettingsLoaded(c) \/ PlatformLoaded(c)

AsksPlatform(c) ==
  /\ call[c].pc = "settings" /\ call[c].got # None /\ call[c].got.platform > 0
  /\ call' = [call EXCEPT ![c] = [@ EXCEPT !.pc = "platform", !.got = None, !.limits = call[c].got]]
  /\ UNCHANGED <<cache, maps>>

LEMMA LoadsAre ==
  ASSUME NEW c \in Call, Loads(c)
  PROVE  (AsksPlatform(c) \/ Resumes(c)) /\ UNCHANGED clock /\ DbUnchanged
<1>1. CASE CheckLoadsInstance(c)
  BY <1>1 DEF CheckLoadsInstance, Resumes, Resumed
<1>2. CASE SettingsLoaded(c)
  <2>1. CASE call[c].got.platform > 0 /\ ~Fresh(call[c].now)
    BY <1>2, <2>1 DEF SettingsLoaded, AsksPlatform
  <2>2. CASE ~(call[c].got.platform > 0 /\ ~Fresh(call[c].now))
    BY <1>2, <2>2 DEF SettingsLoaded, Resumes, Resumed
  <2> QED BY <1>2, <2>1, <2>2 DEF SettingsLoaded
<1>3. CASE PlatformLoaded(c)
  BY <1>3 DEF PlatformLoaded, Resumes, Resumed
<1> QED BY <1>1, <1>2, <1>3 DEF Loads

-----------------------------------------------------------------------------
(* Every reachable state is well typed.                                    *)

LEMMA InitTyped == Init => TypeInv
<1> SUFFICES ASSUME Init PROVE TypeInv
  OBVIOUS
<1> USE DEF Init
<1>1. limit \in Limits
  BY BudgetAssumption DEF Limits
<1>2. recorded \in [Owner -> Nat] /\ billed \in [Owner -> Nat] /\ clock \in 0 .. MaxClock
  BY BudgetAssumption
<1>3. maps \in [MapId -> Spent]
  BY DEF EmptyMap, Spent
<1>4. call \in [Call -> Calls]
  BY NewCallIs
<1>5. Fits(NewCall)
  BY TriesIsPositive, BudgetAssumption DEF NewCall, Fits
<1>6. \A c \in Call : call[c] = NewCall
  OBVIOUS
<1> QED BY <1>1, <1>2, <1>3, <1>4, <1>5, <1>6 DEF TypeInv

\* Request, the answers of the database, the provider and the recording change
\* one call.
LEMMA RequestIs ==
  ASSUME TypeInv, NEW c \in Call, Request(c)
  PROVE  /\ call[c].pc = "idle"
         /\ \E k \in Calls : /\ call' = [call EXCEPT ![c] = k] /\ Fits(k)
                             /\ k.pc = "check" /\ k.record = "none" /\ k.due = call[c].due
<1>1. PICK i \in Owner, m \in {"only", "primary"} :
        call' = [call EXCEPT ![c] = [call[c] EXCEPT !.pc = "check", !.inst = i, !.model = m]]
  BY DEF Request
<1> DEFINE k == [call[c] EXCEPT !.pc = "check", !.inst = i, !.model = m]
<1>2. call[c] \in Calls /\ Fits(call[c]) /\ call[c].pc = "idle"
  BY DEF TypeInv, Request
<1>3. k \in Calls
  BY <1>2 DEF Calls
<1>4. k.pc = "check" /\ k.record = call[c].record /\ k.due = call[c].due /\ k.now = call[c].now
      /\ k.attempt = call[c].attempt /\ k.map = call[c].map /\ k.got = call[c].got
  BY <1>2 DEF Calls
<1> HIDE DEF k
<1>5. Fits(k) /\ k.record = "none"
  BY <1>2, <1>4, TriesIsPositive DEF Fits, Calls, Awaits
<1> QED BY <1>1, <1>2, <1>3, <1>4, <1>5 DEF k

LEMMA CheckHitsIs ==
  ASSUME TypeInv, NEW c \in Call, CheckHits(c)
  PROVE  /\ call[c].pc = "check"
         /\ \E k \in Calls : /\ call' = [call EXCEPT ![c] = k] /\ Fits(k)
                             /\ k.pc \in {"over", "send"} /\ k.record = "none" /\ ~k.due
<1> DEFINE old == [call[c] EXCEPT !.due = FALSE]
           k == Judged(old, cache, maps[cache.map])
<1>1. call' = [call EXCEPT ![c] = k] /\ call[c].pc = "check"
  BY DEF CheckHits
<1>2. old \in Calls /\ old.due = FALSE
  BY ZenonT(60) DEF TypeInv, Calls
<1> HIDE DEF old
<1>3. k \in Calls /\ Fits(k) /\ k.pc \in {"over", "send"} /\ k.record = "none" /\ ~k.due
  BY <1>2, JudgedIs DEF TypeInv
<1> QED BY <1>1, <1>3

LEMMA CheckLoadsIs ==
  ASSUME TypeInv, NEW c \in Call, CheckLoads(c)
  PROVE  /\ call[c].pc = "check" /\ ~Fresh(clock)
         /\ \E k \in Calls : /\ call' = [call EXCEPT ![c] = k] /\ Fits(k)
                             /\ k.pc = "settings" /\ k.record = "none" /\ k.got = None
                             /\ k.now = clock /\ k.inst = call[c].inst
                             /\ k.due => OverLimit(k.inst) /\ \A d \in Call : ~Loading(d)
<1> DEFINE due == OverLimit(call[c].inst) /\ \A d \in Call : ~Loading(d)
           k == [call[c] EXCEPT !.pc = "settings", !.now = clock, !.due = due]
<1>1. call' = [call EXCEPT ![c] = k] /\ call[c].pc = "check" /\ ~Fresh(clock)
  BY DEF CheckLoads
<1>2. call[c] \in Calls /\ Fits(call[c]) /\ clock \in 0 .. MaxClock
  BY DEF TypeInv
<1>3. due \in BOOLEAN
  OBVIOUS
<1> HIDE DEF due
<1>4. k \in Calls /\ k.pc = "settings" /\ k.record = call[c].record /\ k.got = call[c].got /\ k.now = clock
      /\ k.inst = call[c].inst /\ k.due = due /\ k.attempt = call[c].attempt /\ k.map = call[c].map
      /\ k.model = call[c].model
  BY <1>2, <1>3 DEF Calls
<1> HIDE DEF k
<1>5. k.record = "none" /\ k.attempt = 0 /\ k.map = None /\ k.got = None
  BY <1>1, <1>2, <1>4 DEF Fits, Awaits
<1>6. Fits(k)
  BY <1>2, <1>4, <1>5, TriesIsPositive DEF Fits
<1> QED BY <1>1, <1>4, <1>5, <1>6 DEF due

LEMMA AnswersIs ==
  ASSUME TypeInv, NEW c \in Call, Answers(c)
  PROVE  /\ Loading(c) /\ call[c].got = None
         /\ \E k \in Calls : /\ call' = [call EXCEPT ![c] = k] /\ Fits(k)
                             /\ k.pc = call[c].pc /\ k.record = "none" /\ k.now = call[c].now /\ k.due = call[c].due
                             /\ k.inst = call[c].inst /\ k.limits = call[c].limits /\ k.map = call[c].map
                             /\ k.platform = call[c].platform
                             /\ k.pc = "settings" => k.got = limit
                             /\ k.pc = "platform" => k.got = Total(recorded)
                             /\ k.pc = "instance" => k.got = recorded[k.inst]
<1> DEFINE got == CASE call[c].pc = "settings" -> limit
                    [] call[c].pc = "platform" -> Total(recorded)
                    [] call[c].pc = "instance" -> recorded[call[c].inst]
           k == [call[c] EXCEPT !.got = got]
<1>1. call' = [call EXCEPT ![c] = k] /\ Loading(c) /\ call[c].got = None
  BY DEF Answers
<1>2. call[c] \in Calls /\ Fits(call[c]) /\ call[c].pc \in Awaits
  BY <1>1 DEF TypeInv, Loading
<1>3. /\ call[c].pc = "settings" => got = limit
      /\ call[c].pc = "platform" => got = Total(recorded)
      /\ call[c].pc = "instance" => got = recorded[call[c].inst]
  OBVIOUS
<1>4. limit \in Limits /\ Total(recorded) \in Nat /\ recorded[call[c].inst] \in Nat
  <2>1. recorded \in [Owner -> Nat] /\ call[c].inst \in Owner
    BY <1>2 DEF TypeInv, Calls
  <2> QED BY <2>1, TotalIsSum, SumIsNat DEF TypeInv
<1>5. got \in Limits \cup Nat \cup {None}
  <2> HIDE DEF got
  <2> QED BY <1>2, <1>3, <1>4 DEF Awaits
<1> HIDE DEF got
<1>6. /\ k \in Calls
      /\ k.pc = call[c].pc /\ k.record = call[c].record /\ k.now = call[c].now /\ k.due = call[c].due
      /\ k.inst = call[c].inst /\ k.limits = call[c].limits /\ k.map = call[c].map /\ k.got = got
      /\ k.platform = call[c].platform /\ k.attempt = call[c].attempt /\ k.model = call[c].model
  BY <1>2, <1>5 DEF Calls
<1> HIDE DEF k
<1>7. Fits(k) /\ k.record = "none"
  BY <1>2, <1>3, <1>4, <1>6 DEF Fits, Awaits
<1> QED BY <1>1, <1>3, <1>6, <1>7

LEMMA CheckFailsIs ==
  ASSUME TypeInv, NEW c \in Call, CheckFails(c)
  PROVE  /\ Loading(c)
         /\ \E k \in Calls : /\ call' = [call EXCEPT ![c] = k] /\ Fits(k)
                             /\ k.pc = "send" /\ k.record = "none" /\ ~k.due
<1> DEFINE old == [call[c] EXCEPT !.due = FALSE]
<1>1. call' = [call EXCEPT ![c] = Sent(old)] /\ Loading(c)
  BY DEF CheckFails
<1>2. old \in Calls /\ old.due = FALSE
  BY ZenonT(60) DEF TypeInv, Calls
<1> HIDE DEF old
<1>3. Sent(old) \in Calls /\ Fits(Sent(old)) /\ Sent(old).pc = "send" /\ Sent(old).record = "none" /\ ~Sent(old).due
  BY <1>2, SentIs DEF TypeInv
<1> QED BY <1>1, <1>3

LEMMA AsksPlatformIs ==
  ASSUME TypeInv, NEW c \in Call, AsksPlatform(c)
  PROVE  /\ call[c].pc = "settings" /\ call[c].got # None
         /\ \E k \in Calls : /\ call' = [call EXCEPT ![c] = k] /\ Fits(k)
                             /\ k.pc = "platform" /\ k.record = "none" /\ k.got = None /\ k.limits = call[c].got
                             /\ k.now = call[c].now /\ k.due = call[c].due /\ k.inst = call[c].inst
<1> DEFINE k == [call[c] EXCEPT !.pc = "platform", !.got = None, !.limits = call[c].got]
<1>1. call' = [call EXCEPT ![c] = k] /\ call[c].pc = "settings" /\ call[c].got # None
  BY DEF AsksPlatform
<1>2. call[c] \in Calls /\ Fits(call[c])
  BY DEF TypeInv
<1>3. call[c].got \in Limits
  BY <1>1, <1>2 DEF Fits
<1>4. /\ k \in Calls
      /\ k.pc = "platform" /\ k.record = call[c].record /\ k.got = None /\ k.limits = call[c].got
      /\ k.now = call[c].now /\ k.due = call[c].due /\ k.inst = call[c].inst
      /\ k.map = call[c].map /\ k.attempt = call[c].attempt /\ k.model = call[c].model
  BY <1>2, <1>3 DEF Calls
<1> HIDE DEF k
<1>5. Fits(k) /\ k.record = "none"
  BY <1>1, <1>2, <1>3, <1>4 DEF Fits
<1> QED BY <1>1, <1>4, <1>5

\* The provider's answer ends the call, its failure may try it again or hand it
\* to the backup.
LEMMA ProviderIs ==
  ASSUME TypeInv, NEW c \in Call, ProviderAnswers(c) \/ ProviderFails(c) \/ CallThrows(c)
  PROVE  /\ call[c].pc = "send" /\ call[c].record = "none" /\ call[c].inst \in Owner
         /\ \E k \in Calls : /\ call' = [call EXCEPT ![c] = k] /\ Fits(k)
                             /\ k.pc \in {"over", "send", "check"} /\ (k.due => call[c].due)
                             /\ k.record = "none" \/ (k.record = "noting" /\ k.inst = call[c].inst)
                             /\ billed' = IF k.record = "noting" THEN [billed EXCEPT ![k.inst] = @ + 1] ELSE billed
<1>1. call[c] \in Calls /\ Fits(call[c]) /\ call[c].pc = "send"
  BY DEF TypeInv, ProviderAnswers, ProviderFails, CallThrows
<1>2. call[c].record = "none" /\ call[c].inst \in Owner
  BY <1>1 DEF Fits, Calls
<1>3. CASE ProviderAnswers(c)
  <2>1. PICK priced \in BOOLEAN :
          /\ call' = [call EXCEPT ![c] = Finished(call[c], IF priced THEN "noting" ELSE "none")]
          /\ billed' = IF priced THEN [billed EXCEPT ![call[c].inst] = @ + 1] ELSE billed
    BY <1>3 DEF ProviderAnswers
  <2> DEFINE r == IF priced THEN "noting" ELSE "none"
             k == Finished(call[c], r)
  <2>2. r \in {"none", "noting", "inserting"}
    OBVIOUS
  <2>3. k \in Calls /\ Fits(k) /\ k.pc = "over" /\ k.record = r /\ k.due = FALSE /\ (r # "none" => k.inst = call[c].inst)
    <3> HIDE DEF r
    <3> QED BY <1>1, <2>2, FinishedIs DEF TypeInv
  <2>4. call' = [call EXCEPT ![c] = k]
    BY <2>1
  <2> HIDE DEF k
  <2> QED BY <1>1, <1>2, <2>1, <2>3, <2>4
<1>4. CASE CallThrows(c)
  <2> DEFINE k == Finished(call[c], "none")
  <2>1. k \in Calls /\ Fits(k) /\ k.pc = "over" /\ k.record = "none" /\ k.due = FALSE
    BY <1>1, FinishedIs DEF TypeInv
  <2>2. call' = [call EXCEPT ![c] = k] /\ billed' = billed
    BY <1>4 DEF CallThrows, DbUnchanged
  <2> HIDE DEF k
  <2> QED BY <1>1, <1>2, <2>1, <2>2
<1>5. CASE ProviderFails(c)
  <2>1. PICK retryable \in BOOLEAN :
          call' = [call EXCEPT ![c] =
            IF retryable /\ ~LastAttempt(call[c]) THEN [call[c] EXCEPT !.attempt = @ + 1]
            ELSE IF call[c].model = "primary"
                   THEN [NewCall EXCEPT !.pc = "check", !.inst = call[c].inst, !.model = "backup"]
            ELSE Finished(call[c], "none")]
    BY <1>5 DEF ProviderFails
  <2>0. billed' = billed
    BY <1>5 DEF ProviderFails, DbUnchanged
  <2>2. CASE retryable /\ ~LastAttempt(call[c])
    <3> DEFINE k == [call[c] EXCEPT !.attempt = @ + 1]
    <3>1. call' = [call EXCEPT ![c] = k]
      BY <2>1, <2>2
    <3>2. /\ k \in Calls /\ k.attempt = call[c].attempt + 1 /\ k.pc = "send" /\ k.record = "none" /\ k.due = call[c].due
          /\ k.now = call[c].now /\ k.map = call[c].map /\ k.got = call[c].got /\ k.model = call[c].model
      BY <1>1, <1>2 DEF Calls
    <3> HIDE DEF k
    <3>3. call[c].attempt \in Nat /\ Tries(call[c].model) \in Nat
      BY <1>1, TriesIsPositive DEF Calls
    <3>4. k.attempt < Tries(k.model)
      BY <2>2, <3>2, <3>3 DEF LastAttempt
    <3>5. Fits(k)
      BY <1>1, <3>2, <3>4 DEF Fits, Awaits
    <3> QED BY <1>1, <1>2, <2>0, <3>1, <3>2, <3>5
  <2>3. CASE ~(retryable /\ ~LastAttempt(call[c])) /\ call[c].model = "primary"
    <3> DEFINE k == [NewCall EXCEPT !.pc = "check", !.inst = call[c].inst, !.model = "backup"]
    <3>1. call' = [call EXCEPT ![c] = k]
      BY <2>1, <2>3
    <3>2. k \in Calls
      BY <1>2, NewCallIs DEF Calls
    <3>3. k.pc = "check" /\ k.record = "none" /\ k.due = FALSE /\ k.now = 0 /\ k.attempt = 0 /\ k.map = None /\ k.got = None
      BY DEF NewCall
    <3> HIDE DEF k
    <3>4. Fits(k)
      BY <3>3, TriesIsPositive DEF Fits, TypeInv
    <3> QED BY <1>1, <1>2, <2>0, <3>1, <3>2, <3>3, <3>4
  <2>4. CASE ~(retryable /\ ~LastAttempt(call[c])) /\ call[c].model # "primary"
    <3> DEFINE k == Finished(call[c], "none")
    <3>1. call' = [call EXCEPT ![c] = k]
      BY <2>1, <2>4
    <3>2. k \in Calls /\ Fits(k) /\ k.pc = "over" /\ k.record = "none" /\ k.due = FALSE
      BY <1>1, FinishedIs DEF TypeInv
    <3> HIDE DEF k
    <3> QED BY <1>1, <1>2, <2>0, <3>1, <3>2
  <2> QED BY <2>2, <2>3, <2>4
<1> QED BY <1>3, <1>4, <1>5

\* Recording: the note, the row, and either of them failing.
LEMMA NoteSpendIs ==
  ASSUME TypeInv, NEW c \in Call, NoteSpend(c)
  PROVE  /\ call[c].record = "noting" /\ call[c].inst \in Owner
         /\ \E k \in Calls : /\ call' = [call EXCEPT ![c] = k] /\ Fits(k)
                             /\ k.pc = call[c].pc /\ k.record = "inserting" /\ k.inst = call[c].inst /\ k.due = call[c].due
         /\ IF cache = None THEN cache' = None
            ELSE cache' \in Seen /\ cache' = [cache EXCEPT !.platform = @ + 1]
         /\ \/ maps' = maps
            \/ /\ cache # None /\ call[c].inst \in Instance /\ maps[cache.map][call[c].inst] # Missing
               /\ maps' = [maps EXCEPT ![cache.map][call[c].inst] = @ + 1]
<1> DEFINE k == [call[c] EXCEPT !.record = "inserting"]
<1>1. call' = [call EXCEPT ![c] = k] /\ call[c].record = "noting"
  BY DEF NoteSpend
<1>2. call[c] \in Calls /\ Fits(call[c])
  BY DEF TypeInv
<1>3. /\ k \in Calls /\ k.pc = call[c].pc /\ k.record = "inserting" /\ k.inst = call[c].inst /\ k.due = call[c].due
      /\ k.now = call[c].now /\ k.map = call[c].map /\ k.got = call[c].got /\ k.model = call[c].model
      /\ k.attempt = call[c].attempt /\ k.limits = call[c].limits
  BY <1>2 DEF Calls
<1> HIDE DEF k
<1>4. Fits(k)
  BY <1>1, <1>2, <1>3 DEF Fits
<1>5. IF cache = None THEN cache' = None ELSE cache' \in Seen /\ cache' = [cache EXCEPT !.platform = @ + 1]
  BY DEF NoteSpend, TypeInv, Seen
<1>6. \/ maps' = maps
      \/ /\ cache # None /\ call[c].inst \in Instance /\ maps[cache.map][call[c].inst] # Missing
         /\ maps' = [maps EXCEPT ![cache.map][call[c].inst] = @ + 1]
  BY <1>2 DEF NoteSpend, Knows, Calls, Owner
<1> QED BY <1>1, <1>2, <1>3, <1>4, <1>5, <1>6 DEF Calls

LEMMA RecordEndsIs ==
  ASSUME TypeInv, NEW c \in Call, InsertRow(c) \/ RecordFails(c)
  PROVE  /\ call[c].record \in Unrecorded /\ call[c].inst \in Owner /\ call[c].pc = "over"
         /\ \E k \in Calls : call' = [call EXCEPT ![c] = k] /\ Fits(k) /\ k.pc = "over" /\ k.record = "none" /\ ~k.due
<1> DEFINE k == Finished(call[c], "none")
<1>1. call[c] \in Calls /\ Fits(call[c]) /\ call[c].record # "none" /\ call' = [call EXCEPT ![c] = k]
  BY DEF TypeInv, InsertRow, RecordFails
<1>2. k \in Calls /\ Fits(k) /\ k.pc = "over" /\ k.record = "none" /\ k.due = FALSE
  BY <1>1, FinishedIs DEF TypeInv
<1> HIDE DEF k
<1> QED BY <1>1, <1>2 DEF Calls, Fits, Unrecorded

\* The ceilings are changed, or the process dies: the calls change alike.
LEMMA SaveIs ==
  ASSUME TypeInv, NEW new \in Limits, SaveBegins(new) \/ SaveEnds
  PROVE  /\ call' \in [Call -> Calls] /\ UNCHANGED <<recorded, billed, clock>> /\ limit' \in Limits
         /\ \A c \in Call :
              /\ Fits(call[c])' /\ ~call'[c].due
              /\ call'[c].pc = call[c].pc /\ call'[c].record = call[c].record /\ call'[c].inst = call[c].inst
              /\ call'[c].got = call[c].got /\ call'[c].platform = call[c].platform
         /\ cache' \in {cache, None} /\ maps' \in [MapId -> Spent] /\ admin' \in Limits \cup {None}
         /\ \A m \in MapId : maps'[m] \in {maps[m], EmptyMap}
<1>1. call' = [d \in Call |-> [call[d] EXCEPT !.due = FALSE]]
  BY DEF SaveBegins, SaveEnds
<1>2. ASSUME NEW c \in Call
      PROVE  /\ call'[c] \in Calls /\ Fits(call[c])' /\ ~call'[c].due
             /\ call'[c].pc = call[c].pc /\ call'[c].record = call[c].record /\ call'[c].inst = call[c].inst
             /\ call'[c].got = call[c].got /\ call'[c].platform = call[c].platform
  <2>1. call[c] \in Calls /\ Fits(call[c]) /\ call'[c] = [call[c] EXCEPT !.due = FALSE]
    BY <1>1 DEF TypeInv
  <2> DEFINE k == [call[c] EXCEPT !.due = FALSE]
  <2>2. /\ k \in Calls /\ ~k.due
        /\ k.pc = call[c].pc /\ k.record = call[c].record /\ k.inst = call[c].inst
        /\ k.got = call[c].got /\ k.platform = call[c].platform /\ k.now = call[c].now
        /\ k.attempt = call[c].attempt /\ k.map = call[c].map /\ k.model = call[c].model
        /\ k.limits = call[c].limits
    BY <2>1 DEF Calls
  <2>3. call'[c] = k
    BY <2>1
  <2> HIDE DEF k
  <2>4. clock' = clock
    BY DEF SaveBegins, SaveEnds
  <2>5. Fits(k)
    BY <2>1, <2>2 DEF Fits
  <2>6. Fits(call'[c])
    BY <2>3, <2>5
  <2>7. Fits(call[c])'
    BY <2>4, <2>6 DEF Fits
  <2> QED BY <2>2, <2>3, <2>7
<1>3. cache' \in {cache, None} /\ UNCHANGED <<recorded, billed, clock>>
  BY DEF SaveBegins, SaveEnds
<1>4. limit' \in Limits /\ admin' \in Limits \cup {None}
  <2>1. CASE SaveBegins(new)
    BY <2>1 DEF SaveBegins, TypeInv, Limits
  <2>2. CASE SaveEnds
    BY <2>2 DEF SaveEnds, TypeInv
  <2> QED BY <2>1, <2>2
<1>5. maps' \in [MapId -> Spent] /\ \A m \in MapId : maps'[m] \in {maps[m], EmptyMap}
  <2>1. EmptyMap \in Spent
    BY DEF EmptyMap, Spent
  <2>2. CASE SaveBegins(new)
    BY <2>2 DEF SaveBegins, TypeInv
  <2>3. CASE SaveEnds
    <3> DEFINE used == {m \in MapId : (cache' # None /\ m = cache.map) \/ \E d \in Call : m = call[d].map}
    <3>1. maps' = [m \in MapId |-> IF m \in used THEN maps[m] ELSE EmptyMap]
      BY <2>3 DEF SaveEnds
    <3> HIDE DEF used
    <3> QED BY <2>1, <3>1 DEF TypeInv
  <2> QED BY <2>2, <2>3
<1>6. call' \in [Call -> Calls]
  <2>1. \A c \in Call : call'[c] \in Calls
    BY <1>2
  <2> HIDE <1>2
  <2> QED BY <1>1, <2>1
<1> QED BY <1>2, <1>3, <1>4, <1>5, <1>6

LEMMA RestartIs ==
  ASSUME TypeInv, Restart
  PROVE  /\ call' \in [Call -> Calls] /\ UNCHANGED <<recorded, billed, clock, limit, admin>>
         /\ \A c \in Call :
              /\ Fits(call[c])' /\ call'[c].pc \in {"idle", "over"} /\ call'[c].record = "none"
              /\ call'[c].due => call'[c] = call[c]
         /\ cache' = None /\ maps' \in [MapId -> Spent] /\ \A m \in MapId : maps'[m] = EmptyMap
<1>1. call' = [c \in Call |-> IF call[c].pc = "idle" THEN call[c] ELSE Finished(call[c], "none")]
  BY DEF Restart
<1>2. clock' = clock /\ clock \in 0 .. MaxClock
  BY DEF Restart, DbUnchanged, TypeInv
<1>3. ASSUME NEW c \in Call
      PROVE  /\ call'[c] \in Calls /\ Fits(call[c])' /\ call'[c].pc \in {"idle", "over"} /\ call'[c].record = "none"
             /\ call'[c].due => call'[c] = call[c]
  <2>1. call[c] \in Calls /\ Fits(call[c])
    BY DEF TypeInv
  <2>2. CASE call[c].pc = "idle"
    <3>1. call'[c] = call[c]
      BY <1>1, <2>2
    <3>2. Fits(call[c])'
      BY <1>2, <2>1, <3>1 DEF Fits
    <3> QED BY <2>1, <2>2, <3>1, <3>2 DEF Fits, Calls
  <2>3. CASE call[c].pc # "idle"
    <3>1. call'[c] = Finished(call[c], "none")
      BY <1>1, <2>3
    <3> DEFINE k == Finished(call[c], "none")
    <3>2. k \in Calls /\ Fits(k) /\ k.pc = "over" /\ k.record = "none" /\ k.due = FALSE
      BY <1>2, <2>1, FinishedIs
    <3> HIDE DEF k
    <3>3. call'[c] = k
      BY <3>1 DEF k
    <3>4. Fits(call'[c])
      BY <3>2, <3>3
    <3>5. Fits(call[c])'
      BY <1>2, <3>4 DEF Fits
    <3> QED BY <3>2, <3>3, <3>5
  <2> QED BY <2>2, <2>3
<1>4. EmptyMap \in Spent
  BY DEF EmptyMap, Spent
<1>5. maps' = [m \in MapId |-> EmptyMap] /\ cache' = None /\ UNCHANGED <<recorded, billed, limit, admin>>
  BY DEF Restart
<1>6. call' \in [Call -> Calls]
  <2>1. \A c \in Call : call'[c] \in Calls
    BY <1>3
  <2> QED BY <1>1, <2>1
<1> QED BY <1>2, <1>3, <1>4, <1>5, <1>6

LEMMA OneCallTyped ==
  ASSUME TypeInv, NEW c \in Call, NEW k \in Calls, call' = [call EXCEPT ![c] = k], Fits(k), clock' = clock,
         UNCHANGED <<limit, admin>>, recorded' \in [Owner -> Nat], billed' \in [Owner -> Nat],
         cache' \in Seen \cup {None}, cache' # None => cache'.at <= clock, maps' \in [MapId -> Spent]
  PROVE  TypeInv'
<1>1. call' \in [Call -> Calls] /\ \A d \in Call : Fits(call[d])'
  BY CallSteps
<1> QED BY <1>1 DEF TypeInv

\* The steps of a call that leave the cache alone.
Around(c) ==
  \/ Request(c) \/ CheckHits(c) \/ CheckLoads(c) \/ Answers(c) \/ AsksPlatform(c) \/ CheckFails(c)

LEMMA AroundIs ==
  ASSUME TypeInv, NEW c \in Call, Around(c)
  PROVE  /\ UNCHANGED <<cache, maps>>
         /\ call[c].record = "none"
         /\ \E k \in Calls : call' = [call EXCEPT ![c] = k] /\ Fits(k) /\ k.record = "none"
<1>1. Fits(call[c])
  BY DEF TypeInv
<1>2. UNCHANGED <<cache, maps>>
  BY DEF Around, Request, CheckHits, CheckLoads, Answers, AsksPlatform, CheckFails
<1>3. call[c].pc \in {"idle", "check", "settings", "platform", "instance"}
  BY RequestIs, CheckHitsIs, CheckLoadsIs, AnswersIs, AsksPlatformIs, CheckFailsIs DEF Around,
       Loading, Awaits
<1>4. \E k \in Calls : call' = [call EXCEPT ![c] = k] /\ Fits(k) /\ k.record = "none"
  BY RequestIs, CheckHitsIs, CheckLoadsIs, AnswersIs, AsksPlatformIs, CheckFailsIs DEF Around
<1> QED BY <1>1, <1>2, <1>3, <1>4 DEF Fits

LEMMA RowsGrow ==
  ASSUME NEW rows \in [Owner -> Nat], NEW o \in Owner
  PROVE  [rows EXCEPT ![o] = @ + 1] \in [Owner -> Nat]
OBVIOUS

LEMMA NextTyped == TypeInv /\ Next => TypeInv'
<1> SUFFICES ASSUME TypeInv, Next PROVE TypeInv'
  OBVIOUS
<1>0. /\ recorded \in [Owner -> Nat] /\ billed \in [Owner -> Nat] /\ cache \in Seen \cup {None}
      /\ cache # None => cache.at <= clock
      /\ maps \in [MapId -> Spent]
  BY DEF TypeInv
<1>1. ASSUME NEW c \in Call, Around(c), UNCHANGED clock, DbUnchanged PROVE TypeInv'
  <2>1. PICK k \in Calls : call' = [call EXCEPT ![c] = k] /\ Fits(k)
    BY <1>1, AroundIs
  <2>2. UNCHANGED <<cache, maps, limit, admin, recorded, billed>>
    BY <1>1, AroundIs DEF DbUnchanged
  <2> QED BY <1>0, <1>1, <2>1, <2>2, OneCallTyped
<1>2. ASSUME NEW c \in Call, Resumes(c), UNCHANGED clock, DbUnchanged PROVE TypeInv'
  <2>1. PICK k, lim, platform : Resumed(c, k, lim, platform) /\ WithPlatform(c, k, lim, platform)
    BY <1>2 DEF Resumes
  <2>2. LoadHolds(c, k, lim, platform)
    BY <2>1, ResumedHolds
  <2> QED BY <1>2, <2>1, <2>2, LoadIs, AsksTyped, StoreTyped
<1>3. ASSUME NEW c \in Call, Loads(c) PROVE TypeInv'
  BY <1>1, <1>2, <1>3, LoadsAre DEF Around
<1>4. ASSUME NEW c \in Call, InstanceLoaded(c) PROVE TypeInv'
  <2>1. UNCHANGED clock /\ DbUnchanged
    BY <1>4 DEF InstanceLoaded
  <2>2. PICK id \in MapId, map \in Spent : Brings(c, id, map)
    BY <1>4, InstanceLoadedIs
  <2> QED BY <2>1, <2>2, StoreTyped DEF Brings
<1>5. ASSUME NEW c \in Call, ProviderAnswers(c) \/ ProviderFails(c) \/ CallThrows(c) PROVE TypeInv'
  <2>1. PICK k \in Calls : /\ call' = [call EXCEPT ![c] = k] /\ Fits(k)
                           /\ k.record = "none" \/ (k.record = "noting" /\ k.inst = call[c].inst)
                           /\ billed' = IF k.record = "noting" THEN [billed EXCEPT ![k.inst] = @ + 1] ELSE billed
    BY <1>5, ProviderIs
  <2>2. UNCHANGED <<limit, admin, recorded, cache, maps, clock>>
    BY <1>5 DEF ProviderAnswers, ProviderFails, CallThrows, DbUnchanged
  <2>3. billed' \in [Owner -> Nat]
    <3>1. billed' = billed \/ (k.inst \in Owner /\ billed' = [billed EXCEPT ![k.inst] = @ + 1])
      BY <1>5, <2>1, ProviderIs
    <3> QED BY <1>0, <3>1, RowsGrow
  <2> QED BY <1>0, <2>1, <2>2, <2>3, OneCallTyped
<1>6. ASSUME NEW c \in Call, NoteSpend(c) PROVE TypeInv'
  <2>1. PICK k \in Calls : call' = [call EXCEPT ![c] = k] /\ Fits(k)
    BY <1>6, NoteSpendIs
  <2>2. UNCHANGED <<limit, admin, recorded, billed, clock>>
    BY <1>6 DEF NoteSpend, DbUnchanged
  <2>3. cache' \in Seen \cup {None} /\ (cache' # None => cache'.at <= clock)
    <3>1. IF cache = None THEN cache' = None ELSE cache' \in Seen /\ cache' = [cache EXCEPT !.platform = @ + 1]
      BY <1>6, NoteSpendIs
    <3>2. cache # None => cache'.at = cache.at
      BY <1>0, <3>1 DEF Seen
    <3> QED BY <1>0, <3>1, <3>2
  <2>4. maps' \in [MapId -> Spent]
    <3>1. \/ maps' = maps
          \/ /\ cache # None /\ call[c].inst \in Instance /\ maps[cache.map][call[c].inst] # Missing
             /\ maps' = [maps EXCEPT ![cache.map][call[c].inst] = @ + 1]
      BY <1>6, NoteSpendIs
    <3>2. cache # None => cache.map \in MapId
      BY <1>0 DEF Seen
    <3> QED BY <1>0, <3>1, <3>2 DEF Spent, Missing
  <2> QED BY <1>0, <2>1, <2>2, <2>3, <2>4, OneCallTyped
<1>7. ASSUME NEW c \in Call, InsertRow(c) \/ RecordFails(c) PROVE TypeInv'
  <2>1. PICK k \in Calls : call' = [call EXCEPT ![c] = k] /\ Fits(k)
    BY <1>7, RecordEndsIs
  <2>2. UNCHANGED <<limit, admin, billed, cache, maps, clock>>
    BY <1>7 DEF InsertRow, RecordFails, DbUnchanged
  <2>3. recorded' \in [Owner -> Nat]
    BY <1>0, <1>7 DEF InsertRow, RecordFails, DbUnchanged
  <2> QED BY <1>0, <2>1, <2>2, <2>3, OneCallTyped
<1>8. CASE MinutePasses
  <2>1. \A d \in Call : Fits(call[d])'
    BY <1>8 DEF MinutePasses, TypeInv, Calls, Fits
  <2>2. clock' \in 0 .. MaxClock /\ (cache' # None => cache'.at <= clock')
    BY <1>0, <1>8, BudgetAssumption DEF MinutePasses, TypeInv, Seen
  <2> QED BY <1>8, <2>1, <2>2 DEF MinutePasses, DbUnchanged, TypeInv
<1>9. ASSUME NEW i \in Instance, SpendsElsewhere(i) PROVE TypeInv'
  <2>1. \A d \in Call : Fits(call[d])'
    BY <1>9 DEF SpendsElsewhere, TypeInv, Fits
  <2>2. recorded' \in [Owner -> Nat] /\ billed' \in [Owner -> Nat]
    BY <1>0, <1>9, RowsGrow DEF SpendsElsewhere, Owner
  <2>3. UNCHANGED <<limit, cache, maps, clock, call, admin>>
    BY <1>9 DEF SpendsElsewhere
  <2> QED BY <2>1, <2>2, <2>3 DEF TypeInv
<1>10. ASSUME NEW new \in Limits, SaveBegins(new) \/ SaveEnds PROVE TypeInv'
  <2>1. call' \in [Call -> Calls] /\ (\A c \in Call : Fits(call[c])') /\ limit' \in Limits
        /\ UNCHANGED <<recorded, billed, clock>> /\ cache' \in {cache, None} /\ maps' \in [MapId -> Spent]
        /\ admin' \in Limits \cup {None}
    BY <1>10, SaveIs
  <2> QED BY <1>0, <2>1 DEF TypeInv
<1>11. CASE Restart
  <2>1. call' \in [Call -> Calls] /\ (\A c \in Call : Fits(call[c])') /\ UNCHANGED <<recorded, billed, clock, limit, admin>>
        /\ cache' = None /\ maps' \in [MapId -> Spent]
    BY <1>11, RestartIs
  <2> QED BY <1>0, <2>1 DEF TypeInv
<1>12. CASE \E c \in Call : Request(c) \/ Steps(c)
  <2>1. PICK c \in Call : Request(c) \/ Steps(c)
    BY <1>12
  <2>2. CASE Request(c) \/ CheckHits(c) \/ CheckLoads(c) \/ Answers(c) \/ CheckFails(c)
    <3>1. UNCHANGED clock /\ DbUnchanged
      BY <2>2 DEF Request, CheckHits, CheckLoads, Answers, CheckFails
    <3> QED BY <1>1, <2>2, <3>1 DEF Around
  <2> QED BY <2>1, <2>2, <1>3, <1>4, <1>5 DEF Steps, Loads
<1>13. limit \in Limits
  BY DEF TypeInv
<1> QED
  BY <1>6, <1>7, <1>8, <1>9, <1>10, <1>11, <1>12, <1>13 DEF Next

LEMMA StutterTyped == TypeInv /\ UNCHANGED vars => TypeInv'
BY DEF TypeInv, Fits, vars

LEMMA TypeInvariance == Spec => []TypeInv
BY InitTyped, NextTyped, StutterTyped, PTL DEF Spec

\* The counters are well formed, and no call makes more attempts than its retry
\* loop allows.
THEOREM TypeCorrect == Spec => []TypeOK
<1>1. TypeInv => TypeOK
  <2> SUFFICES ASSUME TypeInv PROVE TypeOK
    OBVIOUS
  <2>1. \A c \in Call : call[c].attempt < Tries(call[c].model)
    BY DEF TypeInv, Fits
  <2>2. cache # None => cache.limits \in Limits /\ cache.at <= clock /\ cache.map \in MapId
    BY DEF TypeInv, Seen
  <2> QED BY <2>1, <2>2 DEF TypeInv, TypeOK
<1> QED BY TypeInvariance, <1>1, PTL

-----------------------------------------------------------------------------
(* The counters never count more than was billed.                          *)

Counted(k, R, I) == k.record \in R /\ k.inst \in I

LEMMA CountIsNat == \A f, R, I : Count(f, R, I) \in Nat
<1> SUFFICES ASSUME NEW f, NEW R, NEW I PROVE Count(f, R, I) \in Nat
  OBVIOUS
<1> DEFINE S == {c \in Call : f[c].record \in R /\ f[c].inst \in I}
<1>1. S \in SUBSET Call
  OBVIOUS
<1>2. Cardinality(S) \in Nat
  <2> HIDE DEF S
  <2> QED BY <1>1, BudgetAssumption, FS_Subset, FS_CardinalityType
<1> QED BY <1>2 DEF Count

\* What one call's step does to the counts.
Change(k, old, R, I) == (IF Counted(k, R, I) THEN 1 ELSE 0) - (IF Counted(old, R, I) THEN 1 ELSE 0)

LEMMA CountStep ==
  ASSUME NEW f, NEW g, NEW c \in Call, \A d \in Call : d # c => g[d] = f[d]
  PROVE  \A R, I : Count(g, R, I) = Count(f, R, I) + Change(g[c], f[c], R, I)
<1> SUFFICES ASSUME NEW R, NEW I PROVE Count(g, R, I) = Count(f, R, I) + Change(g[c], f[c], R, I)
  OBVIOUS
<1> DEFINE S(h) == {d \in Call : h[d].record \in R /\ h[d].inst \in I}
           T == S(f) \ {c}
<1>1. T \in SUBSET Call /\ IsFiniteSet(Call)
  BY BudgetAssumption
<1>2. IsFiniteSet(T) /\ c \notin T /\ Cardinality(T) \in Nat
  <2>1. c \notin T
    OBVIOUS
  <2> HIDE DEF T
  <2> QED BY <1>1, <2>1, FS_Subset, FS_CardinalityType
<1>3. S(f) = IF Counted(f[c], R, I) THEN T \cup {c} ELSE T
  BY DEF Counted
<1>4. S(g) = IF Counted(g[c], R, I) THEN T \cup {c} ELSE T
  BY DEF Counted
<1>5. Cardinality(T \cup {c}) = Cardinality(T) + 1
  <2> HIDE DEF T
  <2> QED BY <1>2, FS_AddElement
<1>6. Count(g, R, I) = Cardinality(S(g)) /\ Count(f, R, I) = Cardinality(S(f))
  BY DEF Count
<1> HIDE DEF S, T
<1>7. Count(g, R, I) = Count(f, R, I) + Change(g[c], f[c], R, I)
  BY <1>2, <1>3, <1>4, <1>5, <1>6 DEF Change
<1> QED BY <1>7

LEMMA CountLess ==
  ASSUME NEW f, NEW g, NEW R, NEW Q, NEW I, \A c \in Call : Counted(g[c], Q, I) => Counted(f[c], R, I)
  PROVE  Count(g, Q, I) <= Count(f, R, I)
<1> DEFINE A == {c \in Call : g[c].record \in Q /\ g[c].inst \in I}
           B == {c \in Call : f[c].record \in R /\ f[c].inst \in I}
<1>1. A \in SUBSET B /\ B \in SUBSET Call
  BY DEF Counted
<1>2. Cardinality(A) <= Cardinality(B)
  <2> HIDE DEF A, B
  <2> QED BY <1>1, BudgetAssumption, FS_Subset
<1> QED BY <1>2 DEF Count

LEMMA ScopesAre ==
  /\ \A I \in Scopes : I \in SUBSET Owner
  /\ Owner \in Scopes /\ \A i \in Instance : {i} \in Scopes /\ i \in Owner
BY DEF Scopes, Owner

LEMMA SumsAreNat ==
  ASSUME TypeInv
  PROVE  \A I \in Scopes : Sum(billed, I) \in Nat /\ Sum(recorded, I) \in Nat
BY ScopesAre, SumIsNat DEF TypeInv

LEMMA RoomIsNat ==
  ASSUME TypeInv, RecordFits
  PROVE  \A I \in Scopes : Room(I) \in Nat
<1> SUFFICES ASSUME NEW I \in Scopes PROVE Room(I) \in Nat
  OBVIOUS
<1>1. Count(call, Noting, I) <= Count(call, Unrecorded, I)
  BY CountLess DEF Counted, Noting, Unrecorded
<1>2. Sum(recorded, I) + Count(call, Unrecorded, I) <= Sum(billed, I)
  BY DEF RecordFits
<1>3. Sum(recorded, I) \in Nat /\ Sum(billed, I) \in Nat
  BY SumsAreNat
<1>4. Count(call, Noting, I) \in Nat /\ Count(call, Unrecorded, I) \in Nat
  BY CountIsNat
<1> QED BY <1>1, <1>2, <1>3, <1>4 DEF Room

\* What a step does to the room, from what it does to the sums and the counts.
LEMMA RoomSteps ==
  ASSUME TypeInv, RecordFits, NEW I \in Scopes, NEW b \in {0, 1}, NEW r \in {0, 1},
         NEW n \in Int, NEW u \in Int,
         Sum(billed, I)' = Sum(billed, I) + b, Sum(recorded, I)' = Sum(recorded, I) + r,
         Count(call, Noting, I)' = Count(call, Noting, I) + n,
         Count(call, Unrecorded, I)' = Count(call, Unrecorded, I) + u
  PROVE  /\ Room(I)' = Room(I) + b - n
         /\ r + u <= b => (Sum(recorded, I) + Count(call, Unrecorded, I) <= Sum(billed, I))'
<1>1. Sum(recorded, I) + Count(call, Unrecorded, I) <= Sum(billed, I)
  BY DEF RecordFits
<1>2. Sum(recorded, I) \in Nat /\ Sum(billed, I) \in Nat
  BY SumsAreNat
<1>3. Count(call, Noting, I) \in Nat /\ Count(call, Unrecorded, I) \in Nat
  BY CountIsNat
<1> QED BY <1>1, <1>2, <1>3 DEF Room

RoomsGrow == RecordFits' /\ \A I \in Scopes : Room(I)' \in Nat /\ Room(I)' >= Room(I)

LEMMA CountMoves ==
  ASSUME NEW c \in Call, \A d \in Call : d # c => call'[d] = call[d]
  PROVE  \A R, I : Count(call, R, I)' = Count(call, R, I) + Change(call'[c], call[c], R, I)
<1>1. \A R, I : Count(call, R, I)' = Count(call', R, I)
  BY DEF Count
<1>2. \A R, I : Count(call', R, I) = Count(call, R, I) + Change(call'[c], call[c], R, I)
  BY CountStep
<1> QED BY <1>1, <1>2

LEMMA CallCounts ==
  ASSUME TypeInv, NEW c \in Call, NEW k \in Calls, call' = [call EXCEPT ![c] = k]
  PROVE  \A R, I : Count(call, R, I)' = Count(call, R, I) + Change(k, call[c], R, I)
<1>1. call'[c] = k /\ \A d \in Call : d # c => call'[d] = call[d]
  BY DEF TypeInv
<1>2. \A R, I : Count(call, R, I)' = Count(call, R, I) + Change(call'[c], call[c], R, I)
  BY <1>1, CountMoves
<1> QED BY <1>1, <1>2

LEMMA SumsStay ==
  ASSUME TypeInv
  PROVE  /\ billed' = billed => \A I \in Scopes : Sum(billed, I)' = Sum(billed, I)
         /\ recorded' = recorded => \A I \in Scopes : Sum(recorded, I)' = Sum(recorded, I)
         /\ \A o \in Owner : billed' = [billed EXCEPT ![o] = @ + 1] =>
              \A I \in Scopes : Sum(billed, I)' = Sum(billed, I) + (IF o \in I THEN 1 ELSE 0)
         /\ \A o \in Owner : recorded' = [recorded EXCEPT ![o] = @ + 1] =>
              \A I \in Scopes : Sum(recorded, I)' = Sum(recorded, I) + (IF o \in I THEN 1 ELSE 0)
<1>1. \A I : Sum(billed, I)' = Sum(billed', I) /\ Sum(recorded, I)' = Sum(recorded', I)
  BY DEF Sum, Sums, Adds
<1> QED BY <1>1, SumGrows, ScopesAre DEF TypeInv

\* A call without a record changes into one without.
LEMMA QuietRooms ==
  ASSUME TypeInv, RecordFits, NEW c \in Call, NEW k \in Calls, call' = [call EXCEPT ![c] = k],
         call[c].record = "none", k.record = "none", UNCHANGED <<billed, recorded>>
  PROVE  RoomsGrow
<1> SUFFICES ASSUME NEW I \in Scopes
             PROVE  /\ (Sum(recorded, I) + Count(call, Unrecorded, I) <= Sum(billed, I))'
                    /\ Room(I)' \in Nat /\ Room(I)' >= Room(I)
  BY DEF RoomsGrow, RecordFits, Scopes
<1>1. Change(k, call[c], Noting, I) = 0 /\ Change(k, call[c], Unrecorded, I) = 0
  BY DEF Change, Counted, Noting, Unrecorded
<1>2. Count(call, Noting, I)' = Count(call, Noting, I) + 0 /\ Count(call, Unrecorded, I)' = Count(call, Unrecorded, I) + 0
  <2>1. Count(call, Noting, I)' = Count(call, Noting, I) + Change(k, call[c], Noting, I)
    BY CallCounts
  <2>2. Count(call, Unrecorded, I)' = Count(call, Unrecorded, I) + Change(k, call[c], Unrecorded, I)
    BY CallCounts
  <2> QED BY <1>1, <2>1, <2>2
<1>3. Sum(billed, I)' = Sum(billed, I) + 0 /\ Sum(recorded, I)' = Sum(recorded, I) + 0
  BY SumsStay, SumsAreNat
<1>4. Room(I) \in Nat
  BY RoomIsNat
<1>5. 0 \in {0, 1} /\ 0 \in Int /\ 0 + 0 <= 0
  OBVIOUS
<1>6. Room(I)' = Room(I) + 0 - 0 /\ (Sum(recorded, I) + Count(call, Unrecorded, I) <= Sum(billed, I))'
  BY <1>2, <1>3, <1>5, RoomSteps
<1> QED BY <1>4, <1>6

\* What a step adds to the sums and the counts of a scope.
Adding(I, b, r, n, u) ==
  /\ Sum(billed, I)' = Sum(billed, I) + b /\ Sum(recorded, I)' = Sum(recorded, I) + r
  /\ Count(call, Noting, I)' = Count(call, Noting, I) + n
  /\ Count(call, Unrecorded, I)' = Count(call, Unrecorded, I) + u

LEMMA RoomsOf ==
  ASSUME TypeInv, RecordFits,
         \A I \in Scopes : \E b, r \in {0, 1}, n, u \in Int : Adding(I, b, r, n, u) /\ r + u <= b /\ n <= b
  PROVE  RoomsGrow
<1> SUFFICES ASSUME NEW I \in Scopes
             PROVE  /\ (Sum(recorded, I) + Count(call, Unrecorded, I) <= Sum(billed, I))'
                    /\ Room(I)' \in Nat /\ Room(I)' >= Room(I)
  BY DEF RoomsGrow, RecordFits, Scopes
<1>1. PICK b \in {0, 1}, r \in {0, 1}, n \in Int, u \in Int : Adding(I, b, r, n, u) /\ r + u <= b /\ n <= b
  OBVIOUS
<1>2. Room(I)' = Room(I) + b - n /\ (Sum(recorded, I) + Count(call, Unrecorded, I) <= Sum(billed, I))'
  BY <1>1, RoomSteps DEF Adding
<1>3. Room(I) \in Nat
  BY RoomIsNat
<1> QED BY <1>1, <1>2, <1>3

One(i, I) == IF i \in I THEN 1 ELSE 0

LEMMA OneIs == \A i, I : One(i, I) \in {0, 1} /\ 0 - One(i, I) \in Int /\ One(i, I) \in Int
BY DEF One

\* A step that bills or records one cost, or that changes one call.
LEMMA Additions ==
  ASSUME TypeInv
  PROVE  /\ UNCHANGED billed => \A I \in Scopes : Sum(billed, I)' = Sum(billed, I) + 0
         /\ UNCHANGED recorded => \A I \in Scopes : Sum(recorded, I)' = Sum(recorded, I) + 0
         /\ \A o \in Owner : billed' = [billed EXCEPT ![o] = @ + 1] =>
              \A I \in Scopes : Sum(billed, I)' = Sum(billed, I) + One(o, I)
         /\ \A o \in Owner : recorded' = [recorded EXCEPT ![o] = @ + 1] =>
              \A I \in Scopes : Sum(recorded, I)' = Sum(recorded, I) + One(o, I)
BY SumsStay, SumsAreNat DEF One

LEMMA CountChanges ==
  ASSUME TypeInv, NEW c \in Call, NEW k \in Calls, call' = [call EXCEPT ![c] = k],
         k.record # "none" => k.inst = call[c].inst
  PROVE  \A I :
    LET i == call[c].inst
        added(R) == (IF k.record \in R THEN One(i, I) ELSE 0) - (IF call[c].record \in R THEN One(i, I) ELSE 0)
    IN  /\ Count(call, Noting, I)' = Count(call, Noting, I) + added(Noting)
        /\ Count(call, Unrecorded, I)' = Count(call, Unrecorded, I) + added(Unrecorded)
<1> SUFFICES ASSUME NEW I, NEW R \in {Noting, Unrecorded}
             PROVE  Count(call, R, I)' = Count(call, R, I)
                      + ((IF k.record \in R THEN One(call[c].inst, I) ELSE 0)
                         - (IF call[c].record \in R THEN One(call[c].inst, I) ELSE 0))
  OBVIOUS
<1>1. Count(call, R, I)' = Count(call, R, I) + Change(k, call[c], R, I)
  BY CallCounts
<1>2. k.record \in R => k.inst = call[c].inst
  BY DEF Noting, Unrecorded
<1>3. Change(k, call[c], R, I) = (IF k.record \in R THEN One(call[c].inst, I) ELSE 0)
                                 - (IF call[c].record \in R THEN One(call[c].inst, I) ELSE 0)
  BY <1>2 DEF Change, Counted, One
<1> QED BY <1>1, <1>3

LEMMA BilledRooms ==
  ASSUME TypeInv, RecordFits, NEW c \in Call, NEW k \in Calls, call' = [call EXCEPT ![c] = k],
         call[c].record = "none", k.record = "noting", k.inst = call[c].inst, call[c].inst \in Owner,
         billed' = [billed EXCEPT ![k.inst] = @ + 1], UNCHANGED recorded
  PROVE  RoomsGrow
<1> DEFINE x(I) == One(call[c].inst, I)
<1>1. ASSUME NEW I \in Scopes
      PROVE  Adding(I, x(I), 0, x(I), x(I))
  <2>1. Sum(billed, I)' = Sum(billed, I) + x(I) /\ Sum(recorded, I)' = Sum(recorded, I) + 0
    BY Additions
  <2>2. k.record \in Noting /\ k.record \in Unrecorded /\ call[c].record \notin Noting /\ call[c].record \notin Unrecorded
    BY DEF Noting, Unrecorded
  <2>3. Count(call, Noting, I)' = Count(call, Noting, I) + (x(I) - 0)
        /\ Count(call, Unrecorded, I)' = Count(call, Unrecorded, I) + (x(I) - 0)
    BY <2>2, CountChanges
  <2>4. x(I) \in {0, 1}
    BY OneIs
  <2> QED BY <2>1, <2>3, <2>4 DEF Adding
<1>2. \A I : x(I) \in {0, 1} /\ x(I) \in Int
  BY OneIs
<1> HIDE DEF x
<1>3. \A I \in Scopes : \E b, r \in {0, 1}, n, u \in Int : Adding(I, b, r, n, u) /\ r + u <= b /\ n <= b
  <2> TAKE I \in Scopes
  <2> x(I) \in {0, 1} /\ x(I) \in Int
    BY <1>2
  <2> WITNESS x(I) \in {0, 1}, 0 \in {0, 1}, x(I) \in Int, x(I) \in Int
  <2> QED BY <1>1, <1>2
<1> QED BY <1>3, RoomsOf

LEMMA NotedRooms ==
  ASSUME TypeInv, RecordFits, NEW c \in Call, NEW k \in Calls, call' = [call EXCEPT ![c] = k],
         call[c].record = "noting", k.record = "inserting", k.inst = call[c].inst,
         UNCHANGED <<billed, recorded>>
  PROVE  RoomsGrow /\ \A I \in Scopes : Room(I)' = Room(I) + One(call[c].inst, I)
<1> DEFINE x(I) == One(call[c].inst, I)
<1>1. ASSUME NEW I \in Scopes
      PROVE  Adding(I, 0, 0, 0 - x(I), 0)
  <2>1. Sum(billed, I)' = Sum(billed, I) + 0 /\ Sum(recorded, I)' = Sum(recorded, I) + 0
    BY Additions
  <2>2. k.record \notin Noting /\ k.record \in Unrecorded /\ call[c].record \in Noting /\ call[c].record \in Unrecorded
    BY DEF Noting, Unrecorded
  <2>3. Count(call, Noting, I)' = Count(call, Noting, I) + (0 - x(I))
        /\ Count(call, Unrecorded, I)' = Count(call, Unrecorded, I) + (x(I) - x(I))
    BY <2>2, CountChanges
  <2>4. x(I) \in {0, 1}
    BY OneIs
  <2> QED BY <2>1, <2>3, <2>4 DEF Adding
<1>2. \A I : x(I) \in {0, 1} /\ 0 - x(I) \in Int
  BY OneIs
<1>3. ASSUME NEW I \in Scopes PROVE Room(I)' = Room(I) + x(I)
  <2>1. 0 \in {0, 1} /\ 0 \in Int /\ 0 - x(I) \in Int /\ x(I) \in {0, 1} /\ Room(I) \in Nat
    BY <1>2, RoomIsNat
  <2>2. Room(I)' = Room(I) + 0 - (0 - x(I))
    BY <1>1, <2>1, RoomSteps DEF Adding
  <2> QED BY <2>1, <2>2
<1> HIDE DEF x
<1>4. \A I \in Scopes : \E b, r \in {0, 1}, n, u \in Int : Adding(I, b, r, n, u) /\ r + u <= b /\ n <= b
  <2> TAKE I \in Scopes
  <2> 0 - x(I) \in Int
    BY <1>2
  <2> WITNESS 0 \in {0, 1}, 0 \in {0, 1}, 0 - x(I) \in Int, 0 \in Int
  <2> QED BY <1>1, <1>2
<1> QED BY <1>3, <1>4, RoomsOf DEF x

\* The row is inserted, or the record is given up.
LEMMA RecordedRooms ==
  ASSUME TypeInv, RecordFits, NEW c \in Call, NEW k \in Calls, call' = [call EXCEPT ![c] = k],
         call[c].record \in Unrecorded, k.record = "none", call[c].inst \in Owner, UNCHANGED billed,
         \/ recorded' = recorded
         \/ call[c].record = "inserting" /\ recorded' = [recorded EXCEPT ![call[c].inst] = @ + 1]
  PROVE  RoomsGrow
<1> DEFINE x(I) == One(call[c].inst, I)
           n(I) == 0 - (IF call[c].record \in Noting THEN x(I) ELSE 0)
           r(I) == IF recorded' = recorded THEN 0 ELSE x(I)
<1>1. ASSUME NEW I \in Scopes
      PROVE  Adding(I, 0, r(I), n(I), 0 - x(I))
  <2>1. Sum(billed, I)' = Sum(billed, I) + 0
    BY Additions
  <2>2. Sum(recorded, I)' = Sum(recorded, I) + r(I)
    <3>1. CASE recorded' = recorded
      BY <3>1, Additions
    <3>2. CASE recorded' # recorded
      BY <3>2, Additions
    <3> QED BY <3>1, <3>2
  <2>3. k.record \notin Noting /\ k.record \notin Unrecorded
    BY DEF Noting, Unrecorded
  <2>4. Count(call, Noting, I)' = Count(call, Noting, I) + n(I)
        /\ Count(call, Unrecorded, I)' = Count(call, Unrecorded, I) + (0 - x(I))
    BY <2>3, CountChanges
  <2> HIDE DEF x, n, r
  <2> QED BY <2>1, <2>2, <2>4 DEF Adding
<1>2. \A I : /\ x(I) \in {0, 1} /\ n(I) \in Int /\ r(I) \in {0, 1} /\ 0 - x(I) \in Int
             /\ r(I) + (0 - x(I)) <= 0 /\ n(I) <= 0
  <2>1. \A I : x(I) \in {0, 1}
    BY OneIs
  <2> HIDE DEF x
  <2> QED BY <2>1
<1> HIDE DEF x, n, r
<1>3. \A I \in Scopes : \E b, q \in {0, 1}, m, u \in Int : Adding(I, b, q, m, u) /\ q + u <= b /\ m <= b
  <2> TAKE I \in Scopes
  <2> r(I) \in {0, 1} /\ n(I) \in Int /\ 0 - x(I) \in Int
    BY <1>2
  <2> WITNESS 0 \in {0, 1}, r(I) \in {0, 1}, n(I) \in Int, 0 - x(I) \in Int
  <2> QED BY <1>1, <1>2
<1> QED BY <1>3, RoomsOf

LEMMA ElsewhereRooms ==
  ASSUME TypeInv, RecordFits, NEW o \in Owner, UNCHANGED call,
         billed' = [billed EXCEPT ![o] = @ + 1], recorded' = [recorded EXCEPT ![o] = @ + 1]
  PROVE  RoomsGrow
<1>1. ASSUME NEW I \in Scopes
      PROVE  Adding(I, One(o, I), One(o, I), 0, 0)
  <2>1. Sum(billed, I)' = Sum(billed, I) + One(o, I) /\ Sum(recorded, I)' = Sum(recorded, I) + One(o, I)
    BY Additions
  <2>2. \A R : Count(call, R, I)' = Count(call, R, I)
    BY DEF Count
  <2> QED BY <2>1, <2>2, CountIsNat DEF Adding
<1>2. \A I \in Scopes : \E b, r \in {0, 1}, n, u \in Int : Adding(I, b, r, n, u) /\ r + u <= b /\ n <= b
  <2> TAKE I \in Scopes
  <2>1. One(o, I) \in {0, 1}
    BY OneIs
  <2> WITNESS One(o, I) \in {0, 1}, One(o, I) \in {0, 1}, 0 \in Int, 0 \in Int
  <2> QED BY <1>1, <2>1
<1> QED BY <1>2, RoomsOf

\* Records may be lost, never gained, while no cost is billed or recorded.
LEMMA LostRooms ==
  ASSUME TypeInv, RecordFits, UNCHANGED <<billed, recorded>>,
         \A c \in Call : call'[c].record # "none" => call'[c].record = call[c].record /\ call'[c].inst = call[c].inst
  PROVE  RoomsGrow
<1>1. ASSUME NEW I, NEW R \in {Noting, Unrecorded}
      PROVE  Count(call, R, I)' \in Nat /\ Count(call, R, I) \in Nat /\ Count(call, R, I)' <= Count(call, R, I)
  <2>1. Count(call, R, I)' = Count(call', R, I)
    BY DEF Count
  <2>2. \A c \in Call : Counted(call'[c], R, I) => Counted(call[c], R, I)
    BY DEF Counted, Noting, Unrecorded
  <2>3. Count(call', R, I) <= Count(call, R, I)
    BY <2>2, CountLess
  <2> QED BY <2>1, <2>3, CountIsNat
<1> DEFINE n(I) == Count(call, Noting, I)' - Count(call, Noting, I)
           u(I) == Count(call, Unrecorded, I)' - Count(call, Unrecorded, I)
<1>2. \A I : n(I) \in Int /\ u(I) \in Int /\ n(I) <= 0 /\ u(I) <= 0
  BY <1>1
<1>3. ASSUME NEW I \in Scopes
      PROVE  Adding(I, 0, 0, n(I), u(I))
  BY <1>1, Additions DEF Adding
<1> HIDE DEF n, u
<1>4. \A I \in Scopes : \E b, r \in {0, 1}, m, w \in Int : Adding(I, b, r, m, w) /\ r + w <= b /\ m <= b
  <2> TAKE I \in Scopes
  <2> n(I) \in Int /\ u(I) \in Int
    BY <1>2
  <2> WITNESS 0 \in {0, 1}, 0 \in {0, 1}, n(I) \in Int, u(I) \in Int
  <2> QED BY <1>2, <1>3
<1> QED BY <1>4, RoomsOf

\* What a query of the database finds is within what was billed.
LEMMA RowsFit ==
  ASSUME TypeInv, RecordFits
  PROVE  Total(recorded) <= Room(Owner) /\ \A i \in Instance : recorded[i] <= Room({i})
<1>1. ASSUME NEW I \in Scopes PROVE Sum(recorded, I) <= Room(I)
  <2>1. Count(call, Noting, I) <= Count(call, Unrecorded, I)
    BY CountLess DEF Counted, Noting, Unrecorded
  <2>2. Sum(recorded, I) + Count(call, Unrecorded, I) <= Sum(billed, I)
    BY DEF RecordFits
  <2> QED BY <2>1, <2>2, SumsAreNat, CountIsNat DEF Room
<1>2. Total(recorded) = Sum(recorded, Owner)
  BY TotalIsSum DEF TypeInv
<1>3. \A i \in Instance : Sum(recorded, {i}) = recorded[i]
  BY SumOfOne DEF TypeInv, Owner
<1> QED BY <1>1, <1>2, <1>3, ScopesAre

\* The rooms are numbers and do not shrink.
LEMMA RoomsAre ==
  ASSUME TypeInv, RecordFits, RoomsGrow
  PROVE  /\ Room(Owner) \in Nat /\ Room(Owner)' \in Nat /\ Room(Owner)' >= Room(Owner)
         /\ \A i \in Instance : Room({i}) \in Nat /\ Room({i})' \in Nat /\ Room({i})' >= Room({i})
<1>1. \A I \in Scopes : Room(I) \in Nat /\ Room(I)' \in Nat /\ Room(I)' >= Room(I)
  BY RoomIsNat DEF RoomsGrow
<1>2. Owner \in Scopes /\ \A i \in Instance : {i} \in Scopes
  BY ScopesAre
<1>3. \A i \in Instance : Room({i}) \in Nat /\ Room({i})' \in Nat /\ Room({i})' >= Room({i})
  <2> TAKE i \in Instance
  <2> DEFINE I == {i}
  <2>1. I \in Scopes
    BY <1>2
  <2> HIDE DEF I
  <2>2. Room(I) \in Nat /\ Room(I)' \in Nat /\ Room(I)' >= Room(I)
    BY <1>1, <2>1
  <2> QED BY <2>2 DEF I
<1> QED BY <1>1, <1>2, <1>3

LEMMA MapsStay ==
  ASSUME TypeInv, RecordFits, RoomsGrow, MapsFit, \A m \in MapId : maps'[m] \in {maps[m], EmptyMap}
  PROVE  MapsFit'
<1> SUFFICES ASSUME NEW m \in MapId, NEW i \in Instance PROVE maps'[m][i] <= Room({i})'
  BY DEF MapsFit
<1>1. maps[m][i] \in Nat \cup {Missing} /\ maps[m][i] <= Room({i})
  BY DEF MapsFit, TypeInv, Spent
<1>2. EmptyMap[i] = Missing
  BY DEF EmptyMap
<1>3. maps'[m][i] \in Nat \cup {Missing} /\ (maps'[m][i] = Missing \/ maps'[m][i] <= Room({i}))
  BY <1>1, <1>2
<1> QED BY <1>3, RoomsAre DEF Missing

LEMMA CacheStays ==
  ASSUME TypeInv, RecordFits, RoomsGrow, CacheFits, cache' \in {cache, None}
  PROVE  CacheFits'
BY RoomsAre DEF CacheFits, TypeInv, Seen

\* What a call holds stays within rooms that do not shrink.
LEMMA HeldGrows ==
  ASSUME TypeInv, RecordFits, RoomsGrow, NEW k \in Calls, Fits(k), HeldFits(k)
  PROVE  HeldFits(k)'
<1>1. k.pc = "platform" /\ k.got # None => k.got <= Room(Owner)'
  <2>1. k.pc = "platform" /\ k.got # None => k.got \in Nat /\ k.got <= Room(Owner)
    BY DEF Fits, HeldFits
  <2> QED BY <2>1, RoomsAre
<1>2. k.pc = "instance" => k.platform <= Room(Owner)'
  BY RoomsAre DEF HeldFits, Calls
<1>3. ASSUME k.pc = "instance", k.got # None PROVE k.got <= Room({k.inst})'
  <2> DEFINE r == Room({k.inst})
             s == Room({k.inst})'
  <2>1. k.got \in Nat /\ k.inst \in Instance /\ k.got <= r
    BY <1>3 DEF Fits, HeldFits
  <2>2. r \in Nat /\ s \in Nat /\ s >= r
    BY <2>1, RoomsAre
  <2> HIDE DEF r, s
  <2>3. k.got <= s
    BY <2>1, <2>2
  <2> QED BY <2>3 DEF s
<1> QED BY <1>1, <1>2, <1>3 DEF HeldFits

\* A call keeps what it holds, or ends its check.
LEMMA HeldStays ==
  ASSUME SpendInv, RoomsGrow, NEW d \in Call,
         \/ call'[d].pc \notin {"platform", "instance"}
         \/ /\ call'[d].pc = call[d].pc /\ call'[d].got = call[d].got
            /\ call'[d].platform = call[d].platform /\ call'[d].inst = call[d].inst
  PROVE  HeldFits(call[d])'
<1>1. CASE call'[d].pc \notin {"platform", "instance"}
  BY <1>1 DEF HeldFits
<1>2. CASE /\ call'[d].pc = call[d].pc /\ call'[d].got = call[d].got
           /\ call'[d].platform = call[d].platform /\ call'[d].inst = call[d].inst
  <2>1. PICK k \in Calls : k = call[d]
    BY DEF SpendInv, TypeInv
  <2>2. Fits(k) /\ HeldFits(k)
    BY <2>1 DEF SpendInv, TypeInv
  <2>3. HeldFits(k)'
    BY <2>2, HeldGrows DEF SpendInv
  <2>4. call'[d].pc = k.pc /\ call'[d].got = k.got /\ call'[d].platform = k.platform /\ call'[d].inst = k.inst
    BY <1>2, <2>1
  <2> QED BY <2>3, <2>4 DEF HeldFits
<1> QED BY <1>1, <1>2

\* One call changes to a record k that holds no more than was billed.
LEMMA HeldSteps ==
  ASSUME SpendInv, RoomsGrow, NEW c \in Call, NEW k \in Calls, call' = [call EXCEPT ![c] = k], Fits(k), HeldFits(k)
  PROVE  \A d \in Call : HeldFits(call[d])'
<1> SUFFICES ASSUME NEW d \in Call PROVE HeldFits(call[d])'
  OBVIOUS
<1>1. call'[c] = k /\ (d # c => call'[d] = call[d])
  BY DEF SpendInv, TypeInv
<1>2. CASE d = c
  <2>1. HeldFits(k)'
    BY HeldGrows DEF SpendInv
  <2> QED BY <1>1, <1>2, <2>1 DEF HeldFits
<1>3. CASE d # c
  BY <1>1, <1>3, HeldStays
<1> QED BY <1>2, <1>3

Counters == RecordFits /\ CacheFits /\ MapsFit /\ \A d \in Call : HeldFits(call[d])

\* A check ends with a cache that counts no more than was billed.
LEMMA StoreFits ==
  ASSUME SpendInv, NEW c \in Call, NEW k, NEW lim, NEW platform, NEW id, NEW map,
         StoreHolds(c, k, lim, platform, id, map), Store(c, k, lim, platform, id, map),
         call[c].record = "none", platform <= Room(Owner), \A i \in Instance : map[i] <= Room({i}), DbUnchanged
  PROVE  Counters'
<1>1. /\ cache' \in Seen /\ cache'.platform = platform /\ cache'.map = id
      /\ call' = [call EXCEPT ![c] = Judged(k, cache', map)]
      /\ maps'[id] = map /\ \A m \in MapId \ {id} : maps'[m] \in {maps[m], EmptyMap}
  BY StoreIs DEF SpendInv
<1>2. /\ Judged(k, cache', map) \in Calls /\ Judged(k, cache', map).record = "none"
      /\ Judged(k, cache', map).pc \in {"over", "send"}
  BY JudgedIs DEF StoreHolds
<1>3. RoomsGrow
  BY <1>1, <1>2, QuietRooms DEF DbUnchanged, SpendInv
<1>4. CacheFits'
  BY <1>1, <1>3, RoomsAre DEF CacheFits, StoreHolds, SpendInv
<1>5. MapsFit'
  <2> SUFFICES ASSUME NEW m \in MapId, NEW i \in Instance PROVE maps'[m][i] <= Room({i})'
    BY DEF MapsFit
  <2>1. CASE m = id
    <3>1. maps'[m][i] = map[i] /\ map[i] \in Nat \cup {Missing} /\ map[i] <= Room({i})
      BY <1>1, <2>1 DEF StoreHolds, Spent
    <3> QED BY <1>3, <3>1, RoomsAre DEF Missing, SpendInv
  <2>2. CASE m # id
    <3>1. maps'[m] \in {maps[m], EmptyMap} /\ maps[m][i] \in Nat \cup {Missing} /\ maps[m][i] <= Room({i})
      BY <1>1, <2>2 DEF MapsFit, TypeInv, Spent, SpendInv
    <3>2. EmptyMap[i] = Missing
      BY DEF EmptyMap
    <3>3. maps'[m][i] = Missing \/ (maps'[m][i] \in Nat /\ maps'[m][i] <= Room({i}))
      BY <3>1, <3>2
    <3> QED BY <1>3, <3>3, RoomsAre DEF Missing, SpendInv
  <2> QED BY <2>1, <2>2
<1> DEFINE j == Judged(k, cache', map)
<1>6. j \in Calls /\ call' = [call EXCEPT ![c] = j] /\ j.pc \in {"over", "send"}
  BY <1>1, <1>2
<1> HIDE DEF j
<1>7. call'[c] = j /\ \A d \in Call : d # c => call'[d] = call[d]
  BY <1>6 DEF SpendInv, TypeInv
<1>8. \A d \in Call : HeldFits(call[d])'
  <2> TAKE d \in Call
  <2>1. call'[d].pc \notin {"platform", "instance"} \/ call'[d] = call[d]
    BY <1>6, <1>7
  <2> QED BY <1>3, <2>1, HeldStays
<1> QED BY <1>3, <1>4, <1>5, <1>8 DEF RoomsGrow, Counters

\* The steps of a call that leave the cache alone.
LEMMA AroundFits ==
  ASSUME SpendInv, NEW c \in Call, Around(c), DbUnchanged
  PROVE  Counters'
<1>0. TypeInv /\ RecordFits
  BY DEF SpendInv
<1>1. UNCHANGED <<cache, maps>> /\ call[c].record = "none"
  BY <1>0, AroundIs
<1>2. \E k \in Calls : call' = [call EXCEPT ![c] = k] /\ Fits(k) /\ k.record = "none" /\ HeldFits(k)
  <2>1. CASE Request(c)
    BY <1>0, <2>1, RequestIs DEF HeldFits
  <2>2. CASE CheckHits(c)
    BY <1>0, <2>2, CheckHitsIs DEF HeldFits
  <2>3. CASE CheckLoads(c)
    BY <1>0, <2>3, CheckLoadsIs DEF HeldFits
  <2>4. CASE Answers(c)
    <3>1. PICK k \in Calls : /\ call' = [call EXCEPT ![c] = k] /\ Fits(k)
                             /\ k.pc = call[c].pc /\ k.record = "none" /\ k.platform = call[c].platform
                             /\ k.pc = "platform" => k.got = Total(recorded)
                             /\ k.pc = "instance" => k.got = recorded[k.inst]
      BY <1>0, <2>4, AnswersIs
    <3>2. k.pc = "instance" => k.inst \in Instance /\ k.platform <= Room(Owner)
      BY <3>1 DEF SpendInv, HeldFits, Fits
    <3>3. k.pc = "instance" => k.got <= Room({k.inst})
      BY <1>0, <3>1, <3>2, RowsFit
    <3>4. k.pc = "platform" => k.got <= Room(Owner)
      BY <1>0, <3>1, RowsFit
    <3> QED BY <3>1, <3>2, <3>3, <3>4 DEF HeldFits
  <2>5. CASE AsksPlatform(c)
    BY <1>0, <2>5, AsksPlatformIs DEF HeldFits
  <2>6. CASE CheckFails(c)
    BY <1>0, <2>6, CheckFailsIs DEF HeldFits
  <2> QED BY <2>1, <2>2, <2>3, <2>4, <2>5, <2>6 DEF Around
<1>3. PICK k \in Calls : call' = [call EXCEPT ![c] = k] /\ Fits(k) /\ k.record = "none" /\ HeldFits(k)
  BY <1>2
<1>4. RoomsGrow
  BY <1>0, <1>1, <1>3, QuietRooms DEF DbUnchanged
<1>5. CacheFits' /\ MapsFit'
  BY <1>0, <1>1, <1>4, CacheStays, MapsStay DEF SpendInv
<1>6. \A d \in Call : HeldFits(call[d])'
  BY <1>3, <1>4, HeldSteps
<1> QED BY <1>4, <1>5, <1>6 DEF RoomsGrow, Counters

\* A check goes on with what the platform spent.
LEMMA ResumesFits ==
  ASSUME SpendInv, NEW c \in Call, Resumes(c), DbUnchanged, UNCHANGED clock
  PROVE  Counters'
<1>0. TypeInv /\ RecordFits
  BY DEF SpendInv
<1>1. PICK k, lim, platform : Resumed(c, k, lim, platform) /\ WithPlatform(c, k, lim, platform)
  BY DEF Resumes
<1>2. LoadHolds(c, k, lim, platform) /\ k.inst = call[c].inst
  BY <1>0, <1>1, ResumedHolds
<1>3. platform <= Room(Owner) /\ call[c].record = "none"
  <2>1. Room(Owner) \in Nat
    BY <1>0, RoomIsNat, ScopesAre
  <2>2. cache # None => cache.platform <= Room(Owner)
    BY DEF SpendInv, CacheFits
  <2>3. call[c].pc = "platform" /\ call[c].got # None => call[c].got <= Room(Owner)
    BY DEF SpendInv, HeldFits
  <2>4. Fits(call[c])
    BY <1>0 DEF TypeInv
  <2> QED BY <1>1, <2>1, <2>2, <2>3, <2>4 DEF Resumed, Fresh, Fits
<1>4. CASE Asks(c, k, lim, platform)
  <2>1. PICK w \in Calls : /\ call' = [call EXCEPT ![c] = w] /\ Fits(w) /\ w.record = "none"
                           /\ w.pc = "instance" /\ w.got = None /\ w.platform = platform
    BY <1>4 DEF Asks
  <2>2. UNCHANGED <<cache, maps>>
    BY <1>4 DEF Asks
  <2>3. RoomsGrow
    BY <1>0, <1>3, <2>1, QuietRooms DEF DbUnchanged
  <2>4. HeldFits(w)
    BY <1>3, <2>1 DEF HeldFits
  <2>5. CacheFits' /\ MapsFit'
    BY <1>0, <2>2, <2>3, CacheStays, MapsStay DEF SpendInv
  <2>6. \A d \in Call : HeldFits(call[d])'
    BY <2>1, <2>3, <2>4, HeldSteps
  <2> QED BY <2>3, <2>5, <2>6 DEF RoomsGrow, Counters
<1>5. ASSUME NEW id \in MapId, NEW map \in Spent,
             StoreHolds(c, k, lim, platform, id, map), Store(c, k, lim, platform, id, map), Knowing(k, lim, id, map)
      PROVE  Counters'
  <2>1. \A i \in Instance : map[i] <= Room({i})
    <3> TAKE i \in Instance
    <3>1. CASE Fresh(k.now)
      <4>1. cache.map \in MapId /\ map = maps[cache.map]
        BY <1>0, <1>5, <3>1 DEF Knowing, Fresh, TypeInv, Seen
      <4> QED BY <4>1 DEF SpendInv, MapsFit
    <3>2. CASE ~Fresh(k.now)
      <4> DEFINE I == {i}
      <4>1. I \in Scopes
        BY ScopesAre
      <4> HIDE DEF I
      <4>2. Room(I) \in Nat
        BY <1>0, <4>1, RoomIsNat
      <4>3. map[i] = Missing
        BY <1>5, <3>2 DEF Knowing, EmptyMap
      <4>4. map[i] <= Room(I)
        BY <4>2, <4>3 DEF Missing
      <4> QED BY <4>4 DEF I
    <3> QED BY <3>1, <3>2
  <2> QED BY <1>3, <1>5, <2>1, StoreFits
<1> QED BY <1>0, <1>1, <1>2, <1>4, <1>5, LoadIs

LEMMA BringsFits ==
  ASSUME SpendInv, NEW c \in Call, NEW id \in MapId, NEW map \in Spent, Brings(c, id, map), DbUnchanged, UNCHANGED clock
  PROVE  Counters'
<1>1. call[c].pc = "instance" /\ call[c].got # None /\ Fits(call[c])
  BY DEF Brings, SpendInv, TypeInv
<1>2. /\ call[c].platform <= Room(Owner) /\ call[c].inst \in Instance /\ call[c].record = "none"
      /\ call[c].got <= Room({call[c].inst})
  BY <1>1 DEF SpendInv, HeldFits, Fits
<1>3. \A i \in Instance : map[i] <= Room({i})
  <2> TAKE i \in Instance
  <2>1. CASE i = call[c].inst
    <3>1. map[i] = call[c].got
      <4>1. CASE call[c].map = None
        BY <2>1, <4>1 DEF Brings, EmptyMap
      <4>2. CASE call[c].map # None
        BY <2>1, <4>2 DEF Brings, SpendInv, TypeInv, Spent
      <4> QED BY <4>1, <4>2
    <3> QED BY <1>2, <2>1, <3>1
  <2>2. CASE i # call[c].inst
    <3>1. map[i] = Missing \/ map[i] = maps[id][i]
      <4>1. CASE call[c].map = None
        BY <2>2, <4>1 DEF Brings, EmptyMap
      <4>2. CASE call[c].map # None
        BY <2>2, <4>2 DEF Brings, SpendInv, TypeInv, Spent
      <4> QED BY <4>1, <4>2
    <3>2. maps[id][i] <= Room({i})
      BY DEF SpendInv, MapsFit
    <3> DEFINE I == {i}
    <3>3. I \in Scopes
      BY ScopesAre
    <3> HIDE DEF I
    <3>4. Room(I) \in Nat
      BY <3>3, RoomIsNat DEF SpendInv
    <3>5. Missing <= Room({i})
      BY <3>4 DEF I, Missing
    <3> QED BY <3>1, <3>2, <3>5
  <2> QED BY <2>1, <2>2
<1> QED BY <1>2, <1>3, StoreFits DEF Brings

\* The provider answers or fails, and the caller goes on.
LEMMA ProviderFits ==
  ASSUME SpendInv, NEW c \in Call, ProviderAnswers(c) \/ ProviderFails(c) \/ CallThrows(c)
  PROVE  Counters'
<1>0. TypeInv /\ RecordFits
  BY DEF SpendInv
<1>1. UNCHANGED <<recorded, cache, maps>>
  BY DEF ProviderAnswers, ProviderFails, CallThrows, DbUnchanged
<1>2. /\ call[c].record = "none" /\ call[c].inst \in Owner
      /\ \E k \in Calls : /\ call' = [call EXCEPT ![c] = k] /\ Fits(k) /\ k.pc \in {"over", "send", "check"}
                          /\ k.record = "none" \/ (k.record = "noting" /\ k.inst = call[c].inst)
                          /\ billed' = IF k.record = "noting" THEN [billed EXCEPT ![k.inst] = @ + 1] ELSE billed
  BY <1>0, ProviderIs
<1>3. PICK k \in Calls : /\ call' = [call EXCEPT ![c] = k] /\ Fits(k) /\ k.pc \in {"over", "send", "check"}
                         /\ k.record = "none" \/ (k.record = "noting" /\ k.inst = call[c].inst)
                         /\ billed' = IF k.record = "noting" THEN [billed EXCEPT ![k.inst] = @ + 1] ELSE billed
  BY <1>2
<1>4. RoomsGrow
  <2>1. CASE k.record = "none"
    BY <1>0, <1>1, <1>2, <1>3, <2>1, QuietRooms
  <2>2. CASE k.record = "noting"
    BY <1>0, <1>1, <1>2, <1>3, <2>2, BilledRooms
  <2> QED BY <1>3, <2>1, <2>2
<1>5. HeldFits(k)
  BY <1>3 DEF HeldFits
<1>6. \A d \in Call : HeldFits(call[d])'
  BY <1>3, <1>4, <1>5, HeldSteps
<1>7. CacheFits' /\ MapsFit'
  BY <1>0, <1>1, <1>4, CacheStays, MapsStay DEF SpendInv
<1> QED BY <1>4, <1>6, <1>7 DEF RoomsGrow, Counters

\* A cost moves from the calls that will note it into the counters.
LEMMA NoteFits ==
  ASSUME SpendInv, NEW c \in Call, NoteSpend(c)
  PROVE  Counters'
<1>0. TypeInv /\ RecordFits
  BY DEF SpendInv
<1>1. UNCHANGED <<recorded, billed>>
  BY DEF NoteSpend, DbUnchanged
<1>2. /\ call[c].record = "noting" /\ call[c].inst \in Owner
      /\ IF cache = None THEN cache' = None
         ELSE cache' \in Seen /\ cache' = [cache EXCEPT !.platform = @ + 1]
      /\ \/ maps' = maps
         \/ /\ cache # None /\ call[c].inst \in Instance /\ maps[cache.map][call[c].inst] # Missing
            /\ maps' = [maps EXCEPT ![cache.map][call[c].inst] = @ + 1]
  BY <1>0, NoteSpendIs
<1>3. PICK k \in Calls : /\ call' = [call EXCEPT ![c] = k] /\ Fits(k)
                         /\ k.pc = call[c].pc /\ k.record = "inserting" /\ k.inst = call[c].inst
  BY <1>0, NoteSpendIs
<1>4. RoomsGrow /\ \A I \in Scopes : Room(I)' = Room(I) + One(call[c].inst, I)
  BY <1>0, <1>1, <1>2, <1>3, NotedRooms
<1>5. k.pc = "over"
  BY <1>2, <1>3 DEF SpendInv, TypeInv, Fits
<1>6. \A d \in Call : HeldFits(call[d])'
  <2>1. HeldFits(k)
    BY <1>5 DEF HeldFits
  <2> QED BY <1>3, <1>4, <2>1, HeldSteps
<1>7. CacheFits'
  <2>1. Room(Owner)' = Room(Owner) + 1 /\ Room(Owner) \in Nat
    <3>1. Owner \in Scopes /\ One(call[c].inst, Owner) = 1
      BY <1>2, ScopesAre DEF One
    <3> QED BY <1>0, <1>4, <3>1, RoomIsNat
  <2>2. cache # None => cache.platform \in Nat /\ cache.platform <= Room(Owner) /\ cache'.platform = cache.platform + 1
    BY <1>2 DEF SpendInv, CacheFits, TypeInv, Seen
  <2> QED BY <1>2, <2>1, <2>2 DEF CacheFits
<1>8. MapsFit'
  <2>1. CASE maps' = maps
    BY <1>0, <1>4, <2>1, MapsStay DEF SpendInv
  <2>2. CASE /\ cache # None /\ call[c].inst \in Instance /\ maps[cache.map][call[c].inst] # Missing
             /\ maps' = [maps EXCEPT ![cache.map][call[c].inst] = @ + 1]
    <3> SUFFICES ASSUME NEW m \in MapId, NEW i \in Instance PROVE maps'[m][i] <= Room({i})'
      BY DEF MapsFit
    <3> DEFINE I == {i}
    <3>1. I \in Scopes
      BY ScopesAre
    <3>2. One(call[c].inst, I) = IF i = call[c].inst THEN 1 ELSE 0
      BY DEF One
    <3>3. maps[m][i] \in Nat \cup {Missing} /\ maps[m][i] <= Room(I)
      BY DEF SpendInv, MapsFit, TypeInv, Spent
    <3>4. maps'[m][i] = IF m = cache.map /\ i = call[c].inst THEN maps[m][i] + 1 ELSE maps[m][i]
      BY <2>2 DEF SpendInv, TypeInv, Spent
    <3> HIDE DEF I
    <3>5. Room(I)' = Room(I) + One(call[c].inst, I) /\ Room(I) \in Nat
      BY <1>0, <1>4, <3>1, RoomIsNat
    <3>6. maps'[m][i] <= Room(I)'
      BY <3>2, <3>3, <3>4, <3>5 DEF Missing
    <3> QED BY <3>6 DEF I
  <2> QED BY <1>2, <2>1, <2>2
<1> QED BY <1>4, <1>6, <1>7, <1>8 DEF RoomsGrow, Counters

LEMMA RecordEndsFits ==
  ASSUME SpendInv, NEW c \in Call, InsertRow(c) \/ RecordFails(c)
  PROVE  Counters'
<1>0. TypeInv /\ RecordFits
  BY DEF SpendInv
<1>1. UNCHANGED <<billed, cache, maps>>
  BY DEF InsertRow, RecordFails, DbUnchanged
<1>2. call[c].record \in Unrecorded /\ call[c].inst \in Owner
  BY <1>0, RecordEndsIs
<1>3. PICK k \in Calls : call' = [call EXCEPT ![c] = k] /\ Fits(k) /\ k.pc = "over" /\ k.record = "none"
  BY <1>0, RecordEndsIs
<1>4. \/ recorded' = recorded
      \/ call[c].record = "inserting" /\ recorded' = [recorded EXCEPT ![call[c].inst] = @ + 1]
  BY DEF InsertRow, RecordFails, DbUnchanged
<1>5. RoomsGrow
  BY <1>0, <1>1, <1>2, <1>3, <1>4, RecordedRooms
<1>6. \A d \in Call : HeldFits(call[d])'
  <2>1. HeldFits(k)
    BY <1>3 DEF HeldFits
  <2> QED BY <1>3, <1>5, <2>1, HeldSteps
<1>7. CacheFits' /\ MapsFit'
  BY <1>0, <1>1, <1>5, CacheStays, MapsStay DEF SpendInv
<1> QED BY <1>5, <1>6, <1>7 DEF RoomsGrow, Counters

\* The steps that leave every call what it holds, or end them all.
LEMMA WorldFits ==
  ASSUME SpendInv, RoomsGrow, cache' \in {cache, None}, \A m \in MapId : maps'[m] \in {maps[m], EmptyMap},
         \A d \in Call :
           \/ call'[d].pc \notin {"platform", "instance"}
           \/ /\ call'[d].pc = call[d].pc /\ call'[d].got = call[d].got
              /\ call'[d].platform = call[d].platform /\ call'[d].inst = call[d].inst
  PROVE  Counters'
<1>1. CacheFits' /\ MapsFit'
  BY CacheStays, MapsStay DEF SpendInv
<1>2. \A d \in Call : HeldFits(call[d])'
  BY HeldStays
<1> QED BY <1>1, <1>2 DEF RoomsGrow, Counters

LEMMA NextFits == SpendInv /\ Next => Counters'
<1> SUFFICES ASSUME SpendInv, Next PROVE Counters'
  OBVIOUS
<1>0. TypeInv /\ RecordFits
  BY DEF SpendInv
<1>1. ASSUME NEW c \in Call, Loads(c) PROVE Counters'
  BY <1>1, LoadsAre, AroundFits, ResumesFits DEF Around
<1>2. ASSUME NEW c \in Call, InstanceLoaded(c) PROVE Counters'
  <2>1. UNCHANGED clock /\ DbUnchanged
    BY <1>2 DEF InstanceLoaded
  <2>2. PICK id \in MapId, map \in Spent : Brings(c, id, map)
    BY <1>0, <1>2, InstanceLoadedIs
  <2> QED BY <2>1, <2>2, BringsFits
<1>3. CASE \E c \in Call : Request(c) \/ Steps(c)
  <2>1. PICK c \in Call : Request(c) \/ Steps(c)
    BY <1>3
  <2>2. CASE Request(c) \/ CheckHits(c) \/ CheckLoads(c) \/ Answers(c) \/ CheckFails(c)
    <3>1. DbUnchanged
      BY <2>2 DEF Request, CheckHits, CheckLoads, Answers, CheckFails
    <3> QED BY <2>2, <3>1, AroundFits DEF Around
  <2> QED BY <1>1, <1>2, <2>1, <2>2, ProviderFits DEF Steps, Loads
<1>4. CASE MinutePasses
  <2>1. UNCHANGED <<call, cache, maps, billed, recorded>>
    BY <1>4 DEF MinutePasses, DbUnchanged
  <2>2. RoomsGrow
    BY <1>0, <2>1, LostRooms
  <2> QED BY <2>1, <2>2, WorldFits
<1>5. ASSUME NEW i \in Instance, SpendsElsewhere(i) PROVE Counters'
  <2>1. UNCHANGED <<call, cache, maps>> /\ i \in Owner
    BY <1>5 DEF SpendsElsewhere, Owner
  <2>2. billed' = [billed EXCEPT ![i] = @ + 1] /\ recorded' = [recorded EXCEPT ![i] = @ + 1]
    BY <1>5 DEF SpendsElsewhere
  <2>3. RoomsGrow
    BY <1>0, <2>1, <2>2, ElsewhereRooms
  <2> QED BY <2>1, <2>3, WorldFits
<1>6. ASSUME NEW new \in Limits, SaveBegins(new) \/ SaveEnds PROVE Counters'
  <2>1. /\ UNCHANGED <<recorded, billed>> /\ cache' \in {cache, None}
        /\ \A m \in MapId : maps'[m] \in {maps[m], EmptyMap}
        /\ \A c \in Call :
              /\ call'[c].pc = call[c].pc /\ call'[c].record = call[c].record /\ call'[c].inst = call[c].inst
              /\ call'[c].got = call[c].got /\ call'[c].platform = call[c].platform
    BY <1>0, <1>6, SaveIs
  <2>2. RoomsGrow
    BY <1>0, <2>1, LostRooms
  <2> QED BY <2>1, <2>2, WorldFits
<1>7. CASE Restart
  <2>1. /\ UNCHANGED <<recorded, billed>> /\ cache' = None /\ \A m \in MapId : maps'[m] = EmptyMap
        /\ \A c \in Call : call'[c].pc \in {"idle", "over"} /\ call'[c].record = "none"
    BY <1>0, <1>7, RestartIs
  <2>2. RoomsGrow
    BY <1>0, <2>1, LostRooms
  <2> QED BY <2>1, <2>2, WorldFits
<1>8. limit \in Limits
  BY <1>0 DEF TypeInv
<1> QED BY <1>3, <1>4, <1>5, <1>6, <1>7, <1>8, NoteFits, RecordEndsFits DEF Next

LEMMA InitFits == Init => SpendInv
<1> SUFFICES ASSUME Init PROVE SpendInv
  OBVIOUS
<1>1. TypeInv
  BY InitTyped
<1>2. ASSUME NEW R \in {Noting, Unrecorded}, NEW I PROVE Count(call, R, I) = 0
  <2>1. \A c \in Call : call[c].record \notin R
    BY NewCallIs DEF Init, Noting, Unrecorded
  <2>2. {c \in Call : call[c].record \in R /\ call[c].inst \in I} = {}
    BY <2>1
  <2> QED BY <2>2, FS_EmptySet DEF Count
<1>3. RecordFits
  <2>1. recorded = billed
    BY DEF Init
  <2>2. \A I : Sum(recorded, I) = Sum(billed, I)
    BY <2>1
  <2> QED BY <1>1, <1>2, <2>2, SumsAreNat DEF RecordFits
<1>4. CacheFits /\ \A c \in Call : HeldFits(call[c])
  BY DEF Init, CacheFits, HeldFits, NewCall
<1>5. MapsFit
  <2> SUFFICES ASSUME NEW m \in MapId, NEW i \in Instance PROVE maps[m][i] <= Room({i})
    BY DEF MapsFit
  <2> DEFINE I == {i}
  <2>1. I \in Scopes
    BY ScopesAre
  <2> HIDE DEF I
  <2>2. Room(I) \in Nat
    BY <1>1, <1>3, <2>1, RoomIsNat
  <2>3. maps[m][i] = Missing
    BY DEF Init, EmptyMap
  <2>4. maps[m][i] <= Room(I)
    BY <2>2, <2>3 DEF Missing
  <2> QED BY <2>4 DEF I
<1> QED BY <1>1, <1>3, <1>4, <1>5 DEF SpendInv

LEMMA StutterFits == SpendInv /\ UNCHANGED vars => SpendInv'
<1> SUFFICES ASSUME SpendInv, UNCHANGED vars PROVE SpendInv'
  OBVIOUS
<1>1. UNCHANGED <<call, cache, maps, billed, recorded>> /\ TypeInv'
  BY StutterTyped DEF SpendInv, vars
<1>2. RoomsGrow
  BY <1>1, LostRooms DEF SpendInv
<1> QED BY <1>1, <1>2, WorldFits DEF SpendInv, Counters

LEMMA SpendInvariance == Spec => []SpendInv
<1>1. SpendInv /\ Next => SpendInv'
  BY NextTyped, NextFits DEF SpendInv, Counters
<1> QED BY InitFits, <1>1, StutterFits, PTL DEF Spec

\* The counters that a refusal rests on never exceed what the providers billed:
\* a cost is not counted both from its row and from the note of it.
THEOREM NeverOvercountsHolds == Spec => []NeverOvercounts
<1>1. SpendInv => NeverOvercounts
  <2> SUFFICES ASSUME SpendInv, cache # None
               PROVE  cache.platform <= Total(billed) /\ \A i \in Instance : maps[cache.map][i] <= billed[i]
    BY DEF NeverOvercounts
  <2>0. TypeInv /\ RecordFits /\ cache \in Seen
    BY DEF SpendInv, TypeInv
  <2>1. ASSUME NEW I \in Scopes PROVE Room(I) \in Nat /\ Sum(billed, I) \in Nat /\ Room(I) <= Sum(billed, I)
    BY <2>0, RoomIsNat, SumsAreNat, CountIsNat DEF Room
  <2>2. Total(billed) = Sum(billed, Owner) /\ \A i \in Instance : Sum(billed, {i}) = billed[i]
    BY <2>0, TotalIsSum, SumOfOne DEF TypeInv, Owner
  <2>3. cache.platform <= Total(billed)
    BY <2>0, <2>1, <2>2, ScopesAre DEF SpendInv, CacheFits, Seen
  <2>4. ASSUME NEW i \in Instance PROVE maps[cache.map][i] <= billed[i]
    <3> DEFINE I == {i}
    <3>1. I \in Scopes
      BY ScopesAre
    <3>2. maps[cache.map][i] \in Nat \cup {Missing} /\ maps[cache.map][i] <= Room(I)
      BY <2>0 DEF SpendInv, MapsFit, TypeInv, Spent, Seen
    <3>3. Sum(billed, I) = billed[i]
      BY <2>2
    <3> HIDE DEF I
    <3> QED BY <2>1, <3>1, <3>2, <3>3 DEF Missing
  <2> QED BY <2>3, <2>4
<1> QED BY SpendInvariance, <1>1, PTL

-----------------------------------------------------------------------------
(* A call that is due for refusal is not sent.                             *)

\* What a step may do without a call ceasing to be due.
Keeps(now, i) ==
  /\ limit' = limit
  /\ Fresh(now)' => cache'.limits = limit
  /\ \A d \in Call : SameLimits(now, call[d])'
  /\ PlatformDue(now) => /\ Total(recorded)' >= limit.platform
                         /\ Fresh(now)' => cache'.platform >= limit.platform
                         /\ \A d \in Call : PlatformFull(call[d])'
  /\ InstanceDue(now, i) => /\ recorded'[i] >= limit.instance
                            /\ Fresh(now)' => Full(cache.map, i)'
                            /\ \A d \in Call : InstanceFull(i, call[d])'

LEMMA DueKept ==
  ASSUME NEW now, NEW i, Due(now, i), Keeps(now, i)
  PROVE  Due(now, i)'
<1>1. limit' = limit /\ (Fresh(now) => cache.limits = limit)' /\ (\A d \in Call : SameLimits(now, call[d]))'
  BY DEF Keeps
<1>2. PlatformDue(now) => PlatformDue(now)'
  BY <1>1 DEF Keeps, PlatformDue
<1>3. InstanceDue(now, i) => InstanceDue(now, i)'
  BY <1>1 DEF Keeps, InstanceDue
<1> QED BY <1>1, <1>2, <1>3 DEF Due

\* The database's rows only grow.
LEMMA RowsStay ==
  ASSUME TypeInv, recorded' = recorded \/ \E o \in Owner : recorded' = [recorded EXCEPT ![o] = @ + 1]
  PROVE  /\ Total(recorded) \in Nat /\ Total(recorded)' \in Nat /\ Total(recorded)' >= Total(recorded)
         /\ \A i \in Instance : recorded[i] \in Nat /\ recorded'[i] \in Nat /\ recorded'[i] >= recorded[i]
<1>1. recorded \in [Owner -> Nat] /\ Owner \in SUBSET Owner
  BY DEF TypeInv
<1>2. Total(recorded) = Sum(recorded, Owner) /\ Sum(recorded, Owner) \in Nat
  BY <1>1, TotalIsSum, SumIsNat
<1>3. \A i \in Instance : recorded[i] \in Nat /\ recorded'[i] \in Nat /\ recorded'[i] >= recorded[i]
  BY <1>1 DEF Owner
<1>4. CASE recorded' = recorded
  <2>1. Total(recorded)' = Total(recorded)
    BY <1>4 DEF Total, FoldFunction, FoldFunctionOnSet, MapThenFoldSet
  <2> QED BY <1>2, <1>3, <2>1
<1>5. ASSUME NEW o \in Owner, recorded' = [recorded EXCEPT ![o] = @ + 1]
      PROVE  Total(recorded)' \in Nat /\ Total(recorded)' >= Total(recorded)
  <2> DEFINE new == [recorded EXCEPT ![o] = @ + 1]
  <2>1. new \in [Owner -> Nat]
    BY <1>1, RowsGrow
  <2>2. Sum(new, Owner) = Sum(recorded, Owner) + 1
    BY <1>1, SumGrows
  <2>3. new \in [Owner -> Nat] /\ DOMAIN new = Owner
    BY <2>1
  <2> HIDE DEF new
  <2>4. Total(new) = Sum(new, Owner)
    BY <2>3, TotalIsSum
  <2>5. Total(recorded)' = Total(new)
    BY <1>5 DEF new, Total, FoldFunction, FoldFunctionOnSet, MapThenFoldSet
  <2> QED BY <1>2, <2>2, <2>4, <2>5
<1> QED BY <1>2, <1>3, <1>4, <1>5

\* What the record k of a call needs for the due calls to stay so.
Suits(k, now, i) ==
  /\ SameLimits(now, k)
  /\ PlatformDue(now) => PlatformFull(k)
  /\ InstanceDue(now, i) => InstanceFull(i, k)

LEMMA IdleSuits ==
  ASSUME NEW k, k.pc \notin Awaits, NEW now, NEW i
  PROVE  Suits(k, now, i)
BY DEF Suits, SameLimits, PlatformFull, InstanceFull, Awaits

LEMMA DueSuits ==
  ASSUME NEW now, NEW i, Due(now, i), NEW d \in Call
  PROVE  Suits(call[d], now, i)
BY DEF Due, Suits, PlatformDue, InstanceDue

\* One call changes and the cache stays.
LEMMA CallKeeps ==
  ASSUME TypeInv, NEW d \in Call, NEW k \in Calls, call' = [call EXCEPT ![d] = k],
         UNCHANGED <<limit, cache, maps>>,
         recorded' = recorded \/ \E o \in Owner : recorded' = [recorded EXCEPT ![o] = @ + 1],
         NEW now, NEW i, Due(now, i), Suits(k, now, i)
  PROVE  Keeps(now, i)
<1>1. call'[d] = k /\ \A e \in Call : e # d => call'[e] = call[e]
  BY DEF TypeInv
<1>2. \A e \in Call : call'[e] = k \/ call'[e] = call[e]
  BY <1>1
<1>3. limit' = limit /\ cache' = cache /\ maps' = maps
  OBVIOUS
<1>4. \A e \in Call : SameLimits(now, call[e])'
  BY <1>2, <1>3 DEF Due, Suits, SameLimits
<1>5. PlatformDue(now) => \A e \in Call : PlatformFull(call[e])'
  BY <1>2, <1>3 DEF PlatformDue, Suits, PlatformFull
<1>6. InstanceDue(now, i) => \A e \in Call : InstanceFull(i, call[e])'
  BY <1>2, <1>3 DEF InstanceDue, Suits, InstanceFull, Full
<1>7. PlatformDue(now) => Total(recorded)' >= limit.platform
  BY RowsStay DEF PlatformDue, TypeInv, Limits
<1>8. InstanceDue(now, i) => recorded'[i] >= limit.instance
  BY RowsStay DEF InstanceDue, TypeInv, Limits
<1>9. Fresh(now)' => Fresh(now)
  BY <1>3 DEF Fresh
<1>10. Fresh(now)' => cache'.limits = limit
  BY <1>3, <1>9 DEF Due
<1>11. PlatformDue(now) => (Fresh(now)' => cache'.platform >= limit.platform)
  BY <1>3, <1>9 DEF PlatformDue
<1>12. InstanceDue(now, i) => (Fresh(now)' => Full(cache.map, i)')
  BY <1>3, <1>9 DEF InstanceDue, Full
<1> QED BY <1>3, <1>4, <1>5, <1>6, <1>7, <1>8, <1>10, <1>11, <1>12 DEF Keeps

\* A call that is due waits for the database, and asked no later than now.
LEMMA DueIs ==
  ASSUME TypeInv, DueFits, NEW c \in Call, NEW now \in 0 .. MaxClock, NEW i \in Owner,
         call[c].due, call[c].now = now, call[c].inst = i
  PROVE  Loading(c) /\ Due(now, i) /\ now <= clock
BY DEF DueFits, TypeInv, Fits

\* Nobody is made due, or asks anew, and those who are stay so.
LEMMA AllKept ==
  ASSUME TypeInv, DueFits,
         \A c \in Call : call'[c].due => /\ call[c].due /\ call'[c].now = call[c].now /\ call'[c].inst = call[c].inst
                                         /\ call'[c].pc \in Awaits,
         \A c \in Call, now \in 0 .. MaxClock, i \in Owner :
           call[c].due /\ call'[c].due /\ Loading(c) /\ call[c].now = now /\ call[c].inst = i /\ Due(now, i) /\ now <= clock => Keeps(now, i)
  PROVE  DueFits'
<1> SUFFICES ASSUME NEW c \in Call, NEW now \in 0 .. MaxClock, NEW i \in Owner,
                    call'[c].due, call'[c].now = now, call'[c].inst = i
             PROVE  Loading(c)' /\ Due(now, i)'
  BY DEF DueFits
<1>1. call[c].due /\ call[c].now = now /\ call[c].inst = i /\ call'[c].pc \in Awaits
  OBVIOUS
<1>2. Loading(c) /\ Due(now, i) /\ now <= clock
  BY <1>1, DueIs
<1>3. Due(now, i)'
  BY <1>1, <1>2, DueKept
<1> QED BY <1>1, <1>3 DEF Loading

\* One call steps and the cache stays: the call is not due, or still is.
LEMMA CallDues ==
  ASSUME TypeInv, DueFits, NEW d \in Call, NEW k \in Calls, call' = [call EXCEPT ![d] = k],
         UNCHANGED <<limit, cache, maps>>,
         recorded' = recorded \/ \E o \in Owner : recorded' = [recorded EXCEPT ![o] = @ + 1],
         k.due => call[d].due /\ k.now = call[d].now /\ k.inst = call[d].inst /\ k.pc \in Awaits,
         \A now \in 0 .. MaxClock, i \in Owner : Due(now, i) /\ now <= clock => Suits(k, now, i)
  PROVE  DueFits'
<1>1. call'[d] = k /\ \A e \in Call : e # d => call'[e] = call[e]
  BY DEF TypeInv
<1>2. ASSUME NEW c \in Call, call'[c].due
      PROVE  /\ call[c].due /\ call'[c].now = call[c].now /\ call'[c].inst = call[c].inst
             /\ call'[c].pc \in Awaits
  <2>1. CASE c = d
    BY <1>1, <1>2, <2>1
  <2>2. CASE c # d
    <3>1. call[c].due /\ call[c].now \in 0 .. MaxClock /\ call[c].inst \in Owner
      BY <1>1, <1>2, <2>2 DEF TypeInv, Calls
    <3>2. Loading(c)
      BY <3>1, DueIs
    <3> QED BY <1>1, <2>2, <3>1, <3>2 DEF Loading
  <2> QED BY <2>1, <2>2
<1>3. ASSUME NEW now \in 0 .. MaxClock, NEW i \in Owner, Due(now, i), now <= clock PROVE Keeps(now, i)
  BY <1>3, CallKeeps
<1> QED BY <1>2, <1>3, AllKept

\* The answers of the database reach the ceiling that is due.
LEMMA AnswersDue ==
  ASSUME TypeInv, DueFits, NEW d \in Call, Answers(d)
  PROVE  DueFits'
<1>1. Loading(d) /\ UNCHANGED <<cache, maps>> /\ DbUnchanged
  BY DEF Answers
<1>2. PICK k \in Calls : /\ call' = [call EXCEPT ![d] = k]
                         /\ k.pc = call[d].pc /\ k.now = call[d].now /\ k.due = call[d].due
                         /\ k.inst = call[d].inst /\ k.limits = call[d].limits /\ k.map = call[d].map
                         /\ k.platform = call[d].platform
                         /\ k.pc = "settings" => k.got = limit
                         /\ k.pc = "platform" => k.got = Total(recorded)
                         /\ k.pc = "instance" => k.got = recorded[k.inst]
  BY AnswersIs
<1>3. ASSUME NEW now \in 0 .. MaxClock, NEW i \in Owner, Due(now, i) PROVE Suits(k, now, i)
  <2>1. Suits(call[d], now, i)
    BY <1>3, DueSuits
  <2>2. SameLimits(now, k)
    BY <1>2, <2>1 DEF Suits, SameLimits, Awaits
  <2>3. PlatformDue(now) => PlatformFull(k)
    BY <1>2, <2>1 DEF Suits, PlatformFull, PlatformDue
  <2>4. InstanceDue(now, i) => InstanceFull(i, k)
    BY <1>2, <2>1 DEF Suits, InstanceFull, InstanceDue
  <2> QED BY <2>2, <2>3, <2>4 DEF Suits
<1>4. k.pc \in Awaits
  BY <1>1, <1>2 DEF Loading
<1> QED BY <1>1, <1>2, <1>3, <1>4, CallDues DEF DbUnchanged

LEMMA AsksPlatformDue ==
  ASSUME TypeInv, DueFits, NEW d \in Call, AsksPlatform(d), DbUnchanged
  PROVE  DueFits'
<1>1. UNCHANGED <<cache, maps>> /\ call[d].pc = "settings" /\ call[d].got # None
  BY DEF AsksPlatform
<1>2. PICK k \in Calls : /\ call' = [call EXCEPT ![d] = k]
                         /\ k.pc = "platform" /\ k.got = None /\ k.limits = call[d].got
                         /\ k.now = call[d].now /\ k.due = call[d].due /\ k.inst = call[d].inst
  BY AsksPlatformIs
<1>3. ASSUME NEW now \in 0 .. MaxClock, NEW i \in Owner, Due(now, i) PROVE Suits(k, now, i)
  <2>1. SameLimits(now, call[d])
    BY <1>3, DueSuits DEF Suits
  <2>2. SameLimits(now, k)
    BY <1>1, <1>2, <2>1 DEF SameLimits, Awaits
  <2> QED BY <1>2, <2>2 DEF Suits, PlatformFull, InstanceFull
<1>4. k.pc \in Awaits
  BY <1>2 DEF Awaits
<1> QED BY <1>1, <1>2, <1>3, <1>4, CallDues DEF DbUnchanged

\* A check begins: it is due when what it will find has reached a ceiling.
LEMMA CheckLoadsDue ==
  ASSUME TypeInv, DueFits, NEW d \in Call, CheckLoads(d)
  PROVE  DueFits'
<1>0. UNCHANGED <<cache, maps, clock>> /\ DbUnchanged
  BY DEF CheckLoads
<1>1. call[d].pc = "check" /\ ~Fresh(clock)
  BY CheckLoadsIs
<1>2. PICK k \in Calls : /\ call' = [call EXCEPT ![d] = k]
                         /\ k.pc = "settings" /\ k.got = None /\ k.now = clock /\ k.inst = call[d].inst
                         /\ k.due => OverLimit(k.inst) /\ \A e \in Call : ~Loading(e)
  BY CheckLoadsIs
<1>3. call'[d] = k /\ \A e \in Call : e # d => call'[e] = call[e]
  BY <1>2 DEF TypeInv
<1>4. CASE k.due
  <2>1. \A e \in Call : call'[e].pc \in Awaits => e = d
    BY <1>2, <1>3, <1>4 DEF Loading
  <2>2. \A e \in Call : e # d => ~call'[e].due
    <3> TAKE e \in Call
    <3>1. call[e].now \in 0 .. MaxClock /\ call[e].inst \in Owner
      BY DEF TypeInv, Calls
    <3> QED BY <1>2, <1>3, <1>4, <3>1, DueIs
  <2> SUFFICES ASSUME NEW now \in 0 .. MaxClock, NEW i \in Owner, now = clock, i = k.inst
               PROVE  Loading(d)' /\ Due(now, i)'
    BY <1>2, <1>3, <2>2 DEF DueFits
  <2>3. ~Fresh(now)'
    BY <1>0, <1>1 DEF Fresh
  <2>4. \A e \in Call : SameLimits(now, call[e])'
    <3> TAKE e \in Call
    <3>1. e = d \/ call'[e].pc \notin Awaits
      BY <2>1
    <3>2. now >= now
      BY DEF TypeInv
    <3> QED BY <1>2, <1>3, <3>1, <3>2 DEF SameLimits, Awaits
  <2>5. \A e \in Call : PlatformFull(call[e])' /\ InstanceFull(i, call[e])'
    <3> TAKE e \in Call
    <3>1. e = d \/ call'[e].pc \notin Awaits
      BY <2>1
    <3> QED BY <1>2, <1>3, <3>1 DEF PlatformFull, InstanceFull, Awaits
  <2>6. UNCHANGED <<limit, recorded>> /\ Total(recorded)' = Total(recorded)
    BY <1>0 DEF DbUnchanged, Total, FoldFunction, FoldFunctionOnSet, MapThenFoldSet
  <2>7. PlatformDue(now)' \/ InstanceDue(now, i)'
    <3>1. \/ limit.platform > 0 /\ Total(recorded) >= limit.platform
          \/ i # None /\ limit.instance > 0 /\ recorded[i] >= limit.instance
      BY <1>2, <1>4 DEF OverLimit, Reached
    <3>2. CASE limit.platform > 0 /\ Total(recorded) >= limit.platform
      BY <2>3, <2>5, <2>6, <3>2 DEF PlatformDue
    <3>3. CASE i # None /\ limit.instance > 0 /\ recorded[i] >= limit.instance
      BY <2>3, <2>5, <2>6, <3>3 DEF InstanceDue, Owner
    <3> QED BY <3>1, <3>2, <3>3
  <2> QED BY <1>2, <1>3, <2>3, <2>4, <2>7 DEF Due, Loading, Awaits
<1>5. CASE ~k.due
  <2>1. ASSUME NEW now \in 0 .. MaxClock, NEW i \in Owner, now <= clock PROVE Suits(k, now, i)
    <3>1. k.now >= now
      BY <1>2, <2>1 DEF TypeInv
    <3> QED BY <1>2, <3>1 DEF Suits, SameLimits, PlatformFull, InstanceFull
  <2> QED BY <1>0, <1>2, <1>5, <2>1, CallDues DEF DbUnchanged
<1> QED BY <1>4, <1>5

\* A call that is no longer being checked, or not yet, is not due.
LEMMA EndsDue ==
  ASSUME TypeInv, DueFits, NEW d \in Call, NEW k \in Calls, call' = [call EXCEPT ![d] = k],
         UNCHANGED <<limit, cache, maps>>,
         recorded' = recorded \/ \E o \in Owner : recorded' = [recorded EXCEPT ![o] = @ + 1],
         k.pc \notin Awaits, ~k.due
  PROVE  DueFits'
<1>1. \A now \in 0 .. MaxClock, i \in Owner : Suits(k, now, i)
  BY IdleSuits
<1> QED BY <1>1, CallDues

LEMMA NotDue ==
  ASSUME TypeInv, DueFits, NEW d \in Call, ~Loading(d)
  PROVE  ~call[d].due
<1>1. call[d].now \in 0 .. MaxClock /\ call[d].inst \in Owner /\ call[d].due \in BOOLEAN
  BY DEF TypeInv, Calls
<1> QED BY <1>1, DueIs

LEMMA OutsideDue ==
  ASSUME TypeInv, DueFits, NEW d \in Call,
         \/ Request(d) \/ CheckHits(d) \/ CheckFails(d)
         \/ ProviderAnswers(d) \/ ProviderFails(d) \/ CallThrows(d)
         \/ InsertRow(d) \/ RecordFails(d)
  PROVE  DueFits'
<1>1. UNCHANGED <<limit, cache, maps>>
  BY DEF Request, CheckHits, CheckFails, ProviderAnswers, ProviderFails, CallThrows, InsertRow,
       RecordFails, DbUnchanged
<1>2. recorded' = recorded \/ \E o \in Owner : recorded' = [recorded EXCEPT ![o] = @ + 1]
  <2>1. CASE InsertRow(d)
    BY <2>1, RecordEndsIs DEF InsertRow
  <2>2. CASE ~InsertRow(d)
    BY <2>2 DEF Request, CheckHits, CheckFails, ProviderAnswers, ProviderFails, CallThrows,
         RecordFails, DbUnchanged
  <2> QED BY <2>1, <2>2
<1>3. \E k \in Calls : call' = [call EXCEPT ![d] = k] /\ k.pc \notin Awaits /\ ~k.due
  <2>1. CASE Request(d)
    <3>1. call[d].pc = "idle"
      BY <2>1, RequestIs
    <3>2. ~call[d].due
      BY <3>1, NotDue DEF Loading, Awaits
    <3> QED BY <2>1, <3>2, RequestIs DEF Awaits
  <2>2. CASE CheckHits(d)
    BY <2>2, CheckHitsIs DEF Awaits
  <2>3. CASE CheckFails(d)
    BY <2>3, CheckFailsIs DEF Awaits
  <2>4. CASE ProviderAnswers(d) \/ ProviderFails(d) \/ CallThrows(d)
    <3>1. call[d].pc = "send"
      BY <2>4, ProviderIs
    <3>2. ~call[d].due
      BY <3>1, NotDue DEF Loading, Awaits
    <3> QED BY <2>4, <3>2, ProviderIs DEF Awaits
  <2>5. CASE InsertRow(d) \/ RecordFails(d)
    BY <2>5, RecordEndsIs DEF Awaits
  <2> QED BY <2>1, <2>2, <2>3, <2>4, <2>5
<1> QED BY <1>1, <1>2, <1>3, EndsDue

LEMMA NoteDue ==
  ASSUME TypeInv, DueFits, NEW d \in Call, NoteSpend(d)
  PROVE  DueFits'
<1>1. UNCHANGED <<limit, recorded>>
  BY DEF NoteSpend, DbUnchanged
<1>2. /\ call[d].record = "noting"
      /\ IF cache = None THEN cache' = None
         ELSE cache' \in Seen /\ cache' = [cache EXCEPT !.platform = @ + 1]
      /\ \/ maps' = maps
         \/ /\ cache # None /\ call[d].inst \in Instance /\ maps[cache.map][call[d].inst] # Missing
            /\ maps' = [maps EXCEPT ![cache.map][call[d].inst] = @ + 1]
  BY NoteSpendIs
<1>3. PICK k \in Calls : call' = [call EXCEPT ![d] = k] /\ k.pc = call[d].pc /\ k.due = call[d].due
  BY NoteSpendIs
<1>4. call[d].pc = "over"
  BY <1>2 DEF TypeInv, Fits
<1>5. ~call[d].due
  BY <1>4, NotDue DEF Loading, Awaits
<1>6. call'[d] = k /\ \A e \in Call : e # d => call'[e] = call[e]
  BY <1>3 DEF TypeInv
<1>7. \A e \in Call : call'[e].pc \in Awaits => call'[e] = call[e]
  BY <1>3, <1>4, <1>6 DEF Awaits
<1>8. \A e \in Call : call'[e].due => call'[e] = call[e] /\ call'[e].pc \in Awaits
  <2> SUFFICES ASSUME NEW e \in Call, call'[e].due PROVE call'[e] = call[e] /\ call'[e].pc \in Awaits
    OBVIOUS
  <2>1. call'[e] = call[e]
    BY <1>3, <1>5, <1>6
  <2> QED BY <2>1, NotDue DEF Loading
<1>9. /\ cache' # None => cache # None /\ cache'.at = cache.at /\ cache'.limits = cache.limits /\ cache'.map = cache.map
                          /\ {cache.platform, cache'.platform} \subseteq Nat /\ cache'.platform >= cache.platform
  BY <1>2 DEF TypeInv, Seen
<1>10. ASSUME NEW m \in MapId, NEW i \in Instance, Full(m, i) PROVE Full(m, i)'
  <2>1. maps[m][i] \in Nat \cup {Missing} /\ limit.instance \in Nat
    BY DEF TypeInv, Spent, Limits
  <2>2. maps'[m][i] = maps[m][i] \/ (maps[m][i] # Missing /\ maps'[m][i] = maps[m][i] + 1)
    BY <1>2 DEF TypeInv, Spent
  <2> QED BY <1>1, <1>10, <2>1, <2>2 DEF Full, Missing
<1>11. ASSUME NEW now \in 0 .. MaxClock, NEW i \in Owner, Due(now, i) PROVE Keeps(now, i)
  <2>1. Fresh(now)' => Fresh(now)
    BY <1>9 DEF Fresh
  <2>2. Fresh(now)' => cache'.limits = limit
    BY <1>9, <1>11, <2>1 DEF Due, Fresh
  <2>3. \A e \in Call : SameLimits(now, call[e])'
    <3> TAKE e \in Call
    <3>1. SameLimits(now, call[e])
      BY <1>11 DEF Due
    <3> QED BY <1>1, <1>7, <3>1 DEF SameLimits, Awaits
  <2>4. PlatformDue(now) => /\ Total(recorded)' >= limit.platform
                            /\ Fresh(now)' => cache'.platform >= limit.platform
                            /\ \A e \in Call : PlatformFull(call[e])'
    <3> SUFFICES ASSUME PlatformDue(now)
                 PROVE  /\ Total(recorded)' >= limit.platform
                        /\ Fresh(now)' => cache'.platform >= limit.platform
                        /\ \A e \in Call : PlatformFull(call[e])'
      OBVIOUS
    <3>1. Total(recorded)' >= limit.platform
      BY <1>1, RowsStay DEF PlatformDue, TypeInv, Limits
    <3>2. Fresh(now)' => cache'.platform >= limit.platform
      <4> SUFFICES ASSUME Fresh(now)' PROVE cache'.platform >= limit.platform
        OBVIOUS
      <4>1. cache' # None
        BY DEF Fresh
      <4>2. {cache.platform, cache'.platform} \subseteq Nat /\ cache'.platform >= cache.platform
        BY <1>9, <4>1
      <4>3. cache.platform >= limit.platform /\ limit.platform \in Nat
        BY <2>1 DEF PlatformDue, TypeInv, Limits
      <4> QED BY <4>2, <4>3
    <3>3. \A e \in Call : PlatformFull(call[e])'
      <4> TAKE e \in Call
      <4>1. PlatformFull(call[e])
        BY DEF PlatformDue
      <4> QED BY <1>1, <1>7, <4>1 DEF PlatformFull, Awaits
    <3> QED BY <3>1, <3>2, <3>3
  <2>5. InstanceDue(now, i) => /\ recorded'[i] >= limit.instance
                               /\ Fresh(now)' => Full(cache.map, i)'
                               /\ \A e \in Call : InstanceFull(i, call[e])'
    <3> SUFFICES ASSUME InstanceDue(now, i)
                 PROVE  /\ recorded'[i] >= limit.instance
                        /\ Fresh(now)' => Full(cache.map, i)'
                        /\ \A e \in Call : InstanceFull(i, call[e])'
      OBVIOUS
    <3>0. i \in Instance
      BY DEF InstanceDue
    <3>1. recorded'[i] >= limit.instance
      BY <1>1 DEF InstanceDue
    <3>2. Fresh(now)' => Full(cache.map, i)'
      <4> SUFFICES ASSUME Fresh(now)' PROVE Full(cache.map, i)'
        OBVIOUS
      <4>1. Fresh(now) /\ cache'.map = cache.map /\ cache.map \in MapId /\ Full(cache.map, i)
        BY <1>9, <2>1 DEF Fresh, InstanceDue, TypeInv, Seen
      <4>2. PICK m \in MapId : m = cache.map
        BY <4>1
      <4>3. Full(m, i)'
        BY <1>10, <3>0, <4>1, <4>2
      <4> QED BY <4>1, <4>2, <4>3 DEF Full
    <3>3. \A e \in Call : InstanceFull(i, call[e])'
      <4> TAKE e \in Call
      <4>1. InstanceFull(i, call[e])
        BY DEF InstanceDue
      <4>2. CASE call'[e].pc = "instance"
        <5>1. call'[e] = call[e] /\ call[e].map \in MapId \cup {None}
          BY <1>7, <4>2 DEF Awaits, TypeInv, Calls
        <5>2. PICK k2 \in Calls : k2 = call[e]
          BY DEF TypeInv
        <5>3. k2.map # None => k2.map \in MapId /\ Full(k2.map, i)
          BY <4>1, <4>2, <5>1, <5>2 DEF InstanceFull
        <5>4. k2.map # None => Full(k2.map, i)'
          BY <1>10, <3>0, <5>3
        <5> QED BY <1>1, <4>1, <5>1, <5>2, <5>4 DEF InstanceFull, Full
      <4>3. CASE call'[e].pc # "instance"
        BY <4>3 DEF InstanceFull
      <4> QED BY <4>2, <4>3
    <3> QED BY <3>1, <3>2, <3>3
  <2> QED BY <1>1, <2>2, <2>3, <2>4, <2>5 DEF Keeps
<1> QED BY <1>8, <1>11, AllKept

\* A check that goes on with what it has learnt has learnt no less than what is due.
LEMMA ResumedDue ==
  ASSUME TypeInv, NEW d \in Call, NEW k, NEW lim, NEW platform, Resumed(d, k, lim, platform),
         NEW now \in 0 .. MaxClock, NEW i \in Owner, Due(now, i), now <= clock
  PROVE  /\ k.now >= now /\ lim = limit
         /\ Fresh(k.now) => Fresh(now)
         /\ PlatformDue(now) => platform >= limit.platform
<1>1. SameLimits(now, call[d]) /\ (PlatformDue(now) => PlatformFull(call[d]))
  BY DueSuits DEF Suits
<1>2. call[d] \in Calls /\ Fits(call[d]) /\ clock \in 0 .. MaxClock
  BY DEF TypeInv
<1>3. \A n \in 0 .. MaxClock : now <= n /\ Fresh(n) => Fresh(now)
  BY DEF Fresh, TypeInv, Seen
<1>4. Fresh(now) => cache.limits = limit /\ (PlatformDue(now) => cache.platform >= limit.platform)
  BY DEF Due, PlatformDue
<1>5. CASE call[d].pc = "check"
  <2>1. Fresh(clock) /\ k.now = clock /\ lim = cache.limits /\ platform = cache.platform
    BY <1>2, <1>5 DEF Resumed, Calls
  <2>2. Fresh(now)
    BY <1>2, <1>3, <2>1
  <2>3. clock >= now
    BY <1>2
  <2> QED BY <1>4, <2>1, <2>2, <2>3
<1>6. CASE call[d].pc = "settings"
  <2>1. /\ k = call[d] /\ call[d].got # None /\ lim = call[d].got
        /\ platform = IF cache = None THEN 0 ELSE cache.platform
        /\ lim.platform > 0 => Fresh(call[d].now)
    BY <1>6 DEF Resumed
  <2>2. k.now >= now /\ lim = limit /\ k.now \in 0 .. MaxClock
    BY <1>1, <1>2, <1>6, <2>1 DEF SameLimits, Awaits, Calls
  <2>3. Fresh(k.now) => Fresh(now)
    BY <1>3, <2>2
  <2>4. PlatformDue(now) => cache # None /\ Fresh(now)
    BY <2>1, <2>2, <2>3 DEF PlatformDue, Fresh
  <2> QED BY <1>4, <2>1, <2>2, <2>3, <2>4
<1>7. CASE call[d].pc = "platform"
  <2>1. k = call[d] /\ call[d].got # None /\ lim = call[d].limits /\ platform = call[d].got
    BY <1>7 DEF Resumed
  <2>2. k.now >= now /\ lim = limit /\ k.now \in 0 .. MaxClock
    BY <1>1, <1>2, <1>7, <2>1 DEF SameLimits, Awaits, Calls
  <2>3. Fresh(k.now) => Fresh(now)
    BY <1>3, <2>2
  <2> QED BY <1>1, <1>7, <2>1, <2>2, <2>3 DEF PlatformFull
<1> QED BY <1>5, <1>6, <1>7 DEF Resumed

\* What the check of d stores reaches every ceiling that is due.
Reaches(k, lim, platform, map, now, i) ==
  /\ lim = limit
  /\ PlatformDue(now) => platform >= limit.platform
  /\ InstanceDue(now, i) => map[i] = Missing \/ map[i] >= limit.instance
  /\ InstanceDue(now, i) /\ k.inst = i => map[i] # Missing

LEMMA StoreDue ==
  ASSUME TypeInv, DueFits, NEW d \in Call, NEW k, NEW lim, NEW platform, NEW id, NEW map,
         StoreHolds(d, k, lim, platform, id, map), Store(d, k, lim, platform, id, map), DbUnchanged,
         k.due => call[d].due /\ k.inst = call[d].inst,
         \A now \in 0 .. MaxClock, i \in Owner : Due(now, i) /\ now <= clock => Reaches(k, lim, platform, map, now, i)
  PROVE  DueFits'
<1>1. /\ cache'.limits = lim /\ cache'.platform = platform /\ cache'.map = id
      /\ call' = [call EXCEPT ![d] = Judged(k, cache', map)]
      /\ maps'[id] = map
      /\ \A e \in Call \ {d} : call[e].map # None /\ call[e].map # id => maps'[call[e].map] = maps[call[e].map]
  BY StoreIs
<1> DEFINE j == Judged(k, cache', map)
<1>2. j \in Calls /\ j.pc \in {"over", "send"} /\ (j.due => k.due)
  BY JudgedIs DEF StoreHolds
<1>3. ~j.due
  <2> SUFFICES ASSUME j.due PROVE FALSE
    OBVIOUS
  <2>1. k.due /\ call[d].due /\ k.inst = call[d].inst /\ k \in Calls
    BY <1>2 DEF StoreHolds
  <2>2. PICK now \in 0 .. MaxClock, i \in Owner : now = call[d].now /\ i = call[d].inst
    BY DEF TypeInv, Calls
  <2>3. Due(now, i) /\ now <= clock
    BY <2>1, <2>2, DueIs
  <2>4. Reaches(k, lim, platform, map, now, i)
    BY <2>3
  <2> DEFINE instance == IF k.inst = None \/ map[k.inst] = Missing THEN 0 ELSE map[k.inst]
  <2>5. Reached(lim, platform, k.inst, instance)
    <3>1. CASE PlatformDue(now)
      BY <2>4, <3>1 DEF Reached, Reaches, PlatformDue
    <3>2. CASE InstanceDue(now, i)
      <4>1. k.inst = i /\ i # None /\ limit.instance > 0
        BY <2>1, <2>2, <3>2, BudgetAssumption DEF InstanceDue
      <4>2. map[i] >= limit.instance /\ instance = map[i]
        BY <2>4, <3>2, <4>1 DEF Reaches
      <4> QED BY <2>4, <4>1, <4>2 DEF Reached, Reaches
    <3> QED BY <2>3, <3>1, <3>2 DEF Due
  <2>6. j = Finished(k, "none")
    BY <1>1, <2>5 DEF Judged
  <2>7. Finished(k, "none").due = FALSE
    BY <2>1, FinishedIs
  <2> QED BY <2>6, <2>7
<1>4. call' = [call EXCEPT ![d] = j]
  BY <1>1
<1> HIDE DEF j
<1>5. call'[d] = j /\ \A e \in Call : e # d => call'[e] = call[e]
  BY <1>2, <1>4 DEF TypeInv
<1>6. \A e \in Call : call'[e].pc \in Awaits => e # d /\ call'[e] = call[e]
  BY <1>2, <1>5 DEF Awaits
<1>7. \A e \in Call : call'[e].due => call'[e] = call[e] /\ call'[e].pc \in Awaits
  <2> SUFFICES ASSUME NEW e \in Call, call'[e].due PROVE call'[e] = call[e] /\ call'[e].pc \in Awaits
    OBVIOUS
  <2>1. call'[e] = call[e]
    BY <1>3, <1>5
  <2> QED BY <2>1, NotDue DEF Loading
<1>8. UNCHANGED <<limit, recorded>>
  BY DEF DbUnchanged
<1>9. ASSUME NEW now \in 0 .. MaxClock, NEW i \in Owner, Due(now, i), now <= clock PROVE Keeps(now, i)
  <2>1. Reaches(k, lim, platform, map, now, i)
    BY <1>9
  <2>2. cache'.limits = limit
    BY <1>1, <2>1 DEF Reaches
  <2>3. \A e \in Call : SameLimits(now, call[e])'
    <3> TAKE e \in Call
    <3>1. SameLimits(now, call[e])
      BY <1>9 DEF Due
    <3> QED BY <1>6, <1>8, <3>1 DEF SameLimits, Awaits
  <2>4. PlatformDue(now) => /\ Total(recorded)' >= limit.platform
                            /\ cache'.platform >= limit.platform
                            /\ \A e \in Call : PlatformFull(call[e])'
    <3> SUFFICES ASSUME PlatformDue(now)
                 PROVE  /\ Total(recorded)' >= limit.platform
                        /\ cache'.platform >= limit.platform
                        /\ \A e \in Call : PlatformFull(call[e])'
      OBVIOUS
    <3>1. Total(recorded)' >= limit.platform
      BY <1>8, RowsStay DEF PlatformDue, TypeInv, Limits
    <3>2. cache'.platform >= limit.platform
      BY <1>1, <2>1 DEF Reaches
    <3>3. \A e \in Call : PlatformFull(call[e])'
      <4> TAKE e \in Call
      <4>1. PlatformFull(call[e])
        BY DEF PlatformDue
      <4> QED BY <1>6, <1>8, <4>1 DEF PlatformFull, Awaits
    <3> QED BY <3>1, <3>2, <3>3
  <2>5. InstanceDue(now, i) => /\ recorded'[i] >= limit.instance
                               /\ Full(cache.map, i)'
                               /\ \A e \in Call : InstanceFull(i, call[e])'
    <3> SUFFICES ASSUME InstanceDue(now, i)
                 PROVE  /\ recorded'[i] >= limit.instance
                        /\ Full(cache.map, i)'
                        /\ \A e \in Call : InstanceFull(i, call[e])'
      OBVIOUS
    <3>1. recorded'[i] >= limit.instance
      BY <1>8 DEF InstanceDue
    <3>2. map[i] = Missing \/ map[i] >= limit.instance
      BY <2>1 DEF Reaches
    <3>3. Full(cache.map, i)'
      BY <1>1, <1>8, <3>2 DEF Full
    <3>4. \A e \in Call : InstanceFull(i, call[e])'
      <4> TAKE e \in Call
      <4>1. InstanceFull(i, call[e])
        BY DEF InstanceDue
      <4>2. CASE call'[e].pc = "instance"
        <5>1. call'[e] = call[e] /\ e \in Call \ {d}
          BY <1>6, <4>2 DEF Awaits
        <5>2. call[e].map # None => maps'[call[e].map] = maps[call[e].map] \/ maps'[call[e].map] = map
          BY <1>1, <5>1
        <5>3. call[e].map # None => Full(call[e].map, i)
          BY <4>1, <4>2, <5>1 DEF InstanceFull
        <5>4. call'[e].map # None => maps'[call'[e].map][i] = Missing \/ maps'[call'[e].map][i] >= limit.instance
          BY <3>2, <5>1, <5>2, <5>3 DEF Full
        <5> QED BY <1>8, <4>1, <5>1, <5>4 DEF InstanceFull, Full
      <4>3. CASE call'[e].pc # "instance"
        BY <4>3 DEF InstanceFull
      <4> QED BY <4>2, <4>3
    <3> QED BY <3>1, <3>3, <3>4
  <2> QED BY <1>8, <2>2, <2>3, <2>4, <2>5 DEF Keeps
<1> QED BY <1>7, <1>9, AllKept

LEMMA ResumesDue ==
  ASSUME TypeInv, DueFits, NEW d \in Call, Resumes(d), DbUnchanged, UNCHANGED clock
  PROVE  DueFits'
<1>1. PICK k, lim, platform : Resumed(d, k, lim, platform) /\ WithPlatform(d, k, lim, platform)
  BY DEF Resumes
<1>2. /\ LoadHolds(d, k, lim, platform) /\ k.inst = call[d].inst
      /\ k.due => call[d].due /\ k.now = call[d].now
  BY <1>1, ResumedHolds
<1>3. ASSUME NEW now \in 0 .. MaxClock, NEW i \in Owner, Due(now, i), now <= clock
      PROVE  /\ k.now >= now /\ lim = limit
             /\ Fresh(k.now) => Fresh(now)
             /\ PlatformDue(now) => platform >= limit.platform
  BY <1>1, <1>3, ResumedDue
<1>4. CASE Asks(d, k, lim, platform)
  <2>1. PICK w \in Calls : /\ call' = [call EXCEPT ![d] = w]
                           /\ w.pc = "instance" /\ w.inst = k.inst /\ w.got = None /\ w.limits = lim
                           /\ w.platform = platform /\ w.now = k.now /\ w.due = k.due
                           /\ w.map = IF Fresh(k.now) THEN cache.map ELSE None
    BY <1>4 DEF Asks
  <2>2. UNCHANGED <<cache, maps, limit, recorded>>
    BY <1>4 DEF Asks, DbUnchanged
  <2>3. ASSUME NEW now \in 0 .. MaxClock, NEW i \in Owner, Due(now, i), now <= clock PROVE Suits(w, now, i)
    <3>1. SameLimits(now, w)
      BY <1>3, <2>1, <2>3 DEF SameLimits
    <3>2. PlatformDue(now) => PlatformFull(w)
      BY <1>3, <2>1, <2>3 DEF PlatformFull
    <3>3. InstanceDue(now, i) => InstanceFull(i, w)
      BY <1>3, <2>1, <2>3 DEF InstanceFull, InstanceDue
    <3> QED BY <3>1, <3>2, <3>3 DEF Suits
  <2>4. w.due => call[d].due /\ w.now = call[d].now /\ w.inst = call[d].inst /\ w.pc \in Awaits
    BY <1>2, <2>1 DEF Awaits
  <2> QED BY <2>1, <2>2, <2>3, <2>4, CallDues
<1>5. ASSUME NEW id \in MapId, NEW map \in Spent,
             StoreHolds(d, k, lim, platform, id, map), Store(d, k, lim, platform, id, map), Knowing(k, lim, id, map)
      PROVE  DueFits'
  <2>1. ASSUME NEW now \in 0 .. MaxClock, NEW i \in Owner, Due(now, i), now <= clock
        PROVE  Reaches(k, lim, platform, map, now, i)
    <3>1. InstanceDue(now, i) => map[i] = Missing \/ map[i] >= limit.instance
      <4> SUFFICES ASSUME InstanceDue(now, i) PROVE map[i] = Missing \/ map[i] >= limit.instance
        OBVIOUS
      <4>1. CASE Fresh(k.now)
        BY <1>3, <1>5, <2>1, <4>1 DEF Knowing, InstanceDue, Full
      <4>2. CASE ~Fresh(k.now)
        BY <1>5, <4>2 DEF Knowing, EmptyMap, InstanceDue
      <4> QED BY <4>1, <4>2
    <3>2. InstanceDue(now, i) /\ k.inst = i => map[i] # Missing
      BY <1>3, <1>5, <2>1, BudgetAssumption DEF Knowing, InstanceDue
    <3> QED BY <1>3, <2>1, <3>1, <3>2 DEF Reaches
  <2> QED BY <1>2, <1>5, <2>1, StoreDue
<1> QED BY <1>1, <1>2, <1>4, <1>5, LoadIs

LEMMA BringsDue ==
  ASSUME TypeInv, DueFits, NEW d \in Call, NEW id \in MapId, NEW map \in Spent, Brings(d, id, map), DbUnchanged
  PROVE  DueFits'
<1>1. /\ call[d].pc = "instance" /\ call[d].got # None
      /\ StoreHolds(d, call[d], call[d].limits, call[d].platform, id, map)
      /\ Store(d, call[d], call[d].limits, call[d].platform, id, map)
      /\ call[d] \in Calls /\ Fits(call[d])
  BY DEF Brings, TypeInv
<1>2. call[d].inst \in Instance /\ call[d].got \in Nat
  BY <1>1 DEF Fits
<1>3. ASSUME NEW i \in Instance
      PROVE  IF i = call[d].inst THEN map[i] = call[d].got
             ELSE map[i] = Missing \/ (call[d].map # None /\ map[i] = maps[call[d].map][i])
  <2>1. CASE call[d].map = None
    BY <1>2, <2>1 DEF Brings, EmptyMap
  <2>2. CASE call[d].map # None
    <3>1. id = call[d].map /\ map = [maps[id] EXCEPT ![call[d].inst] = call[d].got] /\ maps[id] \in Spent
      BY <2>2 DEF Brings, TypeInv
    <3> QED BY <2>2, <3>1 DEF Spent
  <2> QED BY <2>1, <2>2
<1>4. ASSUME NEW now \in 0 .. MaxClock, NEW i \in Owner, Due(now, i), now <= clock
      PROVE  Reaches(call[d], call[d].limits, call[d].platform, map, now, i)
  <2>1. Suits(call[d], now, i)
    BY <1>4, DueSuits
  <2>2. call[d].limits = limit
    BY <1>1, <2>1 DEF Suits, SameLimits
  <2>3. PlatformDue(now) => call[d].platform >= limit.platform
    BY <1>1, <2>1 DEF Suits, PlatformFull
  <2>4. ASSUME InstanceDue(now, i)
        PROVE  /\ map[i] = Missing \/ map[i] >= limit.instance
               /\ call[d].inst = i => map[i] # Missing
    <3>1. InstanceFull(i, call[d]) /\ i \in Instance
      BY <2>1, <2>4 DEF Suits, InstanceDue
    <3>2. CASE call[d].inst = i
      BY <1>1, <1>2, <1>3, <3>1, <3>2 DEF InstanceFull, Missing
    <3>3. CASE call[d].inst # i
      BY <1>1, <1>3, <3>1, <3>3 DEF InstanceFull, Full
    <3> QED BY <3>2, <3>3
  <2> QED BY <2>2, <2>3, <2>4 DEF Reaches
<1> QED BY <1>1, <1>4, StoreDue

\* The calls, the cache and the ceilings stay, and the database gains rows.
LEMMA WorldDue ==
  ASSUME TypeInv, DueFits, UNCHANGED <<call, cache, maps, limit>>,
         recorded' = recorded \/ \E o \in Owner : recorded' = [recorded EXCEPT ![o] = @ + 1]
  PROVE  DueFits'
<1>1. \A c \in Call : call'[c].due => call'[c] = call[c] /\ call'[c].pc \in Awaits
  BY NotDue DEF Loading
<1>2. ASSUME NEW d \in Call, NEW now \in 0 .. MaxClock, NEW i \in Owner, Due(now, i) PROVE Keeps(now, i)
  <2>1. PICK k \in Calls : k = call[d]
    BY DEF TypeInv
  <2>2. call' = [call EXCEPT ![d] = k]
    BY <2>1 DEF TypeInv
  <2>3. Suits(k, now, i)
    BY <1>2, <2>1, DueSuits
  <2> QED BY <1>2, <2>2, <2>3, CallKeeps
<1> QED BY <1>1, <1>2, AllKept

LEMMA NextDue == TypeInv /\ DueFits /\ Next => DueFits'
<1> SUFFICES ASSUME TypeInv, DueFits, Next PROVE DueFits'
  OBVIOUS
<1>1. ASSUME NEW c \in Call, Loads(c) PROVE DueFits'
  BY <1>1, LoadsAre, AsksPlatformDue, ResumesDue
<1>2. ASSUME NEW c \in Call, InstanceLoaded(c) PROVE DueFits'
  <2>1. DbUnchanged
    BY <1>2 DEF InstanceLoaded
  <2>2. PICK id \in MapId, map \in Spent : Brings(c, id, map)
    BY <1>2, InstanceLoadedIs
  <2> QED BY <2>1, <2>2, BringsDue
<1>3. CASE \E c \in Call : Request(c) \/ Steps(c)
  BY <1>1, <1>2, <1>3, OutsideDue, CheckLoadsDue, AnswersDue DEF Steps, Loads
<1>4. ASSUME NEW c \in Call, InsertRow(c) \/ RecordFails(c) PROVE DueFits'
  BY <1>4, OutsideDue
<1>5. CASE MinutePasses
  BY <1>5, WorldDue DEF MinutePasses, DbUnchanged
<1>6. ASSUME NEW i \in Instance, SpendsElsewhere(i) PROVE DueFits'
  <2>1. i \in Owner /\ recorded' = [recorded EXCEPT ![i] = @ + 1]
    BY <1>6 DEF SpendsElsewhere, Owner
  <2>2. UNCHANGED <<call, cache, maps, limit>>
    BY <1>6 DEF SpendsElsewhere
  <2> QED BY <2>1, <2>2, WorldDue
<1>7. ASSUME NEW new \in Limits, SaveBegins(new) \/ SaveEnds PROVE DueFits'
  <2>1. \A c \in Call : ~call'[c].due
    BY <1>7, SaveIs
  <2> QED BY <2>1 DEF DueFits
<1>8. CASE Restart
  <2>1. \A c \in Call : call'[c].pc \in {"idle", "over"} /\ (call'[c].due => call'[c] = call[c])
    BY <1>8, RestartIs
  <2>2. \A c \in Call : ~call'[c].due
    BY <2>1, NotDue DEF Loading, Awaits
  <2> QED BY <2>2 DEF DueFits
<1>9. limit \in Limits
  BY DEF TypeInv
<1> QED BY <1>3, <1>4, <1>5, <1>6, <1>7, <1>8, <1>9, NoteDue DEF Next

LEMMA StutterDue == TypeInv /\ DueFits /\ UNCHANGED vars => DueFits'
BY WorldDue DEF vars

LEMMA DueInvariance == Spec => [](TypeInv /\ DueFits)
<1>1. Init => DueFits
  BY DEF Init, NewCall, DueFits
<1> QED BY <1>1, InitTyped, NextTyped, StutterTyped, NextDue, StutterDue, PTL DEF Spec

\* Once the database holds a ceiling's worth, the cache has expired and no check
\* is in flight, the next call that is checked is not sent, whatever other checks
\* join it, as long as its queries work and the ceilings stay.
THEOREM LateCallsRefusedHolds == Spec => []LateCallsRefused
<1>1. TypeInv /\ DueFits => LateCallsRefused
  BY NotDue DEF LateCallsRefused, Loading, Awaits
<1> QED BY DueInvariance, <1>1, PTL
=============================================================================
