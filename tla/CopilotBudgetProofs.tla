-------------------------- MODULE CopilotBudgetProofs --------------------------
(***************************************************************************)
(* What the copilot's budget gate promises about the calls at the provider, *)
(* proved for any principals, calls and limits.                            *)
(*                                                                         *)
(* The inductive invariant is that the count of every entry in the table   *)
(* is the number of its principal's calls: an entry is only dropped when   *)
(* it counts none, so no call is ever left with an entry that is gone, and *)
(* every release finds the entry its call was counted on.                  *)
(*                                                                         *)
(* A second one, BurstInv, counts calls over time: an entry counts those   *)
(* let through since its window began, any stretch that ends later than    *)
(* that had at most the limit of them before it, and where there is no     *)
(* entry, or its window is over, that holds of stretches that end now.     *)
(***************************************************************************)
EXTENDS CopilotBudget, FiniteSetTheorems, TLAPS

Entry == [rateStartedAt : 0 .. time, rateCount : 0 .. RateLimit,
          quotaStartedAt : 0 .. time, quotaCount : 0 .. DailyQuota,
          inFlight : 0 .. ConcurrencyLimit]

CountOf(p) == IF p \in entries THEN entry[p].inFlight ELSE 0

Counted(p) == IsFiniteSet(InFlight(p)) /\ Cardinality(InFlight(p)) = CountOf(p)

BudgetInv ==
  /\ BudgetTypeOK
  /\ IsFiniteSet(entries)
  /\ \A c \in Call : calling[c].principal # Nobody => calling[c].current
  /\ \A p \in Principal : Counted(p)

-----------------------------------------------------------------------------
LEMMA BudgetInitInv == BudgetInit => BudgetInv
<1> SUFFICES ASSUME BudgetInit PROVE BudgetInv
  OBVIOUS
<1> USE BudgetAssumption DEF BudgetInit
<1>1. IsFiniteSet(entries) /\ Cardinality(entries) = 0
  BY FS_EmptySet
<1>2. Fresh \in Entry
  BY DEF Fresh, Entry
<1>3. BudgetTypeOK
  BY <1>1, <1>2 DEF BudgetTypeOK, Entry, NoCall
<1>4. ASSUME NEW p \in Principal PROVE Counted(p)
  <2>1. InFlight(p) = {}
    BY DEF InFlight, NoCall
  <2> QED BY <2>1, FS_EmptySet DEF Counted, CountOf
<1> QED BY <1>1, <1>3, <1>4 DEF BudgetInv, NoCall

LEMMA ResetKeepsCount ==
  ASSUME time \in Nat, NEW e \in Entry
  PROVE  Reset(e) \in Entry /\ Reset(e).inFlight = e.inFlight
<1> DEFINE rateStart == IF RateExpired(e) THEN time ELSE e.rateStartedAt
           rateCount == IF RateExpired(e) THEN 0 ELSE e.rateCount
           quotaStart == IF QuotaExpired(e) THEN time ELSE e.quotaStartedAt
           quotaCount == IF QuotaExpired(e) THEN 0 ELSE e.quotaCount
<1>1. /\ e = [rateStartedAt |-> e.rateStartedAt, rateCount |-> e.rateCount,
              quotaStartedAt |-> e.quotaStartedAt, quotaCount |-> e.quotaCount,
              inFlight |-> e.inFlight]
      /\ e.rateStartedAt \in 0 .. time /\ e.quotaStartedAt \in 0 .. time
      /\ e.rateCount \in 0 .. RateLimit /\ e.quotaCount \in 0 .. DailyQuota
      /\ e.inFlight \in 0 .. ConcurrencyLimit
  BY DEF Entry
<1>2. rateStart \in 0 .. time /\ quotaStart \in 0 .. time
  BY <1>1
<1>3. rateCount \in 0 .. RateLimit /\ quotaCount \in 0 .. DailyQuota
  BY <1>1, BudgetAssumption
<1>4. Reset(e) = [rateStartedAt |-> rateStart, rateCount |-> rateCount,
                  quotaStartedAt |-> quotaStart, quotaCount |-> quotaCount,
                  inFlight |-> e.inFlight]
  <2>1. Reset(e) = [e EXCEPT !.rateStartedAt = rateStart, !.rateCount = rateCount,
                             !.quotaStartedAt = quotaStart, !.quotaCount = quotaCount]
    BY Zenon DEF Reset
  <2> HIDE DEF rateStart, rateCount, quotaStart, quotaCount
  <2> QED BY <1>1, <2>1
<1> HIDE DEF rateStart, rateCount, quotaStart, quotaCount
<1>5. Reset(e).inFlight = e.inFlight
  BY <1>4
<1>6. Reset(e) \in [rateStartedAt : 0 .. time, rateCount : 0 .. RateLimit,
                    quotaStartedAt : 0 .. time, quotaCount : 0 .. DailyQuota,
                    inFlight : 0 .. ConcurrencyLimit]
  BY <1>1, <1>2, <1>3, <1>4
<1> QED BY <1>5, <1>6 DEF Entry

(* An entry that is dropped counts no call.                                *)
LEMMA DroppedIsIdle ==
  ASSUME BudgetInv, NEW p, NEW q \in entries, q \notin Kept(p)
  PROVE  entry[q].inFlight = 0 /\ InFlight(q) = {}
<1>1. q \in Principal /\ entry[q].inFlight = 0
  BY DEF BudgetInv, BudgetTypeOK, Kept, Removable
<1>2. IsFiniteSet(InFlight(q)) /\ Cardinality(InFlight(q)) = 0
  BY <1>1 DEF BudgetInv, Counted, CountOf
<1> QED BY <1>1, <1>2, FS_EmptySet

(* So no call ever loses its entry.                                        *)
LEMMA NoneDetached ==
  ASSUME BudgetInv, NEW p
  PROVE  Detached(p) = calling
<1>1. ASSUME NEW c \in Call PROVE calling[c].principal \notin entries \ Kept(p)
  <2> SUFFICES ASSUME calling[c].principal \in entries \ Kept(p) PROVE FALSE
    OBVIOUS
  <2>1. InFlight(calling[c].principal) = {}
    BY DroppedIsIdle
  <2> QED BY <2>1 DEF InFlight
<1> QED BY <1>1 DEF Detached, BudgetInv, BudgetTypeOK

(* What a call of p finds in the table, and what it leaves there.          *)
LEMMA TableOK ==
  ASSUME BudgetInv, NEW p \in Principal
  PROVE  /\ Looked(p) \in Entry
         /\ Looked(p).inFlight = CountOf(p)
         /\ Tabled(p) \subseteq Principal
         /\ IsFiniteSet(Tabled(p))
         /\ Cardinality(Tabled(p)) <= MaxPrincipals
         /\ p \in entries => p \in Tabled(p)
         /\ \A q \in Principal \ {p} :
              CountOf(q) = IF q \in Tabled(p) THEN entry[q].inFlight ELSE 0
<1>1. Looked(p) \in Entry /\ Looked(p).inFlight = CountOf(p)
  <2>1. CASE p \in entries
    <3>1. entry[p] \in Entry /\ time \in Nat
      BY DEF BudgetInv, BudgetTypeOK, Entry
    <3> QED BY <2>1, <3>1, ResetKeepsCount DEF Looked, CountOf
  <2>2. CASE p \notin entries
    <3>1. Fresh \in Entry /\ time \in Nat /\ Fresh.inFlight = 0
      BY BudgetAssumption DEF BudgetInv, BudgetTypeOK, Entry, Fresh
    <3> QED BY <2>2, <3>1, ResetKeepsCount DEF Looked, CountOf
  <2> QED BY <2>1, <2>2
<1>2. Kept(p) \subseteq entries /\ (p \in entries => p \in Kept(p))
  BY DEF Kept
<1>3. IsFiniteSet(Kept(p)) /\ Cardinality(Kept(p)) <= MaxPrincipals /\ Cardinality(Kept(p)) \in Nat
  <2>1. IsFiniteSet(entries) /\ Cardinality(entries) <= MaxPrincipals /\ MaxPrincipals \in Nat
    BY BudgetAssumption DEF BudgetInv, BudgetTypeOK
  <2>2. IsFiniteSet(Kept(p)) /\ Cardinality(Kept(p)) <= Cardinality(entries)
    BY <1>2, <2>1, FS_Subset
  <2>3. Cardinality(entries) \in Nat /\ Cardinality(Kept(p)) \in Nat
    BY <2>1, <2>2, FS_CardinalityType
  <2> QED BY <2>1, <2>2, <2>3
<1>4. IsFiniteSet(Tabled(p)) /\ Cardinality(Tabled(p)) <= MaxPrincipals
  <2>1. CASE Tabled(p) = Kept(p)
    BY <1>3, <2>1
  <2>2. CASE Tabled(p) # Kept(p)
    <3>1. /\ p \notin Kept(p) /\ Cardinality(Kept(p)) < MaxPrincipals
          /\ Tabled(p) = Kept(p) \cup {p}
      BY <2>2 DEF Tabled
    <3>2. IsFiniteSet(Tabled(p)) /\ Cardinality(Tabled(p)) = Cardinality(Kept(p)) + 1
      BY <1>3, <3>1, FS_AddElement
    <3> QED BY <1>3, <3>1, <3>2, BudgetAssumption
  <2> QED BY <2>1, <2>2
<1>5. ASSUME NEW q \in Principal \ {p}
      PROVE  CountOf(q) = IF q \in Tabled(p) THEN entry[q].inFlight ELSE 0
  <2>1. q \in Tabled(p) <=> q \in Kept(p)
    BY <1>5 DEF Tabled
  <2>2. q \in entries /\ q \notin Kept(p) => entry[q].inFlight = 0
    BY DroppedIsIdle
  <2> QED BY <1>2, <2>1, <2>2 DEF CountOf
<1> QED BY <1>1, <1>2, <1>4, <1>5 DEF Tabled, BudgetInv, BudgetTypeOK

LEMMA RefusedInv ==
  ASSUME BudgetInv, NEW p \in Principal, UNCHANGED <<time, calling>>,
         entries' = Tabled(p),
         entry' = [entry EXCEPT ![p] = IF p \notin Tabled(p) THEN @ ELSE Looked(p)]
  PROVE  BudgetInv'
<1>1. /\ entry'[p] = IF p \notin Tabled(p) THEN entry[p] ELSE Looked(p)
      /\ \A q \in Principal \ {p} : entry'[q] = entry[q]
      /\ entry' = [q \in Principal |-> entry'[q]]
      /\ entry \in [Principal -> Entry]
  BY DEF BudgetInv, BudgetTypeOK, Entry
<1>2. entry' \in [Principal -> Entry]
  BY <1>1, TableOK
<1>3. BudgetTypeOK'
  BY <1>2, TableOK DEF BudgetInv, BudgetTypeOK, Entry
<1>4. ASSUME NEW q \in Principal PROVE Counted(q)'
  <2>1. CountOf(q)' = CountOf(q)
    <3>1. CASE q = p
      BY <1>1, <3>1, TableOK DEF CountOf
    <3>2. CASE q # p
      BY <1>1, <3>2, TableOK DEF CountOf
    <3> QED BY <3>1, <3>2
  <2>2. InFlight(q)' = InFlight(q)
    BY DEF InFlight
  <2> QED BY <2>1, <2>2 DEF BudgetInv, Counted
<1> QED BY <1>3, <1>4, TableOK DEF BudgetInv

LEMMA AdmittedInv ==
  ASSUME BudgetInv, NEW c \in Call, NEW p \in Principal, UNCHANGED time,
         calling[c].principal = Nobody,
         p \in Tabled(p), ~ Denied(Looked(p)),
         entries' = Tabled(p),
         entry' = [entry EXCEPT ![p] =
           [Looked(p) EXCEPT !.rateCount = @ + 1, !.quotaCount = @ + 1, !.inFlight = @ + 1]],
         calling' = [calling EXCEPT ![c] = [principal |-> p, current |-> TRUE]]
  PROVE  BudgetInv'
<1> DEFINE e == Looked(p)
           counted == [e EXCEPT !.rateCount = @ + 1, !.quotaCount = @ + 1, !.inFlight = @ + 1]
<1>1. e \in Entry /\ e.inFlight = CountOf(p)
  BY TableOK
<1>2. counted \in Entry /\ counted.inFlight = CountOf(p) + 1
  <2>1. e.rateCount < RateLimit /\ e.quotaCount < DailyQuota /\ e.inFlight < ConcurrencyLimit
    BY <1>1, BudgetAssumption DEF Denied, Entry
  <2> HIDE DEF e
  <2>2. /\ e = [rateStartedAt |-> e.rateStartedAt, rateCount |-> e.rateCount,
                quotaStartedAt |-> e.quotaStartedAt, quotaCount |-> e.quotaCount,
                inFlight |-> e.inFlight]
        /\ e.rateStartedAt \in 0 .. time /\ e.quotaStartedAt \in 0 .. time
        /\ e.rateCount \in 0 .. RateLimit /\ e.quotaCount \in 0 .. DailyQuota
        /\ e.inFlight \in 0 .. ConcurrencyLimit
    BY <1>1 DEF Entry
  <2>3. /\ e.rateCount + 1 \in 0 .. RateLimit /\ e.quotaCount + 1 \in 0 .. DailyQuota
        /\ e.inFlight + 1 \in 0 .. ConcurrencyLimit
    BY <2>1, <2>2, BudgetAssumption
  <2>4. counted = [rateStartedAt |-> e.rateStartedAt, rateCount |-> e.rateCount + 1,
                   quotaStartedAt |-> e.quotaStartedAt, quotaCount |-> e.quotaCount + 1,
                   inFlight |-> e.inFlight + 1]
    <3>1. counted = [e EXCEPT !.rateCount = e.rateCount + 1, !.quotaCount = e.quotaCount + 1,
                              !.inFlight = e.inFlight + 1]
      BY Zenon
    <3> HIDE DEF counted
    <3> QED BY <2>2, <3>1
  <2> HIDE DEF counted
  <2>5. counted \in [rateStartedAt : 0 .. time, rateCount : 0 .. RateLimit,
                     quotaStartedAt : 0 .. time, quotaCount : 0 .. DailyQuota,
                     inFlight : 0 .. ConcurrencyLimit]
    BY <2>2, <2>3, <2>4
  <2>6. counted.inFlight = CountOf(p) + 1
    BY <1>1, <2>4
  <2> QED BY <2>5, <2>6 DEF Entry
<1>3. /\ entry'[p] = counted
      /\ \A q \in Principal \ {p} : entry'[q] = entry[q]
      /\ entry' \in [Principal -> Entry]
  <2>1. entry \in [Principal -> Entry]
    BY DEF BudgetInv, BudgetTypeOK, Entry
  <2> HIDE DEF counted
  <2> QED BY <1>2, <2>1 DEF counted
<1>4. /\ calling'[c] = [principal |-> p, current |-> TRUE]
      /\ \A d \in Call \ {c} : calling'[d] = calling[d]
      /\ calling' \in [Call -> [principal : Principal \cup {Nobody}, current : BOOLEAN]]
  BY DEF BudgetInv, BudgetTypeOK
<1>5. BudgetTypeOK'
  BY <1>3, <1>4, TableOK DEF BudgetInv, BudgetTypeOK, Entry
<1>6. ASSUME NEW q \in Principal PROVE Counted(q)'
  <2> HIDE DEF counted
  <2>1. CASE q = p
    <3>1. InFlight(p)' = InFlight(p) \cup {c} /\ c \notin InFlight(p)
      BY <1>4, BudgetAssumption DEF InFlight
    <3>2. IsFiniteSet(InFlight(p)) /\ Cardinality(InFlight(p)) = CountOf(p)
      BY DEF BudgetInv, Counted
    <3>3. IsFiniteSet(InFlight(p)') /\ Cardinality(InFlight(p)') = CountOf(p) + 1
      BY <3>1, <3>2, FS_AddElement
    <3>4. CountOf(p)' = CountOf(p) + 1
      BY <1>2, <1>3 DEF CountOf
    <3> QED BY <2>1, <3>3, <3>4 DEF Counted
  <2>2. CASE q # p
    <3>1. InFlight(q)' = InFlight(q)
      BY <1>4, <2>2, BudgetAssumption DEF InFlight
    <3>2. CountOf(q)' = CountOf(q)
      BY <1>3, <2>2, TableOK DEF CountOf
    <3> QED BY <3>1, <3>2 DEF BudgetInv, Counted
  <2> QED BY <2>1, <2>2
<1>7. \A d \in Call : calling'[d].principal # Nobody => calling'[d].current
  BY <1>4 DEF BudgetInv
<1> QED BY <1>5, <1>6, <1>7, TableOK DEF BudgetInv

LEMMA AcquireInv ==
  ASSUME BudgetInv, NEW c \in Call, NEW p \in Principal, Acquire(c, p)
  PROVE  BudgetInv'
<1>1. Detached(p) = calling
  BY NoneDetached
<1>2. CASE p \in Tabled(p) /\ ~ Denied(Looked(p))
  BY <1>1, <1>2, AdmittedInv DEF Acquire
<1>3. CASE ~ (p \in Tabled(p) /\ ~ Denied(Looked(p)))
  BY <1>1, <1>3, RefusedInv DEF Acquire
<1> QED BY <1>2, <1>3

LEMMA ReleaseInv ==
  ASSUME BudgetInv, NEW c \in Call, Release(c)
  PROVE  BudgetInv'
<1> DEFINE p == calling[c].principal
<1>1. p \in Principal /\ p # Nobody /\ calling[c].current
  BY DEF BudgetInv, BudgetTypeOK, Release
<1>2. /\ IsFiniteSet(InFlight(p)) /\ c \in InFlight(p)
      /\ Cardinality(InFlight(p)) = CountOf(p) /\ Cardinality(InFlight(p)) \in Nat
  BY <1>1, FS_CardinalityType DEF BudgetInv, Counted, InFlight
<1>3. IsFiniteSet(InFlight(p) \ {c}) /\ Cardinality(InFlight(p) \ {c}) = CountOf(p) - 1
  BY <1>2, FS_RemoveElement
<1>4. p \in entries /\ entry[p].inFlight > 0 /\ CountOf(p) = entry[p].inFlight
  <2>1. Cardinality(InFlight(p) \ {c}) \in Nat
    BY <1>3, FS_CardinalityType
  <2> QED BY <1>2, <1>3, <2>1 DEF CountOf
<1>5. /\ entry' = [entry EXCEPT ![p].inFlight = @ - 1]
      /\ calling' = [calling EXCEPT ![c] = NoCall]
      /\ UNCHANGED <<time, entries, admitted>>
  BY <1>1, <1>4 DEF Release
<1> DEFINE fewer == [entry[p] EXCEPT !.inFlight = @ - 1]
<1>6. fewer \in Entry /\ fewer.inFlight = CountOf(p) - 1
  <2>1. entry[p] \in Entry
    BY <1>1 DEF BudgetInv, BudgetTypeOK, Entry
  <2> QED BY <1>4, <2>1, BudgetAssumption DEF Entry
<1>7. /\ entry'[p] = fewer
      /\ \A q \in Principal \ {p} : entry'[q] = entry[q]
      /\ entry' \in [Principal -> Entry]
  <2>1. entry \in [Principal -> Entry]
    BY DEF BudgetInv, BudgetTypeOK, Entry
  <2>2. entry' = [entry EXCEPT ![p] = fewer]
    BY <1>5
  <2> HIDE DEF fewer
  <2> QED BY <1>1, <1>6, <2>1, <2>2
<1>8. /\ calling'[c] = NoCall
      /\ \A d \in Call \ {c} : calling'[d] = calling[d]
      /\ calling' \in [Call -> [principal : Principal \cup {Nobody}, current : BOOLEAN]]
  BY <1>5 DEF BudgetInv, BudgetTypeOK, NoCall
<1>9. BudgetTypeOK'
  BY <1>5, <1>7, <1>8 DEF BudgetInv, BudgetTypeOK, Entry
<1>10. ASSUME NEW q \in Principal PROVE Counted(q)'
  <2> HIDE DEF fewer
  <2>1. CASE q = p
    <3>1. InFlight(q)' = InFlight(p) \ {c}
      BY <1>1, <1>8, <2>1 DEF InFlight, NoCall
    <3>2. CountOf(q)' = CountOf(p) - 1
      BY <1>4, <1>5, <1>6, <1>7, <2>1 DEF CountOf
    <3> QED BY <1>3, <3>1, <3>2 DEF Counted
  <2>2. CASE q # p
    <3>1. InFlight(q)' = InFlight(q)
      BY <1>8, <2>2, BudgetAssumption DEF InFlight, NoCall
    <3>2. CountOf(q)' = CountOf(q)
      BY <1>5, <1>7, <2>2 DEF CountOf
    <3> QED BY <3>1, <3>2 DEF BudgetInv, Counted
  <2> QED BY <2>1, <2>2
<1>11. \A d \in Call : calling'[d].principal # Nobody => calling'[d].current
  BY <1>8 DEF BudgetInv, NoCall
<1> QED BY <1>5, <1>9, <1>10, <1>11 DEF BudgetInv

LEMMA BudgetTickInv == ASSUME BudgetInv, BudgetTick PROVE BudgetInv'
<1>1. \A p \in Principal : entry[p] \in Entry => entry[p] \in Entry'
  BY DEF BudgetInv, BudgetTypeOK, BudgetTick, Entry
<1>2. BudgetTypeOK'
  <2>1. entry' \in [Principal -> Entry']
    BY <1>1 DEF BudgetInv, BudgetTypeOK, BudgetTick, Entry
  <2> QED BY <2>1 DEF BudgetInv, BudgetTypeOK, BudgetTick, Entry
<1> QED BY <1>2 DEF BudgetInv, BudgetTick, Counted, CountOf, InFlight

LEMMA BudgetStepInv == BudgetInv /\ [BudgetNext]_budgetVars => BudgetInv'
<1> SUFFICES ASSUME BudgetInv, [BudgetNext]_budgetVars PROVE BudgetInv'
  OBVIOUS
<1>1. CASE BudgetTick
  BY <1>1, BudgetTickInv
<1>2. ASSUME NEW c \in Call, Release(c) PROVE BudgetInv'
  BY <1>2, ReleaseInv
<1>3. ASSUME NEW c \in Call, NEW p \in Principal, Acquire(c, p) PROVE BudgetInv'
  BY <1>3, AcquireInv
<1>4. CASE UNCHANGED budgetVars
  BY <1>4 DEF budgetVars, BudgetInv, BudgetTypeOK, Counted, CountOf, InFlight
<1> QED BY <1>1, <1>2, <1>3, <1>4 DEF BudgetNext

LEMMA BudgetAlwaysInv == BudgetSpec => []BudgetInv
BY BudgetInitInv, BudgetStepInv, PTL DEF BudgetSpec

-----------------------------------------------------------------------------
(* The table never has more entries than it may, and no count of an entry  *)
(* passes its limit.                                                       *)
THEOREM BudgetTypes == BudgetSpec => []BudgetTypeOK
<1>1. BudgetInv => BudgetTypeOK
  BY DEF BudgetInv
<1> QED BY <1>1, BudgetAlwaysInv, PTL

(* Every call at the provider is counted once, on the entry in the table,  *)
(* and nobody has more of them out than the limit.                         *)
THEOREM SlotsAreKept == BudgetSpec => []NoSlotLeaks
<1>1. ASSUME BudgetInv PROVE NoSlotLeaks
  <2> SUFFICES ASSUME NEW p \in Principal
               PROVE  /\ Cardinality(InFlight(p)) = IF p \in entries THEN entry[p].inFlight ELSE 0
                      /\ Cardinality(InFlight(p)) <= ConcurrencyLimit
    BY DEF NoSlotLeaks
  <2>1. Cardinality(InFlight(p)) = CountOf(p)
    BY <1>1 DEF BudgetInv, Counted
  <2>2. CountOf(p) \in 0 .. ConcurrencyLimit
    BY <1>1, BudgetAssumption DEF BudgetInv, BudgetTypeOK, CountOf
  <2> QED BY <2>1, <2>2 DEF CountOf
<1> QED BY <1>1, BudgetAlwaysInv, PTL
-----------------------------------------------------------------------------
(* How many calls a stretch of time lets through.  One window of length W   *)
(* and limit L is followed through its life, over the instants A at which  *)
(* a principal was let through so far, `now` being the latest possible.    *)

In(A, from, to) == {i \in DOMAIN A : from <= A[i] /\ A[i] < to}
CountIn(A, from, to) == Cardinality(In(A, from, to))

\* an entry that began its window at `start` and counted n calls since: whatever stretch
\* ends after `start` has at most L calls before it
Open(A, now, start, n, W, L) ==
  /\ start <= now
  /\ n = CountIn(A, start, now + 1)
  /\ \A i \in DOMAIN A : A[i] < start + W
  /\ \A t \in Nat : t + W > start => CountIn(A, t, start) <= L

\* the window is over, or there is no entry
Closed(A, now, W, L) ==
  /\ \A i \in DOMAIN A : A[i] < now
  /\ \A t \in Nat : t + W > now => CountIn(A, t, now) <= L

Bounded(A, W, L) == \A t \in Nat : CountIn(A, t, t + W) <= 2 * L

OpenEntry(A, now, e) ==
  /\ Open(A, now, e.rateStartedAt, e.rateCount, RateWindow, RateLimit)
  /\ Open(A, now, e.quotaStartedAt, e.quotaCount, QuotaWindow, DailyQuota)

ClosedEntry(A, now) ==
  Closed(A, now, RateWindow, RateLimit) /\ Closed(A, now, QuotaWindow, DailyQuota)

BurstInv ==
  /\ admitted \in [Principal -> Seq(0 .. time)]
  /\ \A p \in Principal :
       /\ Bounded(admitted[p], RateWindow, RateLimit)
       /\ Bounded(admitted[p], QuotaWindow, DailyQuota)
       /\ p \in entries => OpenEntry(admitted[p], time, entry[p])
       /\ p \notin entries => ClosedEntry(admitted[p], time)

LEMMA CountsAreFinite ==
  ASSUME NEW S, NEW A \in Seq(S), NEW from, NEW to
  PROVE  IsFiniteSet(In(A, from, to)) /\ CountIn(A, from, to) \in Nat
<1>1. Len(A) \in Nat /\ DOMAIN A = 1 .. Len(A)
  OBVIOUS
<1>2. IsFiniteSet(1 .. Len(A))
  BY <1>1, FS_Interval
<1>3. In(A, from, to) \subseteq 1 .. Len(A)
  BY <1>1 DEF In
<1> QED BY <1>2, <1>3, FS_Subset, FS_CardinalityType DEF CountIn

LEMMA LessIsCountedInLess ==
  ASSUME NEW S, NEW A \in Seq(S), NEW a, NEW b, NEW c, NEW d, In(A, a, b) \subseteq In(A, c, d)
  PROVE  CountIn(A, a, b) <= CountIn(A, c, d)
BY CountsAreFinite, FS_Subset DEF CountIn

(* An expired window is closed.                                            *)
LEMMA ExpiredIsClosed ==
  ASSUME NEW now \in Nat, NEW A \in Seq(0 .. now), NEW start \in Nat, NEW n \in Nat,
         NEW W \in Nat, NEW L \in Nat, n <= L,
         Open(A, now, start, n, W, L), now - start >= W
  PROVE  Closed(A, now, W, L)
<1>1. \A i \in DOMAIN A : A[i] \in 0 .. now /\ A[i] < start + W
  BY DEF Open
<1>2. \A i \in DOMAIN A : A[i] < now
  BY <1>1
<1>3. ASSUME NEW t \in Nat, t + W > now PROVE CountIn(A, t, now) <= L
  <2>1. In(A, t, now) \subseteq In(A, start, now + 1)
    BY <1>1, <1>3 DEF In
  <2>2. CountIn(A, t, now) <= CountIn(A, start, now + 1)
    BY <2>1, LessIsCountedInLess
  <2>3. CountIn(A, t, now) \in Nat
    BY CountsAreFinite
  <2> QED BY <2>2, <2>3 DEF Open
<1> QED BY <1>2, <1>3 DEF Closed

(* A closed window may be opened anew at once.                             *)
LEMMA ClosedOpens ==
  ASSUME NEW now \in Nat, NEW A \in Seq(0 .. now), NEW W \in Nat \ {0}, NEW L \in Nat,
         Closed(A, now, W, L)
  PROVE  Open(A, now, now, 0, W, L)
<1>1. \A i \in DOMAIN A : A[i] \in 0 .. now /\ A[i] < now
  BY DEF Closed
<1>2. In(A, now, now + 1) = {}
  BY <1>1 DEF In
<1>3. CountIn(A, now, now + 1) = 0
  BY <1>2, FS_EmptySet DEF CountIn
<1> QED BY <1>1, <1>3 DEF Open, Closed

(* Time passes.                                                            *)
LEMMA TimePasses ==
  ASSUME NEW now \in Nat, NEW A \in Seq(0 .. now), NEW W \in Nat, NEW L \in Nat
  PROVE  /\ \A start \in Nat : \A n : Open(A, now, start, n, W, L) => Open(A, now + 1, start, n, W, L)
         /\ Closed(A, now, W, L) => Closed(A, now + 1, W, L)
<1>1. \A i \in DOMAIN A : A[i] \in 0 .. now
  OBVIOUS
<1>2. ASSUME NEW start \in Nat, NEW n, Open(A, now, start, n, W, L)
      PROVE  Open(A, now + 1, start, n, W, L)
  <2>1. In(A, start, now + 1) = In(A, start, now + 1 + 1)
    BY <1>1 DEF In
  <2> QED BY <1>2, <2>1 DEF Open, CountIn
<1>3. ASSUME Closed(A, now, W, L) PROVE Closed(A, now + 1, W, L)
  <2>1. \A i \in DOMAIN A : A[i] < now
    BY <1>3 DEF Closed
  <2>2. ASSUME NEW t \in Nat, t + W > now + 1 PROVE CountIn(A, t, now + 1) <= L
    <3>1. In(A, t, now + 1) = In(A, t, now)
      BY <1>1, <2>1 DEF In
    <3> QED BY <1>3, <2>2, <3>1 DEF Closed, CountIn
  <2> QED BY <1>1, <2>1, <2>2 DEF Closed
<1> QED BY <1>2, <1>3

(* A call is let through an open window whose time is not up.              *)
LEMMA LetThrough ==
  ASSUME NEW now \in Nat, NEW A \in Seq(0 .. now), NEW start \in Nat, NEW n \in Nat,
         NEW W \in Nat, NEW L \in Nat, n < L,
         Open(A, now, start, n, W, L), Bounded(A, W, L), now < start + W
  PROVE  /\ Open(Append(A, now), now, start, n + 1, W, L)
         /\ Bounded(Append(A, now), W, L)
<1> DEFINE B == Append(A, now)
           k == Len(A) + 1
<1>1. /\ B \in Seq(0 .. now) /\ DOMAIN A = 1 .. Len(A) /\ Len(A) \in Nat
      /\ DOMAIN B = DOMAIN A \cup {k} /\ k \notin DOMAIN A /\ B[k] = now
      /\ \A i \in DOMAIN A : B[i] = A[i] /\ A[i] \in 0 .. now
  OBVIOUS
<1> HIDE DEF B, k
<1>2. ASSUME NEW from \in Nat, NEW to \in Nat, ~ (from <= now /\ now < to)
      PROVE  CountIn(B, from, to) = CountIn(A, from, to)
  <2>1. In(B, from, to) = In(A, from, to)
    BY <1>1, <1>2 DEF In
  <2> QED BY <2>1 DEF CountIn
<1>3. CountIn(B, start, now + 1) = n + 1
  <2>1. In(B, start, now + 1) = In(A, start, now + 1) \cup {k} /\ k \notin In(A, start, now + 1)
    BY <1>1 DEF In, Open
  <2>2. IsFiniteSet(In(A, start, now + 1)) /\ Cardinality(In(A, start, now + 1)) = n
    BY CountsAreFinite DEF Open, CountIn
  <2> QED BY <2>1, <2>2, FS_AddElement DEF CountIn
<1>4. ASSUME NEW t \in Nat, t + W > start PROVE CountIn(B, t, start) <= L
  BY <1>2, <1>4 DEF Open
<1>5. Open(B, now, start, n + 1, W, L)
  BY <1>1, <1>3, <1>4 DEF Open
<1>6. ASSUME NEW t \in Nat PROVE CountIn(B, t, t + W) <= 2 * L
  <2>1. CASE ~ (t <= now /\ now < t + W)
    <3>1. t + W \in Nat
      OBVIOUS
    <3>2. CountIn(B, t, t + W) = CountIn(A, t, t + W)
      BY <1>2, <2>1, <3>1
    <3> QED BY <3>2 DEF Bounded
  <2>2. CASE t <= now /\ now < t + W
    <3>1. t + W > start
      BY <2>2 DEF Open
    <3>2. CountIn(B, t, start) <= L /\ CountIn(B, start, now + 1) <= L
      BY <1>3, <1>4, <3>1
    <3>3. IsFiniteSet(In(B, t, start)) /\ IsFiniteSet(In(B, start, now + 1)) /\ IsFiniteSet(In(B, t, t + W))
      BY <1>1, CountsAreFinite
    <3>4. In(B, t, t + W) \subseteq In(B, t, start) \cup In(B, start, now + 1)
      BY <1>1 DEF In
    <3>5. PICK U : U = In(B, t, start) \cup In(B, start, now + 1)
      OBVIOUS
    <3>6. /\ IsFiniteSet(U)
          /\ Cardinality(U) = Cardinality(In(B, t, start)) + Cardinality(In(B, start, now + 1))
               - Cardinality(In(B, t, start) \cap In(B, start, now + 1))
      BY <3>3, <3>5, FS_Union
    <3>7. Cardinality(In(B, t, t + W)) <= Cardinality(U)
      BY <3>4, <3>5, <3>6, FS_Subset
    <3>8. /\ Cardinality(In(B, t, start) \cap In(B, start, now + 1)) \in Nat
          /\ Cardinality(In(B, t, t + W)) \in Nat
          /\ Cardinality(In(B, t, start)) \in Nat
          /\ Cardinality(In(B, start, now + 1)) \in Nat
      BY <3>3, FS_CardinalityType, FS_Intersection
    <3> QED BY <3>2, <3>6, <3>7, <3>8 DEF CountIn
  <2> QED BY <2>1, <2>2
<1> QED BY <1>5, <1>6 DEF Bounded, B
-----------------------------------------------------------------------------
(* The same of an entry, and of every principal.                           *)

LEMMA ExpiredIsOpenedAnew ==
  ASSUME BudgetInv, NEW A \in Seq(0 .. time), NEW e \in Entry, OpenEntry(A, time, e)
  PROVE  /\ OpenEntry(A, time, Reset(e))
         /\ time < Reset(e).rateStartedAt + RateWindow
         /\ time < Reset(e).quotaStartedAt + QuotaWindow
<1>1. /\ e.rateStartedAt \in Nat /\ e.quotaStartedAt \in Nat
      /\ e.rateCount \in 0 .. RateLimit /\ e.quotaCount \in 0 .. DailyQuota
  BY DEF Entry
<1>2. /\ time \in Nat /\ RateWindow \in Nat \ {0} /\ QuotaWindow \in Nat \ {0}
      /\ RateLimit \in Nat /\ DailyQuota \in Nat
  BY BudgetAssumption DEF BudgetInv, BudgetTypeOK
<1>3. /\ Reset(e).rateStartedAt = IF RateExpired(e) THEN time ELSE e.rateStartedAt
      /\ Reset(e).rateCount = IF RateExpired(e) THEN 0 ELSE e.rateCount
      /\ Reset(e).quotaStartedAt = IF QuotaExpired(e) THEN time ELSE e.quotaStartedAt
      /\ Reset(e).quotaCount = IF QuotaExpired(e) THEN 0 ELSE e.quotaCount
  BY DEF Reset, Entry
<1>4. /\ Open(A, time, Reset(e).rateStartedAt, Reset(e).rateCount, RateWindow, RateLimit)
      /\ time < Reset(e).rateStartedAt + RateWindow
  <2>1. CASE RateExpired(e)
    <3>1. Closed(A, time, RateWindow, RateLimit)
      BY <1>1, <1>2, <2>1, ExpiredIsClosed DEF OpenEntry, RateExpired
    <3>2. Open(A, time, time, 0, RateWindow, RateLimit)
      BY <1>2, <3>1, ClosedOpens
    <3> QED BY <1>2, <1>3, <2>1, <3>2
  <2>2. CASE ~ RateExpired(e)
    BY <1>1, <1>2, <1>3, <2>2 DEF OpenEntry, RateExpired
  <2> QED BY <2>1, <2>2
<1>5. /\ Open(A, time, Reset(e).quotaStartedAt, Reset(e).quotaCount, QuotaWindow, DailyQuota)
      /\ time < Reset(e).quotaStartedAt + QuotaWindow
  <2>1. CASE QuotaExpired(e)
    <3>1. Closed(A, time, QuotaWindow, DailyQuota)
      BY <1>1, <1>2, <2>1, ExpiredIsClosed DEF OpenEntry, QuotaExpired
    <3>2. Open(A, time, time, 0, QuotaWindow, DailyQuota)
      BY <1>2, <3>1, ClosedOpens
    <3> QED BY <1>2, <1>3, <2>1, <3>2
  <2>2. CASE ~ QuotaExpired(e)
    BY <1>1, <1>2, <1>3, <2>2 DEF OpenEntry, QuotaExpired
  <2> QED BY <2>1, <2>2
<1> QED BY <1>4, <1>5 DEF OpenEntry

\* what the table says of a principal and of its entry, before a step of the budget
LookedOpen(p) ==
  /\ OpenEntry(admitted[p], time, Looked(p))
  /\ time < Looked(p).rateStartedAt + RateWindow
  /\ time < Looked(p).quotaStartedAt + QuotaWindow

LEMMA LookingOpens ==
  ASSUME BudgetInv, BurstInv, NEW p \in Principal
  PROVE  LookedOpen(p)
<1>1. admitted[p] \in Seq(0 .. time) /\ time \in Nat
  BY DEF BurstInv, BudgetInv, BudgetTypeOK
<1>2. CASE p \in entries
  <2>1. entry[p] \in Entry /\ OpenEntry(admitted[p], time, entry[p])
    BY <1>2 DEF BurstInv, BudgetInv, BudgetTypeOK, Entry
  <2> QED BY <1>1, <1>2, <2>1, ExpiredIsOpenedAnew DEF Looked, LookedOpen
<1>3. CASE p \notin entries
  <2>1. Fresh \in Entry
    BY <1>1, BudgetAssumption DEF Entry, Fresh
  <2>2. /\ Open(admitted[p], time, time, 0, RateWindow, RateLimit)
        /\ Open(admitted[p], time, time, 0, QuotaWindow, DailyQuota)
    BY <1>1, <1>3, ClosedOpens, BudgetAssumption DEF BurstInv, ClosedEntry
  <2>3. OpenEntry(admitted[p], time, Fresh)
    BY <2>2 DEF OpenEntry, Fresh
  <2> QED BY <1>1, <1>3, <2>1, <2>3, ExpiredIsOpenedAnew DEF Looked, LookedOpen
<1> QED BY <1>2, <1>3

(* An entry is only dropped when both its windows are over.                *)
LEMMA DroppedIsClosed ==
  ASSUME BudgetInv, BurstInv, NEW p, NEW q \in entries, q \notin Kept(p)
  PROVE  ClosedEntry(admitted[q], time)
<1>1. q \in Principal /\ RateExpired(entry[q]) /\ QuotaExpired(entry[q])
  BY DEF BudgetInv, BudgetTypeOK, Kept, Removable
<1>2. /\ time \in Nat /\ admitted[q] \in Seq(0 .. time)
      /\ OpenEntry(admitted[q], time, entry[q]) /\ entry[q] \in Entry
  BY <1>1 DEF BurstInv, BudgetInv, BudgetTypeOK, Entry
<1>3. /\ entry[q].rateStartedAt \in Nat /\ entry[q].quotaStartedAt \in Nat
      /\ entry[q].rateCount \in 0 .. RateLimit /\ entry[q].quotaCount \in 0 .. DailyQuota
  BY <1>2 DEF Entry
<1>4. RateWindow \in Nat /\ QuotaWindow \in Nat /\ RateLimit \in Nat /\ DailyQuota \in Nat
  BY BudgetAssumption
<1>5. Closed(admitted[q], time, RateWindow, RateLimit)
  <2>1. /\ time - entry[q].rateStartedAt >= RateWindow
        /\ entry[q].rateCount \in Nat /\ entry[q].rateCount <= RateLimit
    BY <1>1, <1>3, <1>4 DEF RateExpired
  <2> QED BY <1>2, <1>3, <1>4, <2>1, ExpiredIsClosed DEF OpenEntry
<1>6. Closed(admitted[q], time, QuotaWindow, DailyQuota)
  <2>1. /\ time - entry[q].quotaStartedAt >= QuotaWindow
        /\ entry[q].quotaCount \in Nat /\ entry[q].quotaCount <= DailyQuota
    BY <1>1, <1>3, <1>4 DEF QuotaExpired
  <2> QED BY <1>2, <1>3, <1>4, <2>1, ExpiredIsClosed DEF OpenEntry
<1> QED BY <1>5, <1>6 DEF ClosedEntry

BurstOf(p) ==
  /\ Bounded(admitted[p], RateWindow, RateLimit)
  /\ Bounded(admitted[p], QuotaWindow, DailyQuota)
  /\ p \in entries => OpenEntry(admitted[p], time, entry[p])
  /\ p \notin entries => ClosedEntry(admitted[p], time)

LEMMA AcquireBurst ==
  ASSUME BudgetInv, BurstInv, NEW c \in Call, NEW p \in Principal, Acquire(c, p)
  PROVE  BurstInv'
<1> DEFINE e == Looked(p)
           ok == p \in Tabled(p) /\ ~ Denied(e)
<1>1. /\ time' = time /\ time \in Nat /\ entries' = Tabled(p)
      /\ admitted \in [Principal -> Seq(0 .. time)] /\ admitted[p] \in Seq(0 .. time)
      /\ entry = [q \in Principal |-> entry[q]] /\ e \in Entry /\ LookedOpen(p)
  BY TableOK, LookingOpens DEF Acquire, BurstInv, BudgetInv, BudgetTypeOK, Entry
<1>2. /\ e.rateStartedAt \in Nat /\ e.quotaStartedAt \in Nat
      /\ e.rateCount \in 0 .. RateLimit /\ e.quotaCount \in 0 .. DailyQuota
  BY <1>1 DEF Entry
<1>3. ASSUME NEW q \in Principal \ {p}
      PROVE  entry'[q] = entry[q] /\ admitted'[q] = admitted[q]
  BY <1>1 DEF Acquire
<1>4. admitted' \in [Principal -> Seq(0 .. time)]
  BY <1>1 DEF Acquire
<1>5. ASSUME NEW q \in Principal \ {p} PROVE BurstOf(q)'
  <2>1. q \in Tabled(p) <=> q \in Kept(p)
    BY DEF Tabled
  <2>2. Kept(p) \subseteq entries
    BY DEF Kept
  <2>3. q \in entries /\ q \notin Kept(p) => ClosedEntry(admitted[q], time)
    BY DroppedIsClosed
  <2> QED BY <1>1, <1>3, <2>1, <2>2, <2>3 DEF BurstInv, BurstOf
<1>6. BurstOf(p)'
  <2>1. CASE ok
    <3>1. admitted'[p] = Append(admitted[p], time)
      BY <1>1, <2>1 DEF Acquire
    <3>2. /\ entry'[p].rateStartedAt = e.rateStartedAt /\ entry'[p].rateCount = e.rateCount + 1
          /\ entry'[p].quotaStartedAt = e.quotaStartedAt /\ entry'[p].quotaCount = e.quotaCount + 1
      <4>1. entry'[p] = [e EXCEPT !.rateCount = @ + 1, !.quotaCount = @ + 1, !.inFlight = @ + 1]
        BY <1>1, <2>1 DEF Acquire
      <4> HIDE DEF e
      <4> QED BY <1>1, <4>1 DEF Entry
    <3>3. /\ RateWindow \in Nat /\ QuotaWindow \in Nat /\ RateLimit \in Nat /\ DailyQuota \in Nat
          /\ e.rateCount < RateLimit /\ e.quotaCount < DailyQuota
      BY <1>2, <2>1, BudgetAssumption DEF Denied
    <3> HIDE DEF e
    <3>4. /\ Open(Append(admitted[p], time), time, e.rateStartedAt, e.rateCount + 1, RateWindow, RateLimit)
          /\ Bounded(Append(admitted[p], time), RateWindow, RateLimit)
      BY <1>1, <1>2, <3>3, LetThrough DEF BurstInv, LookedOpen, OpenEntry, e
    <3>5. /\ Open(Append(admitted[p], time), time, e.quotaStartedAt, e.quotaCount + 1, QuotaWindow, DailyQuota)
          /\ Bounded(Append(admitted[p], time), QuotaWindow, DailyQuota)
      BY <1>1, <1>2, <3>3, LetThrough DEF BurstInv, LookedOpen, OpenEntry, e
    <3> QED BY <1>1, <2>1, <3>1, <3>2, <3>4, <3>5 DEF BurstOf, OpenEntry
  <2>2. CASE p \in Tabled(p) /\ ~ ok
    <3>1. admitted'[p] = admitted[p] /\ entry'[p] = e
      BY <1>1, <2>2 DEF Acquire
    <3> QED BY <1>1, <2>2, <3>1 DEF BurstInv, BurstOf, LookedOpen
  <2>3. CASE p \notin Tabled(p)
    <3>1. admitted'[p] = admitted[p]
      BY <1>1, <2>3 DEF Acquire
    <3>2. p \notin entries
      BY <2>3, TableOK
    <3> QED BY <1>1, <2>3, <3>1, <3>2 DEF BurstInv, BurstOf
  <2> QED BY <2>1, <2>2, <2>3
<1> QED BY <1>1, <1>4, <1>5, <1>6 DEF BurstInv, BurstOf

LEMMA ReleaseBurst ==
  ASSUME BudgetInv, BurstInv, NEW c \in Call, Release(c)
  PROVE  BurstInv'
<1>1. UNCHANGED <<time, entries, admitted>>
  BY DEF Release
<1>2. ASSUME NEW q \in Principal
      PROVE  /\ entry'[q].rateStartedAt = entry[q].rateStartedAt /\ entry'[q].rateCount = entry[q].rateCount
             /\ entry'[q].quotaStartedAt = entry[q].quotaStartedAt /\ entry'[q].quotaCount = entry[q].quotaCount
  <2>1. entry \in [Principal -> Entry]
    BY DEF BudgetInv, BudgetTypeOK, Entry
  <2>2. CASE entry' = entry
    BY <2>2
  <2>3. CASE entry' = [entry EXCEPT ![calling[c].principal].inFlight = @ - 1]
    BY <2>1, <2>3 DEF Entry
  <2> QED BY <2>2, <2>3 DEF Release
<1> QED BY <1>1, <1>2 DEF BurstInv, OpenEntry

LEMMA TickBurst == ASSUME BudgetInv, BurstInv, BudgetTick PROVE BurstInv'
<1>1. time \in Nat /\ time' = time + 1 /\ UNCHANGED <<entries, entry, admitted>>
  BY DEF BudgetTick, BudgetInv, BudgetTypeOK
<1>2. ASSUME NEW p \in Principal
      PROVE  /\ admitted[p] \in Seq(0 .. time) /\ admitted[p] \in Seq(0 .. time + 1)
             /\ entry[p].rateStartedAt \in Nat /\ entry[p].quotaStartedAt \in Nat
  <2>1. admitted[p] \in Seq(0 .. time) /\ entry[p] \in Entry
    BY DEF BurstInv, BudgetInv, BudgetTypeOK, Entry
  <2> QED BY <1>1, <2>1 DEF Entry
<1>3. admitted' \in [Principal -> Seq(0 .. time')]
  BY <1>1, <1>2 DEF BurstInv
<1>4. ASSUME NEW p \in Principal PROVE BurstOf(p)'
  <2>1. RateWindow \in Nat /\ QuotaWindow \in Nat /\ RateLimit \in Nat /\ DailyQuota \in Nat
    BY BudgetAssumption
  <2>2. OpenEntry(admitted[p], time, entry[p]) => OpenEntry(admitted[p], time + 1, entry[p])
    BY <1>1, <1>2, <2>1, TimePasses DEF OpenEntry
  <2>3. ClosedEntry(admitted[p], time) => ClosedEntry(admitted[p], time + 1)
    BY <1>1, <1>2, <2>1, TimePasses DEF ClosedEntry
  <2> QED BY <1>1, <2>2, <2>3 DEF BurstInv, BurstOf
<1> QED BY <1>3, <1>4 DEF BurstInv, BurstOf

LEMMA BurstInitInv == BudgetInit => BurstInv
<1> SUFFICES ASSUME BudgetInit PROVE BurstInv
  OBVIOUS
<1>1. time = 0 /\ entries = {} /\ admitted = [p \in Principal |-> <<>>]
  BY DEF BudgetInit
<1>2. ASSUME NEW from, NEW to PROVE CountIn(<<>>, from, to) = 0
  <2>1. In(<<>>, from, to) = {}
    BY DEF In
  <2> QED BY <2>1, FS_EmptySet DEF CountIn
<1>3. ASSUME NEW W \in Nat, NEW L \in Nat PROVE Bounded(<<>>, W, L) /\ Closed(<<>>, 0, W, L)
  BY <1>2 DEF Bounded, Closed
<1>4. RateWindow \in Nat /\ QuotaWindow \in Nat /\ RateLimit \in Nat /\ DailyQuota \in Nat
  BY BudgetAssumption
<1> QED BY <1>1, <1>3, <1>4 DEF BurstInv, ClosedEntry

LEMMA BurstStepInv ==
  BudgetInv /\ BurstInv /\ [BudgetNext]_budgetVars => BurstInv'
<1> SUFFICES ASSUME BudgetInv, BurstInv, [BudgetNext]_budgetVars PROVE BurstInv'
  OBVIOUS
<1>1. ASSUME NEW c \in Call, NEW p \in Principal, Acquire(c, p) PROVE BurstInv'
  BY <1>1, AcquireBurst
<1>2. ASSUME NEW c \in Call, Release(c) PROVE BurstInv'
  BY <1>2, ReleaseBurst
<1>3. CASE BudgetTick
  BY <1>3, TickBurst
<1>4. CASE UNCHANGED budgetVars
  BY <1>4 DEF budgetVars, BurstInv
<1> QED BY <1>1, <1>2, <1>3, <1>4 DEF BudgetNext

(* However calls come, go and find the table full, no stretch of time as   *)
(* long as a window lets more of one principal's calls through than twice  *)
(* its limit.                                                              *)
THEOREM StretchesAreBounded == BudgetSpec => []BurstsAreBounded
<1>1. BudgetSpec => []BurstInv
  BY BurstInitInv, BurstStepInv, BudgetAlwaysInv, PTL DEF BudgetSpec
<1>2. ASSUME BudgetInv, BurstInv PROVE BurstsAreBounded
  <2> SUFFICES ASSUME NEW p \in Principal, NEW t \in 0 .. BudgetHorizon
               PROVE  /\ Passed(p, t, RateWindow) <= 2 * RateLimit
                      /\ Passed(p, t, QuotaWindow) <= 2 * DailyQuota
    BY DEF BurstsAreBounded
  <2>1. \A i \in DOMAIN admitted[p] : admitted[p][i] \in Nat
    BY <1>2 DEF BurstInv, BudgetInv, BudgetTypeOK
  <2>2. ASSUME NEW length \in Nat PROVE Passed(p, t, length) = CountIn(admitted[p], t, t + length)
    <3>1. \A i \in DOMAIN admitted[p] :
            admitted[p][i] \in t .. t + length - 1 <=> t <= admitted[p][i] /\ admitted[p][i] < t + length
      BY <2>1
    <3> QED BY <3>1 DEF Passed, CountIn, In
  <2>3. RateWindow \in Nat /\ QuotaWindow \in Nat /\ t \in Nat
    BY BudgetAssumption
  <2> QED BY <1>2, <2>2, <2>3 DEF BurstInv, Bounded
<1> QED BY <1>1, <1>2, BudgetAlwaysInv, PTL
=============================================================================
