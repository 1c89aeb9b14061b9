---------------------------- MODULE CopilotBudget ----------------------------
(***************************************************************************)
(* The budget gate of the municipal copilot (municipal-copilot-budget.js)  *)
(* and the calls of synthesizeMunicipalAnswer that pass through it to the  *)
(* provider.  Calls of one process interleave at the await of the          *)
(* provider; acquire and release run without one.  The clock never goes    *)
(* back.                                                                   *)
(***************************************************************************)
EXTENDS Naturals, Sequences, FiniteSets

CONSTANTS
  Principal,         \* safety identifiers, one per user and tenant
  Call,              \* ids of calls
  RateLimit, DailyQuota, ConcurrencyLimit, MaxPrincipals,
  RateWindow,        \* RATE_WINDOW_MS, in ticks
  QuotaWindow,       \* QUOTA_WINDOW_MS
  BudgetHorizon,     \* bound: the last tick
  Nobody

ASSUME BudgetAssumption ==
  /\ {RateLimit, DailyQuota, ConcurrencyLimit, MaxPrincipals, RateWindow, QuotaWindow}
       \subseteq Nat \ {0}
  /\ RateWindow <= QuotaWindow
  /\ BudgetHorizon \in Nat
  /\ Nobody \notin Principal

VARIABLES
  time,
  entries,   \* the principals the gate has an entry for
  entry,     \* their entries: [rateStartedAt, rateCount, quotaStartedAt, quotaCount, inFlight]
  calling,   \* whose call is at the provider, Nobody when it is not, and whether the
             \* entry it was admitted under is still the one in the table
  admitted   \* history: the instants each principal was let through, in order

budgetVars == <<time, entries, entry, calling, admitted>>

NoCall == [principal |-> Nobody, current |-> FALSE]
Fresh == [rateStartedAt |-> time, rateCount |-> 0, quotaStartedAt |-> time, quotaCount |-> 0,
          inFlight |-> 0]

BudgetInit ==
  /\ time = 0
  /\ entries = {}
  /\ entry = [p \in Principal |-> Fresh]
  /\ calling = [c \in Call |-> NoCall]
  /\ admitted = [p \in Principal |-> <<>>]

-----------------------------------------------------------------------------
RateExpired(e) == time - e.rateStartedAt >= RateWindow
QuotaExpired(e) == time - e.quotaStartedAt >= QuotaWindow

ResetAlways(e) == [e EXCEPT !.rateStartedAt = time, !.rateCount = 0,
                            !.quotaStartedAt = IF QuotaExpired(e) THEN time ELSE @,
                            !.quotaCount = IF QuotaExpired(e) THEN 0 ELSE @]

\* resetExpiredWindows
Reset(e) ==
  [e EXCEPT !.rateStartedAt = IF RateExpired(e) THEN time ELSE @,
            !.rateCount = IF RateExpired(e) THEN 0 ELSE @,
            !.quotaStartedAt = IF QuotaExpired(e) THEN time ELSE @,
            !.quotaCount = IF QuotaExpired(e) THEN 0 ELSE @]

\* removeExpiredEntries
Removable(e) == e.inFlight = 0 /\ RateExpired(e) /\ QuotaExpired(e)

Kept(p) ==
  IF p \notin entries /\ Cardinality(entries) >= MaxPrincipals
  THEN {q \in entries : ~ Removable(entry[q])} ELSE entries

\* the entries after a call for p looked p's up, and p's own
Tabled(p) == IF p \in Kept(p) \/ Cardinality(Kept(p)) < MaxPrincipals THEN Kept(p) \cup {p} ELSE Kept(p)
Looked(p) == Reset(IF p \in entries THEN entry[p] ELSE Fresh)

Denied(e) ==
  \/ e.inFlight >= ConcurrencyLimit
  \/ e.rateCount >= RateLimit
  \/ e.quotaCount >= DailyQuota

\* an entry that was dropped, or dropped and made again, is not the one a call holds
Detached(p) ==
  [c \in Call |-> IF calling[c].principal \in entries \ Kept(p)
                  THEN [calling[c] EXCEPT !.current = FALSE] ELSE calling[c]]

(* acquire: what it did to the table stays done when it denies.            *)
Acquire(c, p) ==
  /\ calling[c].principal = Nobody
  /\ entries' = Tabled(p)
  /\ UNCHANGED time
  /\ LET e == Looked(p)
         ok == p \in Tabled(p) /\ ~ Denied(e)
     IN  /\ entry' = [entry EXCEPT ![p] =
              IF p \notin Tabled(p) THEN @
              ELSE IF ok THEN [e EXCEPT !.rateCount = @ + 1, !.quotaCount = @ + 1, !.inFlight = @ + 1]
              ELSE e]
         /\ calling' = IF ok THEN [Detached(p) EXCEPT ![c] = [principal |-> p, current |-> TRUE]]
                    ELSE Detached(p)
         /\ admitted' = IF ok THEN [admitted EXCEPT ![p] = Append(@, time)] ELSE admitted

ReleaseForgets(c) ==
  calling[c].principal # Nobody /\ calling' = [calling EXCEPT ![c] = NoCall] /\ UNCHANGED <<time, entries, entry, admitted>>

(* The provider answers, well or badly, the connection fails or the timer   *)
(* aborts it: every way out of synthesizeMunicipalAnswer passes its finally, *)
(* which releases once, and only an entry that is still the one in the table. *)
Release(c) ==
  LET p == calling[c].principal
      held == calling[c].current /\ entry[p].inFlight > 0
  IN  /\ p # Nobody
      /\ entry' = IF held THEN [entry EXCEPT ![p].inFlight = @ - 1] ELSE entry
      /\ calling' = [calling EXCEPT ![c] = NoCall]
      /\ UNCHANGED <<time, entries, admitted>>

BudgetTick ==
  /\ time < BudgetHorizon
  /\ time' = time + 1
  /\ UNCHANGED <<entries, entry, calling, admitted>>

BudgetNext ==
  \/ BudgetTick
  \/ \E c \in Call : Release(c) \/ \E p \in Principal : Acquire(c, p)

BudgetSpec == BudgetInit /\ [][BudgetNext]_budgetVars

-----------------------------------------------------------------------------
InFlight(p) == {c \in Call : calling[c].principal = p}

BudgetTypeOK ==
  /\ time \in Nat
  /\ entries \subseteq Principal
  /\ Cardinality(entries) <= MaxPrincipals
  /\ entry \in [Principal -> [rateStartedAt : 0 .. time, rateCount : 0 .. RateLimit,
                             quotaStartedAt : 0 .. time, quotaCount : 0 .. DailyQuota,
                             inFlight : 0 .. ConcurrencyLimit]]
  /\ calling \in [Call -> [principal : Principal \cup {Nobody}, current : BOOLEAN]]

(* Every call at the provider is counted once, on the entry that is in the *)
(* table, though entries come and go with the table's capacity while their *)
(* calls are out: so no way out leaks a slot, nobody stays refused once his *)
(* calls are back, and nobody has more of them out than                    *)
(* MUNI_AI_MAX_CONCURRENCY allows.                                         *)
NoSlotLeaks ==
  \A p \in Principal :
    /\ Cardinality(InFlight(p)) = IF p \in entries THEN entry[p].inFlight ELSE 0
    /\ Cardinality(InFlight(p)) <= ConcurrencyLimit

\* how often p was let through in a stretch of this length
Passed(p, from, length) ==
  Cardinality({i \in DOMAIN admitted[p] : admitted[p][i] \in from .. from + length - 1})

(* The windows are fixed ones that start with a call, so two bursts can     *)
(* meet at a border: any stretch as long as the window sees at most twice   *)
(* the limit, and never more, although entries are dropped when the table   *)
(* is full and made anew.                                                   *)
BurstsAreBounded ==
  \A p \in Principal, t \in 0 .. BudgetHorizon :
    /\ Passed(p, t, RateWindow) <= 2 * RateLimit
    /\ Passed(p, t, QuotaWindow) <= 2 * DailyQuota
=============================================================================
