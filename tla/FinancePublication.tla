------------------------- MODULE FinancePublication -------------------------
(***************************************************************************)
(* publishGrhWorkforceFinanceSnapshot: calls that append a snapshot and    *)
(* its publication event to one tenant's audit_logs, each in a READ        *)
(* COMMITTED transaction of several statements, while readers take the     *)
(* row with the latest createdAt.  createdAt is the clock of the server at *)
(* the insert, and that clock may be set back.  Any statement may fail,    *)
(* the acknowledgement of a COMMIT may be lost, and the caller may give up *)
(* while a COMMIT runs (query_timeout), which the server then completes or *)
(* not on its own; the caller may call again with the same operation.      *)
(***************************************************************************)
EXTENDS Naturals, FiniteSets, Sequences

CONSTANTS
  Publisher,    \* calls, a retry being a call of its own
  Operation,    \* operationIds
  Entity,       \* entityIds
  Snapshot,     \* artifact hashes, each of one approved release
  RowId,        \* ids of rows, random uuids, ordered
  ClockHorizon, \* bound: the latest time of the server's clock
  MaxSetbacks,  \* bound: how often it is set back
  Nothing

Request == [operation : Operation, entity : Entity, artifact : Snapshot]
Row == [id : RowId, entity : Entity, artifact : Snapshot, createdAt : 0 .. ClockHorizon]

ASSUME PublicationAssumption ==
  /\ RowId \subseteq Nat
  /\ Nothing \notin Publisher \cup Request \cup Row
  /\ ClockHorizon \in Nat /\ MaxSetbacks \in Nat

VARIABLES
  clock, setbacks,
  rows,       \* committed payload rows
  events,     \* committed publication events, each the request it records
  activation, \* whose call holds the tenant's activation lock, Nothing when it is free
  publishing, \* [phase, request, row]; phase "left": told of a failure while its COMMIT
              \* runs; row: the one inserted and not yet committed
  published   \* history: the committed rows in the order of their commits

financeVars == <<clock, setbacks, rows, events, activation, publishing, published>>

NoPublication == [phase |-> "idle", request |-> Nothing, row |-> Nothing]

FinanceInit ==
  /\ clock = 0
  /\ setbacks = 0
  /\ rows = {}
  /\ events = {}
  /\ activation = Nothing
  /\ publishing = [p \in Publisher |-> NoPublication]
  /\ published = <<>>

-----------------------------------------------------------------------------
\* ORDER BY "createdAt" DESC, id DESC
Before(r, s) == r.createdAt < s.createdAt \/ (r.createdAt = s.createdAt /\ r.id < s.id)

\* r is the row LIMIT 1 yields
Latest(r, table) == r \in table /\ \A s \in table : s = r \/ Before(s, r)

\* the events FIND_..._OPERATION_SQL yields
Matching(request) ==
  {e \in events : e.entity = request.entity \/ e.operation = request.operation}

ActivationFree == activation = Nothing

Goto(p, phase) ==
  /\ publishing' = [publishing EXCEPT ![p].phase = phase]
  /\ UNCHANGED <<clock, setbacks, rows, events, published>>

BeginPublication(p, request) ==
  /\ publishing[p].phase = "idle"
  /\ publishing' = [publishing EXCEPT ![p] = [phase |-> "locking", request |-> request, row |-> Nothing]]
  /\ UNCHANGED <<clock, setbacks, rows, events, activation, published>>

(* acquireIdempotencyLocks.  The locks on the entity and the operation come *)
(* after the tenant's and before it is released, so they never wait.        *)
TakeActivation(p) ==
  /\ publishing[p].phase = "locking"
  /\ ActivationFree
  /\ activation' = p
  /\ Goto(p, "finding")

\* the transaction ends without a row: rolled back by a statement that fails or by a
\* check of the publisher, or committed after nothing but reading
EndPublication(p, phase) ==
  /\ activation' = IF activation = p THEN Nothing ELSE activation
  /\ publishing' = [publishing EXCEPT ![p].phase = phase, ![p].row = Nothing]
  /\ UNCHANGED <<clock, setbacks, rows, events, published>>

FailPublication(p) ==
  /\ publishing[p].phase \in {"locking", "finding", "reusing", "inserting", "checking", "committing", "replying"}
  /\ EndPublication(p, "failed")

\* one event may record this very request; any other match is a conflict
Find(p) ==
  /\ publishing[p].phase = "finding"
  /\ LET found == Matching(publishing[p].request)
     IN  \/ found = {} /\ Goto(p, "inserting") /\ UNCHANGED activation
         \/ found = {publishing[p].request} /\ Goto(p, "reusing") /\ UNCHANGED activation
         \/ found \notin {{}, {publishing[p].request}} /\ EndPublication(p, "failed")

ReuseUnchecked(p) ==
  /\ publishing[p].phase = "reusing"
  /\ Goto(p, "replying") /\ UNCHANGED activation

\* readAndVerifyActivePayload, without a row id: a superseded publication is refused
Reuse(p) ==
  /\ publishing[p].phase = "reusing"
  /\ \E r \in rows :
       /\ Latest(r, rows)
       /\ IF r.entity = publishing[p].request.entity /\ r.artifact = publishing[p].request.artifact
          THEN Goto(p, "replying") /\ UNCHANGED activation
          ELSE EndPublication(p, "failed")

Taken == {r.id : r \in rows} \cup {publishing[q].row.id : q \in {q \in Publisher : publishing[q].row # Nothing}}

\* Mutant of Insert: the row goes in outside of the transaction.
InsertAtOnce(p) ==
  /\ publishing[p].phase = "inserting"
  /\ \E id \in RowId \ Taken :
       LET row == [id |-> id, entity |-> publishing[p].request.entity,
                   artifact |-> publishing[p].request.artifact, createdAt |-> clock]
       IN  /\ publishing' = [publishing EXCEPT ![p].phase = "checking", ![p].row = row]
           /\ rows' = rows \cup {row}
  /\ UNCHANGED <<clock, setbacks, events, activation, published>>

Insert(p) ==
  /\ publishing[p].phase = "inserting"
  /\ \E id \in RowId \ Taken :
       publishing' = [publishing EXCEPT ![p].phase = "checking",
                            ![p].row = [id |-> id, entity |-> publishing[p].request.entity,
                                        artifact |-> publishing[p].request.artifact, createdAt |-> clock]]
  /\ UNCHANGED <<clock, setbacks, rows, events, activation, published>>

CheckActiveSkipped(p) ==
  publishing[p].phase = "checking" /\ Goto(p, "committing") /\ UNCHANGED activation

\* what was just inserted must be what readers will get
CheckActive(p) ==
  /\ publishing[p].phase = "checking"
  /\ IF Latest(publishing[p].row, rows \cup {publishing[p].row})
     THEN Goto(p, "committing") /\ UNCHANGED activation
     ELSE EndPublication(p, "failed")

\* the caller gives up on a COMMIT that has not ended, and nobody hears of it any more
LeavePublication(p) ==
  /\ publishing[p].phase = "committing"
  /\ Goto(p, "left") /\ UNCHANGED activation

RollBackLeft(p) ==
  /\ publishing[p].phase = "left"
  /\ EndPublication(p, "failed")

\* COMMIT, acknowledged or not
CommitPublication(p, answer) ==
  /\ \/ publishing[p].phase = "committing"
     \/ publishing[p].phase = "left" /\ answer = "failed"
  /\ rows' = rows \cup {publishing[p].row}
  /\ events' = events \cup {publishing[p].request}
  /\ published' = Append(published, publishing[p].row)
  /\ activation' = IF activation = p THEN Nothing ELSE activation
  /\ publishing' = [publishing EXCEPT ![p].phase = answer, ![p].row = Nothing]
  /\ UNCHANGED <<clock, setbacks>>

CommitReuse(p) ==
  /\ publishing[p].phase = "replying"
  /\ EndPublication(p, "reused")

ClockTick ==
  /\ clock < ClockHorizon
  /\ clock' = clock + 1
  /\ UNCHANGED <<setbacks, rows, events, activation, publishing, published>>

SetBack ==
  /\ clock > 0 /\ setbacks < MaxSetbacks
  /\ clock' = clock - 1
  /\ setbacks' = setbacks + 1
  /\ UNCHANGED <<rows, events, activation, publishing, published>>

FinanceNext ==
  \/ ClockTick
  \/ SetBack
  \/ \E p \in Publisher :
       \/ \E request \in Request : BeginPublication(p, request)
       \/ TakeActivation(p) \/ Find(p) \/ Reuse(p) \/ Insert(p) \/ CheckActive(p)
       \/ CommitPublication(p, "created") \/ CommitPublication(p, "failed") \/ CommitReuse(p)
       \/ FailPublication(p) \/ LeavePublication(p) \/ RollBackLeft(p)

FinanceSpec == FinanceInit /\ [][FinanceNext]_financeVars

-----------------------------------------------------------------------------
PublishPhase == {"idle", "locking", "finding", "reusing", "replying", "inserting", "checking",
          "committing", "left", "created", "reused", "failed"}
Locked == {"finding", "reusing", "replying", "inserting", "checking", "committing", "left"}

FinanceTypeOK ==
  /\ clock \in 0 .. ClockHorizon
  /\ setbacks \in 0 .. MaxSetbacks
  /\ rows \subseteq Row
  /\ events \subseteq Request
  /\ activation \in Publisher \cup {Nothing}
  /\ publishing \in [Publisher -> [phase : PublishPhase, request : Request \cup {Nothing}, row : Row \cup {Nothing}]]
  /\ published \in Seq(Row)
  /\ \A p \in Publisher :
       /\ activation = p <=> publishing[p].phase \in Locked
       /\ publishing[p].row # Nothing <=> publishing[p].phase \in {"checking", "committing", "left"}
       /\ publishing[p].request = Nothing <=> publishing[p].phase = "idle"

(* Readers order rows by the time of their insert, publishers succeed each *)
(* other by commit: both agree, so the snapshot everyone reads is the one  *)
(* whose publication committed last, whatever the clock did ("concurrent   *)
(* releases cannot race the latest-snapshot ordering contract").           *)
ReadersGetTheLastPublished ==
  Len(published) > 0 => Latest(published[Len(published)], rows)

(* An operation and an entity are published at most once, however often    *)
(* and with whatever else they are called again.                           *)
PublishedOnce ==
  /\ \A d, e \in events : d.operation = e.operation \/ d.entity = e.entity => d = e
  /\ \A r, s \in rows : r.entity = s.entity => r = s

(* Being told "created" or "reused" means exactly this artifact was        *)
(* published under this operation, also when the first call for it was     *)
(* told of a failure; a reuse is only ever told while it is what readers   *)
(* get, so a late retry never brings a superseded snapshot back.           *)
AnswersAreTrue ==
  \A p \in Publisher :
    publishing[p].phase \in {"created", "reused", "replying"} =>
      /\ publishing[p].request \in events
      /\ \E r \in rows : r.entity = publishing[p].request.entity /\ r.artifact = publishing[p].request.artifact
      /\ publishing[p].phase = "replying" =>
           \E r \in rows : Latest(r, rows) /\ r.entity = publishing[p].request.entity

-----------------------------------------------------------------------------
\* what readers get
Current ==
  IF rows = {} THEN Nothing
  ELSE LET r == CHOOSE r \in rows : Latest(r, rows) IN [entity |-> r.entity, artifact |-> r.artifact]

Asked == [p \in Publisher |-> publishing[p].request]

Told == [p \in Publisher |->
  IF publishing[p].phase \in {"created", "reused", "failed", "left"} THEN publishing[p].phase ELSE "waiting"]

Service == INSTANCE PublicationService
             WITH current <- Current, taken <- events, asked <- Asked, told <- Told

(* Transactions of several statements under three locks, a table ordered   *)
(* by a clock that is set back, calls that fail anywhere, are made again   *)
(* and may take effect after they were told of a failure: to readers and   *)
(* callers a publication is still one step, taken once, and what a caller  *)
(* is told of it is true at that moment.                                   *)
ImplementsService == Service!Spec
=============================================================================
