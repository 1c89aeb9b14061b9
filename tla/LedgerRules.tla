----------------------------- MODULE LedgerRules -----------------------------
(***************************************************************************)
(* The rules of the GRH action ledger that read no table: the shape of     *)
(* requests, rows and events, which transition a command makes and who may *)
(* run it, what its statements write, and what readers of a timeline       *)
(* demand.  ActionLedger runs them over concurrent transactions,           *)
(* LedgerService states them as one atomic step.                           *)
(***************************************************************************)
EXTENDS Naturals, Sequences

CONSTANTS
  CommitmentId,    \* ids the store may generate for commitments
  Request,         \* the requests callers may make, a set of records
  User, CommandId, Evidence, Outcome,
  None,            \* SQL NULL, and the absent field of a record
  AsOf,            \* AsOf[e] is the snapshot day of evidence e
  Horizon,         \* how far ahead a due date may lie (180 days in the code)
  MaxEvents        \* MAX_EVENTS_PER_COMMITMENT (128 in the code)

Command == {"create", "claim", "block", "resume", "complete", "reschedule", "cancel"}
Role == {"INTENDENTE", "TENANT_ADMIN", "CONTADOR"}
AssigneeRole == {"CONTADOR", "TENANT_ADMIN"}
State == {"OPEN", "IN_PROGRESS", "BLOCKED", "COMPLETED", "CANCELED"}
Live == {"OPEN", "IN_PROGRESS", "BLOCKED"}

\* A normalized call.  The payload digest covers every field but the command
\* id, so two requests with one id have the same digest iff they are equal.
RequestShape ==
  [command : Command, id : CommandId, actor : User, role : Role,
   commitment : CommitmentId \cup {None}, evidence : Evidence \cup {None},
   assignee : AssigneeRole \cup {None}, expected : Nat, due : Nat,
   outcome : Outcome \cup {None}]

CreateRequest(id, actor, role, evidence, assignee, due) ==
  [command |-> "create", id |-> id, actor |-> actor, role |-> role,
   commitment |-> None, evidence |-> evidence, assignee |-> assignee,
   expected |-> 0, due |-> due, outcome |-> None]

TransitionRequest(command, id, actor, role, c, expected, due, outcome) ==
  [command |-> command, id |-> id, actor |-> actor, role |-> role,
   commitment |-> c, evidence |-> None, assignee |-> None,
   expected |-> expected, due |-> due, outcome |-> outcome]

IsCreate(r) == r.command = "create"

\* What normalizeCreate and normalizeTransition have already made certain of
\* the shape of a call; dates and the creator's role are checked by Refused.
ASSUME RequestAssumption ==
  /\ Request # {}
  /\ Request \subseteq RequestShape
  /\ \A r \in Request :
       IF IsCreate(r)
       THEN r.commitment = None /\ r.evidence \in Evidence
            /\ r.assignee \in AssigneeRole /\ r.expected = 0 /\ r.outcome = None
       ELSE r.commitment \in CommitmentId /\ r.expected >= 1
            /\ (r.command = "complete" <=> r.outcome \in Outcome)

ASSUME LimitAssumption ==
  /\ Horizon \in Nat /\ MaxEvents \in Nat \ {0}
  /\ AsOf \in [Evidence -> Nat]

ASSUME NullAssumption == 
  None \notin CommitmentId \cup Evidence \cup User \cup Outcome \cup AssigneeRole \cup State

NoRow == [evidence |-> None, assignee |-> None, state |-> "ABSENT", owner |-> None,
          due |-> 0, version |-> 0, outcome |-> None]
Row == [evidence : Evidence \cup {None}, assignee : AssigneeRole \cup {None},
        state : State \cup {"ABSENT"}, owner : User \cup {None},
        due : Nat, version : Nat, outcome : Outcome \cup {None}]
Event == [req : Request, from : State \cup {None}, to : State, result : Nat, at : Nat]

-----------------------------------------------------------------------------
(* The transition a command makes, and who may run it. *)

\* the states a command may start from, and the one it leads to
From(command) ==
  CASE command = "claim" -> {"OPEN"}
    [] command \in {"block", "complete"} -> {"IN_PROGRESS"}
    [] command = "resume" -> {"BLOCKED"}
    [] command \in {"reschedule", "cancel"} -> Live
    [] OTHER -> {}

To(command, from) ==
  CASE command \in {"claim", "resume"} -> "IN_PROGRESS"
    [] command = "block" -> "BLOCKED"
    [] command = "complete" -> "COMPLETED"
    [] command = "cancel" -> "CANCELED"
    [] command = "create" -> "OPEN"
    [] OTHER -> from

\* Mutant of TransitionRefusal: the role of the assignee is enough to work on it.
TransitionRefusalByRole(rw, r) ==
  IF rw.state \notin From(r.command) THEN "TRANSITION_INVALID"
  ELSE IF r.command \in {"claim", "block", "resume", "complete"}
       THEN IF r.role # rw.assignee THEN "ASSIGNEE_ROLE_DENIED" ELSE "none"
  ELSE IF r.role # "INTENDENTE" THEN "OWNERSHIP_DENIED" ELSE "none"

\* transitionFor: the state first, then who may run the command
TransitionRefusal(rw, r) ==
  IF rw.state \notin From(r.command) THEN "TRANSITION_INVALID"
  ELSE IF r.command = "claim"
       THEN IF r.role # rw.assignee THEN "ASSIGNEE_ROLE_DENIED" ELSE "none"
  ELSE IF r.command \in {"block", "resume", "complete"}
       THEN IF rw.owner # r.actor THEN "OWNERSHIP_DENIED" ELSE "none"
  ELSE IF r.role # "INTENDENTE" THEN "OWNERSHIP_DENIED" ELSE "none"

\* Mutant of TransitionReply: the expected version is not compared.
TransitionReplyUnversioned(rw, r) ==
  IF rw.version = 0 THEN "COMMITMENT_NOT_FOUND" ELSE TransitionRefusal(rw, r)

\* transitionCommitment once the row is locked (no row: NOT_FOUND)
TransitionReply(rw, r) ==
  IF rw.version = 0 THEN "COMMITMENT_NOT_FOUND"
  ELSE IF rw.version # r.expected THEN "VERSION_CONFLICT"
  ELSE TransitionRefusal(rw, r)

-----------------------------------------------------------------------------
(* What the statements of the store write. *)

\* Mutant of NewRow: the assignee's role goes where the owner's id belongs.
NewRowOwnedByRole(r) ==
  [evidence |-> r.evidence, assignee |-> r.assignee, state |-> "OPEN", owner |-> r.assignee,
   due |-> r.due, version |-> 1, outcome |-> None]

NewRow(r) ==
  [evidence |-> r.evidence, assignee |-> r.assignee, state |-> "OPEN", owner |-> None,
   due |-> r.due, version |-> 1, outcome |-> None]

UpdatedRow(rw, r) ==
  [rw EXCEPT !.state = To(r.command, rw.state),
             !.owner = IF r.command = "claim" THEN r.actor ELSE rw.owner,
             !.due = IF r.command = "reschedule" THEN r.due ELSE rw.due,
             !.outcome = IF r.command = "complete" THEN r.outcome ELSE None,
             !.version = rw.version + 1]

NewEvent(r, rw, day) ==
  [req |-> r, from |-> IF IsCreate(r) THEN None ELSE rw.state,
   to |-> To(r.command, rw.state), result |-> r.expected + 1, at |-> day]

-----------------------------------------------------------------------------
(* What readers of the ledger demand of it. *)

\* the CHECK constraints of grh_action_commitments
RowCheck(rw) ==
  /\ rw.version >= 1
  /\ rw.assignee \in AssigneeRole
  /\ rw.due >= AsOf[rw.evidence]
  /\ \/ rw.state = "OPEN" /\ rw.owner = None /\ rw.outcome = None
     \/ rw.state \in {"IN_PROGRESS", "BLOCKED"} /\ rw.owner # None /\ rw.outcome = None
     \/ rw.state = "COMPLETED" /\ rw.owner # None /\ rw.outcome \in Outcome
     \/ rw.state = "CANCELED" /\ rw.outcome = None

\* the transitions the CHECK constraint on events lists; the inspector's
\* validEventTransition lists the same
ListedTransition ==
  {<<"create", None, "OPEN">>, <<"claim", "OPEN", "IN_PROGRESS">>,
   <<"block", "IN_PROGRESS", "BLOCKED">>, <<"resume", "BLOCKED", "IN_PROGRESS">>,
   <<"complete", "IN_PROGRESS", "COMPLETED">>}
  \cup {<<"reschedule", s, s>> : s \in {"OPEN", "IN_PROGRESS", "BLOCKED"}}
  \cup {<<"cancel", s, "CANCELED">> : s \in {"OPEN", "IN_PROGRESS", "BLOCKED"}}

EventCheck(e) ==
  /\ <<e.req.command, e.from, e.to>> \in ListedTransition
  /\ e.result = e.req.expected + 1
  /\ e.req.command = "create" => e.result = 1
  /\ e.req.command = "complete" <=> e.req.outcome \in Outcome

SetsDue(e) == e.req.command \in {"create", "reschedule"}

\* inspectCommitment: the timeline s of a commitment never goes back in time
TimesRise(s) == \A i \in 2 .. Len(s) : s[i-1].at <= s[i].at

\* inspectCommitment: the rest of what it demands of one commitment of a list
InspectTimeline(rw, s) ==
  /\ rw.version >= 1
  /\ Len(s) \in 1 .. MaxEvents
  /\ \A i \in DOMAIN s : s[i].result = i /\ EventCheck(s[i])
  /\ \A i \in 2 .. Len(s) : s[i].from = s[i-1].to
  /\ s[Len(s)].result = rw.version
  /\ s[Len(s)].to = rw.state
  /\ \E i \in DOMAIN s : /\ SetsDue(s[i]) /\ s[i].req.due = rw.due
                         /\ \A j \in (i+1) .. Len(s) : ~SetsDue(s[j])
  /\ IF rw.state = "COMPLETED"
     THEN s[Len(s)].req.command = "complete" /\ s[Len(s)].req.outcome = rw.outcome
     ELSE rw.outcome = None

=============================================================================
