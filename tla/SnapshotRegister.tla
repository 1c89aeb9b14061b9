-------------------------- MODULE SnapshotRegister --------------------------
(***************************************************************************)
(* What replays of GRH snapshots into one state directory promise: one     *)
(* active publication, replaced in an instant by one that may follow it,   *)
(* and callers told of their own replay what is true of it.                *)
(***************************************************************************)
EXTENDS PipelineRules

VARIABLES
  active,     \* the run whose bundle is active, or None
  published,  \* the runs whose bundle is or was active
  key,        \* the identity each run replays
  answer      \* what its caller is told, None before

vars == <<active, published, key, answer>>

\* how planning sees the active publication
Shown ==
  IF active = None THEN None
  ELSE [key |-> key[active], bundle |-> CHOOSE d \in Digest : TRUE, run |-> active]

Init ==
  /\ active = None
  /\ published = {}
  /\ key \in [Run -> Identity]
  /\ answer = [r \in Run |-> None]

\* never twice, never after the caller was answered, never backwards
Publish(r) ==
  /\ answer[r] = None
  /\ r \notin published
  /\ PlanCode(key[r], Shown) = "RUN_PLANNED"
  /\ active' = r
  /\ published' = published \cup {r}
  /\ UNCHANGED <<key, answer>>

SamePublished(r) == \E s \in published : key[s] = key[r]

Answer(r) ==
  /\ answer[r] = None
  /\ \/ r \in published /\ answer' = [answer EXCEPT ![r] = "promoted"]
     \/ r \notin published /\ SamePublished(r) /\ answer' = [answer EXCEPT ![r] = "duplicate"]
     \/ r \notin published /\ \E no \in {"failed", "blocked"} : answer' = [answer EXCEPT ![r] = no]
     \/ SamePublished(r) /\ answer' = [answer EXCEPT ![r] = "unreleased"]
  /\ UNCHANGED <<active, published, key>>

Next == \E r \in Run : Publish(r) \/ Answer(r)

Spec == Init /\ [][Next]_vars
=============================================================================
