---------------------------- MODULE LedgerService ----------------------------
(***************************************************************************)
(* What the action ledger promises its callers: commitments change in      *)
(* single steps, each made by one request that the rules allow in the      *)
(* state it finds; a command is taken at most once; a caller told "done"   *)
(* has its request in the ledger, one told "refused" never gets it in, and *)
(* a request that is in is never refused.                                  *)
(* Locks, snapshots, retries and failures are not visible here.            *)
(***************************************************************************)
EXTENDS LedgerRules, FiniteSets

CONSTANTS
  Proc,            \* callers
  MaxCommitments   \* how many commitments the tenant may have

VARIABLES
  row,    \* the commitments
  taken,  \* the requests that took effect
  asked,  \* what each caller asked for last
  told    \* what it was told; "left": its request may still take effect,
          \* "gone": it will not

vars == <<row, taken, asked, told>>

Answers == {"done", "refused", "unsure"}

\* A request may change commitment c: a create when c is unused, the evidence
\* is free and the tenant has room, a transition when the rules allow it.
Allowed(r, c) ==
  IF IsCreate(r)
  THEN /\ row[c] = NoRow
       /\ \A d \in CommitmentId : row[d].version # 0 => row[d].evidence # r.evidence
       /\ Cardinality({d \in CommitmentId : row[d].version # 0}) < MaxCommitments
  ELSE c = r.commitment /\ TransitionReply(row[c], r) = "none"

Init ==
  /\ row = [c \in CommitmentId |-> NoRow]
  /\ taken = {}
  /\ asked \in [Proc -> Request]
  /\ told = [p \in Proc |-> "gone"]

\* A caller asks; some requests are refused on the spot, none that took effect.
Ask(p, r) ==
  /\ told[p] = "gone"
  /\ asked' = [asked EXCEPT ![p] = r]
  /\ \/ told' = [told EXCEPT ![p] = "waiting"]
     \/ r \notin taken /\ told' = [told EXCEPT ![p] = "refused"]
  /\ UNCHANGED <<row, taken>>

\* The request of p takes effect, possibly after p was left unsure or has left,
\* and p may hear of it in the same step.
Take(p) ==
  LET r == asked[p] IN
  /\ told[p] \notin {"refused", "gone"}
  /\ \A t \in taken : t.id # r.id
  /\ \E c \in CommitmentId :
       /\ Allowed(r, c)
       /\ row' = [row EXCEPT ![c] = IF IsCreate(r) THEN NewRow(r) ELSE UpdatedRow(row[c], r)]
  /\ taken' = taken \cup {r}
  /\ \/ UNCHANGED told
     \/ told[p] = "waiting" /\ told' = [told EXCEPT ![p] = "done"]
     \/ told[p] = "left" /\ told' = [told EXCEPT ![p] = "gone"]
  /\ UNCHANGED asked

Tell(p, t) ==
  /\ told[p] = "waiting"
  /\ t = "done" => asked[p] \in taken
  /\ t = "refused" => asked[p] \notin taken
  /\ told' = [told EXCEPT ![p] = t]
  /\ UNCHANGED <<row, taken, asked>>

\* A caller that was not refused may leave its request behind.
Leave(p) ==
  /\ told[p] # "gone"
  /\ \/ told' = [told EXCEPT ![p] = "gone"]
     \/ told[p] # "refused" /\ told' = [told EXCEPT ![p] = "left"]
  /\ UNCHANGED <<row, taken, asked>>

Next == \E p \in Proc :
  \/ \E r \in Request : Ask(p, r)
  \/ Take(p)
  \/ \E t \in Answers : Tell(p, t)
  \/ Leave(p)

Spec == Init /\ [][Next]_vars

=============================================================================
