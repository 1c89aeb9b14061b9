---------------------------- MODULE MCLedgerDesk ----------------------------
(***************************************************************************)
(* Instances of LedgerDesk for TLC: two overlapping invocations and one    *)
(* commitment.  Two instances share a run: "office" says whether both the  *)
(* mayor's page and a clerk's are open, over one brief and with one way to *)
(* fill in the fields, or the mayor's alone, over two of each.             *)
(***************************************************************************)
EXTENDS LedgerDesk, TLC

VARIABLE office
CONSTANTS p1, p2, c1, c2, mayor, clerk, e1, e2, k1, k2, k3, done

MCProc == {p1, p2}
OneCommitment == {c1}
MCUser == {mayor, clerk}
TwoCommands == {k1, k2}
TwoBriefs == {e1, e2}
MCOutcome == {done}
MCAsOf == [e \in Evidence |-> 0]
MCRoleOf == [u \in MCUser |-> IF u = mayor THEN "INTENDENTE" ELSE "CONTADOR"]

\* the fields: two due dates to choose from
TwoForms == {[assignee |-> "CONTADOR", due |-> d, outcome |-> done] : d \in {0, 1}}

\* every request these pages can send
Role1(u) == IF u = mayor THEN "INTENDENTE" ELSE "CONTADOR"
MCRequest ==
  {CreateRequest(k, mayor, "INTENDENTE", e, "CONTADOR", d) :
     k \in CommandId, e \in Evidence, d \in {0, 1}} \cup
  {TransitionRequest(command, k, u, Role1(u), c, v, d, IF command = "complete" THEN done ELSE None) :
     command \in Command \ {"create"}, k \in CommandId, u \in User, c \in CommitmentId,
     v \in 1 .. 4, d \in {0, 1}}

Away == User \ {mayor}

DeskInit == Init /\ office \in {"both", "alone"}

DeskNext ==
  /\ Next
  /\ UNCHANGED office
  /\ office = "both" =>
       UNCHANGED brief /\ \A u \in User : sending'[u] # None => sending'[u].body.due = 0
  /\ office = "alone" =>
       \A u \in Away : UNCHANGED <<seen[u], dialog[u], sending[u], notice[u]>>

DeskSpec == DeskInit /\ [][DeskNext]_<<vars, office>>

Symm == Permutations({p1, p2}) \cup Permutations(CommandId) \cup Permutations(Evidence)

\* What a caller that is gone asked for is never read again: states that differ
\* in it only are one.
LiveState ==
  <<row, taken, told, [p \in Proc |-> IF told[p] = "gone" THEN None ELSE asked[p]],
    brief, server, page, office>>
=============================================================================
