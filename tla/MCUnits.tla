------------------------------- MODULE MCUnits -------------------------------
(***************************************************************************)
(* Instances for TLC of the components that are used one by one and share  *)
(* no state: a pipeline run, an account, the copilot's budget, the         *)
(* publication of workforce finance, the access to the directory.  `unit`  *)
(* says which of them a behaviour is about; the others stay as they began. *)
(***************************************************************************)
EXTENDS PipelineRun, AccountLifecycle, CopilotBudget, FinancePublication, DirectoryAccess, TLC

CONSTANTS
  r1, r2, d1, d2, s1, s2, s3, m1, m2, m3, f1, pa, pb,  \* of PipelineRun
  u1, u2, town, dir, sub, ana, beto                    \* of DirectoryAccess

VARIABLE unit

\* two cut-off dates, two sources on the later one, two processors for one of them
First == [asOf |-> 1, sha |-> s1, approval |-> m1, processor |-> pa, file |-> f1]
Second == [asOf |-> 2, sha |-> s2, approval |-> m2, processor |-> pa, file |-> f1]
Rebuilt == [asOf |-> 2, sha |-> s2, approval |-> m2, processor |-> pb, file |-> f1]
Disputed == [asOf |-> 2, sha |-> s3, approval |-> m3, processor |-> pa, file |-> f1]

MCRun == {r1, r2}
MCDigest == {d1, d2}
MCIdentity == {First, Second, Rebuilt, Disputed}

(* One unit below another; an assignment of the town, one of the lower     *)
(* unit and one of the upper unit's subtree; a directory, its publication  *)
(* again with people moved and a legajo shared, and one of another source. *)
Listing(name, legajo, code) == [name |-> name, legajo |-> legajo, unit |-> code]
Published == [sha |-> s1, people |-> <<Listing(ana, 1, u1), Listing(beto, 2, u2)>>]
Again == [sha |-> s1, people |-> <<Listing(beto, 1, u2), Listing(ana, 1, u1)>>]
Foreign == [sha |-> s2, people |-> <<Listing(ana, 2, u1)>>]

MCUnit == {u1, u2}
MCBelow == (u1 :> {u1, u2}) @@ (u2 :> {u2})
MCAssignment == {town, dir, sub}
MCScopeOf == (town :> [kind |-> "TENANT", unit |-> Null])
          @@ (dir :> [kind |-> "ORG_UNIT", unit |-> u2])
          @@ (sub :> [kind |-> "ORG_SUBTREE", unit |-> u1])
MCArtifact == {Published, Again, Foreign}

-----------------------------------------------------------------------------
UnitsInit ==
  /\ unit \in {"run", "account", "budget", "finance", "directory"}
  /\ Init /\ (unit # "run" => prior = None)
  /\ AccountInit
  /\ BudgetInit
  /\ FinanceInit
  /\ DirectoryInit /\ granted = {dir, sub} /\ source = Published

UnitsNext ==
  \/ unit = "run" /\ Next
       /\ UNCHANGED <<unit, accountVars, budgetVars, financeVars, directoryVars>>
  \/ unit = "account" /\ AccountNext
       /\ UNCHANGED <<unit, vars, budgetVars, financeVars, directoryVars>>
  \/ unit = "budget" /\ BudgetNext
       /\ UNCHANGED <<unit, vars, accountVars, financeVars, directoryVars>>
  \/ unit = "finance" /\ FinanceNext
       /\ UNCHANGED <<unit, vars, accountVars, budgetVars, directoryVars>>
  \/ unit = "directory" /\ DirectoryNext
       /\ UNCHANGED <<unit, vars, accountVars, budgetVars, financeVars>>

Symm == Permutations(Call) \cup Permutations(Conn)
=============================================================================
