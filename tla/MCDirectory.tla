----------------------------- MODULE MCDirectory -----------------------------
(***************************************************************************)
(* One request to the directory by a user with an assignment of the town   *)
(* and one of the subtree of a unit that may be retired.                   *)
(***************************************************************************)
EXTENDS DirectoryAccess, TLC

CONSTANTS c1, u1, u2, town, sub, ana, beto, s1

MCBelow == (u1 :> {u1, u2}) @@ (u2 :> {u2})
MCScopeOf == (town :> [kind |-> "TENANT", unit |-> Null])
          @@ (sub :> [kind |-> "ORG_SUBTREE", unit |-> u1])
MCArtifact == {[sha |-> s1, people |-> <<[name |-> ana, legajo |-> 1, unit |-> u1],
                                         [name |-> beto, legajo |-> 2, unit |-> u2]>>]}
=============================================================================
