--------------------------- MODULE MCActionLedger ---------------------------
(***************************************************************************)
(* Instances of ActionLedger for TLC.  Each scenario is a small set of     *)
(* requests chosen so that the calls really meet: the same command sent    *)
(* twice, two commands for one evidence, two transitions of one version.   *)
(***************************************************************************)
EXTENDS ActionLedger, TLC

CONSTANTS p1, p2, c1, c2, c3, mayor, clerk, aide, e1, e2, e3,
          k1, k2, k3, k4, k5, k6, k7, done

MCProc == {p1, p2}
OneCommitment == {c1}
ThreeCommitments == {c1, c2, c3}
TwoCommitments == {c1, c2}
MCUser == {mayor, clerk, aide}
MCCommandId == {k1, k2, k3, k4, k5, k6, k7}
MCEvidence == {e1, e2, e3}
MCOutcome == {done}
NoAge == [e \in MCEvidence |-> 0]
MCAsOf == [e \in MCEvidence |-> IF e = e1 THEN 1 ELSE 0]

Create(id, e, due) == CreateRequest(id, mayor, "INTENDENTE", e, "CONTADOR", due)
Act(command, id, actor, role, c, v) ==
  TransitionRequest(command, id, actor, role, c, v, 0, IF command = "complete" THEN done ELSE None)
Reschedule(id, c, v, due) == TransitionRequest("reschedule", id, mayor, "INTENDENTE", c, v, due, None)

\* For one retry to be wrong: a create and its twin, other creates of its id or
\* of its evidence.
CreateRequests ==
  {Create(k1, e2, 0), Create(k1, e2, 1), Create(k2, e2, 1), Create(k3, e1, 1)}

\* Races: two commands for one evidence and a third for another, then competing
\* transitions of one commitment, one command id on two commitments, and a
\* cancelation after which the evidence is tried again; a create with the id of a
\* claim; a date beyond the horizon.
RaceRequests ==
  {Create(k1, e2, 0), Create(k2, e3, 0), Create(k6, e2, 0), Create(k4, e3, 3),
   Act("claim", k2, clerk, "CONTADOR", c1, 1), Act("claim", k2, clerk, "CONTADOR", c2, 1),
   Act("cancel", k3, mayor, "INTENDENTE", c1, 1), Act("cancel", k4, mayor, "INTENDENTE", c1, 2),
   Act("complete", k4, clerk, "CONTADOR", c1, 2)}

\* A whole life: blocked and resumed, rescheduled to a day before the evidence,
\* worked on by a second clerk, and longer than a timeline may be; its create may
\* be retried when its date has passed.
LifeRequests ==
  {Create(k1, e1, 1),
   Act("claim", k2, clerk, "CONTADOR", c1, 1), Act("claim", k3, aide, "CONTADOR", c1, 1),
   Reschedule(k4, c1, 2, 0), Reschedule(k4, c1, 2, 2), Act("block", k5, clerk, "CONTADOR", c1, 2),
   Act("resume", k6, clerk, "CONTADOR", c1, 3), Act("complete", k6, aide, "CONTADOR", c1, 3),
   Act("complete", k7, clerk, "CONTADOR", c1, 4)}

\* The waits: creates that compete for the last place, deliveries of one claim, and
\* a create with the same command id.
WaitRequests ==
  {Create(k1, e2, 0), Create(k2, e3, 0), Create(k4, e1, 0),
   Act("claim", k2, clerk, "CONTADOR", c1, 1)}

\* Two users' transitions of consecutive versions, sent together.
OrderRequests ==
  {Create(k1, e2, 2), Act("claim", k2, clerk, "CONTADOR", c1, 1),
   Act("cancel", k3, mayor, "INTENDENTE", c1, 2), Reschedule(k4, c1, 2, 2)}

Symm == Permutations({p1, p2})

\* The variables of a call that is over are never read again: states that
\* differ in them only are one.
LiveState ==
  <<tables, today, pc, tx, snap, conflict, reply,
    [p \in Proc |-> IF pc[p] = "idle" /\ tx[p] = "none" THEN None
                    ELSE <<req[p], began[p], past[p], known[p], effect[p]>>]>>
=============================================================================
