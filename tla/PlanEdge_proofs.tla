-------------------------- MODULE PlanEdge_proofs ---------------------------
(***************************************************************************)
(* What plan_edge decides, for every truth, flags and reading: the facts   *)
(* about its diff that the proofs of both edges rest on.                   *)
(***************************************************************************)
EXTENDS PlanEdge, TLAPS

USE PlanAssumption

\* The diff plan_edge computes is a diff of managed keys.
LEMMA PlanIsDiff ==
    ASSUME NEW a \in Args, NEW r \in Reading
    PROVE  PlannedDiff(a, r) \in Diff
BY DEF PlannedDiff, ForceUpdates, DiffRecords, Diff, Desired, Reading, Args

\* Its three parts, by what the fetch saw and what it flagged.
LEMMA PlanParts ==
    ASSUME NEW a \in Args, NEW r \in Reading
    PROVE  PlannedDiff(a, r) =
             [add    |-> {k \in Desired(a) : r.actual[k] = Absent},
              update |-> {k \in Desired(a) : /\ r.actual[k] # Absent
                                             /\ r.actual[k] # a.record[k] \/ k \in r.drifted},
              delete |-> {k \in Managed \ Desired(a) : r.actual[k] # Absent}]
<1> DEFINE Updates == {k \in Desired(a) : r.actual[k] \notin {Absent, a.record[k]}}
           Forced == {k \in r.drifted \cap Desired(a) : r.actual[k] # Absent}
           P == PlannedDiff(a, r)
<1>1. P = [add    |-> {k \in Desired(a) : r.actual[k] = Absent},
           update |-> Updates \cup Forced,
           delete |-> {k \in Managed \ Desired(a) : r.actual[k] # Absent}]
  <2>1. P = [add |-> P.add, update |-> P.update, delete |-> P.delete]
    BY PlanIsDiff DEF Diff
  <2>2. /\ P.add = {k \in Desired(a) : r.actual[k] = Absent}
        /\ P.delete = {k \in Managed \ Desired(a) : r.actual[k] # Absent}
        /\ P.update = Updates \cup Forced
    BY DEF PlannedDiff, ForceUpdates, DiffRecords
  <2> QED BY <2>1, <2>2
<1>2. Updates \cup Forced =
        {k \in Desired(a) : /\ r.actual[k] # Absent
                            /\ r.actual[k] # a.record[k] \/ k \in r.drifted}
  OBVIOUS
<1> QED BY <1>1, <1>2

\* A plan adds only where the fetch saw nothing and updates or deletes only
\* where it saw a record; what it deletes truth does not carry.
LEMMA PlanSawTheZone ==
    ASSUME NEW a \in Args, NEW r \in Reading
    PROVE  /\ \A k \in PlannedDiff(a, r).add : r.actual[k] = Absent /\ k \in Desired(a)
           /\ \A k \in PlannedDiff(a, r).update : r.actual[k] # Absent /\ k \in Desired(a)
           /\ \A k \in PlannedDiff(a, r).delete : r.actual[k] # Absent /\ k \notin Desired(a)
BY PlanParts

\* What a plan leaves alone was read as truth states it and was not flagged.
LEMMA PlanLeavesAlone ==
    ASSUME NEW a \in Args, NEW r \in Reading, NEW k \in Managed,
           k \notin DiffKeys(PlannedDiff(a, r))
    PROVE  r.actual[k] = a.record[k] /\ (a.record[k] # Absent => k \notin r.drifted)
BY PlanParts DEF DiffKeys, Desired

\* So a plan without changes read every managed key as truth states it.
LEMMA ConvergedPlan ==
    ASSUME NEW a \in Args, NEW r \in Reading, IsConverged(PlannedDiff(a, r)), NEW k \in Managed
    PROVE  r.actual[k] = a.record[k] /\ (a.record[k] # Absent => k \notin r.drifted)
<1>1. DiffKeys(PlannedDiff(a, r)) = {}
  BY DEF IsConverged, EmptyDiff, DiffKeys
<1> QED BY <1>1, PlanLeavesAlone

\* And a reading that is as truth states it, where truth has no conflict and no
\* key twice and every managed key can be written, is planned as converged.
LEMMA AgreementConverges ==
    ASSUME NEW a \in Args, NEW r \in Reading,
           \A k \in Managed : r.actual[k] = a.record[k],
           \A k \in Desired(a) : k \notin r.drifted,
           Unwritable(r) = {}, ~TruthConflict(a), a.twice = {}
    PROVE  ~PlanRefuses(a, r) /\ IsConverged(PlannedDiff(a, r))
<1>1. /\ {k \in Desired(a) : r.actual[k] = Absent} = {}
      /\ {k \in Desired(a) : r.actual[k] # Absent
                             /\ (r.actual[k] # a.record[k] \/ k \in r.drifted)} = {}
      /\ {k \in Managed \ Desired(a) : r.actual[k] # Absent} = {}
  BY DEF Desired
<1>2. PlannedDiff(a, r) = EmptyDiff
  BY <1>1, PlanParts DEF EmptyDiff
<1>3. ~EdgeConflict(a, r)
  BY DEF EdgeConflict, Observed, Desired
<1>4. ~EmptyTruth(a, EmptyDiff) /\ ~UnverifiedTruth(a, EmptyDiff)
  BY DEF EmptyTruth, UnverifiedTruth, EmptyDiff
<1> QED BY <1>2, <1>3, <1>4 DEF PlanRefuses, IsConverged

\* Where the plan was accepted, no record it adds clashes with one the fetch
\* saw or with another one that truth carries.
LEMMA AddsDoNotClash ==
    ASSUME NEW a \in Args, NEW r \in Reading, ~PlanRefuses(a, r),
           NEW k \in Desired(a), k \notin Observed(r), NEW j \in Key,
           j \in Observed(r) \cup Desired(a)
    PROVE  ~Clash(j, k)
BY DEF PlanRefuses, TruthConflict, EdgeConflict

=============================================================================
