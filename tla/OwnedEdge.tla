----------------------------- MODULE OwnedEdge ------------------------------
(***************************************************************************)
(* What the reconciler promises about a zone it shares with other writers  *)
(* (ADR-005): it moves only managed keys, only over record sets that are   *)
(* its to write, only to the value truth states, and it removes one only   *)
(* on evidence that truth does not carry it.  Other writers are not bound. *)
(***************************************************************************)
EXTENDS PlanEdge, Naturals

VARIABLES
    edge,       \* what the zone holds at each key
    edits,      \* how many changes the other writers have made
    intent,     \* the managed records SpatiumDDI really holds
    args        \* the truth, and the operator's flags, a run works from

vars == <<edge, edits, intent, args>>

\* A deletion needs a truth that has no record for the key: one proven whole,
\* or one the operator vouched for, and never one that only misspells the key
\* or, unless the operator asked to empty the zone, one with no record at all.
MayDelete(k) ==
    /\ intent[k] = Absent \/ args.allowUnverified
    /\ k \notin args.misnamed
    /\ Desired(args) # {} \/ args.allowEmpty

Init ==
    /\ edits = 0
    /\ args \in Args

\* The reconciler writes one record set.
Converge(k) ==
    /\ edge[k] \in Content
    /\ args.record[k] = Absent => MayDelete(k)
    /\ edge' = [edge EXCEPT ![k] = args.record[k]]
    /\ UNCHANGED <<edits, intent, args>>

\* Anybody else writes one record set.
ForeignEdit(k) ==
    /\ edge' = [edge EXCEPT ![k] = edge'[k]]
    /\ edits' = edits + 1
    /\ UNCHANGED <<intent, args>>

Next ==
    \/ \E k \in Managed : Converge(k)
    \/ \E k \in Key : ForeignEdit(k)

Spec == Init /\ [][Next]_vars

=============================================================================
