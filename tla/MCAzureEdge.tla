--------------------------- MODULE MCAzureEdge ------------------------------
(***************************************************************************)
(* AzureEdge on one zone with two owner names, one of which can carry an A *)
(* or a CNAME.  Values of different keys are never compared, so truth says *)
(* v1 or nothing without loss of generality, and what an unmanaged key     *)
(* holds matters only as manual, registered or unreadable.                 *)
(***************************************************************************)
EXTENDS AzureEdge

CONSTANTS a1, c1, a2, v1, v2

MCOwner == [k \in {a1, c1, a2} |-> IF k = a2 THEN "two" ELSE "one"]

MCInit ==
    /\ Init
    /\ \A k \in Managed : intent[k] # v2
    /\ \A k \in Key \ Managed : edge[k] # v2

\* Truth read as written, losing records, or spelling some wrongly that nothing
\* else covers.  A key spelled rightly as well is no near miss, and one carried
\* twice is refused by the plan: they add nothing to the races.
RaceInit == MCInit /\ args.twice = {} /\ NearMisses(args) = args.misnamed
RaceSpec == RaceInit /\ [][Next]_vars

\* Running again with a truth known whole and written as it should be: what is
\* left to go wrong is the zone.
RerunInit == RaceInit /\ args.misnamed = {} /\ args.complete /\ ~args.allowUnverified
RerunSpec == RerunInit /\ [][Next]_vars /\ WF_vars(Progress) /\ WF_vars(Start)
=============================================================================
