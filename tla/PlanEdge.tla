------------------------------ MODULE PlanEdge ------------------------------
(***************************************************************************)
(* What ddi_reconciler.runner.plan_edge decides, as operators on the truth *)
(* that was read and on what a provider's fetch_actual returned.           *)
(*                                                                         *)
(* A key stands for the code's (zone, name, rtype) of one edge's zone; its *)
(* owner is its (zone, name).  A value stands for the pair (values, ttl),  *)
(* which is all diff_records compares.                                     *)
(***************************************************************************)

CONSTANTS
    Key,            \* record keys that can exist in the edge's zone
    Managed,        \* the edge's managed_keys
    CnameKey,       \* the keys whose record type is CNAME
    Owner,          \* the owner name of each key
    Value,          \* canonical (values, ttl) pairs
    Absent          \* no record set at the key

ASSUME PlanAssumption ==
    /\ Managed \subseteq Key
    /\ CnameKey \subseteq Key
    /\ Absent \notin Value

Content == Value \cup {Absent}

(***************************************************************************)
(* The arguments of one plan_edge call.  `record` is the desired state     *)
(* truth carries under a well-formed key, `misnamed` the managed keys some *)
(* truth record names with another zone/name split, `twice` the managed    *)
(* keys truth carries more than once.                                      *)
(***************************************************************************)
Args ==
    [record : [Managed -> Content], misnamed : SUBSET Managed, twice : SUBSET Managed,
     complete : BOOLEAN, allowEmpty : BOOLEAN, allowUnverified : BOOLEAN]

\* What a provider has after fetch_actual: the records it returned, the keys
\* it excluded, and the keys it flagged as drifted out of band.
Reading ==
    [actual : [Key -> Content], blocked : SUBSET Key, unparseable : SUBSET Key,
     drifted : SUBSET Key]

Diff == [add : SUBSET Managed, update : SUBSET Managed, delete : SUBSET Managed]

EmptyDiff == [add |-> {}, update |-> {}, delete |-> {}]

IsConverged(diff) == diff = EmptyDiff

DiffKeys(diff) == diff.add \cup diff.update \cup diff.delete

-----------------------------------------------------------------------------
(* _partition_desired *)

Desired(args) == {k \in Managed : args.record[k] # Absent}

\* A near miss is a misnamed record whose key nothing else covers.
NearMisses(args) == args.misnamed \ Desired(args)

-----------------------------------------------------------------------------
(* _check_type_conflicts *)

\* Two keys DNS does not let coexist: one owner, one of the two a CNAME.
Clash(j, k) ==
    /\ j # k
    /\ Owner[j] = Owner[k]
    /\ j \in CnameKey \/ k \in CnameKey

Observed(reading) ==
    {k \in Key : reading.actual[k] # Absent} \cup reading.blocked \cup reading.unparseable

TruthConflict(args) == \E j, k \in Desired(args) : Clash(j, k)

\* Variant: a record the same diff would delete is not in the way.
EdgeConflictAfterDeletes(args, reading) ==
    \E k \in Desired(args) \ Observed(reading) :
        \E j \in Observed(reading) \cap Desired(args) : Clash(j, k)

\* Only a record that would be created is gated.
EdgeConflict(args, reading) ==
    \E k \in Desired(args) \ Observed(reading) : \E j \in Observed(reading) : Clash(j, k)

-----------------------------------------------------------------------------
(* diff_records and _force_updates *)

\* Variant: the deletions are taken from the whole zone.
DiffRecordsOfZone(args, actual) ==
    [add    |-> {k \in Desired(args) : actual[k] = Absent},
     update |-> {k \in Desired(args) : actual[k] \notin {Absent, args.record[k]}},
     delete |-> {k \in Key \ Desired(args) : actual[k] # Absent}]

DiffRecords(args, actual) ==
    [add    |-> {k \in Desired(args) : actual[k] = Absent},
     update |-> {k \in Desired(args) : actual[k] \notin {Absent, args.record[k]}},
     delete |-> {k \in Managed \ Desired(args) : actual[k] # Absent}]

\* An RRset the provider flagged is updated even when its diff says equal.
ForceUpdates(diff, args, reading) ==
    [diff EXCEPT !.update = @ \cup
        {k \in reading.drifted \cap Desired(args) : reading.actual[k] # Absent}]

PlannedDiff(args, reading) ==
    ForceUpdates(DiffRecords(args, reading.actual), args, reading)

-----------------------------------------------------------------------------
(* plan_edge *)

Unwritable(reading) == Managed \cap (reading.blocked \cup reading.unparseable)

EmptyTruth(args, diff) ==
    Desired(args) = {} /\ diff.delete # {} /\ ~args.allowEmpty

\* Variant: only an empty truth needs to be proven whole.
UnverifiedOnlyIfEmpty(args, diff) ==
    Desired(args) = {} /\ diff.delete # {} /\ ~args.complete /\ ~args.allowUnverified

UnverifiedTruth(args, diff) ==
    diff.delete # {} /\ ~args.complete /\ ~args.allowUnverified

\* The refusals after the fetch.  Each raises before anything is written, so
\* which of them is reported first is not told apart here.
PlanRefuses(args, reading) ==
    \/ TruthConflict(args)
    \/ EdgeConflict(args, reading)
    \/ Unwritable(reading) # {}
    \/ args.twice # {}
    \/ EmptyTruth(args, PlannedDiff(args, reading))
    \/ UnverifiedTruth(args, PlannedDiff(args, reading))

=============================================================================
