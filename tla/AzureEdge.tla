----------------------------- MODULE AzureEdge ------------------------------
(***************************************************************************)
(* runner.apply_edge against an Azure private zone through                 *)
(* providers.azure.AzureProvider: list the zone, plan, vet the diff, write *)
(* it record set by record set under ETag preconditions, list again and    *)
(* plan again.  VM auto-registration and operators change the zone between *)
(* any two steps, requests fail, and the run can be interrupted; whoever   *)
(* runs it may run it again with the same arguments.                       *)
(***************************************************************************)
EXTENDS PlanEdge, Naturals

CONSTANTS
    Unsupported,    \* keys whose type is outside SUPPORTED_RECORD_TYPES
    Registered,     \* a record set not known to be manual (is_auto_registered)
    Unreadable,     \* a manual record set with no values, or unparseable ones
    MaxEdits,       \* bound on the changes other writers make
    MaxFaults       \* bound on failed requests, lost ETags and interrupts

ASSUME AzureAssumption ==
    /\ Unsupported \subseteq Key \ Managed
    /\ Registered \notin Content /\ Unreadable \notin Content /\ Registered # Unreadable
    /\ MaxEdits \in Nat /\ MaxFaults \in Nat

VARIABLES
    edge,           \* the zone at Azure
    gen,            \* generation of each key; an existing set's ETag
    intent,         \* the managed records SpatiumDDI holds
    args,           \* the truth as read, and the operator's flags
    pc,             \* where apply_edge is
    unlisted,       \* keys the listing in progress has still to return
    actual,         \* fetch_actual's records
    blocked,        \* AzureProvider.blocked_keys
    unparseable,    \* AzureProvider.unparseable_keys
    etags,          \* AzureProvider._etags
    diff,           \* the planned diff
    landed,         \* its keys whose write has taken effect
    mutating,       \* on_mutate has been called
    edits, faults,  \* changes by others and failures so far
    disturbed       \* whether one of them happened during this run

zone == <<edge, gen>>
truth == <<intent, args>>
provider == <<unlisted, actual, blocked, unparseable, etags>>
run == <<pc, diff, landed, mutating>>
luck == <<edits, faults, disturbed>>
vars == <<zone, truth, provider, run, luck>>

NoTag == 0
Slot == Content \cup {Registered, Unreadable}
Ended == {"returned", "raised", "interrupted"}
Steps == {"partition", "list", "vet", "write", "relist"} \cup Ended
Nothing == [k \in Key |-> Absent]

TypeOK ==
    /\ edge \in [Key -> Slot]
    /\ gen \in [Key -> Nat \ {0}]
    /\ intent \in [Managed -> Content]
    /\ args \in Args
    /\ pc \in Steps
    /\ unlisted \subseteq Key
    /\ actual \in [Key -> Content]
    /\ blocked \subseteq Key /\ unparseable \subseteq Key
    /\ etags \in [Key -> Nat]
    /\ diff \in Diff
    /\ landed \subseteq Key
    /\ mutating \in BOOLEAN /\ disturbed \in BOOLEAN
    /\ edits \in 0..MaxEdits /\ faults \in 0..MaxFaults

\* Azure keeps every zone free of CNAME coexistence.
CanExist(zoneEdge, k) == \A j \in Key : Clash(j, k) => zoneEdge[j] = Absent

\* args is a possible read of intent: a record can be misnamed, and lost only
\* from a read that is not proven whole.
Reads(intended, as) ==
    /\ \A k \in Managed : as.record[k] \in {intended[k], Absent}
    /\ \A k \in Managed : as.record[k] # intended[k] => k \in as.misnamed \/ ~as.complete
    /\ \A k \in as.misnamed : intended[k] # Absent
    /\ as.twice \subseteq Desired(as)

FreshRun ==
    /\ pc = "partition"
    /\ unlisted = {} /\ actual = Nothing /\ blocked = {} /\ unparseable = {}
    /\ etags = [k \in Key |-> NoTag]
    /\ diff = EmptyDiff /\ landed = {} /\ mutating = FALSE
    /\ disturbed = FALSE

Init ==
    /\ edge \in [Key -> Slot]
    /\ \A k \in Key : edge[k] # Absent => CanExist(edge, k)
    /\ gen = [k \in Key |-> 1]
    /\ intent \in [Managed -> Content] /\ args \in Args /\ Reads(intent, args)
    /\ edits = 0 /\ faults = 0
    /\ FreshRun

-----------------------------------------------------------------------------
(* Other writers of the zone *)

Edit(k, x) ==
    /\ edits < MaxEdits
    /\ edge' = [edge EXCEPT ![k] = x]
    /\ gen' = [gen EXCEPT ![k] = @ + 1]
    /\ edits' = edits + 1 /\ disturbed' = TRUE
    /\ UNCHANGED <<truth, provider, run, faults>>

\* A VM registers or deregisters its own name.
AutoRegister(k) == CanExist(edge, k) /\ edge[k] # Registered /\ Edit(k, Registered)
AutoDeregister(k) == edge[k] = Registered /\ Edit(k, Absent)

\* Somebody edits the zone by hand, possibly rewriting what is there.
OperatorEdit(k) ==
    \E x \in Content \cup {Unreadable} :
        /\ x # Absent => CanExist(edge, k)
        /\ edge[k] # x \/ x # Absent
        /\ Edit(k, x)

Foreign == \E k \in Key : AutoRegister(k) \/ AutoDeregister(k) \/ OperatorEdit(k)

-----------------------------------------------------------------------------
(* apply_edge *)

Fault == faults < MaxFaults /\ faults' = faults + 1 /\ disturbed' = TRUE /\ edits' = edits

\* A new invocation builds a new provider.
Start ==
    /\ pc \in Ended
    /\ pc' = "partition"
    /\ unlisted' = {} /\ actual' = Nothing /\ blocked' = {} /\ unparseable' = {}
    /\ etags' = [k \in Key |-> NoTag]
    /\ diff' = EmptyDiff /\ landed' = {} /\ mutating' = FALSE
    /\ disturbed' = FALSE
    /\ UNCHANGED <<zone, truth, edits, faults>>

\* The ownership filter, before any request is made.
Partition ==
    /\ pc = "partition"
    /\ pc' = IF NearMisses(args) # {} THEN "raised" ELSE "list"
    /\ unlisted' = Key
    /\ UNCHANGED <<zone, truth, actual, blocked, unparseable, etags, diff, landed,
                   mutating, luck>>

Lists(k) ==
    /\ pc \in {"list", "relist"}
    /\ k \in unlisted
    /\ unlisted' = unlisted \ {k}
    /\ UNCHANGED <<zone, truth, run>>

\* The listing skips a type it does not support without recording the key.
ListNothing(k) ==
    /\ Lists(k)
    /\ edge[k] = Absent \/ k \in Unsupported
    /\ UNCHANGED <<actual, blocked, unparseable, etags, luck>>

ListAuto(k) ==
    /\ Lists(k)
    /\ edge[k] = Registered /\ k \notin Unsupported
    /\ blocked' = blocked \cup {k}
    /\ UNCHANGED <<actual, unparseable, etags, luck>>

\* The ETag of the listed set, or none if the response carried none.
CaptureEtag(k) ==
    \/ etags' = [etags EXCEPT ![k] = gen[k]] /\ UNCHANGED luck
    \/ etags' = [etags EXCEPT ![k] = NoTag] /\ Fault

\* Variant: an empty record set is skipped without being noted.
ListUnreadableSilently(k) ==
    /\ Lists(k)
    /\ edge[k] = Unreadable /\ k \notin Unsupported
    /\ CaptureEtag(k)
    /\ UNCHANGED <<actual, blocked, unparseable>>

ListUnreadable(k) ==
    /\ Lists(k)
    /\ edge[k] = Unreadable /\ k \notin Unsupported
    /\ unparseable' = unparseable \cup {k}
    /\ CaptureEtag(k)
    /\ UNCHANGED <<actual, blocked>>

ListRecord(k) ==
    /\ Lists(k)
    /\ edge[k] \in Value /\ k \notin Unsupported
    /\ actual' = [actual EXCEPT ![k] = edge[k]]
    /\ CaptureEtag(k)
    /\ UNCHANGED <<blocked, unparseable>>

Fetched ==
    [actual |-> actual, blocked |-> blocked, unparseable |-> unparseable, drifted |-> {}]

\* Variant: on_mutate is called when apply has returned, not before it starts.
PlanUnannounced ==
    LET planned == PlannedDiff(args, Fetched) IN
    /\ pc = "list" /\ unlisted = {}
    /\ IF PlanRefuses(args, Fetched)
       THEN pc' = "raised" /\ UNCHANGED diff
       ELSE /\ diff' = planned
            /\ pc' = IF IsConverged(planned) THEN "returned" ELSE "vet"
    /\ UNCHANGED <<zone, truth, provider, landed, mutating, luck>>

\* The first plan: refuse, return a converged result, or go on to apply.
Plan ==
    LET planned == PlannedDiff(args, Fetched) IN
    /\ pc = "list" /\ unlisted = {}
    /\ IF PlanRefuses(args, Fetched)
       THEN pc' = "raised" /\ UNCHANGED <<diff, mutating>>
       ELSE /\ diff' = planned
            /\ mutating' = ~IsConverged(planned)
            /\ pc' = IF IsConverged(planned) THEN "returned" ELSE "vet"
    /\ UNCHANGED <<zone, truth, provider, landed, luck>>

\* Variant: ETags are looked up as each write goes out.
VettedOwnership == DiffKeys(diff) \cap (blocked \cup unparseable) = {}

\* _guard and _require_etag: the whole diff is vetted before the first call.
Vetted ==
    /\ DiffKeys(diff) \cap (blocked \cup unparseable) = {}
    /\ \A k \in diff.update \cup diff.delete : etags[k] # NoTag

Vet ==
    /\ pc = "vet"
    /\ pc' = IF Vetted THEN "write" ELSE "raised"
    /\ UNCHANGED <<zone, truth, provider, diff, landed, mutating, luck>>

\* Adds go first, then updates, then deletes.
DueAdd(k) == pc = "write" /\ k \in diff.add \ landed
DueUpdate(k) == pc = "write" /\ diff.add \subseteq landed /\ k \in diff.update \ landed
DueDelete(k) ==
    pc = "write" /\ diff.add \cup diff.update \subseteq landed /\ k \in diff.delete \ landed

IfMissing(k) == edge[k] = Absent
\* Variant: the write is not conditional on the ETag.
IfPresent(k) == edge[k] # Absent

IfNotModified(k) == edge[k] # Absent /\ gen[k] = etags[k]

\* The write takes effect; its answer comes back or is lost on the way.
Land(k, x) ==
    /\ edge' = [edge EXCEPT ![k] = x]
    /\ gen' = [gen EXCEPT ![k] = @ + 1]
    /\ landed' = landed \cup {k}
    /\ \/ pc' = pc /\ UNCHANGED luck
       \/ pc' = "raised" /\ Fault
    /\ UNCHANGED <<truth, provider, diff, mutating>>

Create(k) == DueAdd(k) /\ IfMissing(k) /\ CanExist(edge, k) /\ Land(k, args.record[k])
Update(k) == DueUpdate(k) /\ IfNotModified(k) /\ Land(k, args.record[k])
Delete(k) == DueDelete(k) /\ IfNotModified(k) /\ Land(k, Absent)

\* Azure answers 412, or refuses a CNAME coexistence: nothing is written.
WriteRejected(k) ==
    /\ \/ DueAdd(k) /\ ~(IfMissing(k) /\ CanExist(edge, k))
       \/ (DueUpdate(k) \/ DueDelete(k)) /\ ~IfNotModified(k)
    /\ pc' = "raised"
    /\ UNCHANGED <<zone, truth, provider, diff, landed, mutating, luck>>

\* apply returned: fetch again.  blocked, unparseable and etags are not reset.
Refetch ==
    /\ pc = "write" /\ DiffKeys(diff) \subseteq landed
    /\ pc' = "relist"
    /\ unlisted' = Key /\ actual' = Nothing
    /\ UNCHANGED <<zone, truth, blocked, unparseable, etags, diff, landed, mutating, luck>>

\* Variant: apply having returned is taken for convergence.
VerifyNothing ==
    /\ pc = "relist" /\ unlisted = {}
    /\ pc' = "returned"
    /\ UNCHANGED <<zone, truth, provider, diff, landed, mutating, luck>>

\* The second plan runs the same guards; anything but convergence raises.
Verify ==
    /\ pc = "relist" /\ unlisted = {}
    /\ pc' = IF PlanRefuses(args, Fetched) \/ ~IsConverged(PlannedDiff(args, Fetched))
             THEN "raised" ELSE "returned"
    /\ UNCHANGED <<zone, truth, provider, diff, landed, mutating, luck>>

\* A request fails without effect.
RequestFails ==
    /\ pc \in {"list", "write", "relist"}
    /\ pc' = "raised" /\ Fault
    /\ UNCHANGED <<zone, truth, provider, diff, landed, mutating>>

\* Ctrl-C, or the process dies.
Interrupt ==
    /\ pc \notin Ended
    /\ pc' = "interrupted" /\ Fault
    /\ UNCHANGED <<zone, truth, provider, diff, landed, mutating>>

Progress ==
    \/ Partition \/ Plan \/ Vet \/ Refetch \/ Verify
    \/ \E k \in Key :
        \/ ListNothing(k) \/ ListAuto(k) \/ ListUnreadable(k) \/ ListRecord(k)
        \/ Create(k) \/ Update(k) \/ Delete(k) \/ WriteRejected(k)

Next == Progress \/ Start \/ RequestFails \/ Interrupt \/ Foreign

Spec == Init /\ [][Next]_vars

\* The process runs on, and whoever runs it does so again when it has ended.
FairSpec == Spec /\ WF_vars(Progress) /\ WF_vars(Start)

-----------------------------------------------------------------------------
(* Properties.  A step that leaves `edits` alone is the run's own. *)

\* The code's claim of conditional writes (CR-03, azure.py:255-270): the run
\* changes a key only while the key still holds what this run's listing read
\* there, so neither a VM's registration, nor a set it could not parse, nor a
\* later hand edit is ever overwritten or deleted by it.
WritesOnlyOverWhatWasRead ==
    [][edits' = edits => \A k \in Key : edge'[k] # edge[k] => edge[k] = actual[k]]_vars

\* ADR-005 and the deletion guards of runner.plan_edge, as one contract.
Contract == INSTANCE OwnedEdge
ImplementsOwnedEdge == Contract!Spec

\* cli._report_partial_apply tells the operator that nothing at the edge
\* changed when on_mutate was not called: then no write has landed.
SilenceMeansUntouched == ~mutating => landed = {}

\* azure.apply resolves every ETag before the first call, so a diff with one
\* unconditional write in it lands nothing (azure.py:248-252).
VettedWhole ==
    pc = "write" /\ landed # {} => \A k \in diff.update \cup diff.delete : etags[k] # NoTag

\* A plan that was accepted can be carried out: with nobody interfering, a run
\* that got as far as writing returns (runner.TypeConflictError, and the empty
\* set livelock of azure.py:143-153).
QuietRunSucceeds == pc = "raised" /\ mutating => disturbed

MatchesTruth == \A k \in Managed : edge[k] = args.record[k]

\* "Applied" is the truth (runner.py:373-376): a run that returned has read
\* every managed key as truth states it, whatever happened meanwhile, and if
\* nothing did, the zone is as truth states it.
ReturnedMeansConverged ==
    pc = "returned" =>
        /\ \A k \in Managed : actual[k] = args.record[k]
        /\ ~disturbed => MatchesTruth

Listing(k) == k \notin Unsupported
TrueReading ==
    [actual |-> [k \in Key |-> IF Listing(k) /\ edge[k] \in Value THEN edge[k] ELSE Absent],
     blocked |-> {k \in Key : Listing(k) /\ edge[k] = Registered},
     unparseable |-> {k \in Key : Listing(k) /\ edge[k] = Unreadable},
     drifted |-> {}]

PlanWillRefuse == NearMisses(args) # {} \/ PlanRefuses(args, TrueReading)

\* "Re-run the reconciler: the fresh read will re-plan" (azure.py:277), and no
\* livelock of rejected writes (azure.py:143-153): once the zone is left alone,
\* running again converges it, or every run refuses before it writes.
RerunHeals == <>[](MatchesTruth \/ (PlanWillRefuse /\ ~mutating))

=============================================================================
