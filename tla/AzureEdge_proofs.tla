-------------------------- MODULE AzureEdge_proofs --------------------------
(***************************************************************************)
(* What AzureEdge guarantees for every zone, allowlist, truth and number   *)
(* of disturbances: type correctness, writes only over what was read, the  *)
(* account of a failed run, the vetted diff, and the contract OwnedEdge.   *)
(***************************************************************************)
EXTENDS AzureEdge, PlanEdge_proofs

USE PlanAssumption, AzureAssumption

-----------------------------------------------------------------------------
(* Types *)

\* The provider's state is a reading in the sense of PlanEdge.
LEMMA FetchedIsReading == TypeOK => Fetched \in Reading
BY DEF TypeOK, Fetched, Reading

LEMMA InitType == Init => TypeOK
<1> SUFFICES ASSUME Init PROVE TypeOK
  OBVIOUS
<1> USE DEF Init, FreshRun
<1>1. edge \in [Key -> Slot] OBVIOUS
<1>2. gen \in [Key -> Nat \ {0}] OBVIOUS
<1>3. pc \in Steps BY DEF Steps
<1>4. actual \in [Key -> Content] BY DEF Nothing, Content
<1>5. etags \in [Key -> Nat] BY DEF NoTag
<1>6. diff \in Diff BY DEF Diff, EmptyDiff
<1>7. unlisted \subseteq Key /\ blocked \subseteq Key /\ unparseable \subseteq Key /\ landed \subseteq Key OBVIOUS
<1>8. mutating \in BOOLEAN /\ disturbed \in BOOLEAN OBVIOUS
<1>9. edits \in 0..MaxEdits /\ faults \in 0..MaxFaults OBVIOUS
<1> QED BY <1>1, <1>2, <1>3, <1>4, <1>5, <1>6, <1>7, <1>8, <1>9 DEF TypeOK

\* A fault, or no event at all, keeps the counters typed.
LuckOK == edits \in 0..MaxEdits /\ faults \in 0..MaxFaults /\ disturbed \in BOOLEAN

LEMMA LuckType == LuckOK /\ (Fault \/ UNCHANGED luck) => LuckOK'
<1> SUFFICES ASSUME LuckOK, Fault \/ UNCHANGED luck
             PROVE  LuckOK'
  OBVIOUS
<1>1. edits' \in 0..MaxEdits /\ faults' \in 0..MaxFaults
  BY DEF LuckOK, Fault, luck
<1>2. disturbed' \in BOOLEAN
  BY DEF LuckOK, Fault, luck
<1> QED BY <1>1, <1>2 DEF LuckOK

LEMMA NextType == TypeOK /\ [Next]_vars => TypeOK'
<1> SUFFICES ASSUME TypeOK, [Next]_vars
             PROVE  TypeOK'
  OBVIOUS
<1> USE DEF TypeOK, Steps, Ended
<1>1. ASSUME NEW k \in Key, NEW x \in Slot, Edit(k, x)
      PROVE  TypeOK'
  BY <1>1 DEF Edit, truth, provider, run
<1>2. ASSUME NEW k \in Key, NEW x \in Content, Land(k, x)
      PROVE  TypeOK'
  <2>1. LuckOK'
    BY <1>2, LuckType DEF Land, LuckOK
  <2> QED BY <1>2, <2>1 DEF Land, truth, provider, LuckOK, Slot
<1>3. CASE Foreign
  BY <1>1, <1>3 DEF Foreign, AutoRegister, AutoDeregister, OperatorEdit, Slot, Content
<1>4. CASE Start
  BY <1>4 DEF Start, zone, truth, Nothing, NoTag, EmptyDiff, Diff, Content
<1>5. CASE Partition
  BY <1>5 DEF Partition, zone, truth, luck
<1>6. CASE \E k \in Key : ListNothing(k) \/ ListAuto(k) \/ ListUnreadable(k) \/ ListRecord(k)
  <2>1. LuckOK'
    BY <1>6, LuckType DEF ListNothing, ListAuto, ListUnreadable, ListRecord, CaptureEtag, LuckOK
  <2>2. etags' \in [Key -> Nat]
    BY <1>6 DEF ListNothing, ListAuto, ListUnreadable, ListRecord, CaptureEtag, NoTag
  <2>3. actual' \in [Key -> Content] /\ blocked' \subseteq Key /\ unparseable' \subseteq Key
    BY <1>6 DEF ListNothing, ListAuto, ListUnreadable, ListRecord, Content
  <2>4. unlisted' \subseteq Key /\ UNCHANGED <<zone, truth, run>>
    BY <1>6 DEF ListNothing, ListAuto, ListUnreadable, ListRecord, Lists
  <2> QED BY <2>1, <2>2, <2>3, <2>4 DEF zone, truth, run, LuckOK
<1>7. CASE Plan
  <2>1. PlannedDiff(args, Fetched) \in Diff
    BY PlanIsDiff, FetchedIsReading
  <2> QED BY <1>7, <2>1 DEF Plan, zone, truth, provider, luck
<1>8. CASE Vet \/ Verify \/ \E k \in Key : WriteRejected(k)
  BY <1>8 DEF Vet, Verify, WriteRejected, zone, truth, provider, luck
<1>9. CASE \E k \in Key : Create(k) \/ Update(k) \/ Delete(k)
  <2>1. ASSUME NEW k \in Managed
        PROVE  args.record[k] \in Content
    BY DEF Args
  <2>2. diff.add \subseteq Managed /\ diff.update \subseteq Managed /\ Absent \in Content
    BY DEF Diff, Content
  <2> QED BY <1>2, <1>9, <2>1, <2>2 DEF Create, Update, Delete, DueAdd, DueUpdate
<1>10. CASE Refetch
  BY <1>10 DEF Refetch, zone, truth, luck, Nothing, Content
<1>11. CASE RequestFails \/ Interrupt
  <2>1. LuckOK'
    BY <1>11, LuckType DEF RequestFails, Interrupt, LuckOK
  <2> QED BY <1>11, <2>1 DEF RequestFails, Interrupt, zone, truth, provider, LuckOK
<1>12. CASE UNCHANGED vars
  BY <1>12 DEF vars, zone, truth, provider, run, luck
<1> QED
  BY <1>3, <1>4, <1>5, <1>6, <1>7, <1>8, <1>9, <1>10, <1>11, <1>12 DEF Next, Progress

\* Every state of a run is well typed.
THEOREM TypeCorrect == Spec => []TypeOK
<1>1. Init => TypeOK
  BY InitType
<1>2. TypeOK /\ [Next]_vars => TypeOK'
  BY NextType
<1> QED BY <1>1, <1>2, PTL DEF Spec

-----------------------------------------------------------------------------
(* The inductive invariant.  The properties speak of the zone at the time *)
(* of a write; what makes them hold is what the run knew at its listing,   *)
(* and that a key's generation moves whenever the key does.                *)

\* An ETag that is still current pins the record the listing returned.
EtagsPin ==
    /\ \A k \in Key : etags[k] <= gen[k]
    /\ \A k \in Key :
        etags[k] # NoTag /\ etags[k] = gen[k] /\ actual[k] # Absent => edge[k] = actual[k]

\* A key the listing has still to return has not been read.
UnlistedUnread ==
    /\ \A k \in unlisted : actual[k] = Absent
    /\ pc = "partition" => actual = Nothing

\* What is being carried out is an accepted plan of what was fetched, vetted.
PlanStands ==
    /\ pc \in {"vet", "write"} =>
        diff = PlannedDiff(args, Fetched) /\ ~PlanRefuses(args, Fetched)
    /\ pc = "write" => Vetted

\* on_mutate precedes every write.
Announced ==
    /\ pc \in {"partition", "list"} => landed = {}
    /\ pc \in {"vet", "write", "relist"} \/ landed # {} => mutating

\* Truth was read from intent, and a run that fetched has no near miss.
TruthRead ==
    /\ Reads(intent, args)
    /\ pc \in {"list", "vet", "write", "relist"} => NearMisses(args) = {}

IInv == EtagsPin /\ UnlistedUnread /\ PlanStands /\ Announced /\ TruthRead

LEMMA InitInv == Init => IInv
<1> SUFFICES ASSUME Init PROVE IInv
  OBVIOUS
<1> USE DEF Init, FreshRun
<1>1. EtagsPin /\ UnlistedUnread
  BY DEF EtagsPin, UnlistedUnread, Nothing, NoTag
<1>2. PlanStands /\ Announced /\ TruthRead
  BY DEF PlanStands, Announced, TruthRead
<1> QED BY <1>1, <1>2 DEF IInv

LEMMA EtagsPinStep == TypeOK /\ EtagsPin /\ UnlistedUnread /\ [Next]_vars => EtagsPin'
<1> SUFFICES ASSUME TypeOK, EtagsPin, UnlistedUnread, [Next]_vars
             PROVE  EtagsPin'
  OBVIOUS
<1> USE DEF EtagsPin, TypeOK
<1>1. ASSUME NEW k \in Key, NEW x, edge' = [edge EXCEPT ![k] = x],
             gen' = [gen EXCEPT ![k] = @ + 1], UNCHANGED provider
      PROVE  EtagsPin'
  BY <1>1 DEF provider
<1>2. CASE Foreign
  BY <1>1, <1>2 DEF Foreign, AutoRegister, AutoDeregister, OperatorEdit, Edit
<1>3. CASE \E k \in Key : Create(k) \/ Update(k) \/ Delete(k)
  BY <1>1, <1>3 DEF Create, Update, Delete, Land
<1>4. CASE \E k \in Key : ListNothing(k) \/ ListAuto(k) \/ ListUnreadable(k) \/ ListRecord(k)
  BY <1>4 DEF ListNothing, ListAuto, ListUnreadable, ListRecord, Lists, CaptureEtag,
     zone, truth, run, UnlistedUnread, NoTag, Content
<1>5. CASE Start \/ Refetch
  BY <1>5 DEF Start, Refetch, zone, Nothing, NoTag
<1>6. CASE Partition \/ Plan \/ Vet \/ Verify \/ RequestFails \/ Interrupt \/ UNCHANGED vars
           \/ \E k \in Key : WriteRejected(k)
  BY <1>6 DEF Partition, Plan, Vet, Verify, RequestFails, Interrupt, WriteRejected, vars,
     zone, provider
<1> QED BY <1>2, <1>3, <1>4, <1>5, <1>6 DEF Next, Progress

LEMMA UnlistedUnreadStep == TypeOK /\ UnlistedUnread /\ [Next]_vars => UnlistedUnread'
<1> SUFFICES ASSUME TypeOK, UnlistedUnread, [Next]_vars
             PROVE  UnlistedUnread'
  OBVIOUS
<1> USE DEF UnlistedUnread, TypeOK
<1>1. CASE Foreign \/ Plan \/ Vet \/ Verify \/ RequestFails \/ Interrupt \/ UNCHANGED vars
  BY <1>1 DEF Foreign, AutoRegister, AutoDeregister, OperatorEdit, Edit, Plan, Vet, Verify,
     RequestFails, Interrupt, vars, provider, run, Ended
<1>2. CASE Start \/ Partition \/ Refetch
  BY <1>2 DEF Start, Partition, Refetch, Nothing
<1>3. CASE \E k \in Key : ListNothing(k) \/ ListAuto(k) \/ ListUnreadable(k) \/ ListRecord(k)
  BY <1>3 DEF ListNothing, ListAuto, ListUnreadable, ListRecord, Lists, run
<1>4. CASE \E k \in Key : Create(k) \/ Update(k) \/ Delete(k) \/ WriteRejected(k)
  BY <1>4 DEF Create, Update, Delete, Land, WriteRejected, DueAdd, DueUpdate, DueDelete, provider
<1> QED BY <1>1, <1>2, <1>3, <1>4 DEF Next, Progress

LEMMA PlanStandsStep == PlanStands /\ [Next]_vars => PlanStands'
<1> SUFFICES ASSUME PlanStands, [Next]_vars
             PROVE  PlanStands'
  OBVIOUS
<1>1. ASSUME UNCHANGED <<pc, diff, truth, provider>>
      PROVE  PlanStands'
  BY <1>1 DEF PlanStands, Fetched, Vetted, truth, provider
<1>2. ASSUME pc' \notin {"vet", "write"}
      PROVE  PlanStands'
  BY <1>2 DEF PlanStands
<1>3. CASE Foreign \/ UNCHANGED vars
  BY <1>1, <1>3 DEF Foreign, AutoRegister, AutoDeregister, OperatorEdit, Edit, vars, run
<1>4. CASE Start \/ Partition \/ Refetch \/ Verify \/ RequestFails \/ Interrupt
           \/ \E k \in Key : WriteRejected(k)
  BY <1>2, <1>4 DEF Start, Partition, Refetch, Verify, RequestFails, Interrupt, WriteRejected
<1>5. CASE \E k \in Key : ListNothing(k) \/ ListAuto(k) \/ ListUnreadable(k) \/ ListRecord(k)
  BY <1>2, <1>5 DEF ListNothing, ListAuto, ListUnreadable, ListRecord, Lists, run
<1>6. CASE Plan
  <2>1. CASE PlanRefuses(args, Fetched)
    BY <1>2, <1>6, <2>1 DEF Plan
  <2>2. CASE ~PlanRefuses(args, Fetched)
    BY <1>6, <2>2 DEF Plan, PlanStands, Fetched, truth, provider
  <2> QED BY <2>1, <2>2
<1>7. CASE Vet
  BY <1>7 DEF Vet, PlanStands, Fetched, Vetted, truth, provider
<1>8. CASE \E k \in Key : Create(k) \/ Update(k) \/ Delete(k)
  BY <1>1, <1>2, <1>8 DEF Create, Update, Delete, Land
<1> QED BY <1>3, <1>4, <1>5, <1>6, <1>7, <1>8 DEF Next, Progress

LEMMA AnnouncedStep == TypeOK /\ Announced /\ [Next]_vars => Announced'
<1> SUFFICES ASSUME TypeOK, Announced, [Next]_vars
             PROVE  Announced'
  OBVIOUS
<1> USE DEF Announced
<1>1. CASE Foreign \/ UNCHANGED vars
  BY <1>1 DEF Foreign, AutoRegister, AutoDeregister, OperatorEdit, Edit, vars, run
<1>2. CASE Start \/ Partition \/ Refetch \/ Vet \/ Verify \/ RequestFails \/ Interrupt
           \/ \E k \in Key : WriteRejected(k)
  BY <1>2 DEF Start, Partition, Refetch, Vet, Verify, RequestFails, Interrupt, WriteRejected,
     DueAdd, DueUpdate, DueDelete, Ended
<1>3. CASE \E k \in Key : ListNothing(k) \/ ListAuto(k) \/ ListUnreadable(k) \/ ListRecord(k)
  BY <1>3 DEF ListNothing, ListAuto, ListUnreadable, ListRecord, Lists, run
<1>4. CASE Plan
  BY <1>4 DEF Plan
<1>5. CASE \E k \in Key : Create(k) \/ Update(k) \/ Delete(k)
  BY <1>5 DEF Create, Update, Delete, DueAdd, DueUpdate, DueDelete, Land
<1> QED BY <1>1, <1>2, <1>3, <1>4, <1>5 DEF Next, Progress

LEMMA TruthReadStep == TruthRead /\ [Next]_vars => TruthRead'
<1> SUFFICES ASSUME TruthRead, [Next]_vars
             PROVE  TruthRead'
  OBVIOUS
<1>1. UNCHANGED truth
  BY DEF Next, Progress, Foreign, AutoRegister, AutoDeregister, OperatorEdit, Edit, Start,
     Partition, Plan, Vet, Refetch, Verify, RequestFails, Interrupt, ListNothing, ListAuto,
     ListUnreadable, ListRecord, Lists, Create, Update, Delete, Land, WriteRejected, vars, truth
<1>2. Reads(intent, args)' /\ NearMisses(args)' = NearMisses(args)
  BY <1>1 DEF TruthRead, truth
<1>3. pc' \in {"list", "vet", "write", "relist"} =>
        pc \in {"list", "vet", "write", "relist"} \/ NearMisses(args) = {}
  BY DEF Next, Progress, Foreign, AutoRegister, AutoDeregister, OperatorEdit, Edit, Start,
     Partition, Plan, Vet, Refetch, Verify, RequestFails, Interrupt, ListNothing, ListAuto,
     ListUnreadable, ListRecord, Lists, Create, Update, Delete, Land, WriteRejected,
     DueAdd, DueUpdate, DueDelete, vars, run
<1> QED BY <1>2, <1>3 DEF TruthRead

\* The invariant that carries the theorems below.
LEMMA Invariant == Spec => [](TypeOK /\ IInv)
<1>1. Init => TypeOK /\ IInv
  BY InitType, InitInv
<1>2. TypeOK /\ IInv /\ [Next]_vars => (TypeOK /\ IInv)'
  BY NextType, EtagsPinStep, UnlistedUnreadStep, PlanStandsStep, AnnouncedStep, TruthReadStep
     DEF IInv
<1> QED BY <1>1, <1>2, PTL DEF Spec

-----------------------------------------------------------------------------
(* The run's own steps *)

\* A step that is not another writer's and changes the zone is one write of an
\* accepted, vetted plan, at a key that still holds what the listing returned.
LEMMA OwnStep ==
    ASSUME TypeOK, IInv, [Next]_vars, edits' = edits, edge' # edge
    PROVE  \E k \in Managed :
            /\ edge' = [edge EXCEPT ![k] = args.record[k]]
            /\ edge[k] = actual[k]
            /\ args.record[k] = Absent => k \in diff.delete
            /\ pc = "write"
            /\ UNCHANGED truth
<1> USE DEF TypeOK
<1>1. PICK k \in Key : Create(k) \/ Update(k) \/ Delete(k)
  BY DEF Next, Progress, Foreign, AutoRegister, AutoDeregister, OperatorEdit, Edit, Start,
     Partition, Plan, Vet, Refetch, Verify, RequestFails, Interrupt, ListNothing, ListAuto,
     ListUnreadable, ListRecord, Lists, WriteRejected, vars, zone
<1>2. pc = "write" /\ UNCHANGED truth
  BY <1>1 DEF Create, Update, Delete, DueAdd, DueUpdate, DueDelete, Land
<1>3. /\ \A j \in diff.add : actual[j] = Absent /\ j \in Desired(args)
      /\ \A j \in diff.update : actual[j] # Absent /\ j \in Desired(args)
      /\ \A j \in diff.delete : actual[j] # Absent /\ j \notin Desired(args)
  BY <1>2, FetchedIsReading, PlanSawTheZone DEF IInv, PlanStands, Fetched
<1>4. k \in Managed
  BY <1>1 DEF Create, Update, Delete, DueAdd, DueUpdate, DueDelete, Diff
<1>5. edge' = [edge EXCEPT ![k] = args.record[k]]
  BY <1>1, <1>3, <1>4 DEF Create, Update, Delete, DueDelete, Land, Desired
<1>6. edge[k] = actual[k]
  <2>1. CASE Create(k)
    BY <1>3, <2>1 DEF Create, DueAdd, IfMissing
  <2>2. CASE Update(k) \/ Delete(k)
    <3>1. k \in diff.update \cup diff.delete /\ gen[k] = etags[k]
      BY <2>2 DEF Update, Delete, DueUpdate, DueDelete, IfNotModified
    <3>2. etags[k] # NoTag
      BY <1>2, <3>1 DEF IInv, PlanStands, Vetted
    <3> QED BY <1>3, <3>1, <3>2 DEF IInv, EtagsPin
  <2> QED BY <1>1, <2>1, <2>2
<1>7. args.record[k] = Absent => k \in diff.delete
  BY <1>1, <1>3 DEF Create, Update, Delete, DueAdd, DueUpdate, DueDelete, Desired
<1> QED BY <1>2, <1>4, <1>5, <1>6, <1>7

\* No deletion by omission: every deletion of an accepted plan is one the
\* contract allows.
LEMMA DeletesAreJustified ==
    ASSUME TypeOK, IInv, pc = "write", NEW k \in diff.delete
    PROVE  /\ intent[k] = Absent \/ args.allowUnverified
           /\ k \notin args.misnamed
           /\ Desired(args) # {} \/ args.allowEmpty
<1> USE DEF TypeOK
<1>1. diff = PlannedDiff(args, Fetched) /\ ~PlanRefuses(args, Fetched) /\ NearMisses(args) = {}
  BY DEF IInv, PlanStands, TruthRead
<1>2. k \in Managed /\ k \notin Desired(args)
  BY <1>1, FetchedIsReading, PlanSawTheZone DEF Diff
<1>3. args.complete \/ args.allowUnverified
  BY <1>1 DEF PlanRefuses, UnverifiedTruth
<1>4. Desired(args) # {} \/ args.allowEmpty
  BY <1>1 DEF PlanRefuses, EmptyTruth
<1>5. k \notin args.misnamed
  BY <1>1, <1>2 DEF NearMisses
<1>6. intent[k] = Absent \/ ~args.complete
  BY <1>2, <1>5 DEF IInv, TruthRead, Reads, Desired
<1> QED BY <1>3, <1>4, <1>5, <1>6

-----------------------------------------------------------------------------
(* The theorems *)

\* CR-03: the run changes a key only while it holds what the listing read.
THEOREM NoLostUpdate == Spec => WritesOnlyOverWhatWasRead
<1>1. TypeOK /\ IInv /\ [Next]_vars =>
        [edits' = edits => \A k \in Key : edge'[k] # edge[k] => edge[k] = actual[k]]_vars
  BY OwnStep DEF TypeOK
<1> QED BY <1>1, Invariant, PTL DEF Spec, WritesOnlyOverWhatWasRead

\* The account a failed run gives is true: not announced, nothing landed.
THEOREM SilenceIsTrue == Spec => []SilenceMeansUntouched
<1>1. IInv => SilenceMeansUntouched
  BY DEF IInv, Announced, SilenceMeansUntouched
<1> QED BY <1>1, Invariant, PTL

\* No write lands from a diff that holds an unconditional one.
THEOREM DiffVettedWhole == Spec => []VettedWhole
<1>1. IInv => VettedWhole
  BY DEF IInv, PlanStands, Vetted, VettedWhole
<1> QED BY <1>1, Invariant, PTL

\* ADR-005: a run against Azure is a reconciler of OwnedEdge.
THEOREM Implementation == Spec => ImplementsOwnedEdge
<1>1. Init => Contract!Init
  BY DEF Init, Contract!Init, Args, Contract!Args, Content, Contract!Content
<1>2. TypeOK /\ IInv /\ [Next]_vars => [Contract!Next]_(Contract!vars)
  <2> SUFFICES ASSUME TypeOK, IInv, [Next]_vars
               PROVE  [Contract!Next]_(Contract!vars)
    OBVIOUS
  <2>1. CASE edits' # edits
    <3>1. PICK k \in Key : \E x : Edit(k, x)
      BY <2>1 DEF Next, Progress, Foreign, AutoRegister, AutoDeregister, OperatorEdit, Start,
         Partition, Plan, Vet, Refetch, Verify, RequestFails, Interrupt, ListNothing, ListAuto,
         ListUnreadable, ListRecord, CaptureEtag, Create, Update, Delete, Land, Fault,
         WriteRejected, vars, luck
    <3>2. Contract!ForeignEdit(k)
      BY <3>1 DEF Edit, Contract!ForeignEdit, truth, TypeOK
    <3> QED BY <3>2 DEF Contract!Next
  <2>2. CASE edits' = edits /\ edge' # edge
    <3>1. PICK k \in Managed :
            /\ edge' = [edge EXCEPT ![k] = args.record[k]]
            /\ edge[k] = actual[k]
            /\ args.record[k] = Absent => k \in diff.delete
            /\ pc = "write"
            /\ UNCHANGED truth
      BY <2>2, OwnStep
    <3>2. Contract!Converge(k)
      BY <2>2, <3>1, DeletesAreJustified
         DEF Contract!Converge, Contract!MayDelete, Contract!Desired, Contract!Content, Desired,
             Content, truth, TypeOK
    <3> QED BY <3>2 DEF Contract!Next
  <2>3. CASE edits' = edits /\ edge' = edge
    <3>1. UNCHANGED truth
      BY DEF Next, Progress, Foreign, AutoRegister, AutoDeregister, OperatorEdit, Edit, Start,
         Partition, Plan, Vet, Refetch, Verify, RequestFails, Interrupt, ListNothing, ListAuto,
         ListUnreadable, ListRecord, Lists, Create, Update, Delete, Land, WriteRejected, vars,
         truth
    <3> QED BY <2>3, <3>1 DEF truth, Contract!vars
  <2> QED BY <2>1, <2>2, <2>3
<1> QED BY <1>1, <1>2, Invariant, PTL DEF Spec, ImplementsOwnedEdge, Contract!Spec

-----------------------------------------------------------------------------
(* Undisturbed runs.  While nobody interferes and nothing fails, each phase *)
(* hands the next one what it needs: the listing a true picture of the zone *)
(* with current ETags, the vetted diff writes that Azure cannot refuse, and *)
(* the writes a zone in which the second plan finds nothing to do.          *)

Supported == Key \ Unsupported

\* What the run knows of a key is what the zone holds there.
ReadTruly(k) ==
    /\ edge[k] \in Content => actual[k] = edge[k]
    /\ edge[k] = Registered => k \in blocked
    /\ edge[k] = Unreadable => k \in unparseable

EtagCurrent(k) == actual[k] # Absent => etags[k] = gen[k]

ListedTruly ==
    /\ pc \in {"list", "relist"} => \A k \in Supported \ unlisted : ReadTruly(k)
    /\ pc = "list" => \A k \in Supported : EtagCurrent(k)

WrittenTruly ==
    pc \in {"vet", "write"} =>
        /\ landed \subseteq DiffKeys(diff) /\ (pc = "vet" => landed = {})
        /\ \A k \in landed : edge[k] = args.record[k]
        /\ \A k \in Supported \ landed : ReadTruly(k) /\ EtagCurrent(k)

VerifiesTruly ==
    pc = "relist" =>
        /\ MatchesTruth
        /\ Unwritable(Fetched) = {} /\ ~TruthConflict(args) /\ args.twice = {}

QuietList == ~disturbed => ListedTruly
QuietWrite == ~disturbed => WrittenTruly
QuietVerify == ~disturbed => VerifiesTruly

\* on_mutate is not called before the plan has been accepted.
NotYetAnnounced == pc \in {"partition", "list"} => ~mutating

LEMMA InitQuiet == Init => QuietList /\ QuietWrite /\ QuietVerify /\ NotYetAnnounced
BY DEF Init, FreshRun, QuietList, QuietWrite, QuietVerify, NotYetAnnounced, ListedTruly,
   WrittenTruly, VerifiesTruly

\* Whoever interferes and whatever fails disturbs the run.
LEMMA Disturbs ==
    ASSUME ~disturbed', [Next]_vars
    PROVE  /\ ~(Foreign \/ RequestFails \/ Interrupt \/ Fault)
           /\ disturbed => Start
BY DEF Next, Progress, Foreign, AutoRegister, AutoDeregister, OperatorEdit, Edit, Start,
   Partition, Plan, Vet, Refetch, Verify, RequestFails, Interrupt, ListNothing, ListAuto,
   ListUnreadable, ListRecord, CaptureEtag, Create, Update, Delete, Land, Fault, WriteRejected,
   vars, luck

\* One key listed without a failure: it is read as it is, and nothing else is.
LEMMA ListOne ==
    ASSUME TypeOK, UnlistedUnread, NEW k \in Key, ~Fault,
           ListNothing(k) \/ ListAuto(k) \/ ListUnreadable(k) \/ ListRecord(k)
    PROVE  /\ pc \in {"list", "relist"} /\ UNCHANGED <<zone, truth, run, luck>>
           /\ unlisted' = unlisted \ {k}
           /\ k \in Supported => ReadTruly(k)' /\ EtagCurrent(k)'
           /\ \A j \in Key \ {k} : actual'[j] = actual[j] /\ etags'[j] = etags[j]
           /\ blocked \subseteq blocked' /\ unparseable \subseteq unparseable'
           /\ blocked' \cup unparseable' \subseteq
                blocked \cup unparseable \cup {j \in {k} : edge[k] \in {Registered, Unreadable}}
<1> USE DEF TypeOK, Slot, Content
<1>1. pc \in {"list", "relist"} /\ UNCHANGED <<zone, truth, run>> /\ unlisted' = unlisted \ {k}
      /\ k \in unlisted
  BY DEF ListNothing, ListAuto, ListUnreadable, ListRecord, Lists
<1>2. UNCHANGED luck
  BY DEF ListNothing, ListAuto, ListUnreadable, ListRecord, CaptureEtag
<1>3. actual[k] = Absent
  BY <1>1 DEF UnlistedUnread
<1>4. \A j \in Key \ {k} : actual'[j] = actual[j] /\ etags'[j] = etags[j]
  BY DEF ListNothing, ListAuto, ListUnreadable, ListRecord, CaptureEtag
<1>5. /\ blocked \subseteq blocked' /\ unparseable \subseteq unparseable'
      /\ blocked' \cup unparseable' \subseteq
           blocked \cup unparseable \cup {j \in {k} : edge[k] \in {Registered, Unreadable}}
  BY DEF ListNothing, ListAuto, ListUnreadable, ListRecord
<1>6. ASSUME k \in Supported
      PROVE  ReadTruly(k)' /\ EtagCurrent(k)'
  <2> USE <1>6 DEF ReadTruly, EtagCurrent, Supported, zone
  <2>1. CASE ListNothing(k)
    BY <1>1, <1>3, <2>1 DEF ListNothing
  <2>2. CASE ListAuto(k)
    BY <1>1, <1>3, <2>2 DEF ListAuto
  <2>3. CASE ListUnreadable(k)
    BY <1>1, <1>3, <2>3 DEF ListUnreadable
  <2>4. CASE ListRecord(k)
    BY <1>1, <2>4 DEF ListRecord, CaptureEtag
  <2> QED BY <2>1, <2>2, <2>3, <2>4
<1> QED BY <1>1, <1>2, <1>4, <1>5, <1>6

LEMMA QuietListStep == TypeOK /\ UnlistedUnread /\ QuietList /\ [Next]_vars => QuietList'
<1> SUFFICES ASSUME TypeOK, UnlistedUnread, QuietList, [Next]_vars, ~disturbed'
             PROVE  ListedTruly'
  BY DEF QuietList
<1> USE DEF ListedTruly
<1>1. ~(Foreign \/ RequestFails \/ Interrupt \/ Fault) /\ (disturbed => Start)
  BY Disturbs
<1>2. CASE Start \/ Refetch \/ Plan \/ Vet \/ Verify
           \/ \E k \in Key : Create(k) \/ Update(k) \/ Delete(k) \/ WriteRejected(k)
  BY <1>2 DEF Start, Refetch, Plan, Vet, Verify, Create, Update, Delete, Land, WriteRejected,
     DueAdd, DueUpdate, DueDelete, Supported
<1>3. CASE Partition
  BY <1>3 DEF Partition, UnlistedUnread, Nothing, EtagCurrent, Supported
<1>4. CASE \E k \in Key : ListNothing(k) \/ ListAuto(k) \/ ListUnreadable(k) \/ ListRecord(k)
  <2>1. PICK k \in Key : ListNothing(k) \/ ListAuto(k) \/ ListUnreadable(k) \/ ListRecord(k)
    BY <1>4
  <2>2. /\ UNCHANGED <<zone, truth, run, luck>>
        /\ unlisted' = unlisted \ {k}
        /\ k \in Supported => ReadTruly(k)' /\ EtagCurrent(k)'
        /\ \A j \in Key \ {k} : actual'[j] = actual[j] /\ etags'[j] = etags[j]
        /\ blocked \subseteq blocked' /\ unparseable \subseteq unparseable'
    BY <1>1, <2>1, ListOne
  <2>3. ~disturbed
    BY <2>2 DEF luck
  <2>4. ASSUME NEW j \in Supported \ {k}
        PROVE  (ReadTruly(j) => ReadTruly(j)') /\ (EtagCurrent(j) => EtagCurrent(j)')
    BY <2>2 DEF ReadTruly, EtagCurrent, zone, Supported
  <2> QED BY <2>2, <2>3, <2>4 DEF QuietList, run
<1>5. CASE UNCHANGED vars
  BY <1>5 DEF QuietList, vars, zone, truth, provider, run, luck, ReadTruly, EtagCurrent, Supported
<1> QED BY <1>1, <1>2, <1>3, <1>4, <1>5 DEF Next, Progress

\* A managed key that is read truly and is writable is read as it is.
LEMMA WritableIsRead ==
    ASSUME TypeOK, NEW k \in Managed, ReadTruly(k), Unwritable(Fetched) = {}
    PROVE  edge[k] \in Content /\ actual[k] = edge[k] /\ k \notin blocked \cup unparseable
BY DEF TypeOK, ReadTruly, Unwritable, Fetched, Slot

LEMMA ReturnedStep ==
    TypeOK /\ QuietList /\ ReturnedMeansConverged /\ [Next]_vars => ReturnedMeansConverged'
<1> SUFFICES ASSUME TypeOK, QuietList, ReturnedMeansConverged, [Next]_vars, pc' = "returned"
             PROVE  /\ \A k \in Managed : actual'[k] = args'.record[k]
                    /\ ~disturbed' => MatchesTruth'
  BY DEF ReturnedMeansConverged
<1>1. CASE Plan \/ Verify
  <2>1. /\ pc \in {"list", "relist"} /\ unlisted = {}
        /\ UNCHANGED <<zone, truth, provider, luck>>
        /\ ~PlanRefuses(args, Fetched) /\ IsConverged(PlannedDiff(args, Fetched))
    BY <1>1 DEF Plan, Verify
  <2>2. \A k \in Managed : actual[k] = args.record[k]
    BY <2>1, FetchedIsReading, ConvergedPlan DEF TypeOK, Fetched
  <2>3. Unwritable(Fetched) = {}
    BY <2>1 DEF PlanRefuses
  <2>4. ASSUME ~disturbed
        PROVE  MatchesTruth
    BY <2>1, <2>2, <2>3, <2>4, WritableIsRead
       DEF QuietList, ListedTruly, Supported, MatchesTruth
  <2> QED BY <2>1, <2>2, <2>4 DEF zone, truth, provider, luck, MatchesTruth
<1>2. CASE Foreign
  BY <1>2 DEF Foreign, AutoRegister, AutoDeregister, OperatorEdit, Edit, truth, provider, run,
     ReturnedMeansConverged
<1>3. CASE UNCHANGED vars
  BY <1>3 DEF vars, zone, truth, provider, run, luck, ReturnedMeansConverged, MatchesTruth
<1> QED
  BY <1>1, <1>2, <1>3 DEF Next, Progress, Start, Partition, Vet, Refetch, RequestFails,
     Interrupt, ListNothing, ListAuto, ListUnreadable, ListRecord, Lists, Create, Update, Delete,
     Land, WriteRejected, DueAdd, DueUpdate, DueDelete, run, Ended

LEMMA NotYetAnnouncedStep == NotYetAnnounced /\ [Next]_vars => NotYetAnnounced'
BY DEF NotYetAnnounced, Next, Progress, Foreign, AutoRegister, AutoDeregister, OperatorEdit,
   Edit, Start, Partition, Plan, Vet, Refetch, Verify, RequestFails, Interrupt, ListNothing,
   ListAuto, ListUnreadable, ListRecord, Lists, Create, Update, Delete, Land, WriteRejected,
   DueAdd, DueUpdate, DueDelete, vars, run

LEMMA QuietWriteStep == TypeOK /\ IInv /\ QuietList /\ QuietWrite /\ [Next]_vars => QuietWrite'
<1> SUFFICES ASSUME TypeOK, IInv, QuietList, QuietWrite, [Next]_vars, ~disturbed'
             PROVE  WrittenTruly'
  BY DEF QuietWrite
<1>1. ~(Foreign \/ RequestFails \/ Interrupt \/ Fault) /\ (disturbed => Start)
  BY Disturbs
<1>2. ASSUME pc' \notin {"vet", "write"}
      PROVE  WrittenTruly'
  BY <1>2 DEF WrittenTruly
<1>3. CASE Start \/ Partition \/ Refetch \/ Verify \/ \E k \in Key : WriteRejected(k)
  BY <1>2, <1>3 DEF Start, Partition, Refetch, Verify, WriteRejected
<1>4. CASE \E k \in Key : ListNothing(k) \/ ListAuto(k) \/ ListUnreadable(k) \/ ListRecord(k)
  BY <1>2, <1>4 DEF ListNothing, ListAuto, ListUnreadable, ListRecord, Lists, run
<1>5. CASE Plan
  <2>1. pc = "list" /\ unlisted = {} /\ UNCHANGED <<zone, truth, provider, landed, luck>>
    BY <1>5 DEF Plan
  <2>2. landed = {} /\ \A k \in Supported : ReadTruly(k) /\ EtagCurrent(k)
    BY <1>1, <1>5, <2>1 DEF IInv, Announced, QuietList, ListedTruly, Start, Ended
  <2> QED BY <2>1, <2>2 DEF WrittenTruly, ReadTruly, EtagCurrent, zone, truth, provider
<1>6. CASE Vet
  BY <1>1, <1>6 DEF Vet, QuietWrite, WrittenTruly, ReadTruly, EtagCurrent, zone, truth, provider,
     Start, Ended
<1>7. CASE \E k \in Key : Create(k) \/ Update(k) \/ Delete(k)
  <2>1. PICK k \in Key : Create(k) \/ Update(k) \/ Delete(k)
    BY <1>7
  <2>2. /\ pc = "write" /\ pc' # "vet" /\ k \in DiffKeys(diff) /\ landed' = landed \cup {k}
        /\ UNCHANGED <<truth, provider, diff>>
    BY <2>1 DEF Create, Update, Delete, DueAdd, DueUpdate, DueDelete, Land, DiffKeys
  <2>3. k \in Managed /\ (k \in diff.delete => args.record[k] = Absent)
    BY <2>2, FetchedIsReading, PlanSawTheZone
       DEF TypeOK, Diff, DiffKeys, IInv, PlanStands, Desired
  <2>4. \E x \in Content : x = args.record[k] /\ edge' = [edge EXCEPT ![k] = x]
                           /\ gen' = [gen EXCEPT ![k] = @ + 1]
    BY <2>1, <2>3 DEF Create, Update, Delete, DueDelete, Land, TypeOK, Args, Content
  <2>5. ~disturbed /\ WrittenTruly
    BY <1>1, <2>2 DEF QuietWrite, Start, Ended
  <2> QED BY <2>2, <2>4, <2>5
          DEF WrittenTruly, ReadTruly, EtagCurrent, truth, provider, TypeOK, Supported, DiffKeys
<1>8. CASE UNCHANGED vars
  BY <1>1, <1>8 DEF vars, zone, truth, provider, run, luck, QuietWrite, WrittenTruly, ReadTruly,
     EtagCurrent
<1> QED BY <1>1, <1>3, <1>4, <1>5, <1>6, <1>7, <1>8 DEF Next, Progress

\* Once all writes of an accepted plan have landed undisturbed, the zone is as
\* truth states it.
LEMMA WritesConverge ==
    ASSUME TypeOK, IInv, WrittenTruly, pc = "write", DiffKeys(diff) \subseteq landed
    PROVE  /\ MatchesTruth
           /\ Unwritable(Fetched) = {} /\ ~TruthConflict(args) /\ args.twice = {}
<1>1. diff = PlannedDiff(args, Fetched) /\ ~PlanRefuses(args, Fetched)
  BY DEF IInv, PlanStands
<1>2. Unwritable(Fetched) = {} /\ ~TruthConflict(args) /\ args.twice = {}
  BY <1>1 DEF PlanRefuses
<1>3. ASSUME NEW k \in Managed, k \notin landed
      PROVE  edge[k] = args.record[k]
  <2>1. actual[k] = edge[k]
    BY <1>2, <1>3, WritableIsRead DEF WrittenTruly, Supported
  <2>2. k \notin DiffKeys(diff)
    BY <1>3
  <2>3. actual[k] = args.record[k]
    BY <1>1, <2>2, FetchedIsReading, PlanLeavesAlone DEF TypeOK, Fetched
  <2> QED BY <2>1, <2>3
<1> QED BY <1>2, <1>3 DEF MatchesTruth, WrittenTruly

LEMMA QuietVerifyStep ==
    TypeOK /\ IInv /\ QuietWrite /\ QuietVerify /\ [Next]_vars => QuietVerify'
<1> SUFFICES ASSUME TypeOK, IInv, QuietWrite, QuietVerify, [Next]_vars,
                    ~disturbed', pc' = "relist"
             PROVE  VerifiesTruly'
  BY DEF QuietVerify, VerifiesTruly
<1>1. ~(Foreign \/ RequestFails \/ Interrupt \/ Fault) /\ (disturbed => Start)
  BY Disturbs
<1>2. CASE Refetch
  <2>1. pc = "write" /\ DiffKeys(diff) \subseteq landed /\ ~disturbed
        /\ UNCHANGED <<zone, truth, blocked, unparseable>>
    BY <1>1, <1>2 DEF Refetch, Start, Ended
  <2>2. /\ MatchesTruth
        /\ Unwritable(Fetched) = {} /\ ~TruthConflict(args) /\ args.twice = {}
    BY <2>1, WritesConverge DEF QuietWrite
  <2> QED BY <2>1, <2>2 DEF VerifiesTruly, MatchesTruth, Unwritable, Fetched, TruthConflict, Desired,
          zone, truth
<1>3. CASE \E k \in Key : ListNothing(k) \/ ListAuto(k) \/ ListUnreadable(k) \/ ListRecord(k)
  <2>1. PICK k \in Key : ListNothing(k) \/ ListAuto(k) \/ ListUnreadable(k) \/ ListRecord(k)
    BY <1>3
  <2>2. /\ UNCHANGED <<zone, truth, run, luck>>
        /\ blocked' \cup unparseable' \subseteq
             blocked \cup unparseable \cup {j \in {k} : edge[k] \in {Registered, Unreadable}}
    BY <1>1, <2>1, ListOne DEF IInv
  <2>3. /\ MatchesTruth
        /\ Unwritable(Fetched) = {} /\ ~TruthConflict(args) /\ args.twice = {}
    BY <2>2 DEF QuietVerify, VerifiesTruly, luck, run
  <2>4. k \in Managed => edge[k] \in Content
    BY <2>3 DEF MatchesTruth, TypeOK, Args
  <2>5. Unwritable(Fetched)' = {}
    BY <2>2, <2>3, <2>4 DEF Unwritable, Fetched, Content
  <2> QED BY <2>2, <2>3, <2>5 DEF VerifiesTruly, MatchesTruth, TruthConflict, Desired, zone, truth
<1>4. CASE UNCHANGED vars
  BY <1>4 DEF vars, zone, truth, provider, run, luck, QuietVerify, VerifiesTruly, MatchesTruth,
     Unwritable, Fetched, TruthConflict, Desired
<1> QED
  BY <1>1, <1>2, <1>3, <1>4 DEF Next, Progress, Start, Partition, Plan, Vet, Verify, Create,
     Update, Delete, Land, WriteRejected, DueAdd, DueUpdate, DueDelete

\* What the listing skips never stands in the way of a managed key.
NoHiddenClash == \A j \in Unsupported, k \in Managed : ~Clash(j, k)

\* An accepted plan has every ETag it needs, and Azure refuses none of it.
LEMMA QuietIsVetted ==
    ASSUME TypeOK, IInv, WrittenTruly, pc = "vet"
    PROVE  Vetted
<1>1. diff = PlannedDiff(args, Fetched) /\ ~PlanRefuses(args, Fetched)
  BY DEF IInv, PlanStands
<1>2. DiffKeys(diff) \subseteq Managed
  BY DEF TypeOK, Diff, DiffKeys
<1>3. DiffKeys(diff) \cap (blocked \cup unparseable) = {}
  BY <1>1, <1>2 DEF PlanRefuses, Unwritable, Fetched
<1>4. \A k \in diff.update \cup diff.delete : actual[k] # Absent
  BY <1>1, FetchedIsReading, PlanSawTheZone DEF Fetched, TypeOK
<1>5. landed = {}
  BY DEF WrittenTruly
<1> QED BY <1>2, <1>3, <1>4, <1>5 DEF Vetted, WrittenTruly, EtagCurrent, TypeOK, DiffKeys, Supported, NoTag

LEMMA QuietWriteAccepted ==
    ASSUME NoHiddenClash, TypeOK, IInv, WrittenTruly, NEW k \in Key
    PROVE  ~WriteRejected(k)
<1> SUFFICES ASSUME WriteRejected(k)
             PROVE  FALSE
  OBVIOUS
<1>1. pc = "write" /\ k \in DiffKeys(diff) \ landed
  BY DEF WriteRejected, DueAdd, DueUpdate, DueDelete, DiffKeys
<1>2. diff = PlannedDiff(args, Fetched) /\ ~PlanRefuses(args, Fetched)
  BY <1>1 DEF IInv, PlanStands
<1>3. k \in Managed
  BY <1>1 DEF TypeOK, Diff, DiffKeys
<1>4. Unwritable(Fetched) = {} /\ ~TruthConflict(args) /\ ~EdgeConflict(args, Fetched)
  BY <1>2 DEF PlanRefuses
<1>5. edge[k] \in Content /\ actual[k] = edge[k] /\ k \notin blocked \cup unparseable
      /\ EtagCurrent(k)
  BY <1>1, <1>3, <1>4, WritableIsRead DEF WrittenTruly, Supported
<1>6. /\ \A j \in diff.add : actual[j] = Absent /\ j \in Desired(args)
      /\ \A j \in diff.update \cup diff.delete : actual[j] # Absent
  BY <1>2, FetchedIsReading, PlanSawTheZone DEF Fetched, TypeOK
<1>7. CASE k \in diff.add
  <2>1. edge[k] = Absent /\ k \in Desired(args) \ Observed(Fetched)
    BY <1>5, <1>6, <1>7 DEF Observed, Fetched
  <2>2. ASSUME NEW j \in Key, Clash(j, k)
        PROVE  edge[j] = Absent
    <3>1. j \in Supported
      BY <1>3, <2>2 DEF NoHiddenClash, Supported
    <3>2. CASE j \in landed
      <4>1. j \in Managed /\ edge[j] = args.record[j]
        BY <1>1, <3>2 DEF WrittenTruly, TypeOK, Diff, DiffKeys
      <4> QED BY <1>4, <2>1, <2>2, <4>1 DEF TruthConflict, Desired
    <3>3. CASE j \notin landed
      <4>1. ReadTruly(j) /\ j \notin Observed(Fetched)
        BY <1>1, <1>4, <2>1, <2>2, <3>1, <3>3 DEF WrittenTruly, EdgeConflict
      <4> QED BY <4>1 DEF ReadTruly, Observed, Fetched, TypeOK, Slot, Content
    <3> QED BY <3>2, <3>3
  <2>3. DueAdd(k) /\ IfMissing(k) /\ CanExist(edge, k)
    BY <1>1, <1>7, <2>1, <2>2 DEF DueAdd, IfMissing, CanExist
  <2>4. ~DueUpdate(k) /\ ~DueDelete(k)
    BY <1>6, <1>7 DEF DueUpdate, DueDelete
  <2> QED BY <2>3, <2>4 DEF WriteRejected
<1>8. CASE k \notin diff.add
  <2>1. k \in diff.update \cup diff.delete
    BY <1>1, <1>8 DEF DiffKeys
  <2>2. IfNotModified(k)
    BY <1>5, <1>6, <2>1 DEF IfNotModified, EtagCurrent
  <2> QED BY <1>8, <2>2 DEF WriteRejected, DueAdd
<1> QED BY <1>7, <1>8

\* A second plan over a zone that is as truth states it has nothing to do.
LEMMA QuietVerifies ==
    ASSUME TypeOK, QuietList, VerifiesTruly, ~disturbed, pc = "relist", unlisted = {}
    PROVE  ~PlanRefuses(args, Fetched) /\ IsConverged(PlannedDiff(args, Fetched))
<1>1. Unwritable(Fetched) = {} /\ ~TruthConflict(args) /\ args.twice = {} /\ MatchesTruth
  BY DEF VerifiesTruly
<1>2. \A k \in Managed : actual[k] = args.record[k]
  BY <1>1, WritableIsRead DEF QuietList, ListedTruly, Supported, MatchesTruth
<1>3. \A k \in Desired(args) : k \notin Fetched.drifted
  BY DEF Fetched
<1> QED BY <1>1, <1>2, <1>3, FetchedIsReading, AgreementConverges DEF TypeOK, Fetched

LEMMA QuietRunStep ==
    ASSUME NoHiddenClash, TypeOK, IInv, QuietList, QuietWrite, QuietVerify, NotYetAnnounced,
           QuietRunSucceeds, [Next]_vars
    PROVE  QuietRunSucceeds'
<1> SUFFICES ASSUME pc' = "raised", mutating', ~disturbed'
             PROVE  FALSE
  BY DEF QuietRunSucceeds
<1>1. ~(Foreign \/ RequestFails \/ Interrupt \/ Fault) /\ (disturbed => Start)
  BY Disturbs
<1>2. ~(Partition \/ Plan)
  BY DEF NotYetAnnounced, Partition, Plan
<1>3. ~Vet
  BY <1>1, QuietIsVetted DEF Vet, QuietWrite, Start, Ended
<1>4. ~\E k \in Key : WriteRejected(k)
  <2> SUFFICES ASSUME NEW k \in Key, WriteRejected(k)
               PROVE  FALSE
    OBVIOUS
  <2>1. pc = "write" /\ ~disturbed
    BY <1>1 DEF WriteRejected, DueAdd, DueUpdate, DueDelete, Start, Ended
  <2> QED BY <2>1, QuietWriteAccepted DEF QuietWrite
<1>5. ~\E k \in Key : Create(k) \/ Update(k) \/ Delete(k)
  BY <1>1 DEF Create, Update, Delete, DueAdd, DueUpdate, DueDelete, Land
<1>6. ~Verify
  BY <1>1, QuietVerifies DEF Verify, QuietVerify, Start, Ended
<1>7. ~Start /\ ~Refetch
  BY DEF Start, Refetch
<1>8. ASSUME NEW k \in Key, ListNothing(k) \/ ListAuto(k) \/ ListUnreadable(k) \/ ListRecord(k)
      PROVE  FALSE
  <2>1. pc \in {"list", "relist"} /\ pc' = pc
    BY <1>8 DEF ListNothing, ListAuto, ListUnreadable, ListRecord, Lists, run
  <2> QED BY <2>1
<1>9. ~UNCHANGED vars
  <2> SUFFICES ASSUME UNCHANGED vars
               PROVE  FALSE
    OBVIOUS
  <2>1. pc' = pc /\ mutating' = mutating /\ disturbed' = disturbed
    BY DEF vars, run, luck
  <2>2. pc = "raised" /\ mutating = TRUE /\ disturbed = FALSE
    BY <2>1 DEF TypeOK
  <2> QED BY <2>2 DEF QuietRunSucceeds
<1> QED BY <1>1, <1>2, <1>3, <1>4, <1>5, <1>6, <1>7, <1>8, <1>9 DEF Next, Progress

\* "Applied" is the truth: a run that returned has read every managed key as
\* truth states it, and if nothing interfered the zone is as truth states it.
THEOREM ReturnedIsTrue == Spec => []ReturnedMeansConverged
<1>1. Init => QuietList /\ ReturnedMeansConverged
  BY InitQuiet DEF Init, FreshRun, ReturnedMeansConverged
<1>2. /\ TypeOK /\ IInv /\ QuietList /\ ReturnedMeansConverged /\ [Next]_vars
      => (QuietList /\ ReturnedMeansConverged)'
  BY QuietListStep, ReturnedStep DEF IInv
<1> QED BY <1>1, <1>2, Invariant, PTL DEF Spec

\* Unless a record set of a type the listing skips shares its name with a
\* managed CNAME (the finding of azure_unsupported_type), a run that was
\* announced and not disturbed does not fail.
THEOREM QuietRuns == NoHiddenClash => (Spec => []QuietRunSucceeds)
<1> SUFFICES ASSUME NoHiddenClash
             PROVE  Spec => []QuietRunSucceeds
  OBVIOUS
<1> DEFINE Quiet == QuietList /\ QuietWrite /\ QuietVerify /\ NotYetAnnounced
<1>1. Init => Quiet /\ QuietRunSucceeds
  BY InitQuiet DEF Init, FreshRun, QuietRunSucceeds
<1>2. TypeOK /\ IInv /\ Quiet /\ QuietRunSucceeds /\ [Next]_vars => (Quiet /\ QuietRunSucceeds)'
  BY QuietListStep, QuietWriteStep, QuietVerifyStep, NotYetAnnouncedStep, QuietRunStep DEF IInv
<1> QED BY <1>1, <1>2, Invariant, PTL DEF Spec

=============================================================================
