------------------------- MODULE LabWorkflows_proofs ------------------------
(***************************************************************************)
(* The custody of saved plans, for any number of runs, attempts and apply  *)
(* jobs and any movement of main, the nights of drift.yml for any number   *)
(* of them and any lab, and the queue that makes refusals have reasons.    *)
(***************************************************************************)
EXTENDS LabWorkflows, FiniteSetTheorems, SequenceTheorems, TLAPS

USE CustodyAssumption

RunRecord == [kind : Kinds, commit : Nat, attempt : Nat, hurt : BOOLEAN,
              at : {"open", "saved", "success", "failure", "cancelled"}]
PlanRecord == [run : Nat, attempt : Nat, kind : Kinds, commit : Nat, base : Nat]
Steps == {"open", "verified", "ready", "checked", "applying", "applied",
          "broken", "refused", "cancelled"}
ApplyRecord == [kind : Kinds, run : Nat, commit : Nat, sha : Nat, at : Steps,
                plan : PlanRecord, mains : SUBSET Nat]

RecordsInv ==
    /\ main \in Nat /\ serial \in Nat
    /\ runs \in Seq(RunRecord) /\ applies \in Seq(ApplyRecord)
    /\ blobs \subseteq PlanRecord

\* A plan belongs to its run, was saved by an attempt that has begun, and on a
\* state that is not younger than the present one.
BlobHolds(plan, rs, s) ==
    /\ plan.run \in DOMAIN rs
    /\ plan.commit = rs[plan.run].commit /\ plan.kind = rs[plan.run].kind
    /\ plan.attempt <= rs[plan.run].attempt /\ plan.base <= s

BlobInv == \A plan \in blobs : BlobHolds(plan, runs, serial)

\* What each step of an apply job has established, and later ones rely on.
JobHolds(a, rs, bs, m) ==
    /\ a.run \in DOMAIN rs /\ a.commit = rs[a.run].commit
    /\ a.at \in {"verified", "ready", "checked", "applying", "applied"} => a.kind = rs[a.run].kind
    /\ a.at \in {"ready", "checked", "applying", "applied"} =>
          a.plan \in bs /\ a.plan.run = a.run /\ a.plan.attempt = a.sha
    /\ a.at = "ready" => m \in a.mains
    /\ a.at \in {"checked", "applying", "applied"} => a.commit \in a.mains

JobInv == \A j \in DOMAIN applies : JobHolds(applies[j], runs, blobs, main)

ReviewInv == RecordsInv /\ BlobInv /\ JobInv

-----------------------------------------------------------------------------
\* A step leaves all of an apply job but the step.
LEMMA ApplyMoves ==
    ASSUME NEW a \in ApplyRecord, NEW step \in Steps
    PROVE  /\ [a EXCEPT !.at = step] \in ApplyRecord
           /\ [a EXCEPT !.at = step].kind = a.kind /\ [a EXCEPT !.at = step].commit = a.commit
           /\ [a EXCEPT !.at = step].run = a.run /\ [a EXCEPT !.at = step].sha = a.sha
           /\ [a EXCEPT !.at = step].plan = a.plan /\ [a EXCEPT !.at = step].mains = a.mains
           /\ [a EXCEPT !.at = step].at = step
<1>1. [a EXCEPT !.at = step] = [kind |-> a.kind, run |-> a.run, commit |-> a.commit, sha |-> a.sha,
                              at |-> step, plan |-> a.plan, mains |-> a.mains]
    BY DEF ApplyRecord
<1>2. /\ a.kind \in Kinds /\ a.run \in Nat /\ a.commit \in Nat /\ a.sha \in Nat
      /\ a.plan \in PlanRecord /\ a.mains \in SUBSET Nat
    BY DEF ApplyRecord
<1>3. QED
    BY <1>1, <1>2 DEF ApplyRecord

\* A cancelled job keeps all but its step.
LEMMA CancelKeeps ==
    ASSUME NEW rs \in Seq(RunRecord), NEW job
    PROVE  /\ Cancel(rs, job) \in Seq(RunRecord)
           /\ Len(Cancel(rs, job)) = Len(rs) /\ DOMAIN Cancel(rs, job) = DOMAIN rs
           /\ \A i \in DOMAIN rs :
                 /\ Cancel(rs, job)[i].kind = rs[i].kind
                 /\ Cancel(rs, job)[i].commit = rs[i].commit
                 /\ Cancel(rs, job)[i].attempt = rs[i].attempt
                 /\ Cancel(rs, job)[i].hurt = rs[i].hurt
                 /\ Cancel(rs, job)[i].at = IF job = Plan(i) THEN "cancelled" ELSE rs[i].at
<1>1. /\ DOMAIN rs = 1..Len(rs) /\ Len(rs) \in Nat
      /\ \A i \in DOMAIN rs : rs[i] \in RunRecord
    OBVIOUS
<1>2. \A i \in DOMAIN rs :
         Cancel(rs, job)[i] = IF job = Plan(i) THEN [rs[i] EXCEPT !.at = "cancelled"] ELSE rs[i]
    BY DEF Cancel
<1>3. \A i \in DOMAIN rs :
         /\ Cancel(rs, job)[i] \in RunRecord
         /\ Cancel(rs, job)[i].kind = rs[i].kind
         /\ Cancel(rs, job)[i].commit = rs[i].commit
         /\ Cancel(rs, job)[i].attempt = rs[i].attempt
         /\ Cancel(rs, job)[i].hurt = rs[i].hurt
         /\ Cancel(rs, job)[i].at = IF job = Plan(i) THEN "cancelled" ELSE rs[i].at
    <2> TAKE i \in DOMAIN rs
    <2>1. rs[i] \in RunRecord
        BY <1>1
    <2>2. CASE job = Plan(i)
        <3>1. Cancel(rs, job)[i] = [rs[i] EXCEPT !.at = "cancelled"]
            BY <1>2, <2>2
        <3>2. QED
            BY <2>1, <2>2, <3>1 DEF RunRecord
    <2>3. CASE job # Plan(i)
        <3>1. Cancel(rs, job)[i] = rs[i]
            BY <1>2, <2>3
        <3>2. QED
            BY <2>1, <2>3, <3>1
    <2>4. QED
        BY <2>2, <2>3
<1>4. Cancel(rs, job) \in [1..Len(rs) -> RunRecord]
    BY <1>1, <1>3 DEF Cancel
<1>5. Cancel(rs, job) \in Seq(RunRecord) /\ Len(Cancel(rs, job)) = Len(rs)
    BY <1>1, <1>4
<1>6. DOMAIN Cancel(rs, job) = DOMAIN rs
    BY DEF Cancel
<1>7. QED
    BY <1>3, <1>5, <1>6

\* The same of the apply jobs.
LEMMA CancelApplyKeeps ==
    ASSUME NEW as \in Seq(ApplyRecord), NEW job
    PROVE  /\ CancelApply(as, job) \in Seq(ApplyRecord)
           /\ Len(CancelApply(as, job)) = Len(as) /\ DOMAIN CancelApply(as, job) = DOMAIN as
           /\ \A j \in DOMAIN as :
                 \/ CancelApply(as, job)[j] = as[j]
                 \/ CancelApply(as, job)[j] = [as[j] EXCEPT !.at = "cancelled"]
<1>1. /\ DOMAIN as = 1..Len(as) /\ Len(as) \in Nat
      /\ \A j \in DOMAIN as : as[j] \in ApplyRecord
    OBVIOUS
<1>2. \A j \in DOMAIN as :
         CancelApply(as, job)[j] = IF job = Apply(j) THEN [as[j] EXCEPT !.at = "cancelled"] ELSE as[j]
    BY DEF CancelApply
<1>3. \A j \in DOMAIN as : CancelApply(as, job)[j] \in ApplyRecord
    <2> TAKE j \in DOMAIN as
    <2>1. as[j] \in ApplyRecord /\ "cancelled" \in Steps
        BY <1>1 DEF Steps
    <2>2. [as[j] EXCEPT !.at = "cancelled"] \in ApplyRecord
        BY <2>1, ApplyMoves
    <2>3. QED
        BY <1>2, <2>1, <2>2
<1>4. CancelApply(as, job) \in [1..Len(as) -> ApplyRecord]
    BY <1>1, <1>3 DEF CancelApply
<1>5. CancelApply(as, job) \in Seq(ApplyRecord) /\ Len(CancelApply(as, job)) = Len(as)
    BY <1>1, <1>4
<1>6. DOMAIN CancelApply(as, job) = DOMAIN as
    BY DEF CancelApply
<1>7. QED
    BY <1>2, <1>5, <1>6

-----------------------------------------------------------------------------
\* Runs are repeated, cancelled and begun, but stay what they are.
Keeps(rs, qs) ==
    \A i \in DOMAIN rs : /\ i \in DOMAIN qs
                         /\ qs[i].kind = rs[i].kind /\ qs[i].commit = rs[i].commit
                         /\ rs[i].attempt <= qs[i].attempt

\* What a step of one apply job does to all of them.
OneApplyMoves(j, a) ==
    /\ applies' \in Seq(ApplyRecord) /\ DOMAIN applies' = DOMAIN applies
    /\ applies'[j] = a
    /\ \A k \in DOMAIN applies : k # j => applies'[k] = applies[k]

\* One job of the sequence is replaced.
LEMMA ApplyReplaced ==
    ASSUME applies \in Seq(ApplyRecord), NEW j \in DOMAIN applies, NEW a \in ApplyRecord,
           applies' = [applies EXCEPT ![j] = a]
    PROVE  OneApplyMoves(j, a)
<1>1. DOMAIN applies = 1..Len(applies)
    BY LenProperties
<1>2. applies' \in Seq(ApplyRecord) /\ Len(applies') = Len(applies)
    BY <1>1, ExceptSeq
<1>3. QED
    BY <1>2 DEF OneApplyMoves

\* Becomes moves one job.
LEMMA BecomesMoves ==
    ASSUME RecordsInv, NEW j \in DOMAIN applies, NEW step \in Steps, Becomes(j, step)
    PROVE  /\ OneApplyMoves(j, [applies[j] EXCEPT !.at = step])
           /\ applies[j] \in ApplyRecord
<1>1. applies[j] \in ApplyRecord
    BY DEF RecordsInv
<1>2. [applies[j] EXCEPT !.at = step] \in ApplyRecord
    BY <1>1, ApplyMoves
<1>3. applies' = [applies EXCEPT ![j] = [applies[j] EXCEPT !.at = step]]
    BY DEF Becomes
<1>4. QED
    BY <1>1, <1>2, <1>3, ApplyReplaced DEF RecordsInv

\* What a job that leaves a run where it was does to the runs.
LEMMA LeavesKeeps ==
    ASSUME RecordsInv, NEW i \in DOMAIN runs, NEW hurt \in BOOLEAN,
           NEW step \in {"saved", "success", "failure"}, Leaves(i, step, hurt)
    PROVE  /\ runs' \in Seq(RunRecord) /\ Keeps(runs, runs')
           /\ DOMAIN runs' = DOMAIN runs
           /\ \A k \in DOMAIN runs : k # i => runs'[k] = runs[k]
           /\ runs'[i].attempt = runs[i].attempt /\ runs'[i].hurt = hurt /\ runs'[i].at = step
<1>1. runs \in Seq(RunRecord) /\ runs[i] \in RunRecord /\ DOMAIN runs = 1..Len(runs)
    BY LenProperties DEF RecordsInv
<1> DEFINE r == [runs[i] EXCEPT !.at = step, !.hurt = hurt]
<1>2. runs' = [runs EXCEPT ![i] = r]
    BY DEF Leaves
<1>3. /\ r \in RunRecord /\ r.kind = runs[i].kind /\ r.commit = runs[i].commit
      /\ r.attempt = runs[i].attempt /\ r.hurt = hurt /\ r.at = step
    BY <1>1 DEF RunRecord
<1> HIDE DEF r
<1>4. runs' \in Seq(RunRecord) /\ DOMAIN runs' = DOMAIN runs
    BY <1>1, <1>2, <1>3, ExceptSeq
<1>5. runs'[i] = r /\ \A k \in DOMAIN runs : k # i => runs'[k] = runs[k]
    BY <1>1, <1>2
<1>6. \A k \in DOMAIN runs : runs[k].attempt \in Nat
    <2>1. \A k \in DOMAIN runs : runs[k] \in RunRecord
        BY <1>1
    <2>2. QED
        BY <2>1 DEF RunRecord
<1>7. Keeps(runs, runs')
    <2> SUFFICES ASSUME NEW k \in DOMAIN runs
                 PROVE  /\ k \in DOMAIN runs' /\ runs'[k].kind = runs[k].kind
                        /\ runs'[k].commit = runs[k].commit
                        /\ runs[k].attempt <= runs'[k].attempt
        BY <1>4 DEF Keeps
    <2>1. CASE k = i
        BY <1>3, <1>4, <1>5, <1>6, <2>1
    <2>2. CASE k # i
        BY <1>4, <1>5, <1>6, <2>2
    <2>3. QED
        BY <2>1, <2>2
<1>8. QED
    BY <1>3, <1>4, <1>5, <1>7

-----------------------------------------------------------------------------
\* Each attempt of a run is a number.
LEMMA RunsAreTyped ==
    ASSUME NEW rs \in Seq(RunRecord)
    PROVE  /\ DOMAIN rs = 1..Len(rs) /\ Len(rs) \in Nat
           /\ \A i \in DOMAIN rs : /\ rs[i] \in RunRecord
                                   /\ rs[i].kind \in Kinds /\ rs[i].commit \in Nat
                                   /\ rs[i].attempt \in Nat /\ rs[i].hurt \in BOOLEAN
<1>1. DOMAIN rs = 1..Len(rs) /\ Len(rs) \in Nat /\ \A i \in DOMAIN rs : rs[i] \in RunRecord
    OBVIOUS
<1>2. QED
    BY <1>1 DEF RunRecord

\* Plans that were sound stay so while runs are kept.
LEMMA PlansStand ==
    ASSUME RecordsInv, BlobInv, runs' \in Seq(RunRecord), Keeps(runs, runs'),
           serial' \in Nat, serial <= serial', blobs' \subseteq PlanRecord,
           \A plan \in blobs' \ blobs : BlobHolds(plan, runs', serial')
    PROVE  BlobInv'
<1>1. ASSUME NEW plan \in blobs PROVE BlobHolds(plan, runs', serial')
    <2>1. plan \in PlanRecord /\ BlobHolds(plan, runs, serial)
        BY DEF RecordsInv, BlobInv
    <2>2. plan.attempt \in Nat /\ plan.base \in Nat /\ serial \in Nat
        BY <2>1 DEF PlanRecord, RecordsInv
    <2>3. runs[plan.run].attempt \in Nat
        BY <2>1, RunsAreTyped DEF RecordsInv, BlobHolds
    <2>4. plan.run \in DOMAIN runs' /\ runs'[plan.run].attempt \in Nat
        BY <2>1, RunsAreTyped DEF BlobHolds, Keeps
    <2>5. QED
        BY <2>1, <2>2, <2>3, <2>4 DEF BlobHolds, Keeps
<1>2. QED
    BY <1>1 DEF BlobInv

\* So do jobs, and the cancelled ones.
LEMMA JobStands ==
    ASSUME NEW a \in ApplyRecord, NEW rs, NEW qs, NEW bs, NEW cs, NEW m,
           JobHolds(a, rs, bs, m), Keeps(rs, qs), bs \subseteq cs
    PROVE  /\ JobHolds(a, qs, cs, m)
           /\ \A n : JobHolds([a EXCEPT !.at = "cancelled"], qs, cs, n)
<1>1. JobHolds(a, qs, cs, m)
    BY DEF JobHolds, Keeps
<1>2. JobHolds([a EXCEPT !.at = "cancelled"], qs, cs, m)
    BY <1>1, ApplyMoves DEF JobHolds, Steps
<1>3. QED
    BY <1>1, ApplyMoves DEF JobHolds, Steps

\* The jobs hold when each of them was left alone, was cancelled, or holds.
LEMMA JobsStand ==
    ASSUME RecordsInv, JobInv, Keeps(runs, runs'), blobs \subseteq blobs', main' = main,
           \A k \in DOMAIN applies' :
              \/ /\ k \in DOMAIN applies
                 /\ \/ applies'[k] = applies[k]
                    \/ applies'[k] = [applies[k] EXCEPT !.at = "cancelled"]
              \/ JobHolds(applies'[k], runs', blobs', main')
    PROVE  JobInv'
<1>1. ASSUME NEW k \in DOMAIN applies,
             \/ applies'[k] = applies[k]
             \/ applies'[k] = [applies[k] EXCEPT !.at = "cancelled"]
      PROVE  JobHolds(applies'[k], runs', blobs', main')
    <2>1. applies[k] \in ApplyRecord /\ JobHolds(applies[k], runs, blobs, main)
        BY DEF RecordsInv, JobInv
    <2>2. QED
        BY <1>1, <2>1, JobStands
<1>2. QED
    BY <1>1 DEF JobInv

-----------------------------------------------------------------------------
\* A step that only cancels and moves one plan run.
LEMMA PlanSideStep ==
    ASSUME ReviewInv, runs' \in Seq(RunRecord), Keeps(runs, runs'), UNCHANGED <<main, serial, blobs>>,
           \/ applies' = applies
           \/ applies' = CancelApply(applies, pending)
    PROVE  ReviewInv'
<1>1. applies \in Seq(ApplyRecord) /\ RecordsInv
    BY DEF ReviewInv, RecordsInv
<1>2. /\ applies' \in Seq(ApplyRecord) /\ DOMAIN applies' = DOMAIN applies
      /\ \A k \in DOMAIN applies : \/ applies'[k] = applies[k]
                                   \/ applies'[k] = [applies[k] EXCEPT !.at = "cancelled"]
    BY <1>1, CancelApplyKeeps
<1>3. RecordsInv'
    BY <1>1, <1>2 DEF RecordsInv
<1>4. BlobInv'
    BY PlansStand DEF ReviewInv, RecordsInv
<1>5. JobInv'
    BY <1>2, JobsStand DEF ReviewInv
<1>6. QED
    BY <1>3, <1>4, <1>5 DEF ReviewInv

\* A step of one apply job, which must leave that job with what it relies on.
LEMMA ApplySideStep ==
    ASSUME ReviewInv, UNCHANGED <<main, runs, blobs>>, serial' \in Nat, serial <= serial',
           NEW j \in DOMAIN applies, NEW a \in ApplyRecord, OneApplyMoves(j, a),
           JobHolds(a, runs, blobs, main)
    PROVE  ReviewInv'
<1>1. RecordsInv'
    BY DEF ReviewInv, RecordsInv, OneApplyMoves
<1>2. Keeps(runs, runs') /\ runs' \in Seq(RunRecord)
    <2>1. runs \in Seq(RunRecord)
        BY DEF ReviewInv, RecordsInv
    <2>2. QED
        BY <2>1, RunsAreTyped DEF Keeps
<1>3. BlobInv'
    BY <1>2, PlansStand DEF ReviewInv, RecordsInv
<1>4. JobInv'
    BY <1>2, JobsStand DEF ReviewInv, OneApplyMoves
<1>5. QED
    BY <1>1, <1>3, <1>4 DEF ReviewInv

\* Dispatching a plan begins a run and cancels the job that waited.
LEMMA DispatchPlanKeeps ==
    ASSUME ReviewInv, NEW kind \in Kinds, DispatchPlan(kind)
    PROVE  ReviewInv'
<1> DEFINE cs == Cancel(runs, pending)
           r == [kind |-> kind, commit |-> main, attempt |-> 1, at |-> "open", hurt |-> FALSE]
<1>1. runs \in Seq(RunRecord) /\ main \in Nat
    BY DEF ReviewInv, RecordsInv
<1>2. r \in RunRecord
    BY <1>1 DEF RunRecord
<1>3. cs \in Seq(RunRecord) /\ Len(cs) = Len(runs) /\ DOMAIN cs = DOMAIN runs
    BY <1>1, CancelKeeps
<1>4. runs' = Append(cs, r)
    BY DEF DispatchPlan
<1>5. \A i \in DOMAIN runs : cs[i].kind = runs[i].kind /\ cs[i].commit = runs[i].commit
                             /\ cs[i].attempt = runs[i].attempt
    BY <1>1, CancelKeeps
<1> HIDE DEF cs, r
<1>6. /\ runs' \in Seq(RunRecord) /\ Len(runs') = Len(runs) + 1
      /\ \A i \in 1..Len(runs) : runs'[i] = cs[i]
    BY <1>2, <1>3, <1>4, AppendProperties
<1>7. Keeps(runs, runs')
    <2>1. /\ DOMAIN runs = 1..Len(runs) /\ DOMAIN runs' = 1..(Len(runs) + 1) /\ Len(runs) \in Nat
          /\ \A i \in DOMAIN runs : runs[i].attempt \in Nat
        BY <1>1, <1>6, RunsAreTyped
    <2>2. QED
        BY <1>5, <1>6, <2>1 DEF Keeps
<1>8. QED
    BY <1>6, <1>7, PlanSideStep DEF DispatchPlan

\* A repeated run stays what it is, at a new attempt.
LEMMA RerunKeeps ==
    ASSUME ReviewInv, NEW i \in DOMAIN runs, Rerun(i)
    PROVE  /\ runs' \in Seq(RunRecord) /\ Keeps(runs, runs')
           /\ ReviewInv'
<1> DEFINE cs == Cancel(runs, pending)
           r == [cs[i] EXCEPT !.attempt = runs[i].attempt + 1, !.at = "open", !.hurt = FALSE]
<1>1. runs \in Seq(RunRecord)
    BY DEF ReviewInv, RecordsInv
<1>2. /\ cs \in Seq(RunRecord) /\ DOMAIN cs = DOMAIN runs
      /\ \A k \in DOMAIN runs : /\ cs[k].kind = runs[k].kind /\ cs[k].commit = runs[k].commit
                                /\ cs[k].attempt = runs[k].attempt
    BY <1>1, CancelKeeps
<1>3. runs' = [cs EXCEPT ![i] = r]
    BY DEF Rerun
<1>4. cs[i] \in RunRecord /\ cs[i].attempt \in Nat /\ DOMAIN cs = 1..Len(cs)
    BY <1>2, RunsAreTyped
<1>5. /\ r \in RunRecord /\ r.kind = cs[i].kind /\ r.commit = cs[i].commit
      /\ r.attempt = runs[i].attempt + 1
    <2>1. runs[i].attempt + 1 \in Nat
        BY <1>2, <1>4
    <2>2. QED
        BY <1>4, <2>1 DEF RunRecord
<1> HIDE DEF cs, r
<1>6. /\ runs' \in Seq(RunRecord) /\ DOMAIN runs' = DOMAIN runs
    BY <1>2, <1>3, <1>4, <1>5, ExceptSeq
<1>7. runs'[i] = r /\ \A k \in DOMAIN runs : k # i => runs'[k] = cs[k]
    BY <1>2, <1>3
<1>8. Keeps(runs, runs')
    <2> SUFFICES ASSUME NEW k \in DOMAIN runs
                 PROVE  /\ k \in DOMAIN runs' /\ runs'[k].kind = runs[k].kind
                        /\ runs'[k].commit = runs[k].commit
                        /\ runs[k].attempt <= runs'[k].attempt
        BY DEF Keeps
    <2>1. runs[k].attempt \in Nat
        BY <1>1, RunsAreTyped
    <2>2. CASE k = i
        BY <1>2, <1>5, <1>6, <1>7, <2>1, <2>2
    <2>3. CASE k # i
        BY <1>2, <1>6, <1>7, <2>1, <2>3
    <2>4. QED
        BY <2>2, <2>3
<1>9. QED
    BY <1>6, <1>8, PlanSideStep DEF Rerun

\* An approval names a saved plan, and so the commit of its run.
LEMMA DispatchApplyKeeps ==
    ASSUME ReviewInv, NEW kind \in Kinds, NEW plan \in blobs, DispatchApply(kind, plan)
    PROVE  ReviewInv'
<1> DEFINE as == CancelApply(applies, pending)
           a == [kind |-> kind, run |-> plan.run, commit |-> plan.commit,
                 sha |-> plan.attempt, at |-> "open", plan |-> plan, mains |-> {}]
<1>1. /\ runs \in Seq(RunRecord) /\ applies \in Seq(ApplyRecord) /\ RecordsInv
      /\ plan \in PlanRecord /\ BlobHolds(plan, runs, serial)
    BY DEF ReviewInv, RecordsInv, BlobInv
<1>2. a \in ApplyRecord
    BY <1>1 DEF ApplyRecord, PlanRecord, Steps
<1>3. a.run \in DOMAIN runs /\ a.commit = runs[a.run].commit /\ a.at = "open"
    BY <1>1 DEF BlobHolds
<1>4. /\ as \in Seq(ApplyRecord) /\ Len(as) = Len(applies) /\ DOMAIN as = DOMAIN applies
      /\ \A k \in DOMAIN applies : \/ as[k] = applies[k]
                                   \/ as[k] = [applies[k] EXCEPT !.at = "cancelled"]
    BY <1>1, CancelApplyKeeps
<1>5. applies' = Append(as, a)
    BY DEF DispatchApply
<1>6. runs' = Cancel(runs, pending) /\ UNCHANGED <<main, serial, blobs>>
    BY DEF DispatchApply
<1>7. runs' \in Seq(RunRecord) /\ Keeps(runs, runs')
    <2>1. \A i \in DOMAIN runs : runs[i].attempt \in Nat
        BY <1>1, RunsAreTyped
    <2>2. QED
        BY <1>1, <1>6, <2>1, CancelKeeps DEF Keeps
<1> HIDE DEF as, a
<1>8. /\ applies' \in Seq(ApplyRecord) /\ Len(applies') = Len(applies) + 1
      /\ \A k \in 1..Len(applies) : applies'[k] = as[k]
      /\ applies'[Len(applies) + 1] = a
    <2>1. /\ applies' \in Seq(ApplyRecord) /\ Len(applies') = Len(as) + 1
          /\ \A k \in 1..Len(as) : applies'[k] = as[k]
          /\ applies'[Len(as) + 1] = a
        <3>1. as \in Seq(ApplyRecord)
            BY <1>4
        <3>2. Append(as, a) \in Seq(ApplyRecord) /\ Len(Append(as, a)) = Len(as) + 1
            BY <1>2, <3>1, AppendProperties
        <3>3. \A k \in 1..Len(as) : Append(as, a)[k] = as[k]
            BY <1>2, <3>1, AppendProperties
        <3>4. Append(as, a)[Len(as) + 1] = a
            BY <1>2, <3>1, AppendProperties
        <3>5. QED
            BY <1>5, <3>2, <3>3, <3>4, Zenon
    <2>2. QED
        BY <1>4, <2>1
<1>9. DOMAIN applies = 1..Len(applies) /\ DOMAIN applies' = 1..(Len(applies) + 1)
      /\ Len(applies) \in Nat
    BY <1>1, <1>8, LenProperties
<1>10. RecordsInv'
    BY <1>1, <1>6, <1>7, <1>8 DEF RecordsInv
<1>11. BlobInv'
    BY <1>1, <1>6, <1>7, PlansStand DEF ReviewInv, RecordsInv
<1>12. JobHolds(a, runs', blobs', main')
    BY <1>3, <1>7 DEF JobHolds, Keeps
<1>13. JobInv'
    <2>1. \A k \in DOMAIN applies' : k \in DOMAIN applies \/ k = Len(applies) + 1
        BY <1>9
    <2>2. \A k \in DOMAIN applies : \/ applies'[k] = applies[k]
                                    \/ applies'[k] = [applies[k] EXCEPT !.at = "cancelled"]
        BY <1>4, <1>8, <1>9
    <2>3. JobHolds(applies'[Len(applies) + 1], runs', blobs', main')
        BY <1>8, <1>12
    <2>4. QED
        BY <1>1, <1>6, <1>7, <2>1, <2>2, <2>3, JobsStand DEF ReviewInv
<1>14. QED
    BY <1>10, <1>11, <1>13 DEF ReviewInv

\* A plan that is saved is of its run, at its attempt, on the present state.
LEMMA SavePlanKeeps ==
    ASSUME ReviewInv, NEW i \in DOMAIN runs, SavePlan(i)
    PROVE  ReviewInv'
<1>1. RecordsInv /\ runs \in Seq(RunRecord) /\ serial \in Nat /\ UNCHANGED <<main, serial, applies>>
    BY DEF SavePlan, ReviewInv, RecordsInv
<1>2. CASE Leaves(i, "failure", FALSE) /\ UNCHANGED blobs
    BY <1>1, <1>2, LeavesKeeps, PlanSideStep
<1>3. CASE /\ Leaves(i, "saved", FALSE)
           /\ blobs' = blobs \cup {[run |-> i, attempt |-> runs[i].attempt, kind |-> runs[i].kind,
                                    commit |-> runs[i].commit, base |-> serial]}
    <2> DEFINE plan == [run |-> i, attempt |-> runs[i].attempt, kind |-> runs[i].kind,
                        commit |-> runs[i].commit, base |-> serial]
    <2>1. /\ runs' \in Seq(RunRecord) /\ Keeps(runs, runs') /\ DOMAIN runs' = DOMAIN runs
          /\ runs'[i].attempt = runs[i].attempt
        BY <1>1, <1>3, LeavesKeeps
    <2>2. /\ runs[i].kind \in Kinds /\ runs[i].commit \in Nat /\ runs[i].attempt \in Nat /\ i \in Nat
        BY <1>1, RunsAreTyped
    <2>3. plan \in PlanRecord
        BY <1>1, <2>2 DEF PlanRecord
    <2>4. BlobHolds(plan, runs', serial')
        BY <1>1, <2>1, <2>2 DEF BlobHolds, Keeps
    <2> HIDE DEF plan
    <2>5. blobs' = blobs \cup {plan}
        BY <1>3 DEF plan
    <2>6. RecordsInv'
        BY <1>1, <2>1, <2>3, <2>5 DEF RecordsInv
    <2>7. BlobInv'
        BY <1>1, <2>1, <2>4, <2>5, <2>6, PlansStand DEF ReviewInv, RecordsInv
    <2>8. JobInv'
        BY <1>1, <2>1, <2>5, JobsStand DEF ReviewInv
    <2>9. QED
        BY <2>6, <2>7, <2>8 DEF ReviewInv
<1>4. QED
    BY <1>2, <1>3 DEF SavePlan

\* The other steps of a plan run change what nothing here relies on.
LEMMA PlanRunKeeps ==
    ASSUME ReviewInv, NEW i \in DOMAIN runs, UploadManifest(i) \/ PlanStepFails(i)
    PROVE  ReviewInv'
<1>1. RecordsInv /\ UNCHANGED <<main, serial, blobs, applies>>
    BY DEF UploadManifest, PlanStepFails, ReviewInv
<1>2. \E hurt \in BOOLEAN, step \in {"saved", "success", "failure"} : Leaves(i, step, hurt)
    BY DEF UploadManifest, PlanStepFails
<1>3. QED
    BY <1>1, <1>2, LeavesKeeps, PlanSideStep

\* Main moves past the jobs, and those that are ready remember it.
LEMMA MainMovesKeeps ==
    ASSUME ReviewInv, MainMoves
    PROVE  ReviewInv'
<1>1. RecordsInv /\ main \in Nat /\ main' \in Nat /\ applies \in Seq(ApplyRecord)
      /\ UNCHANGED <<serial, runs, blobs>>
    BY DEF MainMoves, ReviewInv, RecordsInv
<1>2. DOMAIN applies = 1..Len(applies) /\ Len(applies) \in Nat
    BY <1>1, LenProperties
<1>3. ASSUME NEW j \in DOMAIN applies
      PROVE  /\ applies'[j] \in ApplyRecord
             /\ JobHolds(applies'[j], runs, blobs, main')
    <2> DEFINE m == IF applies[j].at = "ready" THEN applies[j].mains \cup {main'}
                    ELSE applies[j].mains
    <2>1. applies[j] \in ApplyRecord /\ JobHolds(applies[j], runs, blobs, main)
        BY <1>1 DEF ReviewInv, JobInv
    <2>2. applies'[j] = [applies[j] EXCEPT !.mains = m]
        BY DEF MainMoves
    <2>3. m \in SUBSET Nat
        BY <1>1, <2>1 DEF ApplyRecord
    <2>4. applies[j].at = "ready" => main' \in m
        OBVIOUS
    <2>5. applies[j].mains \subseteq m
        OBVIOUS
    <2> HIDE DEF m
    <2>6. /\ applies'[j] \in ApplyRecord /\ applies'[j].mains = m
          /\ applies'[j].run = applies[j].run /\ applies'[j].commit = applies[j].commit
          /\ applies'[j].at = applies[j].at /\ applies'[j].kind = applies[j].kind
          /\ applies'[j].plan = applies[j].plan /\ applies'[j].sha = applies[j].sha
        BY <2>1, <2>2, <2>3 DEF ApplyRecord
    <2>7. QED
        BY <2>1, <2>4, <2>5, <2>6 DEF JobHolds
<1>4. applies' \in [1..Len(applies) -> ApplyRecord]
    BY <1>2, <1>3 DEF MainMoves
<1>5. applies' \in Seq(ApplyRecord) /\ DOMAIN applies' = DOMAIN applies
    BY <1>2, <1>4
<1>6. RecordsInv'
    BY <1>1, <1>5 DEF RecordsInv
<1>7. BlobInv'
    BY <1>1 DEF ReviewInv, BlobInv
<1>8. JobInv'
    BY <1>1, <1>3, <1>5 DEF JobInv
<1>9. QED
    BY <1>6, <1>7, <1>8 DEF ReviewInv

\* A job that stops relies on nothing any more.
LEMMA StoppedHolds ==
    ASSUME NEW a \in ApplyRecord, NEW rs, NEW bs, NEW m, JobHolds(a, rs, bs, m),
           NEW step \in {"refused", "broken"}
    PROVE  JobHolds([a EXCEPT !.at = step], rs, bs, m)
<1>1. step \in Steps
    BY DEF Steps
<1>2. QED
    BY <1>1, ApplyMoves DEF JobHolds

\* The steps of an apply job: each establishes what the later ones rely on.
LEMMA ApplyJobKeeps ==
    ASSUME ReviewInv, NEW j \in DOMAIN applies,
           \/ VerifyChain(j) \/ Prepare(j) \/ VerifyMain(j)
           \/ ApplyBegins(j) \/ ApplyEnds(j) \/ ApplyStepFails(j)
    PROVE  ReviewInv'
<1> DEFINE a == applies[j]
<1>1. /\ RecordsInv /\ a \in ApplyRecord /\ JobHolds(a, runs, blobs, main)
      /\ main \in Nat /\ serial \in Nat /\ applies \in Seq(ApplyRecord)
    BY DEF ReviewInv, RecordsInv, JobInv
<1>2. UNCHANGED <<main, runs, blobs>> /\ serial' \in Nat /\ serial <= serial'
    <2>1. CASE ApplyBegins(j)
        <3>1. serial' = serial \/ serial' = serial + 1
            BY <2>1 DEF ApplyBegins
        <3>2. UNCHANGED <<main, runs, blobs>>
            BY <2>1 DEF ApplyBegins
        <3>3. QED
            BY <1>1, <3>1, <3>2
    <2>2. CASE VerifyChain(j) \/ Prepare(j) \/ VerifyMain(j) \/ ApplyEnds(j) \/ ApplyStepFails(j)
        <3>1. UNCHANGED <<main, serial, runs, blobs>>
            BY <2>2 DEF VerifyChain, Prepare, VerifyMain, ApplyEnds, ApplyStepFails
        <3>2. QED
            BY <1>1, <3>1
    <2>3. QED
        BY <2>1, <2>2
<1>3. ASSUME NEW step \in Steps, Becomes(j, step),
             JobHolds([a EXCEPT !.at = step], runs, blobs, main)
      PROVE  ReviewInv'
    BY <1>1, <1>2, <1>3, BecomesMoves, ApplyMoves, ApplySideStep
<1>4. ASSUME NEW step \in {"refused", "broken"}, Becomes(j, step)
      PROVE  ReviewInv'
    BY <1>1, <1>3, <1>4, StoppedHolds DEF Steps
<1>5. CASE VerifyChain(j)
    <2>1. CASE Becomes(j, "verified") /\ ChainHolds(a)
        <3>1. JobHolds([a EXCEPT !.at = "verified"], runs, blobs, main)
            BY <1>1, <2>1, ApplyMoves DEF JobHolds, ChainHolds, Steps
        <3>2. QED
            BY <1>3, <2>1, <3>1 DEF Steps
    <2>2. QED
        BY <1>4, <1>5, <2>1 DEF VerifyChain
<1>6. CASE Prepare(j)
    <2>1. PICK plan \in blobs :
             /\ plan.run = a.run
             /\ \/ Becomes(j, "refused")
                \/ /\ plan.attempt = a.sha
                   /\ applies' = [applies EXCEPT ![j] = [a EXCEPT !.at = "ready", !.plan = plan,
                                                                  !.mains = {main}]]
        BY <1>6 DEF Prepare
    <2>2. CASE /\ plan.attempt = a.sha
               /\ applies' = [applies EXCEPT ![j] = [a EXCEPT !.at = "ready", !.plan = plan,
                                                              !.mains = {main}]]
        <3> DEFINE b == [a EXCEPT !.at = "ready", !.plan = plan, !.mains = {main}]
        <3>1. plan \in PlanRecord /\ {main} \in SUBSET Nat
            BY <1>1 DEF RecordsInv
        <3>2. /\ b \in ApplyRecord /\ b.at = "ready" /\ b.plan = plan /\ b.mains = {main}
              /\ b.run = a.run /\ b.commit = a.commit /\ b.sha = a.sha /\ b.kind = a.kind
            <4>1. /\ b.at = "ready" /\ b.plan = plan /\ b.mains = {main}
                  /\ b.run = a.run /\ b.commit = a.commit /\ b.sha = a.sha /\ b.kind = a.kind
                BY <1>1 DEF ApplyRecord
            <4>2. [a EXCEPT !.at = "ready"] \in ApplyRecord
                BY <1>1, ApplyMoves DEF Steps
            <4>3. b \in ApplyRecord
                BY <1>1, <3>1, <4>2 DEF ApplyRecord, Steps
            <4>4. QED
                BY <4>1, <4>3
        <3> HIDE DEF b
        <3>3. a.at = "verified"
            BY <1>6 DEF Prepare, Turn
        <3>4. JobHolds(b, runs, blobs, main)
            BY <1>1, <2>1, <2>2, <3>2, <3>3 DEF JobHolds
        <3>5. OneApplyMoves(j, b)
            BY <1>1, <2>2, <3>2, ApplyReplaced DEF b
        <3>6. QED
            BY <1>2, <3>2, <3>4, <3>5, ApplySideStep
    <2>3. QED
        BY <1>4, <2>1, <2>2
<1>7. CASE VerifyMain(j)
    <2>1. a.at = "ready"
        BY <1>7 DEF VerifyMain, Turn
    <2>2. CASE Becomes(j, "checked") /\ MainUnmoved(a)
        <3>1. JobHolds([a EXCEPT !.at = "checked"], runs, blobs, main)
            BY <1>1, <2>1, <2>2, ApplyMoves DEF JobHolds, MainUnmoved, Steps
        <3>2. QED
            BY <1>3, <2>2, <3>1 DEF Steps
    <2>3. QED
        BY <1>4, <1>7, <2>2 DEF VerifyMain
<1>8. CASE ApplyBegins(j)
    <2>1. a.at = "checked"
        BY <1>8 DEF ApplyBegins, Turn
    <2>2. ASSUME NEW step \in {"applied", "applying"}
          PROVE  JobHolds([a EXCEPT !.at = step], runs, blobs, main)
        BY <1>1, <2>1, ApplyMoves DEF JobHolds, Steps
    <2>3. \E step \in {"refused", "applied", "applying"} : Becomes(j, step)
        BY <1>8 DEF ApplyBegins
    <2>4. QED
        BY <1>3, <1>4, <2>2, <2>3 DEF Steps
<1>9. CASE ApplyEnds(j)
    <2>1. a.at = "applying" /\ Becomes(j, "applied")
        BY <1>9 DEF ApplyEnds, Turn
    <2>2. JobHolds([a EXCEPT !.at = "applied"], runs, blobs, main)
        BY <1>1, <2>1, ApplyMoves DEF JobHolds, Steps
    <2>3. QED
        BY <1>3, <2>1, <2>2 DEF Steps
<1>10. CASE ApplyStepFails(j)
    BY <1>4, <1>10 DEF ApplyStepFails
<1>11. QED
    BY <1>5, <1>6, <1>7, <1>8, <1>9, <1>10

-----------------------------------------------------------------------------
\* Every step of the workflows keeps the chain, and no night touches it.
LEMMA StepKeepsReview ==
    ASSUME ReviewInv, [Next]_vars
    PROVE  ReviewInv'
<1>1. CASE UNCHANGED <<main, serial, runs, blobs, applies>>
    BY <1>1 DEF ReviewInv, RecordsInv, BlobInv, JobInv
<1>2. CASE StartJob \/ Nightly \/ UNCHANGED vars
    BY <1>1, <1>2 DEF StartJob, Nightly, vars, custody
<1>3. CASE CustodyNext
    BY <1>2, <1>3, MainMovesKeeps, DispatchPlanKeeps, DispatchApplyKeeps, RerunKeeps,
        SavePlanKeeps, PlanRunKeeps, ApplyJobKeeps DEF CustodyNext
<1>4. QED
    BY <1>2, <1>3 DEF Next, Custody

\* The chain makes an application one of what was reviewed.
LEMMA ReviewSuffices ==
    ASSUME ReviewInv
    PROVE  AppliedAsReviewed
<1> SUFFICES ASSUME NEW j \in DOMAIN applies, applies[j].at \in {"applying", "applied"}
             PROVE  /\ applies[j].plan.kind = applies[j].kind
                    /\ <<applies[j].plan.run, applies[j].plan.attempt, applies[j].plan.commit>>
                         = <<applies[j].run, applies[j].sha, applies[j].commit>>
                    /\ applies[j].commit \in applies[j].mains
    BY DEF AppliedAsReviewed
<1>1. JobHolds(applies[j], runs, blobs, main)
    BY DEF ReviewInv, JobInv
<1>2. applies[j].plan \in blobs
    BY <1>1 DEF JobHolds
<1>3. BlobHolds(applies[j].plan, runs, serial)
    BY <1>2 DEF ReviewInv, BlobInv
<1>4. QED
    BY <1>1, <1>3 DEF JobHolds, BlobHolds

\* Whatever is queued, repeated, cancelled or broken off, and however main
\* moves: what changes the lab is the approved plan of the approved kind, of a
\* commit that main stood at after the job was ready.
THEOREM AsReviewed == Spec => []AppliedAsReviewed
<1>1. Init => ReviewInv
    <2> SUFFICES ASSUME Init PROVE ReviewInv
        OBVIOUS
    <2>1. runs = <<>> /\ applies = <<>> /\ blobs = {} /\ main = 0 /\ serial = 0
        BY DEF Init, CustodyInit
    <2>2. RecordsInv
        BY <2>1, EmptySeq DEF RecordsInv
    <2>3. QED
        BY <2>1, <2>2 DEF ReviewInv, BlobInv, JobInv
<1>2. ReviewInv /\ [Next]_vars => ReviewInv'
    BY StepKeepsReview
<1>3. ReviewInv => AppliedAsReviewed
    BY ReviewSuffices
<1>4. QED
    BY <1>1, <1>2, <1>3, PTL DEF Spec

-----------------------------------------------------------------------------
(* The nights *)

Unfinished == {"idle", "public", "login", "group", "zone", "azure", "list", "report"}
Finished == {"last", "green", "red"}

NightTypes ==
    /\ lab \in Labs
    /\ at \in [Night -> Unfinished \cup Finished]
    /\ public \in [Night -> {"none", "0", "1", "2"}] /\ azure \in [Night -> {"none", "0", "1", "2"}]
    /\ login \in [Night -> {"none", "success", "failure"}]
    /\ zone \in [Night -> {"none", "success", "failure"}]
    /\ report \in [Night -> {"none", "success", "failure"}]
    /\ present \in [Night -> BOOLEAN] /\ found \in [Night -> BOOLEAN]
    /\ issues \in Nat
    /\ labSeen \in [Night -> {"none", "down", "half", "up"}]
    /\ disturbed \subseteq Night /\ overlapped \in BOOLEAN

\* What a night has found out when it is at a step.
FoundSoFar(n) ==
    /\ at[n] \in {"idle", "public", "login", "group", "zone", "azure"} => azure[n] = "none"
    /\ at[n] \in {"login", "group", "zone", "azure"} => public[n] \in {"0", "2"}
    /\ at[n] \in Unfinished => report[n] = "none"
    /\ at[n] \in {"list", "report"} \cup Finished =>
          /\ public[n] # "none"
          /\ \/ azure[n] # "none" \/ public[n] = "1" \/ login[n] = "failure"
             \/ zone[n] = "failure" \/ labSeen[n] \in {"down", "half"}
    /\ at[n] \in Finished /\ (public[n] = "2" \/ azure[n] = "2") => report[n] # "none"
    /\ azure[n] # "none" \/ at[n] = "azure" => present[n]

\* Whatever will make a night red has disturbed it, and the zone it is about to
\* check is there unless the lab has changed since.
RedIsDisturbed(n) ==
    /\ \/ public[n] = "1" \/ login[n] = "failure" \/ zone[n] = "failure" \/ azure[n] = "1"
       \/ report[n] = "failure" \/ at[n] = "red"
       => n \in disturbed
    /\ at[n] = "azure" => lab = "up" \/ n \in disturbed
    /\ at[n] = "green" => /\ public[n] # "1" /\ login[n] # "failure" /\ zone[n] # "failure"
                          /\ azure[n] # "1" /\ report[n] # "failure"

NightInv == NightTypes /\ \A n \in Night : FoundSoFar(n) /\ RedIsDisturbed(n)

\* While one night runs at a time, one that is about to open an issue has seen
\* that there is none.
IssueInv ==
    ~overlapped =>
        /\ issues <= 1
        /\ \A m, n \in Night : at[m] \notin Drift!Over /\ at[n] \notin Drift!Over => m = n
        /\ \A n \in Night : at[n] = "report" /\ ~found[n] => issues = 0

\* A step of one night leaves the others as they are.
OneNightMoves(n) ==
    /\ lab' = lab /\ disturbed \subseteq disturbed'
    /\ \A m \in Night \ {n} :
          /\ at'[m] = at[m] /\ public'[m] = public[m] /\ login'[m] = login[m]
          /\ zone'[m] = zone[m] /\ present'[m] = present[m] /\ azure'[m] = azure[m]
          /\ report'[m] = report[m] /\ found'[m] = found[m] /\ labSeen'[m] = labSeen[m]

LEMMA OneNightStep ==
    ASSUME NightInv, NEW n \in Night, OneNightMoves(n), NightTypes',
           FoundSoFar(n)', RedIsDisturbed(n)'
    PROVE  NightInv'
<1> SUFFICES ASSUME NEW m \in Night
             PROVE  (FoundSoFar(m) /\ RedIsDisturbed(m))'
    BY DEF NightInv
<1>1. CASE m = n
    BY <1>1
<1>2. CASE m # n
    <2>1. FoundSoFar(m) /\ RedIsDisturbed(m)
        BY DEF NightInv
    <2>2. m \in Night \ {n}
        BY <1>2
    <2>3. FoundSoFar(m)'
        BY <2>1, <2>2 DEF FoundSoFar, OneNightMoves
    <2>4. RedIsDisturbed(m)'
        BY <2>1, <2>2 DEF RedIsDisturbed, OneNightMoves
    <2>5. QED
        BY <2>3, <2>4
<1>3. QED
    BY <1>1, <1>2

USE DEF NightTypes, Unfinished, Finished

\* Each step of a night, from what it has found out so far.
LEMMA NightMoves ==
    ASSUME NightInv, NEW n \in Night,
           \/ Drift!Start(n) \/ Drift!CheckPublic(n) \/ Drift!Login(n)
           \/ Drift!ProbeFails(n) \/ Drift!ProbeGroup(n) \/ Drift!ListZones(n) \/ Drift!GroupGone(n)
           \/ Drift!CheckAzure(n) \/ Drift!NothingToReport(n) \/ Drift!ListIssues(n)
           \/ Drift!ReportDrift(n) \/ Drift!ReportFails(n) \/ Drift!LastStep(n)
    PROVE  NightInv'
<1> USE DEF NightInv, OneNightMoves, Drift!Step, Drift!Disturbs, Drift!steps, Drift!ghosts,
            Drift!Codes, Drift!Outcomes, Drift!Drifted
<1>1. NightTypes /\ FoundSoFar(n) /\ RedIsDisturbed(n)
    OBVIOUS
<1>2. CASE Drift!Start(n)
    <2>1. NightTypes' /\ OneNightMoves(n)
        BY <1>2 DEF Drift!Start
    <2>2. FoundSoFar(n)' /\ RedIsDisturbed(n)'
        BY <1>1, <1>2 DEF Drift!Start, FoundSoFar, RedIsDisturbed
    <2>3. QED
        BY <2>1, <2>2, OneNightStep
<1>3. CASE Drift!CheckPublic(n)
    <2>1. NightTypes' /\ OneNightMoves(n)
        BY <1>3 DEF Drift!CheckPublic
    <2>2. FoundSoFar(n)' /\ RedIsDisturbed(n)'
        BY <1>1, <1>3 DEF Drift!CheckPublic, FoundSoFar, RedIsDisturbed
    <2>3. QED
        BY <2>1, <2>2, OneNightStep
<1>4. CASE Drift!Login(n)
    <2>1. NightTypes' /\ OneNightMoves(n)
        BY <1>4 DEF Drift!Login
    <2>2. FoundSoFar(n)' /\ RedIsDisturbed(n)'
        BY <1>1, <1>4 DEF Drift!Login, FoundSoFar, RedIsDisturbed
    <2>3. QED
        BY <2>1, <2>2, OneNightStep
<1>5. CASE Drift!ProbeFails(n)
    <2>1. NightTypes' /\ OneNightMoves(n)
        BY <1>5 DEF Drift!ProbeFails
    <2>2. FoundSoFar(n)' /\ RedIsDisturbed(n)'
        BY <1>1, <1>5 DEF Drift!ProbeFails, FoundSoFar, RedIsDisturbed
    <2>3. QED
        BY <2>1, <2>2, OneNightStep
<1>6. CASE at[n] = "group" /\ lab # "down" /\ at' = [at EXCEPT ![n] = "zone"]
           /\ UNCHANGED <<lab, public, login, zone, present, azure, report, found, issues,
                          labSeen, disturbed, overlapped>>
    <2>1. NightTypes' /\ OneNightMoves(n)
        BY <1>6
    <2>2. FoundSoFar(n)' /\ RedIsDisturbed(n)'
        BY <1>1, <1>6 DEF FoundSoFar, RedIsDisturbed
    <2>3. QED
        BY <2>1, <2>2, OneNightStep
<1>7. ASSUME at[n] \in {"group", "zone"}, NEW answer \in BOOLEAN, Drift!Probed(n, answer),
             answer <=> lab = "up"
      PROVE  NightInv'
    <2>1. NightTypes' /\ OneNightMoves(n)
        BY <1>7 DEF Drift!Probed, Labs
    <2>2. FoundSoFar(n)' /\ RedIsDisturbed(n)'
        BY <1>1, <1>7 DEF Drift!Probed, FoundSoFar, RedIsDisturbed, Labs
    <2>3. QED
        BY <2>1, <2>2, OneNightStep
<1>8. CASE Drift!CheckAzure(n)
    <2>1. NightTypes' /\ OneNightMoves(n)
        BY <1>8 DEF Drift!CheckAzure
    <2>2. FoundSoFar(n)' /\ RedIsDisturbed(n)'
        BY <1>1, <1>8 DEF Drift!CheckAzure, FoundSoFar, RedIsDisturbed
    <2>3. QED
        BY <2>1, <2>2, OneNightStep
<1>9. CASE Drift!NothingToReport(n)
    <2>1. NightTypes' /\ OneNightMoves(n)
        BY <1>9 DEF Drift!NothingToReport
    <2>2. FoundSoFar(n)' /\ RedIsDisturbed(n)'
        BY <1>1, <1>9 DEF Drift!NothingToReport, FoundSoFar, RedIsDisturbed
    <2>3. QED
        BY <2>1, <2>2, OneNightStep
<1>10. CASE Drift!ListIssues(n)
    <2>1. NightTypes' /\ OneNightMoves(n)
        BY <1>10 DEF Drift!ListIssues
    <2>2. FoundSoFar(n)' /\ RedIsDisturbed(n)'
        BY <1>1, <1>10 DEF Drift!ListIssues, FoundSoFar, RedIsDisturbed
    <2>3. QED
        BY <2>1, <2>2, OneNightStep
<1>11. CASE Drift!ReportDrift(n)
    <2>1. NightTypes' /\ OneNightMoves(n)
        BY <1>11 DEF Drift!ReportDrift
    <2>2. FoundSoFar(n)' /\ RedIsDisturbed(n)'
        BY <1>1, <1>11 DEF Drift!ReportDrift, FoundSoFar, RedIsDisturbed
    <2>3. QED
        BY <2>1, <2>2, OneNightStep
<1>12. CASE Drift!ReportFails(n)
    <2>1. NightTypes' /\ OneNightMoves(n)
        BY <1>12 DEF Drift!ReportFails
    <2>2. FoundSoFar(n)' /\ RedIsDisturbed(n)'
        BY <1>1, <1>12 DEF Drift!ReportFails, FoundSoFar, RedIsDisturbed
    <2>3. QED
        BY <2>1, <2>2, OneNightStep
<1>13. CASE Drift!LastStep(n)
    <2>1. NightTypes' /\ OneNightMoves(n)
        BY <1>13 DEF Drift!LastStep
    <2>2. FoundSoFar(n)' /\ RedIsDisturbed(n)'
        BY <1>1, <1>13 DEF Drift!LastStep, Drift!Unchecked, FoundSoFar, RedIsDisturbed
    <2>3. QED
        BY <2>1, <2>2, OneNightStep
<1>14. CASE Drift!ProbeGroup(n) \/ Drift!ListZones(n) \/ Drift!GroupGone(n)
    <2>1. CASE Drift!ProbeGroup(n)
        BY <1>6, <1>7, <2>1 DEF Drift!ProbeGroup
    <2>2. CASE Drift!ListZones(n)
        BY <1>7, <2>2 DEF Drift!ListZones
    <2>3. CASE Drift!GroupGone(n)
        BY <1>5, <2>3 DEF Drift!GroupGone
    <2>4. QED
        BY <1>14, <2>1, <2>2, <2>3
<1>15. QED
    BY <1>2, <1>3, <1>4, <1>5, <1>8, <1>9, <1>10, <1>11, <1>12, <1>13, <1>14

\* The nights keep what they have found out while the lab is built or destroyed.
LEMMA NightStep == NightInv /\ [Next]_vars => NightInv'
<1> SUFFICES ASSUME NightInv, [Next]_vars
             PROVE  NightInv'
    OBVIOUS
<1>1. CASE Custody
    <2>1. CASE lab' = lab
        <3>1. UNCHANGED nights /\ lab' = lab
            BY <1>1, <2>1 DEF Custody
        <3>2. QED
            BY <3>1 DEF NightInv, FoundSoFar, RedIsDisturbed, nights
    <2>2. CASE lab' # lab
        <3>1. Drift!LabMoves
            BY <1>1, <2>2 DEF Custody
        <3>2. lab' \in Labs
            <4>1. \E j \in DOMAIN applies : ApplyBegins(j) \/ ApplyEnds(j)
                BY <1>1, <2>2 DEF Custody, CustodyNext, StartJob, MainMoves, DispatchPlan,
                   DispatchApply, Rerun, SavePlan, UploadManifest, PlanStepFails, VerifyChain,
                   Prepare, VerifyMain, ApplyStepFails
            <4>2. QED
                BY <2>2, <4>1 DEF ApplyBegins, ApplyEnds, Target, Labs
        <3>3. UNCHANGED <<at, public, login, zone, present, azure, report, found, issues,
                          labSeen, overlapped>>
            BY <3>1 DEF Drift!LabMoves, Drift!steps
        <3>4. disturbed' = disturbed \cup {n \in Night : at[n] \notin {"idle", "green", "red"}}
            BY <3>1 DEF Drift!LabMoves, Drift!Running, Drift!Over
        <3>5. NightTypes'
            BY <3>2, <3>3, <3>4 DEF NightInv
        <3>6. \A n \in Night : FoundSoFar(n)'
            BY <3>3 DEF NightInv, FoundSoFar
        <3>7. \A n \in Night : RedIsDisturbed(n)'
            BY <3>3, <3>4 DEF NightInv, RedIsDisturbed
        <3>8. QED
            BY <3>5, <3>6, <3>7 DEF NightInv
    <2>3. QED
        BY <2>1, <2>2
<1>2. CASE Nightly
    <2>1. CASE Drift!IssueCloses
        <3>1. NightTypes'
            BY <2>1 DEF Drift!IssueCloses, Drift!steps, Drift!ghosts, NightInv
        <3>2. \A n \in Night : FoundSoFar(n)' /\ RedIsDisturbed(n)'
            BY <2>1 DEF Drift!IssueCloses, Drift!steps, Drift!ghosts, NightInv, FoundSoFar,
               RedIsDisturbed
        <3>3. QED
            BY <3>1, <3>2 DEF NightInv
    <2>2. QED
        BY <1>2, <2>1, NightMoves DEF Nightly, Drift!NightNext
<1>3. CASE UNCHANGED vars
    <2>1. UNCHANGED nights /\ lab' = lab
        BY <1>3 DEF vars, custody
    <2>2. QED
        BY <2>1 DEF NightInv, FoundSoFar, RedIsDisturbed, nights
<1>4. QED
    BY <1>1, <1>2, <1>3 DEF Next

LEMMA NightInvariant == Spec => []NightInv
<1>1. Init => NightInv
    <2> SUFFICES ASSUME Init PROVE NightInv
        OBVIOUS
    <2> USE DEF Init, CustodyInit, Drift!NightInit
    <2>1. lab \in Labs /\ at \in [Night -> Unfinished \cup Finished]
        BY DEF Labs
    <2>2. /\ public \in [Night -> {"none", "0", "1", "2"}]
          /\ azure \in [Night -> {"none", "0", "1", "2"}]
          /\ login \in [Night -> {"none", "success", "failure"}]
          /\ zone \in [Night -> {"none", "success", "failure"}]
          /\ report \in [Night -> {"none", "success", "failure"}]
        OBVIOUS
    <2>3. present \in [Night -> BOOLEAN] /\ found \in [Night -> BOOLEAN]
        OBVIOUS
    <2>4. /\ labSeen \in [Night -> {"none", "down", "half", "up"}]
          /\ issues \in Nat /\ disturbed \subseteq Night /\ overlapped \in BOOLEAN
        <3>1. labSeen \in [Night -> {"none", "down", "half", "up"}]
            OBVIOUS
        <3>2. issues \in Nat
            OBVIOUS
        <3>3. disturbed \subseteq Night
            OBVIOUS
        <3>4. overlapped \in BOOLEAN
            OBVIOUS
        <3>5. QED
            BY <3>1, <3>2, <3>3, <3>4
    <2>5. NightTypes
        BY <2>1, <2>2, <2>3, <2>4
    <2>6. \A n \in Night : FoundSoFar(n) /\ RedIsDisturbed(n)
        BY DEF FoundSoFar, RedIsDisturbed
    <2>7. QED
        BY <2>5, <2>6 DEF NightInv
<1>2. QED
    BY <1>1, NightStep, PTL DEF Spec

\* A green night looked at both edges, or the private zone was not there when it
\* was listed, and its drift was reported; a red one was disturbed: whatever
\* failed, however nights overlapped and the lab was built and destroyed meanwhile.
THEOREM TrueNights == Spec => []NightIsTrue
<1>1. NightInv => NightIsTrue
    <2> SUFFICES ASSUME NightInv, NEW n \in Night
                 PROVE  /\ at[n] = "green" =>
                              /\ public[n] \in {"0", "2"}
                              /\ azure[n] \in {"0", "2"} \/ labSeen[n] \in {"down", "half"}
                              /\ Drift!Drifted(n) => report[n] = "success"
                        /\ at[n] = "red" =>
                              /\ n \in disturbed
                              /\ Drift!Drifted(n) => report[n] \in Drift!Outcomes
        BY DEF NightIsTrue, Drift!NightIsTrue
    <2>1. NightTypes /\ FoundSoFar(n) /\ RedIsDisturbed(n)
        BY DEF NightInv
    <2>2. QED
        BY <2>1 DEF FoundSoFar, RedIsDisturbed, Drift!Drifted, Drift!Outcomes
<1>2. QED
    BY <1>1, NightInvariant, PTL

LEMMA IssueStep == NightInv /\ IssueInv /\ [Next]_vars => IssueInv'
<1> SUFFICES ASSUME NightInv, IssueInv, [Next]_vars, ~overlapped'
             PROVE  /\ issues' <= 1
                    /\ \A m, n \in Night :
                          at'[m] \notin Drift!Over /\ at'[n] \notin Drift!Over => m = n
                    /\ \A n \in Night : at'[n] = "report" /\ ~found'[n] => issues' = 0
    BY DEF IssueInv
<1> USE DEF Drift!Over
<1>1. NightTypes
    BY DEF NightInv
<1>2. ASSUME ~overlapped, issues' \in Nat, issues' <= issues, found' = found,
             \A n \in Night : \/ at'[n] = at[n]
                              \/ at[n] \notin Drift!Over /\ at'[n] # "report"
      PROVE  /\ issues' <= 1
             /\ \A m, n \in Night :
                   at'[m] \notin Drift!Over /\ at'[n] \notin Drift!Over => m = n
             /\ \A n \in Night : at'[n] = "report" /\ ~found'[n] => issues' = 0
    BY <1>1, <1>2 DEF IssueInv
<1>3. CASE Custody
    <2>1. UNCHANGED <<issues, found, at, overlapped>>
        BY <1>3 DEF Custody, nights, Drift!LabMoves, Drift!steps
    <2>2. QED
        BY <1>1, <1>2, <2>1
<1>4. CASE UNCHANGED vars
    <2>1. UNCHANGED <<issues, found, at, overlapped>>
        BY <1>4 DEF vars, nights
    <2>2. QED
        BY <1>1, <1>2, <2>1
<1>5. CASE Drift!IssueCloses
    <2>1. UNCHANGED <<found, at, overlapped>> /\ issues' = issues - 1 /\ issues > 0
        BY <1>5 DEF Drift!IssueCloses, Drift!steps, Drift!ghosts
    <2>2. QED
        BY <1>1, <1>2, <2>1
<1> USE DEF Drift!Step, Drift!steps, Drift!ghosts
<1>6. ASSUME NEW n \in Night, Drift!Start(n)
      PROVE  /\ issues' <= 1
             /\ \A m, o \in Night :
                   at'[m] \notin Drift!Over /\ at'[o] \notin Drift!Over => m = o
             /\ \A m \in Night : at'[m] = "report" /\ ~found'[m] => issues' = 0
    <2>1. /\ ~overlapped /\ \A m \in Night : at[m] \in Drift!Over
          /\ UNCHANGED <<issues, found>> /\ at' = [at EXCEPT ![n] = "public"]
        BY <1>1, <1>6 DEF Drift!Start, Drift!Running
    <2>2. QED
        BY <1>1, <2>1 DEF IssueInv
<1>7. ASSUME NEW n \in Night,
             \/ Drift!CheckPublic(n) \/ Drift!Login(n)
             \/ Drift!ProbeFails(n) \/ Drift!ProbeGroup(n) \/ Drift!ListZones(n) \/ Drift!GroupGone(n)
             \/ Drift!CheckAzure(n) \/ Drift!NothingToReport(n) \/ Drift!LastStep(n)
      PROVE  /\ ~overlapped /\ UNCHANGED <<issues, found>>
             /\ \A m \in Night : \/ at'[m] = at[m]
                                 \/ at[m] \notin Drift!Over /\ at'[m] # "report"
    <2>1. UNCHANGED <<issues, found, overlapped>>
        BY <1>7 DEF Drift!CheckPublic, Drift!Login, Drift!ProbeFails, Drift!ProbeGroup,
           Drift!ListZones, Drift!GroupGone, Drift!Probed, Drift!CheckAzure, Drift!NothingToReport,
           Drift!LastStep
    <2>2. \E step \in {"login", "group", "zone", "azure", "list", "last", "red", "green"} :
             at' = [at EXCEPT ![n] = step]
        BY <1>7 DEF Drift!CheckPublic, Drift!Login, Drift!ProbeFails, Drift!ProbeGroup,
           Drift!ListZones, Drift!GroupGone, Drift!Probed, Drift!CheckAzure, Drift!NothingToReport,
           Drift!LastStep
    <2>3. at[n] \notin Drift!Over
        BY <1>1, <1>7 DEF Drift!CheckPublic, Drift!Login, Drift!ProbeFails, Drift!ProbeGroup,
           Drift!ListZones, Drift!GroupGone, Drift!Probed, Drift!CheckAzure, Drift!NothingToReport,
           Drift!LastStep
    <2>4. QED
        BY <1>1, <2>1, <2>2, <2>3
<1>8. ASSUME NEW n \in Night, Drift!ListIssues(n)
      PROVE  /\ issues' <= 1
             /\ \A m, o \in Night :
                   at'[m] \notin Drift!Over /\ at'[o] \notin Drift!Over => m = o
             /\ \A m \in Night : at'[m] = "report" /\ ~found'[m] => issues' = 0
    <2>1. /\ ~overlapped /\ at[n] = "list" /\ at' = [at EXCEPT ![n] = "report"]
          /\ found' = [found EXCEPT ![n] = issues > 0] /\ issues' = issues
        BY <1>8 DEF Drift!ListIssues
    <2>2. found'[n] <=> issues > 0
        BY <1>1, <2>1
    <2>3. \A m \in Night \ {n} : at[m] \in Drift!Over /\ at'[m] = at[m]
        BY <1>1, <2>1 DEF IssueInv
    <2>4. issues' <= 1 /\ issues' \in Nat
        BY <1>1, <2>1 DEF IssueInv
    <2>5. \A m \in Night : at'[m] = "report" /\ ~found'[m] => issues' = 0
        BY <1>1, <2>1, <2>2, <2>3
    <2>6. \A m, o \in Night : at'[m] \notin Drift!Over /\ at'[o] \notin Drift!Over => m = o
        BY <2>3
    <2>7. QED
        BY <2>4, <2>5, <2>6
<1>9. ASSUME NEW n \in Night, Drift!ReportDrift(n) \/ Drift!ReportFails(n)
      PROVE  /\ issues' <= 1
             /\ \A m, o \in Night :
                   at'[m] \notin Drift!Over /\ at'[o] \notin Drift!Over => m = o
             /\ \A m \in Night : at'[m] = "report" /\ ~found'[m] => issues' = 0
    <2>1. /\ ~overlapped /\ at[n] \notin Drift!Over /\ at' = [at EXCEPT ![n] = "last"] /\ found' = found
          /\ issues' = issues \/ (at[n] = "report" /\ ~found[n] /\ issues' = issues + 1)
        BY <1>1, <1>9 DEF Drift!ReportDrift, Drift!ReportFails, Drift!NeedsIssue
    <2>2. issues' <= 1
        BY <1>1, <2>1 DEF IssueInv
    <2>3. \A m \in Night : at'[m] = "report" => FALSE
        BY <1>1, <2>1 DEF IssueInv
    <2>4. QED
        BY <1>1, <2>1, <2>2, <2>3 DEF IssueInv
<1>10. CASE Nightly
    BY <1>1, <1>2, <1>5, <1>6, <1>7, <1>8, <1>9, <1>10 DEF Nightly, Drift!NightNext
<1>11. QED
    BY <1>3, <1>4, <1>10 DEF Next

\* Unless two nights ran at once there is one open drift issue at most, whoever
\* closes issues and whatever a failed request left behind.
THEOREM OneIssue == Spec => []OneIssueUnlessOverlapped
<1>1. Init => IssueInv
    BY DEF Init, Drift!NightInit, Drift!Over, IssueInv
<1>2. NightInv /\ IssueInv => OneIssueUnlessOverlapped
    BY DEF NightInv, IssueInv, OneIssueUnlessOverlapped, Drift!OneIssueUnlessOverlapped
<1>3. QED
    BY <1>1, <1>2, NightInvariant, IssueStep, PTL DEF Spec

-----------------------------------------------------------------------------
(* The queue: what each run and each apply job is in the middle of *)

HIDE DEF NightTypes, Unfinished, Finished

Reason(a) ==
    \/ a.kind # runs[a.run].kind \/ main # a.commit
    \/ runs[a.run].attempt # a.sha \/ runs[a.run].hurt
    \/ \E plan \in blobs : plan.run = a.run /\ plan.attempt = a.sha /\ plan.base # serial

\* A run that is open, was cancelled, or failed without being hurt has saved no
\* plan at its attempt; one that succeeded has its manifest.
RunHolds(i) ==
    /\ running = Plan(i) => runs[i].at \in {"open", "saved"}
    /\ pending = Plan(i) => runs[i].at = "open"
    /\ runs[i].at = "saved" => running = Plan(i)
    /\ runs[i].hurt => runs[i].at = "failure"
    /\ runs[i].commit <= main /\ runs[i].attempt >= 1
    /\ manifest[i] \in 0..runs[i].attempt
    /\ runs[i].at = "success" => manifest[i] = runs[i].attempt
    /\ runs[i].at \in {"open", "cancelled"} \/ (runs[i].at = "failure" /\ ~runs[i].hurt) =>
          \A plan \in blobs : plan.run = i => plan.attempt # runs[i].attempt

\* While a verified job runs, its run's artifact holds the manifest it approved.
TurnHolds(j) ==
    /\ running = Apply(j) => applies[j].at \in {"open", "verified", "ready", "checked", "applying"}
    /\ pending = Apply(j) => applies[j].at = "open"
    /\ applies[j].at = "verified" =>
          running = Apply(j) /\ manifest[applies[j].run] = applies[j].sha
    /\ applies[j].sha <= runs[applies[j].run].attempt
    /\ applies[j].plan \in blobs /\ applies[j].plan.run = applies[j].run
    /\ applies[j].plan.attempt = applies[j].sha
    /\ applies[j].at = "refused" => Reason(applies[j])

KnownJob(job) ==
    \/ job = NoJob
    \/ \E i \in DOMAIN runs : job = Plan(i)
    \/ \E j \in DOMAIN applies : job = Apply(j)

QueueInv ==
    /\ KnownJob(running) /\ KnownJob(pending)
    /\ running # NoJob => running # pending
    /\ manifest \in Seq(Nat) /\ Len(manifest) = Len(runs)
    /\ \A i \in DOMAIN runs : RunHolds(i)
    /\ \A j \in DOMAIN applies : TurnHolds(j)

LEMMA JobsDiffer ==
    \A i, k \in Nat : /\ Plan(i) = Plan(k) <=> i = k
                      /\ Apply(i) = Apply(k) <=> i = k
                      /\ Plan(i) # Apply(k) /\ NoJob # Plan(i) /\ NoJob # Apply(i)
BY DEF Plan, Apply

\* The types of what the invariant speaks of.
LEMMA CustodyTyped ==
    ASSUME ReviewInv
    PROVE  /\ main \in Nat /\ serial \in Nat
           /\ DOMAIN runs = 1..Len(runs) /\ Len(runs) \in Nat
           /\ DOMAIN applies = 1..Len(applies) /\ Len(applies) \in Nat
           /\ \A i \in DOMAIN runs :
                 /\ i \in Nat /\ runs[i].attempt \in Nat /\ runs[i].commit \in Nat
                 /\ runs[i].hurt \in BOOLEAN /\ runs[i].kind \in Kinds
                 /\ runs[i].at \in {"open", "saved", "success", "failure", "cancelled"}
           /\ \A j \in DOMAIN applies :
                 /\ j \in Nat /\ applies[j] \in ApplyRecord /\ applies[j].at \in Steps
                 /\ applies[j].sha \in Nat /\ applies[j].commit \in Nat
                 /\ applies[j].run \in DOMAIN runs
                 /\ applies[j].commit = runs[applies[j].run].commit
           /\ \A plan \in blobs :
                 /\ plan.attempt \in Nat /\ plan.base \in Nat /\ plan.run \in DOMAIN runs
                 /\ plan.attempt <= runs[plan.run].attempt /\ plan.base <= serial
<1>1. RecordsInv /\ BlobInv /\ JobInv
    BY DEF ReviewInv
<1>2. /\ DOMAIN runs = 1..Len(runs) /\ Len(runs) \in Nat
      /\ DOMAIN applies = 1..Len(applies) /\ Len(applies) \in Nat
    BY <1>1, LenProperties DEF RecordsInv
<1>3. ASSUME NEW i \in DOMAIN runs
      PROVE  /\ i \in Nat /\ runs[i].attempt \in Nat /\ runs[i].commit \in Nat
             /\ runs[i].hurt \in BOOLEAN /\ runs[i].kind \in Kinds
             /\ runs[i].at \in {"open", "saved", "success", "failure", "cancelled"}
    <2>1. runs[i] \in RunRecord /\ i \in Nat
        BY <1>1, <1>2 DEF RecordsInv
    <2>2. QED
        BY <2>1 DEF RunRecord
<1>4. ASSUME NEW j \in DOMAIN applies
      PROVE  /\ j \in Nat /\ applies[j] \in ApplyRecord /\ applies[j].at \in Steps
             /\ applies[j].sha \in Nat /\ applies[j].commit \in Nat
             /\ applies[j].run \in DOMAIN runs
             /\ applies[j].commit = runs[applies[j].run].commit
    <2>1. applies[j] \in ApplyRecord /\ j \in Nat /\ JobHolds(applies[j], runs, blobs, main)
        BY <1>1, <1>2 DEF RecordsInv, JobInv
    <2>2. QED
        BY <2>1 DEF ApplyRecord, JobHolds
<1>5. ASSUME NEW plan \in blobs
      PROVE  /\ plan.attempt \in Nat /\ plan.base \in Nat /\ plan.run \in DOMAIN runs
             /\ plan.attempt <= runs[plan.run].attempt /\ plan.base <= serial
    <2>1. plan \in PlanRecord /\ BlobHolds(plan, runs, serial)
        BY <1>1 DEF RecordsInv, BlobInv
    <2>2. QED
        BY <2>1 DEF PlanRecord, BlobHolds
<1>6. main \in Nat /\ serial \in Nat
    BY <1>1 DEF RecordsInv
<1>7. QED
    BY <1>2, <1>3, <1>4, <1>5, <1>6

\* What a cancellation does to one apply job.
LEMMA CancelledApply ==
    ASSUME NEW as \in Seq(ApplyRecord), NEW job
    PROVE  \A j \in DOMAIN as :
              LET a == CancelApply(as, job)[j]
              IN  /\ a.kind = as[j].kind /\ a.run = as[j].run /\ a.commit = as[j].commit
                  /\ a.sha = as[j].sha /\ a.plan = as[j].plan
                  /\ a.at = IF job = Apply(j) THEN "cancelled" ELSE as[j].at
<1>1. /\ DOMAIN as = 1..Len(as) /\ Len(as) \in Nat
      /\ \A j \in DOMAIN as : as[j] \in ApplyRecord
    OBVIOUS
<1>2. \A j \in DOMAIN as :
         CancelApply(as, job)[j] = IF job = Apply(j) THEN [as[j] EXCEPT !.at = "cancelled"] ELSE as[j]
    BY DEF CancelApply
<1>3. SUFFICES ASSUME NEW j \in DOMAIN as
               PROVE  LET a == CancelApply(as, job)[j]
                      IN  /\ a.kind = as[j].kind /\ a.run = as[j].run /\ a.commit = as[j].commit
                          /\ a.sha = as[j].sha /\ a.plan = as[j].plan
                          /\ a.at = IF job = Apply(j) THEN "cancelled" ELSE as[j].at
    OBVIOUS
<1>4. as[j] \in ApplyRecord /\ "cancelled" \in Steps
    BY <1>1 DEF Steps
<1>5. CASE job = Apply(j)
    <2> DEFINE b == [as[j] EXCEPT !.at = "cancelled"]
    <2>1. /\ b.kind = as[j].kind /\ b.run = as[j].run /\ b.commit = as[j].commit
          /\ b.sha = as[j].sha /\ b.plan = as[j].plan /\ b.at = "cancelled"
        BY <1>4, ApplyMoves
    <2>2. CancelApply(as, job)[j] = b
        BY <1>2, <1>5
    <2> HIDE DEF b
    <2>3. QED
        BY <1>5, <2>1, <2>2
<1>6. CASE job # Apply(j)
    BY <1>2, <1>6
<1>7. QED
    BY <1>5, <1>6

\* Main, the state, the container and the runs only move onward.
Onward ==
    /\ main' \in Nat /\ main <= main' /\ serial' \in Nat /\ serial <= serial'
    /\ blobs \subseteq blobs'
    /\ \A i \in DOMAIN runs :
          /\ runs'[i].kind = runs[i].kind /\ runs'[i].commit = runs[i].commit
          /\ runs'[i].attempt \in Nat /\ runs[i].attempt <= runs'[i].attempt
          /\ runs'[i].attempt = runs[i].attempt /\ runs[i].hurt => runs'[i].hurt

\* A reason to refuse an approved plan does not go away.
LEMMA ReasonStands ==
    ASSUME ReviewInv, Onward, NEW a, a.run \in DOMAIN runs, a.sha \in Nat, a.commit \in Nat,
           a.sha <= runs[a.run].attempt, a.commit <= main, Reason(a)
    PROVE  Reason(a)'
<1>1. /\ main \in Nat /\ serial \in Nat /\ runs[a.run].attempt \in Nat
      /\ \A plan \in blobs : plan.base \in Nat /\ plan.base <= serial
    BY CustodyTyped
<1>2. CASE a.kind # runs[a.run].kind
    BY <1>2 DEF Reason, Onward
<1>3. CASE main # a.commit
    BY <1>1, <1>3 DEF Reason, Onward
<1>4. CASE runs[a.run].attempt # a.sha
    BY <1>1, <1>4 DEF Reason, Onward
<1>5. CASE runs[a.run].hurt /\ runs[a.run].attempt = a.sha
    BY <1>1, <1>5 DEF Reason, Onward
<1>6. CASE \E plan \in blobs : plan.run = a.run /\ plan.attempt = a.sha /\ plan.base # serial
    BY <1>1, <1>6 DEF Reason, Onward
<1>7. QED
    BY <1>2, <1>3, <1>4, <1>5, <1>6 DEF Reason

\* A job that is left alone, cancelled or broken off.
LEMMA TurnStands ==
    ASSUME ReviewInv, QueueInv, Onward, NEW j \in DOMAIN applies,
           /\ applies'[j].kind = applies[j].kind /\ applies'[j].run = applies[j].run
           /\ applies'[j].commit = applies[j].commit /\ applies'[j].sha = applies[j].sha
           /\ applies'[j].plan = applies[j].plan,
           \/ /\ applies'[j].at = applies[j].at
              /\ running' = Apply(j) => running = Apply(j) \/ pending = Apply(j)
              /\ pending' = Apply(j) => pending = Apply(j)
              /\ applies[j].at = "verified" =>
                    running' = running /\ manifest'[applies[j].run] = manifest[applies[j].run]
           \/ /\ applies'[j].at \in {"cancelled", "broken"}
              /\ running' # Apply(j) /\ pending' # Apply(j)
    PROVE  TurnHolds(j)'
<1>1. TurnHolds(j)
    BY DEF QueueInv
<1>2. /\ applies[j].run \in DOMAIN runs /\ applies[j].sha \in Nat /\ applies[j].commit \in Nat
      /\ runs[applies[j].run].attempt \in Nat /\ applies[j].commit <= main
    BY CustodyTyped DEF QueueInv, RunHolds
<1>3. applies[j].at = "refused" => Reason(applies[j])'
    <2> DEFINE a == applies[j]
    <2>1. ASSUME NEW b, b = a, Reason(b)
          PROVE  Reason(b)'
        BY <1>1, <1>2, <2>1, ReasonStands DEF TurnHolds
    <2>2. Reason(a) => /\ applies'[j].kind # runs'[applies'[j].run].kind \/ main' # applies'[j].commit
                          \/ runs'[applies'[j].run].attempt # applies'[j].sha
                          \/ runs'[applies'[j].run].hurt
                          \/ \E plan \in blobs' : /\ plan.run = applies'[j].run
                                                  /\ plan.attempt = applies'[j].sha
                                                  /\ plan.base # serial'
        BY <2>1 DEF Reason
    <2>3. QED
        BY <1>1, <2>2 DEF TurnHolds, Reason
<1>4. QED
    BY <1>1, <1>2, <1>3 DEF TurnHolds, Onward

\* A run that is left alone, or cancelled while it waits.
LEMMA RunStands ==
    ASSUME ReviewInv, QueueInv, Onward, NEW i \in DOMAIN runs,
           /\ runs'[i].commit = runs[i].commit /\ runs'[i].attempt = runs[i].attempt
           /\ runs'[i].hurt = runs[i].hurt /\ manifest'[i] = manifest[i],
           \A plan \in blobs' \ blobs : plan.run # i,
           \/ /\ runs'[i].at = runs[i].at
              /\ running' = Plan(i) => running = Plan(i) \/ pending = Plan(i)
              /\ pending' = Plan(i) => pending = Plan(i)
              /\ runs[i].at = "saved" => running' = running
           \/ /\ runs[i].at = "open" /\ runs'[i].at = "cancelled"
              /\ running' # Plan(i) /\ pending' # Plan(i)
    PROVE  RunHolds(i)'
<1>1. RunHolds(i) /\ runs[i].attempt \in Nat /\ runs[i].commit \in Nat /\ main \in Nat
    BY CustodyTyped DEF QueueInv
<1>2. QED
    BY <1>1 DEF RunHolds, Onward

\* Whoever waits is cancelled and another takes his place.
LEMMA Cancels ==
    ASSUME ReviewInv, QueueInv
    PROVE  /\ DOMAIN Cancel(runs, pending) = DOMAIN runs
           /\ Len(Cancel(runs, pending)) = Len(runs)
           /\ Cancel(runs, pending) \in Seq(RunRecord)
           /\ DOMAIN CancelApply(applies, pending) = DOMAIN applies
           /\ Len(CancelApply(applies, pending)) = Len(applies)
           /\ CancelApply(applies, pending) \in Seq(ApplyRecord)
           /\ \A i \in DOMAIN runs :
                 LET r == Cancel(runs, pending)[i]
                 IN  /\ r.kind = runs[i].kind /\ r.commit = runs[i].commit
                     /\ r.attempt = runs[i].attempt /\ r.hurt = runs[i].hurt
                     /\ \/ pending # Plan(i) /\ r.at = runs[i].at
                        \/ /\ pending = Plan(i) /\ running # Plan(i)
                           /\ runs[i].at = "open" /\ r.at = "cancelled"
           /\ \A j \in DOMAIN applies :
                 LET a == CancelApply(applies, pending)[j]
                 IN  /\ a.kind = applies[j].kind /\ a.run = applies[j].run
                     /\ a.commit = applies[j].commit /\ a.sha = applies[j].sha
                     /\ a.plan = applies[j].plan
                     /\ \/ pending # Apply(j) /\ a.at = applies[j].at
                        \/ pending = Apply(j) /\ running # Apply(j) /\ a.at = "cancelled"
<1>1. runs \in Seq(RunRecord) /\ applies \in Seq(ApplyRecord)
    BY DEF ReviewInv, RecordsInv
<1>2. \A i \in DOMAIN runs : i \in Nat /\ NoJob # Plan(i)
    BY CustodyTyped, JobsDiffer
<1>3. \A j \in DOMAIN applies : j \in Nat /\ NoJob # Apply(j)
    BY CustodyTyped, JobsDiffer
<1>4. ASSUME NEW i \in DOMAIN runs, pending = Plan(i)
      PROVE  running # Plan(i) /\ runs[i].at = "open"
    BY <1>2, <1>4 DEF QueueInv, RunHolds
<1>5. ASSUME NEW j \in DOMAIN applies, pending = Apply(j)
      PROVE  running # Apply(j)
    BY <1>3, <1>5 DEF QueueInv
<1>6. QED
    BY <1>1, <1>4, <1>5, CancelKeeps, CancelApplyKeeps, CancelledApply

\* The job that waited runs, and nothing waits.
LEMMA StartJobQueues ==
    ASSUME ReviewInv, QueueInv, StartJob
    PROVE  QueueInv'
<1>1. /\ running = NoJob /\ pending # NoJob /\ running' = pending /\ pending' = NoJob
      /\ UNCHANGED <<main, serial, runs, blobs, manifest, applies>>
    BY DEF StartJob
<1>2. /\ \A i \in DOMAIN runs : NoJob # Plan(i) /\ runs[i].attempt \in Nat
      /\ \A j \in DOMAIN applies : NoJob # Apply(j)
      /\ main \in Nat /\ serial \in Nat
    BY CustodyTyped, JobsDiffer
<1>3. Onward
    BY <1>1, <1>2 DEF Onward
<1>4. ASSUME NEW i \in DOMAIN runs
      PROVE  RunHolds(i)'
    <2>1. runs[i].at # "saved"
        BY <1>1, <1>2 DEF QueueInv, RunHolds
    <2>2. QED
        BY <1>1, <1>2, <1>3, <2>1, RunStands
<1>5. ASSUME NEW j \in DOMAIN applies
      PROVE  TurnHolds(j)'
    <2>1. applies[j].at # "verified"
        BY <1>1, <1>2 DEF QueueInv, TurnHolds
    <2>2. QED
        BY <1>1, <1>2, <1>3, <2>1, TurnStands
<1>6. KnownJob(running)' /\ KnownJob(pending)'
    BY <1>1 DEF QueueInv, KnownJob
<1>7. QED
    BY <1>1, <1>4, <1>5, <1>6 DEF QueueInv

\* Main moves: no job changes but for the commits the ready ones have seen.
LEMMA MainMovesQueues ==
    ASSUME ReviewInv, ReviewInv', QueueInv, MainMoves
    PROVE  QueueInv'
<1>1. /\ main' = main + 1 /\ UNCHANGED <<serial, running, pending, runs, blobs, manifest>>
    BY DEF MainMoves
<1>2. /\ \A i \in DOMAIN runs : runs[i].attempt \in Nat
      /\ main \in Nat /\ serial \in Nat
      /\ \A j \in DOMAIN applies : applies[j] \in ApplyRecord
    BY CustodyTyped
<1>3. Onward
    BY <1>1, <1>2 DEF Onward
<1>4. ASSUME NEW i \in DOMAIN runs
      PROVE  RunHolds(i)'
    BY <1>1, <1>3, RunStands
<1>5. DOMAIN applies' = DOMAIN applies
    BY DEF MainMoves
<1>6. ASSUME NEW j \in DOMAIN applies
      PROVE  TurnHolds(j)'
    <2> DEFINE m == IF applies[j].at = "ready" THEN applies[j].mains \cup {main'}
                    ELSE applies[j].mains
    <2>1. applies'[j] = [applies[j] EXCEPT !.mains = m]
        BY DEF MainMoves
    <2> HIDE DEF m
    <2>2. /\ applies'[j].kind = applies[j].kind /\ applies'[j].run = applies[j].run
          /\ applies'[j].commit = applies[j].commit /\ applies'[j].sha = applies[j].sha
          /\ applies'[j].plan = applies[j].plan /\ applies'[j].at = applies[j].at
        BY <1>2, <2>1 DEF ApplyRecord
    <2>3. QED
        BY <1>1, <1>3, <2>2, TurnStands
<1>7. KnownJob(running)' /\ KnownJob(pending)'
    BY <1>1, <1>5 DEF QueueInv, KnownJob
<1>8. QED
    BY <1>1, <1>4, <1>5, <1>6, <1>7 DEF QueueInv

\* A run is dispatched: it waits in the place of the job that waited.
LEMMA DispatchPlanQueues ==
    ASSUME ReviewInv, ReviewInv', QueueInv, NEW kind \in Kinds, DispatchPlan(kind)
    PROVE  QueueInv'
<1> SUFFICES ASSUME NEW n, n = Len(runs) + 1
             PROVE  QueueInv'
    OBVIOUS
<1> DEFINE cs == Cancel(runs, pending)
           r == [kind |-> kind, commit |-> main, attempt |-> 1, at |-> "open", hurt |-> FALSE]
<1>1. /\ applies' = CancelApply(applies, pending) /\ runs' = Append(cs, r)
      /\ manifest' = Append(manifest, 0) /\ pending' = Plan(Len(runs'))
      /\ UNCHANGED <<main, serial, running, blobs>>
    BY DEF DispatchPlan
<1>2. /\ r.kind = kind /\ r.commit = main /\ r.attempt = 1 /\ r.at = "open" /\ r.hurt = FALSE
      /\ r \in RunRecord
    BY CustodyTyped DEF RunRecord
<1>3. /\ main \in Nat /\ serial \in Nat /\ Len(runs) \in Nat /\ DOMAIN runs = 1..Len(runs)
      /\ n \in Nat /\ n \notin DOMAIN runs
      /\ \A i \in DOMAIN runs : i \in Nat /\ runs[i].attempt \in Nat
      /\ \A j \in DOMAIN applies : j \in Nat
    BY CustodyTyped
<1>4. cs \in Seq(RunRecord) /\ Len(cs) = Len(runs) /\ manifest \in Seq(Nat) /\ Len(manifest) = Len(runs)
    BY Cancels DEF QueueInv
<1> HIDE DEF cs, r
<1>5. /\ Len(runs') = n /\ DOMAIN runs' = DOMAIN runs \cup {n} /\ runs'[n] = r
      /\ \A i \in DOMAIN runs : runs'[i] = cs[i]
    <2>1. /\ Append(cs, r) \in Seq(RunRecord) /\ Len(Append(cs, r)) = Len(cs) + 1
          /\ \A i \in 1..Len(cs) : Append(cs, r)[i] = cs[i]
          /\ Append(cs, r)[Len(cs) + 1] = r
        BY <1>2, <1>4, AppendProperties
    <2>2. DOMAIN Append(cs, r) = 1..(Len(cs) + 1)
        BY <2>1, LenProperties
    <2>3. QED
        BY <1>1, <1>3, <1>4, <2>1, <2>2
<1>6. /\ manifest' \in Seq(Nat) /\ Len(manifest') = n /\ manifest'[n] = 0
      /\ \A i \in DOMAIN runs : manifest'[i] = manifest[i]
    <2>1. /\ Append(manifest, 0) \in Seq(Nat) /\ Len(Append(manifest, 0)) = Len(manifest) + 1
          /\ \A i \in 1..Len(manifest) : Append(manifest, 0)[i] = manifest[i]
          /\ Append(manifest, 0)[Len(manifest) + 1] = 0
        BY <1>4, AppendProperties
    <2>2. QED
        BY <1>1, <1>3, <1>4, <2>1
<1>7. pending' = Plan(n)
    BY <1>1, <1>5
<1>8. \A i \in DOMAIN runs :
         /\ runs'[i].kind = runs[i].kind /\ runs'[i].commit = runs[i].commit
         /\ runs'[i].attempt = runs[i].attempt /\ runs'[i].hurt = runs[i].hurt
         /\ \/ pending # Plan(i) /\ runs'[i].at = runs[i].at
            \/ /\ pending = Plan(i) /\ running # Plan(i)
               /\ runs[i].at = "open" /\ runs'[i].at = "cancelled"
    BY <1>5, Cancels DEF cs
<1>9. Onward
    <2>1. main' \in Nat /\ main <= main' /\ serial' \in Nat /\ serial <= serial' /\ blobs' = blobs
        BY <1>1, <1>3
    <2>2. \A i \in DOMAIN runs :
             /\ runs'[i].kind = runs[i].kind /\ runs'[i].commit = runs[i].commit
             /\ runs'[i].attempt \in Nat /\ runs[i].attempt <= runs'[i].attempt
             /\ runs[i].hurt => runs'[i].hurt
        BY <1>3, <1>8
    <2>3. QED
        BY <2>1, <2>2 DEF Onward
<1>10. \A i \in DOMAIN runs : Plan(i) # Plan(n)
    BY <1>3, JobsDiffer
<1>11. \A j \in DOMAIN applies : Apply(j) # Plan(n)
    BY <1>3, JobsDiffer
<1>12. ASSUME NEW i \in DOMAIN runs
       PROVE  RunHolds(i)'
    <2>1. pending' # Plan(i) /\ running' = running /\ manifest'[i] = manifest[i] /\ blobs' = blobs
        BY <1>1, <1>6, <1>7, <1>10
    <2>2. QED
        BY <1>8, <1>9, <2>1, RunStands
<1>13. running # Plan(n)
    BY <1>3, <1>10, <1>11, JobsDiffer DEF QueueInv, KnownJob
<1>14. RunHolds(n)'
    <2>1. \A plan \in blobs : plan.run # n
        BY <1>3, CustodyTyped
    <2>2. /\ runs'[n].at = "open" /\ runs'[n].hurt = FALSE /\ runs'[n].commit = main
          /\ runs'[n].attempt = 1
        BY <1>2, <1>5
    <2>3. manifest'[n] \in 0..1 /\ main <= main'
        BY <1>1, <1>3, <1>6
    <2>4. running' # Plan(n) /\ blobs' = blobs
        BY <1>1, <1>13
    <2>5. QED
        BY <2>1, <2>2, <2>3, <2>4 DEF RunHolds
<1>15. ASSUME NEW j \in DOMAIN applies
       PROVE  TurnHolds(j)'
    <2>1. pending' # Apply(j) /\ running' = running
        BY <1>1, <1>7, <1>11
    <2>2. manifest'[applies[j].run] = manifest[applies[j].run]
        BY <1>6, CustodyTyped
    <2>3. QED
        BY <1>1, <1>9, <2>1, <2>2, Cancels, TurnStands
<1>16. DOMAIN applies' = DOMAIN applies
    BY <1>1, Cancels
<1>17. KnownJob(running)' /\ KnownJob(pending)'
    <2>1. KnownJob(running)'
        BY <1>1, <1>5, <1>16 DEF QueueInv, KnownJob
    <2>2. KnownJob(pending)'
        BY <1>5, <1>7 DEF KnownJob
    <2>3. QED
        BY <2>1, <2>2
<1>18. running' # NoJob => running' # pending'
    BY <1>1, <1>7, <1>13
<1>19. \A i \in DOMAIN runs' : RunHolds(i)'
    BY <1>5, <1>12, <1>14
<1>20. \A j \in DOMAIN applies' : TurnHolds(j)'
    BY <1>15, <1>16
<1>21. manifest' \in Seq(Nat) /\ Len(manifest') = Len(runs')
    BY <1>5, <1>6
<1>22. QED
    BY <1>17, <1>18, <1>19, <1>20, <1>21 DEF QueueInv

\* A run is repeated: none of its plans is of the new attempt.
LEMMA RerunQueues ==
    ASSUME ReviewInv, ReviewInv', QueueInv, NEW i \in DOMAIN runs, Rerun(i)
    PROVE  QueueInv'
<1> DEFINE cs == Cancel(runs, pending)
           r == [cs[i] EXCEPT !.attempt = runs[i].attempt + 1, !.at = "open", !.hurt = FALSE]
<1>1. /\ applies' = CancelApply(applies, pending) /\ runs' = [cs EXCEPT ![i] = r]
      /\ pending' = Plan(i) /\ runs[i].at \in {"success", "failure", "cancelled"}
      /\ UNCHANGED <<main, serial, running, blobs, manifest>>
    BY DEF Rerun
<1>2. /\ main \in Nat /\ serial \in Nat
      /\ \A k \in DOMAIN runs : k \in Nat /\ runs[k].attempt \in Nat
      /\ \A j \in DOMAIN applies : j \in Nat
    BY CustodyTyped
<1>3. /\ cs \in Seq(RunRecord) /\ DOMAIN cs = DOMAIN runs /\ Len(cs) = Len(runs)
      /\ cs[i].kind = runs[i].kind /\ cs[i].commit = runs[i].commit
    BY Cancels
<1>4. /\ r.kind = runs[i].kind /\ r.commit = runs[i].commit
      /\ r.attempt = runs[i].attempt + 1 /\ r.at = "open" /\ r.hurt = FALSE
    <2>1. cs[i] \in RunRecord
        BY <1>3, RunsAreTyped
    <2>2. QED
        BY <1>3, <2>1 DEF RunRecord
<1> HIDE DEF cs, r
<1>5. /\ DOMAIN runs' = DOMAIN runs /\ Len(runs') = Len(runs) /\ runs'[i] = r
      /\ \A k \in DOMAIN runs : k # i => runs'[k] = cs[k]
    <2>1. DOMAIN runs' = DOMAIN runs /\ runs'[i] = r /\ \A k \in DOMAIN runs : k # i => runs'[k] = cs[k]
        BY <1>1, <1>3
    <2>2. Len(runs') = Len(runs)
        BY <2>1, RunsAreTyped DEF ReviewInv, RecordsInv
    <2>3. QED
        BY <2>1, <2>2
<1>6. \A k \in DOMAIN runs : k # i =>
         /\ runs'[k].kind = runs[k].kind /\ runs'[k].commit = runs[k].commit
         /\ runs'[k].attempt = runs[k].attempt /\ runs'[k].hurt = runs[k].hurt
         /\ \/ pending # Plan(k) /\ runs'[k].at = runs[k].at
            \/ /\ pending = Plan(k) /\ running # Plan(k)
               /\ runs[k].at = "open" /\ runs'[k].at = "cancelled"
    BY <1>5, Cancels DEF cs
<1>7. Onward
    <2>1. main' \in Nat /\ main <= main' /\ serial' \in Nat /\ serial <= serial' /\ blobs' = blobs
        BY <1>1, <1>2
    <2>2. ASSUME NEW k \in DOMAIN runs
          PROVE  /\ runs'[k].kind = runs[k].kind /\ runs'[k].commit = runs[k].commit
                 /\ runs'[k].attempt \in Nat /\ runs[k].attempt <= runs'[k].attempt
                 /\ runs'[k].attempt = runs[k].attempt /\ runs[k].hurt => runs'[k].hurt
        <3>1. CASE k = i
            BY <1>2, <1>4, <1>5, <3>1
        <3>2. CASE k # i
            BY <1>2, <1>6, <3>2
        <3>3. QED
            BY <3>1, <3>2
    <2>3. QED
        BY <2>1, <2>2 DEF Onward
<1>8. \A k \in DOMAIN runs : k # i => Plan(k) # Plan(i)
    BY <1>2, JobsDiffer
<1>9. \A j \in DOMAIN applies : Apply(j) # Plan(i)
    BY <1>2, JobsDiffer
<1>10. RunHolds(i)
    BY DEF QueueInv
<1>11. running # Plan(i)
    BY <1>1, <1>10 DEF RunHolds
<1>12. RunHolds(i)'
    <2>1. \A plan \in blobs : plan.run = i => plan.attempt # runs[i].attempt + 1
        BY <1>2, CustodyTyped
    <2>2. manifest[i] \in 0..runs[i].attempt /\ runs[i].attempt >= 1 /\ runs[i].commit <= main
        BY <1>10 DEF RunHolds
    <2>3. manifest[i] \in 0..(runs[i].attempt + 1) /\ runs[i].attempt + 1 >= 1
        BY <1>2, <2>2
    <2>4. QED
        BY <1>1, <1>4, <1>5, <1>11, <2>1, <2>2, <2>3 DEF RunHolds
<1>13. ASSUME NEW k \in DOMAIN runs
       PROVE  RunHolds(k)'
    <2>1. CASE k # i
        <3>1. pending' # Plan(k) /\ running' = running /\ manifest'[k] = manifest[k] /\ blobs' = blobs
            BY <1>1, <1>8, <2>1
        <3>2. QED
            BY <1>6, <1>7, <2>1, <3>1, RunStands
    <2>2. QED
        BY <1>12, <2>1
<1>14. ASSUME NEW j \in DOMAIN applies
       PROVE  TurnHolds(j)'
    BY <1>1, <1>7, <1>9, Cancels, TurnStands
<1>15. DOMAIN applies' = DOMAIN applies
    BY <1>1, Cancels
<1>16. KnownJob(running)' /\ KnownJob(pending)'
    BY <1>1, <1>5, <1>15 DEF QueueInv, KnownJob
<1>17. \A k \in DOMAIN runs' : RunHolds(k)'
    BY <1>5, <1>13
<1>18. \A j \in DOMAIN applies' : TurnHolds(j)'
    BY <1>14, <1>15
<1>19. running' # NoJob => running' # pending'
    BY <1>1, <1>11
<1>20. manifest' \in Seq(Nat) /\ Len(manifest') = Len(runs')
    BY <1>1, <1>5 DEF QueueInv
<1>21. QED
    BY <1>16, <1>17, <1>18, <1>19, <1>20 DEF QueueInv

\* An approval is dispatched: it waits in the place of the job that waited.
LEMMA DispatchApplyQueues ==
    ASSUME ReviewInv, ReviewInv', QueueInv, NEW kind \in Kinds, NEW plan \in blobs,
           DispatchApply(kind, plan)
    PROVE  QueueInv'
<1> SUFFICES ASSUME NEW n, n = Len(applies) + 1
             PROVE  QueueInv'
    OBVIOUS
<1> DEFINE as == CancelApply(applies, pending)
           a == [kind |-> kind, run |-> plan.run, commit |-> plan.commit,
                 sha |-> plan.attempt, at |-> "open", plan |-> plan, mains |-> {}]
<1>1. /\ runs' = Cancel(runs, pending) /\ applies' = Append(as, a)
      /\ pending' = Apply(Len(applies'))
      /\ UNCHANGED <<main, serial, running, blobs, manifest>>
    BY DEF DispatchApply
<1>2. /\ plan \in PlanRecord /\ plan.run \in DOMAIN runs /\ plan.attempt \in Nat
      /\ plan.attempt <= runs[plan.run].attempt
    BY CustodyTyped DEF ReviewInv, RecordsInv
<1>3. /\ a.run = plan.run /\ a.sha = plan.attempt /\ a.plan = plan /\ a.at = "open"
      /\ a \in ApplyRecord
    BY <1>2 DEF ApplyRecord, PlanRecord, Steps
<1>4. /\ main \in Nat /\ serial \in Nat /\ Len(applies) \in Nat
      /\ DOMAIN applies = 1..Len(applies) /\ n \in Nat /\ n \notin DOMAIN applies
      /\ \A i \in DOMAIN runs : i \in Nat /\ runs[i].attempt \in Nat
      /\ \A j \in DOMAIN applies : j \in Nat
    BY CustodyTyped
<1>5. as \in Seq(ApplyRecord) /\ Len(as) = Len(applies)
    BY Cancels
<1> HIDE DEF as, a
<1>6. /\ Len(applies') = n /\ DOMAIN applies' = DOMAIN applies \cup {n} /\ applies'[n] = a
      /\ \A j \in DOMAIN applies : applies'[j] = as[j]
    <2>1. as \in Seq(ApplyRecord)
        BY <1>5
    <2>2. a \in ApplyRecord
        BY <1>3
    <2>3. Append(as, a) \in Seq(ApplyRecord) /\ Len(Append(as, a)) = Len(as) + 1
        BY <2>1, <2>2, AppendProperties
    <2>4. \A j \in 1..Len(as) : Append(as, a)[j] = as[j]
        BY <2>1, <2>2, AppendProperties
    <2>5. Append(as, a)[Len(as) + 1] = a
        BY <2>1, <2>2, AppendProperties
    <2>6. DOMAIN Append(as, a) = 1..n
        BY <1>5, <2>3, LenProperties
    <2>7. 1..n = DOMAIN applies \cup {n}
        BY <1>4
    <2>8. Len(applies') = n /\ DOMAIN applies' = DOMAIN applies \cup {n}
        BY <1>1, <1>5, <2>3, <2>6, <2>7
    <2>9. applies'[n] = a
        BY <1>1, <1>5, <2>5
    <2>10. \A j \in DOMAIN applies : applies'[j] = as[j]
        BY <1>1, <1>4, <1>5, <2>4
    <2>11. QED
        BY <2>8, <2>9, <2>10
<1>7. pending' = Apply(n)
    BY <1>1, <1>6
<1>8. /\ DOMAIN runs' = DOMAIN runs /\ Len(runs') = Len(runs)
      /\ \A i \in DOMAIN runs :
            /\ runs'[i].kind = runs[i].kind /\ runs'[i].commit = runs[i].commit
            /\ runs'[i].attempt = runs[i].attempt /\ runs'[i].hurt = runs[i].hurt
            /\ \/ pending # Plan(i) /\ runs'[i].at = runs[i].at
               \/ /\ pending = Plan(i) /\ running # Plan(i)
                  /\ runs[i].at = "open" /\ runs'[i].at = "cancelled"
    BY <1>1, Cancels
<1>9. Onward
    <2>1. main' \in Nat /\ main <= main' /\ serial' \in Nat /\ serial <= serial' /\ blobs' = blobs
        BY <1>1, <1>4
    <2>2. \A i \in DOMAIN runs :
             /\ runs'[i].kind = runs[i].kind /\ runs'[i].commit = runs[i].commit
             /\ runs'[i].attempt \in Nat /\ runs[i].attempt <= runs'[i].attempt
             /\ runs[i].hurt => runs'[i].hurt
        BY <1>4, <1>8
    <2>3. QED
        BY <2>1, <2>2 DEF Onward
<1>10. \A i \in DOMAIN runs : Plan(i) # Apply(n)
    BY <1>4, JobsDiffer
<1>11. \A j \in DOMAIN applies : Apply(j) # Apply(n)
    BY <1>4, JobsDiffer
<1>12. ASSUME NEW i \in DOMAIN runs
       PROVE  RunHolds(i)'
    <2>1. pending' # Plan(i) /\ running' = running /\ manifest'[i] = manifest[i] /\ blobs' = blobs
        BY <1>1, <1>7, <1>10
    <2>2. QED
        BY <1>8, <1>9, <2>1, RunStands
<1>13. running # Apply(n)
    BY <1>4, <1>10, <1>11, JobsDiffer DEF QueueInv, KnownJob
<1>14. TurnHolds(n)'
    <2>1. /\ applies'[n].at = "open" /\ applies'[n].run = plan.run /\ applies'[n].sha = plan.attempt
          /\ applies'[n].plan = plan
        BY <1>3, <1>6
    <2>2. plan.attempt <= runs'[plan.run].attempt
        BY <1>2, <1>8
    <2>3. running' # Apply(n) /\ blobs' = blobs
        BY <1>1, <1>13
    <2>4. QED
        BY <2>1, <2>2, <2>3 DEF TurnHolds
<1>15. ASSUME NEW j \in DOMAIN applies
       PROVE  TurnHolds(j)'
    <2>1. pending' # Apply(j) /\ running' = running /\ manifest' = manifest
        BY <1>1, <1>7, <1>11
    <2>2. /\ applies'[j].kind = applies[j].kind /\ applies'[j].run = applies[j].run
          /\ applies'[j].commit = applies[j].commit /\ applies'[j].sha = applies[j].sha
          /\ applies'[j].plan = applies[j].plan
          /\ \/ pending # Apply(j) /\ applies'[j].at = applies[j].at
             \/ running # Apply(j) /\ applies'[j].at = "cancelled"
        BY <1>6, Cancels DEF as
    <2>3. QED
        BY <1>9, <2>1, <2>2, TurnStands
<1>16. KnownJob(running)' /\ KnownJob(pending)'
    <2>1. KnownJob(running)'
        BY <1>1, <1>6, <1>8 DEF QueueInv, KnownJob
    <2>2. KnownJob(pending)'
        BY <1>6, <1>7 DEF KnownJob
    <2>3. QED
        BY <2>1, <2>2
<1>17. running' # NoJob => running' # pending'
    BY <1>1, <1>7, <1>13
<1>18. \A i \in DOMAIN runs' : RunHolds(i)'
    BY <1>8, <1>12
<1>19. \A j \in DOMAIN applies' : TurnHolds(j)'
    BY <1>6, <1>14, <1>15
<1>20. manifest' \in Seq(Nat) /\ Len(manifest') = Len(runs')
    BY <1>1, <1>8 DEF QueueInv
<1>21. QED
    BY <1>16, <1>17, <1>18, <1>19, <1>20 DEF QueueInv

\* A step of the plan job that runs, which leaves its own run as it should be.
LEMMA PlanJobQueues ==
    ASSUME ReviewInv, ReviewInv', QueueInv, NEW i \in DOMAIN runs, running = Plan(i),
           UNCHANGED <<main, serial, applies>>, pending' = pending,
           running' \in {running, NoJob}, DOMAIN runs' = DOMAIN runs,
           \A k \in DOMAIN runs : k # i => runs'[k] = runs[k] /\ manifest'[k] = manifest[k],
           runs'[i].kind = runs[i].kind, runs'[i].commit = runs[i].commit,
           runs'[i].attempt = runs[i].attempt,
           manifest' \in Seq(Nat), Len(manifest') = Len(manifest),
           blobs \subseteq blobs', \A plan \in blobs' \ blobs : plan.run = i,
           RunHolds(i)'
    PROVE  QueueInv'
<1>1. /\ main \in Nat /\ serial \in Nat /\ NoJob # Plan(i)
      /\ \A k \in DOMAIN runs : k \in Nat /\ runs[k].attempt \in Nat /\ (k # i => Plan(k) # Plan(i))
      /\ \A j \in DOMAIN applies : j \in Nat /\ Apply(j) # Plan(i) /\ NoJob # Apply(j)
    BY CustodyTyped, JobsDiffer
<1>2. RunHolds(i)
    BY DEF QueueInv
<1>3. ~runs[i].hurt
    BY <1>2 DEF RunHolds
<1>4. Onward
    BY <1>1, <1>3 DEF Onward
<1>5. ASSUME NEW k \in DOMAIN runs
      PROVE  RunHolds(k)'
    <2>1. CASE k # i
        <3>1. running # Plan(k) /\ running' # Plan(k)
            BY <1>1, <2>1, JobsDiffer
        <3>2. runs[k].at # "saved"
            BY <3>1 DEF QueueInv, RunHolds
        <3>3. QED
            BY <1>4, <2>1, <3>1, <3>2, RunStands
    <2>2. QED
        BY <2>1
<1>6. ASSUME NEW j \in DOMAIN applies
      PROVE  TurnHolds(j)'
    <2>1. running # Apply(j) /\ running' # Apply(j)
        BY <1>1
    <2>2. applies[j].at # "verified"
        BY <2>1 DEF QueueInv, TurnHolds
    <2>3. QED
        BY <1>4, <2>1, <2>2, TurnStands
<1>7. KnownJob(running)' /\ KnownJob(pending)'
    BY DEF QueueInv, KnownJob
<1>8. Len(runs') = Len(runs)
    BY RunsAreTyped DEF ReviewInv, RecordsInv
<1>9. running' # NoJob => running' # pending'
    BY DEF QueueInv
<1>10. \A k \in DOMAIN runs' : RunHolds(k)'
    BY <1>5
<1>11. \A j \in DOMAIN applies' : TurnHolds(j)'
    BY <1>6
<1>12. Len(manifest') = Len(runs')
    BY <1>8 DEF QueueInv
<1>13. QED
    BY <1>7, <1>9, <1>10, <1>11, <1>12 DEF QueueInv

\* What a step of a plan job does to its run.
LEMMA LeavesRun ==
    ASSUME ReviewInv, NEW i \in DOMAIN runs, NEW hurt \in BOOLEAN,
           NEW step \in {"saved", "success", "failure"}, Leaves(i, step, hurt)
    PROVE  /\ DOMAIN runs' = DOMAIN runs
           /\ \A k \in DOMAIN runs : k # i => runs'[k] = runs[k]
           /\ runs'[i].kind = runs[i].kind /\ runs'[i].commit = runs[i].commit
           /\ runs'[i].attempt = runs[i].attempt /\ runs'[i].hurt = hurt /\ runs'[i].at = step
           /\ pending' = pending
           /\ running' = IF step = "saved" THEN running ELSE NoJob
<1>1. /\ Keeps(runs, runs') /\ DOMAIN runs' = DOMAIN runs
      /\ \A k \in DOMAIN runs : k # i => runs'[k] = runs[k]
      /\ runs'[i].attempt = runs[i].attempt /\ runs'[i].hurt = hurt /\ runs'[i].at = step
    BY LeavesKeeps DEF ReviewInv
<1>2. runs'[i].kind = runs[i].kind /\ runs'[i].commit = runs[i].commit
    BY <1>1 DEF Keeps
<1>3. pending' = pending /\ running' = IF step = "saved" THEN running ELSE NoJob
    <2>1. CASE step = "saved"
        BY <2>1 DEF Leaves
    <2>2. CASE step \in {"success", "failure"}
        BY <2>2 DEF Leaves, Release
    <2>3. QED
        BY <2>1, <2>2
<1>4. QED
    BY <1>1, <1>2, <1>3

\* A plan is saved at the attempt of its run, or refused before it is.
LEMMA SavePlanQueues ==
    ASSUME ReviewInv, ReviewInv', QueueInv, NEW i \in DOMAIN runs, SavePlan(i)
    PROVE  QueueInv'
<1>1. /\ running = Plan(i) /\ runs[i].at = "open"
      /\ UNCHANGED <<main, serial, manifest, applies>>
    BY DEF SavePlan
<1>2. RunHolds(i) /\ running # pending /\ NoJob # Plan(i)
    BY <1>1, CustodyTyped, JobsDiffer DEF QueueInv
<1>3. manifest' \in Seq(Nat) /\ Len(manifest') = Len(manifest)
    BY <1>1 DEF QueueInv
<1>4. CASE Leaves(i, "failure", FALSE) /\ UNCHANGED blobs
    <2>1. /\ DOMAIN runs' = DOMAIN runs /\ \A k \in DOMAIN runs : k # i => runs'[k] = runs[k]
          /\ runs'[i].attempt = runs[i].attempt /\ runs'[i].commit = runs[i].commit
          /\ runs'[i].kind = runs[i].kind
          /\ runs'[i].hurt = FALSE /\ runs'[i].at = "failure"
          /\ pending' = pending /\ running' = NoJob
        BY <1>4, LeavesRun
    <2>2. RunHolds(i)'
        BY <1>1, <1>2, <1>4, <2>1 DEF RunHolds
    <2>3. QED
        BY <1>1, <1>3, <1>4, <2>1, <2>2, PlanJobQueues
<1>5. CASE /\ Leaves(i, "saved", FALSE)
           /\ blobs' = blobs \cup {[run |-> i, attempt |-> runs[i].attempt, kind |-> runs[i].kind,
                                    commit |-> runs[i].commit, base |-> serial]}
    <2>1. /\ DOMAIN runs' = DOMAIN runs /\ \A k \in DOMAIN runs : k # i => runs'[k] = runs[k]
          /\ runs'[i].attempt = runs[i].attempt /\ runs'[i].commit = runs[i].commit
          /\ runs'[i].kind = runs[i].kind
          /\ runs'[i].hurt = FALSE /\ runs'[i].at = "saved"
          /\ pending' = pending /\ running' = running
        BY <1>5, LeavesRun
    <2>2. RunHolds(i)'
        BY <1>1, <1>2, <2>1 DEF RunHolds
    <2>3. blobs \subseteq blobs' /\ \A plan \in blobs' \ blobs : plan.run = i
        BY <1>5
    <2>4. QED
        BY <1>1, <1>3, <2>1, <2>2, <2>3, PlanJobQueues
<1>6. QED
    BY <1>4, <1>5 DEF SavePlan

\* The manifest of a run that succeeds is that of its attempt.
LEMMA UploadManifestQueues ==
    ASSUME ReviewInv, ReviewInv', QueueInv, NEW i \in DOMAIN runs, UploadManifest(i)
    PROVE  QueueInv'
<1>1. /\ running = Plan(i) /\ Leaves(i, "success", FALSE)
      /\ manifest' = [manifest EXCEPT ![i] = runs[i].attempt]
      /\ UNCHANGED <<main, serial, blobs, applies>>
    BY DEF UploadManifest, Uploads, LastManifest
<1>2. RunHolds(i) /\ running # pending /\ NoJob # Plan(i) /\ runs[i].attempt \in Nat
    BY <1>1, CustodyTyped, JobsDiffer DEF QueueInv
<1>3. manifest \in Seq(Nat) /\ DOMAIN manifest = DOMAIN runs /\ DOMAIN manifest = 1..Len(manifest)
    BY CustodyTyped, LenProperties DEF QueueInv
<1>4. manifest' \in Seq(Nat) /\ Len(manifest') = Len(manifest)
    BY <1>1, <1>2, <1>3, ExceptSeq
<1>5. manifest'[i] = runs[i].attempt /\ \A k \in DOMAIN runs : k # i => manifest'[k] = manifest[k]
    BY <1>1, <1>3
<1>6. /\ DOMAIN runs' = DOMAIN runs /\ \A k \in DOMAIN runs : k # i => runs'[k] = runs[k]
      /\ runs'[i].attempt = runs[i].attempt /\ runs'[i].commit = runs[i].commit
      /\ runs'[i].kind = runs[i].kind
      /\ runs'[i].hurt = FALSE /\ runs'[i].at = "success"
      /\ pending' = pending /\ running' = NoJob
    BY <1>1, LeavesRun
<1>7. RunHolds(i)'
    BY <1>1, <1>2, <1>5, <1>6 DEF RunHolds
<1>8. QED
    BY <1>1, <1>4, <1>5, <1>6, <1>7, PlanJobQueues

\* A run whose step fails is hurt.
LEMMA PlanStepFailsQueues ==
    ASSUME ReviewInv, ReviewInv', QueueInv, NEW i \in DOMAIN runs, PlanStepFails(i)
    PROVE  QueueInv'
<1>1. /\ running = Plan(i) /\ Leaves(i, "failure", TRUE)
      /\ UNCHANGED <<main, serial, blobs, manifest, applies>>
    BY DEF PlanStepFails
<1>2. RunHolds(i) /\ running # pending /\ NoJob # Plan(i)
    BY <1>1, CustodyTyped, JobsDiffer DEF QueueInv
<1>3. manifest' \in Seq(Nat) /\ Len(manifest') = Len(manifest)
    BY <1>1 DEF QueueInv
<1>4. /\ DOMAIN runs' = DOMAIN runs /\ \A k \in DOMAIN runs : k # i => runs'[k] = runs[k]
      /\ runs'[i].attempt = runs[i].attempt /\ runs'[i].commit = runs[i].commit
      /\ runs'[i].kind = runs[i].kind
      /\ runs'[i].hurt = TRUE /\ runs'[i].at = "failure"
      /\ pending' = pending /\ running' = NoJob
    BY <1>1, LeavesRun
<1>5. RunHolds(i)'
    BY <1>1, <1>2, <1>4 DEF RunHolds
<1>6. QED
    BY <1>1, <1>3, <1>4, <1>5, PlanJobQueues

\* A step of the apply job that runs, which leaves its job as it should be.
LEMMA ApplyJobQueues ==
    ASSUME ReviewInv, ReviewInv', QueueInv, NEW j \in DOMAIN applies, running = Apply(j),
           UNCHANGED <<main, runs, blobs, manifest>>, pending' = pending,
           running' \in {running, NoJob}, serial' \in Nat, serial <= serial',
           DOMAIN applies' = DOMAIN applies,
           \A k \in DOMAIN applies : k # j => applies'[k] = applies[k],
           TurnHolds(j)'
    PROVE  QueueInv'
<1>1. /\ main \in Nat /\ \A i \in DOMAIN runs : i \in Nat /\ runs[i].attempt \in Nat
                                               /\ Apply(j) # Plan(i) /\ NoJob # Plan(i)
      /\ \A k \in DOMAIN applies : k # j => Apply(k) # Apply(j) /\ NoJob # Apply(k)
    BY CustodyTyped, JobsDiffer
<1>2. Onward
    BY <1>1 DEF Onward
<1>3. ASSUME NEW i \in DOMAIN runs
      PROVE  RunHolds(i)'
    <2>1. running # Plan(i) /\ running' # Plan(i)
        BY <1>1
    <2>2. runs[i].at # "saved"
        BY <2>1 DEF QueueInv, RunHolds
    <2>3. QED
        BY <1>2, <2>1, <2>2, RunStands
<1>4. ASSUME NEW k \in DOMAIN applies
      PROVE  TurnHolds(k)'
    <2>1. CASE k # j
        <3>1. running # Apply(k) /\ running' # Apply(k)
            BY <1>1, <2>1
        <3>2. applies[k].at # "verified"
            BY <3>1 DEF QueueInv, TurnHolds
        <3>3. QED
            BY <1>2, <2>1, <3>1, <3>2, TurnStands
    <2>2. QED
        BY <2>1
<1>5. KnownJob(running)' /\ KnownJob(pending)'
    BY DEF QueueInv, KnownJob
<1>6. QED
    BY <1>3, <1>4, <1>5 DEF QueueInv

\* Where Becomes takes the job that runs, what it says holds of it.
LEMMA BecomesQueues ==
    ASSUME ReviewInv, ReviewInv', QueueInv, NEW j \in DOMAIN applies, running = Apply(j),
           NEW step \in {"verified", "checked", "applying", "applied", "broken", "refused"},
           Becomes(j, step), UNCHANGED <<main, runs, blobs, manifest>>,
           serial' \in Nat, serial <= serial',
           step = "verified" => manifest[applies[j].run] = applies[j].sha,
           step = "refused" => serial' = serial /\ Reason(applies[j])
    PROVE  QueueInv'
<1>1. OneApplyMoves(j, [applies[j] EXCEPT !.at = step]) /\ applies[j] \in ApplyRecord
    BY BecomesMoves DEF ReviewInv, Steps
<1>2. /\ applies'[j].kind = applies[j].kind /\ applies'[j].run = applies[j].run
      /\ applies'[j].commit = applies[j].commit /\ applies'[j].sha = applies[j].sha
      /\ applies'[j].plan = applies[j].plan /\ applies'[j].at = step
    BY <1>1, ApplyMoves DEF OneApplyMoves, Steps
<1>3. /\ DOMAIN applies' = DOMAIN applies
      /\ \A k \in DOMAIN applies : k # j => applies'[k] = applies[k]
    BY <1>1 DEF OneApplyMoves
<1>4. /\ pending' = pending
      /\ running' = IF step \in {"refused", "broken", "applied"} THEN NoJob ELSE running
    <2>1. CASE step \in {"refused", "broken", "applied"}
        BY <2>1 DEF Becomes, Release
    <2>2. CASE step \in {"verified", "checked", "applying"}
        BY <2>2 DEF Becomes
    <2>3. QED
        BY <2>1, <2>2
<1>5. TurnHolds(j) /\ NoJob # Apply(j) /\ running # pending
    BY CustodyTyped, JobsDiffer DEF QueueInv
<1>6. step = "refused" => Reason(applies[j])'
    BY <1>2 DEF Reason
<1>7. TurnHolds(j)'
    BY <1>2, <1>4, <1>5, <1>6 DEF TurnHolds
<1>8. QED
    BY <1>3, <1>4, <1>7, ApplyJobQueues

\* A chain that does not hold is a reason: of the run of a good plan, no other
\* state than success with its own manifest is left.
LEMMA BrokenChain ==
    ASSUME ReviewInv, QueueInv, NEW j \in DOMAIN applies, running = Apply(j),
           ~ChainHolds(applies[j])
    PROVE  Reason(applies[j])
<1> SUFFICES ASSUME NEW a, a = applies[j]
             PROVE  Reason(a)
    OBVIOUS
<1>1. /\ a.run \in DOMAIN runs /\ a.commit = runs[a.run].commit
      /\ runs[a.run].at \in {"open", "saved", "success", "failure", "cancelled"}
      /\ Plan(a.run) # Apply(j)
    BY CustodyTyped, JobsDiffer
<1>2. RunHolds(a.run) /\ TurnHolds(j)
    BY <1>1 DEF QueueInv
<1>3. a.plan \in blobs /\ a.plan.run = a.run /\ a.plan.attempt = a.sha
    BY <1>2 DEF TurnHolds
<1>4. CASE main # a.commit \/ runs[a.run].kind # a.kind
    BY <1>4 DEF Reason
<1>5. CASE runs[a.run].at # "success"
    <2>1. runs[a.run].at # "saved"
        BY <1>1, <1>2 DEF RunHolds
    <2>2. CASE runs[a.run].hurt
        BY <2>2 DEF Reason
    <2>3. CASE ~runs[a.run].hurt
        <3>1. runs[a.run].attempt # a.sha
            BY <1>1, <1>2, <1>3, <1>5, <2>1, <2>3 DEF RunHolds
        <3>2. QED
            BY <3>1 DEF Reason
    <2>4. QED
        BY <2>2, <2>3
<1>6. CASE runs[a.run].at = "success" /\ manifest[a.run] # a.sha
    BY <1>2, <1>6 DEF RunHolds, Reason
<1>7. QED
    BY <1>1, <1>4, <1>5, <1>6 DEF ChainHolds

\* The steps of an apply job: what refuses an approval is a reason.
LEMMA ApplyStepQueues ==
    ASSUME ReviewInv, ReviewInv', QueueInv, NEW j \in DOMAIN applies,
           \/ VerifyChain(j) \/ Prepare(j) \/ VerifyMain(j)
           \/ ApplyBegins(j) \/ ApplyEnds(j) \/ ApplyStepFails(j)
    PROVE  QueueInv'
<1>1. /\ applies[j] \in ApplyRecord /\ serial \in Nat /\ applies \in Seq(ApplyRecord)
      /\ TurnHolds(j) /\ running # pending
      /\ running = Apply(j)
    <2>1. running = Apply(j)
        BY DEF VerifyChain, Prepare, VerifyMain, ApplyBegins, ApplyEnds, ApplyStepFails, Turn
    <2>2. NoJob # Apply(j)
        BY CustodyTyped, JobsDiffer
    <2>3. QED
        BY <2>1, <2>2, CustodyTyped DEF QueueInv, ReviewInv, RecordsInv
<1>2. CASE VerifyChain(j)
    <2>1. UNCHANGED <<main, serial, runs, blobs, manifest>>
        BY <1>2 DEF VerifyChain
    <2>2. CASE ChainHolds(applies[j]) /\ Becomes(j, "verified")
        BY <1>1, <2>1, <2>2, BecomesQueues DEF ChainHolds
    <2>3. CASE ~ChainHolds(applies[j]) /\ Becomes(j, "refused")
        BY <1>1, <2>1, <2>3, BecomesQueues, BrokenChain
    <2>4. QED
        BY <1>2, <2>2, <2>3 DEF VerifyChain
<1>3. CASE Prepare(j)
    <2>1. applies[j].at = "verified" /\ manifest[applies[j].run] = applies[j].sha
          /\ UNCHANGED <<main, serial, runs, blobs, manifest>>
        BY <1>1, <1>3 DEF Prepare, Turn, TurnHolds
    <2>2. PICK plan \in blobs :
             /\ plan.run = applies[j].run /\ plan.attempt = applies[j].sha
             /\ applies' = [applies EXCEPT ![j] = [@ EXCEPT !.at = "ready", !.plan = plan,
                                                            !.mains = {main}]]
             /\ UNCHANGED <<running, pending>>
        BY <1>3, <2>1 DEF Prepare
    <2> DEFINE b == [applies[j] EXCEPT !.at = "ready", !.plan = plan, !.mains = {main}]
    <2>3. /\ b.at = "ready" /\ b.plan = plan /\ b.run = applies[j].run
          /\ b.sha = applies[j].sha
        BY <1>1 DEF ApplyRecord
    <2>4. applies' = [applies EXCEPT ![j] = b]
        BY <2>2
    <2> HIDE DEF b
    <2>5. /\ DOMAIN applies' = DOMAIN applies /\ applies'[j] = b
          /\ \A k \in DOMAIN applies : k # j => applies'[k] = applies[k]
        BY <2>4
    <2>6. TurnHolds(j)'
        BY <1>1, <2>1, <2>2, <2>3, <2>5 DEF TurnHolds
    <2>7. QED
        BY <1>1, <2>1, <2>2, <2>5, <2>6, ApplyJobQueues
<1>4. CASE VerifyMain(j)
    <2>1. UNCHANGED <<main, serial, runs, blobs, manifest>>
        BY <1>4 DEF VerifyMain
    <2>2. CASE Becomes(j, "checked")
        BY <1>1, <2>1, <2>2, BecomesQueues
    <2>3. CASE main # applies[j].commit /\ Becomes(j, "refused")
        BY <1>1, <2>1, <2>3, BecomesQueues DEF Reason
    <2>4. QED
        BY <1>4, <2>2, <2>3 DEF VerifyMain, MainUnmoved
<1>5. CASE ApplyBegins(j)
    <2>1. UNCHANGED <<main, runs, blobs, manifest>>
        BY <1>5 DEF ApplyBegins
    <2>2. CASE applies[j].plan.base # serial /\ Becomes(j, "refused") /\ serial' = serial
        <3>1. Reason(applies[j])
            BY <1>1, <2>2 DEF Reason, TurnHolds
        <3>2. QED
            BY <1>1, <2>1, <2>2, <3>1, BecomesQueues
    <2>3. CASE Becomes(j, "applied") /\ serial' = serial
        BY <1>1, <2>1, <2>3, BecomesQueues
    <2>4. CASE Becomes(j, "applying") /\ serial' = serial + 1
        BY <1>1, <2>1, <2>4, BecomesQueues
    <2>5. QED
        BY <1>5, <2>2, <2>3, <2>4 DEF ApplyBegins
<1>6. CASE ApplyEnds(j)
    BY <1>1, <1>6, BecomesQueues DEF ApplyEnds
<1>7. CASE ApplyStepFails(j)
    BY <1>1, <1>7, BecomesQueues DEF ApplyStepFails
<1>8. QED
    BY <1>2, <1>3, <1>4, <1>5, <1>6, <1>7

\* Every step of the workflows keeps the queue, and no night touches it.
LEMMA StepKeepsQueue == ReviewInv /\ QueueInv /\ [Next]_vars => QueueInv'
<1> SUFFICES ASSUME ReviewInv, QueueInv, [Next]_vars
             PROVE  QueueInv'
    OBVIOUS
<1>1. ReviewInv'
    BY StepKeepsReview
<1>2. CASE UNCHANGED <<main, serial, running, pending, runs, blobs, manifest, applies>>
    BY <1>2 DEF QueueInv, RunHolds, TurnHolds, KnownJob, Reason
<1>3. CASE Nightly \/ UNCHANGED vars
    BY <1>2, <1>3 DEF Nightly, vars, custody
<1>4. CASE CustodyNext
    BY <1>1, <1>4, StartJobQueues, MainMovesQueues, DispatchPlanQueues, DispatchApplyQueues,
        RerunQueues, SavePlanQueues, UploadManifestQueues, PlanStepFailsQueues, ApplyStepQueues
        DEF CustodyNext
<1>5. QED
    BY <1>3, <1>4 DEF Next, Custody

\* The queue starts empty.
LEMMA CustodyBegins == Init => ReviewInv /\ QueueInv
<1> SUFFICES ASSUME Init PROVE ReviewInv /\ QueueInv
    OBVIOUS
<1>1. /\ runs = <<>> /\ applies = <<>> /\ blobs = {} /\ manifest = <<>>
      /\ main = 0 /\ serial = 0 /\ running = NoJob /\ pending = NoJob
    BY DEF Init, CustodyInit
<1>2. RecordsInv
    BY <1>1, EmptySeq DEF RecordsInv
<1>3. QED
    BY <1>1, <1>2, EmptySeq DEF ReviewInv, BlobInv, JobInv, QueueInv, KnownJob

\* An approved plan is refused only for a reason the operator can see: a run
\* that was repeated and meets the artifact of its first attempt, or a job that
\* another replaced in the queue, costs no good plan.
THEOREM RefusalsHaveReasons == Spec => []RefusedForAReason
<1>1. ReviewInv /\ QueueInv => RefusedForAReason
    <2> SUFFICES ASSUME QueueInv, NEW j \in DOMAIN applies, applies[j].at = "refused"
                 PROVE  LET a == applies[j]
                        IN  \/ a.kind # runs[a.run].kind \/ main # a.commit
                            \/ runs[a.run].attempt # a.sha \/ runs[a.run].hurt
                            \/ \E plan \in blobs : /\ <<plan.run, plan.attempt>> = <<a.run, a.sha>>
                                                   /\ plan.base # serial
        BY DEF RefusedForAReason
    <2>1. Reason(applies[j])
        BY DEF QueueInv, TurnHolds
    <2>2. QED
        BY <2>1 DEF Reason
<1>2. ReviewInv /\ [Next]_vars => ReviewInv'
    BY StepKeepsReview
<1>3. QED
    BY <1>1, <1>2, CustodyBegins, StepKeepsQueue, PTL DEF Spec

-----------------------------------------------------------------------------
(* The bounds: jobs take their turn in the order they were dispatched, so   *)
(* the state has no more serials than there were jobs                       *)

BoundsInv ==
    /\ allowed.main \in Nat /\ allowed.applies \in Nat
    /\ allowed.attempts \in Nat /\ allowed.attempts > 0
    /\ main <= allowed.main /\ Len(applies) <= allowed.applies /\ serial <= Len(applies)
    /\ \A i \in DOMAIN runs : runs[i].attempt <= allowed.attempts
    /\ \A j \in DOMAIN applies :
          /\ running = Apply(j) => serial <= j /\ (applies[j].at # "applying" => serial < j)
          /\ pending = Apply(j) => serial < j
          /\ \A k \in DOMAIN applies : running = Apply(j) /\ pending = Apply(k) => j < k

\* What neither starts a job, nor dispatches an approval, nor writes the state.
LEMMA BoundsStand ==
    ASSUME BoundsInv, allowed' = allowed, serial' = serial, main' <= allowed.main,
           DOMAIN applies' = DOMAIN applies, Len(applies') = Len(applies),
           \A i \in DOMAIN runs' : runs'[i].attempt <= allowed.attempts,
           \A j \in DOMAIN applies :
              /\ running' = Apply(j) =>
                    /\ running = Apply(j)
                    /\ applies'[j].at # "applying" => applies[j].at # "applying"
              /\ pending' = Apply(j) => pending = Apply(j)
    PROVE  BoundsInv'
BY DEF BoundsInv

\* A job that is dispatched, or repeated, in the place of the one that waited.
LEMMA DispatchBounds ==
    ASSUME ReviewInv, ReviewInv', QueueInv, BoundsInv,
           (\E kind \in Kinds : DispatchPlan(kind)) \/ (\E i \in DOMAIN runs : Rerun(i))
    PROVE  BoundsInv'
<1>1. /\ applies' = CancelApply(applies, pending)
      /\ UNCHANGED <<allowed, main, serial, running>>
      /\ \E i \in Nat : pending' = Plan(i)
    <2>1. CASE \E kind \in Kinds : DispatchPlan(kind)
        <3>1. Len(runs') \in Nat
            BY RunsAreTyped DEF ReviewInv, RecordsInv
        <3>2. QED
            BY <2>1, <3>1 DEF DispatchPlan
    <2>2. CASE \E i \in DOMAIN runs : Rerun(i)
        BY <2>2, CustodyTyped DEF Rerun
    <2>3. QED
        BY <2>1, <2>2
<1>2. /\ DOMAIN applies' = DOMAIN applies /\ Len(applies') = Len(applies)
      /\ \A j \in DOMAIN applies :
            \/ applies'[j].at = applies[j].at
            \/ running # Apply(j)
    BY <1>1, Cancels
<1>3. \A j \in DOMAIN applies : pending' # Apply(j)
    BY <1>1, CustodyTyped, JobsDiffer
<1>4. \A i \in DOMAIN runs' : runs'[i].attempt <= allowed.attempts
    <2>1. allowed.attempts \in Nat /\ allowed.attempts >= 1
        BY DEF BoundsInv
    <2>2. /\ Cancel(runs, pending) \in Seq(RunRecord)
          /\ DOMAIN Cancel(runs, pending) = DOMAIN runs
          /\ \A i \in DOMAIN runs : /\ Cancel(runs, pending)[i].attempt = runs[i].attempt
                                    /\ runs[i].attempt \in Nat
                                    /\ runs[i].attempt <= allowed.attempts
        BY Cancels, CustodyTyped DEF BoundsInv
    <2>3. CASE \E kind \in Kinds : DispatchPlan(kind)
        <3>1. PICK kind \in Kinds : DispatchPlan(kind)
            BY <2>3
        <3> DEFINE cs == Cancel(runs, pending)
                   r == [kind |-> kind, commit |-> main, attempt |-> 1, at |-> "open",
                         hurt |-> FALSE]
        <3>2. runs' = Append(cs, r) /\ r.attempt = 1
            BY <3>1 DEF DispatchPlan
        <3>3. cs \in Seq(RunRecord)
            BY <2>2
        <3>4. r \in RunRecord
            BY CustodyTyped DEF RunRecord
        <3> HIDE DEF cs, r
        <3>5. /\ DOMAIN Append(cs, r) = 1..(Len(cs) + 1)
              /\ \A i \in 1..Len(cs) : Append(cs, r)[i] = cs[i]
              /\ Append(cs, r)[Len(cs) + 1] = r
            <4>1. Append(cs, r) \in Seq(RunRecord) /\ Len(Append(cs, r)) = Len(cs) + 1
                BY <3>3, <3>4, AppendProperties
            <4>2. QED
                BY <3>3, <3>4, <4>1, AppendProperties, LenProperties
        <3>6. DOMAIN cs = 1..Len(cs) /\ Len(cs) \in Nat
            BY <3>3, RunsAreTyped
        <3>7. \A i \in DOMAIN runs' : i \in DOMAIN cs \/ i = Len(cs) + 1
            BY <3>2, <3>5, <3>6
        <3>8. \A i \in DOMAIN cs : runs'[i].attempt <= allowed.attempts
            BY <2>2, <3>2, <3>5, <3>6 DEF cs
        <3>9. QED
            BY <2>1, <3>2, <3>5, <3>7, <3>8
    <2>4. CASE \E i \in DOMAIN runs : Rerun(i)
        <3>1. PICK i \in DOMAIN runs : Rerun(i)
            BY <2>4
        <3> DEFINE cs == Cancel(runs, pending)
                   r == [cs[i] EXCEPT !.attempt = runs[i].attempt + 1, !.at = "open",
                                      !.hurt = FALSE]
        <3>2. runs' = [cs EXCEPT ![i] = r] /\ runs[i].attempt < allowed.attempts
            BY <3>1 DEF Rerun
        <3>3. r.attempt = runs[i].attempt + 1
            <4>1. cs[i] \in RunRecord
                BY <2>2, RunsAreTyped
            <4>2. QED
                BY <4>1 DEF RunRecord
        <3> HIDE DEF r
        <3>4. DOMAIN runs' = DOMAIN runs /\ runs'[i] = r
              /\ \A k \in DOMAIN runs : k # i => runs'[k] = cs[k]
            BY <2>2, <3>2
        <3>5. runs[i].attempt + 1 <= allowed.attempts
            BY <2>1, <2>2, <3>2
        <3>6. QED
            BY <2>2, <3>3, <3>4, <3>5
    <2>5. QED
        BY <2>3, <2>4
<1>5. main' <= allowed.main
    BY <1>1 DEF BoundsInv
<1>6. QED
    BY <1>1, <1>2, <1>3, <1>4, <1>5, BoundsStand

\* An approval is the youngest job.
LEMMA ApprovalBounds ==
    ASSUME ReviewInv, ReviewInv', QueueInv, BoundsInv, NEW kind \in Kinds, NEW plan \in blobs,
           DispatchApply(kind, plan)
    PROVE  BoundsInv'
<1> SUFFICES ASSUME NEW n, n = Len(applies) + 1
             PROVE  BoundsInv'
    OBVIOUS
<1> DEFINE as == CancelApply(applies, pending)
           a == [kind |-> kind, run |-> plan.run, commit |-> plan.commit,
                 sha |-> plan.attempt, at |-> "open", plan |-> plan, mains |-> {}]
<1>1. /\ Len(applies) < allowed.applies
      /\ runs' = Cancel(runs, pending) /\ applies' = Append(as, a)
      /\ pending' = Apply(Len(applies'))
      /\ UNCHANGED <<allowed, main, serial, running>>
    BY DEF DispatchApply
<1>2. as \in Seq(ApplyRecord) /\ Len(as) = Len(applies) /\ DOMAIN as = DOMAIN applies
    BY Cancels
<1>3. \A j \in DOMAIN applies : as[j].at = applies[j].at \/ running # Apply(j)
    BY Cancels
<1>4. a \in ApplyRecord
    <2>1. plan \in PlanRecord
        BY DEF ReviewInv, RecordsInv
    <2>2. QED
        BY <2>1 DEF ApplyRecord, PlanRecord, Steps
<1> HIDE DEF as, a
<1>5. Append(as, a) \in Seq(ApplyRecord) /\ Len(Append(as, a)) = Len(as) + 1
    <2>1. as \in Seq(ApplyRecord)
        BY <1>2
    <2>2. QED
        BY <1>4, <2>1, AppendProperties
<1>6. \A j \in 1..Len(as) : Append(as, a)[j] = as[j]
    <2>1. as \in Seq(ApplyRecord)
        BY <1>2
    <2>2. QED
        BY <1>4, <2>1, AppendProperties
<1>7. /\ DOMAIN applies = 1..Len(applies) /\ Len(applies) \in Nat /\ main \in Nat /\ serial \in Nat
      /\ \A i \in DOMAIN runs : i \in Nat
    BY CustodyTyped
<1>8. DOMAIN Append(as, a) = 1..n
    BY <1>2, <1>5, LenProperties
<1>9. Len(applies') = n /\ DOMAIN applies' = 1..n
    BY <1>1, <1>2, <1>5, <1>8
<1>10. \A j \in DOMAIN applies : applies'[j].at = applies[j].at \/ running # Apply(j)
    BY <1>1, <1>2, <1>3, <1>6, <1>7
<1>11. pending' = Apply(n) /\ n \in Nat
    BY <1>1, <1>7, <1>9
<1>12. running # Apply(n)
    <2>1. n \notin DOMAIN applies /\ \A j \in DOMAIN applies : j \in Nat
        BY <1>7
    <2>2. QED
        BY <1>7, <1>11, <2>1, JobsDiffer DEF QueueInv, KnownJob
<1>13. \A j \in 1..n : j \in Nat /\ (pending' = Apply(j) => j = n)
                       /\ (j # n => j \in DOMAIN applies /\ j < n)
    BY <1>7, <1>11, JobsDiffer
<1>14. \A i \in DOMAIN runs' : runs'[i].attempt <= allowed'.attempts
    BY <1>1, Cancels DEF BoundsInv
<1>15. /\ allowed'.main \in Nat /\ allowed'.applies \in Nat
       /\ allowed'.attempts \in Nat /\ allowed'.attempts > 0 /\ main' <= allowed'.main
    BY <1>1 DEF BoundsInv
<1>16. serial < n /\ n <= allowed.applies
    BY <1>1, <1>7 DEF BoundsInv
<1>17. ASSUME NEW j \in 1..n
       PROVE  /\ running' = Apply(j) => serial' <= j /\ (applies'[j].at # "applying" => serial' < j)
              /\ pending' = Apply(j) => serial' < j
              /\ \A k \in 1..n : running' = Apply(j) /\ pending' = Apply(k) => j < k
    <2>1. CASE running' = Apply(j)
        <3>1. j \in DOMAIN applies /\ j < n /\ running = Apply(j)
            BY <1>1, <1>12, <1>13, <2>1
        <3>2. serial <= j /\ (applies'[j].at # "applying" => serial < j)
            BY <1>10, <3>1 DEF BoundsInv
        <3>3. QED
            BY <1>1, <1>13, <1>16, <3>1, <3>2
    <2>2. CASE running' # Apply(j)
        BY <1>1, <1>13, <1>16, <2>2
    <2>3. QED
        BY <2>1, <2>2
<1>18. Len(applies') <= allowed'.applies /\ serial' <= Len(applies')
    BY <1>1, <1>7, <1>9, <1>11, <1>16
<1>19. \A j \in DOMAIN applies' :
          /\ running' = Apply(j) => serial' <= j /\ (applies'[j].at # "applying" => serial' < j)
          /\ pending' = Apply(j) => serial' < j
          /\ \A k \in DOMAIN applies' : running' = Apply(j) /\ pending' = Apply(k) => j < k
    BY <1>9, <1>17, Zenon
<1>20. QED
    BY <1>14, <1>15, <1>18, <1>19 DEF BoundsInv

\* A step of an apply job writes at most one serial, in its turn.
LEMMA ApplyStepBounds ==
    ASSUME ReviewInv, QueueInv, BoundsInv, NEW j \in DOMAIN applies,
           \/ VerifyChain(j) \/ Prepare(j) \/ VerifyMain(j)
           \/ ApplyBegins(j) \/ ApplyEnds(j) \/ ApplyStepFails(j)
    PROVE  BoundsInv'
<1>1. /\ serial \in Nat /\ applies[j] \in ApplyRecord
      /\ \A k \in DOMAIN applies : k \in Nat /\ (k # j => Apply(k) # Apply(j))
      /\ \A k \in DOMAIN applies : NoJob # Apply(k)
      /\ DOMAIN applies = 1..Len(applies) /\ Len(applies) \in Nat
    BY CustodyTyped, JobsDiffer
<1>2. running = Apply(j) /\ UNCHANGED <<allowed, main, runs>>
    BY DEF VerifyChain, Prepare, VerifyMain, ApplyBegins, ApplyEnds, ApplyStepFails, Turn
<1>3. main' <= allowed.main /\ \A i \in DOMAIN runs' : runs'[i].attempt <= allowed.attempts
    BY <1>2 DEF BoundsInv
<1>4. ASSUME NEW step \in {"verified", "checked", "applying", "applied", "broken", "refused"},
             Becomes(j, step)
      PROVE  /\ DOMAIN applies' = DOMAIN applies /\ Len(applies') = Len(applies)
             /\ applies'[j].at = step /\ \A k \in DOMAIN applies : k # j => applies'[k] = applies[k]
             /\ pending' = pending
             /\ running' = IF step \in {"refused", "broken", "applied"} THEN NoJob ELSE running
    <2>1. OneApplyMoves(j, [applies[j] EXCEPT !.at = step])
        BY <1>4, BecomesMoves DEF ReviewInv, Steps
    <2>2. /\ DOMAIN applies' = DOMAIN applies /\ Len(applies') = Len(applies)
          /\ \A k \in DOMAIN applies : k # j => applies'[k] = applies[k]
        <3>1. DOMAIN applies' = 1..Len(applies') /\ Len(applies') \in Nat
            BY <2>1, LenProperties DEF OneApplyMoves
        <3>2. QED
            BY <1>1, <2>1, <3>1 DEF OneApplyMoves
    <2>3. applies'[j].at = step
        BY <1>1, <2>1, ApplyMoves DEF OneApplyMoves, Steps
    <2>4. CASE step \in {"refused", "broken", "applied"}
        BY <1>4, <2>2, <2>3, <2>4 DEF Becomes, Release
    <2>5. CASE step \in {"verified", "checked", "applying"}
        BY <1>4, <2>2, <2>3, <2>5 DEF Becomes
    <2>6. QED
        BY <2>4, <2>5
<1>5. ASSUME NEW step \in {"verified", "checked", "applied", "broken", "refused"},
             Becomes(j, step), serial' = serial,
             applies[j].at # "applying" \/ step \in {"applied", "broken"}
      PROVE  BoundsInv'
    BY <1>1, <1>2, <1>3, <1>4, <1>5, BoundsStand
<1>6. CASE VerifyChain(j)
    BY <1>5, <1>6 DEF VerifyChain, Turn
<1>7. CASE VerifyMain(j)
    BY <1>5, <1>7 DEF VerifyMain, Turn
<1>8. CASE ApplyEnds(j)
    BY <1>5, <1>8 DEF ApplyEnds
<1>9. CASE ApplyStepFails(j)
    BY <1>5, <1>9 DEF ApplyStepFails
<1>10. CASE Prepare(j)
    <2>1. serial' = serial /\ applies[j].at = "verified"
        BY <1>10 DEF Prepare, Turn
    <2>2. CASE Becomes(j, "refused")
        BY <1>5, <2>1, <2>2
    <2>3. ASSUME NEW b, applies' = [applies EXCEPT ![j] = b], UNCHANGED <<running, pending>>
          PROVE  BoundsInv'
        <3>1. /\ DOMAIN applies' = DOMAIN applies
              /\ \A k \in DOMAIN applies : k # j => applies'[k] = applies[k]
            BY <2>3
        <3>2. Len(applies') = Len(applies)
            BY <2>3, ExceptSeq DEF ReviewInv, RecordsInv
        <3>3. QED
            BY <1>1, <1>2, <1>3, <2>1, <2>3, <3>1, <3>2, BoundsStand
    <2>4. QED
        BY <1>10, <2>2, <2>3 DEF Prepare
<1>11. CASE ApplyBegins(j)
    <2>1. applies[j].at = "checked"
        BY <1>11 DEF ApplyBegins, Turn
    <2>2. CASE serial' = serial /\ (Becomes(j, "refused") \/ Becomes(j, "applied"))
        BY <1>5, <2>1, <2>2
    <2>3. CASE serial' = serial + 1 /\ Becomes(j, "applying")
        <3>1. serial < j /\ j <= Len(applies)
            BY <1>1, <1>2, <2>1 DEF BoundsInv
        <3>2. serial' <= j /\ serial' <= Len(applies)
            BY <1>1, <2>3, <3>1
        <3>3. /\ DOMAIN applies' = DOMAIN applies /\ Len(applies') = Len(applies)
              /\ applies'[j].at = "applying" /\ pending' = pending /\ running' = running
            BY <1>4, <2>3
        <3>4. ASSUME NEW k \in DOMAIN applies
              PROVE  /\ running' = Apply(k) => serial' <= k /\ (applies'[k].at # "applying" => serial' < k)
                     /\ pending' = Apply(k) => serial' < k
                     /\ \A m \in DOMAIN applies : running' = Apply(k) /\ pending' = Apply(m) => k < m
            <4>1. running' = Apply(k) => k = j
                BY <1>1, <1>2, <3>3
            <4>2. pending' = Apply(k) => j < k
                BY <1>2, <3>3 DEF BoundsInv
            <4>3. \A m \in DOMAIN applies : running' = Apply(k) /\ pending' = Apply(m) => k < m
                BY <3>3 DEF BoundsInv
            <4>4. serial' \in Nat /\ k \in Nat /\ j \in Nat
                BY <1>1, <2>3
            <4>5. QED
                BY <3>2, <3>3, <4>1, <4>2, <4>3, <4>4
        <3>5. QED
            BY <1>2, <1>3, <3>2, <3>3, <3>4 DEF BoundsInv
    <2>4. QED
        BY <1>11, <2>2, <2>3 DEF ApplyBegins
<1>12. QED
    BY <1>6, <1>7, <1>8, <1>9, <1>10, <1>11

\* The bounds hold over every step.
LEMMA StepKeepsBounds ==
    ReviewInv /\ QueueInv /\ BoundsInv /\ [Next]_vars => BoundsInv'
<1> SUFFICES ASSUME ReviewInv, QueueInv, BoundsInv, [Next]_vars
             PROVE  BoundsInv'
    OBVIOUS
<1>1. ReviewInv' /\ QueueInv'
    BY StepKeepsReview, StepKeepsQueue
<1>2. /\ main \in Nat /\ main <= allowed.main /\ allowed.main \in Nat
      /\ \A i \in DOMAIN runs : runs[i].attempt <= allowed.attempts
      /\ \A j \in DOMAIN applies : NoJob # Apply(j)
    BY CustodyTyped, JobsDiffer DEF BoundsInv
<1>3. CASE UNCHANGED <<allowed, main, serial, running, pending, runs, applies>>
    BY <1>3 DEF BoundsInv
<1>4. CASE Nightly \/ UNCHANGED vars
    BY <1>3, <1>4 DEF Nightly, vars, custody
<1>5. CASE StartJob
    <2>1. /\ running' = pending /\ pending' = NoJob
          /\ UNCHANGED <<allowed, main, serial, runs, applies>>
        BY <1>5 DEF StartJob
    <2>2. \A j \in DOMAIN applies : pending = Apply(j) => serial < j /\ serial <= j
        BY CustodyTyped DEF BoundsInv
    <2>3. QED
        BY <1>2, <2>1, <2>2 DEF BoundsInv
<1>6. CASE MainMoves
    <2>1. /\ main < allowed.main /\ main' = main + 1
          /\ UNCHANGED <<allowed, serial, running, pending, runs>>
          /\ DOMAIN applies' = DOMAIN applies
        BY <1>6 DEF MainMoves
    <2>2. Len(applies') = Len(applies)
        BY <1>1, <2>1, CustodyTyped, LenProperties DEF ReviewInv, RecordsInv
    <2>3. ASSUME NEW j \in DOMAIN applies
          PROVE  applies'[j].at = applies[j].at
        <3> DEFINE m == IF applies[j].at = "ready" THEN applies[j].mains \cup {main'}
                        ELSE applies[j].mains
        <3>1. applies'[j] = [applies[j] EXCEPT !.mains = m]
            BY <1>6 DEF MainMoves
        <3> HIDE DEF m
        <3>2. applies[j] \in ApplyRecord
            BY CustodyTyped
        <3>3. QED
            BY <3>1, <3>2 DEF ApplyRecord
    <2>4. main' <= allowed.main
        BY <1>2, <2>1
    <2>5. QED
        BY <1>2, <2>1, <2>2, <2>3, <2>4, BoundsStand
<1>7. ASSUME NEW i \in DOMAIN runs, SavePlan(i) \/ UploadManifest(i) \/ PlanStepFails(i)
      PROVE  BoundsInv'
    <2>1. UNCHANGED <<allowed, main, serial, applies>>
        BY <1>7 DEF SavePlan, UploadManifest, PlanStepFails
    <2>2. \E hurt \in BOOLEAN, step \in {"saved", "success", "failure"} : Leaves(i, step, hurt)
        BY <1>7 DEF SavePlan, UploadManifest, PlanStepFails
    <2>3. /\ DOMAIN runs' = DOMAIN runs /\ \A k \in DOMAIN runs : k # i => runs'[k] = runs[k]
          /\ runs'[i].attempt = runs[i].attempt
          /\ pending' = pending /\ running' \in {running, NoJob}
        BY <2>2, LeavesRun
    <2>4. \A k \in DOMAIN runs' : runs'[k].attempt <= allowed.attempts
        BY <1>2, <2>3
    <2>5. QED
        BY <1>2, <2>1, <2>3, <2>4, BoundsStand
<1>8. CASE CustodyNext
    BY <1>1, <1>5, <1>6, <1>7, <1>8, DispatchBounds, ApprovalBounds, ApplyStepBounds DEF CustodyNext
<1>9. QED
    BY <1>4, <1>8 DEF Next, Custody

\* The nights that may have opened an issue.
Reported == {n \in Night : at[n] \in Finished}
IssueCount == issues <= 1 + Cardinality(Reported)

USE DEF NightTypes, Unfinished, Finished

\* A night opens one issue, as it ends.
LEMMA StepKeepsCount == NightInv /\ IssueCount /\ [Next]_vars => IssueCount'
<1> SUFFICES ASSUME NightInv, IssueCount, [Next]_vars
             PROVE  IssueCount'
    OBVIOUS
<1>1. /\ issues \in Nat /\ at \in [Night -> Unfinished \cup Finished]
      /\ IsFiniteSet(Reported) /\ Cardinality(Reported) \in Nat
    BY NightAssumption, FS_Subset, FS_CardinalityType DEF NightInv, Reported
<1>2. ASSUME Reported' = Reported, issues' \in Nat, issues' <= issues
      PROVE  IssueCount'
    BY <1>1, <1>2 DEF IssueCount
<1>3. ASSUME at' = at, issues' \in Nat, issues' <= issues
      PROVE  IssueCount'
    BY <1>2, <1>3 DEF Reported
<1>4. ASSUME NEW n \in Night, NEW step, at' = [at EXCEPT ![n] = step],
             step \in Finished <=> at[n] \in Finished, issues' = issues
      PROVE  IssueCount'
    BY <1>1, <1>2, <1>4 DEF Reported
<1>5. ASSUME NEW n \in Night, at[n] \notin Finished, at' = [at EXCEPT ![n] = "last"],
             issues' \in {issues, issues + 1}
      PROVE  IssueCount'
    <2>1. Reported' = Reported \cup {n} /\ n \notin Reported
        BY <1>1, <1>5 DEF Reported
    <2>2. Cardinality(Reported') = Cardinality(Reported) + 1
        BY <1>1, <2>1, FS_AddElement
    <2>3. QED
        BY <1>1, <1>5, <2>2 DEF IssueCount
<1>6. CASE Custody \/ UNCHANGED vars
    <2>1. UNCHANGED <<at, issues>>
        BY <1>6 DEF Custody, Drift!LabMoves, vars, nights
    <2>2. QED
        BY <1>1, <1>3, <2>1
<1>7. CASE Drift!IssueCloses
    BY <1>1, <1>3, <1>7 DEF Drift!IssueCloses
<1>8. ASSUME NEW n \in Night,
             \/ Drift!Start(n) \/ Drift!CheckPublic(n) \/ Drift!Login(n) \/ Drift!ProbeFails(n)
             \/ Drift!ProbeGroup(n) \/ Drift!ListZones(n) \/ Drift!GroupGone(n)
             \/ Drift!CheckAzure(n) \/ Drift!ListIssues(n)
      PROVE  IssueCount'
    <2>1. issues' = issues /\ at[n] \in Unfinished /\ \E step \in Unfinished : at' = [at EXCEPT ![n] = step]
        BY <1>8 DEF Drift!Start, Drift!CheckPublic, Drift!Login, Drift!ProbeFails, Drift!ProbeGroup,
            Drift!ListZones, Drift!GroupGone, Drift!CheckAzure, Drift!ListIssues, Drift!Step,
            Drift!Probed, Drift!steps
    <2>2. QED
        BY <1>4, <2>1
<1>9. ASSUME NEW n \in Night, Drift!LastStep(n)
      PROVE  IssueCount'
    <2>1. /\ issues' = issues /\ at[n] = "last"
          /\ \E step \in {"red", "green"} : at' = [at EXCEPT ![n] = step]
        BY <1>9 DEF Drift!LastStep, Drift!Step
    <2>2. QED
        BY <1>4, <2>1
<1>10. ASSUME NEW n \in Night,
              Drift!NothingToReport(n) \/ Drift!ReportDrift(n) \/ Drift!ReportFails(n)
       PROVE  IssueCount'
    <2>1. /\ at[n] \in {"list", "report"} /\ at' = [at EXCEPT ![n] = "last"]
          /\ issues' \in {issues, issues + 1}
        BY <1>10 DEF Drift!NothingToReport, Drift!ReportDrift, Drift!ReportFails, Drift!Step
    <2>2. QED
        BY <1>5, <2>1
<1>11. CASE Nightly
    BY <1>7, <1>8, <1>9, <1>10, <1>11 DEF Nightly, Drift!NightNext
<1>12. QED
    BY <1>6, <1>11 DEF Next

\* Both halves are well typed, the counters within their bounds.
THEOREM TypeCorrect == Spec => []TypeOK
<1>1. Init => BoundsInv /\ IssueCount
    <2> SUFFICES ASSUME Init PROVE BoundsInv /\ IssueCount
        OBVIOUS
    <2>1. BoundsInv
        BY EmptySeq DEF Init, CustodyInit, BoundsInv
    <2>2. issues \in 0..1 /\ Reported \subseteq Night
        BY DEF Init, Drift!NightInit, Reported
    <2>3. Cardinality(Reported) \in Nat
        BY <2>2, NightAssumption, FS_Subset, FS_CardinalityType
    <2>4. QED
        BY <2>1, <2>2, <2>3 DEF IssueCount
<1>2. ReviewInv /\ QueueInv /\ NightInv /\ BoundsInv => CustodyTypeOK
    <2> SUFFICES ASSUME ReviewInv, QueueInv, NightInv, BoundsInv PROVE CustodyTypeOK
        OBVIOUS
    <2>1. main \in 0..allowed.main /\ serial \in 0..allowed.applies /\ lab \in Labs
        BY CustodyTyped DEF BoundsInv, NightInv
    <2>2. \A job \in {running, pending} :
             \/ job = NoJob
             \/ \E i \in DOMAIN runs : job = Plan(i)
             \/ \E j \in DOMAIN applies : job = Apply(j)
        BY DEF QueueInv, KnownJob
    <2>3. ASSUME NEW i \in DOMAIN runs
          PROVE  /\ runs[i].attempt \in 1..allowed.attempts
                 /\ runs[i].at \in {"open", "saved", "success", "failure", "cancelled"}
                 /\ manifest[i] \in 0..runs[i].attempt
                 /\ runs[i].at = "success" => manifest[i] = runs[i].attempt
        BY CustodyTyped DEF BoundsInv, QueueInv, RunHolds
    <2>4. \A j \in DOMAIN applies : applies[j].at \in Steps
        BY CustodyTyped
    <2>5. \A plan \in blobs : plan.base \in 0..serial
        BY CustodyTyped
    <2>6. QED
        BY <2>1, <2>2, <2>3, <2>4, <2>5 DEF CustodyTypeOK, QueueInv, Steps
<1>3. NightInv /\ IssueCount => Drift!NightTypeOK
    <2> SUFFICES ASSUME NightInv, IssueCount PROVE Drift!NightTypeOK
        OBVIOUS
    <2>1. Reported \subseteq Night /\ Cardinality(Reported) <= Cardinality(Night)
          /\ Cardinality(Reported) \in Nat /\ Cardinality(Night) \in Nat
        BY NightAssumption, FS_Subset, FS_CardinalityType DEF Reported
    <2>2. issues \in 0..(1 + Cardinality(Night))
        BY <2>1 DEF IssueCount, NightInv
    <2>3. at \in [Night -> Drift!Over \cup {"public", "login", "group", "zone", "azure",
                                          "list", "report", "last"}]
        BY DEF NightInv, Drift!Over
    <2>4. /\ public \in [Night -> {"none"} \cup Drift!Codes]
          /\ azure \in [Night -> {"none"} \cup Drift!Codes]
        BY DEF NightInv, Drift!Codes
    <2>5. \A f \in {login, zone, report} : f \in [Night -> {"none"} \cup Drift!Outcomes]
        BY DEF NightInv, Drift!Outcomes
    <2>6. \A n \in Night : azure[n] # "none" => present[n]
        BY DEF NightInv, FoundSoFar
    <2>7. /\ present \in [Night -> BOOLEAN] /\ found \in [Night -> BOOLEAN]
          /\ labSeen \in [Night -> {"none", "down", "half", "up"}]
          /\ disturbed \subseteq Night /\ overlapped \in BOOLEAN
        BY DEF NightInv
    <2>8. Drift!Cardinality(Night) = Cardinality(Night)
        BY DEF Drift!Cardinality, Cardinality
    <2>9. QED
        BY <2>2, <2>3, <2>4, <2>5, <2>6, <2>7, <2>8, Zenon DEF Drift!NightTypeOK
<1>4. ReviewInv /\ QueueInv /\ NightInv /\ BoundsInv /\ IssueCount => TypeOK
    BY <1>2, <1>3 DEF TypeOK
<1>5. ReviewInv /\ [Next]_vars => ReviewInv'
    BY StepKeepsReview
<1>6. QED
    BY <1>1, <1>4, <1>5, CustodyBegins, StepKeepsQueue, StepKeepsBounds, StepKeepsCount,
        NightInvariant, PTL DEF Spec

=============================================================================
