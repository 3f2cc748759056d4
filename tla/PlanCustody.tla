---------------------------- MODULE PlanCustody ----------------------------
(***************************************************************************)
(* The chain from a saved Terraform plan to its application: plan.yml and  *)
(* the plan half of destroy.yml save a plan and a manifest of it, and      *)
(* apply.yml and the other half apply what an operator approved by its     *)
(* hash.  Jobs queue in the group terraform-mutations, main moves on its   *)
(* own, runs are repeated, steps fail.                                     *)
(*                                                                         *)
(* A commit is its place on main and a hash names the attempt of the run   *)
(* that saved the bytes.  Terraform is external: it refuses a plan that    *)
(* was made on another serial of the state.                                *)
(***************************************************************************)
EXTENDS Naturals, Sequences

CONSTANT NoJob

ASSUME CustodyAssumption == NoJob \notin {"plan", "apply"} \X Nat

VARIABLES
    allowed,    \* how many runs, attempts, applies and moves of main there may be
    main,       \* the commit at the head of main
    serial,     \* the serial of the state
    lab,        \* "down", "half" (a resource group without its zone) or "up"
    running, pending,   \* the concurrency group
    runs,       \* the plan runs, by run ID
    blobs,      \* the plans in the private container
    manifest,   \* of each run, the attempt whose manifest its artifact holds; 0 if none
    applies     \* the apply jobs

custody == <<allowed, main, serial, lab, running, pending, runs, blobs, manifest, applies>>

Kinds == {"apply", "destroy"}
Labs == {"down", "half", "up"}
Target(kind) == IF kind = "apply" THEN "up" ELSE "down"

Plan(i) == <<"plan", i>>
Apply(j) == <<"apply", j>>

-----------------------------------------------------------------------------
(* The concurrency group: one job runs, one waits (for its approval too),  *)
(* and a newer one replaces the one that waits.                            *)

Cancel(rs, job) ==
    [i \in DOMAIN rs |-> IF job = Plan(i) THEN [rs[i] EXCEPT !.at = "cancelled"] ELSE rs[i]]
CancelApply(as, job) ==
    [j \in DOMAIN as |-> IF job = Apply(j) THEN [as[j] EXCEPT !.at = "cancelled"] ELSE as[j]]

StartJob ==
    /\ running = NoJob /\ pending # NoJob
    /\ running' = pending /\ pending' = NoJob
    /\ UNCHANGED <<allowed, main, serial, lab, runs, blobs, manifest, applies>>

Release == running' = NoJob /\ UNCHANGED pending

-----------------------------------------------------------------------------
(* Main and the operator *)

MainMoves ==
    /\ main < allowed.main /\ main' = main + 1
    /\ applies' = [j \in DOMAIN applies |->
                     [applies[j] EXCEPT !.mains = IF applies[j].at = "ready" THEN @ \cup {main'}
                                                  ELSE @]]
    /\ UNCHANGED <<allowed, serial, lab, running, pending, runs, blobs, manifest>>

DispatchPlan(kind) ==
    /\ Len(runs) < allowed.runs
    /\ runs' = Append(Cancel(runs, pending),
                      [kind |-> kind, commit |-> main, attempt |-> 1, at |-> "open", hurt |-> FALSE])
    /\ applies' = CancelApply(applies, pending)
    /\ manifest' = Append(manifest, 0)
    /\ pending' = Plan(Len(runs'))
    /\ UNCHANGED <<allowed, main, serial, lab, running, blobs>>

Rerun(i) ==
    /\ runs[i].at \in {"success", "failure", "cancelled"}
    /\ runs[i].attempt < allowed.attempts
    /\ runs' = [Cancel(runs, pending) EXCEPT
                  ![i] = [@ EXCEPT !.attempt = runs[i].attempt + 1, !.at = "open", !.hurt = FALSE]]
    /\ applies' = CancelApply(applies, pending)
    /\ pending' = Plan(i)
    /\ UNCHANGED <<allowed, main, serial, lab, running, blobs, manifest>>

(* The operator approves a saved plan he has read, at either workflow. *)
DispatchApply(kind, plan) ==
    /\ Len(applies) < allowed.applies
    /\ applies' = Append(CancelApply(applies, pending),
                         [kind |-> kind, run |-> plan.run, commit |-> plan.commit,
                          sha |-> plan.attempt, at |-> "open", plan |-> plan, mains |-> {}])
    /\ runs' = Cancel(runs, pending)
    /\ pending' = Apply(Len(applies'))
    /\ UNCHANGED <<allowed, main, serial, lab, running, blobs, manifest>>

-----------------------------------------------------------------------------
(* A plan job *)

Leaves(i, at, hurt) ==
    /\ runs' = [runs EXCEPT ![i] = [@ EXCEPT !.at = at, !.hurt = hurt]]
    /\ IF at \in {"success", "failure"} THEN Release ELSE UNCHANGED <<running, pending>>

(* terraform plan, and the upload of its bytes.  Only a destroy plan asks  *)
(* first whether main is still the commit.                                 *)
SavePlan(i) ==
    /\ running = Plan(i) /\ runs[i].at = "open"
    /\ IF runs[i].kind = "destroy" /\ main # runs[i].commit
       THEN Leaves(i, "failure", FALSE) /\ UNCHANGED blobs
       ELSE /\ Leaves(i, "saved", FALSE)
            /\ blobs' = blobs \cup {[run |-> i, attempt |-> runs[i].attempt, kind |-> runs[i].kind,
                                     commit |-> runs[i].commit, base |-> serial]}
    /\ UNCHANGED <<allowed, main, serial, lab, manifest, applies>>

(* Variant: an artifact of that name is not overwritten. *)
UploadOnce(i) == manifest[i] = 0

Uploads(i) == TRUE

(* Variant: the artifact keeps the manifest it had. *)
FirstManifest(i) == IF manifest[i] = 0 THEN runs[i].attempt ELSE manifest[i]

LastManifest(i) == runs[i].attempt

UploadManifest(i) ==
    /\ running = Plan(i) /\ runs[i].at = "saved"
    /\ IF Uploads(i)
       THEN Leaves(i, "success", FALSE) /\ manifest' = [manifest EXCEPT ![i] = LastManifest(i)]
       ELSE Leaves(i, "failure", FALSE) /\ UNCHANGED manifest
    /\ UNCHANGED <<allowed, main, serial, lab, blobs, applies>>

PlanStepFails(i) ==
    /\ running = Plan(i) /\ Leaves(i, "failure", TRUE)
    /\ UNCHANGED <<allowed, main, serial, lab, blobs, manifest, applies>>

-----------------------------------------------------------------------------
(* An apply job *)

Turn(j, at) == running = Apply(j) /\ applies[j].at = at

Becomes(j, at) ==
    /\ applies' = [applies EXCEPT ![j].at = at]
    /\ IF at \in {"refused", "broken", "applied"} THEN Release ELSE UNCHANGED <<running, pending>>

(* The run, its artifact and the approval belong together.  The commit of  *)
(* a run and the kind and commit of its manifest are those of the run.     *)
ChainHolds(a) ==
    /\ main = a.commit
    /\ runs[a.run].at = "success" /\ runs[a.run].commit = a.commit
    /\ runs[a.run].kind = a.kind
    /\ manifest[a.run] = a.sha

VerifyChain(j) ==
    /\ Turn(j, "open")
    /\ Becomes(j, IF ChainHolds(applies[j]) THEN "verified" ELSE "refused")
    /\ UNCHANGED <<allowed, main, serial, lab, runs, blobs, manifest>>

(* The blob the manifest names is downloaded and hashed; terraform init. *)
Prepare(j) ==
    /\ Turn(j, "verified")
    /\ \E plan \in blobs :
          /\ plan.run = applies[j].run /\ plan.attempt = manifest[applies[j].run]
          /\ IF plan.attempt = applies[j].sha
             THEN /\ applies' = [applies EXCEPT ![j] = [@ EXCEPT !.at = "ready", !.plan = plan,
                                                                 !.mains = {main}]]
                  /\ UNCHANGED <<running, pending>>
             ELSE Becomes(j, "refused")
    /\ UNCHANGED <<allowed, main, serial, lab, runs, blobs, manifest>>

(* Variant: only the early check looks at main. *)
MainUnasked(a) == TRUE

MainUnmoved(a) == main = a.commit

VerifyMain(j) ==
    /\ Turn(j, "ready")
    /\ Becomes(j, IF MainUnmoved(applies[j]) THEN "checked" ELSE "refused")
    /\ UNCHANGED <<allowed, main, serial, lab, runs, blobs, manifest>>

(* terraform apply; a plan that changes nothing leaves the serial alone. *)
ApplyBegins(j) ==
    /\ Turn(j, "checked")
    /\ LET plan == applies[j].plan
       IN  IF plan.base # serial THEN Becomes(j, "refused") /\ UNCHANGED <<serial, lab>>
           ELSE IF lab = Target(plan.kind) THEN Becomes(j, "applied") /\ UNCHANGED <<serial, lab>>
           ELSE Becomes(j, "applying") /\ serial' = serial + 1 /\ lab' = "half"
    /\ UNCHANGED <<allowed, main, runs, blobs, manifest>>

ApplyEnds(j) ==
    /\ Turn(j, "applying") /\ Becomes(j, "applied")
    /\ lab' = Target(applies[j].plan.kind)
    /\ UNCHANGED <<allowed, main, serial, runs, blobs, manifest>>

ApplyStepFails(j) ==
    /\ running = Apply(j) /\ Becomes(j, "broken")
    /\ UNCHANGED <<allowed, main, serial, lab, runs, blobs, manifest>>

-----------------------------------------------------------------------------

CustodyNext ==
    \/ StartJob \/ MainMoves
    \/ \E kind \in Kinds : DispatchPlan(kind) \/ \E plan \in blobs : DispatchApply(kind, plan)
    \/ \E i \in DOMAIN runs : Rerun(i) \/ SavePlan(i) \/ UploadManifest(i) \/ PlanStepFails(i)
    \/ \E j \in DOMAIN applies :
          \/ VerifyChain(j) \/ Prepare(j) \/ VerifyMain(j)
          \/ ApplyBegins(j) \/ ApplyEnds(j) \/ ApplyStepFails(j)

CustodyInit ==
    /\ \A bound \in {"runs", "attempts", "applies", "main"} : allowed[bound] \in Nat
    /\ allowed.attempts > 0
    /\ main = 0 /\ serial = 0 /\ lab \in {"down", "up"}
    /\ running = NoJob /\ pending = NoJob
    /\ runs = <<>> /\ blobs = {} /\ manifest = <<>> /\ applies = <<>>

-----------------------------------------------------------------------------
(* Properties *)

CustodyTypeOK ==
    /\ main \in 0..allowed.main /\ serial \in 0..allowed.applies /\ lab \in Labs
    /\ \A job \in {running, pending} :
          \/ job = NoJob
          \/ \E i \in DOMAIN runs : job = Plan(i)
          \/ \E j \in DOMAIN applies : job = Apply(j)
    /\ running # NoJob => running # pending
    /\ \A i \in DOMAIN runs :
          /\ runs[i].attempt \in 1..allowed.attempts
          /\ runs[i].at \in {"open", "saved", "success", "failure", "cancelled"}
          /\ manifest[i] \in 0..runs[i].attempt
          /\ runs[i].at = "success" => manifest[i] = runs[i].attempt
    /\ \A j \in DOMAIN applies :
          applies[j].at \in {"open", "verified", "ready", "checked", "applying",
                             "applied", "broken", "refused", "cancelled"}
    /\ \A plan \in blobs : plan.base \in 0..serial

(* What changes the lab is the plan whose hash was approved, of the kind   *)
(* the workflow is for, saved by a run of a commit that was still main     *)
(* after the job was ready to apply.  The window between the last look at  *)
(* main and the apply remains.                                             *)
AppliedAsReviewed ==
    \A j \in DOMAIN applies : LET a == applies[j] IN
        a.at \in {"applying", "applied"} =>
            /\ a.plan.kind = a.kind
            /\ <<a.plan.run, a.plan.attempt, a.plan.commit>> = <<a.run, a.sha, a.commit>>
            /\ a.commit \in a.mains

(* An approved plan is refused only because it was taken to the wrong      *)
(* workflow, main moved, the state changed, or its run failed, was         *)
(* repeated or is not over: a good plan is never lost, least of all to a   *)
(* repeated run that meets the artifact of the first attempt.              *)
RefusedForAReason ==
    \A j \in DOMAIN applies : LET a == applies[j] IN
        a.at = "refused" =>
            \/ a.kind # runs[a.run].kind \/ main # a.commit
            \/ runs[a.run].attempt # a.sha \/ runs[a.run].hurt
            \/ \E plan \in blobs : /\ <<plan.run, plan.attempt>> = <<a.run, a.sha>>
                                   /\ plan.base # serial
=============================================================================
