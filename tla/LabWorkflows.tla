---------------------------- MODULE LabWorkflows ----------------------------
(***************************************************************************)
(* The workflows over one lab: what PlanCustody builds and destroys is     *)
(* what the nights of DriftNight find.  Drift runs are in no concurrency   *)
(* group, so they meet the lab at any point of an apply or a destroy.      *)
(***************************************************************************)
EXTENDS PlanCustody, FiniteSets

CONSTANT Night

ASSUME NightAssumption == IsFiniteSet(Night)

VARIABLES at, public, login, zone, present, azure, report, found, issues,
          labSeen, disturbed, overlapped

Drift == INSTANCE DriftNight

nights == <<at, public, login, zone, present, azure, report, found, issues,
            labSeen, disturbed, overlapped>>

vars == <<custody, nights>>

Custody ==
    /\ CustodyNext
    /\ IF lab' = lab THEN UNCHANGED nights ELSE Drift!LabMoves

Nightly ==
    /\ Drift!NightNext
    /\ UNCHANGED <<allowed, main, serial, running, pending, runs, blobs, manifest, applies>>

Init == CustodyInit /\ Drift!NightInit

Next == Custody \/ Nightly

Spec == Init /\ [][Next]_vars

-----------------------------------------------------------------------------
(* Properties *)

(* Both halves are well typed. *)
TypeOK == CustodyTypeOK /\ Drift!NightTypeOK

(* The colour of every night is true, and no drift goes unreported, while  *)
(* the lab is built, destroyed or left half built by an interrupted apply. *)
NightIsTrue == Drift!NightIsTrue

(* One open drift issue, unless nights overlapped. *)
OneIssueUnlessOverlapped == Drift!OneIssueUnlessOverlapped
=============================================================================
