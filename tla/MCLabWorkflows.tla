--------------------------- MODULE MCLabWorkflows ---------------------------
(***************************************************************************)
(* LabWorkflows in two scopes: repeated plan runs and a moving main with   *)
(* no night, and two nights around one build or destruction of the lab.    *)
(***************************************************************************)
EXTENDS LabWorkflows, TLC

CONSTANTS MaxAttempts, MaxMain

MCNights == Permutations(Night)

Planning == [runs |-> 2, attempts |-> MaxAttempts, applies |-> 2, main |-> MaxMain, nights |-> 0]
Nights == [runs |-> 1, attempts |-> 1, applies |-> 1, main |-> 0, nights |-> 2]

MCInit ==
    /\ allowed \in {Planning, Nights}
    /\ Init
    /\ allowed = Planning => lab = "down" /\ issues = 0

MCNext == Custody \/ (allowed.nights > 0 /\ Nightly)

MCSpec == MCInit /\ [][MCNext]_vars
=============================================================================
