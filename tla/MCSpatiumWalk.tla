--------------------------- MODULE MCSpatiumWalk ----------------------------
(***************************************************************************)
(* SpatiumWalk over collections of up to MaxRows rows.  The server's order *)
(* of the rows it starts with is fixed: rows differ in nothing else.       *)
(***************************************************************************)
EXTENDS SpatiumWalk

CONSTANTS MaxRows

MCRow == 1..(MaxRows + 1)

MCInit ==
    /\ \E n \in 0..MaxRows : rows = [i \in 1..n |-> i]
    /\ style \in Styles /\ totals \in BOOLEAN
    /\ pc = "read" /\ url = FirstUrl /\ page = 0
    /\ items = {} /\ count = 0 /\ declared = Missing /\ metadataOk = TRUE /\ bare = FALSE
    /\ verified = FALSE
    /\ stable = Listed /\ edits = 0 /\ faulted = FALSE /\ garbled = FALSE

MCSpec == MCInit /\ [][Next]_vars /\ WF_vars(Progress)
=============================================================================
