--------------------------- MODULE TruthRegister ----------------------------
(***************************************************************************)
(* What the committed snapshot of truth promises to those who read it: a   *)
(* register that becomes an admitted export as a whole, in one step, and   *)
(* loses records only to an export that was told it may.  Exports that     *)
(* overlap can leave it unreadable; nothing leaves it wrong and trusted.   *)
(***************************************************************************)
EXTENDS Naturals, FiniteSets

CONSTANTS
    Exporter,       \* those who export
    Snapshot,       \* what can be exported: records, and whether they are vouched for
    NoFile,         \* there is no snapshot
    Broken          \* there is a file, and reading it is refused

VARIABLES
    snap,           \* what a reader of the snapshot gets
    asking,         \* exporters told that records may be lost, until admitted
    inFlight,       \* exporters between admission and the end
    exported,       \* everything that was ever admitted
    pool,           \* what was admitted since nobody was last in flight
    overlap,        \* two of these exports were in flight together
    handEdits       \* how often the file was edited by hand

vars == <<snap, asking, inFlight, exported, pool, overlap, handEdits>>

Init ==
    /\ snap \in Snapshot \cup {NoFile} /\ exported = {snap} \ {NoFile}
    /\ asking \subseteq Exporter
    /\ inFlight = {} /\ pool = {} /\ overlap = FALSE /\ handEdits = 0

(* An unreadable snapshot counts as one that would lose records. *)
KeepsRecords(s) ==
    \/ snap = NoFile
    \/ snap \notin {NoFile, Broken} /\ Cardinality(s.records) >= Cardinality(snap.records)

Ask ==
    /\ asking' \subseteq Exporter
    /\ UNCHANGED <<snap, inFlight, exported, pool, overlap, handEdits>>

Admit(e) ==
    /\ e \notin inFlight
    /\ inFlight' = inFlight \cup {e}
    /\ \E s \in pool' :
          /\ s \in Snapshot
          /\ e \in asking \/ KeepsRecords(s)
          /\ pool' = pool \cup {s} /\ exported' = exported \cup {s}
    /\ overlap' = (overlap \/ inFlight # {})
    /\ asking' = asking \ {e}
    /\ UNCHANGED <<snap, handEdits>>

(* An exporter leaves; the last one takes the memory of the others along. *)
Leave(e) ==
    /\ inFlight' = inFlight \ {e}
    /\ pool' = IF inFlight' = {} THEN {} ELSE pool
    /\ overlap' = (overlap /\ inFlight' # {})
    /\ UNCHANGED <<asking, exported, handEdits>>

Withdraw(e) == e \in inFlight /\ Leave(e) /\ UNCHANGED snap

Becomes == pool \cup (IF overlap THEN {Broken} ELSE {})

Publish(e) == e \in inFlight /\ snap' \in Becomes /\ Leave(e)

(* Only exports that overlap write into a file that is already published. *)
Spill ==
    /\ overlap /\ snap' \in Becomes
    /\ UNCHANGED <<asking, inFlight, exported, pool, overlap, handEdits>>

(* Nobody but an editor changes the file outside an export, and an edit is *)
(* trusted only if it brings back what was exported once.                  *)
HandEdit ==
    /\ snap' \in Snapshot \cup {Broken}
    /\ snap' # Broken /\ snap'.verified => snap' \in exported
    /\ handEdits' = handEdits + 1
    /\ UNCHANGED <<asking, inFlight, exported, pool, overlap>>

Next ==
    \/ \E e \in Exporter : Admit(e) \/ Withdraw(e) \/ Publish(e)
    \/ Ask \/ Spill \/ HandEdit

Spec == Init /\ [][Next]_vars
=============================================================================
