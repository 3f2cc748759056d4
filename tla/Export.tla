------------------------------- MODULE Export -------------------------------
(***************************************************************************)
(* cham-reconcile --export and the snapshot it writes: fetch_desired, then *)
(* save_desired, by several exporters at once, each of which may be killed *)
(* anywhere, on one file that people also edit by hand; and load_desired,  *)
(* which decides what a reader gets from that file.                        *)
(* A file is an inode: replacing moves a name to another inode, and who    *)
(* has an inode open writes to it wherever its name has gone.              *)
(***************************************************************************)
EXTENDS SpatiumFetch

CONSTANTS
    Exporter,       \* processes that export
    Scope,          \* the zones each one selects with --edge
    MaxExports,     \* bound on exports
    MaxHandEdits,   \* bound on edits of the file by hand
    SnapshotVersion, \* SNAPSHOT_VERSION
    OtherVersion,   \* any other one
    Garbled,        \* text that is no JSON: empty, cut short, two writes mixed
    Nobody,         \* no inode
    NoFile, Broken, \* what a reader gets when there is nothing to get
    Off             \* no fetch, no walk, no export

VARIABLES
    pc,             \* where each exporter is
    shrink,         \* its --allow-snapshot-shrink
    fetch,          \* its fetch of truth
    walk,           \* the walk it is in
    stable,         \* rows in truth since that fetch began, on no path whose walk was lost
    body,           \* what it is about to save
    fd,             \* the inode it has open
    name,           \* the inodes behind the snapshot and its temporary name
    disk,           \* the content of each inode
    exports, handEdits,
    fetched,        \* every fetch that was saved, and whether it was whole
    pool, overlap   \* exports admitted since nobody was in flight; did two meet

exporters == <<pc, shrink, fetch, walk, stable, body, fd>>
files == <<name, disk>>
history == <<exports, handEdits, fetched, pool, overlap>>
vars == <<server, exporters, files, history>>

Inode == 1..(MaxExports + 1)
Inside == {"admitted", "opened", "written"}
InFlight == {e \in Exporter : pc[e] \in Inside}

Records == UNION {Canonical(rows) : rows \in SUBSET Row}
Snapshots == [records : SUBSET Records, verified : BOOLEAN]
Lists == [list : SUBSET Records]
Envelopes == [version : {SnapshotVersion, OtherVersion}, records : SUBSET Records, count : Int,
              verified : BOOLEAN, checksum : {SnapshotVersion} \X BOOLEAN \X Nat \X SUBSET Records]

ASSUME ExportAssumption ==
    /\ Scope \in [Exporter -> SUBSET Zone] /\ IsFiniteSet(Exporter)
    /\ MaxExports \in Nat /\ MaxHandEdits \in Nat
    /\ OtherVersion # SnapshotVersion
    /\ Off \notin Fetch \cup Snapshots \cup Walk
    /\ NoFile \notin Snapshots /\ Broken \notin Snapshots /\ NoFile # Broken
    /\ Nobody \notin Nat /\ Nobody # Garbled
    /\ Nobody \notin Lists \cup Envelopes /\ Garbled \notin Lists \cup Envelopes

-----------------------------------------------------------------------------
(* The file *)

Checksum(records, verified) == <<SnapshotVersion, verified, Cardinality(records), records>>

Envelope(s) ==
    [version |-> SnapshotVersion, records |-> s.records, count |-> Cardinality(s.records),
     verified |-> s.verified, checksum |-> Checksum(s.records, s.verified)]

BareList(records) == [list |-> records]
IsList(content) == content # Garbled /\ "list" \in DOMAIN content

(* _verify_envelope *)
EnvelopeHolds(content) ==
    /\ content.version = SnapshotVersion
    /\ content.count = Cardinality(content.records)
    /\ content.checksum = Checksum(content.records, content.verified)

(* load_desired *)
Load(content) ==
    IF content = Garbled THEN Broken
    ELSE IF IsList(content) THEN [records |-> content.list, verified |-> FALSE]
    ELSE IF EnvelopeHolds(content)
         THEN [records |-> content.records, verified |-> content.verified]
         ELSE Broken

View == IF name["path"] = Nobody THEN NoFile ELSE Load(disk[name["path"]])

(* _prior_count and the comparison with it *)
PriorAllows(s) ==
    \/ View = NoFile
    \/ View \notin {NoFile, Broken} /\ Cardinality(s.records) >= Cardinality(View.records)

-----------------------------------------------------------------------------
(* One export *)

Idle(e) == [pc EXCEPT ![e] = "idle"]

(* It ends, however it came to that; what it left behind stays. *)
End(e) ==
    /\ pc' = Idle(e)
    /\ shrink' = [shrink EXCEPT ![e] = FALSE]
    /\ fetch' = [fetch EXCEPT ![e] = Off]
    /\ walk' = [walk EXCEPT ![e] = Off]
    /\ stable' = [stable EXCEPT ![e] = {}]
    /\ body' = [body EXCEPT ![e] = Off]
    /\ fd' = [fd EXCEPT ![e] = Nobody]
    /\ pool' = IF InFlight \subseteq {e} THEN {} ELSE pool
    /\ overlap' = (overlap /\ ~(InFlight \subseteq {e}))
    /\ UNCHANGED <<exports, handEdits, fetched>>

Begin(e) ==
    /\ pc[e] = "idle" /\ exports < MaxExports /\ exports' = exports + 1
    /\ pc' = [pc EXCEPT ![e] = "fetching"]
    /\ \E allowed \in BOOLEAN : shrink' = [shrink EXCEPT ![e] = allowed]
    /\ fetch' = [fetch EXCEPT ![e] = StartFetch(Scope[e])]
    /\ stable' = [stable EXCEPT ![e] = truth]
    /\ UNCHANGED <<server, walk, body, fd, files, handEdits, fetched, pool, overlap>>

BeginWalk(e) ==
    /\ pc[e] = "fetching" /\ walk[e] = Off
    /\ \E path \in Deepest(fetch[e].todo), damaged \in BOOLEAN :
          walk' = [walk EXCEPT ![e] = StartWalk(path, damaged)]
    /\ UNCHANGED <<server, pc, shrink, fetch, stable, body, fd, files, history>>

EndWalk(e) ==
    /\ pc[e] = "fetching" /\ walk[e] # Off
    /\ \E certified \in BOOLEAN :
          /\ unproven' = IF certified THEN unproven ELSE unproven + 1
          /\ \E f \in Reads(fetch[e], walk[e], certified) :
                \/ /\ f # Raised
                   /\ fetch' = [fetch EXCEPT ![e] = f] /\ walk' = [walk EXCEPT ![e] = Off]
                   /\ UNCHANGED <<pc, shrink, stable, body, fd, history>>
                \/ f = Raised /\ End(e)
    /\ unproven' <= MaxUnproven
    /\ UNCHANGED <<homes, truth, edits, files>>

(* The fetch is over: its verdict travels with its records. *)
Saved(f) == [records |-> Canonical(f.grouped), verified |-> f.verified]

Admit(e) ==
    /\ pc[e] = "fetching" /\ fetch[e].todo = {} /\ Representable(fetch[e].grouped)
    /\ LET s == Saved(fetch[e]) IN
       /\ shrink[e] \/ PriorAllows(s)
       /\ body' = [body EXCEPT ![e] = s]
       /\ fetched' = fetched \cup {[snapshot |-> s,
                                    whole |-> Delivers(s.records, Scope[e], stable[e])]}
       /\ pool' = pool \cup {s}
    /\ overlap' = (overlap \/ InFlight # {})
    /\ pc' = [pc EXCEPT ![e] = "admitted"]
    /\ shrink' = [shrink EXCEPT ![e] = FALSE]
    /\ fetch' = [fetch EXCEPT ![e] = Off]
    /\ stable' = [stable EXCEPT ![e] = {}]
    /\ UNCHANGED <<server, walk, fd, files, exports, handEdits>>

Refuse(e) ==
    /\ pc[e] = "fetching" /\ fetch[e].todo = {}
    /\ Representable(fetch[e].grouped) => ~shrink[e] /\ ~PriorAllows(Saved(fetch[e]))
    /\ End(e)
    /\ UNCHANGED <<server, files>>

FreeInode == CHOOSE i \in Inode : disk[i] = Nobody /\ \A j \in 1..(i - 1) : disk[j] # Nobody

(* Variant: the snapshot itself is opened. *)
OpenInPlace(e) ==
    /\ pc[e] = "admitted"
    /\ LET i == IF name["path"] = Nobody THEN FreeInode ELSE name["path"] IN
       /\ fd' = [fd EXCEPT ![e] = i]
       /\ name' = [name EXCEPT !["path"] = i]
       /\ disk' = [disk EXCEPT ![i] = Garbled]
    /\ pc' = [pc EXCEPT ![e] = "opened"]
    /\ UNCHANGED <<server, shrink, fetch, walk, stable, body, history>>

(* write_text truncates the temporary file, or creates it. *)
Open(e) ==
    /\ pc[e] = "admitted"
    /\ LET i == IF name["tmp"] = Nobody THEN FreeInode ELSE name["tmp"] IN
       /\ fd' = [fd EXCEPT ![e] = i]
       /\ name' = [name EXCEPT !["tmp"] = i]
       /\ disk' = [disk EXCEPT ![i] = Garbled]
    /\ pc' = [pc EXCEPT ![e] = "opened"]
    /\ UNCHANGED <<server, shrink, fetch, walk, stable, body, history>>

(* Part of the text is out. *)
WriteSome(e) ==
    /\ pc[e] = "opened" /\ disk[fd[e]] # Garbled
    /\ disk' = [disk EXCEPT ![fd[e]] = Garbled]
    /\ UNCHANGED <<server, exporters, name, history>>

(* All of it is; behind it may be the rest of a longer text. *)
WriteAll(e) ==
    /\ pc[e] = "opened"
    /\ \/ disk' = [disk EXCEPT ![fd[e]] = Envelope(body[e])]
       \/ overlap /\ disk' = [disk EXCEPT ![fd[e]] = Garbled]
    /\ pc' = [pc EXCEPT ![e] = "written"]
    /\ UNCHANGED <<server, shrink, fetch, walk, stable, body, fd, name, history>>

(* Variant: the temporary name stays. *)
ReplaceByLink(e) ==
    /\ pc[e] = "written"
    /\ name' = IF name["tmp"] = Nobody THEN name ELSE [name EXCEPT !["path"] = name["tmp"]]
    /\ End(e)
    /\ UNCHANGED <<server, disk>>

(* Variant: a rename that finds nothing is tried again. *)
ReplaceWhenThere(e) ==
    /\ pc[e] = "written" /\ name["tmp"] # Nobody
    /\ name' = [name EXCEPT !["path"] = name["tmp"], !["tmp"] = Nobody]
    /\ End(e)
    /\ UNCHANGED <<server, disk>>

(* os.replace fails when another export has moved the temporary file away. *)
Replace(e) ==
    /\ pc[e] = "written"
    /\ name' = IF name["tmp"] = Nobody THEN name
               ELSE [name EXCEPT !["path"] = name["tmp"], !["tmp"] = Nobody]
    /\ End(e)
    /\ UNCHANGED <<server, disk>>

(* Ctrl-C, a full disk, a closed laptop. *)
Interrupt(e) == pc[e] # "idle" /\ End(e) /\ UNCHANGED <<server, files>>

-----------------------------------------------------------------------------
(* Others *)

EditTruth ==
    /\ Edit
    /\ walk' = [e \in Exporter |-> IF walk[e] = Off THEN Off ELSE Under(walk[e])]
    /\ stable' = [e \in Exporter |->
           {r \in stable[e] \cap truth' :
               walk'[e] # Off /\ Lost(walk'[e]) => ~Leads(walk'[e].path, r)}]
    /\ UNCHANGED <<pc, shrink, fetch, body, fd, files, history>>

(* A merge conflict, a dropped or added record, a flipped flag, a rewritten *)
(* count, an older format; nobody recomputes the checksum by hand.         *)
Edited(content) ==
    {Garbled} \cup
    (IF content = Garbled \/ IsList(content) THEN {}
     ELSE {BareList(content.records)}
          \cup {[content EXCEPT !.version = OtherVersion], [content EXCEPT !.verified = ~@]}
          \cup {[content EXCEPT !.records = @ \ {c}] : c \in content.records}
          \cup {[content EXCEPT !.records = @ \ {c}, !.count = @ - 1] : c \in content.records})

EditByHand ==
    /\ handEdits < MaxHandEdits /\ handEdits' = handEdits + 1
    /\ name["path"] # Nobody
    /\ \E content \in Edited(disk[name["path"]]) : disk' = [disk EXCEPT ![name["path"]] = content]
    /\ UNCHANGED <<server, exporters, name, exports, fetched, pool, overlap>>

-----------------------------------------------------------------------------

ExportStep(e) ==
    Begin(e) \/ BeginWalk(e) \/ EndWalk(e) \/ Admit(e) \/ Refuse(e) \/ Open(e) \/ WriteSome(e)
    \/ WriteAll(e) \/ Replace(e) \/ Interrupt(e)

Next == (\E e \in Exporter : ExportStep(e)) \/ EditTruth \/ EditByHand

(* An export that can take its next step takes it: requests have a timeout. *)
Progress(e) ==
    BeginWalk(e) \/ EndWalk(e) \/ Admit(e) \/ Refuse(e) \/ Open(e) \/ WriteAll(e) \/ Replace(e)

AllRows == [wanted |-> Zone, todo |-> {}, grouped |-> {r \in truth : Supported(r)},
            verified |-> TRUE]

Init ==
    /\ homes \in SUBSET (Group \X Zone) /\ edits = 0 /\ unproven = 0
    /\ truth \in SUBSET {r \in Row : <<r.group, r.zone>> \in homes}
    /\ pc = [e \in Exporter |-> "idle"] /\ shrink = [e \in Exporter |-> FALSE]
    /\ fetch = [e \in Exporter |-> Off] /\ walk = [e \in Exporter |-> Off]
    /\ stable = [e \in Exporter |-> {}]
    /\ body = [e \in Exporter |-> Off] /\ fd = [e \in Exporter |-> Nobody]
    /\ exports = 0 /\ handEdits = 0 /\ pool = {} /\ overlap = FALSE
    /\ \/ /\ name = [n \in {"path", "tmp"} |-> Nobody]
          /\ disk = [i \in Inode |-> Nobody]
          /\ fetched = {}
       \/ /\ Representable(AllRows.grouped)
          /\ name = [n \in {"path", "tmp"} |-> IF n = "path" THEN 1 ELSE Nobody]
          /\ disk = [i \in Inode |-> IF i = 1 THEN Envelope(Saved(AllRows)) ELSE Nobody]
          /\ fetched = {[snapshot |-> Saved(AllRows), whole |-> TRUE]}

Spec == Init /\ [][Next]_vars /\ \A e \in Exporter : WF_vars(Progress(e))

-----------------------------------------------------------------------------
(* Properties *)

(* A walk is over a collection that is next, whose items are of one kind. *)
WalkOK(f, w) ==
    /\ w.path \in Deepest(f.todo) /\ w.kept \subseteq w.ever
    /\ w.ever \subseteq IF Len(w.path) < 2 THEN Path ELSE Row

(* The types, who has a file open, and that no inode has both names. *)
TypeOK ==
    /\ homes \subseteq Group \X Zone /\ truth \subseteq Row
    /\ edits \in 0..MaxEdits /\ unproven \in 0..MaxUnproven
    /\ pc \in [Exporter -> {"idle", "fetching"} \cup Inside]
    /\ shrink \in [Exporter -> BOOLEAN]
    /\ fetch \in [Exporter -> Fetch \cup {Off}] /\ stable \in [Exporter -> SUBSET Row]
    /\ walk \in [Exporter -> Walk \cup {Off}]
    /\ body \in [Exporter -> Snapshots \cup {Off}] /\ fd \in [Exporter -> Inode \cup {Nobody}]
    /\ \A e \in Exporter :
          /\ fetch[e] # Off <=> pc[e] = "fetching"
          /\ walk[e] # Off => pc[e] = "fetching" /\ WalkOK(fetch[e], walk[e])
          /\ shrink[e] => pc[e] = "fetching"
          /\ body[e] # Off <=> pc[e] \in Inside
          /\ fd[e] # Nobody <=> pc[e] \in {"opened", "written"}
    /\ name \in [{"path", "tmp"} -> Inode \cup {Nobody}]
    /\ name["path"] = name["tmp"] => name["tmp"] = Nobody
    /\ disk \in [Inode -> {Nobody, Garbled} \cup Lists \cup Envelopes]
    /\ \A n \in {"path", "tmp"} : name[n] # Nobody => disk[name[n]] # Nobody
    /\ exports \in 0..MaxExports /\ handEdits \in 0..MaxHandEdits
    /\ fetched \subseteq [snapshot : Snapshots, whole : BOOLEAN]
    /\ pool \subseteq Snapshots /\ overlap \in BOOLEAN

(* What a reader is told to trust, and may delete by, is the result of one *)
(* fetch whose every read was proven complete, and that has each record    *)
(* which truth held from its beginning to its end, if none of the three    *)
(* walks that lead to it was disturbed twice: whatever was edited besides, *)
(* interrupted or written over.                                            *)
TrustedSnapshotIsWhole ==
    View \notin {NoFile, Broken} /\ View.verified =>
        \E f \in fetched : f.snapshot = View /\ f.whole

(* The file is the register of TruthRegister: an export replaces it in one *)
(* step or not at all, drops records or an unreadable file only with       *)
(* --allow-snapshot-shrink, and a hand edit is trusted only if it undoes   *)
(* others.                                                                 *)
Register == INSTANCE TruthRegister WITH
    Snapshot <- Snapshots,
    snap <- View,
    asking <- {e \in Exporter : shrink[e]},
    inFlight <- InFlight,
    exported <- {f.snapshot : f \in fetched},
    pool <- pool,
    overlap <- overlap,
    handEdits <- handEdits

ImplementsRegister == Register!Spec

(* Every export ends, with or without a snapshot. *)
ExportEnds == \A e \in Exporter : pc[e] # "idle" ~> pc[e] = "idle"
=============================================================================
