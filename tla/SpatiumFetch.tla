---------------------------- MODULE SpatiumFetch ----------------------------
(***************************************************************************)
(* SpatiumProvider.fetch_desired: the source of truth is read group by     *)
(* group, zone by zone, each collection by one walk of _get, while         *)
(* somebody may edit it at any time, during a walk too.  The fetch is      *)
(* proven complete only if every walk was.  What a walk promises is taken  *)
(* from SpatiumWalk, and no more.                                          *)
(***************************************************************************)
EXTENDS Integers, Sequences, FiniteSets

CONSTANTS
    Group, Zone,    \* DNS groups, and names of zones
    Row,            \* rows of the API: records with group, zone, key, ttl, kind
    MaxEdits,       \* bound on edits of truth
    MaxUnproven,    \* bound on walks that cannot be certified
    Raised          \* a fetch that ended in an error

(* "malformed" does not pass the field checks, "invalid" makes no CanonicalRecord. *)
RowKinds == {"record", "unsupported", "malformed", "invalid"}
Supported(r) == r.kind \in {"record", "invalid"}

ASSUME FetchAssumption ==
    /\ IsFiniteSet(Group) /\ IsFiniteSet(Zone) /\ IsFiniteSet(Row)
    /\ \A r \in Row : r.group \in Group /\ r.zone \in Zone /\ r.kind \in RowKinds
    /\ MaxEdits \in Nat /\ MaxUnproven \in Nat

VARIABLES
    homes,          \* the zones of each group
    truth,          \* the rows in them
    edits,          \* edits so far
    unproven        \* walks so far that were not certified

server == <<homes, truth, edits, unproven>>

-----------------------------------------------------------------------------
(* Truth changes *)

Edit ==
    /\ edits < MaxEdits /\ edits' = edits + 1
    /\ \/ /\ \E r \in Row \ truth : <<r.group, r.zone>> \in homes /\ truth' = truth \cup {r}
          /\ UNCHANGED homes
       \/ /\ \E r \in truth : truth' = truth \ {r}
          /\ UNCHANGED homes
       \/ /\ \E r \in truth, q \in Row \ truth :
                r.group = q.group /\ r.zone = q.zone /\ truth' = (truth \ {r}) \cup {q}
          /\ UNCHANGED homes
       \/ homes' = {} /\ truth' = {}
       \/ UNCHANGED <<homes, truth>>   \* an edit of what is not read, which may move rows
    /\ UNCHANGED unproven

-----------------------------------------------------------------------------
(* The collections: <<>> lists the groups, <<g>> the zones of g, <<g, z>>  *)
(* the rows of zone z in g.                                                *)

Path == {<<>>} \cup {<<g>> : g \in Group} \cup (Group \X Zone)

Listing(path, hs, rows) ==
    CASE Len(path) = 0 -> {<<g>> : g \in {h[1] : h \in hs}}
      [] Len(path) = 1 -> {h \in hs : h[1] = path[1]}
      [] Len(path) = 2 -> {r \in rows : r.group = path[1] /\ r.zone = path[2]}

Collection(path) == Listing(path, homes, truth)

Leads(path, r) == path \in {<<>>, <<r.group>>, <<r.group, r.zone>>}

-----------------------------------------------------------------------------
(* A walk over one of them: the items that were in it all along, those     *)
(* that were in it at some time, and what has disturbed it: rows that came *)
(* or went, at two for one that moved, and a damaged body.                 *)

Item == Path \cup Row
Walk == [path : Path, kept : SUBSET Item, ever : SUBSET Item, disturbed : 0..2]

StartWalk(path, damaged) ==
    [path |-> path, kept |-> Collection(path), ever |-> Collection(path),
     disturbed |-> IF damaged THEN 1 ELSE 0]

Disturbance(w) ==
    LET now == Listing(w.path, homes', truth')
        old == Collection(w.path)
        shifts == IF UNCHANGED <<homes, truth>> THEN 2
                  ELSE Cardinality((old \ now) \cup (now \ old))
    IN  IF w.disturbed + shifts >= 2 THEN 2 ELSE w.disturbed + shifts

(* Truth changes under it. *)
Under(w) ==
    LET now == Listing(w.path, homes', truth')
    IN  [path |-> w.path, kept |-> w.kept \cap now, ever |-> w.ever \cup now,
         disturbed |-> Disturbance(w)]

Lost(w) == w.disturbed = 2

(* What a walk can return.  One that is certified read the whole of a      *)
(* collection that stood still (CertifiedMeansWhole), and of a sound       *)
(* server's that changed once what stayed (OneChangeIsNoticed).  One that  *)
(* is not, or that was disturbed twice, may have lost anything.            *)
Walks(w, certified) ==
    {[items |-> S, verified |-> certified] :
        S \in IF certified /\ ~Lost(w) THEN {w.kept, w.ever} ELSE SUBSET w.ever}

-----------------------------------------------------------------------------
(* The fetch *)

Fetch == [wanted : SUBSET Zone, todo : SUBSET Path, grouped : SUBSET {r \in Row : Supported(r)},
          verified : BOOLEAN]

StartFetch(wanted) ==
    [wanted |-> wanted, todo |-> {<<>>}, grouped |-> {}, verified |-> TRUE]

(* The loops are nested: records are read before the next zone. *)
Deepest(todo) == {p \in todo : \A q \in todo : Len(q) <= Len(p)}

(* Variant: the last verdict stands for all. *)
LastVerdict(verified, read) == read.verified

(* _read *)
FoldVerdict(verified, read) == verified /\ read.verified

(* A malformed row, or rows of one record that disagree on its TTL. *)
RowsRefused(rows) ==
    \/ \E r \in rows : r.kind = "malformed"
    \/ \E r, q \in rows : /\ Supported(r) /\ Supported(q)
                          /\ r.zone = q.zone /\ r.key = q.key /\ r.ttl # q.ttl

Descend(f, path, items) ==
    (f.todo \ {path}) \cup {p \in items : Len(p) = 2 => p[2] \in f.wanted}

AfterWalk(f, path, read) ==
    LET verdict == FoldVerdict(f.verified, read)
        rows == f.grouped \cup read.items
    IN  IF Len(path) < 2
        THEN [f EXCEPT !.todo = Descend(f, path, read.items), !.verified = verdict]
        ELSE IF RowsRefused(rows) THEN Raised
        ELSE [f EXCEPT !.todo = @ \ {path}, !.verified = verdict,
                       !.grouped = {r \in rows : Supported(r)}]

Reads(f, w, certified) ==
    {Raised} \cup {AfterWalk(f, w.path, read) : read \in Walks(w, certified)}

(* Rows that CanonicalRecord refuses are not dropped: the fetch ends. *)
Representable(rows) == \A r \in rows : r.kind = "record"

(* The records: one per zone, name and type, with all its values. *)
Canonical(rows) ==
    {[zone |-> r.zone, key |-> r.key, ttl |-> r.ttl,
      values |-> {q.value : q \in {s \in rows : s.zone = r.zone /\ s.key = r.key}}] : r \in rows}

(* What a fetch owes the rows that were there from its beginning to its    *)
(* end, on paths no walk of which was disturbed twice: each supported one  *)
(* is in the record of its name, with its TTL.                             *)
Delivers(records, wanted, stable) ==
    \A r \in stable :
        r.zone \in wanted /\ r.kind # "unsupported" =>
            /\ r.kind = "record"
            /\ \E c \in records : /\ c.zone = r.zone /\ c.key = r.key /\ c.ttl = r.ttl
                                  /\ r.value \in c.values
=============================================================================
