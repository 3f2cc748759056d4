---------------------------- MODULE Export_proofs ----------------------------
(***************************************************************************)
(* The snapshot of truth, for any exporters, scopes, zones and rows, and   *)
(* any number of exports, edits of truth and edits of the file by hand: it *)
(* is a TruthRegister, and what it gives a reader to trust is whole.       *)
(***************************************************************************)
EXTENDS Export, FiniteSetTheorems, TLAPS

USE FetchAssumption, ExportAssumption

\* A file that somebody has created.
Contents == {Garbled} \cup Lists \cup Envelopes

Used(d, k) == \A i \in Inode : d[i] # Nobody <=> i <= k

\* Exports that have still to open a file.
Waiting == {e \in Exporter : pc[e] \in {"fetching", "admitted"}}

\* Exports that have a file open.
Writing == {e \in Exporter : pc[e] \in {"opened", "written"}}

\* Inodes are used in order, there is one for each export that may need it, and
\* what is open exists.
DiskInv ==
    /\ \E k \in 0..(MaxExports + 1) : Used(disk, k) /\ k + Cardinality(Waiting) <= exports + 1
    /\ \A e \in Writing : disk[fd[e]] # Nobody

\* The rows under truth are in the homes, and what is counted as having been there
\* since a fetch began still is.
TruthInv ==
    /\ \A r \in truth : <<r.group, r.zone>> \in homes
    /\ \A e \in Exporter : stable[e] \subseteq truth

\* A fetch proven complete so far has each row that stood still, or will still get
\* to, or is in, a collection that leads to it.
Covered(f, r) == r \in f.grouped \/ f.todo \cap {<<>>, <<r.group>>, <<r.group, r.zone>>} # {}

FetchCovers(f, rows) ==
    f.verified => \A r \in rows : r.zone \in f.wanted /\ r.kind # "unsupported" => Covered(f, r)

FetchInv ==
    \A e \in Exporter : pc[e] = "fetching" =>
        fetch[e].wanted = Scope[e] /\ FetchCovers(fetch[e], stable[e])

\* What follows a path on the way to a row.
Below(path, r) ==
    IF path = <<>> THEN <<r.group>> ELSE IF path = <<r.group>> THEN <<r.group, r.zone>> ELSE r

\* A walk that is not lost has kept what leads to the rows that stood still, and
\* one that is lost leads to none of them.
WalkKeeps(w, rows) == \A r \in rows : Leads(w.path, r) => ~Lost(w) /\ Below(w.path, r) \in w.kept

WalkInv == \A e \in Exporter : walk[e] # Off => WalkKeeps(walk[e], stable[e])

\* What was saved came out of a fetch, a verified one out of a whole fetch.
Vouched(s) ==
    \E f \in fetched : f.snapshot = s /\ (s.verified => f.whole)

\* A checksum was taken of something that was saved.
Sealed(content) ==
    \E f \in fetched : LET s == f.snapshot IN
        content.checksum = Checksum(s.records, s.verified) /\ (s.verified => f.whole)

SealInv ==
    /\ \A e \in InFlight : Vouched(body[e])
    /\ \A i \in Inode : disk[i] \in Envelopes => Sealed(disk[i])

\* Who is alone in flight has the temporary file open, with what it wrote; and
\* while anybody writes, that file reads as an admitted export or as nothing.
FlightInv ==
    /\ InFlight = {} => pool = {} /\ ~overlap
    /\ \A e \in InFlight : body[e] \in pool
    /\ ~overlap => \A e, g \in InFlight : e = g
    /\ ~overlap => \A e \in Writing : fd[e] = name["tmp"]
    /\ ~overlap => \A e \in Writing : pc[e] = "written" => disk[fd[e]] = Envelope(body[e])
    /\ Writing # {} /\ name["tmp"] # Nobody => Load(disk[name["tmp"]]) \in pool \cup {Broken}

IInv == TypeOK /\ DiskInv /\ TruthInv /\ FetchInv /\ WalkInv /\ SealInv /\ FlightInv

-----------------------------------------------------------------------------
(* Snapshots and files *)

\* There are finitely many records, so that they can be counted.
LEMMA RecordsFinite == IsFiniteSet(Records)
<1> DEFINE D == Row \X SUBSET Row
           F == [x \in D |-> [zone |-> x[1].zone, key |-> x[1].key, ttl |-> x[1].ttl,
                              values |-> {q.value : q \in x[2]}]]
           T == {F[x] : x \in D}
<1>1. IsFiniteSet(D)
    <2>1. IsFiniteSet(SUBSET Row)
        BY FS_SUBSET
    <2> QED BY <2>1, FS_Product
<1>2. F \in Surjection(D, T)
    <2> HIDE DEF D
    <2>1. F \in [D -> T]
        OBVIOUS
    <2>2. \A t \in T : \E x \in D : F[x] = t
        OBVIOUS
    <2> QED BY <2>1, <2>2 DEF Surjection
<1>3. IsFiniteSet(T)
    <2> HIDE DEF D, F, T
    <2> QED BY <1>1, <1>2, FS_Surjection
<1>4. ASSUME NEW c \in Records
      PROVE  c \in T
    <2>1. PICK rows \in SUBSET Row : c \in Canonical(rows)
        BY DEF Records
    <2> DEFINE Same(r) == {s \in rows : s.zone = r.zone /\ s.key = r.key}
    <2>2. PICK r \in rows : c = [zone |-> r.zone, key |-> r.key, ttl |-> r.ttl,
                                 values |-> {q.value : q \in Same(r)}]
        BY <2>1 DEF Canonical
    <2>3. <<r, Same(r)>> \in D
        OBVIOUS
    <2>4. F[<<r, Same(r)>>] = c
        BY <2>2, <2>3
    <2> QED BY <2>3, <2>4
<1> QED BY <1>3, <1>4, FS_Subset

\* The records of some rows.
LEMMA CanonicalType ==
    ASSUME NEW rows \in SUBSET Row
    PROVE  Canonical(rows) \in SUBSET Records
BY DEF Records

\* A fetch makes a snapshot.
LEMMA SavedType ==
    ASSUME NEW f \in Fetch
    PROVE  /\ Saved(f) \in Snapshots
           /\ Saved(f).records = Canonical(f.grouped) /\ Saved(f).verified = f.verified
<1>1. f.grouped \in SUBSET Row /\ f.verified \in BOOLEAN
    BY DEF Fetch
<1>2. Canonical(f.grouped) \in SUBSET Records
    BY <1>1, CanonicalType
<1> QED BY <1>1, <1>2 DEF Saved, Snapshots

\* A snapshot written is the snapshot read.
LEMMA EnvelopeLoads ==
    ASSUME NEW s \in Snapshots
    PROVE  /\ Envelope(s) \in Envelopes
           /\ Envelope(s).checksum = Checksum(s.records, s.verified)
           /\ Load(Envelope(s)) = s
<1>1. s.records \in SUBSET Records /\ s.verified \in BOOLEAN
      /\ s = [records |-> s.records, verified |-> s.verified]
    BY DEF Snapshots
<1>2. Cardinality(s.records) \in Nat
    BY <1>1, RecordsFinite, FS_Subset, FS_CardinalityType
<1>3. Envelope(s) \in Envelopes
    BY <1>1, <1>2 DEF Envelope, Envelopes, Checksum
<1>4. Envelope(s) # Garbled /\ ~IsList(Envelope(s))
    <2>1. "list" \notin DOMAIN Envelope(s)
        BY DEF Envelope
    <2> QED BY <1>3, <2>1 DEF IsList
<1>5. EnvelopeHolds(Envelope(s))
    BY DEF Envelope, EnvelopeHolds
<1>6. Envelope(s).records = s.records /\ Envelope(s).verified = s.verified
    BY DEF Envelope
<1> QED BY <1>1, <1>3, <1>4, <1>5, <1>6 DEF Load, Envelope

\* Reading a file gives a snapshot or nothing.
LEMMA LoadType ==
    ASSUME NEW content \in Contents
    PROVE  /\ Load(content) \in Snapshots \cup {Broken}
           /\ Load(Garbled) = Broken
<1>1. CASE content = Garbled
    BY <1>1 DEF Load
<1>2. CASE content \in Lists
    <2>1. content # Garbled /\ IsList(content) /\ content.list \in SUBSET Records
        BY <1>2 DEF Lists, IsList
    <2> QED BY <2>1 DEF Load, Snapshots
<1>3. CASE content \in Envelopes
    <2>1. content # Garbled /\ ~IsList(content)
        <3>1. "list" \notin DOMAIN content
            BY <1>3 DEF Envelopes
        <3> QED BY <1>3, <3>1 DEF IsList
    <2>2. content.records \in SUBSET Records /\ content.verified \in BOOLEAN
        BY <1>3 DEF Envelopes
    <2> QED BY <2>1, <2>2 DEF Load, Snapshots
<1> QED BY <1>1, <1>2, <1>3 DEF Contents

\* What a file is trusted for was saved from a whole fetch: the checksum binds
\* the records to the verdict.
LEMMA LoadSealed ==
    ASSUME NEW content \in Contents, fetched \subseteq [snapshot : Snapshots, whole : BOOLEAN], content \in Envelopes => Sealed(content),
           Load(content) # Broken, Load(content).verified
    PROVE  \E f \in fetched : f.snapshot = Load(content) /\ f.whole
<1>1. content # Garbled /\ ~IsList(content) /\ EnvelopeHolds(content)
    BY DEF Load
<1>2. content \in Envelopes
    <2>1. content \notin Lists
        BY <1>1 DEF Lists, IsList
    <2> QED BY <1>1, <2>1 DEF Contents
<1>3. Load(content) = [records |-> content.records, verified |-> content.verified]
    BY <1>1 DEF Load
<1>4. PICK f \in fetched : /\ content.checksum = Checksum(f.snapshot.records, f.snapshot.verified)
                           /\ f.snapshot.verified => f.whole
    BY <1>2 DEF Sealed
<1>5. content.checksum = Checksum(content.records, content.verified)
    BY <1>1 DEF EnvelopeHolds
<1>6. content.records = f.snapshot.records /\ content.verified = f.snapshot.verified
    BY <1>4, <1>5 DEF Checksum
<1>7. f.snapshot = [records |-> f.snapshot.records, verified |-> f.snapshot.verified]
    BY DEF Snapshots
<1> QED BY <1>3, <1>4, <1>6, <1>7

\* An edit by hand leaves the checksum of an envelope as it is.
LEMMA EditedType ==
    ASSUME NEW content \in Contents, NEW new \in Edited(content)
    PROVE  /\ new \in Contents
           /\ new \in Envelopes => content \in Envelopes /\ new.checksum = content.checksum
<1>1. CASE new = Garbled
    BY <1>1 DEF Contents
<1>2. CASE new # Garbled
    <2>1. content # Garbled /\ ~IsList(content)
        BY <1>2 DEF Edited
    <2>2. content \in Envelopes
        BY <2>1 DEF Contents, Lists, IsList
    <2>3. CASE new = BareList(content.records)
        <3>1. new \in Lists
            BY <2>2, <2>3 DEF Lists, Envelopes, BareList
        <3>2. new \notin Envelopes
            BY <3>1 DEF Lists, Envelopes
        <3> QED BY <3>1, <3>2 DEF Contents
    <2>4. ASSUME NEW version \in {SnapshotVersion, OtherVersion}, NEW records \in SUBSET Records,
                 NEW count \in Int, NEW verified \in BOOLEAN,
                 new = [version |-> version, records |-> records, count |-> count,
                        verified |-> verified, checksum |-> content.checksum]
          PROVE  new \in Contents /\ new.checksum = content.checksum
        <3>1. new \in Envelopes
            BY <2>2, <2>4 DEF Envelopes
        <3> QED BY <2>4, <3>1 DEF Contents
    <2>5. content = [version |-> content.version, records |-> content.records, count |-> content.count,
                     verified |-> content.verified, checksum |-> content.checksum]
          /\ content.version \in {SnapshotVersion, OtherVersion}
          /\ content.records \in SUBSET Records /\ content.count \in Int /\ content.verified \in BOOLEAN
        BY <2>2 DEF Envelopes
    <2>6. CASE new = [content EXCEPT !.version = OtherVersion]
        <3>1. new = [version |-> OtherVersion, records |-> content.records, count |-> content.count,
                     verified |-> content.verified, checksum |-> content.checksum]
            BY <2>5, <2>6
        <3> QED BY <2>2, <2>4, <2>5, <3>1
    <2>7. CASE new = [content EXCEPT !.verified = ~@]
        <3>1. new = [version |-> content.version, records |-> content.records, count |-> content.count,
                     verified |-> ~content.verified, checksum |-> content.checksum]
            BY <2>5, <2>7
        <3> QED BY <2>2, <2>4, <2>5, <3>1
    <2>8. CASE \E c \in content.records : new = [content EXCEPT !.records = @ \ {c}]
        <3>1. PICK c \in content.records : new = [content EXCEPT !.records = @ \ {c}]
            BY <2>8
        <3>2. new = [version |-> content.version, records |-> content.records \ {c}, count |-> content.count,
                     verified |-> content.verified, checksum |-> content.checksum]
            BY <2>5, <3>1
        <3> QED BY <2>2, <2>4, <2>5, <3>2
    <2>9. CASE \E c \in content.records : new = [content EXCEPT !.records = @ \ {c}, !.count = @ - 1]
        <3>1. PICK c \in content.records : new = [content EXCEPT !.records = @ \ {c}, !.count = @ - 1]
            BY <2>9
        <3>2. new = [version |-> content.version, records |-> content.records \ {c}, count |-> content.count - 1,
                     verified |-> content.verified, checksum |-> content.checksum]
            BY <2>5, <3>1
        <3>3. content.records \ {c} \in SUBSET Records /\ content.count - 1 \in Int
            BY <2>5
        <3> QED BY <2>2, <2>4, <2>5, <3>2, <3>3
    <2> QED BY <1>2, <2>1, <2>3, <2>6, <2>7, <2>8, <2>9 DEF Edited
<1> QED BY <1>1, <1>2

-----------------------------------------------------------------------------
(* The fetch *)

\* The collections that lead to a row.
LEMMA PathLengths ==
    /\ Len(<<>>) = 0
    /\ \A g : Len(<<g>>) = 1 /\ <<g>>[1] = g
    /\ \A g, z : Len(<<g, z>>) = 2 /\ <<g, z>>[1] = g /\ <<g, z>>[2] = z
    /\ \A p \in Path : Len(p) = 2 \/ (Len(p) \in {0, 1} /\ Len(p) < 2)
<1>1. /\ Len(<<>>) = 0
      /\ \A g : Len(<<g>>) = 1 /\ <<g>>[1] = g
      /\ \A g, z : Len(<<g, z>>) = 2 /\ <<g, z>>[1] = g /\ <<g, z>>[2] = z
    OBVIOUS
<1>2. ASSUME NEW p \in Path
      PROVE  Len(p) = 2 \/ (Len(p) \in {0, 1} /\ Len(p) < 2)
    <2>1. ASSUME p = <<>>
          PROVE  Len(p) = 0 /\ Len(p) < 2
        BY <2>1
    <2>2. ASSUME NEW g \in Group, p = <<g>>
          PROVE  Len(p) = 1 /\ Len(p) < 2
        BY <2>2
    <2>3. ASSUME p \in Group \X Zone
          PROVE  Len(p) = 2
        BY <2>3
    <2>4. p = <<>> \/ (\E g \in Group : p = <<g>>) \/ p \in Group \X Zone
        BY DEF Path
    <2> QED BY <2>1, <2>2, <2>3, <2>4
<1> QED BY <1>1, <1>2

\* The items of a collection.
LEMMA ListingType ==
    ASSUME NEW path \in Path, NEW hs \in SUBSET (Group \X Zone), NEW rows \in SUBSET Row
    PROVE  /\ Listing(path, hs, rows) \subseteq IF Len(path) < 2 THEN Path ELSE Row
           /\ Listing(path, hs, rows) \subseteq Item
<1>1. Len(path) = 2 \/ (Len(path) \in {0, 1} /\ Len(path) < 2)
    BY PathLengths
<1>2. CASE Len(path) = 2
    <2>1. Listing(path, hs, rows) \subseteq Row
        BY <1>2 DEF Listing
    <2> QED BY <1>2, <2>1 DEF Item
<1>3. CASE Len(path) \in {0, 1} /\ Len(path) < 2
    <2>1. Listing(path, hs, rows) \subseteq Path
        BY <1>3 DEF Listing, Path
    <2> QED BY <1>3, <2>1 DEF Item
<1> QED BY <1>1, <1>2, <1>3

\* They can be counted.
LEMMA ItemsFinite == IsFiniteSet(Item)
<1> DEFINE F == [g \in Group |-> <<g>>]
           T == {<<g>> : g \in Group}
<1>1. F \in Surjection(Group, T)
    <2>1. F \in [Group -> T] /\ \A t \in T : \E g \in Group : F[g] = t
        OBVIOUS
    <2> QED BY <2>1 DEF Surjection
<1>2. IsFiniteSet(T)
    <2> HIDE DEF F, T
    <2> QED BY <1>1, FS_Surjection
<1>3. IsFiniteSet(Group \X Zone) /\ IsFiniteSet({<<>>})
    BY FS_Product, FS_Singleton
<1>4. IsFiniteSet({<<>>} \cup T)
    <2> HIDE DEF T
    <2> QED BY <1>2, <1>3, FS_Union
<1>5. IsFiniteSet(({<<>>} \cup T) \cup (Group \X Zone))
    <2> HIDE DEF T
    <2> QED BY <1>3, <1>4, FS_Union
<1>6. IsFiniteSet(Path)
    BY <1>5 DEF Path
<1> QED BY <1>6, FS_Union DEF Item

\* What leads to a row is listed where the row and its home are.
LEMMA BelowListed ==
    ASSUME NEW path, NEW r \in Row, Leads(path, r), NEW hs, NEW rows,
           r \in rows, <<r.group, r.zone>> \in hs
    PROVE  Below(path, r) \in Listing(path, hs, rows)
<1>1. CASE path = <<>>
    BY <1>1, PathLengths DEF Below, Listing
<1>2. CASE path = <<r.group>>
    <2>1. path # <<>> /\ Len(path) = 1 /\ path[1] = r.group
        BY <1>2, PathLengths
    <2> QED BY <1>2, <2>1, PathLengths DEF Below, Listing
<1>3. CASE path = <<r.group, r.zone>>
    <2>1. path # <<>> /\ path # <<r.group>> /\ Len(path) = 2 /\ path[1] = r.group /\ path[2] = r.zone
        BY <1>3, PathLengths
    <2> QED BY <2>1 DEF Below, Listing
<1> QED BY <1>1, <1>2, <1>3 DEF Leads

\* A walk begins as one that has seen all of its collection and is not lost.
LEMMA StartWalkIs ==
    ASSUME homes \subseteq Group \X Zone, truth \subseteq Row, NEW path \in Path, NEW damaged \in BOOLEAN,
           NEW f, path \in Deepest(f.todo)
    PROVE  LET w == StartWalk(path, damaged) IN
           w \in Walk /\ WalkOK(f, w) /\ (TruthInv => \A R \in SUBSET truth : WalkKeeps(w, R))
<1> DEFINE w == StartWalk(path, damaged)
<1>1. /\ w.path = path /\ w.kept = Collection(path) /\ w.ever = Collection(path) /\ w.disturbed \in {0, 1}
      /\ w = [path |-> w.path, kept |-> w.kept, ever |-> w.ever, disturbed |-> w.disturbed]
    BY DEF StartWalk
<1> HIDE DEF w
<1>2. Collection(path) \subseteq Item /\ Collection(path) \subseteq IF Len(path) < 2 THEN Path ELSE Row
    BY ListingType DEF Collection
<1>3. w \in Walk
    <2>1. w.path \in Path /\ w.kept \in SUBSET Item /\ w.ever \in SUBSET Item /\ w.disturbed \in 0..2
        BY <1>1, <1>2
    <2> QED BY <1>1, <2>1 DEF Walk
<1>4. WalkOK(f, w)
    BY <1>1, <1>2 DEF WalkOK
<1>5. ASSUME TruthInv, NEW R \in SUBSET truth, NEW r \in R, Leads(w.path, r)
      PROVE  ~Lost(w) /\ Below(w.path, r) \in w.kept
    <2>1. ~Lost(w)
        BY <1>1 DEF Lost
    <2>2. r \in Row /\ r \in truth /\ <<r.group, r.zone>> \in homes
        BY <1>5 DEF TruthInv
    <2> QED BY <1>1, <1>5, <2>1, <2>2, BelowListed DEF Collection
<1> QED BY <1>3, <1>4, <1>5 DEF w, WalkKeeps

\* It stays one when truth is edited under it.
LEMMA UnderIs ==
    ASSUME homes \subseteq Group \X Zone, truth \subseteq Row, homes' \subseteq Group \X Zone, truth' \subseteq Row,
           NEW w \in Walk, NEW f, WalkOK(f, w)
    PROVE  /\ Under(w) \in Walk /\ WalkOK(f, Under(w)) /\ Under(w).path = w.path
           /\ Under(w).kept = w.kept \cap Listing(w.path, homes', truth')
<1> DEFINE now == Listing(w.path, homes', truth')
           old == Collection(w.path)
           apart == (old \ now) \cup (now \ old)
<1>1. w.path \in Path /\ w.kept \in SUBSET Item /\ w.ever \in SUBSET Item /\ w.disturbed \in 0..2
    BY DEF Walk
<1>2. /\ now \subseteq Item /\ now \subseteq IF Len(w.path) < 2 THEN Path ELSE Row
      /\ old \subseteq Item
    BY <1>1, ListingType DEF Collection
<1>3. Cardinality(apart) \in Nat
    <2>1. apart \in SUBSET Item
        BY <1>2
    <2> HIDE DEF apart
    <2> QED BY <2>1, ItemsFinite, FS_Subset, FS_CardinalityType
<1>4. Disturbance(w) \in 0..2
    <2> DEFINE shifts == IF UNCHANGED <<homes, truth>> THEN 2 ELSE Cardinality(apart)
    <2>1. shifts \in Nat
        BY <1>3
    <2>2. Disturbance(w) = IF w.disturbed + shifts >= 2 THEN 2 ELSE w.disturbed + shifts
        BY DEF Disturbance
    <2> HIDE DEF shifts
    <2> QED BY <1>1, <2>1, <2>2
<1>5. Under(w) = [path |-> w.path, kept |-> w.kept \cap now, ever |-> w.ever \cup now,
                  disturbed |-> Disturbance(w)]
    BY DEF Under
<1>6. Under(w) \in Walk
    <2> HIDE DEF now
    <2>1. w.kept \cap now \in SUBSET Item /\ w.ever \cup now \in SUBSET Item
        BY <1>1, <1>2
    <2> QED BY <1>1, <1>4, <1>5, <2>1 DEF Walk
<1>7. WalkOK(f, Under(w))
    <2> HIDE DEF now
    <2>1. w.kept \cap now \subseteq w.ever \cup now
          /\ w.ever \cup now \subseteq IF Len(w.path) < 2 THEN Path ELSE Row
        BY <1>2 DEF WalkOK
    <2> QED BY <1>5, <2>1 DEF WalkOK
<1> QED BY <1>5, <1>6, <1>7

\* The end of a walk: the fetch stays one, and what it still owes it still reaches.
LEMMA ReadKeeps ==
    ASSUME NEW f \in Fetch, NEW w \in Walk, WalkOK(f, w), NEW certified \in BOOLEAN,
           NEW f2 \in Reads(f, w, certified), f2 # Raised
    PROVE  /\ f2 \in Fetch /\ f2.wanted = f.wanted
           /\ \A R \in SUBSET Row : FetchCovers(f, R) /\ WalkKeeps(w, R) => FetchCovers(f2, R)
<1>1. PICK p : p = w.path
    OBVIOUS
<1>2. PICK read \in Walks(w, certified) : f2 = AfterWalk(f, p, read)
    BY <1>1 DEF Reads
<1>3. p \in f.todo /\ p \in Path
    BY <1>1 DEF Deepest, Fetch, WalkOK
<1>4. /\ read.items \subseteq w.ever /\ read.verified = certified
      /\ certified /\ ~Lost(w) => w.kept \subseteq read.items
    <2>1. PICK S \in SUBSET w.ever :
              read = [items |-> S, verified |-> certified] /\ (certified /\ ~Lost(w) => w.kept \subseteq S)
        BY DEF Walks, WalkOK
    <2> QED BY <2>1
<1>a. w.ever \subseteq IF Len(p) < 2 THEN Path ELSE Row
    BY <1>1 DEF WalkOK
<1>b. ASSUME NEW R \in SUBSET Row, WalkKeeps(w, R), certified, NEW r \in R, Leads(p, r)
      PROVE  Below(p, r) \in read.items
    BY <1>1, <1>4, <1>b DEF WalkKeeps
<1>5. /\ f.wanted \in SUBSET Zone /\ f.todo \in SUBSET Path
      /\ f.grouped \in SUBSET {r \in Row : Supported(r)} /\ f.verified \in BOOLEAN
      /\ f = [wanted |-> f.wanted, todo |-> f.todo, grouped |-> f.grouped, verified |-> f.verified]
    BY DEF Fetch
<1>6. Len(p) = 2 \/ (Len(p) \in {0, 1} /\ Len(p) < 2)
    BY <1>3, PathLengths
<1>7. CASE Len(p) \in {0, 1} /\ Len(p) < 2
    <2>1. f2 = [wanted |-> f.wanted, todo |-> Descend(f, p, read.items), grouped |-> f.grouped,
                verified |-> f.verified /\ read.verified]
        BY <1>2, <1>5, <1>7 DEF AfterWalk, FoldVerdict
    <2>2. read.items \subseteq Path
        BY <1>4, <1>7, <1>a
    <2>3. Descend(f, p, read.items) \in SUBSET Path
        BY <1>4, <1>5, <2>2 DEF Descend
    <2>4. f2 \in Fetch /\ f2.wanted = f.wanted
        BY <1>4, <1>5, <2>1, <2>3 DEF Fetch
    <2>5. ASSUME NEW R \in SUBSET Row, FetchCovers(f, R), WalkKeeps(w, R)
          PROVE  FetchCovers(f2, R)
        <3> SUFFICES ASSUME f2.verified, NEW r \in R, r.zone \in f2.wanted, r.kind # "unsupported"
                     PROVE  Covered(f2, r)
            BY DEF FetchCovers
        <3>1. certified /\ f.verified /\ f2.grouped = f.grouped /\ f2.todo = Descend(f, p, read.items)
            BY <1>4, <1>5, <2>1, <2>5
        <3>3. Covered(f, r) /\ r.zone \in f.wanted
            BY <2>4, <2>5, <3>1 DEF FetchCovers
        <3>5. CASE p = <<>>
            <4>1. <<r.group>> \in read.items
                BY <1>b, <2>5, <3>1, <3>5 DEF Leads, Below
            <4>2. <<r.group>> \in f2.todo
                BY <3>1, <4>1, PathLengths DEF Descend
            <4> QED BY <4>2 DEF Covered
        <3>6. CASE p = <<r.group>>
            <4>1. <<r.group, r.zone>> \in read.items
                BY <1>b, <2>5, <3>1, <3>6, PathLengths DEF Leads, Below
            <4>2. <<r.group, r.zone>> \in f2.todo
                BY <3>1, <3>3, <4>1, PathLengths DEF Descend
            <4> QED BY <4>2 DEF Covered
        <3>7. CASE p # <<>> /\ p # <<r.group>>
            <4>1. p # <<r.group, r.zone>>
                <5>1. Len(<<r.group, r.zone>>) = 2
                    BY PathLengths
                <5>2. Len(p) # 2
                    BY ONLY <1>7
                <5> QED BY ONLY <5>1, <5>2
            <4>2. f.todo \ {p} \subseteq f2.todo
                BY <3>1 DEF Descend
            <4> QED BY <3>1, <3>3, <3>7, <4>1, <4>2 DEF Covered
        <3> QED BY <3>5, <3>6, <3>7
    <2> QED BY <2>4, <2>5
<1>8. CASE Len(p) = 2
    <2> DEFINE rows == f.grouped \cup read.items
    <2>a. /\ f2 = [f EXCEPT !.todo = @ \ {p}, !.verified = f.verified /\ read.verified,
                            !.grouped = {r \in rows : Supported(r)}]
          /\ ~RowsRefused(rows)
        BY <1>2, <1>8 DEF AfterWalk, FoldVerdict
    <2>1. /\ f2 = [wanted |-> f.wanted, todo |-> f.todo \ {p},
                   grouped |-> {r \in rows : Supported(r)}, verified |-> f.verified /\ read.verified]
          /\ ~RowsRefused(rows)
        BY <1>5, <2>a
    <2>3. rows \in SUBSET Row
        BY <1>4, <1>5, <1>8, <1>a
    <2>4. f2 \in Fetch /\ f2.wanted = f.wanted
        BY <1>4, <1>5, <2>1, <2>3 DEF Fetch
    <2>5. ASSUME NEW R \in SUBSET Row, FetchCovers(f, R), WalkKeeps(w, R)
          PROVE  FetchCovers(f2, R)
        <3> SUFFICES ASSUME f2.verified, NEW r \in R, r.zone \in f2.wanted, r.kind # "unsupported"
                     PROVE  Covered(f2, r)
            BY DEF FetchCovers
        <3>1. certified /\ f.verified /\ f2.todo = f.todo \ {p} /\ f2.grouped = {q \in rows : Supported(q)}
            BY <1>4, <1>5, <2>1, <2>5
        <3>2. Covered(f, r)
            BY <2>4, <2>5, <3>1 DEF FetchCovers
        <3>3. CASE p = <<r.group, r.zone>>
            <4>1. r \in rows
                <5>1. p # <<>> /\ p # <<r.group>> /\ Leads(p, r)
                    BY <3>3, PathLengths DEF Leads
                <5>2. Below(p, r) = r
                    BY <5>1 DEF Below
                <5> QED BY <1>b, <2>5, <3>1, <5>1, <5>2
            <4>2. Supported(r)
                BY <2>1, <2>3, <2>5, <4>1 DEF RowsRefused, Supported, RowKinds
            <4> QED BY <3>1, <4>1, <4>2 DEF Covered
        <3>4. CASE p # <<r.group, r.zone>>
            <4>1. p # <<>> /\ p # <<r.group>>
                <5>1. Len(<<>>) # 2 /\ Len(<<r.group>>) # 2
                    BY PathLengths
                <5> QED BY <1>8, <5>1
            <4>2. f.grouped \subseteq f2.grouped
                BY <1>5, <3>1
            <4> QED BY <3>1, <3>2, <3>4, <4>1, <4>2 DEF Covered
        <3> QED BY <3>3, <3>4
    <2> QED BY <2>4, <2>5
<1> QED BY <1>6, <1>7, <1>8

\* A fetch that is over and verified delivers what it owes.
LEMMA FetchDelivers ==
    ASSUME NEW f \in Fetch, NEW R \in SUBSET Row, FetchCovers(f, R), f.todo = {}, f.verified,
           Representable(f.grouped)
    PROVE  Delivers(Canonical(f.grouped), f.wanted, R)
<1> SUFFICES ASSUME NEW r \in R, r.zone \in f.wanted, r.kind # "unsupported"
             PROVE  /\ r.kind = "record"
                    /\ \E c \in Canonical(f.grouped) :
                          c.zone = r.zone /\ c.key = r.key /\ c.ttl = r.ttl /\ r.value \in c.values
    BY DEF Delivers
<1>1. r \in f.grouped
    BY DEF FetchCovers, Covered
<1>2. r.kind = "record"
    BY <1>1 DEF Representable
<1> DEFINE Same == {s \in f.grouped : s.zone = r.zone /\ s.key = r.key}
           c == [zone |-> r.zone, key |-> r.key, ttl |-> r.ttl, values |-> {q.value : q \in Same}]
<1>3. c \in Canonical(f.grouped)
    BY <1>1 DEF Canonical
<1>4. r.value \in c.values
    BY <1>1
<1> QED BY <1>2, <1>3, <1>4

-----------------------------------------------------------------------------
(* The types *)

ServerType ==
    /\ homes \subseteq Group \X Zone /\ truth \subseteq Row
    /\ edits \in 0..MaxEdits /\ unproven \in 0..MaxUnproven

ExportersType ==
    /\ pc \in [Exporter -> {"idle", "fetching"} \cup Inside]
    /\ shrink \in [Exporter -> BOOLEAN]
    /\ fetch \in [Exporter -> Fetch \cup {Off}] /\ stable \in [Exporter -> SUBSET Row]
    /\ body \in [Exporter -> Snapshots \cup {Off}] /\ fd \in [Exporter -> Inode \cup {Nobody}]
    /\ \A e \in Exporter :
          /\ fetch[e] # Off <=> pc[e] = "fetching"
          /\ shrink[e] => pc[e] = "fetching"
          /\ body[e] # Off <=> pc[e] \in Inside
          /\ fd[e] # Nobody <=> pc[e] \in {"opened", "written"}

WalkType ==
    /\ walk \in [Exporter -> Walk \cup {Off}]
    /\ \A e \in Exporter : walk[e] # Off => pc[e] = "fetching" /\ WalkOK(fetch[e], walk[e])

FilesType ==
    /\ name \in [{"path", "tmp"} -> Inode \cup {Nobody}]
    /\ name["path"] = name["tmp"] => name["tmp"] = Nobody
    /\ disk \in [Inode -> {Nobody, Garbled} \cup Lists \cup Envelopes]
    /\ \A n \in {"path", "tmp"} : name[n] # Nobody => disk[name[n]] # Nobody

HistoryType ==
    /\ exports \in 0..MaxExports /\ handEdits \in 0..MaxHandEdits
    /\ fetched \subseteq [snapshot : Snapshots, whole : BOOLEAN]
    /\ pool \subseteq Snapshots /\ overlap \in BOOLEAN

\* TypeOK has five parts.
LEMMA TypeParts == TypeOK <=> ServerType /\ ExportersType /\ WalkType /\ FilesType /\ HistoryType
<1>1. (\A e \in Exporter :
          /\ fetch[e] # Off <=> pc[e] = "fetching"
          /\ walk[e] # Off => pc[e] = "fetching" /\ WalkOK(fetch[e], walk[e])
          /\ shrink[e] => pc[e] = "fetching"
          /\ body[e] # Off <=> pc[e] \in Inside
          /\ fd[e] # Nobody <=> pc[e] \in {"opened", "written"}) <=>
      /\ \A e \in Exporter :
          /\ fetch[e] # Off <=> pc[e] = "fetching"
          /\ shrink[e] => pc[e] = "fetching"
          /\ body[e] # Off <=> pc[e] \in Inside
          /\ fd[e] # Nobody <=> pc[e] \in {"opened", "written"}
      /\ \A e \in Exporter : walk[e] # Off => pc[e] = "fetching" /\ WalkOK(fetch[e], walk[e])
    OBVIOUS
<1> QED BY <1>1 DEF TypeOK, ServerType, ExportersType, WalkType, FilesType, HistoryType

\* A walk after which the fetch goes on, and the steps that end an export: a read
\* that raised, a refusal, an interrupt, and a replacement whether it found its
\* file or not.
ReadOn(e) ==
    /\ pc[e] = "fetching" /\ walk[e] # Off /\ unproven' \in 0..MaxUnproven
    /\ \E certified \in BOOLEAN : \E f \in Reads(fetch[e], walk[e], certified) :
          f # Raised /\ fetch' = [fetch EXCEPT ![e] = f]
    /\ walk' = [walk EXCEPT ![e] = Off]
    /\ UNCHANGED <<homes, truth, edits, pc, shrink, stable, body, fd, files, history>>

Leaves(e) ==
    /\ pc[e] # "idle" /\ End(e) /\ unproven' \in 0..MaxUnproven
    /\ \/ UNCHANGED name
       \/ /\ pc[e] = "written" /\ name["tmp"] # Nobody
          /\ name' = [name EXCEPT !["path"] = name["tmp"], !["tmp"] = Nobody]
    /\ UNCHANGED <<homes, truth, edits, disk>>

Step(e) ==
    \/ Begin(e) \/ ReadOn(e) \/ Leaves(e) \/ Admit(e)
    \/ Open(e) \/ WriteSome(e) \/ WriteAll(e)

\* Nothing changes but what walks there are.
OnlyWalks == UNCHANGED <<server, pc, shrink, fetch, stable, body, fd, files, history>>

\* Every step is one of these.
LEMMA WalkCases ==
    ASSUME TypeOK, [Next]_vars
    PROVE  (\E e \in Exporter : Step(e) \/ BeginWalk(e)) \/ EditTruth \/ EditByHand \/ UNCHANGED vars
<1>1. unproven \in 0..MaxUnproven /\ MaxUnproven \in Nat
    BY DEF TypeOK
<1>2. ASSUME NEW e \in Exporter, ExportStep(e)
      PROVE  Step(e) \/ BeginWalk(e)
    <2>1. CASE EndWalk(e)
        <3>1. unproven' \in 0..MaxUnproven
            BY <1>1, <2>1 DEF EndWalk
        <3>2. PICK certified \in BOOLEAN : \E f \in Reads(fetch[e], walk[e], certified) :
                  \/ /\ f # Raised
                     /\ fetch' = [fetch EXCEPT ![e] = f] /\ walk' = [walk EXCEPT ![e] = Off]
                     /\ UNCHANGED <<pc, shrink, stable, body, fd, history>>
                  \/ f = Raised /\ End(e)
            BY <2>1 DEF EndWalk
        <3>3. PICK f \in Reads(fetch[e], walk[e], certified) :
                  \/ /\ f # Raised
                     /\ fetch' = [fetch EXCEPT ![e] = f] /\ walk' = [walk EXCEPT ![e] = Off]
                     /\ UNCHANGED <<pc, shrink, stable, body, fd, history>>
                  \/ f = Raised /\ End(e)
            BY <3>2
        <3>4. CASE f # Raised
            <4>1. ReadOn(e)
                BY <2>1, <3>1, <3>3, <3>4 DEF EndWalk, ReadOn
            <4> QED BY <4>1 DEF Step
        <3>5. CASE f = Raised
            <4>1. Leaves(e)
                BY <2>1, <3>1, <3>3, <3>5 DEF EndWalk, Leaves, files
            <4> QED BY <4>1 DEF Step
        <3> QED BY <3>4, <3>5
    <2>2. CASE Refuse(e)
        <3>1. Leaves(e)
            BY <1>1, <2>2 DEF Refuse, Leaves, server, files
        <3> QED BY <3>1 DEF Step
    <2>3. CASE Interrupt(e)
        <3>1. Leaves(e)
            BY <1>1, <2>3 DEF Interrupt, Leaves, server, files
        <3> QED BY <3>1 DEF Step
    <2>4. CASE Replace(e)
        <3>1. Leaves(e)
            BY <1>1, <2>4 DEF Replace, Leaves, server, files
        <3> QED BY <3>1 DEF Step
    <2> QED BY <1>2, <2>1, <2>2, <2>3, <2>4 DEF ExportStep, Step
<1> QED BY <1>2 DEF Next

\* Where walks do not matter, the beginning of one is no step.
LEMMA StepCases ==
    ASSUME TypeOK, [Next]_vars
    PROVE  (\E e \in Exporter : Step(e)) \/ EditTruth \/ EditByHand \/ OnlyWalks
<1>1. ASSUME NEW e \in Exporter, BeginWalk(e)
      PROVE  OnlyWalks
    BY <1>1 DEF BeginWalk, OnlyWalks
<1>2. UNCHANGED vars => OnlyWalks
    BY DEF vars, exporters, OnlyWalks
<1> QED BY <1>1, <1>2, WalkCases

\* The exports that wait can be counted.
LEMMA WaitingFinite == IsFiniteSet(Waiting) /\ Cardinality(Waiting) \in Nat
<1>1. Waiting \in SUBSET Exporter
    BY DEF Waiting
<1> QED BY <1>1, FS_Subset, FS_CardinalityType

\* Who opens a file finds an inode to create it in.
LEMMA FreeInodeIsNext ==
    ASSUME NEW k \in 0..(MaxExports + 1), Used(disk, k), k + Cardinality(Waiting) <= exports + 1,
           exports \in 0..MaxExports, NEW e \in Waiting
    PROVE  /\ FreeInode = k + 1 /\ FreeInode \in Inode /\ k + 1 \in 0..(MaxExports + 1)
           /\ disk[FreeInode] = Nobody
<1>1. Cardinality(Waiting) \in Nat /\ Cardinality(Waiting) # 0
    BY WaitingFinite, FS_EmptySet
<1>2. k + 1 \in 1..(MaxExports + 1)
    BY <1>1
<1>3. disk[k + 1] = Nobody /\ \A j \in 1..((k + 1) - 1) : disk[j] # Nobody
    BY <1>2 DEF Used, Inode
<1>4. FreeInode \in Inode /\ disk[FreeInode] = Nobody /\ \A j \in 1..(FreeInode - 1) : disk[j] # Nobody
    BY <1>2, <1>3 DEF FreeInode, Inode
<1>5. FreeInode = k + 1
    <2>1. FreeInode \in 1..(MaxExports + 1) /\ FreeInode > k
        BY <1>4 DEF Used, Inode
    <2>2. ~(k + 1 < FreeInode)
        BY <1>2, <1>3, <1>4, <2>1
    <2> QED BY <1>2, <2>1, <2>2
<1> QED BY <1>2, <1>4, <1>5

\* At the beginning there is no file, or the snapshot of a whole fetch.
LEMMA FirstSnapshot ==
    ASSUME Init
    PROVE  AllRows \in Fetch /\ Saved(AllRows) \in Snapshots
<1>1. AllRows \in Fetch
    BY DEF Init, AllRows, Fetch
<1> QED BY <1>1, SavedType

\* The types at the beginning.
LEMMA TypeInit == Init => TypeOK
<1> SUFFICES ASSUME Init PROVE TypeOK
    OBVIOUS
<1>1. ServerType
    <2>1. homes \subseteq Group \X Zone /\ truth \subseteq Row
        BY DEF Init
    <2>2. edits = 0 /\ unproven = 0 /\ MaxEdits \in Nat /\ MaxUnproven \in Nat
        BY DEF Init
    <2> QED BY <2>1, <2>2 DEF ServerType
<1>2. ExportersType
    BY DEF Init, ExportersType, Inside
<1>a. WalkType
    BY DEF Init, WalkType
<1>3. FilesType /\ HistoryType
    <2>1. 1 \in Inode /\ Nobody \notin Inode
        BY DEF Inode
    <2>2. AllRows \in Fetch /\ Saved(AllRows) \in Snapshots /\ Envelope(Saved(AllRows)) \in Envelopes
        BY FirstSnapshot, EnvelopeLoads
    <2>3. Envelope(Saved(AllRows)) # Nobody
        BY <2>2
    <2>4. HistoryType
        <3>1. exports = 0 /\ handEdits = 0 /\ pool = {} /\ overlap = FALSE
            BY DEF Init
        <3>2. 0 \in 0..MaxExports /\ 0 \in 0..MaxHandEdits
            OBVIOUS
        <3>3. [snapshot |-> Saved(AllRows), whole |-> TRUE] \in [snapshot : Snapshots, whole : BOOLEAN]
            BY <2>2
        <3>4. fetched \subseteq {[snapshot |-> Saved(AllRows), whole |-> TRUE]}
            BY DEF Init
        <3> QED BY <3>1, <3>2, <3>3, <3>4 DEF HistoryType
    <2>5. CASE name = [n \in {"path", "tmp"} |-> Nobody] /\ disk = [i \in Inode |-> Nobody]
        <3>1. name \in [{"path", "tmp"} -> Inode \cup {Nobody}] /\ name["path"] = Nobody /\ name["tmp"] = Nobody
            BY <2>5
        <3>2. disk \in [Inode -> {Nobody, Garbled} \cup Lists \cup Envelopes]
            BY <2>5
        <3>3. \A n \in {"path", "tmp"} : name[n] # Nobody => disk[name[n]] # Nobody
            BY <3>1
        <3> QED BY <2>4, <3>1, <3>2, <3>3 DEF FilesType
    <2>6. CASE /\ name = [n \in {"path", "tmp"} |-> IF n = "path" THEN 1 ELSE Nobody]
               /\ disk = [i \in Inode |-> IF i = 1 THEN Envelope(Saved(AllRows)) ELSE Nobody]
        <3>1. name \in [{"path", "tmp"} -> Inode \cup {Nobody}] /\ name["path"] = 1 /\ name["tmp"] = Nobody
            BY <2>1, <2>6
        <3>2. disk \in [Inode -> {Nobody, Garbled} \cup Lists \cup Envelopes] /\ disk[1] # Nobody
            BY <2>1, <2>2, <2>3, <2>6
        <3>3. 1 # Nobody
            BY <2>1
        <3>4. \A n \in {"path", "tmp"} : name[n] # Nobody => disk[name[n]] # Nobody
            BY <3>1, <3>2
        <3> QED BY <2>4, <3>1, <3>2, <3>3, <3>4 DEF FilesType
    <2> QED BY <2>4, <2>5, <2>6 DEF Init
<1> QED BY <1>1, <1>2, <1>a, <1>3, TypeParts

\* The types after an export has ended.
LEMMA EndKeepsType ==
    ASSUME ExportersType, HistoryType, NEW e \in Exporter, End(e)
    PROVE  ExportersType' /\ HistoryType'
<1>1. ExportersType'
    BY DEF ExportersType, End, Idle, Inside
<1>2. HistoryType'
    BY DEF HistoryType, End
<1> QED BY <1>1, <1>2

\* The walks after every step.
LEMMA WalkTypeStep == TypeOK /\ [Next]_vars => WalkType'
<1> SUFFICES ASSUME TypeOK, [Next]_vars
             PROVE  WalkType'
    OBVIOUS
<1> USE DEF Inside
<1>1. ServerType /\ ExportersType /\ WalkType
    BY TypeParts
<1>2. ASSUME walk' \in [Exporter -> Walk \cup {Off}],
             \A g \in Exporter : walk'[g] # Off =>
                walk'[g] = walk[g] /\ pc'[g] = pc[g] /\ fetch'[g] = fetch[g]
      PROVE  WalkType'
    BY <1>1, <1>2 DEF WalkType
<1>3. ASSUME NEW e \in Exporter, BeginWalk(e)
      PROVE  WalkType'
    <2>1. fetch[e] \in Fetch /\ pc'= pc /\ fetch' = fetch
        BY <1>1, <1>3 DEF BeginWalk, ExportersType
    <2>2. PICK path \in Deepest(fetch[e].todo), damaged \in BOOLEAN :
              walk' = [walk EXCEPT ![e] = StartWalk(path, damaged)]
        BY <1>3 DEF BeginWalk
    <2>3. path \in Path
        BY <2>1 DEF Deepest, Fetch
    <2>4. StartWalk(path, damaged) \in Walk /\ WalkOK(fetch[e], StartWalk(path, damaged))
        BY <1>1, <2>3, StartWalkIs DEF ServerType
    <2>5. walk' \in [Exporter -> Walk \cup {Off}]
        BY <1>1, <2>2, <2>4 DEF WalkType
    <2>6. ASSUME NEW g \in Exporter, walk'[g] # Off
          PROVE  pc'[g] = "fetching" /\ WalkOK(fetch'[g], walk'[g])
        <3>1. CASE g = e
            BY <1>1, <1>3, <2>1, <2>2, <2>4, <3>1 DEF BeginWalk, WalkType
        <3>2. CASE g # e
            BY <1>1, <2>1, <2>2, <2>6, <3>2 DEF WalkType
        <3> QED BY <3>1, <3>2
    <2> QED BY <2>5, <2>6 DEF WalkType
<1>4. ASSUME NEW e \in Exporter, ReadOn(e) \/ Leaves(e)
      PROVE  WalkType'
    <2>1. walk' = [walk EXCEPT ![e] = Off]
        BY <1>4 DEF ReadOn, Leaves, End
    <2>2. \A g \in Exporter : g # e => pc'[g] = pc[g] /\ fetch'[g] = fetch[g]
        BY <1>1, <1>4 DEF ReadOn, Leaves, End, Idle, ExportersType
    <2> QED BY <1>1, <1>2, <2>1, <2>2 DEF WalkType
<1>5. ASSUME NEW e \in Exporter, Begin(e) \/ Admit(e) \/ Open(e) \/ WriteSome(e) \/ WriteAll(e)
      PROVE  WalkType'
    <2>1. walk' = walk
        BY <1>5 DEF Begin, Admit, Open, WriteSome, WriteAll, exporters
    <2>2. walk[e] = Off
        <3>1. CASE Admit(e)
            <4>1. Deepest(fetch[e].todo) = {}
                BY <3>1 DEF Admit, Deepest
            <4> QED BY <1>1, <4>1 DEF WalkType, WalkOK
        <3>2. CASE pc[e] # "fetching"
            BY <1>1, <3>2 DEF WalkType
        <3> QED BY <1>5, <3>1, <3>2 DEF Begin, Open, WriteSome, WriteAll
    <2>3. \A g \in Exporter : g # e => pc'[g] = pc[g] /\ fetch'[g] = fetch[g]
        BY <1>1, <1>5 DEF Begin, Admit, Open, WriteSome, WriteAll, exporters, ExportersType
    <2> QED BY <1>1, <1>2, <2>1, <2>2, <2>3 DEF WalkType
<1>6. ASSUME EditTruth
      PROVE  WalkType'
    <2>1. pc' = pc /\ fetch' = fetch
          /\ walk' = [g \in Exporter |-> IF walk[g] = Off THEN Off ELSE Under(walk[g])]
        BY <1>6 DEF EditTruth
    <2>2. homes' \subseteq Group \X Zone /\ truth' \subseteq Row
        BY <1>1, <1>6 DEF EditTruth, Edit, ServerType
    <2>3. ASSUME NEW g \in Exporter, walk[g] # Off
          PROVE  /\ Under(walk[g]) \in Walk /\ WalkOK(fetch[g], Under(walk[g]))
                 /\ pc[g] = "fetching" /\ walk'[g] = Under(walk[g])
        <3>1. walk[g] \in Walk /\ WalkOK(fetch[g], walk[g]) /\ pc[g] = "fetching"
            BY <1>1, <2>3 DEF WalkType
        <3>2. Under(walk[g]) \in Walk /\ WalkOK(fetch[g], Under(walk[g]))
            BY <1>1, <2>2, <3>1, UnderIs DEF ServerType
        <3> QED BY <2>1, <2>3, <3>1, <3>2
    <2>4. walk' \in [Exporter -> Walk \cup {Off}]
        BY <2>1, <2>3
    <2>5. ASSUME NEW g \in Exporter, walk'[g] # Off
          PROVE  pc'[g] = "fetching" /\ WalkOK(fetch'[g], walk'[g])
        <3>1. walk[g] # Off
            BY <2>1, <2>5
        <3> QED BY <2>1, <2>3, <3>1
    <2> QED BY <2>4, <2>5 DEF WalkType
<1>7. ASSUME EditByHand \/ UNCHANGED vars
      PROVE  WalkType'
    <2>1. walk' = walk /\ pc' = pc /\ fetch' = fetch
        BY <1>7 DEF EditByHand, vars, exporters
    <2> QED BY <1>1, <1>2, <2>1 DEF WalkType
<1> QED BY <1>3, <1>4, <1>5, <1>6, <1>7, WalkCases DEF Step

\* The types after every step.
LEMMA TypeStep == TypeOK /\ DiskInv /\ [Next]_vars => TypeOK'
<1> SUFFICES ASSUME TypeOK, DiskInv, [Next]_vars
             PROVE  TypeOK'
    OBVIOUS
<1> USE DEF Inside
<1>1. ServerType /\ ExportersType /\ FilesType /\ HistoryType
    BY TypeParts
<1>2. SUFFICES ServerType' /\ ExportersType' /\ FilesType' /\ HistoryType'
    <2>1. WalkType'
        BY WalkTypeStep
    <2>2. (ServerType /\ ExportersType /\ WalkType /\ FilesType /\ HistoryType => TypeOK)'
        BY TypeParts, PTL
    <2> QED BY <2>1, <2>2
<1>3. ASSUME NEW e \in Exporter, Begin(e)
      PROVE  ServerType' /\ ExportersType' /\ FilesType' /\ HistoryType'
    <2>1. StartFetch(Scope[e]) \in Fetch
        BY DEF StartFetch, Fetch, Path
    <2>2. ServerType' /\ FilesType' /\ HistoryType'
        BY <1>1, <1>3 DEF Begin, ServerType, FilesType, HistoryType, server, files
    <2>3. ExportersType'
        BY <1>1, <1>3, <2>1 DEF Begin, ExportersType, ServerType
    <2> QED BY <2>2, <2>3
<1>4. ASSUME NEW e \in Exporter, ReadOn(e)
      PROVE  ServerType' /\ ExportersType' /\ FilesType' /\ HistoryType'
    <2>1. ServerType' /\ FilesType' /\ HistoryType'
        BY <1>1, <1>4 DEF ReadOn, ServerType, FilesType, HistoryType, files, history
    <2>2. fetch[e] \in Fetch
        BY <1>1, <1>4 DEF ReadOn, ExportersType
    <2>3. PICK certified \in BOOLEAN :
              \E f \in Reads(fetch[e], walk[e], certified) : f # Raised /\ fetch' = [fetch EXCEPT ![e] = f]
        BY <1>4 DEF ReadOn
    <2>4. PICK f \in Reads(fetch[e], walk[e], certified) : f # Raised /\ fetch' = [fetch EXCEPT ![e] = f]
        BY <2>3
    <2>5. f \in Fetch
        <3>1. walk[e] \in Walk /\ WalkOK(fetch[e], walk[e])
            BY <1>4, TypeParts DEF ReadOn, WalkType
        <3> QED BY <2>2, <2>4, <3>1, ReadKeeps
    <2>6. ExportersType'
        BY <1>1, <1>4, <2>4, <2>5 DEF ReadOn, ExportersType
    <2> QED BY <2>1, <2>6
<1>5. ASSUME NEW e \in Exporter, Leaves(e)
      PROVE  ServerType' /\ ExportersType' /\ FilesType' /\ HistoryType'
    <2>1. ExportersType' /\ HistoryType'
        BY <1>1, <1>5, EndKeepsType DEF Leaves
    <2>2. ServerType'
        BY <1>1, <1>5 DEF Leaves, ServerType
    <2>3. FilesType'
        BY <1>1, <1>5 DEF Leaves, FilesType
    <2> QED BY <2>1, <2>2, <2>3
<1>6. ASSUME NEW e \in Exporter, Admit(e)
      PROVE  ServerType' /\ ExportersType' /\ FilesType' /\ HistoryType'
    <2>1. ServerType' /\ FilesType'
        BY <1>1, <1>6 DEF Admit, ServerType, FilesType, server, files
    <2>2. Saved(fetch[e]) \in Snapshots
        BY <1>1, <1>6, SavedType DEF Admit, ExportersType
    <2>3. ExportersType'
        BY <1>1, <1>6, <2>2 DEF Admit, ExportersType
    <2>4. Delivers(Saved(fetch[e]).records, Scope[e], stable[e]) \in BOOLEAN
        BY DEF Delivers
    <2>5. HistoryType'
        BY <1>1, <1>6, <2>2, <2>4 DEF Admit, HistoryType
    <2> QED BY <2>1, <2>3, <2>5
<1>7. ASSUME NEW e \in Exporter, Open(e)
      PROVE  ServerType' /\ ExportersType' /\ FilesType' /\ HistoryType'
    <2>1. ServerType' /\ HistoryType'
        BY <1>1, <1>7 DEF Open, ServerType, HistoryType, server, history
    <2>2. FreeInode \in Inode /\ disk[FreeInode] = Nobody
        <3>1. e \in Waiting
            BY <1>7 DEF Open, Waiting
        <3>2. PICK k \in 0..(MaxExports + 1) : Used(disk, k) /\ k + Cardinality(Waiting) <= exports + 1
            BY DEF DiskInv
        <3> QED BY <1>1, <3>1, <3>2, FreeInodeIsNext DEF HistoryType
    <2> DEFINE i == IF name["tmp"] = Nobody THEN FreeInode ELSE name["tmp"]
    <2>3. i \in Inode /\ i # name["path"] /\ i # Nobody
        BY <1>1, <2>2 DEF FilesType, Inode
    <2>4. /\ fd' = [fd EXCEPT ![e] = i] /\ name' = [name EXCEPT !["tmp"] = i]
          /\ disk' = [disk EXCEPT ![i] = Garbled]
        BY <1>7 DEF Open
    <2> HIDE DEF i
    <2>5. ExportersType'
        BY <1>1, <1>7, <2>3, <2>4 DEF Open, ExportersType
    <2>6. FilesType'
        BY <1>1, <2>3, <2>4 DEF FilesType
    <2> QED BY <2>1, <2>5, <2>6
<1>8. ASSUME NEW e \in Exporter, WriteSome(e) \/ WriteAll(e)
      PROVE  ServerType' /\ ExportersType' /\ FilesType' /\ HistoryType'
    <2>1. ServerType' /\ HistoryType'
        BY <1>1, <1>8 DEF WriteSome, WriteAll, ServerType, HistoryType, server, history
    <2>2. ExportersType'
        BY <1>1, <1>8 DEF WriteSome, WriteAll, ExportersType, exporters
    <2>3. fd[e] \in Inode /\ body[e] \in Snapshots
        BY <1>1, <1>8 DEF WriteSome, WriteAll, ExportersType
    <2>4. Envelope(body[e]) \in Envelopes
        BY <2>3, EnvelopeLoads
    <2>5. PICK content \in {Garbled, Envelope(body[e])} : disk' = [disk EXCEPT ![fd[e]] = content]
        BY <1>8 DEF WriteSome, WriteAll
    <2>6. content # Nobody /\ content \in {Garbled} \cup Envelopes
        BY <2>4, <2>5
    <2>7. name' = name
        BY <1>8 DEF WriteSome, WriteAll
    <2>8. FilesType'
        BY <1>1, <2>3, <2>5, <2>6, <2>7 DEF FilesType
    <2> QED BY <2>1, <2>2, <2>8
<1>9. ASSUME EditTruth
      PROVE  ServerType' /\ ExportersType' /\ FilesType' /\ HistoryType'
    <2>1. FilesType' /\ HistoryType'
        BY <1>1, <1>9 DEF EditTruth, FilesType, HistoryType, files, history
    <2>2. ServerType'
        <3>1. edits' \in 0..MaxEdits /\ unproven' = unproven
            BY <1>1, <1>9 DEF EditTruth, Edit, ServerType
        <3>2. homes' \subseteq homes /\ truth' \subseteq Row
            BY <1>1, <1>9 DEF EditTruth, Edit, ServerType
        <3> QED BY <1>1, <3>1, <3>2 DEF ServerType
    <2>3. ExportersType'
        BY <1>1, <1>9 DEF EditTruth, ExportersType
    <2> QED BY <2>1, <2>2, <2>3
<1>10. ASSUME EditByHand
      PROVE  ServerType' /\ ExportersType' /\ FilesType' /\ HistoryType'
    <2>1. ServerType' /\ ExportersType' /\ HistoryType'
        BY <1>1, <1>10 DEF EditByHand, ServerType, ExportersType, HistoryType, server, exporters
    <2>2. name["path"] \in Inode /\ disk[name["path"]] \in Contents
        BY <1>1, <1>10 DEF EditByHand, FilesType, Contents
    <2>3. PICK content \in Edited(disk[name["path"]]) : disk' = [disk EXCEPT ![name["path"]] = content]
        BY <1>10 DEF EditByHand
    <2>4. content \in Contents
        BY <2>2, <2>3, EditedType
    <2>5. content # Nobody /\ name' = name
        BY <1>10, <2>4 DEF EditByHand, Contents
    <2>6. FilesType'
        BY <1>1, <2>2, <2>3, <2>4, <2>5 DEF FilesType, Contents
    <2> QED BY <2>1, <2>6
<1>11. ASSUME OnlyWalks
      PROVE  ServerType' /\ ExportersType' /\ FilesType' /\ HistoryType'
    BY <1>1, <1>11 DEF OnlyWalks, server, exporters, files, history,
       ServerType, ExportersType, FilesType, HistoryType
<1> QED BY <1>3, <1>4, <1>5, <1>6, <1>7, <1>8, <1>9, <1>10, <1>11, StepCases DEF Step

-----------------------------------------------------------------------------
(* Room for every export, and what the fetches owe *)

\* Nothing is created, and nobody begins to wait.
LEMMA SameDisk ==
    ASSUME TypeOK, DiskInv, exports \in Nat, exports' = exports, Waiting' \subseteq Waiting,
           \A i \in Inode : disk'[i] # Nobody <=> disk[i] # Nobody,
           \A e \in Writing' : e \in Writing /\ fd'[e] = fd[e]
    PROVE  DiskInv'
<1>1. PICK k \in 0..(MaxExports + 1) : Used(disk, k) /\ k + Cardinality(Waiting) <= exports + 1
    BY DEF DiskInv
<1>2. Cardinality(Waiting') <= Cardinality(Waiting) /\ Cardinality(Waiting') \in Nat
      /\ Cardinality(Waiting) \in Nat
    BY WaitingFinite, FS_Subset, FS_CardinalityType
<1>3. Used(disk', k)
    BY <1>1 DEF Used
<1>4. k + Cardinality(Waiting') <= exports' + 1
    BY <1>1, <1>2
<1>5. ASSUME NEW e \in Writing'
      PROVE  disk'[fd'[e]] # Nobody
    <2>1. e \in Writing /\ fd'[e] = fd[e] /\ fd[e] \in Inode
        BY DEF TypeOK, Writing
    <2> QED BY <2>1 DEF DiskInv
<1> QED BY <1>3, <1>4, <1>5 DEF DiskInv

\* There stays an inode for each export that may need one.
LEMMA DiskStep == TypeOK /\ DiskInv /\ [Next]_vars => DiskInv'
<1> SUFFICES ASSUME TypeOK, DiskInv, [Next]_vars
             PROVE  DiskInv'
    OBVIOUS
<1>1. ServerType /\ ExportersType /\ FilesType /\ HistoryType
    BY TypeParts
<1>2. PICK k \in 0..(MaxExports + 1) : Used(disk, k) /\ k + Cardinality(Waiting) <= exports + 1
    BY DEF DiskInv
<1>3. exports \in 0..MaxExports /\ exports \in Nat
    BY <1>1 DEF HistoryType
<1>4. ASSUME NEW e \in Exporter, Begin(e)
      PROVE  DiskInv'
    <2>1. Waiting' = Waiting \cup {e}
        BY <1>1, <1>4 DEF Begin, Waiting, ExportersType
    <2>2. Cardinality(Waiting') <= Cardinality(Waiting) + 1 /\ Cardinality(Waiting') \in Nat
        <3>1. Cardinality(Waiting) \in Nat /\ IsFiniteSet(Waiting)
            BY WaitingFinite
        <3>2. Cardinality(Waiting \cup {e}) =
                  IF e \in Waiting THEN Cardinality(Waiting) ELSE Cardinality(Waiting) + 1
            BY <3>1, FS_AddElement
        <3>3. Cardinality(Waiting \cup {e}) <= Cardinality(Waiting) + 1
              /\ Cardinality(Waiting \cup {e}) \in Nat
            BY <3>1, <3>2
        <3> QED BY <2>1, <3>3
    <2>3. exports' = exports + 1 /\ Used(disk', k)
        BY <1>2, <1>4 DEF Begin, files
    <2>4. k + Cardinality(Waiting') <= exports' + 1
        BY <1>2, <1>3, <2>2, <2>3, WaitingFinite
    <2>5. \A g \in Writing' : g \in Writing /\ fd' = fd /\ disk' = disk
        BY <1>1, <1>4 DEF Begin, Writing, ExportersType, files
    <2> QED BY <2>3, <2>4, <2>5 DEF DiskInv
<1>5. ASSUME NEW e \in Exporter, Leaves(e)
      PROVE  DiskInv'
    <2>1. Waiting' \subseteq Waiting
        BY <1>1, <1>5 DEF Leaves, End, Idle, Waiting, ExportersType
    <2>2. exports' = exports /\ disk' = disk
        BY <1>5 DEF Leaves, End
    <2>3. \A g \in Writing' : g \in Writing /\ fd'[g] = fd[g]
        BY <1>1, <1>5 DEF Leaves, End, Idle, Writing, ExportersType
    <2> QED BY <1>3, <2>1, <2>2, <2>3, SameDisk
<1>6. ASSUME NEW e \in Exporter, ReadOn(e) \/ Admit(e)
      PROVE  DiskInv'
    <2>1. Waiting' \subseteq Waiting
        BY <1>1, <1>6 DEF ReadOn, Admit, Waiting, ExportersType
    <2>2. exports' = exports /\ disk' = disk
        BY <1>6 DEF ReadOn, Admit, files, history
    <2>3. \A g \in Writing' : g \in Writing /\ fd'[g] = fd[g]
        BY <1>1, <1>6 DEF ReadOn, Admit, Writing, ExportersType
    <2> QED BY <1>3, <2>1, <2>2, <2>3, SameDisk
<1>7. ASSUME NEW e \in Exporter, Open(e)
      PROVE  DiskInv'
    <2>1. e \in Waiting /\ Waiting' = Waiting \ {e} /\ exports' = exports
        BY <1>1, <1>7 DEF Open, Waiting, ExportersType, history
    <2>2. Cardinality(Waiting') = Cardinality(Waiting) - 1
        BY <2>1, WaitingFinite, FS_RemoveElement
    <2> DEFINE i == IF name["tmp"] = Nobody THEN FreeInode ELSE name["tmp"]
    <2>3. FreeInode = k + 1 /\ FreeInode \in Inode /\ k + 1 \in 0..(MaxExports + 1)
        BY <1>2, <1>3, <2>1, FreeInodeIsNext
    <2>4. i \in Inode /\ disk' = [disk EXCEPT ![i] = Garbled] /\ fd' = [fd EXCEPT ![e] = i]
        BY <1>1, <1>7, <2>3 DEF Open, FilesType
    <2>5. \A j \in Inode : disk'[j] # Nobody <=> j = i \/ disk[j] # Nobody
        BY <1>1, <2>4 DEF FilesType
    <2>6. \E l \in 0..(MaxExports + 1) : Used(disk', l) /\ l + Cardinality(Waiting') <= exports' + 1
        <3>1. CASE name["tmp"] = Nobody
            <4>1. \A j \in Inode : disk'[j] # Nobody <=> j <= k + 1
                <5>1. \A j \in Inode : j \in Int /\ k \in Int
                    BY DEF Inode
                <5> QED BY <1>2, <2>3, <2>5, <3>1, <5>1 DEF Used
            <4>2. k + 1 + Cardinality(Waiting') <= exports' + 1
                BY <1>2, <1>3, <2>1, <2>2, WaitingFinite
            <4> QED BY <2>3, <4>1, <4>2 DEF Used
        <3>2. CASE name["tmp"] # Nobody
            <4>1. disk[i] # Nobody
                BY <1>1, <3>2 DEF FilesType
            <4>2. Used(disk', k)
                BY <1>2, <2>5, <4>1 DEF Used
            <4>3. k + Cardinality(Waiting') <= exports' + 1
                BY <1>2, <1>3, <2>1, <2>2, WaitingFinite
            <4> QED BY <4>2, <4>3
        <3> QED BY <3>1, <3>2
    <2>7. ASSUME NEW g \in Writing'
          PROVE  disk'[fd'[g]] # Nobody
        <3>1. fd'[g] \in Inode /\ (g = e => fd'[g] = i) /\ (g # e => g \in Writing /\ fd'[g] = fd[g])
            BY <1>1, <1>7, <2>4 DEF Open, Writing, ExportersType
        <3> HIDE DEF i
        <3> QED BY <2>5, <3>1 DEF DiskInv
    <2> QED BY <2>6, <2>7 DEF DiskInv
<1>8. ASSUME NEW e \in Exporter, WriteSome(e) \/ WriteAll(e)
      PROVE  DiskInv'
    <2>1. Waiting' \subseteq Waiting /\ exports' = exports
        BY <1>1, <1>8 DEF WriteSome, WriteAll, Waiting, ExportersType, exporters, history
    <2>2. fd[e] \in Inode /\ body[e] \in Snapshots
        BY <1>1, <1>8 DEF WriteSome, WriteAll, ExportersType, Inside
    <2>3. Envelope(body[e]) # Nobody
        BY <2>2, EnvelopeLoads
    <2>4. PICK content \in {Garbled, Envelope(body[e])} : disk' = [disk EXCEPT ![fd[e]] = content]
        BY <1>8 DEF WriteSome, WriteAll
    <2>5. disk[fd[e]] # Nobody
        BY <1>8 DEF WriteSome, WriteAll, DiskInv, Writing
    <2>6. \A i \in Inode : disk'[i] # Nobody <=> disk[i] # Nobody
        BY <1>1, <2>3, <2>4, <2>5 DEF FilesType
    <2>7. \A g \in Writing' : g \in Writing /\ fd'[g] = fd[g]
        BY <1>1, <1>8 DEF WriteSome, WriteAll, Writing, ExportersType, exporters
    <2> QED BY <1>3, <2>1, <2>6, <2>7, SameDisk
<1>9. ASSUME EditByHand
      PROVE  DiskInv'
    <2>1. name["path"] \in Inode /\ disk[name["path"]] \in Contents
        BY <1>1, <1>9 DEF EditByHand, FilesType, Contents
    <2>2. PICK content \in Edited(disk[name["path"]]) : disk' = [disk EXCEPT ![name["path"]] = content]
        BY <1>9 DEF EditByHand
    <2>3. content # Nobody /\ disk[name["path"]] # Nobody
        BY <2>1, <2>2, EditedType DEF Contents
    <2>4. \A i \in Inode : disk'[i] # Nobody <=> disk[i] # Nobody
        BY <1>1, <2>2, <2>3 DEF FilesType
    <2>5. Waiting' \subseteq Waiting /\ exports' = exports
          /\ \A g \in Writing' : g \in Writing /\ fd'[g] = fd[g]
        BY <1>9 DEF EditByHand, Waiting, Writing, exporters
    <2> QED BY <1>3, <2>4, <2>5, SameDisk
<1>10. ASSUME EditTruth \/ OnlyWalks
       PROVE  DiskInv'
    <2>1. Waiting' \subseteq Waiting /\ exports' = exports /\ disk' = disk
          /\ \A g \in Writing' : g \in Writing /\ fd'[g] = fd[g]
        BY <1>10 DEF EditTruth, OnlyWalks, exporters, files, history, Waiting, Writing
    <2> QED BY <1>3, <2>1, SameDisk
<1> QED BY <1>4, <1>5, <1>6, <1>7, <1>8, <1>9, <1>10, StepCases DEF Step

\* The rows under truth stay in the homes.
LEMMA TruthStep == TypeOK /\ TruthInv /\ [Next]_vars => TruthInv'
<1> SUFFICES ASSUME TypeOK, TruthInv, [Next]_vars
             PROVE  TruthInv'
    OBVIOUS
<1>1. ServerType /\ ExportersType /\ FilesType /\ HistoryType
    BY TypeParts
<1>2. ASSUME NEW e \in Exporter, Step(e)
      PROVE  TruthInv'
    <2>1. homes' = homes /\ truth' = truth
        BY <1>2 DEF Step, Begin, ReadOn, Leaves, Admit, Open, WriteSome, WriteAll, server
    <2>2. \A g \in Exporter : stable'[g] = stable[g] \/ stable'[g] = truth \/ stable'[g] = {}
        BY <1>1, <1>2 DEF Step, Begin, ReadOn, Leaves, End, Admit, Open, WriteSome, WriteAll,
           ExportersType, exporters
    <2> QED BY <2>1, <2>2 DEF TruthInv
<1>3. ASSUME EditTruth
      PROVE  TruthInv'
    <2>1. \A r \in truth' : <<r.group, r.zone>> \in homes'
        BY <1>3 DEF EditTruth, Edit, TruthInv
    <2>2. \A g \in Exporter : stable'[g] \subseteq truth'
        BY <1>3 DEF EditTruth
    <2> QED BY <2>1, <2>2 DEF TruthInv
<1>4. ASSUME EditByHand \/ OnlyWalks
      PROVE  TruthInv'
    BY <1>4 DEF EditByHand, OnlyWalks, server, exporters, TruthInv
<1> QED BY <1>2, <1>3, <1>4, StepCases

\* Every walk that is not lost keeps what leads to the rows that stand still.
LEMMA WalkStep == TypeOK /\ TruthInv /\ TruthInv' /\ WalkInv /\ [Next]_vars => WalkInv'
<1> SUFFICES ASSUME TypeOK, TruthInv, TruthInv', WalkInv, [Next]_vars,
                    NEW g \in Exporter, walk'[g] # Off
             PROVE  WalkKeeps(walk'[g], stable'[g])
    BY DEF WalkInv
<1>1. ServerType /\ ExportersType /\ WalkType
    BY TypeParts
<1>2. ASSUME walk'[g] = walk[g], stable'[g] \subseteq stable[g]
      PROVE  WalkKeeps(walk'[g], stable'[g])
    BY <1>2 DEF WalkInv, WalkKeeps
<1>3. ASSUME NEW e \in Exporter, BeginWalk(e)
      PROVE  WalkKeeps(walk'[g], stable'[g])
    <2>1. CASE g = e
        <3>1. fetch[e] \in Fetch /\ stable' = stable
            BY <1>1, <1>3 DEF BeginWalk, ExportersType
        <3>2. PICK path \in Deepest(fetch[e].todo), damaged \in BOOLEAN :
                  walk' = [walk EXCEPT ![e] = StartWalk(path, damaged)]
            BY <1>3 DEF BeginWalk
        <3>3. path \in Path
            BY <3>1 DEF Deepest, Fetch
        <3>4. walk'[g] = StartWalk(path, damaged)
            BY <1>1, <2>1, <3>2 DEF WalkType
        <3>5. stable[g] \in SUBSET truth
            BY DEF TruthInv
        <3>6. \A R \in SUBSET truth : WalkKeeps(StartWalk(path, damaged), R)
            BY <1>1, <3>3, StartWalkIs DEF ServerType
        <3> QED BY <3>1, <3>4, <3>5, <3>6
    <2>2. CASE g # e
        <3>1. walk'[g] = walk[g] /\ stable'[g] = stable[g]
            BY <1>1, <1>3, <2>2 DEF BeginWalk, WalkType
        <3> QED BY <1>2, <3>1
    <2> QED BY <2>1, <2>2
<1>4. ASSUME NEW e \in Exporter, ReadOn(e) \/ Leaves(e)
      PROVE  WalkKeeps(walk'[g], stable'[g])
    <2>1. walk'[g] = walk[g] /\ g # e
        BY <1>1, <1>4 DEF ReadOn, Leaves, End, WalkType
    <2>2. stable'[g] = stable[g]
        BY <1>1, <1>4, <2>1 DEF ReadOn, Leaves, End, ExportersType
    <2> QED BY <1>2, <2>1, <2>2
<1>5. ASSUME NEW e \in Exporter, Begin(e) \/ Admit(e) \/ Open(e) \/ WriteSome(e) \/ WriteAll(e)
      PROVE  WalkKeeps(walk'[g], stable'[g])
    <2>1. walk' = walk
        BY <1>5 DEF Begin, Admit, Open, WriteSome, WriteAll, exporters
    <2>2. pc[g] = "fetching"
        BY <1>1, <2>1 DEF WalkType
    <2>3. stable'[g] \subseteq stable[g]
        BY <1>1, <1>5, <2>2 DEF Begin, Admit, Open, WriteSome, WriteAll, exporters, ExportersType
    <2> QED BY <1>2, <2>1, <2>3
<1>6. ASSUME EditTruth
      PROVE  WalkKeeps(walk'[g], stable'[g])
    <2>1. walk' = [e \in Exporter |-> IF walk[e] = Off THEN Off ELSE Under(walk[e])]
          /\ stable' = [e \in Exporter |->
                 {r \in stable[e] \cap truth' :
                     walk'[e] # Off /\ Lost(walk'[e]) => ~Leads(walk'[e].path, r)}]
        BY <1>6 DEF EditTruth
    <2>2. walk[g] # Off /\ walk'[g] = Under(walk[g]) /\ walk[g] \in Walk /\ WalkOK(fetch[g], walk[g])
        BY <1>1, <2>1 DEF WalkType
    <2>3. homes' \subseteq Group \X Zone /\ truth' \subseteq Row
        BY <1>1, <1>6 DEF EditTruth, Edit, ServerType
    <2>4. /\ walk'[g].path = walk[g].path
          /\ walk'[g].kept = walk[g].kept \cap Listing(walk[g].path, homes', truth')
        BY <1>1, <2>2, <2>3, UnderIs DEF ServerType
    <2> SUFFICES ASSUME NEW r \in stable'[g], Leads(walk'[g].path, r)
                 PROVE  ~Lost(walk'[g]) /\ Below(walk'[g].path, r) \in walk'[g].kept
        BY DEF WalkKeeps
    <2>5. r \in stable[g] /\ r \in truth' /\ ~Lost(walk'[g])
        BY <2>1
    <2>6. Below(walk[g].path, r) \in walk[g].kept
        BY <2>2, <2>4, <2>5 DEF WalkInv, WalkKeeps
    <2>7. <<r.group, r.zone>> \in homes' /\ r \in Row
        BY <2>3, <2>5 DEF TruthInv
    <2>8. Below(walk[g].path, r) \in Listing(walk[g].path, homes', truth')
        BY <2>4, <2>5, <2>7, BelowListed
    <2> QED BY <2>4, <2>5, <2>6, <2>8
<1>7. ASSUME EditByHand \/ UNCHANGED vars
      PROVE  WalkKeeps(walk'[g], stable'[g])
    <2>1. walk' = walk /\ stable' = stable
        BY <1>7 DEF EditByHand, vars, exporters
    <2> QED BY <1>2, <2>1
<1> QED BY <1>3, <1>4, <1>5, <1>6, <1>7, WalkCases DEF Step

\* Every fetch keeps what it owes within reach.
LEMMA FetchStep == TypeOK /\ FetchInv /\ WalkInv /\ [Next]_vars => FetchInv'
<1> SUFFICES ASSUME TypeOK, FetchInv, WalkInv, [Next]_vars,
                    NEW g \in Exporter, pc'[g] = "fetching"
             PROVE  fetch'[g].wanted = Scope[g] /\ FetchCovers(fetch'[g], stable'[g])
    BY DEF FetchInv
<1>1. ServerType /\ ExportersType /\ FilesType /\ HistoryType
    BY TypeParts
<1>2. ASSUME pc[g] = "fetching", fetch'[g] = fetch[g], stable'[g] \subseteq stable[g]
      PROVE  fetch'[g].wanted = Scope[g] /\ FetchCovers(fetch'[g], stable'[g])
    BY <1>2 DEF FetchInv, FetchCovers
<1>3. ASSUME NEW e \in Exporter, Begin(e)
      PROVE  fetch'[g].wanted = Scope[g] /\ FetchCovers(fetch'[g], stable'[g])
    <2>1. CASE g = e
        <3>1. fetch'[g] = StartFetch(Scope[g])
            BY <1>1, <1>3, <2>1 DEF Begin, ExportersType
        <3>2. fetch'[g].wanted = Scope[g] /\ <<>> \in fetch'[g].todo
            BY <3>1 DEF StartFetch
        <3> QED BY <3>2 DEF FetchCovers, Covered
    <2>2. CASE g # e
        <3>1. pc[g] = "fetching" /\ fetch'[g] = fetch[g] /\ stable'[g] = stable[g]
            BY <1>1, <1>3, <2>2 DEF Begin, ExportersType
        <3> QED BY <1>2, <3>1
    <2> QED BY <2>1, <2>2
<1>4. ASSUME NEW e \in Exporter, ReadOn(e)
      PROVE  fetch'[g].wanted = Scope[g] /\ FetchCovers(fetch'[g], stable'[g])
    <2>1. CASE g = e
        <3>1. PICK certified \in BOOLEAN :
                  \E f \in Reads(fetch[e], walk[e], certified) : f # Raised /\ fetch' = [fetch EXCEPT ![e] = f]
            BY <1>4 DEF ReadOn
        <3>2. PICK f \in Reads(fetch[e], walk[e], certified) : f # Raised /\ fetch' = [fetch EXCEPT ![e] = f]
            BY <3>1
        <3>3. fetch[e] \in Fetch /\ fetch'[g] = f /\ stable'[g] = stable[e]
            BY <1>1, <1>4, <2>1, <3>2 DEF ReadOn, ExportersType
        <3>4. fetch[e].wanted = Scope[e] /\ FetchCovers(fetch[e], stable[e]) /\ stable[e] \in SUBSET Row
            BY <1>1, <1>4 DEF ReadOn, FetchInv, ExportersType
        <3>5. walk[e] \in Walk /\ WalkOK(fetch[e], walk[e]) /\ WalkKeeps(walk[e], stable[e])
            BY <1>4, TypeParts DEF ReadOn, WalkType, WalkInv
        <3>6. f.wanted = fetch[e].wanted /\ FetchCovers(f, stable[e])
            BY <3>2, <3>3, <3>4, <3>5, ReadKeeps
        <3> QED BY <2>1, <3>3, <3>4, <3>6
    <2>2. CASE g # e
        <3>1. pc[g] = "fetching" /\ fetch'[g] = fetch[g] /\ stable'[g] = stable[g]
            BY <1>1, <1>4, <2>2 DEF ReadOn, ExportersType
        <3> QED BY <1>2, <3>1
    <2> QED BY <2>1, <2>2
<1>5. ASSUME NEW e \in Exporter, Leaves(e) \/ Admit(e) \/ Open(e) \/ WriteSome(e) \/ WriteAll(e)
      PROVE  fetch'[g].wanted = Scope[g] /\ FetchCovers(fetch'[g], stable'[g])
    <2>1. pc[g] = "fetching" /\ fetch'[g] = fetch[g] /\ stable'[g] = stable[g]
        BY <1>1, <1>5 DEF Leaves, End, Idle, Admit, Open, WriteSome, WriteAll, ExportersType, exporters
    <2> QED BY <1>2, <2>1
<1>6. ASSUME EditTruth
      PROVE  fetch'[g].wanted = Scope[g] /\ FetchCovers(fetch'[g], stable'[g])
    <2>1. pc[g] = "fetching" /\ fetch'[g] = fetch[g] /\ stable'[g] \subseteq stable[g]
        BY <1>6 DEF EditTruth
    <2> QED BY <1>2, <2>1
<1>7. ASSUME EditByHand \/ OnlyWalks
      PROVE  fetch'[g].wanted = Scope[g] /\ FetchCovers(fetch'[g], stable'[g])
    <2>1. pc[g] = "fetching" /\ fetch'[g] = fetch[g] /\ stable'[g] = stable[g]
        BY <1>7 DEF EditByHand, OnlyWalks, exporters
    <2> QED BY <1>2, <2>1
<1> QED BY <1>3, <1>4, <1>5, <1>6, <1>7, StepCases DEF Step

-----------------------------------------------------------------------------
(* What was saved, and who is in flight *)

\* The envelopes at the beginning.
LEMMA SealInit == Init => SealInv
<1> SUFFICES ASSUME Init PROVE SealInv
    OBVIOUS
<1>1. InFlight = {}
    BY DEF Init, InFlight, Inside
<1> DEFINE s == Saved(AllRows)
<1>2. s \in Snapshots
    BY FirstSnapshot
<1>3. Envelope(s).checksum = Checksum(s.records, s.verified)
    BY <1>2, EnvelopeLoads
<1>4. ASSUME NEW i \in Inode, disk[i] \in Envelopes
      PROVE  Sealed(disk[i])
    <2> HIDE DEF s
    <2>1. disk[i] # Nobody
        BY <1>4
    <2>2. disk[i] = Envelope(s) /\ fetched = {[snapshot |-> s, whole |-> TRUE]}
        BY <2>1 DEF Init, s
    <2> QED BY <1>3, <2>2 DEF Sealed
<1> QED BY <1>1, <1>4 DEF SealInv

\* Everything saved came out of a fetch, and what is verified out of a whole one.
LEMMA SealStep == TypeOK /\ FetchInv /\ SealInv /\ [Next]_vars => SealInv'
<1> SUFFICES ASSUME TypeOK, FetchInv, SealInv, [Next]_vars
             PROVE  SealInv'
    OBVIOUS
<1> USE DEF Inside
<1>1. ServerType /\ ExportersType /\ FilesType /\ HistoryType
    BY TypeParts
<1>2. ASSUME fetched \subseteq fetched', \A g \in InFlight' : g \in InFlight /\ body'[g] = body[g],
             \A i \in Inode : disk'[i] \in Envelopes => disk' = disk \/ Sealed(disk[i])'
      PROVE  SealInv'
    <2>1. ASSUME NEW g \in InFlight'
          PROVE  Vouched(body[g])'
        <3>1. Vouched(body[g]) /\ body'[g] = body[g]
            BY <1>2 DEF SealInv
        <3> QED BY <1>2, <3>1 DEF Vouched
    <2>2. ASSUME NEW i \in Inode, disk'[i] \in Envelopes
          PROVE  Sealed(disk[i])'
        <3>1. CASE disk' = disk
            <4>1. Sealed(disk[i])
                BY <2>2, <3>1 DEF SealInv
            <4> QED BY <1>2, <3>1, <4>1 DEF Sealed
        <3> QED BY <1>2, <2>2, <3>1
    <2> QED BY <2>1, <2>2 DEF SealInv
<1>3. ASSUME NEW e \in Exporter, Begin(e) \/ ReadOn(e) \/ Leaves(e)
      PROVE  SealInv'
    <2>1. fetched' = fetched /\ disk' = disk
        BY <1>3 DEF Begin, ReadOn, Leaves, End, files, history
    <2>2. \A g \in InFlight' : g \in InFlight /\ body'[g] = body[g]
        BY <1>1, <1>3 DEF Begin, ReadOn, Leaves, End, Idle, InFlight, ExportersType
    <2> QED BY <1>2, <2>1, <2>2
<1>4. ASSUME NEW e \in Exporter, Admit(e)
      PROVE  SealInv'
    <2> DEFINE f == fetch[e]
               s == Saved(f)
               W == Delivers(s.records, Scope[e], stable[e])
    <2>1. f \in Fetch /\ f.todo = {} /\ Representable(f.grouped) /\ stable[e] \in SUBSET Row
        BY <1>1, <1>4 DEF Admit, ExportersType
    <2>2. s \in Snapshots /\ s.records = Canonical(f.grouped) /\ s.verified = f.verified
        BY <2>1, SavedType
    <2>3. f.wanted = Scope[e] /\ FetchCovers(f, stable[e])
        BY <1>4 DEF Admit, FetchInv
    <2>4. s.verified => W
        <3> SUFFICES ASSUME f.verified
                     PROVE  Delivers(Canonical(f.grouped), f.wanted, stable[e])
            BY <2>2, <2>3
        <3> QED BY <2>1, <2>3, FetchDelivers
    <2>5. /\ fetched' = fetched \cup {[snapshot |-> s, whole |-> W]}
          /\ body' = [body EXCEPT ![e] = s] /\ disk' = disk
        BY <1>4 DEF Admit, files
    <2>6. \A g \in InFlight' : g = e \/ g \in InFlight
        BY <1>1, <1>4 DEF Admit, InFlight, ExportersType
    <2> HIDE DEF s, W
    <2>7. ASSUME NEW g \in InFlight'
          PROVE  Vouched(body[g])'
        <3>1. CASE g = e
            <4>1. body'[g] = s
                BY <1>1, <2>5, <3>1 DEF ExportersType
            <4>2. [snapshot |-> s, whole |-> W] \in fetched'
                BY <2>5
            <4> QED BY <2>4, <4>1, <4>2 DEF Vouched
        <3>2. CASE g # e
            <4>1. g \in InFlight /\ body'[g] = body[g]
                BY <1>1, <2>5, <2>6, <3>2 DEF ExportersType, InFlight
            <4>2. Vouched(body[g])
                BY <4>1 DEF SealInv
            <4> QED BY <2>5, <4>1, <4>2 DEF Vouched
        <3> QED BY <3>1, <3>2
    <2>8. ASSUME NEW i \in Inode, disk'[i] \in Envelopes
          PROVE  Sealed(disk[i])'
        <3>1. Sealed(disk[i])
            BY <2>5, <2>8 DEF SealInv
        <3> QED BY <2>5, <3>1 DEF Sealed
    <2> QED BY <2>7, <2>8 DEF SealInv
<1>5. ASSUME NEW e \in Exporter, Open(e) \/ WriteSome(e) \/ WriteAll(e)
      PROVE  SealInv'
    <2>1. fetched' = fetched /\ \A g \in InFlight' : g \in InFlight /\ body'[g] = body[g]
        BY <1>1, <1>5 DEF Open, WriteSome, WriteAll, exporters, history, InFlight, ExportersType
    <2>2. PICK i \in Inode \cup {Nobody, FreeInode}, content \in {Garbled, Envelope(body[e])} :
              disk' = [disk EXCEPT ![i] = content]
        <3>1. CASE Open(e)
            BY <1>1, <3>1 DEF Open, FilesType
        <3>2. CASE WriteSome(e) \/ WriteAll(e)
            BY <1>1, <3>2 DEF WriteSome, WriteAll, ExportersType
        <3> QED BY <1>5, <3>1, <3>2
    <2>3. body[e] \in Snapshots /\ Vouched(body[e])
        BY <1>1, <1>5 DEF Open, WriteSome, WriteAll, ExportersType, SealInv, InFlight
    <2>4. Envelope(body[e]).checksum = Checksum(body[e].records, body[e].verified)
        BY <2>3, EnvelopeLoads
    <2>5. ASSUME NEW j \in Inode, disk'[j] \in Envelopes
          PROVE  Sealed(disk[j])'
        <3>1. disk'[j] = disk[j] \/ disk'[j] = Envelope(body[e])
            <4>1. disk'[j] # Garbled
                BY <2>5
            <4> QED BY <1>1, <2>2, <4>1 DEF FilesType
        <3>2. CASE disk'[j] = disk[j]
            <4>1. Sealed(disk[j])
                BY <2>5, <3>2 DEF SealInv
            <4> QED BY <2>1, <3>2, <4>1 DEF Sealed
        <3>3. CASE disk'[j] = Envelope(body[e])
            <4>1. \E f \in fetched : f.snapshot = body[e] /\ (body[e].verified => f.whole)
                BY <2>3 DEF Vouched
            <4> QED BY <2>1, <2>4, <3>3, <4>1 DEF Sealed
        <3> QED BY <3>1, <3>2, <3>3
    <2> QED BY <1>2, <2>1, <2>5
<1>6. ASSUME EditByHand
      PROVE  SealInv'
    <2>1. fetched' = fetched /\ \A g \in InFlight' : g \in InFlight /\ body'[g] = body[g]
        BY <1>6 DEF EditByHand, exporters, InFlight
    <2>2. name["path"] \in Inode /\ disk[name["path"]] \in Contents
        BY <1>1, <1>6 DEF EditByHand, FilesType, Contents
    <2>3. PICK content \in Edited(disk[name["path"]]) : disk' = [disk EXCEPT ![name["path"]] = content]
        BY <1>6 DEF EditByHand
    <2>4. content \in Envelopes =>
              disk[name["path"]] \in Envelopes /\ content.checksum = disk[name["path"]].checksum
        BY <2>2, <2>3, EditedType
    <2>5. ASSUME NEW j \in Inode, disk'[j] \in Envelopes
          PROVE  Sealed(disk[j])'
        <3>1. disk[j] \in Envelopes /\ disk'[j].checksum = disk[j].checksum
            BY <1>1, <2>3, <2>4, <2>5 DEF FilesType
        <3>2. Sealed(disk[j])
            BY <3>1 DEF SealInv
        <3> QED BY <2>1, <3>1, <3>2 DEF Sealed
    <2> QED BY <1>2, <2>1, <2>5
<1>7. ASSUME EditTruth \/ OnlyWalks
      PROVE  SealInv'
    <2>1. fetched' = fetched /\ disk' = disk
          /\ \A g \in InFlight' : g \in InFlight /\ body'[g] = body[g]
        BY <1>7 DEF EditTruth, OnlyWalks, exporters, files, history, InFlight
    <2> QED BY <1>2, <2>1
<1> QED BY <1>3, <1>4, <1>5, <1>6, <1>7, StepCases DEF Step

\* The end of an export takes it out of flight, and the last one takes the pool.
LEMMA EndLands ==
    ASSUME ExportersType, NEW e \in Exporter, End(e)
    PROVE  /\ InFlight' = InFlight \ {e}
           /\ pool' = IF InFlight' = {} THEN {} ELSE pool
           /\ overlap' <=> overlap /\ InFlight' # {}
           /\ body' = [body EXCEPT ![e] = Off] /\ fd' = [fd EXCEPT ![e] = Nobody]
           /\ Writing' = Writing \ {e}
           /\ \A g \in Writing' : pc'[g] = pc[g]
<1>1. InFlight' = InFlight \ {e} /\ Writing' = Writing \ {e} /\ \A g \in Writing' : pc'[g] = pc[g]
    BY DEF ExportersType, End, Idle, InFlight, Writing, Inside
<1>2. InFlight \subseteq {e} <=> InFlight' = {}
    BY <1>1
<1> QED BY <1>1, <1>2 DEF End

\* Nobody is in flight at the beginning.
LEMMA FlightInit == Init => FlightInv
<1> SUFFICES ASSUME Init PROVE FlightInv
    OBVIOUS
<1>1. InFlight = {} /\ Writing = {} /\ pool = {} /\ ~overlap
    BY DEF Init, InFlight, Writing, Inside
<1> QED BY <1>1 DEF FlightInv

\* Those in flight publish only what was admitted, and alone only what they wrote.
LEMMA FlightStep == TypeOK /\ DiskInv /\ FlightInv /\ [Next]_vars => FlightInv'
<1> SUFFICES ASSUME TypeOK, DiskInv, FlightInv, [Next]_vars
             PROVE  FlightInv'
    OBVIOUS
<1> USE DEF Inside
<1>1. ServerType /\ ExportersType /\ FilesType /\ HistoryType
    BY TypeParts
<1>2. Writing \subseteq InFlight /\ Load(Garbled) = Broken
    BY LoadType DEF Writing, InFlight, Contents
<1>3. ASSUME InFlight' = InFlight, pool' = pool, overlap' = overlap, \A g \in InFlight : body'[g] = body[g],
             Writing' = Writing, \A g \in Writing : pc'[g] = pc[g] /\ fd'[g] = fd[g], name' = name,
             name["tmp"] # Nobody => disk'[name["tmp"]] = disk[name["tmp"]]
      PROVE  FlightInv'
    <2>1. /\ InFlight' = {} => pool' = {} /\ ~overlap'
          /\ \A g \in InFlight' : body'[g] \in pool'
          /\ ~overlap' => \A g, h \in InFlight' : g = h
          /\ ~overlap' => \A g \in Writing' : fd'[g] = name'["tmp"]
        BY <1>2, <1>3 DEF FlightInv
    <2>2. ASSUME ~overlap', NEW g \in Writing', pc'[g] = "written"
          PROVE  disk'[fd'[g]] = Envelope(body'[g])
        <3>1. fd[g] = name["tmp"] /\ fd[g] # Nobody /\ disk[fd[g]] = Envelope(body[g])
            BY <1>1, <1>3, <2>2 DEF FlightInv, Writing, ExportersType
        <3> QED BY <1>2, <1>3, <2>2, <3>1
    <2>3. Writing' # {} /\ name'["tmp"] # Nobody => Load(disk'[name'["tmp"]]) \in pool' \cup {Broken}
        BY <1>3 DEF FlightInv
    <2> QED BY <2>1, <2>2, <2>3 DEF FlightInv
<1>4. ASSUME NEW e \in Exporter, Begin(e) \/ ReadOn(e)
      PROVE  FlightInv'
    <2>1. /\ InFlight' = InFlight /\ pool' = pool /\ overlap' = overlap /\ body' = body
          /\ Writing' = Writing /\ (\A g \in Writing : pc'[g] = pc[g]) /\ fd' = fd /\ name' = name /\ disk' = disk
        BY <1>1, <1>4 DEF Begin, ReadOn, files, history, InFlight, Writing, ExportersType
    <2> QED BY <1>3, <2>1
<1>5. ASSUME NEW e \in Exporter, Leaves(e)
      PROVE  FlightInv'
    <2>1. /\ InFlight' = InFlight \ {e}
          /\ pool' = IF InFlight' = {} THEN {} ELSE pool
          /\ overlap' <=> overlap /\ InFlight' # {}
          /\ \A g \in InFlight' : body'[g] = body[g]
          /\ Writing' = Writing \ {e}
          /\ \A g \in Writing' : fd'[g] = fd[g] /\ pc'[g] = pc[g]
          /\ disk' = disk
        BY <1>1, <1>2, <1>5, EndLands DEF Leaves, ExportersType, InFlight, Writing
    <2>2. /\ InFlight' = {} => pool' = {} /\ ~overlap'
          /\ \A g \in InFlight' : body'[g] \in pool'
          /\ ~overlap' => \A g, h \in InFlight' : g = h
        BY <1>1, <2>1 DEF FlightInv, HistoryType
    <2>3. ASSUME ~overlap', NEW g \in Writing'
          PROVE  ~overlap /\ name' = name
        <3>1. g \in InFlight' /\ ~overlap
            BY <1>2, <2>1, <2>3
        <3>2. e \notin InFlight
            BY <2>1, <3>1 DEF FlightInv
        <3>3. pc[e] # "written"
            BY <3>2 DEF InFlight
        <3> QED BY <1>5, <3>1, <3>3 DEF Leaves
    <2>4. /\ ~overlap' => \A g \in Writing' : fd'[g] = name'["tmp"]
          /\ ~overlap' => \A g \in Writing' : pc'[g] = "written" => disk'[fd'[g]] = Envelope(body'[g])
        BY <1>2, <2>1, <2>3 DEF FlightInv
    <2>5. ASSUME Writing' # {}, name'["tmp"] # Nobody
          PROVE  Load(disk'[name'["tmp"]]) \in pool' \cup {Broken}
        <3>1. name' = name
            BY <1>1, <1>5, <2>5 DEF Leaves, FilesType
        <3>2. Writing # {} /\ pool' = pool
            BY <1>2, <2>1, <2>5
        <3> QED BY <2>1, <2>5, <3>1, <3>2 DEF FlightInv
    <2> QED BY <2>2, <2>4, <2>5 DEF FlightInv
<1>6. ASSUME NEW e \in Exporter, Admit(e)
      PROVE  FlightInv'
    <2> DEFINE s == Saved(fetch[e])
    <2>1. /\ InFlight' = InFlight \cup {e} /\ e \notin InFlight
          /\ pool' = pool \cup {s} /\ (overlap' <=> overlap \/ InFlight # {})
          /\ body' = [body EXCEPT ![e] = s]
        BY <1>1, <1>6 DEF Admit, InFlight, ExportersType
    <2>2. Writing' = Writing /\ (\A g \in Writing : pc'[g] = pc[g]) /\ fd' = fd /\ name' = name /\ disk' = disk
        BY <1>1, <1>6 DEF Admit, Writing, ExportersType, files
    <2> HIDE DEF s
    <2>3. \A g \in InFlight' : body'[g] \in pool'
        <3>1. \A g \in InFlight' : (g = e /\ body'[g] = s) \/ (g \in InFlight /\ body'[g] = body[g])
            BY <1>1, <2>1 DEF ExportersType, InFlight
        <3> QED BY <2>1, <3>1 DEF FlightInv
    <2>4. ~overlap' => InFlight' = {e} /\ Writing' = {}
        BY <1>2, <2>1, <2>2
    <2>5. Writing' # {} /\ name'["tmp"] # Nobody => Load(disk'[name'["tmp"]]) \in pool' \cup {Broken}
        BY <2>1, <2>2 DEF FlightInv
    <2> QED BY <2>1, <2>3, <2>4, <2>5 DEF FlightInv
<1>7. ASSUME NEW e \in Exporter, Open(e)
      PROVE  FlightInv'
    <2>1. e \in InFlight /\ InFlight' = InFlight /\ pool' = pool /\ overlap' = overlap /\ body' = body
          /\ pc' = [pc EXCEPT ![e] = "opened"]
        BY <1>1, <1>7 DEF Open, InFlight, ExportersType, history
    <2>2. PICK i \in Inode : /\ fd' = [fd EXCEPT ![e] = i] /\ name' = [name EXCEPT !["tmp"] = i]
                             /\ disk' = [disk EXCEPT ![i] = Garbled]
        <3>1. e \in Waiting
            BY <1>7 DEF Open, Waiting
        <3>2. PICK k \in 0..(MaxExports + 1) : Used(disk, k) /\ k + Cardinality(Waiting) <= exports + 1
            BY DEF DiskInv
        <3>3. FreeInode \in Inode
            BY <1>1, <3>1, <3>2, FreeInodeIsNext DEF HistoryType
        <3> QED BY <1>1, <1>7, <3>3 DEF Open, FilesType
    <2>3. name'["tmp"] = i /\ fd'[e] = i /\ disk'[i] = Garbled
        BY <1>1, <2>2 DEF ExportersType, FilesType
    <2>4. Writing' \subseteq InFlight /\ pc'[e] = "opened"
        BY <1>1, <1>2, <2>1 DEF ExportersType, Writing
    <2>5. ~overlap => \A g \in Writing' : g = e
        BY <2>1, <2>4 DEF FlightInv
    <2>6. /\ InFlight' = {} => pool' = {} /\ ~overlap'
          /\ \A g \in InFlight' : body'[g] \in pool'
          /\ ~overlap' => \A g, h \in InFlight' : g = h
        BY <2>1 DEF FlightInv
    <2>7. /\ ~overlap' => \A g \in Writing' : fd'[g] = name'["tmp"]
          /\ ~overlap' => \A g \in Writing' : pc'[g] = "written" => disk'[fd'[g]] = Envelope(body'[g])
        BY <2>1, <2>3, <2>4, <2>5
    <2>8. Load(disk'[name'["tmp"]]) \in pool' \cup {Broken}
        BY <1>2, <2>3
    <2> QED BY <2>6, <2>7, <2>8 DEF FlightInv
<1>8. ASSUME NEW e \in Exporter, WriteSome(e) \/ WriteAll(e)
      PROVE  FlightInv'
    <2>1. e \in Writing /\ InFlight' = InFlight /\ Writing' = Writing /\ pool' = pool /\ overlap' = overlap
          /\ body' = body /\ fd' = fd /\ name' = name /\ pc[e] = "opened"
        BY <1>1, <1>8 DEF WriteSome, WriteAll, InFlight, Writing, ExportersType, exporters, history
    <2>2. body[e] \in Snapshots /\ body[e] \in pool /\ Load(Envelope(body[e])) = body[e] /\ fd[e] \in Inode
        BY <1>1, <1>2, <2>1, EnvelopeLoads DEF FlightInv, ExportersType
    <2>3. PICK content \in {Garbled, Envelope(body[e])} : disk' = [disk EXCEPT ![fd[e]] = content]
        BY <1>8 DEF WriteSome, WriteAll
    <2>4. /\ InFlight' = {} => pool' = {} /\ ~overlap'
          /\ \A g \in InFlight' : body'[g] \in pool'
          /\ ~overlap' => \A g, h \in InFlight' : g = h
          /\ ~overlap' => \A g \in Writing' : fd'[g] = name'["tmp"]
        BY <2>1 DEF FlightInv
    <2>5. ASSUME ~overlap', NEW g \in Writing', pc'[g] = "written"
          PROVE  disk'[fd'[g]] = Envelope(body'[g])
        <3>1. g = e
            BY <1>2, <2>1, <2>5 DEF FlightInv
        <3>2. WriteAll(e)
            BY <1>8, <2>1, <2>5, <3>1 DEF WriteSome, exporters
        <3>3. disk' = [disk EXCEPT ![fd[e]] = Envelope(body[e])]
            BY <2>1, <2>5, <3>2 DEF WriteAll
        <3> QED BY <1>1, <2>1, <2>2, <3>1, <3>3 DEF FilesType
    <2>6. ASSUME name'["tmp"] # Nobody
          PROVE  Load(disk'[name'["tmp"]]) \in pool' \cup {Broken}
        <3>1. name["tmp"] \in Inode
            BY <1>1, <2>1, <2>6 DEF FilesType
        <3>2. CASE name["tmp"] = fd[e]
            <4>1. disk'[name["tmp"]] = content
                BY <1>1, <2>3, <3>1, <3>2 DEF FilesType
            <4> QED BY <1>2, <2>1, <2>2, <2>3, <4>1
        <3>3. CASE name["tmp"] # fd[e]
            <4>1. disk'[name["tmp"]] = disk[name["tmp"]]
                BY <1>1, <2>3, <3>1, <3>3 DEF FilesType
            <4> QED BY <2>1, <2>6, <4>1 DEF FlightInv
        <3> QED BY <3>2, <3>3
    <2> QED BY <2>4, <2>5, <2>6 DEF FlightInv
<1>9. ASSUME EditByHand
      PROVE  FlightInv'
    <2>1. /\ InFlight' = InFlight /\ pool' = pool /\ overlap' = overlap /\ body' = body
          /\ Writing' = Writing /\ pc' = pc /\ fd' = fd /\ name' = name
        BY <1>9 DEF EditByHand, exporters, InFlight, Writing
    <2>2. PICK content : disk' = [disk EXCEPT ![name["path"]] = content]
        BY <1>9 DEF EditByHand
    <2>3. name["tmp"] # Nobody => disk'[name["tmp"]] = disk[name["tmp"]]
        BY <1>1, <1>9, <2>2 DEF EditByHand, FilesType
    <2> QED BY <1>3, <2>1, <2>3
<1>10. ASSUME EditTruth \/ OnlyWalks
       PROVE  FlightInv'
    <2>1. /\ InFlight' = InFlight /\ pool' = pool /\ overlap' = overlap /\ body' = body
          /\ Writing' = Writing /\ pc' = pc /\ fd' = fd /\ name' = name /\ disk' = disk
        BY <1>10 DEF EditTruth, OnlyWalks, exporters, files, history, InFlight, Writing
    <2> QED BY <1>3, <2>1
<1> QED BY <1>4, <1>5, <1>6, <1>7, <1>8, <1>9, <1>10, StepCases DEF Step

-----------------------------------------------------------------------------
(* The theorems *)

\* The inductive invariant holds in every state.
THEOREM ExportInvariant == Spec => []IInv
<1>1. Init => IInv
    <2>1. Init => DiskInv
        <3> SUFFICES ASSUME Init PROVE DiskInv
            OBVIOUS
        <3>1. Waiting = {} /\ Writing = {} /\ exports = 0
            BY DEF Init, Waiting, Writing
        <3>2. Cardinality(Waiting) = 0
            BY <3>1, FS_EmptySet
        <3>3. PICK k \in {0, 1} : Used(disk, k)
            <4>1. Envelope(Saved(AllRows)) # Nobody
                BY FirstSnapshot, EnvelopeLoads
            <4>2. CASE disk = [i \in Inode |-> Nobody]
                <5>1. Used(disk, 0)
                    BY <4>2 DEF Used, Inode
                <5> QED BY <5>1
            <4>3. CASE disk = [i \in Inode |-> IF i = 1 THEN Envelope(Saved(AllRows)) ELSE Nobody]
                <5>1. Used(disk, 1)
                    BY <4>1, <4>3 DEF Used, Inode
                <5> QED BY <5>1
            <4> QED BY <4>2, <4>3 DEF Init
        <3>4. k \in 0..(MaxExports + 1) /\ k + Cardinality(Waiting) <= exports + 1
            BY <3>1, <3>2
        <3> QED BY <3>1, <3>3, <3>4 DEF DiskInv
    <2>2. Init => TruthInv /\ FetchInv /\ WalkInv
        BY DEF Init, TruthInv, FetchInv, WalkInv
    <2> QED BY <2>1, <2>2, TypeInit, SealInit, FlightInit DEF IInv
<1>2. IInv /\ [Next]_vars => IInv'
    BY TypeStep, DiskStep, TruthStep, FetchStep, WalkStep, SealStep, FlightStep DEF IInv
<1> QED BY <1>1, <1>2, PTL DEF Spec

\* The types of the model hold in every state: in particular no inode ever has
\* both names, and who writes has a file open.
THEOREM ExportTypes == Spec => []TypeOK
<1>1. IInv => TypeOK
    BY DEF IInv
<1> QED BY <1>1, ExportInvariant, PTL

ViewOK ==
    /\ View \in Snapshots \cup {NoFile, Broken}
    /\ View = NoFile <=> name["path"] = Nobody
    /\ name["path"] # Nobody => name["path"] \in Inode /\ disk[name["path"]] \in Contents

\* What a reader gets: a snapshot, an error, or nothing.
LEMMA ViewType == TypeOK => ViewOK
<1> SUFFICES ASSUME TypeOK PROVE ViewOK
    OBVIOUS
<1>1. name["path"] # Nobody => name["path"] \in Inode /\ disk[name["path"]] \in Contents
    BY TypeParts DEF FilesType, Contents
<1>2. name["path"] # Nobody => View = Load(disk[name["path"]]) /\ View \in Snapshots \cup {Broken}
    BY <1>1, LoadType DEF View
<1>3. name["path"] = Nobody => View = NoFile
    BY DEF View
<1> QED BY <1>1, <1>2, <1>3 DEF ViewOK

\* What a reader is told to trust was saved from a whole fetch.
LEMMA TrustedWasSaved == IInv => TrustedSnapshotIsWhole
<1> SUFFICES ASSUME IInv, View \notin {NoFile, Broken}, View.verified
             PROVE  \E f \in fetched : f.snapshot = View /\ f.whole
    BY DEF TrustedSnapshotIsWhole
<1>1. TypeOK /\ SealInv
    BY DEF IInv
<1>2. name["path"] \in Inode /\ disk[name["path"]] \in Contents
    BY <1>1, ViewType DEF ViewOK
<1>3. View = Load(disk[name["path"]])
    BY <1>1, ViewType DEF View, ViewOK
<1>4. disk[name["path"]] \in Envelopes => Sealed(disk[name["path"]])
    BY <1>1, <1>2 DEF SealInv
<1>5. fetched \subseteq [snapshot : Snapshots, whole : BOOLEAN]
    BY <1>1 DEF TypeOK
<1> QED BY <1>2, <1>3, <1>4, <1>5, LoadSealed

\* A snapshot that readers are told to trust has every record which truth held
\* from the beginning to the end of the one fetch it came from, unless a walk on
\* the way to that record was disturbed twice (by two rows that came or went, by
\* one that moved, or by one and a damaged body), whatever else the exporters, the
\* editors and the interrupts did.
THEOREM TrustedSnapshots == Spec => []TrustedSnapshotIsWhole
BY ExportInvariant, TrustedWasSaved, PTL

\* Readers get the same as long as neither the name nor the file behind it moves.
LEMMA SameView ==
    ASSUME name'["path"] = name["path"],
           name["path"] # Nobody => disk'[name["path"]] = disk[name["path"]]
    PROVE  View' = View
BY DEF View

\* The first state of the file is one of the register.
LEMMA RegisterInit == Init => Register!Init
<1> SUFFICES ASSUME Init PROVE Register!Init
    OBVIOUS
<1>1. /\ InFlight = {} /\ pool = {} /\ overlap = FALSE /\ handEdits = 0
      /\ {e \in Exporter : shrink[e]} \subseteq Exporter
    BY DEF Init, InFlight, Inside
<1> DEFINE s == Saved(AllRows)
<1>2. CASE name = [n \in {"path", "tmp"} |-> Nobody] /\ fetched = {}
    <2>1. View = NoFile
        BY <1>2 DEF View
    <2> QED BY <1>1, <1>2, <2>1 DEF Register!Init
<1>3. CASE /\ name = [n \in {"path", "tmp"} |-> IF n = "path" THEN 1 ELSE Nobody]
           /\ disk = [i \in Inode |-> IF i = 1 THEN Envelope(s) ELSE Nobody]
           /\ fetched = {[snapshot |-> s, whole |-> TRUE]}
    <2>1. s \in Snapshots /\ Load(Envelope(s)) = s
        BY FirstSnapshot, EnvelopeLoads
    <2> HIDE DEF s
    <2>2. 1 \in Inode /\ 1 # Nobody
        BY DEF Inode
    <2>3. View = s
        BY <1>3, <2>1, <2>2 DEF View
    <2>4. {f.snapshot : f \in fetched} = {s}
        BY <1>3
    <2>5. {s} = {View} \ {NoFile}
        BY <2>1, <2>3
    <2> QED BY <1>1, <2>1, <2>3, <2>4, <2>5 DEF Register!Init
<1> QED BY <1>2, <1>3 DEF Init

\* Both modules count alike.
LEMMA SameCardinality == \A S : Register!Cardinality(S) = Cardinality(S)
BY DEF Register!Cardinality, Cardinality, Register!IsFiniteSet, IsFiniteSet

\* Every step of an export is a step of the register, or none.
LEMMA RegisterStep == IInv /\ IInv' /\ [Next]_vars => [Register!Next]_(Register!vars)
<1> SUFFICES ASSUME IInv, IInv', [Next]_vars
             PROVE  Register!Next
    OBVIOUS
<1> USE DEF Inside
<1>1. /\ TypeOK /\ DiskInv /\ FlightInv /\ SealInv /\ TypeOK' /\ TrustedSnapshotIsWhole'
      /\ ServerType /\ ExportersType /\ FilesType /\ HistoryType
    <2>1. IInv' => TrustedSnapshotIsWhole'
        BY TrustedWasSaved, PTL
    <2> QED BY <2>1, TypeParts DEF IInv
<1>2. ASSUME View' = View, InFlight' = InFlight, fetched' = fetched, pool' = pool,
             overlap' = overlap, handEdits' = handEdits
      PROVE  Register!Next
    BY <1>2 DEF Register!Ask, Register!Next
<1>3. ASSUME NEW e \in Exporter, Begin(e) \/ ReadOn(e)
      PROVE  Register!Next
    <2>1. /\ InFlight' = InFlight /\ fetched' = fetched /\ pool' = pool /\ overlap' = overlap
          /\ name' = name /\ disk' = disk /\ handEdits' = handEdits
        BY <1>1, <1>3 DEF Begin, ReadOn, files, history, InFlight, ExportersType
    <2> QED BY <1>2, <2>1, SameView
<1>4. ASSUME NEW e \in Exporter, Leaves(e)
      PROVE  Register!Next
    <2>1. /\ InFlight' = InFlight \ {e} /\ pool' = IF InFlight' = {} THEN {} ELSE pool
          /\ overlap' <=> overlap /\ InFlight' # {}
        BY <1>1, <1>4, EndLands DEF Leaves
    <2>2. fetched' = fetched /\ disk' = disk /\ handEdits' = handEdits
        BY <1>4 DEF Leaves, End
    <2>3. CASE e \notin InFlight
        <3>1. pc[e] # "written"
            BY <2>3 DEF InFlight
        <3>2. name' = name
            BY <1>4, <3>1 DEF Leaves
        <3>3. InFlight' = InFlight /\ pool' = pool /\ overlap' = overlap
            BY <1>1, <2>1, <2>3 DEF FlightInv, End, HistoryType, TypeOK
        <3> QED BY <1>2, <2>2, <3>2, <3>3, SameView
    <2>4. CASE e \in InFlight
        <3>1. Register!Leave(e)
            <4>1. shrink' = shrink
                BY <1>1, <1>4, <2>4 DEF Leaves, End, ExportersType, InFlight
            <4>2. overlap' = (overlap /\ InFlight' # {})
                BY <1>1, <2>1 DEF TypeOK
            <4> QED BY <2>1, <2>2, <4>1, <4>2 DEF Register!Leave
        <3>2. CASE name' = name
            <4>1. Register!Withdraw(e)
                BY <2>2, <2>4, <3>1, <3>2, SameView DEF Register!Withdraw
            <4> QED BY <4>1 DEF Register!Next
        <3>3. CASE /\ pc[e] = "written" /\ name["tmp"] # Nobody
                   /\ name' = [name EXCEPT !["path"] = name["tmp"], !["tmp"] = Nobody]
            <4>1. View' = Load(disk[name["tmp"]])
                BY <1>1, <2>2, <3>3 DEF View, FilesType
            <4>2. e \in Writing
                BY <3>3 DEF Writing
            <4>3. Load(disk[name["tmp"]]) \in pool \cup {Broken}
                BY <1>1, <3>3, <4>2 DEF FlightInv
            <4>4. ~overlap => Load(disk[name["tmp"]]) \in pool
                <5> SUFFICES ASSUME ~overlap
                             PROVE  Load(disk[name["tmp"]]) \in pool
                    OBVIOUS
                <5>1. disk[name["tmp"]] = Envelope(body[e]) /\ body[e] \in pool /\ body[e] \in Snapshots
                    BY <1>1, <2>4, <3>3, <4>2 DEF FlightInv, ExportersType
                <5> QED BY <5>1, EnvelopeLoads
            <4>5. Register!Publish(e)
                BY <2>4, <3>1, <4>1, <4>3, <4>4 DEF Register!Publish, Register!Becomes
            <4> QED BY <4>5 DEF Register!Next
        <3> QED BY <1>4, <3>2, <3>3 DEF Leaves
    <2> QED BY <2>3, <2>4
<1>5. ASSUME NEW e \in Exporter, Admit(e)
      PROVE  Register!Next
    <2> DEFINE s == Saved(fetch[e])
    <2>1. s \in Snapshots
        BY <1>1, <1>5, SavedType DEF Admit, ExportersType
    <2>2. e \notin InFlight /\ InFlight' = InFlight \cup {e}
        BY <1>1, <1>5 DEF Admit, InFlight, ExportersType
    <2>3. View' = View /\ handEdits' = handEdits
        BY <1>5, SameView DEF Admit, files
    <2>4. pool' = pool \cup {s} /\ overlap' = (overlap \/ InFlight # {})
        BY <1>5 DEF Admit
    <2>5. {g \in Exporter : shrink'[g]} = {g \in Exporter : shrink[g]} \ {e}
        BY <1>1, <1>5 DEF Admit, ExportersType
    <2>6. {f.snapshot : f \in fetched'} = {f.snapshot : f \in fetched} \cup {s}
        <3>1. PICK W : fetched' = fetched \cup {[snapshot |-> s, whole |-> W]}
            BY <1>5 DEF Admit
        <3>2. [snapshot |-> s, whole |-> W].snapshot = s
            OBVIOUS
        <3> HIDE DEF s
        <3> QED BY <3>1, <3>2
    <2>7. e \in {g \in Exporter : shrink[g]} \/ Register!KeepsRecords(s)
        <3>1. shrink[e] \/ PriorAllows(s)
            BY <1>5 DEF Admit
        <3> HIDE DEF s
        <3>2. PriorAllows(s) => Register!KeepsRecords(s)
            BY SameCardinality DEF PriorAllows, Register!KeepsRecords
        <3> QED BY <3>1, <3>2
    <2>8. Register!Admit(e)
        <3> HIDE DEF s
        <3> QED BY <2>1, <2>2, <2>3, <2>4, <2>5, <2>6, <2>7 DEF Register!Admit
    <2> QED BY <2>8 DEF Register!Next
<1>6. ASSUME NEW e \in Exporter, Open(e)
      PROVE  Register!Next
    <2>1. /\ InFlight' = InFlight /\ fetched' = fetched /\ pool' = pool /\ overlap' = overlap
          /\ handEdits' = handEdits
        BY <1>1, <1>6 DEF Open, InFlight, ExportersType, history
    <2>2. PICK i : name' = [name EXCEPT !["tmp"] = i] /\ disk' = [disk EXCEPT ![i] = Garbled]
        BY <1>6 DEF Open
    <2>3. name'["path"] = name["path"] /\ name'["tmp"] = i
        BY <1>1, <2>2 DEF FilesType
    <2>4. name["path"] # Nobody => disk'[name["path"]] = disk[name["path"]]
        <3>1. name["path"] # Nobody => name["path"] # i
            BY <1>1, <2>3 DEF TypeOK
        <3> QED BY <1>1, <2>2, <3>1 DEF FilesType
    <2> QED BY <1>2, <2>1, <2>3, <2>4, SameView
<1>7. ASSUME NEW e \in Exporter, WriteSome(e) \/ WriteAll(e)
      PROVE  Register!Next
    <2>1. /\ e \in Writing /\ e \in InFlight /\ InFlight' = InFlight /\ fetched' = fetched
          /\ pool' = pool /\ overlap' = overlap /\ name' = name /\ shrink' = shrink /\ handEdits' = handEdits
        BY <1>1, <1>7 DEF WriteSome, WriteAll, InFlight, Writing, ExportersType, exporters, history
    <2>2. body[e] \in Snapshots /\ body[e] \in pool /\ fd[e] \in Inode
        BY <1>1, <2>1 DEF FlightInv, ExportersType, Writing
    <2>3. PICK content \in {Garbled, Envelope(body[e])} : disk' = [disk EXCEPT ![fd[e]] = content]
        BY <1>7 DEF WriteSome, WriteAll
    <2>4. CASE name["path"] # fd[e]
        <3>1. name["path"] # Nobody => disk'[name["path"]] = disk[name["path"]]
            BY <1>1, <2>3, <2>4 DEF FilesType
        <3> QED BY <1>2, <2>1, <3>1, SameView
    <2>5. CASE name["path"] = fd[e]
        <3>1. overlap
            BY <1>1, <2>1, <2>2, <2>5 DEF FlightInv, FilesType, Inode
        <3>2. name["path"] # Nobody /\ disk'[name["path"]] = content
            BY <1>1, <2>2, <2>3, <2>5 DEF FilesType, Inode
        <3>3. View' = Load(content)
            BY <2>1, <3>2 DEF View
        <3>4. Load(content) \in pool \cup {Broken}
            BY <2>2, <2>3, EnvelopeLoads, LoadType DEF Contents
        <3>5. Register!Spill
            BY <2>1, <3>1, <3>3, <3>4 DEF Register!Spill, Register!Becomes
        <3> QED BY <3>5 DEF Register!Next
    <2> QED BY <2>4, <2>5
<1>8. ASSUME EditByHand
      PROVE  Register!Next
    <2>1. name' = name /\ shrink' = shrink /\ InFlight' = InFlight /\ fetched' = fetched
          /\ pool' = pool /\ overlap' = overlap /\ handEdits' = handEdits + 1
        BY <1>8 DEF EditByHand, exporters, InFlight
    <2>2. View' \in Snapshots \cup {Broken}
        <3>1. View' \in Snapshots \cup {NoFile, Broken} /\ (View' = NoFile <=> name'["path"] = Nobody)
            <4>1. TypeOK' => ViewOK'
                BY ViewType, PTL
            <4> QED BY <1>1, <4>1 DEF ViewOK
        <3>2. name["path"] # Nobody
            BY <1>8 DEF EditByHand
        <3> QED BY <2>1, <3>1, <3>2
    <2>3. View' # Broken /\ View'.verified => View' \in {f.snapshot : f \in fetched}
        BY <1>1, <2>1, <2>2 DEF TrustedSnapshotIsWhole
    <2>4. Register!HandEdit
        BY <2>1, <2>2, <2>3 DEF Register!HandEdit
    <2> QED BY <2>4 DEF Register!Next
<1>9. ASSUME EditTruth \/ OnlyWalks
      PROVE  Register!Next
    <2>1. /\ InFlight' = InFlight /\ fetched' = fetched /\ pool' = pool /\ overlap' = overlap
          /\ name' = name /\ disk' = disk /\ handEdits' = handEdits
        BY <1>9 DEF EditTruth, OnlyWalks, exporters, files, history, InFlight
    <2> QED BY <1>2, <2>1, SameView
<1> QED BY <1>1, <1>3, <1>4, <1>5, <1>6, <1>7, <1>8, <1>9, StepCases DEF Step

\* The file is the register: whatever overlaps, dies or edits, each step of the
\* exporters and of those around them is one of TruthRegister, or none.
THEOREM RegisterImplemented == Spec => ImplementsRegister
BY ExportInvariant, RegisterInit, RegisterStep, PTL DEF Spec, ImplementsRegister, Register!Spec

=============================================================================
