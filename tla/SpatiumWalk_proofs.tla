-------------------------- MODULE SpatiumWalk_proofs ------------------------
(***************************************************************************)
(* What the verdict of SpatiumProvider._get is worth, for collections and  *)
(* pages of every size: a certified read of a still collection is the      *)
(* whole collection, no read of garbled metadata is certified, one change  *)
(* under the walk of a sound server costs no row, and a sound read of a    *)
(* still collection succeeds.                                              *)
(***************************************************************************)
EXTENDS SpatiumWalk, FiniteSetTheorems, TLAPS

USE WalkAssumption

\* What the verdict stands on: malformed metadata is on record until the walk
\* is refused, a list is the answer to an undamaged server, and a result is
\* certified only as a list or as a count that met a clean total.
VerdictInv ==
    /\ edits \in Nat
    /\ garbled => style # "list" /\ (pc = "raised" \/ ~metadataOk)
    /\ bare => style = "list" /\ pc # "read"
    /\ verified => /\ pc = "returned"
                   /\ bare \/ (IsNumber(declared) /\ metadataOk /\ count = declared)

\* What the count stands on, while nobody changes the collection: the rows read
\* are distinct rows of it, and a clean total is its size.
CountInv ==
    edits = 0 =>
        /\ rows \in Seq(Row)
        /\ items \subseteq Listed
        /\ count = Cardinality(items)
        /\ metadataOk => declared \in {Missing, Cardinality(Listed)}
        /\ bare => items = Listed

Inv == VerdictInv /\ CountInv

-----------------------------------------------------------------------------
\* The collection is a finite set, and so is whatever was read of it.
LEMMA ListedIsFinite ==
    ASSUME rows \in Seq(Row)
    PROVE  /\ Listed \subseteq Row
           /\ IsFiniteSet(Listed)
           /\ Cardinality(Listed) \in Nat
<1>1. Listed \subseteq Row
    BY DEF Listed
<1>2. IsFiniteSet(Listed)
    BY <1>1, FS_Subset
<1>3. QED
    BY <1>1, <1>2, FS_CardinalityType

\* A body carries rows of the collection, is a list only where the walk may
\* take it for the whole, and its total is right unless metadata was malformed.
LEMMA BodyIsOfCollection ==
    ASSUME NEW body \in {Honest} \cup Damaged, style = "list" => body = Honest
    PROVE  /\ body.items \subseteq Listed
           /\ body.list /\ ~(page > 0) => style = "list"
           /\ style = "list" => body.list /\ body.items = Listed
           /\ IsClean(body) /\ ~garbled => body.total \in {Missing, Cardinality(Listed)}
<1>1. Window \subseteq Listed
    BY DEF Window, Listed
<1>2. Honest.items \subseteq Listed /\ Honest.total \in {Missing, Cardinality(Listed)}
    BY <1>1 DEF Honest
<1>3. style = "list" => Honest.list /\ Honest.items = Listed
    BY DEF Honest
<1>4. CASE body = Honest
    <2>1. Honest.list => style = "list"
        BY DEF Honest
    <2>2. QED
        BY <1>2, <1>3, <1>4, <2>1
<1>5. CASE body \in Damaged /\ style # "list"
    <2>1. Honest.list = FALSE
        BY <1>5 DEF Honest
    <2>2. CASE \E s \in SUBSET Listed : body = [Honest EXCEPT !.items = s]
        BY <1>2, <1>5, <2>1, <2>2 DEF Honest
    <2>3. CASE body = [Honest EXCEPT !.twice = TRUE]
        BY <1>2, <1>5, <2>1, <2>3 DEF Honest
    <2>4. CASE \E f \in {"total", "pages", "page", "size", "offset"}, x \in {Missing, Malformed} :
                body = [Honest EXCEPT ![f] = x]
        <3>1. PICK f \in {"total", "pages", "page", "size", "offset"}, x \in {Missing, Malformed} :
                body = [Honest EXCEPT ![f] = x]
            BY <2>4
        <3>2. body.items = Honest.items /\ body.list = Honest.list
            BY <3>1 DEF Honest
        <3>3. body.total \in {Honest.total, Missing, Malformed}
            BY <3>1 DEF Honest
        <3>4. QED
            BY <1>2, <1>5, <2>1, <3>2, <3>3 DEF IsClean
    <2>5. CASE \E l \in {"self", "elsewhere"} : body = [Honest EXCEPT !.link = l]
        BY <1>2, <1>5, <2>1, <2>5 DEF Honest
    <2>6. CASE \E l \in {"more", "first"} : body = [Honest EXCEPT !.items = {}, !.link = l]
        BY <1>2, <1>5, <2>1, <2>6 DEF Honest
    <2>7. CASE garbled /\ body = [Honest EXCEPT !.items = {}, !.total = count]
        BY <1>2, <1>5, <2>1, <2>7 DEF Honest
    <2>8. CASE page > 0 /\ body = [Honest EXCEPT !.list = TRUE]
        BY <1>2, <1>5, <2>1, <2>8 DEF Honest
    <2>9. QED
        BY <1>5, <2>2, <2>3, <2>4, <2>5, <2>6, <2>7, <2>8 DEF Damaged
<1>6. QED
    BY <1>4, <1>5

-----------------------------------------------------------------------------
\* A body that is not refused keeps the account of the walk, whoever damaged it.
LEMMA ReceiveKeepsCount ==
    ASSUME CountInv, NEW body \in {Honest} \cup Damaged, style = "list" => body = Honest,
           Receive(body), VerdictInv
    PROVE  CountInv'
<1>1. SUFFICES ASSUME edits = 0, UNCHANGED <<rows, edits>>
               PROVE  CountInv'
    BY DEF CountInv, Receive, server
<1>2. /\ Listed' = Listed /\ IsFiniteSet(Listed) /\ Cardinality(Listed) \in Nat
      /\ body.items \subseteq Listed
    BY <1>1, ListedIsFinite, BodyIsOfCollection DEF CountInv, Listed
<1>3. CASE UNCHANGED walk
    BY <1>1, <1>2, <1>3 DEF CountInv, walk
<1>4. CASE ~Refuses(body) /\ ~body.list /\ Accept(body)
    <2>1. /\ body.items \cap items = {} /\ Length(body) = Cardinality(body.items)
          /\ IsFiniteSet(items) /\ IsFiniteSet(body.items)
          /\ Cardinality(items) \in Nat /\ Cardinality(body.items) \in Nat
        <3>1. body.items \cap items = {} /\ ~body.twice
            BY <1>4 DEF Refuses
        <3>2. IsFiniteSet(items) /\ IsFiniteSet(body.items)
            BY <1>1, <1>2, FS_Subset DEF CountInv
        <3>3. Cardinality(items) \in Nat /\ Cardinality(body.items) \in Nat
            BY <3>2, FS_CardinalityType
        <3>4. QED
            BY <3>1, <3>2, <3>3 DEF Length
    <2>2. count' = Cardinality(items')
        <3>1. body.items \cap items = {} /\ Cardinality({}) = 0
            BY <2>1, FS_EmptySet
        <3>2. Cardinality(items \cup body.items)
                = Cardinality(items) + Cardinality(body.items) - Cardinality(items \cap body.items)
            BY <2>1, FS_Union
        <3>3. Cardinality(items \cap body.items) = 0
            BY <3>1
        <3>4. QED
            BY <1>1, <1>4, <2>1, <3>2, <3>3 DEF Accept, CountInv
    <2>3. metadataOk' => declared' \in {Missing, Cardinality(Listed)}
        <3>1. SUFFICES ASSUME metadataOk, IsClean(body)
                       PROVE  Total(body) \in {Missing, Cardinality(Listed)}
            BY <1>4 DEF Accept
        <3>2. ~garbled
            BY <1>4, <3>1 DEF VerdictInv, Receive
        <3>3. body.total \in {Missing, Cardinality(Listed)}
            BY <3>1, <3>2, BodyIsOfCollection
        <3>4. QED
            BY <1>1, <3>1, <3>3 DEF Total, Given, CountInv
    <2>4. bare' = bare /\ ~bare
        BY <1>4 DEF Accept, VerdictInv, Receive
    <2>5. items' \subseteq Listed
        BY <1>1, <1>2, <1>4 DEF Accept, CountInv
    <2>6. QED
        BY <1>1, <1>2, <2>2, <2>3, <2>4, <2>5 DEF CountInv
<1>5. CASE ~Refuses(body) /\ body.list /\ AcceptList(body)
    <2>1. body.items = Listed /\ body = Honest /\ style = "list"
        BY <1>5, BodyIsOfCollection DEF Refuses, Receive, PagesLeft
    <2>2. Length(body) = Cardinality(Listed)
        BY <1>2, <2>1 DEF Length, Honest
    <2>3. QED
        BY <1>1, <1>2, <1>5, <2>1, <2>2 DEF AcceptList, CountInv
<1>6. QED
    BY <1>3, <1>4, <1>5 DEF Receive

-----------------------------------------------------------------------------
LEMMA InitInv == Init => Inv
<1>1. SUFFICES ASSUME Init
               PROVE  Inv
    OBVIOUS
<1>2. VerdictInv
    BY <1>1 DEF Init, VerdictInv
<1>3. CountInv
    BY <1>1, FS_EmptySet DEF Init, CountInv
<1>4. QED
    BY <1>2, <1>3 DEF Inv

\* Whatever body arrives, the verdict has still to be given.
LEMMA ReceiveKeepsVerdict ==
    ASSUME VerdictInv, NEW body \in {Honest} \cup Damaged, style = "list" => body = Honest,
           Receive(body),
           garbled' => garbled \/ (~IsClean(body) /\ style # "list")
    PROVE  VerdictInv'
<1>1. edits' = edits /\ style' = style
    BY DEF Receive, server
<1>2. ~bare /\ ~verified /\ pc = "read"
    BY DEF VerdictInv, Receive
<1>3. CASE pc' = "raised" /\ UNCHANGED walk
    BY <1>1, <1>2, <1>3 DEF VerdictInv, walk
<1>4. CASE Accept(body)
    <2>1. ~bare' /\ ~verified'
        BY <1>2, <1>4 DEF Accept
    <2>2. garbled' => style # "list" /\ ~metadataOk'
        BY <1>2, <1>4 DEF Accept, VerdictInv
    <2>3. QED
        BY <1>1, <2>1, <2>2 DEF VerdictInv
<1>5. CASE ~Refuses(body) /\ body.list /\ AcceptList(body)
    <2>1. style = "list"
        BY <1>5, BodyIsOfCollection DEF Refuses
    <2>2. ~garbled' /\ ~verified' /\ pc' = "check"
        BY <1>2, <1>5, <2>1 DEF AcceptList, VerdictInv
    <2>3. QED
        BY <1>1, <2>1, <2>2 DEF VerdictInv
<1>6. QED
    BY <1>3, <1>4, <1>5 DEF Receive

LEMMA NextKeepsInv == Inv /\ [Next]_vars => Inv'
<1>1. SUFFICES ASSUME Inv, [Next]_vars
               PROVE  Inv'
    OBVIOUS
<1>2. CASE Change
    BY <1>1, <1>2 DEF Inv, VerdictInv, CountInv, Change, walk
<1>3. CASE ReceiveHonest
    <2>1. Receive(Honest) /\ garbled' = garbled
        BY <1>3 DEF ReceiveHonest
    <2>2. CountInv'
        BY <1>1, <2>1, ReceiveKeepsCount DEF Inv
    <2>3. QED
        BY <1>1, <2>1, <2>2, ReceiveKeepsVerdict DEF Inv
<1>4. CASE ReceiveDamaged
    <2>1. PICK body \in Damaged : Receive(body) /\ garbled' = (garbled \/ ~IsClean(body))
        BY <1>4 DEF ReceiveDamaged
    <2>2. style # "list"
        BY <1>4 DEF ReceiveDamaged
    <2>3. CountInv'
        BY <1>1, <2>1, <2>2, ReceiveKeepsCount DEF Inv
    <2>4. QED
        BY <1>1, <2>1, <2>2, <2>3, ReceiveKeepsVerdict DEF Inv
<1>5. CASE TooManyPages
    BY <1>1, <1>5 DEF Inv, VerdictInv, CountInv, TooManyPages, server, walk, luck, Listed
<1>6. CASE RequestFails
    BY <1>1, <1>6 DEF Inv, VerdictInv, CountInv, RequestFails, server, walk, Listed
<1>7. CASE Check
    BY <1>1, <1>7 DEF Inv, VerdictInv, CountInv, Check, server, luck, Listed
<1>8. CASE UNCHANGED vars
    BY <1>1, <1>8 DEF Inv, VerdictInv, CountInv, vars, server, walk, luck, Listed
<1>9. QED
    BY <1>1, <1>2, <1>3, <1>4, <1>5, <1>6, <1>7, <1>8 DEF Next, Progress

LEMMA SpecInv == Spec => []Inv
BY InitInv, NextKeepsInv, PTL DEF Spec

\* The verdict never claims too much: what _get certifies of a collection that
\* stood still is the whole of it, whatever the server damaged on the way.
THEOREM Whole == Spec => []CertifiedMeansWhole
<1>1. ASSUME Inv, Certified, edits = 0
      PROVE  items = Listed
    <2>1. CASE bare
        BY <1>1, <2>1 DEF Inv, CountInv
    <2>2. CASE ~bare
        <3>1. /\ count = declared /\ declared \in {Missing, Cardinality(Listed)}
              /\ declared # Missing
            BY <1>1, <2>2 DEF Inv, VerdictInv, CountInv, Certified, IsNumber
        <3>2. Cardinality(items) = Cardinality(Listed) /\ items \subseteq Listed
            BY <1>1, <3>1 DEF Inv, CountInv
        <3>3. QED
            BY <1>1, <3>2, ListedIsFinite, FS_Subset DEF Inv, CountInv
    <2>3. QED
        BY <2>1, <2>2
<1>2. Inv => CertifiedMeansWhole
    BY <1>1 DEF CertifiedMeansWhole
<1>3. QED
    BY <1>2, SpecInv, PTL

\* Malformed metadata, on whichever page, is never forgotten by the verdict.
THEOREM Garbled == Spec => []GarbledIsNeverCertified
<1>1. Inv => GarbledIsNeverCertified
    BY DEF Inv, VerdictInv, GarbledIsNeverCertified, Certified
<1>2. QED
    BY <1>1, SpecInv, PTL

-----------------------------------------------------------------------------
(* Types.  The walk asks for pages that exist, from the first one on *)

Distinct(s) == \A i, j \in DOMAIN s : s[i] = s[j] => i = j
Request == [page : (Nat \ {0}) \cup {Missing}, offset : Nat \cup {Missing},
            limit : Nat \cup {Missing}]

RowsInv == rows \in Seq(Row) /\ Distinct(rows) /\ stable \subseteq Listed

WalkTypes ==
    /\ style \in Styles /\ totals \in BOOLEAN
    /\ pc \in {"read", "check", "returned", "raised"}
    /\ url \in Request /\ page \in 0..MaxPages
    /\ items \subseteq Row /\ count \in Nat
    /\ declared \in Nat \cup {Missing}
    /\ metadataOk \in BOOLEAN /\ bare \in BOOLEAN /\ verified \in BOOLEAN
    /\ edits \in 0..MaxEdits /\ faulted \in BOOLEAN /\ garbled \in BOOLEAN

TypeInv == RowsInv /\ WalkTypes

\* A row that comes or goes leaves the others, each in one place.
LEMMA ChangeKeepsRows ==
    ASSUME RowsInv, Change
    PROVE  /\ RowsInv'
           /\ \/ \E r \in Row \ Listed : Listed' = Listed \cup {r}
              \/ \E r \in Listed : Listed' = Listed \ {r}
<1>1. DOMAIN rows = 1..Len(rows) /\ Len(rows) \in Nat /\ \A i \in DOMAIN rows : rows[i] \in Row
    BY DEF RowsInv
<1>2. ASSUME NEW i \in 1..(Len(rows) + 1), NEW r \in Row \ Listed,
             rows' = InsertAt(i, r), stable' = stable
      PROVE  RowsInv' /\ Listed' = Listed \cup {r}
    <2>1. /\ DOMAIN rows' = 1..(Len(rows) + 1)
          /\ \A j \in 1..(Len(rows) + 1) :
                rows'[j] = IF j < i THEN rows[j] ELSE IF j = i THEN r ELSE rows[j - 1]
        BY <1>2 DEF InsertAt
    <2>2. \A j \in 1..(Len(rows) + 1) :
             /\ j < i => j \in DOMAIN rows /\ rows'[j] = rows[j]
             /\ j = i => rows'[j] = r
             /\ j > i => j - 1 \in DOMAIN rows /\ rows'[j] = rows[j - 1]
        BY <1>1, <2>1
    <2>3. rows' \in Seq(Row)
        <3>1. \A j \in 1..(Len(rows) + 1) : rows'[j] \in Row
            BY <1>1, <1>2, <2>2
        <3>2. rows' \in [1..(Len(rows) + 1) -> Row]
            BY <1>2, <3>1 DEF InsertAt
        <3>3. QED
            BY <1>1, <3>2
    <2>4. \A j \in DOMAIN rows : rows[j] # r
        BY <1>2 DEF Listed
    <2>5. Distinct(rows')
        <3> SUFFICES ASSUME NEW j \in 1..(Len(rows) + 1), NEW k \in 1..(Len(rows) + 1),
                            rows'[j] = rows'[k]
                     PROVE  j = k
            BY <2>1 DEF Distinct
        <3>1. i \in Nat /\ j \in Nat /\ k \in Nat
            BY <1>1
        <3>2. CASE j = i \/ k = i
            BY <2>2, <2>4, <3>1, <3>2
        <3>3. CASE j # i /\ k # i
            <4>1. \A m, n \in DOMAIN rows : rows[m] = rows[n] => m = n
                BY DEF RowsInv, Distinct
            <4>2. QED
                BY <2>2, <3>1, <3>3, <4>1
        <3>4. QED
            BY <3>2, <3>3
    <2>6. Listed' = Listed \cup {r}
        <3>1. \A x : x \in Listed' => x \in Listed \cup {r}
            BY <1>1, <2>1, <2>2 DEF Listed
        <3>2. r \in Listed'
            BY <1>1, <2>1, <2>2 DEF Listed
        <3>3. ASSUME NEW j \in DOMAIN rows PROVE rows[j] \in Listed'
            <4>1. CASE j < i
                BY <1>1, <2>1, <2>2, <4>1 DEF Listed
            <4>2. CASE ~(j < i)
                <5>1. j + 1 \in DOMAIN rows' /\ rows'[j + 1] = rows[j]
                    BY <1>1, <2>1, <4>2
                <5>2. QED
                    BY <5>1 DEF Listed
            <4>3. QED
                BY <4>1, <4>2
        <3>4. \A x : x \in Listed => x \in Listed'
            BY <3>3 DEF Listed
        <3>5. QED
            BY <3>1, <3>2, <3>4
    <2>7. stable' \subseteq Listed'
        BY <1>2, <2>6 DEF RowsInv
    <2>8. QED
        BY <2>3, <2>5, <2>6, <2>7 DEF RowsInv
<1>3. ASSUME NEW i \in DOMAIN rows, rows' = RemoveAt(i), stable' = stable \ {rows[i]}
      PROVE  RowsInv' /\ Listed' = Listed \ {rows[i]}
    <2>1. /\ DOMAIN rows' = 1..(Len(rows) - 1)
          /\ \A j \in 1..(Len(rows) - 1) : rows'[j] = IF j < i THEN rows[j] ELSE rows[j + 1]
        BY <1>3 DEF RemoveAt
    <2>2. \A j \in 1..(Len(rows) - 1) :
             /\ j < i => j \in DOMAIN rows /\ rows'[j] = rows[j]
             /\ j >= i => j + 1 \in DOMAIN rows /\ rows'[j] = rows[j + 1]
        BY <1>1, <2>1
    <2>3. rows' \in Seq(Row)
        <3>1. \A j \in 1..(Len(rows) - 1) : rows'[j] \in Row
            BY <1>1, <2>2
        <3>2. rows' \in [1..(Len(rows) - 1) -> Row] /\ Len(rows) - 1 \in Nat
            BY <1>1, <1>3, <3>1 DEF RemoveAt
        <3>3. QED
            BY <3>2
    <2>4. \A m, n \in DOMAIN rows : rows[m] = rows[n] => m = n
        BY DEF RowsInv, Distinct
    <2>5. Distinct(rows')
        BY <1>1, <2>1, <2>2, <2>4 DEF Distinct
    <2>6. Listed' = Listed \ {rows[i]}
        <3>1. ASSUME NEW j \in DOMAIN rows'
              PROVE  \E k \in DOMAIN rows : k # i /\ rows'[j] = rows[k]
            <4>1. CASE j < i
                BY <1>1, <2>1, <2>2, <4>1
            <4>2. CASE ~(j < i)
                <5>1. j + 1 \in DOMAIN rows /\ j + 1 # i /\ rows'[j] = rows[j + 1]
                    BY <1>1, <2>1, <2>2, <4>2
                <5>2. QED
                    BY <5>1
            <4>3. QED
                BY <4>1, <4>2
        <3>2. ASSUME NEW j \in DOMAIN rows, j # i PROVE rows[j] \in Listed'
            <4>1. CASE j < i
                <5>1. j \in DOMAIN rows' /\ rows'[j] = rows[j]
                    BY <1>1, <2>1, <4>1
                <5>2. QED
                    BY <5>1 DEF Listed
            <4>2. CASE ~(j < i)
                <5>1. j - 1 \in DOMAIN rows' /\ rows'[j - 1] = rows[j]
                    BY <1>1, <2>1, <3>2, <4>2
                <5>2. QED
                    BY <5>1 DEF Listed
            <4>3. QED
                BY <4>1, <4>2
        <3>3. \A x : x \in Listed' => x \in Listed \ {rows[i]}
            BY <2>4, <3>1 DEF Listed
        <3>4. \A x : x \in Listed \ {rows[i]} => x \in Listed'
            BY <3>2 DEF Listed
        <3>5. QED
            BY <3>3, <3>4
    <2>7. stable' \subseteq Listed'
        BY <1>3, <2>6 DEF RowsInv
    <2>8. QED
        BY <2>3, <2>5, <2>6, <2>7 DEF RowsInv
<1>4. CASE \E i \in 1..(Len(rows) + 1), r \in Row \ Listed : rows' = InsertAt(i, r) /\ stable' = stable
    BY <1>2, <1>4
<1>5. CASE \E i \in DOMAIN rows : rows' = RemoveAt(i) /\ stable' = stable \ {rows[i]}
    <2>1. \A i \in DOMAIN rows : rows[i] \in Listed
        BY DEF Listed
    <2>2. QED
        BY <1>3, <1>5, <2>1
<1>6. QED
    BY <1>4, <1>5 DEF Change

\* Where the server starts to serve, and how much.
LEMMA StartTyped ==
    ASSUME WalkTypes
    PROVE  Start \in Nat /\ Width \in Nat
<1>1. url \in Request /\ PageSize \in Nat
    BY DEF WalkTypes
<1>2. Given(url.offset, 0) \in Nat /\ Width \in Nat
    BY <1>1 DEF Request, Given, IsNumber, Width
<1>3. Given(url.page, 1) - 1 \in Nat
    BY <1>1 DEF Request, Given, IsNumber
<1>4. (Given(url.page, 1) - 1) * Width \in Nat
    BY <1>2, <1>3
<1>5. QED
    BY <1>2, <1>4 DEF Start, Width

\* What a body may say, damaged or not.
LEMMA BodyTyped ==
    ASSUME TypeInv, NEW body \in {Honest} \cup Damaged
    PROVE  /\ body.items \subseteq Listed
           /\ body.total \in Nat \cup {Missing, Malformed}
           /\ body.page \in (Nat \ {0}) \cup {Missing, Malformed}
           /\ body.size \in Nat \cup {Missing, Malformed}
           /\ body.offset \in Nat \cup {Missing, Malformed}
<1> DEFINE Typed(b) ==
        /\ b.items \subseteq Listed
        /\ b.total \in Nat \cup {Missing, Malformed}
        /\ b.page \in (Nat \ {0}) \cup {Missing, Malformed}
        /\ b.size \in Nat \cup {Missing, Malformed}
        /\ b.offset \in Nat \cup {Missing, Malformed}
<1>1. Honest.items \subseteq Listed
    BY DEF Honest, Window, Listed
<1>2. Honest.total \in Nat \cup {Missing, Malformed}
    BY ListedIsFinite DEF Honest, TypeInv, RowsInv
<1>3. Honest.page \in (Nat \ {0}) \cup {Missing, Malformed}
    BY DEF Honest, TypeInv, WalkTypes, Request, Given, IsNumber
<1>4. /\ Honest.size \in Nat \cup {Missing, Malformed}
      /\ Honest.offset \in Nat \cup {Missing, Malformed}
    BY StartTyped DEF Honest, TypeInv
<1>5. Typed(Honest)
    BY <1>1, <1>2, <1>3, <1>4
<1> SUFFICES ASSUME body \in Damaged PROVE Typed(body)
    BY <1>5
<1>6. CASE \E s \in SUBSET Listed : body = [Honest EXCEPT !.items = s]
    BY <1>5, <1>6 DEF Honest
<1>7. CASE body = [Honest EXCEPT !.twice = TRUE]
    BY <1>5, <1>7 DEF Honest
<1>8. CASE \E f \in {"total", "pages", "page", "size", "offset"}, x \in {Missing, Malformed} :
            body = [Honest EXCEPT ![f] = x]
    <2>1. PICK f \in {"total", "pages", "page", "size", "offset"}, x \in {Missing, Malformed} :
            body = [Honest EXCEPT ![f] = x]
        BY <1>8
    <2>2. /\ body.items = Honest.items
          /\ body.total \in {Honest.total, Missing, Malformed}
          /\ body.page \in {Honest.page, Missing, Malformed}
          /\ body.size \in {Honest.size, Missing, Malformed}
          /\ body.offset \in {Honest.offset, Missing, Malformed}
        BY <2>1 DEF Honest
    <2>3. QED
        BY <1>5, <2>2
<1>9. CASE \E l \in {"self", "elsewhere"} : body = [Honest EXCEPT !.link = l]
    BY <1>5, <1>9 DEF Honest
<1>10. CASE \E l \in {"more", "first"} : body = [Honest EXCEPT !.items = {}, !.link = l]
    BY <1>5, <1>10 DEF Honest
<1>11. CASE garbled /\ body = [Honest EXCEPT !.items = {}, !.total = count]
    BY <1>5, <1>11 DEF Honest, TypeInv, WalkTypes
<1>12. CASE page > 0 /\ body = [Honest EXCEPT !.list = TRUE]
    BY <1>5, <1>12 DEF Honest
<1>13. QED
    BY <1>6, <1>7, <1>8, <1>9, <1>10, <1>11, <1>12 DEF Damaged

\* The next request, if there is one.
LEMMA NextUrlTyped ==
    ASSUME TypeInv, NEW body \in {Honest} \cup Damaged
    PROVE  NextUrl(body) = Nowhere \/ NextUrl(body) \in Request
<1>1. /\ url \in Request /\ page \in Nat /\ count \in Nat /\ PageSize \in Nat
      /\ Start \in Nat /\ Width \in Nat
    BY StartTyped DEF TypeInv, WalkTypes
<1>2. /\ body.page \in (Nat \ {0}) \cup {Missing, Malformed}
      /\ body.size \in Nat \cup {Missing, Malformed}
      /\ body.offset \in Nat \cup {Missing, Malformed}
      /\ Length(body) \in Nat
    <2>1. IsFiniteSet(body.items)
        BY BodyTyped, ListedIsFinite, FS_Subset DEF TypeInv, RowsInv
    <2>2. QED
        BY <2>1, BodyTyped, FS_CardinalityType DEF Length
<1>3. FirstUrl \in Request
    BY DEF FirstUrl, Request
<1>4. \A u \in Request, m \in Nat, l \in Nat \cup {Missing} :
         /\ [u EXCEPT !.page = m + 1] \in Request
         /\ [u EXCEPT !.page = m + 1, !.limit = l] \in Request
         /\ [u EXCEPT !.offset = m] \in Request
         /\ [u EXCEPT !.offset = m, !.limit = l] \in Request
    <2> SUFFICES ASSUME NEW u \in Request, NEW m \in Nat, NEW l \in Nat \cup {Missing}
                 PROVE  /\ [u EXCEPT !.page = m + 1] \in Request
                        /\ [u EXCEPT !.page = m + 1, !.limit = l] \in Request
                        /\ [u EXCEPT !.offset = m] \in Request
                        /\ [u EXCEPT !.offset = m, !.limit = l] \in Request
        OBVIOUS
    <2>1. m + 1 \in Nat \ {0}
        OBVIOUS
    <2>2. [u EXCEPT !.page = m + 1] \in Request
        BY <2>1 DEF Request
    <2>3. [u EXCEPT !.page = m + 1, !.limit = l] \in Request
        BY <2>1 DEF Request
    <2>4. [u EXCEPT !.offset = m] \in Request
        BY DEF Request
    <2>5. [u EXCEPT !.offset = m, !.limit = l] \in Request
        BY DEF Request
    <2>6. QED
        BY <2>2, <2>3, <2>4, <2>5
<1>5. LinkTarget(body) = Nowhere \/ LinkTarget(body) \in Request
    <2>1. CASE body.link = "more"
        <3>1. LinkTarget(body) = [FirstUrl EXCEPT !.offset = Start + Width]
            BY <2>1 DEF LinkTarget
        <3>2. Start + Width \in Nat
            BY <1>1
        <3>3. QED
            BY <1>3, <1>4, <3>1, <3>2
    <2>2. CASE body.link = "first"
        <3>1. LinkTarget(body) = [FirstUrl EXCEPT !.offset = 0]
            BY <2>2 DEF LinkTarget
        <3>2. QED
            BY <1>3, <1>4, <3>1
    <2>3. CASE body.link \notin {"more", "first"}
        BY <1>1, <2>3 DEF LinkTarget
    <2>4. QED
        BY <2>1, <2>2, <2>3
<1>6. IsNumber(body.page) => PageTarget(body, body.page) \in Request
    <2>1. Given(body.size, url.limit) \in Nat \cup {Missing}
        BY <1>1, <1>2 DEF Given, IsNumber, Request
    <2>2. IsNumber(body.page) => body.page \in Nat
        BY <1>2 DEF IsNumber
    <2>3. QED
        BY <1>1, <1>4, <2>1, <2>2 DEF PageTarget
<1>7. CountedTarget(body) = Nowhere \/ CountedTarget(body) \in Request
    <2>1. Given(body.page, page + 1) \in Nat
        BY <1>1, <1>2 DEF Given, IsNumber
    <2>2. QED
        BY <1>1, <1>4, <2>1 DEF CountedTarget
<1>8. OffsetTarget(body) \in Request
    <2>1. Given(body.offset, count) + Length(body) \in Nat
        BY <1>1, <1>2 DEF Given, IsNumber
    <2>2. Given(body.size, Length(body)) \in Nat \cup {Missing}
        BY <1>2 DEF Given, IsNumber
    <2>3. QED
        BY <1>1, <1>4, <2>1, <2>2 DEF OffsetTarget
<1>9. QED
    BY <1>5, <1>6, <1>7, <1>8 DEF NextUrl

\* A body leaves the walk well typed.
LEMMA ReceiveTypes ==
    ASSUME TypeInv, NEW body \in {Honest} \cup Damaged, Receive(body)
    PROVE  /\ RowsInv'
           /\ UNCHANGED <<style, totals, edits>>
           /\ pc' \in {"read", "check", "raised"} /\ url' \in Request /\ page' \in 0..MaxPages
           /\ items' \subseteq Row /\ count' \in Nat /\ declared' \in Nat \cup {Missing}
           /\ metadataOk' \in BOOLEAN /\ bare' \in BOOLEAN /\ verified' \in BOOLEAN
<1>1. UNCHANGED <<rows, style, totals, stable, edits>> /\ pc = "read" /\ page < MaxPages
    BY DEF Receive, server, PagesLeft
<1>2. /\ url \in Request /\ page \in 0..MaxPages /\ items \subseteq Row /\ count \in Nat
      /\ declared \in Nat \cup {Missing} /\ MaxPages \in Nat
    BY DEF TypeInv, WalkTypes
<1>3. metadataOk \in BOOLEAN /\ bare \in BOOLEAN /\ verified \in BOOLEAN
    BY DEF TypeInv, WalkTypes
<1>4. body.items \subseteq Row /\ Length(body) \in Nat
    <2>1. Listed \subseteq Row /\ IsFiniteSet(Listed) /\ body.items \subseteq Listed
        BY BodyTyped, ListedIsFinite DEF TypeInv, RowsInv
    <2>2. IsFiniteSet(body.items)
        BY <2>1, FS_Subset
    <2>3. QED
        BY <2>1, <2>2, FS_CardinalityType DEF Length
<1>5. RowsInv'
    BY <1>1 DEF TypeInv, RowsInv, Listed
<1>6. CASE pc' = "raised" /\ UNCHANGED walk
    BY <1>1, <1>2, <1>3, <1>5, <1>6 DEF walk
<1>7. CASE Accept(body)
    <2>1. page' = page + 1 /\ items' = items \cup body.items /\ count' = count + Length(body)
        BY <1>7 DEF Accept
    <2>2. declared' \in Nat \cup {Missing}
        BY <1>2, <1>7, BodyTyped DEF Accept, Total, Given, IsNumber
    <2>3. url' \in Request /\ pc' \in {"read", "check"}
        BY <1>2, <1>7, NextUrlTyped DEF Accept
    <2>4. metadataOk' \in BOOLEAN /\ bare' = bare /\ verified' = verified
        BY <1>3, <1>7 DEF Accept
    <2>5. page' \in 0..MaxPages /\ items' \subseteq Row /\ count' \in Nat
        BY <1>1, <1>2, <1>4, <2>1
    <2>6. QED
        BY <1>1, <1>3, <1>5, <2>2, <2>3, <2>4, <2>5
<1>8. CASE AcceptList(body)
    <2>1. /\ page' = page + 1 /\ items' = body.items /\ count' = Length(body) /\ bare' = TRUE
          /\ pc' = "check" /\ UNCHANGED <<url, declared, metadataOk, verified>>
        BY <1>8 DEF AcceptList
    <2>2. page' \in 0..MaxPages
        BY <1>1, <1>2, <2>1
    <2>3. QED
        BY <1>1, <1>2, <1>3, <1>4, <1>5, <2>1, <2>2
<1>9. QED
    BY <1>6, <1>7, <1>8 DEF Receive

LEMMA TypesKept == TypeInv /\ [Next]_vars => TypeInv'
<1> SUFFICES ASSUME TypeInv, [Next]_vars
             PROVE  TypeInv'
    OBVIOUS
<1>1. CASE Change
    <2>1. RowsInv'
        BY <1>1, ChangeKeepsRows DEF TypeInv
    <2>2. edits' \in 0..MaxEdits
        BY <1>1 DEF Change, TypeInv, WalkTypes
    <2>3. WalkTypes'
        BY <1>1, <2>2 DEF Change, TypeInv, WalkTypes, walk
    <2>4. QED
        BY <2>1, <2>3 DEF TypeInv
<1>2. ASSUME NEW body \in {Honest} \cup Damaged, Receive(body),
             faulted' \in BOOLEAN, garbled' \in BOOLEAN
      PROVE  TypeInv'
    BY <1>2, ReceiveTypes DEF TypeInv, WalkTypes
<1>3. CASE ReceiveHonest
    <2>1. Receive(Honest) /\ faulted' = faulted /\ garbled' = garbled
        BY <1>3 DEF ReceiveHonest
    <2>2. faulted' \in BOOLEAN /\ garbled' \in BOOLEAN
        BY <2>1 DEF TypeInv, WalkTypes
    <2>3. QED
        BY <1>2, <2>1, <2>2
<1>4. CASE ReceiveDamaged
    <2>1. PICK body \in Damaged : Receive(body) /\ garbled' = (garbled \/ ~IsClean(body))
        BY <1>4 DEF ReceiveDamaged
    <2>2. faulted' = TRUE /\ garbled' \in BOOLEAN
        BY <1>4, <2>1 DEF ReceiveDamaged
    <2>3. QED
        BY <1>2, <2>1, <2>2
<1>5. CASE TooManyPages \/ RequestFails
    BY <1>5 DEF TooManyPages, RequestFails, server, walk, luck, TypeInv, RowsInv, WalkTypes, Listed
<1>6. CASE Check
    <2>1. /\ pc' \in {"raised", "returned"}
          /\ UNCHANGED <<rows, style, totals, url, page, items, count, declared, metadataOk, bare,
                         stable, edits, faulted, garbled>>
        BY <1>6 DEF Check, server, luck
    <2>2. verified' \in BOOLEAN
        BY <1>6 DEF Check, TypeInv, WalkTypes
    <2>3. RowsInv'
        BY <2>1 DEF TypeInv, RowsInv, Listed
    <2>4. QED
        BY <2>1, <2>2, <2>3 DEF TypeInv, WalkTypes
<1>7. CASE UNCHANGED vars
    BY <1>7 DEF vars, server, walk, luck, TypeInv, RowsInv, WalkTypes, Listed
<1>8. QED
    BY <1>1, <1>3, <1>4, <1>5, <1>6, <1>7 DEF Next, Progress

LEMMA TypesFromTheStart == Spec => []TypeInv
<1>1. Init => TypeInv
    <2> SUFFICES ASSUME Init PROVE TypeInv
        OBVIOUS
    <2>1. RowsInv
        BY DEF Init, RowsInv, Distinct
    <2>2. FirstUrl \in Request
        BY DEF FirstUrl, Request
    <2>3. /\ style \in Styles /\ totals \in BOOLEAN /\ pc = "read" /\ url \in Request
          /\ page = 0 /\ items = {} /\ count = 0 /\ declared = Missing /\ edits = 0
        BY <2>2 DEF Init
    <2>4. /\ metadataOk \in BOOLEAN /\ bare \in BOOLEAN /\ verified \in BOOLEAN
          /\ faulted \in BOOLEAN /\ garbled \in BOOLEAN
        BY DEF Init
    <2>5. page \in 0..MaxPages /\ edits \in 0..MaxEdits
        BY <2>3
    <2>6. QED
        BY <2>1, <2>3, <2>4, <2>5 DEF TypeInv, WalkTypes
<1>2. QED
    BY <1>1, TypesKept, PTL DEF Spec

\* The walk is well typed: whatever a body says, what is asked for next is a
\* request, and no walk reads more than MaxPages pages.
THEOREM TypeCorrect == Spec => []TypeOK
<1>1. TypeInv => TypeOK
    <2> SUFFICES ASSUME TypeInv PROVE TypeOK
        OBVIOUS
    <2>1. url \in Url
        BY DEF TypeInv, WalkTypes, Request, Url, Field
    <2>2. stable \subseteq Row
        BY ListedIsFinite DEF TypeInv, RowsInv
    <2>3. QED
        BY <2>1, <2>2 DEF TypeInv, RowsInv, WalkTypes, TypeOK
<1>2. QED
    BY <1>1, TypesFromTheStart, PTL

-----------------------------------------------------------------------------
(* One change.  A total is what notices it: the rows read and the total      *)
(* declared are those of the present collection, or the total is no longer   *)
(* its size and the next page will say so                                    *)

NoticeInv ==
    ~faulted /\ edits <= 1 =>
        /\ ~totals \/ style = "list" => declared = Missing
        /\ page = 0 => items = {} /\ count = 0 /\ declared = Missing
        /\ bare => stable \subseteq items
        /\ totals /\ style # "list" /\ page > 0 =>
              \/ /\ items \subseteq Listed /\ count = Cardinality(items)
                 /\ declared = Cardinality(Listed)
              \/ /\ pc \in {"read", "raised"} /\ edits = 1
                 /\ declared \in Nat /\ declared # Cardinality(Listed)

\* What a sound server says of the total.
LEMMA HonestSays ==
    ASSUME TypeInv
    PROVE  /\ Honest.total = IF totals THEN Cardinality(Listed) ELSE Missing
           /\ Honest.list <=> style = "list"
           /\ Honest.items \subseteq Listed
           /\ style = "list" => Honest.items = Listed
           /\ Length(Honest) = Cardinality(Honest.items) /\ IsFiniteSet(Honest.items)
           /\ IsFiniteSet(Listed) /\ Cardinality(Listed) \in Nat
           /\ Cardinality(Honest.items) \in Nat
<1>1. /\ Honest.total = IF totals THEN Cardinality(Listed) ELSE Missing
      /\ Honest.list <=> style = "list"
      /\ style = "list" => Honest.items = Listed
      /\ Honest.twice = FALSE
    BY DEF Honest
<1>2. IsFiniteSet(Listed) /\ Cardinality(Listed) \in Nat
    BY ListedIsFinite DEF TypeInv, RowsInv
<1>3. Honest.items \subseteq Listed
    BY BodyTyped
<1>4. IsFiniteSet(Honest.items) /\ Cardinality(Honest.items) \in Nat
    BY <1>2, <1>3, FS_Subset, FS_CardinalityType
<1>5. Length(Honest) = Cardinality(Honest.items)
    BY <1>1, <1>4 DEF Length
<1>6. QED
    BY <1>1, <1>2, <1>3, <1>4, <1>5

\* A page of rows not seen before adds its rows to the count.
LEMMA CountGrows ==
    ASSUME NEW S, NEW T, IsFiniteSet(S), IsFiniteSet(T), S \cap T = {}
    PROVE  Cardinality(S \cup T) = Cardinality(S) + Cardinality(T)
<1>1. Cardinality(S) \in Nat /\ Cardinality(T) \in Nat /\ Cardinality({}) = 0
    BY FS_CardinalityType, FS_EmptySet
<1>2. Cardinality(S \cup T) = Cardinality(S) + Cardinality(T) - Cardinality(S \cap T)
    BY FS_Union
<1>3. Cardinality(S \cap T) = 0
    BY <1>1
<1>4. QED
    BY <1>1, <1>2, <1>3

\* A page of a sound server.
LEMMA HonestKeepsNotice ==
    ASSUME TypeInv, NoticeInv, VerdictInv, ReceiveHonest
    PROVE  NoticeInv'
<1> SUFFICES ASSUME ~faulted, edits <= 1
             PROVE  /\ ~totals \/ style = "list" => declared' = Missing
                    /\ page' = 0 => items' = {} /\ count' = 0 /\ declared' = Missing
                    /\ bare' => stable \subseteq items'
                    /\ totals /\ style # "list" /\ page' > 0 =>
                          \/ /\ items' \subseteq Listed /\ count' = Cardinality(items')
                             /\ declared' = Cardinality(Listed)
                          \/ /\ pc' \in {"read", "raised"} /\ edits = 1
                             /\ declared' \in Nat /\ declared' # Cardinality(Listed)
    BY DEF ReceiveHonest, Receive, server, NoticeInv, Listed
<1>1. Receive(Honest) /\ pc = "read"
    BY DEF ReceiveHonest, Receive
<1>2. /\ page \in Nat /\ count \in Nat /\ declared \in Nat \cup {Missing} /\ items \subseteq Row
      /\ IsFiniteSet(items) /\ stable \subseteq Listed
    <2>1. page \in Nat /\ count \in Nat /\ declared \in Nat \cup {Missing} /\ items \subseteq Row
        BY DEF TypeInv, WalkTypes
    <2>2. IsFiniteSet(items)
        BY <2>1, FS_Subset
    <2>3. QED
        BY <2>1, <2>2 DEF TypeInv, RowsInv
<1>3. ~bare
    BY <1>1 DEF VerdictInv
<1>4. CASE pc' = "raised" /\ UNCHANGED walk
    BY <1>4 DEF walk, NoticeInv
<1>5. CASE ~Refuses(Honest) /\ Honest.list /\ AcceptList(Honest)
    <2>1. style = "list" /\ Honest.items = Listed
        BY <1>5, HonestSays
    <2>2. /\ items' = Listed /\ page' = page + 1 /\ declared' = declared
        BY <1>5, <2>1 DEF AcceptList
    <2>3. declared = Missing
        BY <2>1 DEF NoticeInv
    <2>4. QED
        BY <1>2, <2>1, <2>2, <2>3
<1>6. CASE ~Refuses(Honest) /\ ~Honest.list /\ Accept(Honest)
    <2>1. /\ items' = items \cup Honest.items /\ count' = count + Cardinality(Honest.items)
          /\ page' = page + 1 /\ declared' = Total(Honest) /\ bare' = bare
        BY <1>6, HonestSays DEF Accept
    <2>2. style # "list" /\ Honest.items \cap items = {}
        BY <1>6, HonestSays DEF Refuses
    <2>3. ~totals => declared' = Missing
        BY <2>1, HonestSays DEF NoticeInv, Total, Given, IsNumber
    <2>4. ASSUME totals
          PROVE  /\ items' \subseteq Listed /\ count' = Cardinality(items')
                 /\ declared' = Cardinality(Listed)
        <3>1. Honest.total = Cardinality(Listed) /\ IsNumber(Honest.total)
            BY <2>4, HonestSays DEF IsNumber
        <3>2. IsNumber(declared) => declared = Cardinality(Listed)
            BY <1>6, <3>1, HonestSays DEF Refuses
        <3>3. declared' = Cardinality(Listed)
            BY <2>1, <3>1, <3>2 DEF Total, Given
        <3>4. items \subseteq Listed /\ count = Cardinality(items)
            <4>1. CASE page = 0
                BY <4>1, FS_EmptySet DEF NoticeInv
            <4>2. CASE page > 0
                BY <2>2, <2>4, <3>2, <4>2 DEF NoticeInv, IsNumber
            <4>3. QED
                BY <1>2, <4>1, <4>2
        <3>5. Cardinality(items \cup Honest.items) = Cardinality(items) + Cardinality(Honest.items)
            BY <1>2, <2>2, CountGrows, HonestSays
        <3>6. QED
            BY <2>1, <3>3, <3>4, <3>5, HonestSays
    <2>5. page' > 0
        BY <1>2, <2>1
    <2>6. QED
        BY <1>3, <2>1, <2>2, <2>3, <2>4, <2>5
<1>7. QED
    BY <1>1, <1>4, <1>5, <1>6 DEF Receive

\* A change makes every total that was declared a wrong one.
LEMMA ChangeKeepsNotice ==
    ASSUME TypeInv, NoticeInv, VerdictInv, Change
    PROVE  NoticeInv'
<1>1. /\ edits' = edits + 1 /\ edits \in Nat /\ pc = "read" /\ ~bare
      /\ UNCHANGED <<style, totals, pc, page, items, count, declared, bare, faulted>>
    BY DEF Change, walk, VerdictInv, TypeInv, WalkTypes
<1> SUFFICES ASSUME ~faulted, edits = 0
             PROVE  totals /\ style # "list" /\ page > 0 =>
                       declared \in Nat /\ declared # Cardinality(Listed')
    BY <1>1 DEF NoticeInv
<1>2. IsFiniteSet(Listed) /\ Cardinality(Listed) \in Nat
    BY HonestSays
<1>3. Cardinality(Listed') # Cardinality(Listed)
    <2>1. CASE \E r \in Row \ Listed : Listed' = Listed \cup {r}
        <3>1. PICK r \in Row \ Listed : Listed' = Listed \cup {r}
            BY <2>1
        <3>2. Cardinality(Listed \cup {r}) = Cardinality(Listed) + 1
            BY <1>2, FS_AddElement
        <3>3. Cardinality(Listed') = Cardinality(Listed) + 1
            BY <3>1, <3>2
        <3>4. QED
            BY <1>2, <3>3
    <2>2. CASE \E r \in Listed : Listed' = Listed \ {r}
        <3>1. PICK r \in Listed : Listed' = Listed \ {r}
            BY <2>2
        <3>2. Cardinality(Listed \ {r}) = Cardinality(Listed) - 1
            BY <1>2, FS_RemoveElement
        <3>3. Cardinality(Listed') = Cardinality(Listed) - 1
            BY <3>1, <3>2
        <3>4. QED
            BY <1>2, <3>3
    <2>3. QED
        BY <2>1, <2>2, ChangeKeepsRows DEF TypeInv
<1>4. totals /\ style # "list" /\ page > 0 => declared = Cardinality(Listed)
    BY DEF NoticeInv
<1>5. QED
    BY <1>2, <1>3, <1>4

LEMMA NoticeKept == TypeInv /\ Inv /\ NoticeInv /\ [Next]_vars => NoticeInv'
<1> SUFFICES ASSUME TypeInv, VerdictInv, NoticeInv, [Next]_vars
             PROVE  NoticeInv'
    BY DEF Inv
<1>1. CASE Change
    BY <1>1, ChangeKeepsNotice
<1>2. CASE ReceiveHonest
    BY <1>2, HonestKeepsNotice
<1>3. CASE ReceiveDamaged \/ RequestFails
    BY <1>3 DEF ReceiveDamaged, RequestFails, NoticeInv
<1>4. CASE TooManyPages
    BY <1>4 DEF TooManyPages, server, walk, luck, NoticeInv, Listed
<1>5. CASE Check
    BY <1>5 DEF Check, server, luck, NoticeInv, Listed
<1>6. CASE UNCHANGED vars
    BY <1>6 DEF vars, server, walk, luck, NoticeInv, Listed
<1>7. QED
    BY <1>1, <1>2, <1>3, <1>4, <1>5, <1>6 DEF Next, Progress

\* One row added or removed (and none moved) under the walk of a sound server
\* never costs a certified read a row that was there all along.
THEOREM OneChange == Spec => []OneChangeIsNoticed
<1>1. Init => NoticeInv
    BY DEF Init, NoticeInv
<1>2. TypeInv /\ Inv /\ NoticeInv => OneChangeIsNoticed
    <2> SUFFICES ASSUME TypeInv, VerdictInv, NoticeInv, Certified, edits <= 1, ~faulted
                 PROVE  stable \subseteq items
        BY DEF Inv, OneChangeIsNoticed
    <2>1. CASE bare
        BY <2>1 DEF NoticeInv
    <2>2. CASE ~bare
        <3>1. IsNumber(declared) /\ count = declared /\ pc = "returned"
            BY <2>2 DEF VerdictInv, Certified
        <3>2. totals /\ style # "list" /\ page # 0 /\ page \in Nat
            BY <3>1 DEF NoticeInv, IsNumber, TypeInv, WalkTypes
        <3>3. items \subseteq Listed /\ Cardinality(items) = Cardinality(Listed)
            BY <3>1, <3>2 DEF NoticeInv
        <3>4. items = Listed
            BY <3>3, FS_Subset, HonestSays
        <3>5. QED
            BY <3>4 DEF TypeInv, RowsInv
    <2>3. QED
        BY <2>1, <2>2
<1>3. QED
    BY <1>1, <1>2, NoticeKept, TypesFromTheStart, SpecInv, PTL DEF Spec

-----------------------------------------------------------------------------
(* A sound server and a still collection.  Whichever way it pages, a walk    *)
(* that is not over has read page * PageSize rows, asks for those that       *)
(* follow, and has some left to read                                         *)

Prefix(k) == {rows[i] : i \in 1..k}

\* The request that is due after so many pages, which held so many rows.
Due(u, pages, read) ==
    /\ style = "page" => u.page = pages + 1 /\ u.limit = PageSize
    /\ style = "pages" => u.page = pages + 1 /\ u.limit = Missing
    /\ style = "offset" => u.offset = read /\ u.limit = PageSize
    /\ style = "link" => u.offset = read /\ u.limit = Missing

HonestInv ==
    ~faulted /\ edits = 0 =>
        /\ metadataOk
        /\ pc = "raised" => MaxPages * PageSize < Len(rows)
        /\ style = "list" =>
              /\ declared = Missing /\ (pc \in {"read", "raised"} => page = 0)
              /\ pc \in {"check", "returned"} => bare /\ items = Listed
        /\ style # "list" =>
              /\ count \in 0..Len(rows) /\ items = Prefix(count)
              /\ page = 0 => count = 0 /\ url = FirstUrl /\ declared = Missing
              /\ page > 0 => declared = IF totals THEN Len(rows) ELSE Missing
              /\ pc = "read" /\ page > 0 =>
                    count = page * PageSize /\ count < Len(rows) /\ Due(url, page, count)
              /\ pc \in {"check", "returned"} =>
                    page > 0 /\ (totals \/ style \in {"link", "pages"} => count = Len(rows))
        /\ pc = "returned" => (verified <=> totals \/ style = "list")

\* The first rows of a collection, which are all different.
LEMMA PrefixSize ==
    ASSUME RowsInv, NEW k \in 0..Len(rows)
    PROVE  IsFiniteSet(Prefix(k)) /\ Cardinality(Prefix(k)) = k
<1> DEFINE f == [i \in 1..k |-> rows[i]]
<1>1. Len(rows) \in Nat /\ DOMAIN rows = 1..Len(rows) /\ k \in Nat /\ 1..k \subseteq DOMAIN rows
    BY DEF RowsInv
<1>2. \A i, j \in 1..k : rows[i] = rows[j] => i = j
    BY <1>1 DEF RowsInv, Distinct
<1>3. f \in Bijection(1..k, Prefix(k))
    BY <1>2 DEF Prefix, Bijection, Injection, Surjection, IsInjective
<1>4. ExistsBijection(1..k, Prefix(k))
    BY <1>3 DEF ExistsBijection
<1>5. Cardinality(Prefix(k)) = k
    BY <1>1, <1>4, FS_CountingElements
<1>6. IsFiniteSet(Prefix(k))
    BY <1>1, <1>4, FS_NatBijection
<1>7. QED
    BY <1>5, <1>6

\* A collection is as large as it is long.
LEMMA ListedSize ==
    ASSUME RowsInv
    PROVE  Listed = Prefix(Len(rows)) /\ Cardinality(Listed) = Len(rows) /\ Len(rows) \in Nat
<1>1. DOMAIN rows = 1..Len(rows) /\ Len(rows) \in Nat
    BY DEF RowsInv
<1>2. Listed = Prefix(Len(rows))
    BY <1>1 DEF Listed, Prefix
<1>3. Len(rows) \in 0..Len(rows)
    BY <1>1
<1>4. QED
    BY <1>1, <1>2, <1>3, PrefixSize

\* The places of a page in a collection of l rows: they follow the first k.
LEMMA PlacesOfPage ==
    ASSUME NEW l \in Nat, NEW d \in Nat, NEW k \in Nat, NEW n \in Nat, k <= n, n <= l,
           n = k + d \/ (n = l /\ n <= k + d)
    PROVE  /\ {j \in 1..l : k < j /\ j <= k + d} = (k + 1)..n
           /\ 1..n = (1..k) \cup ((k + 1)..n) /\ 1..n \subseteq 1..l
           /\ \A i \in (k + 1)..n, j \in 1..k : i # j
<1>1. \A j \in 1..l : k < j /\ j <= k + d <=> j \in (k + 1)..n
    OBVIOUS
<1>2. (k + 1)..n \subseteq 1..l /\ 1..n \subseteq 1..l
    OBVIOUS
<1>3. \A j \in 1..n : j \in 1..k \/ j \in (k + 1)..n
    OBVIOUS
<1>4. 1..k \subseteq 1..n /\ (k + 1)..n \subseteq 1..n /\ \A i \in (k + 1)..n, j \in 1..k : i # j
    OBVIOUS
<1>5. QED
    BY <1>1, <1>2, <1>3, <1>4

\* The rows of a page: as many as fit, from where the last one ended.
LEMMA PageOfRows ==
    ASSUME RowsInv, NEW k \in Nat, NEW n \in Nat, k <= n, n <= Len(rows),
           n = k + PageSize \/ (n = Len(rows) /\ n <= k + PageSize),
           Start = k, Width = PageSize, style # "list"
    PROVE  /\ Honest.items \cap Prefix(k) = {}
           /\ Prefix(n) = Prefix(k) \cup Honest.items
           /\ Cardinality(Honest.items) = n - k
<1> DEFINE places == {j \in 1..Len(rows) : k < j /\ j <= k + PageSize}
<1>1. /\ Len(rows) \in Nat /\ DOMAIN rows = 1..Len(rows) /\ PageSize \in Nat
      /\ \A i, j \in DOMAIN rows : rows[i] = rows[j] => i = j
    BY DEF RowsInv, Distinct
<1>2. /\ places = (k + 1)..n
      /\ 1..n = (1..k) \cup ((k + 1)..n) /\ 1..n \subseteq 1..Len(rows)
      /\ \A i \in (k + 1)..n, j \in 1..k : i # j
    <2>1. Len(rows) \in Nat /\ PageSize \in Nat
        BY <1>1
    <2>2. QED
        BY ONLY <2>1, k \in Nat, n \in Nat, k <= n, n <= Len(rows),
                n = k + PageSize \/ (n = Len(rows) /\ n <= k + PageSize), PlacesOfPage
<1>3. Honest.items = {rows[i] : i \in (k + 1)..n}
    <2>1. Honest.items = Window
        BY DEF Honest
    <2>2. Window = {rows[i] : i \in places}
        BY <1>1 DEF Window
    <2>3. QED
        BY <1>2, <2>1, <2>2
<1>4. Honest.items \cap Prefix(k) = {}
    BY <1>1, <1>2, <1>3 DEF Prefix
<1>5. Prefix(n) = Prefix(k) \cup Honest.items
    BY <1>2, <1>3 DEF Prefix
<1>6. Cardinality(Honest.items) = n - k
    <2>1. k \in 0..Len(rows) /\ n \in 0..Len(rows)
        BY ONLY <1>1, k \in Nat, n \in Nat, k <= n, n <= Len(rows)
    <2>2. /\ IsFiniteSet(Prefix(k)) /\ Cardinality(Prefix(k)) = k
          /\ IsFiniteSet(Prefix(n)) /\ Cardinality(Prefix(n)) = n
        BY <2>1, PrefixSize
    <2>3. IsFiniteSet(Honest.items) /\ Cardinality(Honest.items) \in Nat
        <3>1. Honest.items \in SUBSET Prefix(n)
            BY <1>5
        <3>2. QED
            BY <2>2, <3>1, FS_Subset, FS_CardinalityType
    <2>4. Prefix(k) \cap Honest.items = {}
        BY <1>4
    <2>5. Cardinality(Prefix(k) \cup Honest.items) = Cardinality(Prefix(k)) + Cardinality(Honest.items)
        BY <2>2, <2>3, <2>4, CountGrows
    <2>6. n = k + Cardinality(Honest.items)
        BY <1>5, <2>2, <2>5
    <2>7. QED
        BY ONLY <2>3, <2>6, k \in Nat, n \in Nat
<1>7. QED
    BY <1>4, <1>5, <1>6

\* There are pages left exactly while they hold fewer rows than the collection.
LEMMA PagesCount ==
    ASSUME NEW p \in Nat, NEW n \in Nat, NEW d \in Nat, d > 0
    PROVE  /\ (n + d - 1) \div d \in Nat
           /\ p >= (n + d - 1) \div d <=> p * d >= n
OBVIOUS

\* Where a walk that goes on reads next, and what its metadata are.
LEMMA HonestMetadata ==
    ASSUME TypeInv, HonestInv, ~faulted, edits = 0, pc = "read", style # "list"
    PROVE  /\ Start = count /\ Width = PageSize /\ count = page * PageSize
           /\ style \in {"page", "pages"} => Honest.page = page + 1
           /\ style \in {"offset", "link"} => Honest.page = Missing
           /\ Honest.size = IF style = "link" THEN Missing ELSE PageSize
           /\ Honest.offset = IF style = "offset" THEN count ELSE Missing
           /\ Honest.total = IF totals THEN Len(rows) ELSE Missing
           /\ IsClean(Honest)
<1>1. /\ page \in Nat /\ count \in Nat /\ url \in Request /\ PageSize \in Nat /\ Len(rows) \in Nat
      /\ style \in Styles
    BY ListedSize DEF TypeInv, WalkTypes
<1>2. count = page * PageSize
    <2>1. CASE page = 0
        BY <1>1, <2>1 DEF HonestInv
    <2>2. CASE page > 0
        BY <2>2 DEF HonestInv
    <2>3. QED
        BY <1>1, <2>1, <2>2
<1>3. /\ Width = PageSize
      /\ style \in {"page", "pages"} => Given(url.page, 1) = page + 1
      /\ style \in {"offset", "link"} => Given(url.offset, 0) = count
    <2>1. CASE page = 0
        BY <1>1, <1>2, <2>1 DEF HonestInv, FirstUrl, Width, Given, IsNumber
    <2>2. CASE page > 0
        <3>1. Due(url, page, count)
            BY <2>2 DEF HonestInv
        <3>2. Width = PageSize
            BY <1>1, <3>1 DEF Width, Given, IsNumber, Due, Styles
        <3>3. QED
            BY <1>1, <3>1, <3>2 DEF Given, IsNumber, Due
    <2>3. QED
        BY <1>1, <2>1, <2>2
<1>4. Start = count
    <2>1. CASE style \in {"offset", "link"}
        BY <1>3, <2>1 DEF Start
    <2>2. CASE style \in {"page", "pages"}
        <3>1. Given(url.page, 1) - 1 = page
            BY <1>1, <1>3, <2>2
        <3>2. Start = (Given(url.page, 1) - 1) * Width
            BY <2>2 DEF Start, Width
        <3>3. QED
            BY <1>2, <1>3, <3>1, <3>2
    <2>3. QED
        BY <1>1, <2>1, <2>2 DEF Styles
<1>5. /\ style \in {"page", "pages"} => Honest.page = page + 1
      /\ style \in {"offset", "link"} => Honest.page = Missing
      /\ Honest.size = IF style = "link" THEN Missing ELSE PageSize
      /\ Honest.offset = IF style = "offset" THEN count ELSE Missing
      /\ Honest.total = IF totals THEN Len(rows) ELSE Missing
      /\ Honest.pages = IF style = "pages" THEN (Len(rows) + PageSize - 1) \div PageSize ELSE Missing
    BY <1>3, <1>4, ListedSize DEF Honest, TypeInv
<1>6. Honest.pages \in Nat \cup {Missing}
    BY <1>1, <1>5, PagesCount
<1>7. /\ Honest.page \in Nat \cup {Missing} /\ Honest.size \in Nat \cup {Missing}
      /\ Honest.offset \in Nat \cup {Missing} /\ Honest.total \in Nat \cup {Missing}
    BY <1>1, <1>5 DEF Styles
<1>8. IsClean(Honest)
    BY <1>6, <1>7 DEF IsClean
<1>9. QED
    BY <1>2, <1>3, <1>4, <1>5, <1>8

\* How many rows have been read after one more page, and whether there is
\* another after that.
Ahead == IF count + PageSize < Len(rows) THEN count + PageSize ELSE Len(rows)
GoesOn == count + PageSize < Len(rows) /\ (totals \/ style \in {"link", "pages"})

\* A page of a sound server continues what was read.
LEMMA HonestRows ==
    ASSUME TypeInv, HonestInv, ~faulted, edits = 0, pc = "read", style # "list"
    PROVE  /\ Ahead \in Nat /\ Ahead \in 0..Len(rows) /\ count <= Ahead /\ count \in Nat
           /\ Honest.items \cap items = {} /\ items \cup Honest.items = Prefix(Ahead)
           /\ Length(Honest) = Ahead - count
<1>1. /\ count \in 0..Len(rows) /\ count \in Nat /\ Len(rows) \in Nat /\ PageSize \in Nat
      /\ items = Prefix(count)
    BY ListedSize DEF TypeInv, HonestInv
<1>2. /\ Ahead \in Nat /\ count <= Ahead /\ Ahead <= Len(rows)
      /\ Ahead = count + PageSize \/ (Ahead = Len(rows) /\ Ahead <= count + PageSize)
    BY ONLY <1>1 DEF Ahead
<1>3. Start = count /\ Width = PageSize
    BY HonestMetadata
<1>4. /\ Honest.items \cap Prefix(count) = {}
      /\ Prefix(Ahead) = Prefix(count) \cup Honest.items
      /\ Cardinality(Honest.items) = Ahead - count
    BY <1>1, <1>2, <1>3, PageOfRows DEF TypeInv
<1>5. Ahead \in 0..Len(rows)
    BY ONLY <1>1, <1>2
<1>6. QED
    BY <1>1, <1>2, <1>4, <1>5, HonestSays

\* A total that is declared says whether there is more to read.
LEMMA HonestTotal ==
    ASSUME TypeInv, HonestInv, ~faulted, edits = 0, pc = "read", style # "list"
    PROVE  /\ Total(Honest) = IF totals THEN Len(rows) ELSE Missing
           /\ MoreToRead(Honest) <=> totals /\ count + PageSize < Len(rows)
           /\ ~(IsNumber(Honest.total) /\ IsNumber(declared) /\ Honest.total # declared)
<1>1. /\ page \in Nat /\ Len(rows) \in Nat /\ PageSize \in Nat \ {0} /\ totals \in BOOLEAN
      /\ declared \in {Missing, IF totals THEN Len(rows) ELSE Missing}
    BY ListedSize DEF TypeInv, WalkTypes, HonestInv
<1>2. Honest.total = IF totals THEN Len(rows) ELSE Missing
    BY HonestMetadata
<1>3. Total(Honest) = IF totals THEN Len(rows) ELSE Missing
    BY <1>1, <1>2 DEF Total, Given, IsNumber
<1>4. Ahead \in Nat /\ count \in Nat /\ Length(Honest) = Ahead - count
    BY HonestRows
<1>5. Length(Honest) > 0 /\ count + Length(Honest) < Len(rows) <=> count + PageSize < Len(rows)
    BY ONLY <1>1, <1>4 DEF Ahead
<1>6. CASE totals
    <2>1. Total(Honest) = Len(rows) /\ IsNumber(Total(Honest))
        BY <1>1, <1>3, <1>6 DEF IsNumber
    <2>2. MoreToRead(Honest) <=> count + PageSize < Len(rows)
        BY <1>5, <2>1 DEF MoreToRead
    <2>3. QED
        BY <1>1, <1>2, <1>3, <1>6, <2>2 DEF IsNumber
<1>7. CASE ~totals
    BY <1>1, <1>2, <1>3, <1>7 DEF MoreToRead, IsNumber
<1>8. QED
    BY <1>1, <1>6, <1>7

\* The walk asks for the rows that follow while there are some and the server
\* gives a way to tell.
LEMMA HonestNext ==
    ASSUME TypeInv, HonestInv, ~faulted, edits = 0, pc = "read", style # "list"
    PROVE  /\ GoesOn => NextUrl(Honest) # Nowhere /\ Due(NextUrl(Honest), page + 1, Ahead)
           /\ ~GoesOn => NextUrl(Honest) = Nowhere
           /\ NextUrl(Honest) # url
<1> DEFINE next == NextUrl(Honest)
<1>1. /\ url \in Request /\ page \in Nat /\ count \in Nat /\ PageSize \in Nat \ {0}
      /\ Len(rows) \in Nat /\ style \in Styles /\ totals \in BOOLEAN
    BY ListedSize DEF TypeInv, WalkTypes
<1>2. /\ Start = count /\ Width = PageSize /\ count = page * PageSize
      /\ style \in {"page", "pages"} => Honest.page = page + 1
      /\ style \in {"offset", "link"} => Honest.page = Missing
      /\ Honest.size = IF style = "link" THEN Missing ELSE PageSize
      /\ Honest.offset = IF style = "offset" THEN count ELSE Missing
    BY HonestMetadata
<1>3. /\ Honest.pages = IF style = "pages" THEN (Len(rows) + PageSize - 1) \div PageSize ELSE Missing
      /\ Honest.link = IF style # "link" THEN "none"
                       ELSE IF Start + Width < Len(rows) THEN "more" ELSE "null"
    BY DEF Honest
<1>4. page = 0 => url = FirstUrl
    BY DEF HonestInv
<1>5. page > 0 => Due(url, page, count)
    BY DEF HonestInv
<1>6. MoreToRead(Honest) <=> totals /\ count + PageSize < Len(rows)
    BY HonestTotal
<1>7. count + PageSize < Len(rows) => Ahead = count + PageSize
    BY DEF Ahead
<1>8. Nowhere \notin Request /\ Nowhere # url
    BY <1>1 DEF Request, Field
<1>9. CASE style = "link"
    <2>1. next = LinkTarget(Honest)
        BY <1>3, <1>9 DEF NextUrl
    <2>2. CASE count + PageSize < Len(rows)
        <3>1. next = [FirstUrl EXCEPT !.offset = count + PageSize]
            BY <1>2, <1>3, <1>9, <2>1, <2>2 DEF LinkTarget
        <3>2. /\ next.offset = count + PageSize /\ next.limit = Missing /\ next.page = Missing
              /\ next \in Request
            BY <1>1, <3>1 DEF FirstUrl, Request
        <3>3. url.offset \in {Missing, count}
            BY <1>1, <1>4, <1>5, <1>9 DEF FirstUrl, Due
        <3>4. next # url
            BY <1>1, <3>2, <3>3
        <3>5. QED
            BY <1>7, <1>8, <1>9, <2>2, <3>2, <3>4 DEF GoesOn, Due
    <2>3. CASE ~(count + PageSize < Len(rows))
        BY <1>2, <1>3, <1>8, <1>9, <2>1, <2>3 DEF LinkTarget, GoesOn
    <2>4. QED
        BY <2>2, <2>3
<1>10. CASE style = "pages"
    <2> DEFINE all == (Len(rows) + PageSize - 1) \div PageSize
    <2>1. Honest.link = "none" /\ Honest.pages = all /\ Honest.page = page + 1
        BY <1>2, <1>3, <1>10
    <2>2. /\ all \in Nat
          /\ page + 1 >= all <=> (page + 1) * PageSize >= Len(rows)
        BY ONLY <1>1, page + 1 \in Nat, PagesCount
    <2>3. (page + 1) * PageSize = count + PageSize
        BY ONLY <1>1, <1>2
    <2>4. IsNumber(Honest.pages) /\ Given(Honest.page, page + 1) = page + 1
        BY <1>1, <2>1, <2>2 DEF IsNumber, Given
    <2>5. next = CountedTarget(Honest)
        BY <2>1, <2>4 DEF NextUrl
    <2>6. next = IF page + 1 >= all THEN Nowhere ELSE [url EXCEPT !.page = page + 2]
        <3>1. page + 1 + 1 = page + 2
            BY <1>1
        <3>2. CountedTarget(Honest) = IF page + 1 >= all THEN Nowhere
                                      ELSE [url EXCEPT !.page = page + 1 + 1]
            BY <2>1, <2>4 DEF CountedTarget
        <3>3. QED
            BY <2>5, <3>1, <3>2
    <2>7. CASE count + PageSize < Len(rows)
        <3>1. next = [url EXCEPT !.page = page + 2]
            BY <1>1, <2>2, <2>3, <2>6, <2>7
        <3>2. next.page = page + 2 /\ next.limit = url.limit /\ next \in Request
            BY <1>1, <3>1 DEF Request
        <3>3. url.page \in {Missing, page + 1} /\ url.limit = Missing
            BY <1>1, <1>4, <1>5, <1>10 DEF FirstUrl, Due
        <3>4. next # url
            BY <1>1, <3>2, <3>3
        <3>5. next.page = (page + 1) + 1
            BY <1>1, <3>2
        <3>6. QED
            BY <1>8, <1>10, <2>7, <3>2, <3>3, <3>4, <3>5 DEF GoesOn, Due
    <2>8. CASE ~(count + PageSize < Len(rows))
        BY <1>1, <1>8, <2>2, <2>3, <2>6, <2>8 DEF GoesOn
    <2>9. QED
        BY <2>7, <2>8
<1>11. CASE style = "page"
    <2>1. Honest.link = "none" /\ ~IsNumber(Honest.pages) /\ Honest.page = page + 1
          /\ IsNumber(Honest.page) /\ Honest.size = PageSize /\ IsNumber(Honest.size)
        BY <1>1, <1>2, <1>3, <1>11 DEF IsNumber
    <2>2. next = IF MoreToRead(Honest) THEN PageTarget(Honest, page + 1) ELSE Nowhere
        BY <2>1 DEF NextUrl
    <2>3. PageTarget(Honest, page + 1) = [url EXCEPT !.page = (page + 1) + 1, !.limit = PageSize]
        BY <2>1 DEF PageTarget, Given
    <2>4. CASE GoesOn
        <3>1. next = [url EXCEPT !.page = (page + 1) + 1, !.limit = PageSize]
            BY <1>6, <1>11, <2>2, <2>3, <2>4 DEF GoesOn
        <3>2. next.page = (page + 1) + 1 /\ next.limit = PageSize /\ next \in Request
            <4>1. (page + 1) + 1 \in Nat \ {0} /\ PageSize \in Nat
                BY <1>1
            <4>2. QED
                BY <1>1, <3>1, <4>1 DEF Request
        <3>3. url.page \in {Missing, page + 1}
            BY <1>1, <1>4, <1>5, <1>11 DEF FirstUrl, Due
        <3>4. next # url
            BY <1>1, <3>2, <3>3
        <3>5. QED
            BY <1>8, <1>11, <2>4, <3>2, <3>4 DEF Due
    <2>5. CASE ~GoesOn
        BY <1>6, <1>8, <1>11, <2>2, <2>5 DEF GoesOn
    <2>6. QED
        BY <2>4, <2>5
<1>12. CASE style = "offset"
    <2>1. Honest.link = "none" /\ ~IsNumber(Honest.pages) /\ ~IsNumber(Honest.page)
          /\ Honest.offset = count /\ IsNumber(Honest.offset)
          /\ Honest.size = PageSize /\ IsNumber(Honest.size)
        BY <1>1, <1>2, <1>3, <1>12 DEF IsNumber
    <2>2. next = IF MoreToRead(Honest) THEN OffsetTarget(Honest) ELSE Nowhere
        BY <2>1 DEF NextUrl
    <2>3. OffsetTarget(Honest) = [url EXCEPT !.offset = count + Length(Honest), !.limit = PageSize]
        BY <2>1 DEF OffsetTarget, Given
    <2>4. CASE GoesOn
        <3>1. count + Length(Honest) = Ahead
            BY <1>1, HonestRows
        <3>2. next = [url EXCEPT !.offset = Ahead, !.limit = PageSize]
            BY <1>6, <1>12, <2>2, <2>3, <2>4, <3>1 DEF GoesOn
        <3>3. next.offset = Ahead /\ next.limit = PageSize /\ next \in Request
            BY <1>1, <3>2, HonestRows DEF Request
        <3>4. url.offset \in {Missing, count} /\ Ahead # count /\ Ahead \in Nat
            BY <1>1, <1>4, <1>5, <1>7, <1>12, <2>4 DEF FirstUrl, Due, GoesOn
        <3>5. next # url
            BY <3>3, <3>4
        <3>6. QED
            BY <1>8, <1>12, <2>4, <3>3, <3>5 DEF Due
    <2>5. CASE ~GoesOn
        BY <1>6, <1>8, <1>12, <2>2, <2>5 DEF GoesOn
    <2>6. QED
        BY <2>4, <2>5
<1>13. QED
    BY <1>1, <1>9, <1>10, <1>11, <1>12 DEF Styles

\* A page of a sound server.
LEMMA HonestPageKept ==
    ASSUME TypeInv, VerdictInv, HonestInv, ReceiveHonest
    PROVE  HonestInv'
<1> SUFFICES ASSUME ~faulted, edits = 0 PROVE HonestInv'
    BY DEF ReceiveHonest, Receive, HonestInv
<1>1. /\ pc = "read" /\ Receive(Honest) /\ page < MaxPages
      /\ UNCHANGED <<rows, style, totals, stable, edits, faulted, garbled>>
    BY DEF ReceiveHonest, Receive, server, PagesLeft
<1>2. /\ page \in Nat /\ page + 1 > 0 /\ Len(rows) \in Nat /\ ~bare /\ metadataOk
      /\ verified = FALSE
    BY <1>1, ListedSize DEF TypeInv, WalkTypes, VerdictInv, HonestInv
<1>3. CASE style = "list"
    <2>1. page = 0 /\ declared = Missing /\ Honest.list /\ Honest.items = Listed
        BY <1>1, <1>3, HonestSays DEF HonestInv
    <2>2. ~Refuses(Honest)
        BY <2>1 DEF Refuses
    <2>3. AcceptList(Honest)
        BY <1>1, <2>1, <2>2 DEF Receive
    <2>4. /\ bare' /\ pc' = "check" /\ items' = Listed /\ declared' = Missing /\ metadataOk'
        BY <1>2, <2>1, <2>3 DEF AcceptList
    <2>5. Listed' = Listed
        BY <1>1 DEF Listed
    <2>6. QED
        BY <1>1, <1>3, <2>4, <2>5 DEF HonestInv
<1>4. CASE style # "list"
    <2>1. /\ Ahead \in Nat /\ Ahead \in 0..Len(rows) /\ count <= Ahead /\ count \in Nat
          /\ Honest.items \cap items = {} /\ items \cup Honest.items = Prefix(Ahead)
          /\ Length(Honest) = Ahead - count
        BY <1>1, <1>4, HonestRows
    <2>2. /\ Total(Honest) = IF totals THEN Len(rows) ELSE Missing
          /\ ~(IsNumber(Honest.total) /\ IsNumber(declared) /\ Honest.total # declared)
        BY <1>1, <1>4, HonestTotal
    <2>3. /\ GoesOn => NextUrl(Honest) # Nowhere /\ Due(NextUrl(Honest), page + 1, Ahead)
          /\ ~GoesOn => NextUrl(Honest) = Nowhere
          /\ NextUrl(Honest) # url
        BY <1>1, <1>4, HonestNext
    <2>4. IsClean(Honest) /\ count = page * PageSize
        BY <1>1, <1>4, HonestMetadata
    <2>5. ~Honest.list /\ ~Honest.twice /\ Honest.link # "elsewhere"
        BY <1>4 DEF Honest
    <2>6. ~Refuses(Honest)
        BY <2>1, <2>2, <2>3, <2>5 DEF Refuses
    <2>7. Accept(Honest)
        BY <1>1, <2>5, <2>6 DEF Receive
    <2>8. /\ items' = Prefix(Ahead) /\ page' = page + 1
          /\ declared' = IF totals THEN Len(rows) ELSE Missing
          /\ metadataOk' /\ verified' = FALSE
        BY <1>2, <2>1, <2>2, <2>4, <2>7 DEF Accept
    <2>9. count' = Ahead
        BY <2>1, <2>7 DEF Accept
    <2>10. Prefix(Ahead) = Prefix(count)'
        BY <1>1, <2>9 DEF Prefix
    <2>11. CASE GoesOn
        <3>1. pc' = "read" /\ url' = NextUrl(Honest)
            BY <2>3, <2>7, <2>11 DEF Accept
        <3>2. Ahead = count + PageSize /\ Ahead < Len(rows)
            BY <2>11 DEF GoesOn, Ahead
        <3>3. Ahead = (page + 1) * PageSize
            BY <1>2, <2>4, <3>2
        <3>4. Due(url', page', count')
            BY <2>3, <2>8, <2>9, <2>11, <3>1
        <3>5. Due(url, page, count)'
            BY <1>1, <3>4 DEF Due
        <3>6. QED
            BY <1>1, <1>2, <1>4, <2>1, <2>8, <2>9, <2>10, <3>1, <3>2, <3>3, <3>5 DEF HonestInv
    <2>12. CASE ~GoesOn
        <3>1. pc' = "check"
            BY <2>3, <2>7, <2>12 DEF Accept
        <3>2. totals \/ style \in {"link", "pages"} => Ahead = Len(rows)
            BY <2>12 DEF GoesOn, Ahead
        <3>3. QED
            BY <1>1, <1>2, <1>4, <2>1, <2>8, <2>9, <2>10, <3>1, <3>2 DEF HonestInv
    <2>13. QED
        BY <2>11, <2>12
<1>5. QED
    BY <1>3, <1>4

\* The verdict on a walk that is over.
LEMMA HonestCheckKept ==
    ASSUME TypeInv, VerdictInv, HonestInv, Check
    PROVE  HonestInv'
<1> SUFFICES ASSUME ~faulted, edits = 0 PROVE HonestInv'
    BY DEF Check, luck, HonestInv
<1>1. /\ pc = "check"
      /\ UNCHANGED <<rows, style, totals, url, page, items, count, declared, metadataOk, bare,
                     edits, faulted>>
      /\ UNCHANGED <<Listed, Prefix(count)>>
    BY DEF Check, server, luck, Listed, Prefix
<1>2. metadataOk /\ Len(rows) \in Nat /\ style \in Styles /\ totals \in BOOLEAN
    BY ListedSize DEF TypeInv, WalkTypes, HonestInv
<1>3. CASE style = "list"
    <2>1. declared = Missing /\ bare /\ items = Listed
        BY <1>1, <1>3 DEF HonestInv
    <2>2. pc' = "returned" /\ verified' = TRUE
        BY <2>1 DEF Check, IsNumber
    <2>3. QED
        BY <1>1, <1>2, <1>3, <2>1, <2>2 DEF HonestInv
<1>4. CASE style # "list"
    <2>1. /\ ~bare /\ page > 0 /\ declared = IF totals THEN Len(rows) ELSE Missing
          /\ count \in 0..Len(rows) /\ items = Prefix(count)
          /\ totals \/ style \in {"link", "pages"} => count = Len(rows)
        BY <1>1, <1>4 DEF HonestInv, VerdictInv
    <2>2. IsNumber(declared) <=> totals
        BY <1>2, <2>1 DEF IsNumber
    <2>3. pc' = "returned" /\ verified' = totals
        BY <1>2, <2>1, <2>2 DEF Check
    <2>4. QED
        BY <1>1, <1>2, <1>4, <2>1, <2>3 DEF HonestInv
<1>5. QED
    BY <1>3, <1>4

\* A walk runs out of pages only where the collection has more than they hold.
LEMMA HonestLimitKept ==
    ASSUME TypeInv, HonestInv, TooManyPages
    PROVE  HonestInv'
<1> SUFFICES ASSUME ~faulted, edits = 0 PROVE HonestInv'
    BY DEF TooManyPages, luck, HonestInv
<1>1. /\ pc = "read" /\ ~(page < MaxPages) /\ pc' = "raised"
      /\ UNCHANGED <<rows, style, totals, url, page, items, count, declared, metadataOk, bare,
                     verified, edits, faulted>>
      /\ UNCHANGED <<Listed, Prefix(count)>>
    BY DEF TooManyPages, PagesLeft, server, walk, luck, Listed, Prefix
<1>2. page = MaxPages /\ page > 0
    BY <1>1 DEF TypeInv, WalkTypes
<1>3. style # "list"
    BY <1>1, <1>2 DEF HonestInv
<1>4. MaxPages * PageSize < Len(rows)
    BY <1>1, <1>2, <1>3 DEF HonestInv
<1>5. QED
    BY <1>1, <1>2, <1>3, <1>4 DEF HonestInv

LEMMA HonestKept == TypeInv /\ Inv /\ HonestInv /\ [Next]_vars => HonestInv'
<1> SUFFICES ASSUME TypeInv, VerdictInv, HonestInv, [Next]_vars
             PROVE  HonestInv'
    BY DEF Inv
<1>1. CASE Change
    <2>1. edits' = edits + 1 /\ edits \in Nat
        BY <1>1 DEF Change, VerdictInv
    <2>2. QED
        BY <2>1 DEF HonestInv
<1>2. CASE ReceiveHonest
    BY <1>2, HonestPageKept
<1>3. CASE ReceiveDamaged \/ RequestFails
    BY <1>3 DEF ReceiveDamaged, RequestFails, HonestInv
<1>4. CASE TooManyPages
    BY <1>4, HonestLimitKept
<1>5. CASE Check
    BY <1>5, HonestCheckKept
<1>6. CASE UNCHANGED vars
    BY <1>6 DEF vars, server, walk, luck, HonestInv, Listed, Prefix, Due
<1>7. QED
    BY <1>1, <1>2, <1>3, <1>4, <1>5, <1>6 DEF Next, Progress

\* Over a sound server and a still collection that fits in MaxPages pages, _get
\* is never refused, follows each way of paging to its end, and certifies the
\* result exactly where a total says how much there is, or the body was a list.
THEOREM HonestReads == Spec => []HonestReadSucceeds
<1>1. Init => HonestInv
    <2> SUFFICES ASSUME Init PROVE HonestInv
        OBVIOUS
    <2>1. Len(rows) \in Nat /\ Prefix(0) = {}
        BY DEF Init, Prefix
    <2>2. QED
        BY <2>1 DEF Init, HonestInv
<1>2. TypeInv /\ HonestInv => HonestReadSucceeds
    <2> SUFFICES ASSUME TypeInv, HonestInv, ~faulted, edits = 0, Len(rows) <= MaxPages * PageSize
                 PROVE  /\ pc # "raised"
                        /\ pc = "returned" /\ (totals \/ style \in {"list", "link", "pages"})
                              => items = Listed
                        /\ pc = "returned" => (verified <=> totals \/ style = "list")
        BY DEF HonestReadSucceeds
    <2>1. Listed = Prefix(Len(rows)) /\ Len(rows) \in Nat
        BY ListedSize DEF TypeInv
    <2>2. pc # "raised"
        <3>1. MaxPages * PageSize \in Nat
            OBVIOUS
        <3>2. QED
            BY <2>1, <3>1 DEF HonestInv
    <2>3. ASSUME pc = "returned", totals \/ style \in {"list", "link", "pages"}
          PROVE  items = Listed
        <3>1. CASE style = "list"
            BY <2>3, <3>1 DEF HonestInv
        <3>2. CASE style # "list"
            <4>1. count = Len(rows) /\ items = Prefix(count)
                BY <2>3, <3>2 DEF HonestInv
            <4>2. QED
                BY <2>1, <4>1
        <3>3. QED
            BY <3>1, <3>2
    <2>4. pc = "returned" => (verified <=> totals \/ style = "list")
        BY DEF HonestInv
    <2>5. QED
        BY <2>2, <2>3, <2>4
<1>3. QED
    BY <1>1, <1>2, HonestKept, TypesFromTheStart, SpecInv, PTL DEF Spec

=============================================================================
