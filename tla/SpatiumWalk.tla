---------------------------- MODULE SpatiumWalk -----------------------------
(***************************************************************************)
(* SpatiumProvider._get: one walk over the pages of a collection in the    *)
(* source of truth, and the verdict that authorizes deletions from it.     *)
(* The server pages in any of the ways _next_url knows, serves damaged     *)
(* bodies at any point, and its collection can change between two pages.   *)
(***************************************************************************)
EXTENDS Naturals, Sequences, FiniteSets

CONSTANTS
    Row,            \* the items a collection can hold; no two are equal
    PageSize,       \* the server's page size
    MaxPages,       \* _MAX_PAGES
    MaxEdits,       \* bound on changes of the collection during the walk
    Missing,        \* a metadata field the body does not have
    Malformed,      \* one that is not a canonical non-negative integer
    Nowhere         \* no further page

Field == Nat \cup {Missing, Malformed}

ASSUME WalkAssumption ==
    /\ IsFiniteSet(Row)
    /\ PageSize \in Nat \ {0} /\ MaxPages \in Nat \ {0} /\ MaxEdits \in Nat
    /\ Missing \notin Nat /\ Malformed \notin Nat /\ Missing # Malformed
    /\ Nowhere \notin [page : Field, offset : Field, limit : Field]

VARIABLES
    rows,           \* the collection, in the server's order
    style, totals,  \* how the server pages, and whether it declares a total
    pc, url, page,  \* where the walk is, the next request, pages read
    items, count,   \* the items read, and how many rows they came in
    declared,       \* declared_total
    metadataOk,     \* no recognized field has been malformed
    bare,           \* the whole body was a bare list
    verified,       \* the second half of _get's result
    stable,         \* rows that have been there since the walk began
    edits,          \* changes of the collection
    faulted,        \* whether a body was damaged or a request failed
    garbled         \* whether a body carried malformed metadata

server == <<rows, style, totals>>
walk == <<url, page, items, count, declared, metadataOk, bare, verified>>
luck == <<edits, faulted, garbled>>
vars == <<server, pc, walk, stable, luck>>

IsNumber(x) == x \notin {Missing, Malformed}
Given(x, default) == IF IsNumber(x) THEN x ELSE default

Styles == {"list", "page", "pages", "offset", "link"}
Url == [page : Field, offset : Field, limit : Field]
FirstUrl == [page |-> Missing, offset |-> Missing, limit |-> Missing]
Listed == {rows[i] : i \in DOMAIN rows}

TypeOK ==
    /\ rows \in Seq(Row) /\ style \in Styles /\ totals \in BOOLEAN
    /\ pc \in {"read", "check", "returned", "raised"}
    /\ url \in Url /\ page \in 0..MaxPages
    /\ items \subseteq Row /\ count \in Nat
    /\ declared \in Nat \cup {Missing}
    /\ metadataOk \in BOOLEAN /\ bare \in BOOLEAN /\ verified \in BOOLEAN
    /\ stable \subseteq Row
    /\ edits \in 0..MaxEdits /\ faulted \in BOOLEAN /\ garbled \in BOOLEAN

Init ==
    /\ rows \in Seq(Row) /\ \A i, j \in DOMAIN rows : rows[i] = rows[j] => i = j
    /\ style \in Styles /\ totals \in BOOLEAN
    /\ pc = "read" /\ url = FirstUrl /\ page = 0
    /\ items = {} /\ count = 0 /\ declared = Missing /\ metadataOk = TRUE /\ bare = FALSE
    /\ verified = FALSE
    /\ stable = Listed /\ edits = 0 /\ faulted = FALSE /\ garbled = FALSE

-----------------------------------------------------------------------------
(* The server *)

Start == IF style \in {"offset", "link"} THEN Given(url.offset, 0)
         ELSE (Given(url.page, 1) - 1) * Given(url.limit, PageSize)
Width == Given(url.limit, PageSize)
Window == {rows[i] : i \in {j \in DOMAIN rows : Start < j /\ j <= Start + Width}}

Honest ==
    [list |-> style = "list",
     items |-> IF style = "list" THEN Listed ELSE Window,
     twice |-> FALSE,
     total |-> IF totals THEN Cardinality(Listed) ELSE Missing,
     pages |-> IF style = "pages" THEN (Len(rows) + PageSize - 1) \div PageSize ELSE Missing,
     page |-> IF style \in {"page", "pages"} THEN Given(url.page, 1) ELSE Missing,
     size |-> IF style = "link" THEN Missing ELSE Width,
     offset |-> IF style = "offset" THEN Start ELSE Missing,
     link |-> IF style # "link" THEN "none"
              ELSE IF Start + Width < Len(rows) THEN "more" ELSE "null"]

\* An envelope with other rows, a row twice, a field lost or malformed, a link
\* that leads nowhere, away or round in a ring of empty pages, or that arrives
\* unwrapped after the first page; and once metadata has been malformed, a
\* total that fits whatever was served.  A list is the collection itself
\* (spatium.py:34-37), and comes undamaged.
Damaged ==
    {[Honest EXCEPT !.items = s] : s \in {t \in SUBSET Listed : Cardinality(t) <= PageSize}}
    \cup {[Honest EXCEPT !.twice = TRUE]}
    \cup {[Honest EXCEPT ![f] = x] :
            f \in {"total", "pages", "page", "size", "offset"}, x \in {Missing, Malformed}}
    \cup {[Honest EXCEPT !.link = l] : l \in {"self", "elsewhere"}}
    \cup {[Honest EXCEPT !.items = {}, !.link = l] : l \in {"more", "first"}}
    \cup (IF garbled THEN {[Honest EXCEPT !.items = {}, !.total = count]} ELSE {})
    \cup (IF page > 0 THEN {[Honest EXCEPT !.list = TRUE]} ELSE {})

InsertAt(i, r) == [j \in 1..(Len(rows) + 1) |-> IF j < i THEN rows[j] ELSE IF j = i THEN r ELSE rows[j - 1]]
RemoveAt(i) == [j \in 1..(Len(rows) - 1) |-> IF j < i THEN rows[j] ELSE rows[j + 1]]

\* Somebody adds a record to SpatiumDDI, or removes one, between two pages.
Change ==
    /\ pc = "read" /\ edits < MaxEdits
    /\ edits' = edits + 1
    /\ \/ \E i \in 1..(Len(rows) + 1), r \in Row \ Listed :
            rows' = InsertAt(i, r) /\ stable' = stable
       \/ \E i \in DOMAIN rows :
            rows' = RemoveAt(i) /\ stable' = stable \ {rows[i]}
    /\ UNCHANGED <<style, totals, pc, walk, faulted, garbled>>

-----------------------------------------------------------------------------
(* _next_url *)

Total(body) == IF IsNumber(declared) THEN declared ELSE Given(body.total, Missing)
Length(body) == Cardinality(body.items) + (IF body.twice THEN 1 ELSE 0)
MoreToRead(body) ==
    /\ IsNumber(Total(body)) /\ Length(body) > 0
    /\ count + Length(body) < Total(body)

LinkTarget(body) ==
    CASE body.link = "more" -> [FirstUrl EXCEPT !.offset = Start + Width]
      [] body.link = "first" -> [FirstUrl EXCEPT !.offset = 0]
      [] body.link = "self" -> url
      [] OTHER -> Nowhere

PageTarget(body, number) ==
    [url EXCEPT !.page = number + 1, !.limit = Given(body.size, url.limit)]

CountedTarget(body) ==
    IF Given(body.page, page + 1) >= body.pages THEN Nowhere
    ELSE [url EXCEPT !.page = Given(body.page, page + 1) + 1]

OffsetTarget(body) ==
    [url EXCEPT !.offset = Given(body.offset, count) + Length(body),
                !.limit = Given(body.size, Length(body))]

\* Variant: offsets are not known.
NextUrlWithoutOffset(body) ==
    CASE body.link # "none" -> LinkTarget(body)
      [] body.link = "none" /\ IsNumber(body.pages) -> CountedTarget(body)
      [] OTHER -> IF IsNumber(body.page) /\ MoreToRead(body)
                  THEN PageTarget(body, body.page) ELSE Nowhere

\* A link decides, then a page count, then a page number, then an offset.
NextUrl(body) ==
    CASE body.link # "none" -> LinkTarget(body)
      [] body.link = "none" /\ IsNumber(body.pages) -> CountedTarget(body)
      [] OTHER -> IF ~MoreToRead(body) THEN Nowhere
                  ELSE IF IsNumber(body.page) THEN PageTarget(body, body.page)
                  ELSE OffsetTarget(body)

IsClean(body) ==
    Malformed \notin {body.total, body.pages, body.page, body.size, body.offset}

-----------------------------------------------------------------------------
(* _get *)

\* Variant: the pages may overlap.
RefusesButOverlaps(body) ==
    \/ body.list /\ page > 0
    \/ ~body.list /\ IsNumber(body.total) /\ IsNumber(declared) /\ body.total # declared
    \/ ~body.list /\ body.link = "elsewhere"
    \/ ~body.list /\ NextUrl(body) = url

\* An unwrapped page, an item seen before, a total that changed, a link that
\* leaves base_url, or one to the URL just read.
Refuses(body) ==
    \/ body.list /\ page > 0
    \/ ~body.list /\ (body.twice \/ body.items \cap items # {})
    \/ ~body.list /\ IsNumber(body.total) /\ IsNumber(declared) /\ body.total # declared
    \/ ~body.list /\ body.link = "elsewhere"
    \/ ~body.list /\ NextUrl(body) = url

\* Variant: only pages that bring something are counted.
AcceptCountingFullPages(body) ==
    /\ items' = items \cup body.items /\ count' = count + Length(body)
    /\ page' = IF body.items = {} THEN page ELSE page + 1
    /\ declared' = Total(body)
    /\ metadataOk' = (metadataOk /\ IsClean(body))
    /\ pc' = IF NextUrl(body) = Nowhere THEN "check" ELSE "read"
    /\ url' = IF NextUrl(body) = Nowhere THEN url ELSE NextUrl(body)
    /\ UNCHANGED <<bare, verified>>

\* Variant: each page's metadata replaces the verdict on the last one's.
AcceptForgetfully(body) ==
    /\ items' = items \cup body.items /\ count' = count + Length(body)
    /\ page' = page + 1
    /\ declared' = Total(body)
    /\ metadataOk' = IsClean(body)
    /\ pc' = IF NextUrl(body) = Nowhere THEN "check" ELSE "read"
    /\ url' = IF NextUrl(body) = Nowhere THEN url ELSE NextUrl(body)
    /\ UNCHANGED <<bare, verified>>

\* An envelope is taken in, and the walk goes on or is over.
Accept(body) ==
    /\ items' = items \cup body.items /\ count' = count + Length(body)
    /\ page' = page + 1
    /\ declared' = Total(body)
    /\ metadataOk' = (metadataOk /\ IsClean(body))
    /\ pc' = IF NextUrl(body) = Nowhere THEN "check" ELSE "read"
    /\ url' = IF NextUrl(body) = Nowhere THEN url ELSE NextUrl(body)
    /\ UNCHANGED <<bare, verified>>

AcceptList(body) ==
    /\ items' = body.items /\ count' = Length(body)
    /\ bare' = TRUE /\ page' = page + 1
    /\ pc' = "check"
    /\ UNCHANGED <<url, declared, metadataOk, verified>>

\* Variant: one page too many.
PagesLeftPlusOne == page <= MaxPages

PagesLeft == page < MaxPages

Receive(body) ==
    /\ pc = "read" /\ PagesLeft
    /\ \/ Refuses(body) /\ pc' = "raised" /\ UNCHANGED walk
       \/ ~Refuses(body) /\ ~body.list /\ Accept(body)
       \/ ~Refuses(body) /\ body.list /\ AcceptList(body)
    /\ UNCHANGED <<server, stable, edits>>

ReceiveHonest == Receive(Honest) /\ UNCHANGED <<faulted, garbled>>
ReceiveDamaged ==
    /\ style # "list"
    /\ \E body \in Damaged : Receive(body) /\ garbled' = (garbled \/ ~IsClean(body))
    /\ faulted' = TRUE

TooManyPages ==
    /\ pc = "read" /\ ~PagesLeft
    /\ pc' = "raised"
    /\ UNCHANGED <<server, walk, stable, luck>>

RequestFails ==
    /\ pc = "read" /\ PagesLeft
    /\ pc' = "raised" /\ faulted' = TRUE
    /\ UNCHANGED <<server, walk, stable, edits, garbled>>

\* Variant: clean metadata is enough, with no total to check it against.
CheckWithoutTotal ==
    /\ pc = "check"
    /\ IF IsNumber(declared) /\ count # declared
       THEN pc' = "raised" /\ UNCHANGED verified
       ELSE pc' = "returned" /\ verified' = (bare \/ metadataOk)
    /\ UNCHANGED <<server, url, page, items, count, declared, metadataOk, bare, stable, luck>>

\* A short read is an error; the rest is returned with its verdict.
Check ==
    /\ pc = "check"
    /\ IF IsNumber(declared) /\ count # declared
       THEN pc' = "raised" /\ UNCHANGED verified
       ELSE pc' = "returned" /\ verified' = (bare \/ (IsNumber(declared) /\ metadataOk))
    /\ UNCHANGED <<server, url, page, items, count, declared, metadataOk, bare, stable, luck>>

Progress == ReceiveHonest \/ ReceiveDamaged \/ TooManyPages \/ Check

Next == Progress \/ RequestFails \/ Change

Spec == Init /\ [][Next]_vars
FairSpec == Spec /\ WF_vars(Progress)

-----------------------------------------------------------------------------
(* Properties *)

Certified == pc = "returned" /\ verified

\* What read_verified claims (spatium.py:20-33): over a collection that stands
\* still, a read that was certified holds every row, whatever pages the server
\* dropped, repeated, cut short or garbled on the way.
CertifiedMeansWhole == Certified /\ edits = 0 => items = Listed

\* "The collection is being modified under the walk" (spatium.py:421-427): one
\* row added or removed during the walk of a sound server never costs a
\* certified read a row that was there all along.  A row that is edited in
\* place, and for that moves to another page, comes and goes: two changes.
OneChangeIsNoticed == Certified /\ edits <= 1 /\ ~faulted => stable \subseteq items

\* Each way of paging is followed to its end: over a sound server and a still
\* collection, _get returns the whole of it, and certifies it when a total says
\* so (and a list always).
HonestReadSucceeds ==
    ~faulted /\ edits = 0 /\ Len(rows) <= MaxPages * PageSize =>
        /\ pc # "raised"
        /\ pc = "returned" /\ (totals \/ style \in {"list", "link", "pages"}) => items = Listed
        /\ pc = "returned" => (verified <=> totals \/ style = "list")

\* Malformation latches (CR-02, spatium.py:357-361): no later page restores what
\* a malformed field on any page has forfeited.
GarbledIsNeverCertified == Certified => ~garbled

\* A walk ends in a result or an error, whatever the server says, a ring of
\* links included (spatium.py:375-378).
WalkEnds == <>(pc \in {"returned", "raised"})

\* The claim without its limits: "this adapter has to answer 'was that read
\* whole?' and is not allowed to answer 'probably'" (spatium.py:24-25).
CertifiedHasEveryStableRow == Certified /\ ~faulted => stable \subseteq items

=============================================================================
