------------------------ MODULE CloudflareEdge_proofs ------------------------
(***************************************************************************)
(* What CloudflareEdge guarantees for every zone, truth, order of records  *)
(* and number of disturbances: types, no record touched but the managed    *)
(* and those renamed meanwhile, TTLs vetted before the first request, no   *)
(* name under-served, and two statements about a run nobody disturbs.      *)
(***************************************************************************)
EXTENDS CloudflareEdge, PlanEdge_proofs, FiniteSetTheorems

-----------------------------------------------------------------------------
(* Least and greatest numbers, and sizes *)

\* Among the elements of S up to a given one, take fewest: they end in a least.
LEMMA LeastNatural ==
    ASSUME NEW S \in SUBSET Nat, S # {}
    PROVE  \E x \in S : \A y \in S : x <= y
<1> DEFINE Below(s) == S \cap (0..s)
           C == {Below(s) : s \in S}
<1>1. C \subseteq FiniteSubsetsOf(S)
  <2> SUFFICES ASSUME NEW s \in S
               PROVE  Below(s) \in FiniteSubsetsOf(S)
    OBVIOUS
  <2>1. IsFiniteSet(0..s)
    BY FS_Interval
  <2>2. IsFiniteSet(Below(s))
    BY <2>1, FS_Subset
  <2> QED BY <2>2 DEF FiniteSubsetsOf
<1>2. C # {}
  OBVIOUS
<1>3. PICK T \in C : \A U \in C : <<U, T>> \notin StrictSubsetOrdering(S)
  BY <1>1, <1>2, FS_StrictSubsetOrderingWellFounded, WFMin
<1>4. PICK x \in S : T = Below(x)
  OBVIOUS
<1>5. ASSUME NEW y \in S
      PROVE  x <= y
  <2> SUFFICES ASSUME y < x
               PROVE  FALSE
    OBVIOUS
  <2>1. Below(y) \in C /\ Below(y) \subseteq Below(x) /\ x \in Below(x) /\ x \notin Below(y)
    OBVIOUS
  <2>2. <<Below(y), Below(x)>> \in StrictSubsetOrdering(S)
    BY <2>1 DEF StrictSubsetOrdering
  <2> QED BY <1>3, <1>4, <2>1, <2>2
<1> QED BY <1>5

\* Min and Max return what their names say.
LEMMA MinOf ==
    ASSUME NEW S \in SUBSET Nat, S # {}
    PROVE  Min(S) \in S /\ \A y \in S : Min(S) <= y
BY LeastNatural DEF Min

LEMMA MaxOf ==
    ASSUME NEW S \in SUBSET Nat, S # {}, NEW m \in Nat, \A y \in S : y <= m
    PROVE  Max(S) \in S /\ \A y \in S : y <= Max(S)
<1> DEFINE D == {m - y : y \in S}
<1>1. D # {} /\ D \in SUBSET Nat
  <2>1. D # {}
    OBVIOUS
  <2>2. \A y \in S : m - y \in Nat
    OBVIOUS
  <2> QED BY <2>1, <2>2
<1>2. PICK d \in D : \A e \in D : d <= e
  BY <1>1, LeastNatural
<1>3. PICK x \in S : d = m - x
  OBVIOUS
<1>4. \A y \in S : x >= y
  <2> TAKE y \in S
  <2>1. m - y \in D
    OBVIOUS
  <2> QED BY <1>2, <1>3, <2>1
<1> QED BY <1>3, <1>4 DEF Max

\* Distinct elements give a set more than one of them.
LEMMA TwoElements ==
    ASSUME NEW S, IsFiniteSet(S), NEW x \in S, NEW y \in S, x # y
    PROVE  Cardinality(S) > 1
<1>1. IsFiniteSet({x}) /\ Cardinality({x}) = 1
  BY FS_Singleton
<1>2. IsFiniteSet({x, y}) /\ Cardinality({x, y}) = 2
  <2>1. {x} \cup {y} = {x, y} /\ y \notin {x}
    OBVIOUS
  <2>2. IsFiniteSet({x} \cup {y}) /\ Cardinality({x} \cup {y}) = Cardinality({x}) + 1
    BY <1>1, <2>1, FS_AddElement
  <2> QED BY <1>1, <2>1, <2>2
<1>3. {x, y} \in SUBSET S
  OBVIOUS
<1>4. 2 <= Cardinality(S) /\ Cardinality(S) \in Nat
  BY <1>2, <1>3, FS_Subset, FS_CardinalityType
<1> QED BY <1>4

\* The image of a finite set under a function is finite.
LEMMA FiniteImage ==
    ASSUME NEW S, IsFiniteSet(S), NEW f, f = [x \in S |-> f[x]]
    PROVE  /\ IsFiniteSet({f[x] : x \in S})
           /\ Cardinality({f[x] : x \in S}) <= Cardinality(S)
<1> DEFINE T == {f[x] : x \in S}
<1>1. f \in Surjection(S, T)
  BY DEF Surjection
<1> HIDE DEF T
<1>2. IsFiniteSet(T) /\ Cardinality(T) <= Cardinality(S)
  BY <1>1, FS_Surjection
<1> QED BY <1>2 DEF T

-----------------------------------------------------------------------------
(* Records and record sets *)

USE PlanAssumption, CloudflareAssumption

\* A key shows no record exactly when no API record has it, and what it shows
\* is a well-formed value.
LEMMA RecordShown ==
    ASSUME NEW raws \in SUBSET Raw, NEW k
    PROVE  /\ RecordOf(raws, k) \in Content
           /\ RecordOf(raws, k) = Absent <=> At(raws, k) = {}
           /\ At(raws, k) # {} =>
                RecordOf(raws, k) = [vals |-> ValuesOf(raws, k), ttl |-> Min(TtlsOf(raws, k))]
<1>1. CASE At(raws, k) = {}
  BY <1>1 DEF RecordOf, Content
<1>2. CASE At(raws, k) # {}
  <2>1. At(raws, k) \subseteq Raw
    BY DEF At
  <2>2. ValuesOf(raws, k) \in (SUBSET Val) \ {{}}
    BY <1>2, <2>1 DEF ValuesOf, Raw
  <2>3. TtlsOf(raws, k) \in SUBSET Ttl /\ TtlsOf(raws, k) # {}
    BY <1>2, <2>1 DEF TtlsOf, Raw
  <2>4. Min(TtlsOf(raws, k)) \in Ttl
    BY <2>3, MinOf
  <2> QED BY <1>2, <2>2, <2>4 DEF RecordOf, Content
<1> QED BY <1>1, <1>2

\* Where the TTLs are not split, every record has the one that is shown.
LEMMA OneTtl ==
    ASSUME NEW raws \in SUBSET Raw, IsFiniteSet(raws), NEW k \in Key, k \notin SplitTtl(raws),
           NEW r \in At(raws, k)
    PROVE  r.ttl = Min(TtlsOf(raws, k))
<1>1. At(raws, k) \subseteq raws
  BY DEF At
<1>2. IsFiniteSet(At(raws, k))
  BY <1>1, FS_Subset
<1> DEFINE f == [s \in At(raws, k) |-> s.ttl]
<1>3. f = [s \in At(raws, k) |-> f[s]] /\ {f[s] : s \in At(raws, k)} = TtlsOf(raws, k)
  BY DEF TtlsOf
<1> HIDE DEF f
<1>4. IsFiniteSet({f[s] : s \in At(raws, k)})
  BY <1>2, <1>3, FiniteImage
<1>5. TtlsOf(raws, k) \in SUBSET Ttl /\ r.ttl \in TtlsOf(raws, k)
  BY <1>1 DEF TtlsOf, Raw
<1>6. Min(TtlsOf(raws, k)) \in TtlsOf(raws, k)
  BY <1>5, MinOf
<1>7. IsFiniteSet(TtlsOf(raws, k)) /\ ~(Cardinality(TtlsOf(raws, k)) > 1)
  BY <1>3, <1>4, Zenon DEF SplitTtl
<1> QED BY <1>5, <1>6, <1>7, TwoElements

\* The index of a record set holds a record for each of its values, and the
\* only one where contents have one spelling.
LEMMA IndexHolds ==
    ASSUME NEW raws \in SUBSET Raw, NEW k, NEW v \in ValuesOf(raws, k)
    PROVE  Indexed(raws, k, v) \in At(raws, k) /\ Indexed(raws, k, v).val = v
<1> DEFINE Same == {r \in At(raws, k) : r.val = v}
           Forms == {r.spelling : r \in Same}
<1>1. Same # {} /\ Same \subseteq Raw
  BY DEF ValuesOf, At
<1>2. Forms \in SUBSET Spelling /\ Forms # {}
  BY <1>1 DEF Raw
<1>3. PICK m \in Spelling : \A s \in Spelling : s <= m
  OBVIOUS
<1>4. Max(Forms) \in Forms /\ \A s \in Forms : s <= Max(Forms)
  BY <1>2, <1>3, MaxOf
<1>5. PICK r \in Same : r.spelling = Max(Forms)
  BY <1>4
<1>6. r \in At(raws, k) /\ r.val = v /\ \A s \in At(raws, k) : s.val = v => s.spelling <= r.spelling
  BY <1>4, <1>5
<1> QED BY <1>6 DEF Indexed

\* A new id addresses no record of the zone, and none the run has fetched.
LEMMA FreshId ==
    ASSUME zone \subseteq Raw, fetched \subseteq Raw, IsFiniteSet(zone), IsFiniteSet(fetched)
    PROVE  NewId \in Nat \ {0} /\ \A r \in zone \cup fetched : r.id # NewId
<1> DEFINE held == zone \cup fetched
           f == [r \in held |-> r.id]
<1>1. IsFiniteSet(held)
  BY FS_Union
<1>2. f = [r \in held |-> f[r]] /\ {f[r] : r \in held} = Ids
  BY DEF Ids
<1> HIDE DEF f, held
<1>3. IsFiniteSet(Ids)
  BY <1>1, <1>2, FiniteImage
<1> DEFINE n == Cardinality(Ids)
<1>4. n \in Nat
  BY <1>3, FS_CardinalityType
<1>5. ~(1..(n + 1) \subseteq Ids)
  <2> SUFFICES ASSUME 1..(n + 1) \subseteq Ids
               PROVE  FALSE
    OBVIOUS
  <2> HIDE DEF n
  <2>1. Cardinality(1..(n + 1)) = n + 1
    BY <1>4, FS_Interval
  <2>2. Cardinality(1..(n + 1)) <= Cardinality(Ids)
    BY <1>3, FS_Subset
  <2> QED BY <1>4, <2>1, <2>2 DEF n
<1>6. \E i \in 1..(n + 1) : i \notin Ids
  BY <1>5
<1>7. NewId \in 1..(n + 1) /\ NewId \notin Ids
  BY <1>6 DEF NewId
<1>8. NewId \in Nat \ {0}
  <2> HIDE DEF n
  <2> QED BY <1>4, <1>7
<1> QED BY <1>7, <1>8 DEF Ids

\* The zone is one Cloudflare would accept record by record; an id keeps
\* addressing records of one key.
Accepted(raws) == \A r \in raws : Accepts(raws \ {r}, r)
UniqueIds(raws) == \A r, s \in raws : r.id = s.id => r = s

LEMMA ClashIsMutual == \A j, k : Clash(j, k) <=> Clash(k, j)
BY DEF Clash

LEMMA AcceptsFewer ==
    ASSUME NEW raws, NEW S \in SUBSET raws, NEW r, Accepts(raws, r)
    PROVE  Accepts(S, r)
BY DEF Accepts, At

LEMMA FewerAccepted ==
    ASSUME NEW raws, NEW S \in SUBSET raws, Accepted(raws)
    PROVE  Accepted(S)
<1> SUFFICES ASSUME NEW r \in S
             PROVE  Accepts(S \ {r}, r)
  BY DEF Accepted
<1>1. Accepts(raws \ {r}, r) /\ S \ {r} \in SUBSET (raws \ {r})
  BY DEF Accepted
<1> QED BY <1>1, AcceptsFewer

\* A zone stays accepted when a record it accepts is added.
LEMMA OneMoreAccepted ==
    ASSUME NEW raws, NEW r, Accepted(raws), Accepts(raws, r)
    PROVE  Accepted(raws \cup {r})
<1> SUFFICES ASSUME NEW t \in raws \cup {r}
             PROVE  Accepts((raws \cup {r}) \ {t}, t)
  BY DEF Accepted
<1>1. CASE t = r
  <2>1. (raws \cup {r}) \ {t} \in SUBSET raws
    BY <1>1
  <2> QED BY <1>1, <2>1, AcceptsFewer
<1>2. CASE t # r
  <2>1. t \in raws /\ Accepts(raws \ {t}, t)
    BY <1>2 DEF Accepted
  <2>2. ~(r.key = t.key /\ r.val = t.val /\ r.spelling = t.spelling)
    BY <2>1 DEF Accepts
  <2>3. t.key \in CnameKey => r.key # t.key
    BY <2>1 DEF Accepts, At
  <2>4. ~Clash(r.key, t.key)
    BY <2>1, ClashIsMutual DEF Accepts
  <2> QED BY <1>2, <2>1, <2>2, <2>3, <2>4 DEF Accepts, At
<1> QED BY <1>1, <1>2

-----------------------------------------------------------------------------
(* The plan and its requests *)

\* What a fetch returned is a reading in the sense of PlanEdge.
LEMMA FetchedIsReading == fetched \subseteq Raw => Fetched \in Reading
<1> SUFFICES ASSUME fetched \subseteq Raw
             PROVE  Fetched \in Reading
  OBVIOUS
<1>1. \A k \in Key : RecordOf(fetched, k) \in Content
  BY RecordShown
<1>2. SplitTtl(fetched) \cup Proxied(fetched) \subseteq Key
  BY DEF SplitTtl, Proxied, Raw
<1> QED BY <1>1, <1>2 DEF Fetched, Reading

\* The plan in hand is the one that was accepted.
PlanHolds == diff = PlannedDiff(args, Fetched) /\ ~PlanRefuses(args, Fetched)

Wanted(k) == IF args.record[k] = Absent THEN {} ELSE args.record[k].vals

\* What an accepted plan says of the keys it touches.
LEMMA PlannedKeys ==
    ASSUME TypeOK, PlanHolds
    PROVE  /\ diff.add \cup diff.update \subseteq Desired(args)
           /\ diff.delete \subseteq Managed \ Desired(args)
           /\ \A k \in diff.add : At(fetched, k) = {}
           /\ \A k \in diff.update \cup diff.delete : At(fetched, k) # {}
<1>1. Fetched \in Reading /\ args \in Args /\ diff \in Diff
  BY FetchedIsReading DEF TypeOK
<1>2. \A k \in Key : Fetched.actual[k] = Absent <=> At(fetched, k) = {}
  BY RecordShown DEF TypeOK, Fetched
<1> QED BY <1>1, <1>2, PlanSawTheZone DEF PlanHolds, Diff, Desired

\* Truth's record at a key it carries has values of the model and a TTL.
LEMMA WantedAt ==
    ASSUME TypeOK, NEW k \in Desired(args)
    PROVE  /\ args.record[k].vals \subseteq Val /\ args.record[k].vals # {}
           /\ args.record[k].ttl \in Ttl
           /\ Wanted(k) = args.record[k].vals
           /\ args.record[k] = [vals |-> args.record[k].vals, ttl |-> args.record[k].ttl]
<1>1. args.record[k] \in Value
  BY DEF TypeOK, Args, Desired, Content
<1> QED BY <1>1 DEF Wanted, Desired

\* Which requests a diff becomes, one disjunct for each place in apply.
LEMMA RequestCases ==
    ASSUME NEW q \in Requests
    PROVE  \/ \E k \in diff.add : \E v \in args.record[k].vals : q = Post(Turn(0, k, 0), k, v)
           \/ \E k \in diff.update :
                /\ ~(k \in CnameKey /\ args.record[k].vals # ValuesOf(fetched, k))
                /\ \/ \E v \in args.record[k].vals \ ValuesOf(fetched, k) :
                         q = Post(Turn(Pass(k), k, 0), k, v)
                   \/ \E v \in ValuesOf(fetched, k) \ args.record[k].vals :
                         q = Remove(Turn(Pass(k), k, 1), Indexed(fetched, k, v))
                   \/ \E v \in args.record[k].vals \cap ValuesOf(fetched, k) :
                         q = Patch(Turn(Pass(k), k, 2), Indexed(fetched, k, v))
           \/ \E k \in diff.update :
                /\ k \in CnameKey /\ args.record[k].vals # ValuesOf(fetched, k)
                /\ \E v \in ValuesOf(fetched, k), w \in args.record[k].vals :
                      q = Retarget(Turn(Pass(k), k, 0), Indexed(fetched, k, v), w)
           \/ \E k \in diff.delete : \E r \in At(fetched, k) : q = Remove(Turn(3, k, 0), r)
<1>1. CASE \E k \in diff.add : q \in AddRequests(k)
  BY <1>1 DEF AddRequests
<1>2. CASE \E k \in diff.delete : q \in DeleteRequests(k)
  BY <1>2 DEF DeleteRequests
<1>3. CASE \E k \in diff.update : q \in UpdateRequests(k)
  <2>1. PICK k \in diff.update : q \in UpdateRequests(k)
    BY <1>3
  <2>2. CASE k \in CnameKey /\ args.record[k].vals # ValuesOf(fetched, k)
    <3>1. \E v \in ValuesOf(fetched, k), w \in args.record[k].vals :
            q = Retarget(Turn(Pass(k), k, 0), Indexed(fetched, k, v), w)
      BY <2>1, <2>2 DEF UpdateRequests
    <3> QED BY <2>2, <3>1
  <2>3. CASE ~(k \in CnameKey /\ args.record[k].vals # ValuesOf(fetched, k))
    <3>1. \/ \E v \in args.record[k].vals \ ValuesOf(fetched, k) : q = Post(Turn(Pass(k), k, 0), k, v)
          \/ \E v \in ValuesOf(fetched, k) \ args.record[k].vals :
                q = Remove(Turn(Pass(k), k, 1), Indexed(fetched, k, v))
          \/ \E v \in args.record[k].vals \cap ValuesOf(fetched, k) :
                q = Patch(Turn(Pass(k), k, 2), Indexed(fetched, k, v))
      BY <2>1, <2>3 DEF UpdateRequests
    <3> QED BY <2>3, <3>1
  <2> QED BY <2>2, <2>3
<1>4. \/ \E k \in diff.add : q \in AddRequests(k)
      \/ \E k \in diff.update : q \in UpdateRequests(k)
      \/ \E k \in diff.delete : q \in DeleteRequests(k)
  <2>1. \/ q \in UNION {AddRequests(k) : k \in diff.add}
        \/ q \in UNION {UpdateRequests(k) : k \in diff.update}
        \/ q \in UNION {DeleteRequests(k) : k \in diff.delete}
    BY DEF Requests
  <2>2. CASE q \in UNION {AddRequests(k) : k \in diff.add}
    BY <2>2
  <2>3. CASE q \in UNION {UpdateRequests(k) : k \in diff.update}
    BY <2>3
  <2>4. CASE q \in UNION {DeleteRequests(k) : k \in diff.delete}
    BY <2>4
  <2> QED BY <2>1, <2>2, <2>3, <2>4
<1> QED BY <1>1, <1>2, <1>3, <1>4

\* A request is for a managed key.  One that creates or rewrites a value brings
\* what truth wants there; one that addresses a record addresses a fetched one
\* of its key, and deletes or retargets it only if its value is not wanted.
RequestOK(q) ==
    /\ q.op \in {"POST", "RETARGET", "PATCH", "DELETE"}
    /\ q.key \in Managed /\ q.val \in Val
    /\ q.op # "DELETE" =>
        /\ q.key \in diff.add \cup diff.update
        /\ q.ttl = args.record[q.key].ttl /\ q.val \in Wanted(q.key)
    /\ q.op = "POST" => q.id = 0 /\ q.val \notin ValuesOf(fetched, q.key)
                        /\ (q.key \in CnameKey => q.key \in diff.add)
    /\ q.op # "POST" => \E s \in fetched :
        /\ s.id = q.id /\ s.key = q.key
        /\ q.op = "PATCH" => s.val = q.val
        /\ q.op \in {"DELETE", "RETARGET"} => s.val \notin Wanted(q.key)
    /\ q.op = "RETARGET" => q.key \in CnameKey

LEMMA RequestFacts ==
    ASSUME TypeOK, Accepted(fetched), SingleTargets(args), PlanHolds, NEW q \in Requests
    PROVE  RequestOK(q)
<1> USE DEF TypeOK
<1>1. CASE \E k \in diff.add : \E v \in args.record[k].vals : q = Post(Turn(0, k, 0), k, v)
  <2>1. PICK k \in diff.add : \E v \in args.record[k].vals : q = Post(Turn(0, k, 0), k, v)
    BY <1>1
  <2>2. PICK v \in args.record[k].vals : q = Post(Turn(0, k, 0), k, v)
    BY <2>1
  <2>3. /\ q.op = "POST" /\ q.key = k /\ q.val = v /\ q.id = 0 /\ q.ttl = args.record[k].ttl
    BY <2>2 DEF Post
  <2>4. k \in Desired(args) /\ At(fetched, k) = {}
    BY PlannedKeys
  <2>5. k \in Managed /\ v \in Val /\ v \in Wanted(k) /\ v \notin ValuesOf(fetched, k)
    BY <2>4, WantedAt DEF ValuesOf, Desired
  <2> QED BY <2>3, <2>5 DEF RequestOK
<1>2. CASE \E k \in diff.delete : \E r \in At(fetched, k) : q = Remove(Turn(3, k, 0), r)
  <2>1. PICK k \in diff.delete : \E r \in At(fetched, k) : q = Remove(Turn(3, k, 0), r)
    BY <1>2
  <2>2. PICK r \in At(fetched, k) : q = Remove(Turn(3, k, 0), r)
    BY <2>1
  <2>3. r \in fetched /\ r.key = k /\ r.val \in Val
    BY DEF At, Raw
  <2>4. q.op = "DELETE" /\ q.key = k /\ q.val = r.val /\ q.id = r.id
    BY <2>2, <2>3 DEF Remove
  <2>5. k \in Managed /\ Wanted(k) = {}
    BY PlannedKeys DEF Desired, Wanted
  <2> QED BY <2>3, <2>4, <2>5 DEF RequestOK
<1>3. ASSUME NEW k \in diff.update, NEW v \in ValuesOf(fetched, k)
      PROVE  /\ Indexed(fetched, k, v) \in fetched
             /\ Indexed(fetched, k, v).key = k /\ Indexed(fetched, k, v).val = v /\ v \in Val
  <2>1. Indexed(fetched, k, v) \in At(fetched, k) /\ Indexed(fetched, k, v).val = v
    BY IndexHolds
  <2> QED BY <2>1 DEF At, Raw
<1>4. ASSUME NEW k \in diff.update
      PROVE  /\ k \in Managed /\ args.record[k].vals \subseteq Val
             /\ Wanted(k) = args.record[k].vals
  BY PlannedKeys, WantedAt DEF Desired
<1>5. CASE \E k \in diff.update :
             /\ ~(k \in CnameKey /\ args.record[k].vals # ValuesOf(fetched, k))
             /\ \/ \E v \in args.record[k].vals \ ValuesOf(fetched, k) :
                      q = Post(Turn(Pass(k), k, 0), k, v)
                \/ \E v \in ValuesOf(fetched, k) \ args.record[k].vals :
                      q = Remove(Turn(Pass(k), k, 1), Indexed(fetched, k, v))
                \/ \E v \in args.record[k].vals \cap ValuesOf(fetched, k) :
                      q = Patch(Turn(Pass(k), k, 2), Indexed(fetched, k, v))
  <2>1. PICK k \in diff.update :
             /\ ~(k \in CnameKey /\ args.record[k].vals # ValuesOf(fetched, k))
             /\ \/ \E v \in args.record[k].vals \ ValuesOf(fetched, k) :
                      q = Post(Turn(Pass(k), k, 0), k, v)
                \/ \E v \in ValuesOf(fetched, k) \ args.record[k].vals :
                      q = Remove(Turn(Pass(k), k, 1), Indexed(fetched, k, v))
                \/ \E v \in args.record[k].vals \cap ValuesOf(fetched, k) :
                      q = Patch(Turn(Pass(k), k, 2), Indexed(fetched, k, v))
    BY <1>5
  <2>2. CASE \E v \in args.record[k].vals \ ValuesOf(fetched, k) : q = Post(Turn(Pass(k), k, 0), k, v)
    <3>1. PICK v \in args.record[k].vals \ ValuesOf(fetched, k) : q = Post(Turn(Pass(k), k, 0), k, v)
      BY <2>2
    <3>2. q.op = "POST" /\ q.key = k /\ q.val = v /\ q.id = 0 /\ q.ttl = args.record[k].ttl
      BY <3>1 DEF Post
    <3> QED BY <1>4, <2>1, <3>1, <3>2 DEF RequestOK
  <2>3. CASE \E v \in ValuesOf(fetched, k) \ args.record[k].vals :
               q = Remove(Turn(Pass(k), k, 1), Indexed(fetched, k, v))
    <3>1. PICK v \in ValuesOf(fetched, k) \ args.record[k].vals :
               q = Remove(Turn(Pass(k), k, 1), Indexed(fetched, k, v))
      BY <2>3
    <3>2. q.op = "DELETE" /\ q.key = k /\ q.val = v /\ q.id = Indexed(fetched, k, v).id
      BY <1>3, <3>1 DEF Remove
    <3> QED BY <1>3, <1>4, <3>1, <3>2 DEF RequestOK
  <2>4. CASE \E v \in args.record[k].vals \cap ValuesOf(fetched, k) :
               q = Patch(Turn(Pass(k), k, 2), Indexed(fetched, k, v))
    <3>1. PICK v \in args.record[k].vals \cap ValuesOf(fetched, k) :
               q = Patch(Turn(Pass(k), k, 2), Indexed(fetched, k, v))
      BY <2>4
    <3>2. /\ q.op = "PATCH" /\ q.key = k /\ q.val = v /\ q.id = Indexed(fetched, k, v).id
          /\ q.ttl = args.record[k].ttl
      BY <1>3, <3>1 DEF Patch
    <3> QED BY <1>3, <1>4, <3>1, <3>2 DEF RequestOK
  <2> QED BY <2>1, <2>2, <2>3, <2>4
<1>6. CASE \E k \in diff.update :
             /\ k \in CnameKey /\ args.record[k].vals # ValuesOf(fetched, k)
             /\ \E v \in ValuesOf(fetched, k), w \in args.record[k].vals :
                   q = Retarget(Turn(Pass(k), k, 0), Indexed(fetched, k, v), w)
  <2>1. PICK k \in diff.update :
             /\ k \in CnameKey /\ args.record[k].vals # ValuesOf(fetched, k)
             /\ \E v \in ValuesOf(fetched, k), w \in args.record[k].vals :
                   q = Retarget(Turn(Pass(k), k, 0), Indexed(fetched, k, v), w)
    BY <1>6
  <2>2. PICK v \in ValuesOf(fetched, k), w \in args.record[k].vals :
               q = Retarget(Turn(Pass(k), k, 0), Indexed(fetched, k, v), w)
    BY <2>1
  <2>3. /\ q.op = "RETARGET" /\ q.key = k /\ q.val = w /\ q.id = Indexed(fetched, k, v).id
        /\ q.ttl = args.record[k].ttl
    BY <1>3, <2>2 DEF Retarget
  <2>4. v \notin args.record[k].vals
    <3>1. PICK u \in Val : args.record[k].vals = {u}
      BY <1>4, <2>1, PlannedKeys DEF SingleTargets, Desired
    <3>2. \A r, s \in At(fetched, k) : r = s
      BY <2>1 DEF Accepted, Accepts, At
    <3>3. ValuesOf(fetched, k) = {v}
      BY <3>2 DEF ValuesOf
    <3> QED BY <2>1, <3>1, <3>3
  <2> QED BY <1>3, <1>4, <2>1, <2>3, <2>4 DEF RequestOK
<1> QED BY <1>1, <1>2, <1>5, <1>6, RequestCases

\* A CNAME whose target differs is retargeted, and nothing else happens to it.
Retargets(k) == k \in CnameKey /\ args.record[k].vals # ValuesOf(fetched, k)

\* Turns of one update: creations before the rest.
LEMMA TurnsInOrder ==
    ASSUME NEW k \in Key
    PROVE  /\ ~(Turn(Pass(k), k, 1) <= Turn(Pass(k), k, 0))
           /\ ~(Turn(Pass(k), k, 2) <= Turn(Pass(k), k, 0))
<1> DEFINE Places == {Order[j] : j \in Key}
           m == Max(Places)
<1>1. PICK j \in Key : \A i \in Key : Order[i] <= Order[j]
  OBVIOUS
<1>2. Places \in SUBSET Nat /\ Places # {} /\ \A n \in Places : n <= Order[j]
  BY <1>1
<1>3. m \in Nat
  BY <1>2, MaxOf
<1>4. Order[k] \in Nat
  OBVIOUS
<1> HIDE DEF m
<1>5. ASSUME NEW n \in {1, 2}
      PROVE  ~(Turn(n, k, 1) <= Turn(n, k, 0)) /\ ~(Turn(n, k, 2) <= Turn(n, k, 0))
  <2>1. \A step \in Nat : Turn(1, k, step) = (1 * (m + 1) + Order[k]) * 3 + step
    BY DEF Turn, m
  <2>2. \A step \in Nat : Turn(2, k, step) = (2 * (m + 1) + 0) * 3 + step
    BY DEF Turn, m
  <2>3. CASE n = 1
    BY <1>3, <1>4, <2>1, <2>3
  <2>4. CASE n = 2
    BY <1>3, <2>2, <2>4
  <2> QED BY <2>3, <2>4
<1> QED BY <1>5 DEF Pass

LEMMA CreatedBy ==
    ASSUME NEW q \in Requests, q.op = "POST"
    PROVE  \/ q.key \in diff.add /\ q = Post(Turn(0, q.key, 0), q.key, q.val)
           \/ q.key \in diff.update /\ ~Retargets(q.key) /\ q = Post(Turn(Pass(q.key), q.key, 0), q.key, q.val)
BY RequestCases DEF Retargets, Post, Remove, Patch, Retarget

LEMMA AddressedBy ==
    ASSUME TypeOK, NEW q \in Requests, q.op # "POST"
    PROVE  \E s \in fetched :
             /\ s.id = q.id /\ s.key = q.key
             /\ \/ q.key \in diff.delete /\ q = Remove(Turn(3, q.key, 0), s)
                \/ /\ q.key \in diff.update /\ ~Retargets(q.key)
                   /\ s.val \notin args.record[q.key].vals /\ q = Remove(Turn(Pass(q.key), q.key, 1), s)
                \/ /\ q.key \in diff.update /\ ~Retargets(q.key)
                   /\ s.val \in args.record[q.key].vals /\ q = Patch(Turn(Pass(q.key), q.key, 2), s)
                \/ /\ q.key \in diff.update /\ Retargets(q.key)
                   /\ \E w \in args.record[q.key].vals : q = Retarget(Turn(Pass(q.key), q.key, 0), s, w)
<1> USE DEF TypeOK
<1>1. CASE \E k \in diff.delete : \E r \in At(fetched, k) : q = Remove(Turn(3, k, 0), r)
  BY <1>1 DEF At, Remove
<1>2. ASSUME NEW k, NEW v \in ValuesOf(fetched, k)
      PROVE  /\ Indexed(fetched, k, v) \in fetched
             /\ Indexed(fetched, k, v).key = k /\ Indexed(fetched, k, v).val = v
  BY IndexHolds DEF At
<1>3. ASSUME NEW k \in diff.update, ~Retargets(k),
             NEW v \in ValuesOf(fetched, k) \ args.record[k].vals,
             q = Remove(Turn(Pass(k), k, 1), Indexed(fetched, k, v))
      PROVE  \E s \in fetched :
               /\ s.id = q.id /\ s.key = q.key /\ q.key = k
               /\ s.val \notin args.record[k].vals /\ q = Remove(Turn(Pass(k), k, 1), s)
  BY <1>2, <1>3 DEF Remove
<1>4. ASSUME NEW k \in diff.update, ~Retargets(k),
             NEW v \in args.record[k].vals \cap ValuesOf(fetched, k),
             q = Patch(Turn(Pass(k), k, 2), Indexed(fetched, k, v))
      PROVE  \E s \in fetched :
               /\ s.id = q.id /\ s.key = q.key /\ q.key = k
               /\ s.val \in args.record[k].vals /\ q = Patch(Turn(Pass(k), k, 2), s)
  BY <1>2, <1>4 DEF Patch
<1>5. ASSUME NEW k \in diff.update, Retargets(k),
             NEW v \in ValuesOf(fetched, k), NEW w \in args.record[k].vals,
             q = Retarget(Turn(Pass(k), k, 0), Indexed(fetched, k, v), w)
      PROVE  \E s \in fetched :
               /\ s.id = q.id /\ s.key = q.key /\ q.key = k
               /\ q = Retarget(Turn(Pass(k), k, 0), s, w)
  BY <1>2, <1>5 DEF Retarget
<1>6. ~\E k, v : q = Post(Turn(0, k, 0), k, v) \/ q = Post(Turn(Pass(k), k, 0), k, v)
  BY DEF Post
<1> QED BY <1>1, <1>3, <1>4, <1>5, <1>6, RequestCases DEF Retargets

\* No two requests do the same, and a record set's creations come first.
LEMMA RequestsApart ==
    ASSUME TypeOK, Accepted(fetched), UniqueIds(fetched), SingleTargets(args), PlanHolds,
           NEW p \in Requests, NEW q \in Requests
    PROVE  /\ p.op # "POST" /\ q.op # "POST" /\ p.id = q.id => p = q
           /\ p.op = "POST" /\ q.op = "POST" /\ p.key = q.key /\ p.val = q.val => p = q
           /\ p.op = "RETARGET" /\ p.key = q.key => p = q
           /\ p.op = "POST" /\ q.op # "POST" /\ p.key = q.key => ~(q.turn <= p.turn)
<1> USE DEF TypeOK
<1>1. /\ diff.add \cap diff.update = {} /\ diff.add \cap diff.delete = {}
      /\ diff.update \cap diff.delete = {}
  BY PlannedKeys
<1>2. ASSUME NEW k \in diff.update, k \in CnameKey, NEW v \in args.record[k].vals,
             NEW w \in args.record[k].vals
      PROVE  v = w
  BY <1>2, PlannedKeys DEF SingleTargets, Desired, Diff
<1>3. ASSUME p.op # "POST", q.op # "POST", p.id = q.id
      PROVE  p = q
  BY <1>1, <1>2, <1>3, AddressedBy DEF UniqueIds, Retargets
<1>4. ASSUME p.op = "POST", q.op = "POST", p.key = q.key, p.val = q.val
      PROVE  p = q
  BY <1>1, <1>4, CreatedBy
<1>5. ASSUME p.op = "RETARGET", p.key = q.key
      PROVE  p = q
  <2>1. q.key \in diff.update /\ Retargets(q.key)
    BY <1>5, AddressedBy DEF Remove, Patch
  <2>2. q.op # "POST"
    BY <1>1, <2>1, CreatedBy
  <2>3. \A r, s \in fetched : r.key = q.key /\ s.key = q.key => r = s
    BY <2>1 DEF Retargets, Accepted, Accepts, At
  <2>4. p.id = q.id
    BY <1>5, <2>2, <2>3, AddressedBy
  <2> QED BY <1>3, <1>5, <2>2, <2>4
<1>6. ASSUME p.op = "POST", q.op # "POST", p.key = q.key
      PROVE  ~(q.turn <= p.turn)
  <2>1. PICK s \in fetched :
             /\ s.id = q.id /\ s.key = q.key
             /\ \/ q.key \in diff.delete /\ q = Remove(Turn(3, q.key, 0), s)
                \/ /\ q.key \in diff.update /\ ~Retargets(q.key)
                   /\ s.val \notin args.record[q.key].vals /\ q = Remove(Turn(Pass(q.key), q.key, 1), s)
                \/ /\ q.key \in diff.update /\ ~Retargets(q.key)
                   /\ s.val \in args.record[q.key].vals /\ q = Patch(Turn(Pass(q.key), q.key, 2), s)
                \/ /\ q.key \in diff.update /\ Retargets(q.key)
                   /\ \E w \in args.record[q.key].vals : q = Retarget(Turn(Pass(q.key), q.key, 0), s, w)
    BY <1>6, AddressedBy
  <2>2. q.key \in diff.update /\ ~Retargets(q.key) /\ p.turn = Turn(Pass(q.key), q.key, 0)
    BY <1>1, <1>6, <2>1, CreatedBy, PlannedKeys DEF Post, At
  <2>3. q.turn = Turn(Pass(q.key), q.key, 1) \/ q.turn = Turn(Pass(q.key), q.key, 2)
    BY <1>1, <2>1, <2>2 DEF Remove, Patch
  <2>4. q.key \in Key
    BY <2>2 DEF Diff
  <2> QED BY <2>2, <2>3, <2>4, TurnsInOrder
<1> QED BY <1>3, <1>4, <1>5, <1>6

-----------------------------------------------------------------------------
(* The zone through its changes *)

\* A zone Cloudflare can hold, and a fetch whose ids still address records of
\* the keys they were fetched with.
WellFormed(raws) ==
    /\ raws \subseteq Raw /\ IsFiniteSet(raws) /\ Accepted(raws) /\ UniqueIds(raws)
    /\ \A r \in raws : r.proxied => r.key \in Proxiable
SameKeys(raws, others) == \A r \in raws, s \in others : r.id = s.id => r.key = s.key

LEMMA FewerWellFormed ==
    ASSUME NEW raws, NEW S \in SUBSET raws, WellFormed(raws)
    PROVE  WellFormed(S)
<1>1. IsFiniteSet(S) /\ Accepted(S)
  BY FS_Subset, FewerAccepted DEF WellFormed
<1> QED BY <1>1 DEF WellFormed, UniqueIds

\* One record put in the place of some, or of none.
LEMMA PutOne ==
    ASSUME NEW raws, NEW old \in SUBSET raws, NEW n \in Raw, WellFormed(raws),
           Accepts(raws \ old, n), \A r \in raws \ old : r.id # n.id,
           n.proxied => n.key \in Proxiable
    PROVE  WellFormed((raws \ old) \cup {n})
<1>1. WellFormed(raws \ old)
  BY FewerWellFormed
<1>2. IsFiniteSet((raws \ old) \cup {n}) /\ Accepted((raws \ old) \cup {n})
  BY <1>1, FS_AddElement, OneMoreAccepted DEF WellFormed
<1> QED BY <1>1, <1>2 DEF WellFormed, UniqueIds

\* What a PATCH makes of a record.
LEMMA PatchedIs ==
    ASSUME NEW q, NEW r \in Raw, q.val \in Val, q.ttl \in Ttl
    PROVE  /\ Patched(q, r) \in Raw
           /\ Patched(q, r).id = r.id /\ Patched(q, r).key = r.key
           /\ Patched(q, r).spelling = r.spelling
           /\ Patched(q, r).val = IF q.op = "RETARGET" THEN q.val ELSE r.val
           /\ Patched(q, r).proxied => r.proxied
           /\ q.key \in Proxiable \/ ~r.proxied =>
                Patched(q, r).ttl = q.ttl /\ Patched(q, r).proxied = FALSE
<1> DEFINE p == r.proxied /\ q.key \notin Proxiable
           t == IF p THEN r.ttl ELSE q.ttl
           v == IF q.op = "RETARGET" THEN q.val ELSE r.val
<1>1. Patched(q, r) = [r EXCEPT !.proxied = p, !.ttl = t, !.val = v]
  BY DEF Patched
<1>2. r.proxied \in BOOLEAN /\ p \in BOOLEAN /\ t \in Ttl /\ v \in Val
  BY DEF Raw
<1>3. /\ p => r.proxied
      /\ q.key \in Proxiable \/ ~r.proxied => t = q.ttl /\ p = FALSE
  OBVIOUS
<1> HIDE DEF p, t, v
<1>4. /\ Patched(q, r) \in Raw
      /\ Patched(q, r).id = r.id /\ Patched(q, r).key = r.key
      /\ Patched(q, r).spelling = r.spelling
      /\ Patched(q, r).val = v /\ Patched(q, r).ttl = t /\ Patched(q, r).proxied = p
  BY <1>1, <1>2 DEF Raw
<1> QED BY <1>3, <1>4 DEF v

\* A record a POST creates has an id nobody holds.
LEMMA CreatedIs ==
    ASSUME WellFormed(zone), WellFormed(fetched), NEW q, q.key \in Key, q.val \in Val, q.ttl \in Ttl
    PROVE  Created(q) \in Raw /\ \A r \in zone \cup fetched : r.id # Created(q).id
<1>1. NewId \in Nat \ {0} /\ \A r \in zone \cup fetched : r.id # NewId
  BY FreshId DEF WellFormed
<1>2. Max(Spelling) \in Spelling
  BY DEF Max
<1> QED BY <1>1, <1>2 DEF Created, Raw

\* What a request that succeeds does to the zone.
LEMMA Effect ==
    ASSUME WellFormed(zone), NEW q, RequestOK(q), Succeeds(q)
    PROVE  /\ q.op = "POST" => After(q) = zone \cup {Created(q)} /\ Accepts(zone, Created(q))
           /\ q.op = "DELETE" => After(q) = zone \ Finds(q)
           /\ q.op \in {"PATCH", "RETARGET"} =>
                \E r \in zone :
                   /\ r.id = q.id /\ Finds(q) = {r}
                   /\ After(q) = (zone \ {r}) \cup {Patched(q, r)}
                   /\ Accepts(zone \ {r}, Patched(q, r))
<1>1. CASE q.op = "POST"
  <2>1. Finds(q) = {}
    BY <1>1 DEF Finds, RequestOK, WellFormed, Raw
  <2>2. After(q) = (zone \ Finds(q)) \cup {Created(q)}
    BY <1>1 DEF After
  <2>3. Accepts(zone, Created(q))
    BY <1>1 DEF Succeeds
  <2> QED BY <1>1, <2>1, <2>2, <2>3
<1>2. CASE q.op = "DELETE"
  BY <1>2 DEF After
<1>3. CASE q.op \in {"PATCH", "RETARGET"}
  <2>1. PICK r \in Finds(q) : Accepts(zone \ {r}, Patched(q, r))
    BY <1>3 DEF Succeeds
  <2>2. r \in zone /\ r.id = q.id /\ Finds(q) = {r}
    BY DEF Finds, WellFormed, UniqueIds
  <2>3. After(q) = (zone \ Finds(q)) \cup {Patched(q, t) : t \in Finds(q)}
    BY <1>3 DEF After
  <2> QED BY <1>3, <2>1, <2>2, <2>3
<1> QED BY <1>1, <1>2, <1>3 DEF RequestOK

\* So it leaves a zone Cloudflare can hold, in which the ids the run knows
\* address records of the keys they addressed before.
LEMMA EffectWellFormed ==
    ASSUME TypeOK, WellFormed(zone), WellFormed(fetched), NEW q, RequestOK(q), Succeeds(q)
    PROVE  WellFormed(After(q)) /\ (SameKeys(zone, fetched) => SameKeys(After(q), fetched))
<1>1. CASE q.op = "POST"
  <2>1. q.key \in Key /\ q.val \in Val /\ q.ttl \in Ttl
    BY <1>1 DEF RequestOK, Succeeds
  <2>2. /\ Created(q) \in Raw /\ Created(q).proxied = FALSE
        /\ \A r \in zone \cup fetched : r.id # Created(q).id
    BY <2>1, CreatedIs DEF Created
  <2>3. zone \ {} = zone /\ Accepts(zone, Created(q)) /\ {} \in SUBSET zone
    BY <1>1, Effect
  <2>4. WellFormed((zone \ {}) \cup {Created(q)})
    BY <2>2, <2>3, PutOne
  <2>5. After(q) = zone \cup {Created(q)}
    BY <1>1, Effect
  <2> QED BY <2>2, <2>3, <2>4, <2>5 DEF SameKeys
<1>2. CASE q.op = "DELETE"
  BY <1>2, Effect, FewerWellFormed DEF SameKeys
<1>3. CASE q.op \in {"PATCH", "RETARGET"}
  <2>1. PICK r \in zone :
                   /\ r.id = q.id /\ Finds(q) = {r}
                   /\ After(q) = (zone \ {r}) \cup {Patched(q, r)}
                   /\ Accepts(zone \ {r}, Patched(q, r))
    BY <1>3, Effect
  <2>2. q.val \in Val /\ q.ttl \in Ttl /\ r \in Raw
    BY <1>3 DEF RequestOK, Succeeds, WellFormed
  <2>3. /\ Patched(q, r) \in Raw /\ Patched(q, r).id = r.id /\ Patched(q, r).key = r.key
        /\ Patched(q, r).proxied => Patched(q, r).key \in Proxiable
    BY <2>2, PatchedIs DEF WellFormed
  <2>4. \A t \in zone \ {r} : t.id # Patched(q, r).id
    BY <2>3 DEF WellFormed, UniqueIds
  <2>5. WellFormed((zone \ {r}) \cup {Patched(q, r)})
    BY <2>1, <2>3, <2>4, PutOne
  <2> QED BY <2>1, <2>3, <2>5 DEF SameKeys
<1> QED BY <1>1, <1>2, <1>3 DEF RequestOK

-----------------------------------------------------------------------------
(* The inductive invariant, first what holds whoever edits the zone *)

\* Only who edits the zone during a run can give an id it fetched another key.
Coherent ==
    /\ WellFormed(zone) /\ WellFormed(fetched)
    /\ edited \/ SameKeys(zone, fetched)

\* Requests are pending only from vetting to the end of the writes, and nothing
\* is sent before the diff has been vetted.
Writing == pc = "write" \/ todo # {}

Phases ==
    /\ SingleTargets(args)
    /\ pc \in {"fetch", "plan", "vet", "refetch", "verify"} => todo = {}
    /\ pc \in {"fetch", "plan", "vet"} => ~sent
    /\ pc \in {"plan", "vet", "write", "refetch", "verify"} => NearMisses(args) = {}
    /\ sent \/ Writing => TtlsAccepted

\* What is being carried out is the accepted plan of what was fetched.
PlanStands == pc = "vet" \/ Writing => PlanHolds /\ todo \subseteq Requests

IInv == TypeOK /\ Coherent /\ Phases /\ PlanStands

LEMMA PendingOK ==
    ASSUME IInv, NEW q \in todo
    PROVE  RequestOK(q)
<1>1. PlanHolds /\ q \in Requests
  BY DEF IInv, PlanStands, Writing
<1> QED BY <1>1, RequestFacts DEF IInv, Coherent, WellFormed, Phases

LEMMA InitInv == Init => IInv
<1> SUFFICES ASSUME Init PROVE IInv
  OBVIOUS
<1> USE DEF Init, FreshRun
<1>1. diff \in Diff
  <2>1. \A d : d = [add |-> {}, update |-> {}, delete |-> {}] => d \in Diff
    BY DEF Diff
  <2> QED BY <2>1 DEF EmptyDiff
<1>2. TypeOK
  <2>1. zone \subseteq Raw /\ fetched \subseteq Raw /\ \A r, s \in zone : r.id = s.id => r = s
    OBVIOUS
  <2>2. args \in Args /\ pc \in Steps
    BY DEF Steps
  <2>3. mutating \in BOOLEAN /\ sent \in BOOLEAN
    OBVIOUS
  <2>4. edits \in 0..MaxEdits /\ faults \in 0..MaxFaults
    OBVIOUS
  <2> QED BY <1>1, <2>1, <2>2, <2>3, <2>4 DEF TypeOK
<1>3. WellFormed(zone)
  BY DEF WellFormed, Accepted, UniqueIds
<1>4. WellFormed(fetched)
  BY FS_EmptySet DEF WellFormed, Accepted, UniqueIds
<1> QED BY <1>2, <1>3, <1>4 DEF IInv, Coherent, SameKeys, Phases, PlanStands, Writing

LEMMA CoherentStep == IInv /\ [Next]_vars => Coherent'
<1> SUFFICES ASSUME IInv, [Next]_vars
             PROVE  Coherent'
  OBVIOUS
<1> USE DEF IInv
<1>1. ASSUME WellFormed(zone'), WellFormed(fetched'), edited' \/ SameKeys(zone', fetched')
      PROVE  Coherent'
  BY <1>1 DEF Coherent, WellFormed, Accepted, UniqueIds, SameKeys, Accepts, At, Clash
<1>2. ASSUME UNCHANGED <<zone, fetched>>, edited' = edited
      PROVE  Coherent'
  BY <1>1, <1>2 DEF Coherent
<1>3. CASE Foreign
  <2>1. UNCHANGED fetched /\ edited'
    BY <1>3 DEF Foreign, run, Disturb
  <2>2. CASE ForeignAdd
    <3>1. PICK k \in Key, v \in Val, s \in Spelling, t \in ValidTtl :
            LET r == [id |-> NewId, key |-> k, val |-> v, spelling |-> s, ttl |-> t,
                      proxied |-> FALSE]
            IN  Accepts(zone, r) /\ zone' = zone \cup {r}
      BY <2>2 DEF ForeignAdd
    <3> DEFINE r == [id |-> NewId, key |-> k, val |-> v, spelling |-> s, ttl |-> t,
                     proxied |-> FALSE]
    <3>2. Accepts(zone, r) /\ zone' = zone \cup {r}
      BY <3>1
    <3>3. NewId \in Nat \ {0} /\ \A u \in zone \cup fetched : u.id # NewId
      BY FreshId DEF Coherent, WellFormed
    <3>4. r \in Raw /\ r.id = NewId /\ r.proxied = FALSE
      BY <3>3 DEF Raw
    <3> HIDE DEF r
    <3>5. zone \ {} = zone /\ {} \in SUBSET zone
      OBVIOUS
    <3>6. WellFormed((zone \ {}) \cup {r})
      BY <3>2, <3>3, <3>4, <3>5, PutOne DEF Coherent
    <3> QED BY <1>1, <2>1, <3>2, <3>5, <3>6 DEF Coherent
  <2>3. CASE ForeignChange
    <3>1. PICK r \in zone, k \in Key, v \in Val, p \in BOOLEAN :
            LET new == [r EXCEPT !.key = k, !.val = v, !.proxied = p,
                                 !.ttl = IF p THEN AutoTtl ELSE r.ttl]
            IN  /\ new # r /\ (p => k \in Proxiable)
                /\ Accepts(zone \ {r}, new)
                /\ zone' = (zone \ {r}) \cup {new}
      BY <2>3 DEF ForeignChange
    <3> DEFINE new == [r EXCEPT !.key = k, !.val = v, !.proxied = p,
                                !.ttl = IF p THEN AutoTtl ELSE r.ttl]
    <3>2. /\ Accepts(zone \ {r}, new) /\ zone' = (zone \ {r}) \cup {new}
          /\ p => k \in Proxiable
      BY <3>1
    <3>3. r \in Raw /\ new \in Raw /\ new.id = r.id /\ (new.proxied => new.key \in Proxiable)
      <4>1. r \in Raw
        BY DEF Coherent, WellFormed
      <4> HIDE DEF new
      <4>2. new = [r EXCEPT !.key = k, !.val = v, !.proxied = p,
                            !.ttl = IF p THEN AutoTtl ELSE r.ttl]
        BY DEF new
      <4>3. k \in Key /\ v \in Val /\ p \in BOOLEAN
        OBVIOUS
      <4>4. new \in Raw /\ new.id = r.id /\ new.key = k /\ new.proxied = p
        BY <4>1, <4>2, <4>3, AutoTtl \in Ttl DEF Raw
      <4> QED BY <3>2, <4>1, <4>4
    <3> HIDE DEF new
    <3>4. {r} \in SUBSET zone /\ \A u \in zone \ {r} : u.id # new.id
      BY <3>3 DEF Coherent, WellFormed, UniqueIds
    <3>5. WellFormed((zone \ {r}) \cup {new})
      BY <3>2, <3>3, <3>4, PutOne DEF Coherent
    <3> QED BY <1>1, <2>1, <3>2, <3>5 DEF Coherent
  <2>4. CASE ForeignDelete
    <3>1. zone' \subseteq zone
      BY <2>4 DEF ForeignDelete
    <3> QED BY <1>1, <2>1, <3>1, FewerWellFormed DEF Coherent
  <2> QED BY <1>3, <2>2, <2>3, <2>4 DEF Foreign
<1>4. CASE Start
  <2>1. UNCHANGED zone /\ fetched' = {}
    BY <1>4 DEF Start
  <2>2. WellFormed(fetched') /\ SameKeys(zone', fetched')
    BY <2>1, FewerWellFormed DEF Coherent, SameKeys
  <2> QED BY <1>1, <2>1, <2>2 DEF Coherent
<1>5. ASSUME zone' \subseteq zone, fetched' \subseteq zone
      PROVE  Coherent'
  <2>1. WellFormed(zone') /\ WellFormed(fetched') /\ SameKeys(zone', fetched')
    BY <1>5, FewerWellFormed DEF Coherent, SameKeys, WellFormed, UniqueIds
  <2> QED BY <1>1, <2>1
<1>6. CASE Fetch
  BY <1>2, <1>5, <1>6 DEF Fetch, Listed, luck
<1>7. CASE FetchShifted
  BY <1>5, <1>7 DEF FetchShifted, Listed
<1>8. CASE \E q \in todo : Send(q)
  <2>1. PICK q \in todo : Send(q)
    BY <1>8
  <2>2. Succeeds(q) /\ zone' = After(q) /\ UNCHANGED fetched /\ edited' = edited
    BY <2>1 DEF Send, luck, Fault
  <2>3. RequestOK(q)
    BY PendingOK
  <2>4. /\ WellFormed(After(q))
        /\ SameKeys(zone, fetched) => SameKeys(After(q), fetched)
    BY <2>2, <2>3, EffectWellFormed DEF Coherent
  <2> QED BY <1>1, <2>2, <2>4 DEF Coherent
<1>9. CASE Plan \/ Vet \/ Refetch \/ Verify \/ RequestFails \/ Interrupt \/ UNCHANGED vars
           \/ \E q \in todo : Refused(q)
  BY <1>2, <1>9 DEF Plan, Vet, Refetch, Verify, RequestFails, Interrupt, Refused, vars, run, luck,
     Fault
<1> QED BY <1>3, <1>4, <1>6, <1>7, <1>8, <1>9 DEF Next, Progress

\* The requests are a function of the truth, the fetch and the diff.
LEMMA SameRequests == UNCHANGED <<args, fetched, diff>> => Requests' = Requests /\ PlanHolds' = PlanHolds
<1> SUFFICES ASSUME UNCHANGED <<args, fetched, diff>>
             PROVE  Requests' = Requests /\ PlanHolds' = PlanHolds
  OBVIOUS
<1>1. args' = args /\ fetched' = fetched /\ diff' = diff
  OBVIOUS
<1>2. Requests' = Requests
  BY <1>1 DEF Requests, AddRequests, UpdateRequests, DeleteRequests, Post, Retarget, Patch, Remove,
     Turn, Pass, RecordOf, TtlsOf, Min, Indexed, ValuesOf, At, Max
<1>3. Fetched' = Fetched
  BY <1>1 DEF Fetched, RecordOf, SplitTtl, Proxied, ValuesOf, TtlsOf, At
<1>4. PlanHolds' = PlanHolds
  BY <1>1, <1>3 DEF PlanHolds, PlanRefuses, PlannedDiff, ForceUpdates, DiffRecords, TruthConflict,
     EdgeConflict, Unwritable, EmptyTruth, UnverifiedTruth, Desired, Observed
<1> QED BY <1>2, <1>4

LEMMA TypeStep == IInv /\ [Next]_vars => TypeOK'
<1> SUFFICES ASSUME IInv, [Next]_vars
             PROVE  TypeOK'
  OBVIOUS
<1> USE DEF IInv
<1>1. zone' \subseteq Raw /\ fetched' \subseteq Raw /\ \A r, s \in zone' : r.id = s.id => r = s
  BY CoherentStep DEF Coherent, WellFormed, UniqueIds
<1>2. ASSUME UNCHANGED <<diff, args, mutating, sent, edits, faults>>, pc' \in Steps
      PROVE  TypeOK'
  BY <1>1, <1>2 DEF TypeOK
<1>3. ASSUME Disturb
      PROVE  edits' \in 0..MaxEdits /\ faults' \in 0..MaxFaults
  BY <1>3 DEF Disturb, TypeOK
<1>4. ASSUME Fault
      PROVE  edits' \in 0..MaxEdits /\ faults' \in 0..MaxFaults
  BY <1>4 DEF Fault, TypeOK
<1>5. CASE Foreign
  BY <1>1, <1>3, <1>5 DEF Foreign, run, TypeOK
<1>6. CASE FetchShifted
  <2>1. pc' \in Steps
    BY <1>6 DEF FetchShifted, Steps
  <2> QED BY <1>1, <1>3, <1>6, <2>1 DEF FetchShifted, TypeOK
<1>7. CASE RequestFails
  <2>1. pc' \in Steps
    BY <1>7 DEF RequestFails, Steps, Ended
  <2> QED BY <1>1, <1>4, <1>7, <2>1 DEF RequestFails, TypeOK
<1>8. CASE Interrupt
  <2>1. pc' \in Steps
    BY <1>8 DEF Interrupt, Steps, Ended
  <2> QED BY <1>1, <1>4, <1>8, <2>1 DEF Interrupt, TypeOK
<1>9. CASE Start
  <2>1. pc' \in Steps /\ mutating' \in BOOLEAN /\ sent' \in BOOLEAN
    BY <1>9 DEF Start, Steps
  <2>2. \A d : d = [add |-> {}, update |-> {}, delete |-> {}] => d \in Diff
    BY DEF Diff
  <2>3. diff' \in Diff
    BY <1>9, <2>2 DEF Start, EmptyDiff
  <2> QED BY <1>1, <1>9, <2>1, <2>3 DEF Start, TypeOK
<1>10. CASE Plan
  <2>1. pc' \in Steps
    BY <1>10 DEF Plan, Steps, Ended
  <2>2. Fetched \in Reading /\ args \in Args
    BY FetchedIsReading DEF TypeOK
  <2>3. diff' \in Diff
    BY <1>10, <2>2, PlanIsDiff DEF Plan, TypeOK
  <2>4. mutating' \in BOOLEAN /\ UNCHANGED <<args, sent, edits, faults>>
    BY <1>10 DEF Plan, luck, TypeOK
  <2> QED BY <1>1, <2>1, <2>3, <2>4 DEF TypeOK
<1>11. CASE \E q \in todo : Send(q)
  <2>1. PICK q \in todo : Send(q)
    BY <1>11
  <2>2. pc' \in Steps /\ sent' \in BOOLEAN /\ UNCHANGED <<diff, args, mutating>>
    BY <2>1 DEF Send, Steps, Ended, TypeOK
  <2>3. edits' \in 0..MaxEdits /\ faults' \in 0..MaxFaults
    BY <1>4, <2>1 DEF Send, luck, TypeOK
  <2> QED BY <1>1, <2>2, <2>3 DEF TypeOK
<1>12. CASE Fetch
  BY <1>2, <1>12 DEF Fetch, luck, Steps, Ended
<1>13. CASE Vet
  BY <1>2, <1>13 DEF Vet, luck, Steps, Ended
<1>14. CASE Refetch
  BY <1>2, <1>14 DEF Refetch, luck, Steps, Ended
<1>15. CASE Verify
  BY <1>2, <1>15 DEF Verify, luck, Steps, Ended
<1>16. CASE \E q \in todo : Refused(q)
  BY <1>2, <1>16 DEF Refused, luck, Steps, Ended
<1>17. CASE UNCHANGED vars
  BY <1>2, <1>17 DEF vars, run, luck, TypeOK
<1> QED BY <1>5, <1>6, <1>7, <1>8, <1>9, <1>10, <1>11, <1>12, <1>13, <1>14, <1>15, <1>16, <1>17
     DEF Next, Progress

LEMMA PhasesStep == IInv /\ [Next]_vars => Phases'
<1> SUFFICES ASSUME IInv, [Next]_vars
             PROVE  Phases'
  OBVIOUS
<1> USE DEF IInv
<1>1. args' = args
  BY DEF Next, Progress, Foreign, Start, Fetch, FetchShifted, Plan, Vet, Send, Refused, Refetch,
     Verify, RequestFails, Interrupt, vars, run
<1>2. SingleTargets(args')
  BY <1>1 DEF Phases
<1>3. NearMisses(args') = NearMisses(args)
  BY <1>1
<1>4. ASSUME diff' = diff
      PROVE  TtlsAccepted' = TtlsAccepted
  BY <1>1, <1>4 DEF TtlsAccepted
<1> DEFINE P == /\ pc' \in {"fetch", "plan", "vet", "refetch", "verify"} => todo' = {}
                /\ pc' \in {"fetch", "plan", "vet"} => ~sent'
                /\ pc' \in {"plan", "vet", "write", "refetch", "verify"} => NearMisses(args) = {}
                /\ (sent' \/ pc' = "write" \/ todo' # {}) => TtlsAccepted'
<1>5. ASSUME P
      PROVE  Phases'
  BY <1>2, <1>3, <1>5 DEF Phases, Writing
<1>6. CASE Foreign \/ UNCHANGED vars
  BY <1>4, <1>5, <1>6 DEF Foreign, run, vars, Phases, Writing
<1>7. CASE FetchShifted
  BY <1>4, <1>5, <1>7 DEF FetchShifted, Phases, Writing
<1>8. CASE RequestFails \/ Interrupt
  BY <1>4, <1>5, <1>8 DEF RequestFails, Interrupt, Phases, Writing, Ended
<1>9. CASE Start
  BY <1>5, <1>9 DEF Start
<1>10. CASE Plan
  <2>1. ~sent' /\ todo' = {} /\ pc' # "write" /\ NearMisses(args) = {}
    BY <1>10 DEF Plan, Phases
  <2> QED BY <1>5, <2>1
<1>11. CASE \E q \in todo : Send(q)
  BY <1>4, <1>5, <1>11 DEF Send, Due, Phases, Writing
<1>12. CASE Fetch
  BY <1>4, <1>5, <1>12 DEF Fetch, Phases, Writing
<1>13. CASE Vet
  BY <1>4, <1>5, <1>13 DEF Vet, Phases, Writing
<1>14. CASE Refetch \/ Verify
  BY <1>4, <1>5, <1>14 DEF Refetch, Verify, Phases, Writing
<1>15. CASE \E q \in todo : Refused(q)
  BY <1>4, <1>5, <1>15 DEF Refused, Due, Phases, Writing
<1> QED BY <1>6, <1>7, <1>8, <1>9, <1>10, <1>11, <1>12, <1>13, <1>14, <1>15 DEF Next, Progress

LEMMA PlanStandsStep == IInv /\ [Next]_vars => PlanStands'
<1> SUFFICES ASSUME IInv, [Next]_vars
             PROVE  PlanStands'
  OBVIOUS
<1> USE DEF IInv
<1>1. ASSUME pc' # "vet", pc' # "write", todo' = {}
      PROVE  PlanStands'
  BY <1>1 DEF PlanStands, Writing
<1>2. ASSUME UNCHANGED <<args, fetched, diff>>, pc' \in {"vet", "write"} => pc' = pc, todo' \subseteq todo
      PROVE  PlanStands'
  BY <1>2, SameRequests DEF PlanStands, Writing
<1>3. CASE Foreign \/ UNCHANGED vars
  BY <1>2, <1>3 DEF Foreign, run, vars
<1>4. CASE RequestFails \/ Interrupt \/ Refetch \/ Verify \/ \E q \in todo : Refused(q)
  BY <1>2, <1>4 DEF RequestFails, Interrupt, Refetch, Verify, Refused, Ended
<1>5. CASE \E q \in todo : Send(q)
  BY <1>2, <1>5 DEF Send
<1>6. CASE Start
  BY <1>1, <1>6 DEF Start
<1>7. CASE Fetch \/ FetchShifted
  BY <1>1, <1>7 DEF Fetch, FetchShifted, Phases
<1>8. CASE Plan
  <2>1. todo' = {} /\ pc' # "write" /\ UNCHANGED <<args, fetched>>
    BY <1>8 DEF Plan, Phases
  <2>2. CASE PlanRefuses(args, Fetched)
    BY <1>1, <1>8, <2>1, <2>2 DEF Plan
  <2>3. CASE ~PlanRefuses(args, Fetched)
    <3>1. diff' = PlannedDiff(args, Fetched)
      BY <1>8, <2>3 DEF Plan
    <3>2. Fetched' = Fetched
      BY <2>1 DEF Fetched, RecordOf, SplitTtl, Proxied, ValuesOf, TtlsOf, At
    <3>3. diff' = PlannedDiff(args', Fetched') /\ ~PlanRefuses(args', Fetched')
      BY <2>1, <2>3, <3>1, <3>2
    <3>4. PlanHolds'
      BY <3>3 DEF PlanHolds
    <3> QED BY <2>1, <3>4 DEF PlanStands, Writing
  <2> QED BY <2>2, <2>3
<1>9. CASE Vet
  <2>1. CASE TtlsAccepted
    <3>1. UNCHANGED <<args, fetched, diff>> /\ todo' = Requests /\ pc = "vet"
      BY <1>9, <2>1 DEF Vet
    <3> QED BY <3>1, SameRequests DEF PlanStands
  <2>2. CASE ~TtlsAccepted
    BY <1>1, <1>9, <2>2 DEF Vet
  <2> QED BY <2>1, <2>2
<1> QED BY <1>3, <1>4, <1>5, <1>6, <1>7, <1>8, <1>9 DEF Next, Progress

LEMMA Invariant == Spec => []IInv
<1>1. Init => IInv
  BY InitInv
<1>2. IInv /\ [Next]_vars => IInv'
  BY TypeStep, CoherentStep, PhasesStep, PlanStandsStep DEF IInv
<1> QED BY <1>1, <1>2, PTL DEF Spec

\* Every step keeps the types, and the records of the zone keep one id each.
THEOREM TypeCorrect == Spec => []TypeOK
<1>1. IInv => TypeOK
  BY DEF IInv
<1> QED BY <1>1, Invariant, PTL

\* A request has left only if every TTL of the whole diff is one Cloudflare
\* takes: the check precedes the first request (WR-03).
THEOREM VettedBeforeWriting == Spec => []BadTtlWritesNothing
<1>1. IInv => BadTtlWritesNothing
  BY DEF IInv, Phases, TtlsAccepted, BadTtlWritesNothing
<1> QED BY <1>1, Invariant, PTL

\* Each step of the run itself changes, adds and removes API records of managed
\* keys only, whatever others do to the zone, but for a record that was listed
\* at a managed key and that somebody renamed or retyped before the request was
\* sent, for a request names the record by its id alone.
THEOREM OthersUntouched == Spec => OnlyManagedRecords
<1>1. IInv /\ [Next]_vars =>
        [edits' = edits => \A r \in (zone \ zone') \cup (zone' \ zone) :
            r.key \in Managed \/ Renamed(r)]_vars
  <2> SUFFICES ASSUME IInv, Next, edits' = edits, NEW r \in (zone \ zone') \cup (zone' \ zone)
               PROVE  r.key \in Managed \/ Renamed(r)
    OBVIOUS
  <2>1. ~Foreign /\ ~FetchShifted
    BY DEF Foreign, FetchShifted, Disturb, IInv, TypeOK
  <2>2. zone' # zone
    OBVIOUS
  <2>3. PICK q \in todo : Send(q)
    BY <2>1, <2>2 DEF Next, Progress, Start, Fetch, Plan, Vet, Refused, Refetch, Verify,
       RequestFails, Interrupt
  <2>4. RequestOK(q) /\ Succeeds(q) /\ zone' = After(q) /\ q.key \in Managed
    BY <2>3, PendingOK DEF Send, RequestOK
  <2>5. WellFormed(zone) /\ (edited \/ SameKeys(zone, fetched))
    BY DEF IInv, Coherent
  <2>6. ASSUME q.op # "POST", NEW s \in zone, s.id = q.id, NEW t, t.id = s.id, t.key = s.key
        PROVE  t.key \in Managed \/ Renamed(t)
    <3>1. PICK u \in fetched : u.id = q.id /\ u.key = q.key
      BY <2>4, <2>6 DEF RequestOK
    <3>2. CASE edited
      BY <2>4, <2>6, <3>1, <3>2 DEF Renamed
    <3>3. CASE SameKeys(zone, fetched)
      BY <2>4, <2>6, <3>1, <3>3 DEF SameKeys
    <3> QED BY <2>5, <3>2, <3>3
  <2>7. CASE q.op = "POST"
    <3>1. zone' = zone \cup {Created(q)}
      BY <2>4, <2>5, <2>7, Effect
    <3> QED BY <2>4, <3>1 DEF Created
  <2>8. CASE q.op = "DELETE"
    <3>1. zone' = zone \ Finds(q)
      BY <2>4, <2>5, <2>8, Effect
    <3>2. r \in zone /\ r.id = q.id
      BY <3>1 DEF Finds
    <3> QED BY <2>6, <2>8, <3>2
  <2>9. CASE q.op \in {"PATCH", "RETARGET"}
    <3>1. PICK s \in zone : s.id = q.id /\ zone' = (zone \ {s}) \cup {Patched(q, s)}
      BY <2>4, <2>5, <2>9, Effect
    <3>2. q.val \in Val /\ q.ttl \in Ttl /\ s \in Raw
      BY <2>4, <2>5, <2>9 DEF RequestOK, Succeeds, WellFormed
    <3>3. Patched(q, s).key = s.key /\ Patched(q, s).id = s.id
      BY <3>2, PatchedIs
    <3>4. r = s \/ r = Patched(q, s)
      BY <3>1
    <3> QED BY <2>6, <2>9, <3>1, <3>3, <3>4
  <2> QED BY <2>4, <2>7, <2>8, <2>9 DEF RequestOK
<1> QED BY <1>1, Invariant, PTL DEF Spec, OnlyManagedRecords

-----------------------------------------------------------------------------
(* A run nobody disturbs returns only with the zone as truth says *)

\* While nobody edits the zone, a fetch is what the zone lists.
FetchedTruly == ~edited /\ pc \in {"plan", "vet", "verify"} => fetched = Listed(zone)

\* At a managed key that is all there is.
LEMMA ListedAt ==
    ASSUME NEW raws, NEW k \in Managed
    PROVE  At(Listed(raws), k) = At(raws, k) /\ ValuesOf(Listed(raws), k) = ValuesOf(raws, k)
<1>1. k \notin Unlisted
  OBVIOUS
<1>2. At(Listed(raws), k) = At(raws, k)
  BY <1>1 DEF At, Listed
<1> QED BY <1>2 DEF ValuesOf

\* A plan without changes, made of the zone itself, finds every record served.
LEMMA ConvergedIsServed ==
    ASSUME TypeOK, Coherent, fetched = Listed(zone), IsConverged(PlannedDiff(args, Fetched))
    PROVE  MatchesTruth
<1>1. Fetched \in Reading /\ args \in Args
  BY FetchedIsReading DEF TypeOK
<1>2. SUFFICES ASSUME NEW k \in Managed
               PROVE  IsServed(k)
  BY DEF MatchesTruth
<1>3. /\ Fetched.actual[k] = args.record[k]
      /\ args.record[k] # Absent => k \notin Fetched.drifted
  BY <1>1, ConvergedPlan
<1>4. RecordOf(fetched, k) = args.record[k]
  BY <1>3 DEF Fetched
<1>5. fetched \in SUBSET Raw /\ IsFiniteSet(fetched) /\ k \in Key
  BY DEF TypeOK, Coherent, WellFormed
<1>6. At(zone, k) = At(fetched, k) /\ ValuesOf(zone, k) = ValuesOf(fetched, k)
  BY ListedAt
<1>7. CASE args.record[k] = Absent
  BY <1>4, <1>5, <1>6, <1>7, RecordShown DEF IsServed
<1>8. CASE args.record[k] # Absent
  <2>1. /\ At(fetched, k) # {}
        /\ args.record[k] = [vals |-> ValuesOf(fetched, k), ttl |-> Min(TtlsOf(fetched, k))]
    BY <1>4, <1>5, <1>8, RecordShown
  <2>2. k \notin SplitTtl(fetched) /\ k \notin Proxied(fetched)
    BY <1>3, <1>8 DEF Fetched
  <2>3. \A r \in At(fetched, k) : r.ttl = Min(TtlsOf(fetched, k))
    BY <1>5, <2>2, OneTtl
  <2>4. \A r \in At(fetched, k) : ~r.proxied
    BY <2>2 DEF Proxied, At
  <2> QED BY <1>6, <1>8, <2>1, <2>3, <2>4 DEF IsServed
<1> QED BY <1>7, <1>8

LEMMA FetchedTrulyStep == IInv /\ FetchedTruly /\ [Next]_vars => FetchedTruly'
<1> SUFFICES ASSUME IInv, FetchedTruly, [Next]_vars
             PROVE  FetchedTruly'
  OBVIOUS
<1>1. CASE Foreign \/ FetchShifted
  BY <1>1 DEF Foreign, FetchShifted, Disturb, FetchedTruly
<1>2. CASE Fetch
  BY <1>2 DEF Fetch, FetchedTruly, Listed
<1>3. CASE Plan
  BY <1>3 DEF Plan, luck, FetchedTruly
<1>4. CASE Vet \/ Verify \/ Refetch \/ Start
  BY <1>4 DEF Vet, Verify, Refetch, Start, luck, FetchedTruly
<1>5. CASE RequestFails \/ Interrupt \/ \E q \in todo : Refused(q)
  BY <1>5 DEF RequestFails, Interrupt, Refused, FetchedTruly
<1>6. CASE \E q \in todo : Send(q)
  BY <1>6 DEF Send, Due, FetchedTruly
<1>7. CASE UNCHANGED vars
  BY <1>7 DEF vars, run, luck, FetchedTruly
<1> QED BY <1>1, <1>2, <1>3, <1>4, <1>5, <1>6, <1>7 DEF Next, Progress

LEMMA ReturnedStep ==
    IInv /\ FetchedTruly /\ ReturnedMeansConverged /\ [Next]_vars => ReturnedMeansConverged'
<1> SUFFICES ASSUME IInv, FetchedTruly, ReturnedMeansConverged, [Next]_vars,
                    pc' = "returned", ~edited'
             PROVE  MatchesTruth'
  BY DEF ReturnedMeansConverged
<1>1. ASSUME MatchesTruth, zone' = zone, args' = args
      PROVE  MatchesTruth'
  BY <1>1 DEF MatchesTruth, IsServed, At, ValuesOf
<1>2. ASSUME IsConverged(PlannedDiff(args, Fetched)), fetched = Listed(zone)
      PROVE  MatchesTruth
  BY <1>2, ConvergedIsServed DEF IInv
<1>3. CASE Plan
  <2>1. IsConverged(PlannedDiff(args, Fetched)) /\ UNCHANGED <<zone, args>>
    BY <1>3 DEF Plan
  <2>2. fetched = Listed(zone)
    BY <1>3 DEF Plan, luck, FetchedTruly
  <2> QED BY <1>1, <1>2, <2>1, <2>2
<1>4. CASE Verify
  <2>1. IsConverged(PlannedDiff(args, Fetched)) /\ UNCHANGED <<zone, args>>
    BY <1>4 DEF Verify
  <2>2. fetched = Listed(zone)
    BY <1>4 DEF Verify, luck, FetchedTruly
  <2> QED BY <1>1, <1>2, <2>1, <2>2
<1>5. CASE UNCHANGED vars
  BY <1>1, <1>5 DEF vars, run, luck, ReturnedMeansConverged
<1>6. CASE Foreign \/ FetchShifted
  BY <1>6 DEF Foreign, FetchShifted, Disturb
<1>7. CASE Fetch \/ Vet \/ Refetch \/ Start \/ RequestFails \/ Interrupt
           \/ \E q \in todo : Send(q) \/ Refused(q)
  BY <1>7 DEF Fetch, Vet, Refetch, Start, RequestFails, Interrupt, Refused, Send, Due
<1> QED BY <1>3, <1>4, <1>5, <1>6, <1>7 DEF Next, Progress

LEMMA Truly == Spec => []FetchedTruly
<1>1. Init => FetchedTruly
  BY DEF Init, FetchedTruly
<1> QED BY <1>1, Invariant, FetchedTrulyStep, PTL DEF Spec

\* A run that returned, if nobody edited the zone meanwhile, left every managed
\* key with the values, the TTL and the DNS-only setting truth states: on each
\* of its records, not only on those the record sets show (CR-5, CR-04).
THEOREM ReturnedIsTrue == Spec => []ReturnedMeansConverged
<1>1. Init => ReturnedMeansConverged
  BY DEF Init, ReturnedMeansConverged
<1> QED BY <1>1, Invariant, Truly, ReturnedStep, PTL DEF Spec

-----------------------------------------------------------------------------
(* No name is under-served: an undisturbed run's requests find the zone as its *)
(* plan assumed, and each wanted value is there or on its way                  *)

Deliverable(raws, q) ==
    IF q.op = "POST"
    THEN /\ q.val \notin ValuesOf(raws, q.key)
         /\ q.key \in CnameKey => At(raws, q.key) = {}
         /\ \A s \in Listed(raws) : ~Clash(s.key, q.key)
    ELSE \E s \in fetched \cap raws : s.id = q.id

Provides(q, k, v) == q.op \in {"POST", "RETARGET"} /\ q.key = k /\ q.val = v

OnCourse(raws, pending) ==
    /\ \A q \in pending : Deliverable(raws, q)
    /\ \A q \in pending : q.op \in {"POST", "RETARGET"} => At(fetched, q.key) \subseteq raws
    /\ \A k \in Managed : \A v \in Wanted(k) :
          v \in ValuesOf(raws, k) \/ \E q \in pending : Provides(q, k, v)

Course == ~edited /\ Writing => OnCourse(zone, todo)

\* A key about to be created is at a name where no record stands in its way.
LEMMA CreatedClear ==
    ASSUME TypeOK, Coherent, PlanHolds, NEW k \in diff.add \cup diff.update, NEW s \in fetched
    PROVE  ~Clash(s.key, k)
<1>1. Fetched \in Reading /\ args \in Args /\ s.key \in Key
  BY FetchedIsReading DEF TypeOK, Raw
<1>2. CASE k \in diff.add
  <2>1. k \in Desired(args) /\ At(fetched, k) = {}
    BY <1>2, PlannedKeys
  <2>2. \A j \in Key : j \in Observed(Fetched) <=> At(fetched, j) # {}
    BY RecordShown DEF Observed, Fetched, TypeOK
  <2>3. k \notin Observed(Fetched) /\ s.key \in Observed(Fetched)
    BY <1>1, <2>1, <2>2 DEF Desired, At
  <2> QED BY <1>1, <2>1, <2>3, AddsDoNotClash DEF PlanHolds
<1>3. CASE k \in diff.update
  <2>1. PICK r \in fetched : r.key = k
    BY <1>3, PlannedKeys DEF At
  <2>2. CASE s = r
    BY <2>1, <2>2 DEF Clash
  <2>3. CASE s # r
    BY <2>1, <2>3 DEF Coherent, WellFormed, Accepted, Accepts
  <2> QED BY <2>2, <2>3
<1> QED BY <1>2, <1>3

\* As apply sets out, it is on course.
LEMMA SetsOut ==
    ASSUME TypeOK, Coherent, SingleTargets(args), PlanHolds, fetched = Listed(zone)
    PROVE  OnCourse(zone, Requests)
<1>1. ASSUME NEW q \in Requests
      PROVE  RequestOK(q)
  BY RequestFacts DEF Coherent, WellFormed
<1>2. ASSUME NEW q \in Requests
      PROVE  Deliverable(zone, q)
  <2>1. CASE q.op = "POST"
    <3>0. q.key \in Managed
      BY <1>1 DEF RequestOK
    <3>1. q.val \notin ValuesOf(zone, q.key) /\ q.key \in diff.add \cup diff.update
      BY <1>1, <2>1, <3>0, ListedAt DEF RequestOK
    <3>2. q.key \in CnameKey => At(zone, q.key) = {}
      BY <1>1, <2>1, <3>0, ListedAt, PlannedKeys DEF RequestOK
    <3>3. \A s \in Listed(zone) : ~Clash(s.key, q.key)
      BY <3>1, CreatedClear
    <3> QED BY <2>1, <3>1, <3>2, <3>3 DEF Deliverable
  <2>2. CASE q.op # "POST"
    BY <1>1, <2>2 DEF RequestOK, Deliverable, Listed
  <2> QED BY <2>1, <2>2
<1>3. ASSUME NEW k \in Managed, NEW v \in Wanted(k), v \notin ValuesOf(zone, k)
      PROVE  \E q \in Requests : Provides(q, k, v)
  <2>0. v \notin ValuesOf(fetched, k)
    BY <1>3, ListedAt
  <2>1. k \in Desired(args) /\ v \in args.record[k].vals
    BY DEF Wanted, Desired
  <2>2. Fetched \in Reading /\ args \in Args
    BY FetchedIsReading DEF TypeOK
  <2>3. /\ Fetched.actual[k] = Absent <=> At(fetched, k) = {}
        /\ At(fetched, k) # {} => Fetched.actual[k].vals = ValuesOf(fetched, k)
    BY RecordShown DEF Fetched, TypeOK
  <2>4. k \in diff.add \cup diff.update
    <3>1. k \notin diff.delete
      BY <2>1, PlannedKeys
    <3>2. k \in DiffKeys(diff) \/ Fetched.actual[k] = args.record[k]
      BY <2>2, PlanLeavesAlone DEF PlanHolds
    <3>3. Fetched.actual[k] # args.record[k]
      BY <2>0, <2>1, <2>3 DEF Desired
    <3> QED BY <3>1, <3>2, <3>3 DEF DiffKeys
  <2>5. CASE k \in diff.add
    <3> DEFINE q == Post(Turn(0, k, 0), k, v)
    <3>1. q \in AddRequests(k)
      BY <2>1 DEF AddRequests
    <3>2. q \in Requests
      BY <2>5, <3>1 DEF Requests
    <3>3. Provides(q, k, v)
      BY DEF Provides, Post
    <3> QED BY <3>2, <3>3
  <2>6. CASE k \in diff.update
    <3>1. CASE Retargets(k)
      <4>1. PICK u \in ValuesOf(fetched, k) : TRUE
        BY <2>6, PlannedKeys DEF ValuesOf
      <4>2. Indexed(fetched, k, u).key = k
        BY IndexHolds DEF At, TypeOK
      <4> DEFINE q == Retarget(Turn(Pass(k), k, 0), Indexed(fetched, k, u), v)
      <4>3. q \in UpdateRequests(k)
        BY <2>1, <3>1 DEF UpdateRequests, Retargets
      <4>4. q \in Requests
        BY <2>6, <4>3 DEF Requests
      <4>5. Provides(q, k, v)
        BY <4>2 DEF Provides, Retarget
      <4> QED BY <4>4, <4>5
    <3>2. CASE ~Retargets(k)
      <4> DEFINE q == Post(Turn(Pass(k), k, 0), k, v)
      <4>1. q \in UpdateRequests(k)
        BY <2>0, <2>1, <3>2 DEF UpdateRequests, Retargets
      <4>2. q \in Requests
        BY <2>6, <4>1 DEF Requests
      <4>3. Provides(q, k, v)
        BY DEF Provides, Post
      <4> QED BY <4>2, <4>3
    <3> QED BY <3>1, <3>2
  <2> QED BY <2>4, <2>5, <2>6
<1>4. \A q \in Requests : At(fetched, q.key) \subseteq zone
  BY DEF At, Listed
<1> QED BY <1>2, <1>3, <1>4 DEF OnCourse

\* A request that may be sent now finds the record its plan fetched, and what
\* it removes from the zone has its key and its id.
LEMMA Addressed ==
    ASSUME TypeOK, Coherent, NEW q, RequestOK(q), Deliverable(zone, q), q.op # "POST"
    PROVE  \E r \in zone \cap fetched :
             /\ Finds(q) = {r} /\ r.id = q.id /\ r.key = q.key
             /\ q.op = "PATCH" => r.val = q.val
             /\ q.op \in {"DELETE", "RETARGET"} => r.val \notin Wanted(q.key)
<1>1. PICK r \in fetched \cap zone : r.id = q.id
  BY DEF Deliverable
<1>2. PICK s \in fetched :
        /\ s.id = q.id /\ s.key = q.key
        /\ q.op = "PATCH" => s.val = q.val
        /\ q.op \in {"DELETE", "RETARGET"} => s.val \notin Wanted(q.key)
  BY DEF RequestOK
<1>3. r = s
  BY <1>1, <1>2 DEF Coherent, WellFormed, UniqueIds
<1>4. Finds(q) = {r}
  BY <1>1 DEF Finds, Coherent, WellFormed, UniqueIds
<1> QED BY <1>1, <1>2, <1>3, <1>4

\* What a request that succeeds leaves in the zone: every record it does not
\* address, and in place of one it patches a record of the same key.
LEMMA Leaves ==
    ASSUME TypeOK, Coherent, NEW q, RequestOK(q), Deliverable(zone, q), Succeeds(q)
    PROVE  /\ \A r \in zone : r.id # q.id => r \in After(q)
           /\ \A r \in After(q) \ zone :
                /\ r.key = q.key /\ q.op # "DELETE"
                /\ r.ttl = q.ttl /\ r.proxied = FALSE /\ r.val = q.val
           /\ \A r \in zone \ After(q) :
                r.key = q.key /\ q.op # "POST" /\ r.id = q.id /\ r \in fetched
           /\ q.op # "DELETE" => \E r \in After(q) : r.key = q.key /\ r.val = q.val
           /\ q.op \notin {"POST", "DELETE"} => At(zone, q.key) # {}
<1>1. CASE q.op = "POST"
  <2>1. After(q) = zone \cup {Created(q)}
    BY <1>1, Effect DEF Coherent
  <2>2. /\ Created(q).key = q.key /\ Created(q).val = q.val /\ Created(q).ttl = q.ttl
        /\ Created(q).proxied = FALSE
    BY DEF Created
  <2> QED BY <1>1, <2>1, <2>2
<1>2. CASE q.op = "DELETE"
  <2>1. After(q) = zone \ Finds(q)
    BY <1>2, Effect DEF Coherent
  <2>2. PICK r \in zone \cap fetched : Finds(q) = {r} /\ r.id = q.id /\ r.key = q.key
    BY <1>2, Addressed
  <2> QED BY <1>2, <2>1, <2>2
<1>3. CASE q.op \in {"PATCH", "RETARGET"}
  <2>1. PICK r \in zone :
                   /\ r.id = q.id /\ Finds(q) = {r}
                   /\ After(q) = (zone \ {r}) \cup {Patched(q, r)}
    BY <1>3, Effect DEF Coherent
  <2>2. PICK s \in zone \cap fetched :
             /\ Finds(q) = {s} /\ s.key = q.key
             /\ q.op = "PATCH" => s.val = q.val
    BY <1>3, Addressed
  <2>3. r = s /\ r.key = q.key
    BY <2>1, <2>2
  <2>4. q.val \in Val /\ q.ttl \in Ttl /\ r \in Raw
    BY <1>3 DEF RequestOK, Succeeds, Coherent, WellFormed
  <2>5. /\ Patched(q, r).key = r.key /\ Patched(q, r).ttl = q.ttl
        /\ Patched(q, r).proxied = FALSE
        /\ Patched(q, r).val = IF q.op = "RETARGET" THEN q.val ELSE r.val
    <3>1. q.key \in Proxiable \/ ~r.proxied
      BY <2>1, <2>3 DEF Coherent, WellFormed
    <3> QED BY <2>4, <3>1, PatchedIs
  <2>6. Patched(q, r).val = q.val
    BY <1>3, <2>2, <2>3, <2>5
  <2> QED BY <1>3, <2>1, <2>2, <2>3, <2>5, <2>6 DEF At
<1> QED BY <1>1, <1>2, <1>3 DEF RequestOK

\* And it stays on course when the request that is due has succeeded.
LEMMA StaysOnCourse ==
    ASSUME TypeOK, Coherent, SingleTargets(args), PlanHolds, todo \subseteq Requests,
           OnCourse(zone, todo), NEW q \in todo, Due(q), Succeeds(q)
    PROVE  OnCourse(After(q), todo \ {q})
<1>1. ASSUME NEW p \in todo
      PROVE  RequestOK(p) /\ Deliverable(zone, p)
  BY <1>1, RequestFacts DEF Coherent, WellFormed, OnCourse
<1>2. ASSUME NEW p \in todo \ {q}
      PROVE  /\ p.op # "POST" /\ q.op # "POST" => p.id # q.id
             /\ p.op = "POST" /\ q.op = "POST" /\ p.key = q.key => p.val # q.val
             /\ p.op = "RETARGET" => p.key # q.key
             /\ q.op = "RETARGET" => p.key # q.key
             /\ p.op = "POST" /\ q.op # "POST" => p.key # q.key
  <2>1. p \in Requests /\ q \in Requests /\ q.turn <= p.turn
    BY DEF Due
  <2> QED BY <1>2, <2>1, RequestsApart DEF Coherent, WellFormed
<1>3. RequestOK(q) /\ Deliverable(zone, q)
  BY <1>1
<1>4. /\ \A r \in zone : r.id # q.id => r \in After(q)
      /\ \A r \in After(q) \ zone :
           /\ r.key = q.key /\ q.op # "DELETE"
           /\ r.ttl = q.ttl /\ r.proxied = FALSE /\ r.val = q.val
      /\ \A r \in zone \ After(q) :
           r.key = q.key /\ q.op # "POST" /\ r.id = q.id /\ r \in fetched
      /\ q.op # "DELETE" => \E r \in After(q) : r.key = q.key /\ r.val = q.val
      /\ q.op \notin {"POST", "DELETE"} => At(zone, q.key) # {}
  BY <1>3, Leaves
<1>5. ASSUME NEW p \in todo \ {q}
      PROVE  Deliverable(After(q), p)
  <2>1. CASE p.op # "POST"
    <3>1. PICK s \in fetched \cap zone : s.id = p.id
      BY <1>1, <2>1 DEF Deliverable
    <3>2. s.id # q.id
      <4>1. CASE q.op = "POST"
        BY <1>3, <4>1 DEF RequestOK, TypeOK, Raw
      <4>2. CASE q.op # "POST"
        BY <1>2, <2>1, <3>1, <4>2
      <4> QED BY <4>1, <4>2
    <3> QED BY <1>4, <2>1, <3>1, <3>2 DEF Deliverable
  <2>2. CASE p.op = "POST"
    <3>1. /\ p.val \notin ValuesOf(zone, p.key)
          /\ p.key \in CnameKey => At(zone, p.key) = {}
          /\ \A s \in Listed(zone) : ~Clash(s.key, p.key)
      BY <1>1, <2>2 DEF Deliverable
    <3>2. q.op # "POST" => p.key # q.key
      BY <1>2, <2>2
    <3>3. ~(q.op # "DELETE" /\ Clash(q.key, p.key))
      <4>1. ASSUME q.op # "DELETE"
            PROVE  q.key \in Desired(args) /\ p.key \in Desired(args)
        BY <1>1, <1>3, <2>2, <4>1, PlannedKeys DEF RequestOK
      <4> QED BY <4>1 DEF PlanHolds, PlanRefuses, TruthConflict
    <3>4. p.val \notin ValuesOf(After(q), p.key)
      <4> SUFFICES ASSUME NEW r \in After(q), r.key = p.key, r.val = p.val
                   PROVE  FALSE
        BY DEF ValuesOf, At
      <4>1. r \in After(q) \ zone
        BY <3>1 DEF ValuesOf, At
      <4>2. q.op = "POST"
        BY <1>4, <3>2, <4>1
      <4> QED BY <1>2, <1>4, <2>2, <4>1, <4>2
    <3>5. p.key \in CnameKey => At(After(q), p.key) = {}
      <4> SUFFICES ASSUME p.key \in CnameKey, NEW r \in After(q), r.key = p.key
                   PROVE  FALSE
        BY DEF At
      <4>1. r \in After(q) \ zone
        BY <3>1 DEF At
      <4>2. q.op = "POST" /\ q.key = p.key
        BY <1>4, <3>2, <4>1
      <4>3. q.val \in Wanted(p.key) /\ p.val \in Wanted(p.key) /\ p.key \in Managed
        BY <1>1, <1>3, <2>2, <4>2 DEF RequestOK
      <4>4. q.val = p.val
        BY <4>3 DEF SingleTargets, Wanted
      <4> QED BY <1>2, <2>2, <4>2, <4>4
    <3>6. \A s \in Listed(After(q)) : ~Clash(s.key, p.key)
      BY <1>4, <3>1, <3>3 DEF Listed
    <3> QED BY <2>2, <3>4, <3>5, <3>6 DEF Deliverable
  <2> QED BY <2>1, <2>2
<1>6. ASSUME NEW p \in todo \ {q}, p.op \in {"POST", "RETARGET"}
      PROVE  At(fetched, p.key) \subseteq After(q)
  <2>1. At(fetched, p.key) \subseteq zone
    BY <1>6 DEF OnCourse
  <2>2. q.op # "POST" => p.key # q.key
    BY <1>2, <1>6
  <2> QED BY <1>4, <2>1, <2>2 DEF At
<1>7. ASSUME NEW k \in Managed, NEW v \in Wanted(k), v \notin ValuesOf(After(q), k)
      PROVE  \E p \in todo \ {q} : Provides(p, k, v)
  <2>1. ~Provides(q, k, v)
    BY <1>4, <1>7 DEF Provides, ValuesOf, At
  <2>2. v \notin ValuesOf(zone, k)
    <3> SUFFICES ASSUME NEW r \in zone, r.key = k, r.val = v
                 PROVE  FALSE
      BY DEF ValuesOf, At
    <3>1. r \notin After(q)
      BY <1>7 DEF ValuesOf, At
    <3>2. q.op # "POST" /\ r.id = q.id /\ q.key = k
      BY <1>4, <3>1
    <3>3. PICK s \in zone \cap fetched :
             /\ Finds(q) = {s} /\ s.id = q.id
             /\ q.op = "PATCH" => s.val = q.val
             /\ q.op \in {"DELETE", "RETARGET"} => s.val \notin Wanted(q.key)
      BY <1>3, <3>2, Addressed
    <3>4. r = s
      BY <3>2, <3>3 DEF TypeOK
    <3>5. q.op = "PATCH" /\ q.val = v
      BY <1>3, <3>2, <3>3, <3>4 DEF RequestOK
    <3> QED BY <1>4, <1>7, <3>2, <3>5 DEF ValuesOf, At
  <2> QED BY <2>1, <2>2 DEF OnCourse
<1> QED BY <1>5, <1>6, <1>7 DEF OnCourse

LEMMA SameCourse ==
    ASSUME args' = args, fetched' = fetched
    PROVE  OnCourse(zone, todo)' = OnCourse(zone', todo')
BY DEF OnCourse, Deliverable, Provides, Wanted, ValuesOf, At, Listed, Clash

LEMMA CourseStep == IInv /\ FetchedTruly /\ Course /\ [Next]_vars => Course'
<1> SUFFICES ASSUME IInv, FetchedTruly, Course, [Next]_vars, ~edited', Writing'
             PROVE  OnCourse(zone, todo)'
  BY DEF Course
<1> USE DEF IInv
<1>1. pc' = "write" \/ todo' # {}
  BY DEF Writing
<1>2. ASSUME UNCHANGED <<zone, args, fetched, todo>>, edited' = edited, pc' = "write" => pc = "write"
      PROVE  OnCourse(zone, todo)'
  BY <1>1, <1>2, SameCourse DEF Course, Writing
<1>3. CASE Foreign \/ FetchShifted
  BY <1>3 DEF Foreign, FetchShifted, Disturb
<1>4. CASE Start \/ Fetch \/ Plan \/ Refetch \/ Verify
  BY <1>1, <1>4 DEF Start, Fetch, Plan, Refetch, Verify, Phases
<1>5. CASE Vet
  <2>1. pc = "vet" /\ todo' = Requests /\ UNCHANGED <<zone, args, fetched, edited>>
    BY <1>1, <1>5 DEF Vet, luck
  <2>2. fetched = Listed(zone)
    BY <2>1 DEF FetchedTruly
  <2>3. PlanHolds /\ SingleTargets(args)
    BY <2>1 DEF PlanStands, Phases
  <2> QED BY <2>1, <2>2, <2>3, SetsOut, SameCourse
<1>6. CASE \E q \in todo : Send(q)
  <2>1. PICK q \in todo : Send(q)
    BY <1>6
  <2>2. /\ Due(q) /\ Succeeds(q) /\ zone' = After(q) /\ todo' = todo \ {q}
        /\ UNCHANGED <<args, fetched>> /\ edited' = edited
    BY <2>1 DEF Send, luck, Fault
  <2>3. Writing /\ PlanHolds /\ SingleTargets(args) /\ todo \subseteq Requests
    BY <2>2 DEF Due, Writing, PlanStands, Phases
  <2>4. OnCourse(After(q), todo \ {q})
    BY <2>2, <2>3, StaysOnCourse DEF Course
  <2> QED BY <2>2, <2>4, SameCourse
<1>7. CASE RequestFails \/ Interrupt
  BY <1>2, <1>7 DEF RequestFails, Interrupt, Fault
<1>8. CASE \E q \in todo : Refused(q)
  BY <1>2, <1>8 DEF Refused, luck
<1>9. CASE UNCHANGED vars
  BY <1>2, <1>9 DEF vars, run, luck
<1> QED BY <1>3, <1>4, <1>5, <1>6, <1>7, <1>8, <1>9 DEF Next, Progress

LEMMA KeepsCourse == Spec => []Course
<1>1. Init => Course
  BY DEF Init, FreshRun, Course, Writing
<1> QED BY <1>1, Invariant, Truly, CourseStep, PTL DEF Spec

\* From the fetch on, through every request, failure and interrupt, a name that
\* is being updated answers with all of its old values or all of its new
\* ("over-serves instead of under-serving", cloudflare.py:475-479).
THEOREM NeverServesLess == Spec => []NeverUnderServes
<1>1. IInv /\ FetchedTruly /\ Course => NeverUnderServes
  <2> SUFFICES ASSUME IInv, FetchedTruly, Course, ~edited, pc \in {"vet", "write"} \/ todo # {},
                      NEW k \in diff.update
               PROVE  \/ args.record[k].vals \subseteq ValuesOf(zone, k)
                      \/ ValuesOf(fetched, k) \subseteq ValuesOf(zone, k)
    BY DEF NeverUnderServes
  <2>1. CASE ~Writing
    BY <2>1 DEF Writing, FetchedTruly, ValuesOf, At, Listed
  <2>2. CASE Writing
    <3>1. OnCourse(zone, todo)
      BY <2>2 DEF Course
    <3>2. k \in Managed /\ Wanted(k) = args.record[k].vals
      BY <2>2, PlannedKeys, WantedAt DEF IInv, PlanStands, Desired
    <3>3. CASE \E q \in todo : q.op \in {"POST", "RETARGET"} /\ q.key = k
      BY <3>1, <3>3 DEF OnCourse, ValuesOf, At
    <3>4. CASE ~\E q \in todo : q.op \in {"POST", "RETARGET"} /\ q.key = k
      BY <3>1, <3>2, <3>4 DEF OnCourse, Provides
    <3> QED BY <3>3, <3>4
  <2> QED BY <2>1, <2>2
<1> QED BY <1>1, Invariant, Truly, KeepsCourse, PTL

-----------------------------------------------------------------------------
(* Where contents have one spelling, an undisturbed run succeeds *)

OneSpelling == \A s, t \in Spelling : s = t

\* Every record that is not as truth wants it has a request to come.
AsWanted(r) ==
    /\ r.val \in Wanted(r.key)
    /\ r.ttl = args.record[r.key].ttl /\ ~r.proxied

Tidied(raws, pending) ==
    \A r \in raws : r.key \in Managed => AsWanted(r) \/ \E q \in pending : q.id = r.id

Tidy == ~edited /\ Writing => Tidied(zone, todo)

Settled ==
    ~edited /\ pc \in {"refetch", "verify"} =>
        MatchesTruth /\ ~TruthConflict(args) /\ args.twice = {}

LEMMA SetsOutTidy ==
    ASSUME OneSpelling, TypeOK, Coherent, PlanHolds, fetched = Listed(zone)
    PROVE  Tidied(zone, Requests)
<1> SUFFICES ASSUME NEW r \in fetched, r.key \in Managed, ~AsWanted(r)
             PROVE  \E q \in Requests : q.id = r.id
  BY DEF Tidied, Listed
<1> DEFINE k == r.key
<1>1. Fetched \in Reading /\ args \in Args /\ k \in Key /\ r \in At(fetched, k) /\ r \in Raw
  BY FetchedIsReading DEF TypeOK, At
<1>2. /\ Fetched.actual[k] # Absent
      /\ Fetched.actual[k] = [vals |-> ValuesOf(fetched, k), ttl |-> Min(TtlsOf(fetched, k))]
  BY <1>1, RecordShown DEF Fetched, TypeOK
<1>3. CASE k \in diff.delete
  <2>1. Remove(Turn(3, k, 0), r) \in DeleteRequests(k)
    BY <1>1 DEF DeleteRequests
  <2>2. Remove(Turn(3, k, 0), r) \in Requests
    BY <1>3, <2>1 DEF Requests
  <2> QED BY <2>2 DEF Remove
<1>4. CASE k \in diff.update
  <2>1. ASSUME NEW q \in UpdateRequests(k)
        PROVE  q \in Requests
    BY <1>4 DEF Requests
  <2>2. k \in Desired(args) /\ Wanted(k) = args.record[k].vals /\ args.record[k].vals # {}
    BY <1>4, PlannedKeys, WantedAt
  <2>3. r.val \in ValuesOf(fetched, k)
    BY <1>1 DEF ValuesOf
  <2>4. Indexed(fetched, k, r.val) = r
    <3>1. Indexed(fetched, k, r.val) \in At(fetched, k) /\ Indexed(fetched, k, r.val).val = r.val
      BY <2>3, IndexHolds DEF TypeOK
    <3>2. Indexed(fetched, k, r.val).spelling = r.spelling
      BY <1>1, <3>1 DEF OneSpelling, At, TypeOK, Raw
    <3> QED BY <3>1, <3>2 DEF Coherent, WellFormed, Accepted, Accepts, At
  <2>5. CASE Retargets(k)
    <3>1. PICK w \in args.record[k].vals : TRUE
      BY <2>2
    <3>2. Retarget(Turn(Pass(k), k, 0), Indexed(fetched, k, r.val), w) \in UpdateRequests(k)
      BY <2>3, <2>5, <3>1 DEF UpdateRequests, Retargets
    <3> QED BY <2>1, <2>4, <3>2 DEF Retarget
  <2>6. CASE ~Retargets(k) /\ r.val \notin args.record[k].vals
    <3>1. Remove(Turn(Pass(k), k, 1), Indexed(fetched, k, r.val)) \in UpdateRequests(k)
      BY <2>3, <2>6 DEF UpdateRequests, Retargets
    <3> QED BY <2>1, <2>4, <3>1 DEF Remove
  <2>7. CASE ~Retargets(k) /\ r.val \in args.record[k].vals
    <3>1. r.ttl # args.record[k].ttl \/ r.proxied
      BY <2>2, <2>7 DEF AsWanted
    <3>2. Patch(Turn(Pass(k), k, 2), Indexed(fetched, k, r.val)) \in UpdateRequests(k)
      BY <2>3, <2>4, <2>7, <3>1 DEF UpdateRequests, Retargets
    <3> QED BY <2>1, <2>4, <3>2 DEF Patch
  <2> QED BY <2>5, <2>6, <2>7
<1>5. CASE k \notin diff.delete \cup diff.update
  <2>1. k \notin DiffKeys(diff)
    BY <1>1, <1>5, PlannedKeys DEF DiffKeys
  <2>2. /\ Fetched.actual[k] = args.record[k]
        /\ args.record[k] # Absent => k \notin Fetched.drifted
    BY <1>1, <2>1, PlanLeavesAlone DEF PlanHolds
  <2>3. k \notin SplitTtl(fetched) /\ k \notin Proxied(fetched)
    BY <1>2, <2>2 DEF Fetched
  <2>4. ~r.proxied
    BY <2>3 DEF Proxied
  <2>5. r.ttl = Min(TtlsOf(fetched, k))
    BY <1>1, <2>3, OneTtl DEF TypeOK, Coherent, WellFormed
  <2>6. r.val \in ValuesOf(fetched, k)
    BY <1>1 DEF ValuesOf
  <2> QED BY <1>2, <2>2, <2>4, <2>5, <2>6 DEF AsWanted, Wanted
<1> QED BY <1>3, <1>4, <1>5

LEMMA StaysTidy ==
    ASSUME TypeOK, Coherent, NEW q \in todo, RequestOK(q), Deliverable(zone, q), Succeeds(q),
           Tidied(zone, todo)
    PROVE  Tidied(After(q), todo \ {q})
<1> SUFFICES ASSUME NEW r \in After(q), r.key \in Managed, ~AsWanted(r)
             PROVE  \E p \in todo \ {q} : p.id = r.id
  BY DEF Tidied
<1>1. /\ \A s \in After(q) \ zone :
           /\ s.key = q.key /\ q.op # "DELETE"
           /\ s.ttl = q.ttl /\ s.proxied = FALSE /\ s.val = q.val
  BY Leaves
<1>2. r \in zone
  <2> SUFFICES ASSUME r \notin zone
               PROVE  AsWanted(r)
    OBVIOUS
  <2> QED BY <1>1 DEF RequestOK, AsWanted
<1>3. PICK p \in todo : p.id = r.id
  BY <1>2 DEF Tidied
<1>4. CASE p # q
  BY <1>3, <1>4
<1>5. CASE p = q
  <2>1. q.op # "POST"
    BY <1>2, <1>3, <1>5 DEF RequestOK, TypeOK, Raw
  <2>2. r \in Finds(q)
    BY <1>2, <1>3, <1>5 DEF Finds
  <2>3. q.op \in {"PATCH", "RETARGET"}
    BY <2>1, <2>2, Effect DEF RequestOK, Coherent
  <2>4. PICK s \in zone :
                   /\ Finds(q) = {s}
                   /\ After(q) = (zone \ {s}) \cup {Patched(q, s)}
    BY <2>3, Effect DEF Coherent
  <2>5. r = Patched(q, r)
    BY <2>2, <2>4
  <2>6. PICK t \in zone \cap fetched :
             /\ Finds(q) = {t} /\ t.key = q.key /\ (q.op = "PATCH" => t.val = q.val)
    BY <2>1, Addressed
  <2>7. r = t
    BY <2>2, <2>6
  <2>8. q.val \in Val /\ q.ttl \in Ttl /\ r \in Raw
    BY <1>2, <2>3 DEF RequestOK, Succeeds, TypeOK
  <2>9. /\ Patched(q, r).ttl = q.ttl /\ Patched(q, r).proxied = FALSE
        /\ Patched(q, r).val = IF q.op = "RETARGET" THEN q.val ELSE r.val
    <3>1. q.key \in Proxiable \/ ~r.proxied
      BY <1>2, <2>6, <2>7 DEF Coherent, WellFormed
    <3> QED BY <2>8, <3>1, PatchedIs
  <2> QED BY <2>3, <2>5, <2>6, <2>7, <2>9 DEF RequestOK, AsWanted
<1> QED BY <1>4, <1>5

LEMMA SameTidied ==
    ASSUME args' = args
    PROVE  Tidied(zone, todo)' = Tidied(zone', todo')
BY DEF Tidied, AsWanted, Wanted

LEMMA TidyStep == OneSpelling /\ IInv /\ FetchedTruly /\ Course /\ Tidy /\ [Next]_vars => Tidy'
<1> SUFFICES ASSUME OneSpelling, IInv, FetchedTruly, Course, Tidy, [Next]_vars, ~edited', Writing'
             PROVE  Tidied(zone, todo)'
  BY DEF Tidy
<1> USE DEF IInv
<1>1. pc' = "write" \/ todo' # {}
  BY DEF Writing
<1>2. ASSUME UNCHANGED <<zone, args, todo>>, edited' = edited, pc' = "write" => pc = "write"
      PROVE  Tidied(zone, todo)'
  BY <1>1, <1>2, SameTidied DEF Tidy, Writing
<1>3. CASE Foreign \/ FetchShifted
  BY <1>3 DEF Foreign, FetchShifted, Disturb
<1>4. CASE Start \/ Fetch \/ Plan \/ Refetch \/ Verify
  BY <1>1, <1>4 DEF Start, Fetch, Plan, Refetch, Verify, Phases
<1>5. CASE Vet
  <2>1. pc = "vet" /\ todo' = Requests /\ UNCHANGED <<zone, args, fetched, edited>>
    BY <1>1, <1>5 DEF Vet, luck
  <2>2. fetched = Listed(zone) /\ PlanHolds
    BY <2>1 DEF FetchedTruly, PlanStands
  <2> QED BY <2>1, <2>2, SetsOutTidy, SameTidied
<1>6. CASE \E q \in todo : Send(q)
  <2>1. PICK q \in todo : Send(q)
    BY <1>6
  <2>2. /\ Due(q) /\ Succeeds(q) /\ zone' = After(q) /\ todo' = todo \ {q}
        /\ UNCHANGED <<args, fetched>> /\ edited' = edited
    BY <2>1 DEF Send, luck, Fault
  <2>3. RequestOK(q) /\ Deliverable(zone, q) /\ Tidied(zone, todo)
    BY <2>2, PendingOK DEF Writing, Course, OnCourse, Tidy
  <2>4. Tidied(After(q), todo \ {q})
    BY <2>2, <2>3, StaysTidy
  <2> QED BY <2>2, <2>4, SameTidied
<1>7. CASE RequestFails \/ Interrupt
  BY <1>2, <1>7 DEF RequestFails, Interrupt, Fault
<1>8. CASE \E q \in todo : Refused(q)
  BY <1>2, <1>8 DEF Refused, luck
<1>9. CASE UNCHANGED vars
  BY <1>2, <1>9 DEF vars, run, luck
<1> QED BY <1>3, <1>4, <1>5, <1>6, <1>7, <1>8, <1>9 DEF Next, Progress

\* With nothing left to send, a run on course has made the zone as truth says.
LEMMA DoneIsServed ==
    ASSUME TypeOK, OnCourse(zone, {}), Tidied(zone, {})
    PROVE  MatchesTruth
<1> SUFFICES ASSUME NEW k \in Managed
             PROVE  IsServed(k)
  BY DEF MatchesTruth
<1>1. \A r \in At(zone, k) : AsWanted(r) /\ r.key = k
  BY DEF Tidied, At
<1>2. \A v \in Wanted(k) : v \in ValuesOf(zone, k)
  BY DEF OnCourse
<1>3. CASE args.record[k] = Absent
  BY <1>1, <1>3 DEF IsServed, AsWanted, Wanted
<1>4. CASE args.record[k] # Absent
  <2>1. ValuesOf(zone, k) = args.record[k].vals
    BY <1>1, <1>2, <1>4 DEF ValuesOf, AsWanted, Wanted
  <2> QED BY <1>1, <1>4, <2>1 DEF IsServed, AsWanted
<1> QED BY <1>3, <1>4

LEMMA SettledStep == IInv /\ Course /\ Tidy /\ Settled /\ [Next]_vars => Settled'
<1> SUFFICES ASSUME IInv, Course, Tidy, Settled, [Next]_vars, ~edited', pc' \in {"refetch", "verify"}
             PROVE  (MatchesTruth /\ ~TruthConflict(args) /\ args.twice = {})'
  BY DEF Settled
<1> USE DEF IInv
<1>1. ASSUME UNCHANGED <<zone, args>>, MatchesTruth, ~TruthConflict(args), args.twice = {}
      PROVE  (MatchesTruth /\ ~TruthConflict(args) /\ args.twice = {})'
  BY <1>1 DEF MatchesTruth, IsServed, At, ValuesOf, TruthConflict, Desired, Clash
<1>2. CASE Foreign \/ FetchShifted
  BY <1>2 DEF Foreign, FetchShifted, Disturb
<1>3. CASE Fetch
  BY <1>1, <1>3 DEF Fetch, luck, Settled
<1>4. CASE Refetch
  <2>1. pc = "write" /\ todo = {} /\ UNCHANGED <<zone, args>> /\ edited' = edited
    BY <1>4 DEF Refetch, luck
  <2>2. MatchesTruth
    BY <2>1, DoneIsServed DEF Course, Tidy, Writing
  <2>3. ~TruthConflict(args) /\ args.twice = {}
    BY <2>1 DEF PlanStands, Writing, PlanHolds, PlanRefuses
  <2> QED BY <1>1, <2>1, <2>2, <2>3
<1>5. CASE Plan \/ Vet \/ Verify \/ Start \/ RequestFails \/ Interrupt
           \/ \E q \in todo : Send(q) \/ Refused(q)
  BY <1>5 DEF Plan, Vet, Verify, Start, RequestFails, Interrupt, Send, Refused, Due, Ended
<1>6. CASE UNCHANGED vars
  BY <1>1, <1>6 DEF vars, run, luck, Settled
<1> QED BY <1>2, <1>3, <1>4, <1>5, <1>6 DEF Next, Progress

\* No record that the fetch leaves out stands in the way of a managed one.
NoHiddenClash == \A j \in Unlisted, k \in Managed : ~Clash(j, k)

\* Cloudflare accepts each request of a run that is on course, and the record
\* it names is the one it was meant for.
LEMMA CourseSucceeds ==
    ASSUME NoHiddenClash, TypeOK, Coherent, TtlsAccepted, NEW q, RequestOK(q),
           Deliverable(zone, q)
    PROVE  Succeeds(q) /\ ~Moved(q)
<1>0. ~Moved(q)
  <2>1. CASE q.op = "POST"
    BY <2>1 DEF Moved, Finds, RequestOK, TypeOK, Raw
  <2>2. CASE q.op # "POST"
    BY <2>2, Addressed DEF Moved
  <2> QED BY <2>1, <2>2
<1>1. q.op # "DELETE" => q.ttl \in ValidTtl
  BY DEF RequestOK, TtlsAccepted
<1>2. CASE q.op = "POST"
  <2>1. Created(q).key = q.key /\ Created(q).val = q.val
    BY DEF Created
  <2>2. \A s \in zone : ~Clash(s.key, q.key)
    BY <1>2 DEF Deliverable, Listed, NoHiddenClash, RequestOK
  <2>3. Accepts(zone, Created(q))
    BY <1>2, <2>1, <2>2 DEF Accepts, Deliverable, ValuesOf, At
  <2> QED BY <1>0, <1>1, <1>2, <2>3 DEF Succeeds
<1>3. CASE q.op = "DELETE"
  BY <1>0, <1>1, <1>3, Addressed DEF Succeeds
<1>4. CASE q.op \in {"PATCH", "RETARGET"}
  <2>1. PICK r \in zone \cap fetched :
             /\ Finds(q) = {r} /\ r.key = q.key /\ (q.op = "PATCH" => r.val = q.val)
    BY <1>4, Addressed
  <2>2. q.val \in Val /\ q.ttl \in Ttl /\ r \in Raw
    BY <1>1, <1>4 DEF RequestOK, TypeOK
  <2>3. /\ Patched(q, r).key = r.key /\ Patched(q, r).spelling = r.spelling
        /\ Patched(q, r).val = IF q.op = "RETARGET" THEN q.val ELSE r.val
    BY <2>2, PatchedIs
  <2>4. Accepts(zone \ {r}, r)
    BY DEF Coherent, WellFormed, Accepted
  <2>5. Accepts(zone \ {r}, Patched(q, r))
    <3>1. CASE q.op = "PATCH"
      BY <2>3, <2>4, <3>1 DEF Accepts
    <3>2. CASE q.op = "RETARGET"
      <4>1. At(zone \ {r}, r.key) = {}
        BY <2>1, <2>4, <3>2 DEF Accepts, RequestOK
      <4> QED BY <2>3, <2>4, <4>1 DEF Accepts, At
    <3> QED BY <1>4, <3>1, <3>2
  <2> QED BY <1>0, <1>1, <1>4, <2>1, <2>5 DEF Succeeds
<1> QED BY <1>2, <1>3, <1>4 DEF RequestOK

\* A zone as truth says, where truth can be planned, is verified.
LEMMA ServedVerifies ==
    ASSUME TypeOK, Coherent, fetched = Listed(zone), MatchesTruth, ~TruthConflict(args), args.twice = {}
    PROVE  ~PlanRefuses(args, Fetched) /\ IsConverged(PlannedDiff(args, Fetched))
<1>1. Fetched \in Reading /\ args \in Args
  BY FetchedIsReading DEF TypeOK
<1>2. ASSUME NEW k \in Desired(args)
      PROVE  /\ At(fetched, k) # {} /\ ValuesOf(fetched, k) = args.record[k].vals
             /\ TtlsOf(fetched, k) = {args.record[k].ttl} /\ args.record[k].ttl \in Ttl
             /\ \A r \in At(fetched, k) : ~r.proxied
             /\ args.record[k] = [vals |-> args.record[k].vals, ttl |-> args.record[k].ttl]
  <2>1. /\ args.record[k].vals # {} /\ args.record[k].ttl \in Ttl
        /\ args.record[k] = [vals |-> args.record[k].vals, ttl |-> args.record[k].ttl]
    BY WantedAt
  <2>2. /\ ValuesOf(fetched, k) = args.record[k].vals
        /\ \A r \in At(fetched, k) : r.ttl = args.record[k].ttl /\ ~r.proxied
    BY ListedAt DEF Desired, MatchesTruth, IsServed
  <2>3. At(fetched, k) # {}
    BY <2>1, <2>2 DEF ValuesOf
  <2>4. TtlsOf(fetched, k) = {args.record[k].ttl}
    BY <2>2, <2>3 DEF TtlsOf
  <2> QED BY <2>1, <2>2, <2>3, <2>4
<1>3. \A k \in Managed : Fetched.actual[k] = args.record[k]
  <2> SUFFICES ASSUME NEW k \in Managed
               PROVE  RecordOf(fetched, k) = args.record[k]
    BY DEF Fetched
  <2>1. CASE k \in Desired(args)
    <3>1. Min({args.record[k].ttl}) = args.record[k].ttl
      <4> DEFINE one == {args.record[k].ttl}
      <4>1. one \in SUBSET Nat /\ one # {}
        BY <1>2, <2>1
      <4> HIDE DEF one
      <4>2. Min(one) \in one
        BY <4>1, MinOf
      <4> QED BY <4>2 DEF one
    <3> QED BY <1>2, <2>1, <3>1 DEF RecordOf
  <2>2. CASE k \notin Desired(args)
    BY <2>2, ListedAt DEF Desired, MatchesTruth, IsServed, RecordOf
  <2> QED BY <2>1, <2>2
<1>4. \A k \in Desired(args) : k \notin Fetched.drifted
  <2> SUFFICES ASSUME NEW k \in Desired(args)
               PROVE  k \notin SplitTtl(fetched) /\ k \notin Proxied(fetched)
    BY DEF Fetched
  <2>1. Cardinality({args.record[k].ttl}) = 1
    BY FS_Singleton
  <2>2. ~(Cardinality(TtlsOf(fetched, k)) > 1)
    <3>1. TtlsOf(fetched, k) = {args.record[k].ttl}
      BY <1>2
    <3>2. Cardinality(TtlsOf(fetched, k)) = 1
      BY <2>1, <3>1, Zenon
    <3> QED BY <3>2
  <2>3. k \notin SplitTtl(fetched)
    BY <2>2, Zenon DEF SplitTtl
  <2>4. k \notin Proxied(fetched)
    BY <1>2 DEF Proxied, At
  <2> QED BY <2>3, <2>4
<1>5. Unwritable(Fetched) = {}
  BY DEF Unwritable, Fetched
<1> QED BY <1>1, <1>3, <1>4, <1>5, AgreementConverges

LEMMA QuietStep ==
    NoHiddenClash /\ IInv /\ FetchedTruly /\ Course /\ Settled /\ QuietRunSucceeds /\ [Next]_vars
        => QuietRunSucceeds'
<1> SUFFICES ASSUME NoHiddenClash, IInv, FetchedTruly, Course, Settled, QuietRunSucceeds, [Next]_vars,
                    pc' = "raised", sent', ~edited', ~faulted'
             PROVE  FALSE
  BY DEF QuietRunSucceeds
<1> USE DEF IInv
<1>1. CASE Foreign \/ FetchShifted
  BY <1>1 DEF Foreign, FetchShifted, Disturb
<1>2. CASE RequestFails \/ Interrupt
  BY <1>2 DEF RequestFails, Interrupt, Fault
<1>3. CASE Fetch
  BY <1>3 DEF Fetch, Phases
<1>4. CASE Plan \/ Vet
  BY <1>4 DEF Plan, Vet, Phases
<1>5. CASE Refetch \/ Start
  BY <1>5 DEF Refetch, Start
<1>6. CASE Verify
  <2>1. ~edited /\ fetched = Listed(zone)
    BY <1>6 DEF Verify, luck, FetchedTruly
  <2>2. ~PlanRefuses(args, Fetched) /\ IsConverged(PlannedDiff(args, Fetched))
    BY <1>6, <2>1, ServedVerifies DEF Verify, Settled
  <2> QED BY <1>6, <2>2 DEF Verify
<1>7. CASE \E q \in todo : Send(q)
  BY <1>7 DEF Send, Due, Fault
<1>8. CASE \E q \in todo : Refused(q)
  <2>1. PICK q \in todo : Refused(q)
    BY <1>8
  <2>2. ~edited /\ Writing /\ (~Succeeds(q) \/ Moved(q))
    BY <2>1 DEF Refused, Due, luck, Writing
  <2>3. RequestOK(q) /\ Deliverable(zone, q) /\ TtlsAccepted
    BY <2>2, PendingOK DEF Course, OnCourse, Phases
  <2> QED BY <2>2, <2>3, CourseSucceeds
<1>9. CASE UNCHANGED vars
  BY <1>9 DEF vars, run, luck, QuietRunSucceeds
<1> QED BY <1>1, <1>2, <1>3, <1>4, <1>5, <1>6, <1>7, <1>8, <1>9 DEF Next, Progress

\* Where a content has one wire form, and no record of a type the fetch leaves
\* out stands in the way of a managed one, a run that changed the zone fails
\* only if somebody edited the zone or a request failed: Cloudflare accepts
\* every request of a vetted plan in apply's order, and what they leave passes
\* verification.  With two forms a value's second record stays behind, and
\* verification fails on it: the run of CloudflareSpelling.cfg.  With an MX at
\* the name of a wanted CNAME its creation is refused on every run, after the
\* requests before it have changed the zone.
THEOREM QuietRuns == OneSpelling /\ NoHiddenClash => (Spec => []QuietRunSucceeds)
<1> SUFFICES ASSUME OneSpelling, NoHiddenClash
             PROVE  Spec => []QuietRunSucceeds
  OBVIOUS
<1>1. Init => Tidy /\ Settled /\ QuietRunSucceeds
  BY DEF Init, FreshRun, Tidy, Writing, Settled, QuietRunSucceeds
<1>2. IInv /\ FetchedTruly /\ Course /\ Tidy /\ Settled /\ QuietRunSucceeds /\ [Next]_vars
        => Tidy' /\ Settled' /\ QuietRunSucceeds'
  BY TidyStep, SettledStep, QuietStep
<1> QED BY <1>1, <1>2, Invariant, Truly, KeepsCourse, PTL DEF Spec

=============================================================================
