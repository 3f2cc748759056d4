--------------------------- MODULE CloudflareEdge ---------------------------
(***************************************************************************)
(* runner.apply_edge against a public zone through                         *)
(* providers.cloudflare.CloudflareProvider.  Cloudflare keeps one API      *)
(* record per value, each with a TTL, a proxy switch and an id, and has no *)
(* conditional writes: apply works by id from what the fetch returned, one *)
(* request at a time, and an RRset passes through intermediate sets.       *)
(***************************************************************************)
EXTENDS PlanEdge, Naturals, FiniteSets, FiniteSetsExt

CONSTANTS
    Val,            \* canonical record contents
    Ttl,            \* TTLs a record can carry, as numbers
    ValidTtl,       \* those _check_ttl lets through
    AutoTtl,        \* the TTL a proxied record shows
    Proxiable,      \* the keys of types Cloudflare can proxy
    Spelling,       \* wire forms one canonical content can have
    Order,          \* the place of each key in truth's list of records
    Unlisted,       \* keys whose records fetch_actual leaves out
    MaxEdits,       \* bound on the changes other writers make
    MaxFaults       \* bound on failed requests and interrupts

ASSUME CloudflareAssumption ==
    /\ Value = [vals : (SUBSET Val) \ {{}}, ttl : Ttl]
    /\ Ttl \subseteq Nat /\ ValidTtl \subseteq Ttl /\ AutoTtl \in ValidTtl
    /\ Proxiable \subseteq Key
    /\ Unlisted \subseteq Key \ Managed
    /\ Order \in [Key -> Nat] /\ \E j \in Key : \A k \in Key : Order[k] <= Order[j]
    /\ Spelling \subseteq Nat /\ \E s \in Spelling : \A t \in Spelling : t <= s
    /\ MaxEdits \in Nat /\ MaxFaults \in Nat

VARIABLES
    zone,           \* the API records at Cloudflare
    args,           \* the truth as read, and the operator's flags
    pc,             \* where apply_edge is
    fetched,        \* CloudflareProvider._api_records
    diff,           \* the planned diff
    todo,           \* requests of apply not yet sent
    mutating,       \* on_mutate has been called
    sent,           \* a request of this run has changed the zone
    edits, faults,  \* changes by others and failures so far
    edited, faulted \* whether one of them happened during this run

run == <<pc, fetched, diff, todo, mutating, sent>>
luck == <<edits, faults, edited, faulted>>
vars == <<zone, args, run, luck>>

Ended == {"returned", "raised", "interrupted"}
Steps == {"fetch", "plan", "vet", "write", "refetch", "verify"} \cup Ended

Raw == [id : Nat \ {0}, key : Key, val : Val, spelling : Spelling, ttl : Ttl, proxied : BOOLEAN]

-----------------------------------------------------------------------------
(* What fetch_actual makes of the API records *)

\* Records of an unsupported type, and sets it does not own and cannot
\* represent, are dropped: neither the diff nor the conflict check sees them.
Listed(raws) == {r \in raws : r.key \notin Unlisted}

At(raws, k) == {r \in raws : r.key = k}
ValuesOf(raws, k) == {r.val : r \in At(raws, k)}
TtlsOf(raws, k) == {r.ttl : r \in At(raws, k)}

\* The record set the model shows has the shortest of its records' TTLs.
RecordOf(raws, k) ==
    IF At(raws, k) = {} THEN Absent
    ELSE [vals |-> ValuesOf(raws, k), ttl |-> Min(TtlsOf(raws, k))]

SplitTtl(raws) == {k \in Key : Cardinality(TtlsOf(raws, k)) > 1}
Proxied(raws) == {r.key : r \in {s \in raws : s.proxied}}

\* Variant: a proxied record set is not flagged.
FetchedTtlsOnly ==
    [actual |-> [k \in Key |-> RecordOf(fetched, k)], blocked |-> {}, unparseable |-> {},
     drifted |-> SplitTtl(fetched)]

Fetched ==
    [actual |-> [k \in Key |-> RecordOf(fetched, k)], blocked |-> {}, unparseable |-> {},
     drifted |-> SplitTtl(fetched) \cup Proxied(fetched)]

\* The record an RRset's index holds for a value: the last one listed.
Indexed(raws, k, v) ==
    CHOOSE r \in At(raws, k) :
        r.val = v /\ \A s \in At(raws, k) : s.val = v => s.spelling <= r.spelling

-----------------------------------------------------------------------------
(* The requests of apply, each with its turn *)

\* Adds, updates, forced updates, deletes.  The first two keep truth's order of
\* records; the others come as the zone lists them, in an order of its own.
Turn(phase, k, step) ==
    LET place == IF phase \in {0, 1} THEN Order[k] ELSE 0
    IN  (phase * (Max({Order[j] : j \in Key}) + 1) + place) * 3 + step

\* _force_updates appends its updates to those of the diff.
Pass(k) == IF RecordOf(fetched, k) = args.record[k] THEN 2 ELSE 1

Post(turn, k, v) ==
    [turn |-> turn, op |-> "POST", key |-> k, val |-> v, ttl |-> args.record[k].ttl, id |-> 0]
Retarget(turn, r, v) ==
    [turn |-> turn, op |-> "RETARGET", key |-> r.key, val |-> v,
     ttl |-> args.record[r.key].ttl, id |-> r.id]
Patch(turn, r) ==
    [turn |-> turn, op |-> "PATCH", key |-> r.key, val |-> r.val,
     ttl |-> args.record[r.key].ttl, id |-> r.id]
Remove(turn, r) ==
    [turn |-> turn, op |-> "DELETE", key |-> r.key, val |-> r.val, ttl |-> r.ttl, id |-> r.id]

AddRequests(k) == {Post(Turn(0, k, 0), k, v) : v \in args.record[k].vals}

\* Variant: delete before create.
UpdateRequestsDeleteFirst(k) ==
    LET want == args.record[k].vals
        have == ValuesOf(fetched, k)
        Held(v) == Indexed(fetched, k, v)
        stale == {v \in want \cap have : Held(v).ttl # args.record[k].ttl \/ Held(v).proxied}
    IN  {Remove(Turn(Pass(k), k, 0), Held(v)) : v \in have \ want}
        \cup {Post(Turn(Pass(k), k, 1), k, v) : v \in want \ have}
        \cup {Patch(Turn(Pass(k), k, 2), Held(v)) : v \in stale}

\* Variant: a CNAME is updated like any other record set.
UpdateRequestsWithoutRetarget(k) ==
    LET want == args.record[k].vals
        have == ValuesOf(fetched, k)
        Held(v) == Indexed(fetched, k, v)
        stale == {v \in want \cap have : Held(v).ttl # args.record[k].ttl \/ Held(v).proxied}
    IN  {Post(Turn(Pass(k), k, 0), k, v) : v \in want \ have}
        \cup {Remove(Turn(Pass(k), k, 1), Held(v)) : v \in have \ want}
        \cup {Patch(Turn(Pass(k), k, 2), Held(v)) : v \in stale}

\* Create before delete, then the TTL and proxy of the records that stay; a
\* CNAME is retargeted in place, for a second one would be refused.
UpdateRequests(k) ==
    LET want == args.record[k].vals
        have == ValuesOf(fetched, k)
        Held(v) == Indexed(fetched, k, v)
        stale == {v \in want \cap have : Held(v).ttl # args.record[k].ttl \/ Held(v).proxied}
    IN  IF k \in CnameKey /\ want # have
        THEN {Retarget(Turn(Pass(k), k, 0), Held(v), w) : v \in have, w \in want}
        ELSE {Post(Turn(Pass(k), k, 0), k, v) : v \in want \ have}
             \cup {Remove(Turn(Pass(k), k, 1), Held(v)) : v \in have \ want}
             \cup {Patch(Turn(Pass(k), k, 2), Held(v)) : v \in stale}

DeleteRequests(k) == {Remove(Turn(3, k, 0), r) : r \in At(fetched, k)}

Requests ==
    (UNION {AddRequests(k) : k \in diff.add}) \cup (UNION {UpdateRequests(k) : k \in diff.update})
    \cup (UNION {DeleteRequests(k) : k \in diff.delete})

\* Variant: each mutation checks its own TTL, and nothing checks the diff.
TtlsAcceptedLater == TRUE

\* _check_ttl, over the whole diff before the first request.
TtlsAccepted == \A k \in diff.add \cup diff.update : args.record[k].ttl \in ValidTtl

-----------------------------------------------------------------------------
(* The zone *)

\* No second record of one content, no second CNAME, no CNAME coexistence.
Accepts(raws, r) ==
    /\ \A s \in raws : ~(s.key = r.key /\ s.val = r.val /\ s.spelling = r.spelling)
    /\ r.key \in CnameKey => At(raws, r.key) = {}
    /\ \A s \in raws : ~Clash(s.key, r.key)

\* Ids are not reused: a new one is neither in the zone nor in a run's hands.
Ids == {r.id : r \in zone \cup fetched}
NewId == CHOOSE i \in 1..(Cardinality(Ids) + 1) : i \notin Ids

Disturb == edits < MaxEdits /\ edits' = edits + 1 /\ edited' = TRUE /\ UNCHANGED <<faults, faulted>>

\* Somebody adds, changes or deletes one record at the dashboard.
ForeignAdd ==
    \E k \in Key, v \in Val, s \in Spelling, t \in ValidTtl :
        LET r == [id |-> NewId, key |-> k, val |-> v, spelling |-> s, ttl |-> t,
                  proxied |-> FALSE]
        IN  Accepts(zone, r) /\ zone' = zone \cup {r}
\* A change may give the record another name or type; its id stays.
ForeignChange ==
    \E r \in zone, k \in Key, v \in Val, p \in BOOLEAN :
        LET new == [r EXCEPT !.key = k, !.val = v, !.proxied = p,
                             !.ttl = IF p THEN AutoTtl ELSE r.ttl]
        IN  /\ new # r /\ (p => k \in Proxiable)
            /\ Accepts(zone \ {r}, new)
            /\ zone' = (zone \ {r}) \cup {new}
ForeignDelete == \E r \in zone : zone' = zone \ {r}

Foreign ==
    /\ ForeignAdd \/ ForeignChange \/ ForeignDelete
    /\ Disturb
    /\ UNCHANGED <<args, run>>

\* What a request addresses, and what it makes of it.  Every body that writes
\* an address record re-pins proxied:false; a TTL PATCH sends no content.  No
\* body names the record it patches: the id alone decides, and it may by now be
\* the id of a record of another key.
Finds(q) == {r \in zone : r.id = q.id}
Moved(q) == q.op # "DELETE" /\ \E r \in Finds(q) : r.key # q.key
Created(q) ==
    [id |-> NewId, key |-> q.key, val |-> q.val, spelling |-> Max(Spelling), ttl |-> q.ttl,
     proxied |-> FALSE]
\* Variant: the PATCH body leaves the proxy switch out.
PatchedTtlOnly(q, r) ==
    [r EXCEPT !.ttl = IF r.proxied THEN r.ttl ELSE q.ttl,
              !.val = IF q.op = "RETARGET" THEN q.val ELSE r.val]

Patched(q, r) ==
    LET p == r.proxied /\ q.key \notin Proxiable
    IN  [r EXCEPT !.proxied = p, !.ttl = IF p THEN r.ttl ELSE q.ttl,
                  !.val = IF q.op = "RETARGET" THEN q.val ELSE r.val]

\* Every body is checked for its TTL once more as it is sent.
Succeeds(q) ==
    /\ q.op # "DELETE" => q.ttl \in ValidTtl
    /\ CASE q.op = "POST" -> Accepts(zone, Created(q))
         [] q.op = "DELETE" -> Finds(q) # {}
         [] OTHER -> \E r \in Finds(q) : Accepts(zone \ {r}, Patched(q, r))

After(q) ==
    (zone \ Finds(q)) \cup
        CASE q.op = "POST" -> {Created(q)}
          [] q.op = "DELETE" -> {}
          [] OTHER -> {Patched(q, r) : r \in Finds(q)}

-----------------------------------------------------------------------------
(* apply_edge *)

FreshRun ==
    /\ fetched = {} /\ diff = EmptyDiff /\ todo = {} /\ mutating = FALSE /\ sent = FALSE
    /\ edited = FALSE /\ faulted = FALSE

\* A CNAME record of truth has exactly one value.
SingleTargets(as) ==
    \A k \in Managed \cap CnameKey :
        as.record[k] # Absent => \E v \in Val : as.record[k].vals = {v}

Init ==
    /\ zone \subseteq Raw /\ IsFiniteSet(zone)
    /\ \A r \in zone : Accepts(zone \ {r}, r)
    /\ \A r \in zone : r.ttl \in ValidTtl /\ (r.proxied => r.key \in Proxiable /\ r.ttl = AutoTtl)
    /\ \A r, s \in zone : r.id = s.id => r = s
    /\ args \in Args /\ SingleTargets(args)
    /\ edits = 0 /\ faults = 0
    /\ pc = "fetch" /\ FreshRun

Fault == faults < MaxFaults /\ faults' = faults + 1 /\ faulted' = TRUE /\ UNCHANGED <<edits, edited>>

\* A new invocation: new provider, and the ownership filter before the fetch.
Start ==
    /\ pc \in Ended
    /\ pc' = "fetch"
    /\ fetched' = {} /\ diff' = EmptyDiff /\ todo' = {} /\ mutating' = FALSE /\ sent' = FALSE
    /\ edited' = FALSE /\ faulted' = FALSE
    /\ UNCHANGED <<zone, args, edits, faults>>

Fetch ==
    /\ pc \in {"fetch", "refetch"}
    /\ IF NearMisses(args) # {}
       THEN pc' = "raised" /\ UNCHANGED fetched
       ELSE pc' = (IF pc = "fetch" THEN "plan" ELSE "verify") /\ fetched' = Listed(zone)
    /\ UNCHANGED <<zone, args, diff, todo, mutating, sent, luck>>

\* A zone of several pages is listed by number and nothing ties the pages to
\* one another.  When somebody deletes a record of a page already read, one of
\* this owner or of the rest of the zone, the records behind it move up and one
\* is on no page that is read.  An insertion makes one record appear on two
\* pages, which changes no record set; apply may then delete one id twice and
\* be refused, the end that RequestFails gives the run.
FetchShifted ==
    /\ pc \in {"fetch", "refetch"} /\ NearMisses(args) = {}
    /\ \E missed \in zone :
          /\ fetched' = Listed(zone \ {missed})
          /\ zone' \in {zone} \cup {zone \ {gone} : gone \in zone \ {missed}}
    /\ pc' = IF pc = "fetch" THEN "plan" ELSE "verify"
    /\ Disturb
    /\ UNCHANGED <<args, diff, todo, mutating, sent>>

Plan ==
    LET planned == PlannedDiff(args, Fetched) IN
    /\ pc = "plan"
    /\ IF PlanRefuses(args, Fetched)
       THEN pc' = "raised" /\ UNCHANGED <<diff, mutating>>
       ELSE /\ diff' = planned
            /\ mutating' = ~IsConverged(planned)
            /\ pc' = IF IsConverged(planned) THEN "returned" ELSE "vet"
    /\ UNCHANGED <<zone, args, fetched, todo, sent, luck>>

\* apply refuses before its first request, or sets out.
Vet ==
    /\ pc = "vet"
    /\ IF TtlsAccepted THEN pc' = "write" /\ todo' = Requests ELSE pc' = "raised" /\ todo' = {}
    /\ UNCHANGED <<zone, args, fetched, diff, mutating, sent, luck>>

Due(q) == pc = "write" /\ q \in todo /\ \A p \in todo : q.turn <= p.turn

\* The request takes effect; its answer comes back or is lost on the way.
Send(q) ==
    /\ Due(q) /\ Succeeds(q)
    /\ zone' = After(q)
    /\ todo' = todo \ {q} /\ sent' = TRUE
    /\ \/ pc' = pc /\ UNCHANGED luck
       \/ pc' = "raised" /\ Fault
    /\ UNCHANGED <<args, fetched, diff, mutating>>

\* Cloudflare refuses the request: nothing changes, and apply raises.  What it
\* makes of a body that was meant for a record of another type is its own affair.
Refused(q) ==
    /\ Due(q) /\ (~Succeeds(q) \/ Moved(q))
    /\ pc' = "raised"
    /\ UNCHANGED <<zone, args, fetched, diff, todo, mutating, sent, luck>>

Refetch ==
    /\ pc = "write" /\ todo = {}
    /\ pc' = "refetch"
    /\ UNCHANGED <<zone, args, fetched, diff, todo, mutating, sent, luck>>

Verify ==
    /\ pc = "verify"
    /\ pc' = IF PlanRefuses(args, Fetched) \/ ~IsConverged(PlannedDiff(args, Fetched))
             THEN "raised" ELSE "returned"
    /\ UNCHANGED <<zone, args, fetched, diff, todo, mutating, sent, luck>>

RequestFails ==
    /\ pc \in {"fetch", "write", "refetch"}
    /\ pc' = "raised" /\ Fault
    /\ UNCHANGED <<zone, args, fetched, diff, todo, mutating, sent>>

Interrupt ==
    /\ pc \notin Ended
    /\ pc' = "interrupted" /\ Fault
    /\ UNCHANGED <<zone, args, fetched, diff, todo, mutating, sent>>

Progress ==
    \/ Fetch \/ Plan \/ Vet \/ Refetch \/ Verify
    \/ \E q \in todo : Send(q) \/ Refused(q)

Next == Progress \/ Start \/ RequestFails \/ Interrupt \/ Foreign \/ FetchShifted

Spec == Init /\ [][Next]_vars
FairSpec == Spec /\ WF_vars(Progress) /\ WF_vars(Start)

-----------------------------------------------------------------------------
(* Properties.  A step that leaves `edits` alone is the run's own. *)

TypeOK ==
    /\ zone \subseteq Raw /\ fetched \subseteq Raw
    /\ \A r, s \in zone : r.id = s.id => r = s
    /\ args \in Args /\ pc \in Steps /\ diff \in Diff
    /\ mutating \in BOOLEAN /\ sent \in BOOLEAN
    /\ edits \in 0..MaxEdits /\ faults \in 0..MaxFaults

\* "Over-serves instead of under-serving" (cloudflare.py:475-479): from the
\* fetch on, through every request, failure and interrupt, a name whose record
\* set is being updated answers with all of its old values or all of its new.
NeverUnderServes ==
    ~edited /\ (pc \in {"vet", "write"} \/ todo # {}) => \A k \in diff.update :
        \/ args.record[k].vals \subseteq ValuesOf(zone, k)
        \/ ValuesOf(fetched, k) \subseteq ValuesOf(zone, k)

\* WR-03 (cloudflare.py:504-510): a diff with one TTL Cloudflare would refuse
\* changes nothing at all.
BadTtlWritesNothing ==
    sent => \A k \in diff.add \cup diff.update : args.record[k].ttl \in ValidTtl

\* A record that was listed at a managed key and that somebody has given
\* another name or type since: its id is all that a request will look at.
Renamed(r) == edited /\ \E s \in fetched : s.id = r.id /\ s.key \in Managed

\* ADR-005, request by request: the run changes, adds and removes API records
\* of managed keys, and of other keys only those it read as managed ones and
\* that were renamed under its hands.
OnlyManagedRecords ==
    [][edits' = edits => \A r \in (zone \ zone') \cup (zone' \ zone) :
            r.key \in Managed \/ Renamed(r)]_vars

\* A plan that was accepted and vetted can be carried out and verified: with
\* nobody interfering a run that changed the zone returns.  It is why a CNAME
\* is retargeted in place (81053), and why flags ride beside the diff.  It takes
\* that no record the fetch leaves out stands in the way of a managed one.
QuietRunSucceeds == pc = "raised" /\ sent => edited \/ faulted

IsServed(k) ==
    IF args.record[k] = Absent THEN At(zone, k) = {}
    ELSE /\ ValuesOf(zone, k) = args.record[k].vals
         /\ \A r \in At(zone, k) : r.ttl = args.record[k].ttl /\ ~r.proxied

MatchesTruth == \A k \in Managed : IsServed(k)

\* A run that returned undisturbed left every record of every managed key as
\* truth says: values, each TTL, and DNS-only (CR-5, CR-04).
ReturnedMeansConverged == pc = "returned" /\ ~edited => MatchesTruth

WillRefuse ==
    \/ NearMisses(args) # {}
    \/ PlanRefuses(args, [actual |-> [k \in Key |-> RecordOf(Listed(zone), k)], blocked |-> {},
                          unparseable |-> {}, drifted |-> {}])
    \/ \E k \in Managed : args.record[k] # Absent /\ args.record[k].ttl \notin ValidTtl

\* Once the zone is left alone, running again converges it from whatever a
\* failed run left, or no later run changes anything.
RerunHeals == <>[](MatchesTruth \/ WillRefuse)

=============================================================================
