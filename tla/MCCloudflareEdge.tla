------------------------- MODULE MCCloudflareEdge ---------------------------
(***************************************************************************)
(* CloudflareEdge on a multi-value key a, a CNAME c, a TXT key x at c's    *)
(* name, and a key y that the fetch leaves out.  Contents of different     *)
(* keys are never compared, so truth says v1, or v1 and v2, or nothing; 30 *)
(* is a TTL Cloudflare refuses.                                            *)
(***************************************************************************)
EXTENDS CloudflareEdge

CONSTANTS a, c, x, y, v1, v2

MCOrder == [k \in Key |-> IF k = a THEN 1 ELSE IF k = c THEN 2 ELSE IF k = x THEN 3 ELSE 4]
MCOwner == [k \in Key |-> IF k = a THEN 1 ELSE IF k = y THEN 3 ELSE 2]
MCTtl == {1, 30, 60}
MCValidTtl == {1, 60}
MCValue == [vals : (SUBSET Val) \ {{}}, ttl : MCTtl]

\* What the zone can hold of one content in one spelling, and where it is put.
Slots == Key \X Val \X Spelling
Shapes(k, v) ==
    CASE k \in CnameKey -> {"none", "sixty"}
      [] k = x /\ k \notin Managed -> IF v = v1 THEN {"none", "sixty"} ELSE {"none"}
      [] k = y -> IF v = v1 THEN {"sixty"} ELSE {"none"}
      [] k \in Managed /\ v = v1 -> {"none", "auto", IF k \in Proxiable THEN "proxied" ELSE "sixty"}
      [] OTHER -> {"none", "sixty"}
SlotId(s) == (Order[s[1]] - 1) * 4 + (IF s[2] = v1 THEN 0 ELSE 2) + s[3]
RawOf(s, shape) ==
    [id |-> SlotId(s), key |-> s[1], val |-> s[2], spelling |-> s[3],
     ttl |-> IF shape = "sixty" THEN 60 ELSE 1, proxied |-> shape = "proxied"]

\* The zone holds at most one record of the CNAME and of each unmanaged key.
MCZone(f) ==
    /\ \A s \in Slots : f[s] \in Shapes(s[1], s[2])
    /\ \A s, t \in Slots :
        (s[1] = t[1] /\ s # t /\ f[s] # "none" /\ f[t] # "none")
            => s[1] \in Managed \ CnameKey

\* The bad TTL is asked for by the record that truth lists last.
MCRecords ==
    {r \in [Managed -> {Absent} \cup [vals : {{v1}, {v1, v2}}, ttl : Ttl]] :
        \A k \in Managed : r[k] # Absent =>
            IF k \in CnameKey THEN r[k].vals = {v1} /\ r[k].ttl # 1 ELSE r[k].ttl # 30}

MCInit ==
    /\ \E f \in [Slots -> {"none", "auto", "sixty", "proxied"}] :
        /\ MCZone(f)
        /\ zone = {RawOf(s, f[s]) : s \in {t \in Slots : f[t] # "none"}}
    /\ \E r \in MCRecords :
        args = [record |-> r, misnamed |-> {}, twice |-> {}, complete |-> TRUE,
                allowEmpty |-> TRUE, allowUnverified |-> FALSE]
    /\ Init

MCSpec == MCInit /\ [][Next]_vars /\ WF_vars(Progress) /\ WF_vars(Start)
=============================================================================
