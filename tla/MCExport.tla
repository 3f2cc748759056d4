------------------------------ MODULE MCExport ------------------------------
(***************************************************************************)
(* Export over two groups and two zones: an address in zone z1 that can    *)
(* have a second value in the other group, with its TTL or with another    *)
(* one, a record in z2, a row that cannot be read and one that makes no    *)
(* record.                                                                 *)
(***************************************************************************)
EXTENDS Export

CONSTANTS g1, g2, z1, z2, app, db, v1, v2

RowOf(g, z, k, v, t, kind) ==
    [group |-> g, zone |-> z, key |-> k, value |-> v, ttl |-> t, kind |-> kind]

First == RowOf(g1, z1, app, v1, 300, "record")
Other == RowOf(g1, z2, db, v1, 300, "record")

MCRow == {First, Other,
          RowOf(g2, z1, app, v2, 300, "record"),
          RowOf(g2, z1, app, v2, 60, "record"),
          RowOf(g1, z1, db, v1, 300, "malformed"),
          RowOf(g2, z1, db, v1, 300, "invalid")}

CONSTANTS full, scoped
MCScope == [e \in Exporter |-> IF e = full THEN Zone ELSE {z1}]

MCInit == Init /\ truth = {First, Other} /\ homes = {<<g1, z1>>, <<g1, z2>>, <<g2, z1>>}

CONSTANT MaxMishaps

(* Fetches meet only in truth, so there is one at a time; a walk and the   *)
(* file do not meet, so nobody is at the file during one; the server lists *)
(* g1 and z1 first; and of the edits of truth, unproven walks, walks with  *)
(* a damaged body and edits of the file, only so many together.            *)
Fetching == {e \in Exporter : pc[e] = "fetching"}
Walking == {e \in Exporter : walk[e] # Off}
Damaged == {e \in Walking : walk[e].disturbed = 1 /\ walk[e].kept = walk[e].ever}
Late(path) == Cardinality({i \in DOMAIN path : path[i] \in {g2, z2}})
InOrder(path, todo) == \A other \in Deepest(todo) : Late(path) <= Late(other)

MCNext ==
    /\ Next
    /\ Cardinality(Fetching') <= 1
    /\ Walking # {} => UNCHANGED files /\ \A e \in Exporter \ Walking : UNCHANGED pc[e]
    /\ \A e \in Exporter : walk'[e] # Off => InOrder(walk'[e].path, fetch[e].todo)
    /\ edits' + unproven' + handEdits' + Cardinality(Damaged') <= MaxMishaps

MCSpec == MCInit /\ [][MCNext]_vars /\ \A e \in Exporter : WF_vars(Progress(e))
=============================================================================
