----------------------------- MODULE MCWatchdog -----------------------------
(***************************************************************************)
(* Watchdog over two VMs, with the smallest budget in which a stall and a  *)
(* reissue fit.                                                            *)
(***************************************************************************)
EXTENDS Watchdog

CONSTANTS hub, app

MCOrder == [v \in VM |-> IF v = hub THEN 1 ELSE 2]

MCInit == Init

MCSpec == MCInit /\ [][Next]_vars /\ WF_vars(Progress)
=============================================================================
