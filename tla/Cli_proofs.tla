----------------------------- MODULE Cli_proofs -----------------------------
(***************************************************************************)
(* What cli.main guarantees for every number of edges: its account of a    *)
(* run that failed, its exit code, and the order in which edges change.    *)
(***************************************************************************)
EXTENDS Cli, TLAPS

USE CliAssumption

\* Between the end of `clear` and the next `enter`, pos is the current edge.
AtEdge == {"clear", "call", "complain", "mutate", "write", "verify", "print", "account",
           "announce", "tally"}

\* Steps of apply_edge at which its writes may be there and not yet counted.
InFlight == {"write", "verify", "account"}
Uncounted == IF pc \in InFlight \/ (pc = "print" /\ mode = "apply" /\ changes) THEN {pos} ELSE {}

\* Steps at which --apply knows the edge to be as truth states it.
Settled == {"verify", "print", "account", "announce", "tally"}

\* The edges the loop has left behind.
Behind == IF pc = "summary" THEN Edges ELSE 1..(pos - 1)

\* Where the loop is, and that everything it counts is at or behind it.
LoopInv ==
    /\ exit = "running" /\ report = "none"
    /\ pc \in AtEdge => current = pos
    /\ pc = "load" => mutating = {}
    /\ current = 0 => applied = {}
    /\ applied \subseteq Behind \cup (IF pc \in {"announce", "tally"} THEN {pos} ELSE {})
    /\ pc \in AtEdge \ {"clear"} => mutating \subseteq {pos}
    /\ pc = "summary" => mutating \subseteq {current}

\* What --apply has changed, counted and found in order.
ApplyInv ==
    /\ touched \subseteq applied \cup Uncounted
    /\ Uncounted \subseteq mutating
    /\ pc \in {"mutate", "announce"} \cup InFlight => mode = "apply" /\ changes = TRUE
    /\ pc = "complain" => mode = "dry-run"
    /\ applied # {} => mode = "apply"
    /\ \A e \in applied : edge[e] = "converged"
    /\ mode = "apply" => unchecked = {}
    /\ mode = "apply" => \A e \in Behind : edge[e] = "converged"
    /\ mode = "apply" /\ pc \in Settled => edge[pos] = "converged"

\* What --dry-run has seen of the edges it leaves alone.
DryInv ==
    mode = "dry-run" =>
        /\ \A e \in Edges : edge[e] # "mixed"
        /\ drifted => \E e \in Edges : edge[e] = "drifted"
        /\ \A e \in Behind : e \in unchecked \/ edge[e] = "converged" \/ drifted
        /\ pc \in {"print", "tally"} => (changes <=> edge[pos] # "converged")

Inv ==
    /\ TypeOK
    /\ pc # "exit" => LoopInv /\ ApplyInv /\ DryInv
    /\ pc = "exit" => exit # "running"
    /\ AccountIsTrue /\ ExitCodeIsTrue /\ EdgesInTurn /\ BlamedEdgeWasEntered

-----------------------------------------------------------------------------
(* Types *)

\* The part of TypeOK that is arithmetic and sets, and the part that is not.
Places ==
    /\ edge \in [Edges -> {"converged", "drifted", "mixed"}]
    /\ touched \subseteq Edges /\ applied \subseteq Edges
    /\ mutating \subseteq Edges /\ unchecked \subseteq Edges
    /\ pos \in Nat /\ (pc = "load" => pos = 1) /\ current \in 0..N
    /\ pc \notin {"load", "summary", "exit"} => pos \in Edges
Words ==
    /\ mode \in {"apply", "dry-run"} /\ pc \in Steps
    /\ exit \in {"running", "0", "1", "2", "interrupted"}
    /\ report \in {"none", "partial", "clean"}
Flags == drifted \in BOOLEAN /\ changes \in BOOLEAN

LEMMA TypeParts == TypeOK <=> Places /\ Words /\ Flags
BY DEF TypeOK, Places, Words, Flags

LEMMA InitType == Init => TypeOK
<1> SUFFICES ASSUME Init PROVE TypeOK
  OBVIOUS
<1>1. Places
  BY DEF Init, Places, Edges
<1>2. Words
  BY DEF Init, Words, Steps
<1>3. Flags
  BY DEF Init, Flags
<1> QED BY <1>1, <1>2, <1>3, TypeParts

LEMMA NextType == TypeOK /\ [Next]_vars => TypeOK'
<1> SUFFICES ASSUME Places, Words, Flags, [Next]_vars
             PROVE  Places' /\ Words' /\ Flags'
  BY DEF TypeOK, Places, Words, Flags
<1> USE DEF Goto, locals
<1>1. ASSUME NEW s \in {"1", "interrupted"}, Leave(s)
      PROVE  Places' /\ Words' /\ Flags'
  <2>1. Places' BY <1>1 DEF Leave, Places, Edges
  <2>2. Words' BY <1>1 DEF Leave, Account, Words, Steps
  <2>3. Flags' BY <1>1 DEF Leave, Flags
  <2> QED BY <2>1, <2>2, <2>3
<1>2. CASE LoadFails \/ (PlanRaises /\ mode = "apply") \/ ApplyRaises \/ PrintFails \/ Interrupt
  BY <1>1, <1>2 DEF LoadFails, PlanRaises, ApplyRaises, PrintFails, Interrupt, Raise
<1>9. CASE Load
  <2>1. Places'
    <3>1. N # 0 => 1 \in Edges
      BY DEF Edges
    <3> QED BY <1>9, <3>1 DEF Load, Places
  <2>2. Words' BY <1>9 DEF Load, Words, Steps
  <2>3. Flags' BY <1>9 DEF Load, Flags
  <2> QED BY <2>1, <2>2, <2>3
<1>3. CASE Enter \/ ClearMutating \/ OnMutate \/ Verified \/ CountApplied \/ Announce
  <2> USE <1>3 DEF Enter, ClearMutating, OnMutate, Verified, CountApplied, Announce
  <2>1. Places'
    <3>1. pos \in Edges /\ pos \in 0..N
      BY DEF Places, Edges
    <3>2. pc' \notin {"load", "summary", "exit"} /\ UNCHANGED <<edge, touched, pos, unchecked>>
      OBVIOUS
    <3>3. /\ current' \in {current, pos}
          /\ mutating' \in {mutating, {}, mutating \cup {pos}}
          /\ applied' \in {applied, applied \cup {pos}}
      OBVIOUS
    <3> QED BY ONLY Places, <3>1, <3>2, <3>3 DEF Places
  <2>2. Words' BY DEF Words, Steps
  <2>3. Flags' BY DEF Flags
  <2> QED BY <2>1, <2>2, <2>3
<1>4. CASE Planned \/ (PlanRaises /\ mode # "apply")
  <2> USE <1>4 DEF Planned, PlanRaises
  <2>1. Places' BY DEF Places, Edges
  <2>2. Words' BY DEF Words, Steps
  <2>3. Flags' BY DEF Flags
  <2> QED BY <2>1, <2>2, <2>3
<1>10. CASE PrintDiff
  <2> USE <1>10 DEF PrintDiff
  <2>1. Places'
    <3>1. /\ pc = "print" /\ pc' \in {"account", "tally"}
          /\ UNCHANGED <<edge, touched, pos, locals>>
      OBVIOUS
    <3> QED BY <3>1 DEF Places
  <2>2. Words' BY DEF Words, Steps
  <2>3. Flags' BY DEF Flags
  <2> QED BY <2>1, <2>2, <2>3
<1>5. CASE Write("mixed") \/ Write("converged")
  <2> USE <1>5 DEF Write
  <2>1. Places' BY DEF Places, Edges
  <2>2. Words' BY DEF Words, Steps
  <2>3. Flags' BY DEF Flags
  <2> QED BY <2>1, <2>2, <2>3
<1>6. CASE Complain \/ Tally
  <2>0. /\ pc \in {"complain", "tally"}
        /\ IF pos < N THEN pc' = "enter" /\ pos' = pos + 1 ELSE pc' = "summary" /\ pos' = pos
        /\ unchecked' = unchecked \/ unchecked' = unchecked \cup {pos}
        /\ UNCHANGED <<edge, touched, current, mutating, applied>>
    BY <1>6 DEF Complain, Tally
  <2>1. Places'
    <3>1. pos \in Edges
      BY <2>0 DEF Places
    <3>2. pos' \in Nat /\ (pc' = "enter" => pos' \in Edges) /\ pc' \in {"enter", "summary"}
      BY <2>0, <3>1 DEF Edges
    <3>3. unchecked' \subseteq Edges
      BY <2>0, <3>1 DEF Places
    <3> QED BY <2>0, <3>2, <3>3 DEF Places
  <2> USE <1>6 DEF Complain, Tally
  <2>2. Words' BY DEF Words, Steps
  <2>3. Flags' BY DEF Flags
  <2> QED BY <2>1, <2>2, <2>3
<1>7. CASE Summary
  <2> USE <1>7 DEF Summary, ExitCode
  <2>1. Places' BY DEF Places, Edges
  <2>2. Words' BY DEF Words, Steps
  <2>3. Flags' BY DEF Flags
  <2> QED BY <2>1, <2>2, <2>3
<1>8. CASE UNCHANGED vars
  <2> USE <1>8 DEF vars
  <2>1. Places' BY DEF Places
  <2>2. Words' BY DEF Words
  <2>3. Flags' BY DEF Flags
  <2> QED BY <2>1, <2>2, <2>3
<1> QED BY <1>2, <1>3, <1>4, <1>5, <1>6, <1>7, <1>8, <1>9, <1>10 DEF Next

\* Every state of main is well typed.
THEOREM TypeCorrect == Spec => []TypeOK
<1>1. Init => TypeOK
  BY InitType
<1>2. TypeOK /\ [Next]_vars => TypeOK'
  BY NextType
<1> QED BY <1>1, <1>2, PTL DEF Spec

-----------------------------------------------------------------------------
(* Leaving main *)

Running == pc # "exit" /\ Places /\ Words /\ LoopInv /\ ApplyInv

\* Every changed edge is at or behind the loop, and what is behind is settled.
LEMMA TouchedInTurn == Running => EdgesInTurn
<1> SUFFICES ASSUME Running, NEW e \in touched, NEW d \in 1..(e - 1)
             PROVE  edge[d] = "converged"
  BY DEF EdgesInTurn
<1>1. mode = "apply" /\ e \in Behind \cup {pos}
  BY DEF Running, LoopInv, ApplyInv, Uncounted, InFlight
<1>2. e \in Edges
  BY DEF Running, Places
<1>3. pc # "summary" => d \in 1..(pos - 1)
  BY <1>1, <1>2 DEF Behind, Edges, Running, Places
<1>4. d \in Edges
  BY <1>2 DEF Edges
<1> QED BY <1>1, <1>3, <1>4 DEF Behind, Running, ApplyInv

\* The account of a run that stops anywhere names every edge it changed.
LEMMA LeaveAccount ==
    ASSUME Running, NEW s \in {"1", "interrupted"}, Leave(s)
    PROVE  AccountIsTrue'
<1>1. UNCHANGED <<mode, edge, touched, applied, mutating, current>> /\ report' = Account
  BY DEF Leave, locals
<1>2. \A e \in applied : edge[e] = "converged"
  BY DEF Running, ApplyInv
<1>3. applied # {} => report' # "none"
  BY <1>1 DEF Running, ApplyInv, LoopInv, Account
<1>4. ASSUME NEW e \in touched, e \notin applied
      PROVE  report' = "partial" /\ e = current
  <2>1. e \in Uncounted /\ e \in mutating
    BY <1>4 DEF Running, ApplyInv
  <2>2. e = pos /\ mode = "apply" /\ pc \in AtEdge
    BY <2>1 DEF Uncounted, InFlight, AtEdge, Running, ApplyInv
  <2>3. current = pos /\ pos # 0
    BY <2>2 DEF Running, LoopInv, Places, AtEdge, Edges
  <2> QED BY <1>1, <2>1, <2>2, <2>3 DEF Account
<1> QED BY <1>1, <1>2, <1>3, <1>4 DEF AccountIsTrue

\* An error out of the loop blames no edge that apply was not entered for.
LEMMA RaiseBlame ==
    ASSUME Running, Raise, pc \notin {"enter", "clear"}
    PROVE  BlamedEdgeWasEntered'
<1>1. UNCHANGED <<mutating, current>> /\ report' = Account
  BY DEF Raise, Leave, locals
<1>2. mutating \subseteq {current}
  BY DEF Running, LoopInv, AtEdge, Words, Steps
<1> QED BY <1>1, <1>2 DEF BlamedEdgeWasEntered, Account

LEMMA LeaveInv ==
    ASSUME Inv, TypeOK', (Raise /\ pc \notin {"exit", "enter", "clear"}) \/ Interrupt
    PROVE  Inv'
<1>1. Running
  BY TypeParts DEF Inv, Running, Raise, Leave, Interrupt
<1>2. pc' = "exit" /\ exit' \in {"1", "interrupted"}
  BY DEF Raise, Interrupt, Leave
<1>3. AccountIsTrue'
  BY <1>1, LeaveAccount DEF Raise, Interrupt
<1>4. EdgesInTurn'
  BY <1>1, TouchedInTurn DEF EdgesInTurn, Raise, Interrupt, Leave
<1>5. BlamedEdgeWasEntered'
  BY <1>1, RaiseBlame DEF Interrupt, Leave, BlamedEdgeWasEntered
<1>6. ExitCodeIsTrue'
  BY <1>2 DEF ExitCodeIsTrue
<1> QED BY <1>2, <1>3, <1>4, <1>5, <1>6 DEF Inv

\* A run that got to its end.
LEMMA SummaryInv ==
    ASSUME Inv, TypeOK', Summary
    PROVE  Inv'
<1>1. Running
  BY TypeParts DEF Inv, Running, Summary
<1>2. pc = "summary" /\ pc' = "exit" /\ exit' = ExitCode /\ report' = "none"
  BY <1>1 DEF Summary, Running, LoopInv
<1>3. UNCHANGED <<mode, edge, touched, mutating, applied, current, unchecked, drifted>>
  BY DEF Summary, locals
<1>4. exit' \in {"0", "1", "2"}
  BY <1>2 DEF ExitCode
<1>5. EdgesInTurn'
  BY <1>1, <1>3, TouchedInTurn DEF EdgesInTurn
<1>6. AccountIsTrue'
  <2>1. touched \subseteq applied
    BY <1>1, <1>2 DEF Running, ApplyInv, Uncounted, InFlight
  <2>2. \A e \in applied : edge[e] = "converged"
    BY <1>1 DEF Running, ApplyInv
  <2>3. applied # {} => exit' = "0"
    BY <1>1, <1>2 DEF Running, ApplyInv, ExitCode
  <2> QED BY <1>2, <1>3, <2>1, <2>2, <2>3 DEF AccountIsTrue
<1>7. ExitCodeIsTrue'
  <2>1. CASE mode = "apply"
    <3>1. \A e \in Edges : edge[e] = "converged"
      BY <1>1, <1>2, <2>1 DEF Running, ApplyInv, Behind
    <3>2. exit' # "2"
      BY <1>2, <2>1 DEF ExitCode
    <3> QED BY <1>3, <3>1, <3>2 DEF ExitCodeIsTrue
  <2>2. CASE mode = "dry-run"
    <3>1. /\ drifted => \E e \in Edges : edge[e] = "drifted"
          /\ \A e \in Edges : e \in unchecked \/ edge[e] = "converged" \/ drifted
      BY <1>2, <2>2 DEF Inv, DryInv, Behind
    <3>2. exit' = "0" => unchecked = {} /\ ~drifted
      BY <1>2, <2>2 DEF ExitCode
    <3>3. exit' = "2" => unchecked = {} /\ drifted
      BY <1>2, <2>2 DEF ExitCode
    <3> QED BY <1>3, <2>2, <3>1, <3>2, <3>3 DEF ExitCodeIsTrue
  <2> QED BY <1>1, <2>1, <2>2 DEF Running, Words
<1>8. BlamedEdgeWasEntered'
  BY <1>2 DEF BlamedEdgeWasEntered
<1> QED BY <1>2, <1>4, <1>5, <1>6, <1>7, <1>8 DEF Inv

-----------------------------------------------------------------------------
(* Going on *)

LEMMA RunningInv ==
    ASSUME TypeOK', pc' # "exit", LoopInv', ApplyInv', DryInv'
    PROVE  Inv'
<1>1. Running'
  BY DEF Running, TypeOK, Places, Words
<1>2. (Running => EdgesInTurn)'
  BY TouchedInTurn, PTL
<1>3. EdgesInTurn'
  BY <1>1, <1>2
<1>4. exit' = "running"
  BY DEF LoopInv
<1>5. AccountIsTrue' /\ ExitCodeIsTrue' /\ BlamedEdgeWasEntered'
  BY <1>4 DEF AccountIsTrue, ExitCodeIsTrue, BlamedEdgeWasEntered
<1> QED BY <1>3, <1>5 DEF Inv

\* A step of the loop at one edge: it changes nothing of what is behind it.
LEMMA StepInv ==
    ASSUME Inv, TypeOK',
           Load \/ Enter \/ ClearMutating \/ Planned \/ OnMutate \/ Verified \/ PrintDiff
           \/ CountApplied \/ Announce \/ (PlanRaises /\ mode # "apply")
    PROVE  Inv'
<1>1. /\ pc # "exit" /\ Places /\ Words /\ LoopInv /\ ApplyInv /\ DryInv
  BY TypeParts DEF Inv, Load, Enter, ClearMutating, Planned, OnMutate, Verified, PrintDiff,
     CountApplied, Announce, PlanRaises
<1>2. UNCHANGED <<mode, edge, touched, pos, unchecked, drifted, exit, report>>
  BY DEF Load, Enter, ClearMutating, Planned, OnMutate, Verified, PrintDiff,
     CountApplied, Announce, PlanRaises, Goto, locals
<1> USE <1>1, <1>2 DEF Goto, locals
<1>3. CASE Load
  <2>1. pc = "load" /\ pc' \in {"summary", "enter"} /\ (pc' = "summary" => N = 0)
        /\ UNCHANGED <<current, mutating, applied, changes>>
    BY <1>3 DEF Load
  <2>2. pos = 1 /\ mutating = {} /\ applied = {} /\ touched = {}
    BY <2>1 DEF Places, LoopInv, ApplyInv, Behind, Uncounted, InFlight
  <2>3. Behind' = {}
    BY <2>1, <2>2 DEF Behind, Edges
  <2>4. LoopInv'
    BY <2>1, <2>2, <2>3 DEF LoopInv, AtEdge
  <2>5. ApplyInv'
    BY <2>1, <2>2, <2>3 DEF ApplyInv, Uncounted, InFlight, Settled
  <2>6. DryInv'
    BY <2>1, <2>3 DEF DryInv
  <2> QED BY <2>1, <2>4, <2>5, <2>6, RunningInv
<1>4. CASE Enter
  <2>1. pc = "enter" /\ pc' = "clear" /\ current' = pos
        /\ UNCHANGED <<mutating, applied, changes>> /\ Behind' = Behind /\ pos \in Edges
    BY <1>4 DEF Enter, Behind, Places
  <2>2. LoopInv'
    BY <2>1 DEF LoopInv, AtEdge, Edges
  <2>3. ApplyInv'
    BY <2>1 DEF ApplyInv, Uncounted, InFlight, Settled
  <2>4. DryInv'
    BY <2>1 DEF DryInv
  <2> QED BY <2>1, <2>2, <2>3, <2>4, RunningInv
<1>5. CASE ClearMutating
  <2>1. pc = "clear" /\ pc' = "call" /\ mutating' = {}
        /\ UNCHANGED <<current, applied, changes>> /\ Behind' = Behind
    BY <1>5 DEF ClearMutating, Behind
  <2>2. LoopInv'
    BY <2>1 DEF LoopInv, AtEdge
  <2>3. ApplyInv'
    BY <2>1 DEF ApplyInv, Uncounted, InFlight, Settled
  <2>4. DryInv'
    BY <2>1 DEF DryInv
  <2> QED BY <2>1, <2>2, <2>3, <2>4, RunningInv
<1>6. CASE Planned
  <2>1. /\ pc = "call" /\ pc' \in {"mutate", "print"} /\ Behind' = Behind
        /\ pc' = "mutate" <=> mode = "apply" /\ edge[pos] # "converged"
        /\ UNCHANGED <<current, mutating, applied>>
    BY <1>6 DEF Planned, Behind
  <2>2. changes' <=> edge[pos] # "converged"
    BY <1>6 DEF Planned
  <2>3. LoopInv'
    BY <2>1 DEF LoopInv, AtEdge
  <2>4. Uncounted = {} /\ Uncounted' = {}
    BY <2>1, <2>2 DEF Uncounted, InFlight
  <2>5. pc' = "mutate" => changes' = TRUE
    BY <1>6, <2>1 DEF Planned
  <2>6. ApplyInv'
    BY <2>1, <2>4, <2>5 DEF ApplyInv, InFlight, Settled
  <2>7. DryInv'
    BY <2>1, <2>2 DEF DryInv
  <2> QED BY <2>1, <2>3, <2>6, <2>7, RunningInv
<1>7. CASE PlanRaises /\ mode # "apply"
  <2>1. pc = "call" /\ pc' = "complain" /\ Behind' = Behind /\ mode = "dry-run"
        /\ UNCHANGED <<current, mutating, applied, changes>>
    BY <1>7 DEF PlanRaises, Behind, Words
  <2>2. LoopInv'
    BY <2>1 DEF LoopInv, AtEdge
  <2>3. ApplyInv'
    BY <2>1 DEF ApplyInv, Uncounted, InFlight, Settled
  <2>4. DryInv'
    BY <2>1 DEF DryInv
  <2> QED BY <2>1, <2>2, <2>3, <2>4, RunningInv
<1>8. CASE OnMutate
  <2>1. pc = "mutate" /\ pc' = "write" /\ Behind' = Behind /\ mutating' = mutating \cup {pos}
        /\ UNCHANGED <<current, applied, changes>>
    BY <1>8 DEF OnMutate, Behind
  <2>2. LoopInv'
    BY <2>1 DEF LoopInv, AtEdge
  <2>3. Uncounted = {} /\ Uncounted' = {pos}
    BY <2>1 DEF Uncounted, InFlight
  <2>4. ApplyInv'
    BY <2>1, <2>3 DEF ApplyInv, InFlight, Settled
  <2>5. DryInv'
    BY <2>1 DEF DryInv
  <2> QED BY <2>1, <2>2, <2>4, <2>5, RunningInv
<1>9. CASE Verified
  <2>1. pc = "verify" /\ pc' = "print" /\ Behind' = Behind
        /\ UNCHANGED <<current, mutating, applied, changes>>
    BY <1>9 DEF Verified, Behind
  <2>2. LoopInv'
    BY <2>1 DEF LoopInv, AtEdge
  <2>3. mode = "apply" /\ changes = TRUE /\ Uncounted = {pos} /\ Uncounted' = {pos}
    BY <2>1 DEF Uncounted, InFlight, ApplyInv
  <2>4. ApplyInv'
    BY <2>1, <2>3 DEF ApplyInv, InFlight, Settled
  <2>5. DryInv'
    BY <2>3 DEF DryInv
  <2> QED BY <2>1, <2>2, <2>4, <2>5, RunningInv
<1>10. CASE PrintDiff
  <2>1. /\ pc = "print" /\ pc' \in {"account", "tally"} /\ Behind' = Behind
        /\ UNCHANGED <<current, mutating, applied, changes>>
    BY <1>10 DEF PrintDiff, Behind
  <2>2. pc' = "account" <=> mode = "apply" /\ changes
    BY <1>10 DEF PrintDiff
  <2>3. LoopInv'
    BY <2>1 DEF LoopInv, AtEdge
  <2>4. Uncounted' = Uncounted
    BY <2>1, <2>2 DEF Uncounted, InFlight
  <2>5. pc' = "account" => changes = TRUE
    BY <2>2, TypeParts DEF Inv, Flags
  <2>6. ApplyInv'
    BY <2>1, <2>2, <2>4, <2>5 DEF ApplyInv, InFlight, Settled
  <2>7. DryInv'
    BY <2>1 DEF DryInv
  <2> QED BY <2>1, <2>3, <2>6, <2>7, RunningInv
<1>11. CASE CountApplied
  <2>1. pc = "account" /\ pc' = "announce" /\ Behind' = Behind /\ applied' = applied \cup {pos}
        /\ UNCHANGED <<current, mutating, changes>> /\ pos \in Edges
    BY <1>11 DEF CountApplied, Behind, Places
  <2>2. current' # 0
    BY <2>1 DEF LoopInv, AtEdge, Edges
  <2>3. LoopInv'
    BY <2>1, <2>2 DEF LoopInv, AtEdge
  <2>4. mode = "apply" /\ changes = TRUE /\ Uncounted = {pos} /\ Uncounted' = {}
    BY <2>1 DEF Uncounted, InFlight, ApplyInv
  <2>5. ApplyInv'
    BY <2>1, <2>4 DEF ApplyInv, InFlight, Settled
  <2>6. DryInv'
    BY <2>4 DEF DryInv
  <2> QED BY <2>1, <2>3, <2>5, <2>6, RunningInv
<1>12. CASE Announce
  <2>1. pc = "announce" /\ pc' = "tally" /\ Behind' = Behind
        /\ UNCHANGED <<current, mutating, applied, changes>>
    BY <1>12 DEF Announce, Behind
  <2>2. LoopInv'
    BY <2>1 DEF LoopInv, AtEdge
  <2>3. mode = "apply" /\ Uncounted = {} /\ Uncounted' = {}
    BY <2>1 DEF Uncounted, InFlight, ApplyInv
  <2>4. ApplyInv'
    BY <2>1, <2>3 DEF ApplyInv, InFlight, Settled
  <2>5. DryInv'
    BY <2>3 DEF DryInv
  <2> QED BY <2>1, <2>2, <2>4, <2>5, RunningInv
<1> QED BY <1>3, <1>4, <1>5, <1>6, <1>7, <1>8, <1>9, <1>10, <1>11, <1>12

\* A write reaches an edge that is not counted yet, all before it settled.
LEMMA WriteInv ==
    ASSUME Inv, TypeOK', NEW status \in {"mixed", "converged"}, Write(status)
    PROVE  Inv'
<1>1. /\ pc = "write" /\ Places /\ Words /\ LoopInv /\ ApplyInv
  BY TypeParts DEF Inv, Write
<1>2. /\ edge' = [edge EXCEPT ![pos] = status] /\ touched' = touched \cup {pos}
      /\ pc' = (IF status = "converged" THEN "verify" ELSE "write")
      /\ UNCHANGED <<mode, pos, current, mutating, applied, unchecked, changes, exit, report>>
  BY DEF Write, Goto, locals
<1>3. pos \in Edges /\ Behind = 1..(pos - 1) /\ Behind' = Behind /\ pos \notin Behind /\ Behind \subseteq Edges
  BY <1>1, <1>2 DEF Behind, Places, Edges
<1>4. mode = "apply" /\ changes = TRUE /\ Uncounted = {pos} /\ Uncounted' = {pos}
  BY <1>1, <1>2 DEF Uncounted, InFlight, ApplyInv
<1>5. LoopInv'
  BY <1>1, <1>2, <1>3 DEF LoopInv, AtEdge
<1>6. pos \notin applied
  BY <1>1, <1>3 DEF LoopInv
<1>7. edge'[pos] = status /\ \A e \in Edges \ {pos} : edge'[e] = edge[e]
  BY <1>1, <1>2, <1>3 DEF Places
<1>8. \A e \in applied \cup Behind : edge'[e] = "converged"
  BY <1>1, <1>3, <1>4, <1>6, <1>7 DEF ApplyInv, Places
<1>9. ApplyInv'
  BY <1>1, <1>2, <1>3, <1>4, <1>7, <1>8 DEF ApplyInv, InFlight, Settled
<1>10. DryInv'
  BY <1>2, <1>4 DEF DryInv
<1> QED BY <1>2, <1>5, <1>9, <1>10, RunningInv

\* The loop moves on, and the edge it leaves is behind it.
LEMMA NextEdgeInv ==
    ASSUME Inv, TypeOK', Complain \/ Tally
    PROVE  Inv'
<1>1. pc \in {"complain", "tally"} /\ Places /\ Words /\ LoopInv /\ ApplyInv /\ DryInv
  BY TypeParts DEF Inv, Complain, Tally
<1>2. /\ IF pos < N THEN pc' = "enter" /\ pos' = pos + 1 ELSE pc' = "summary" /\ pos' = pos
      /\ UNCHANGED <<mode, edge, touched, current, mutating, applied, exit, report>>
  BY DEF Complain, Tally, Goto
<1>3. pos \in Edges /\ pc' \in {"enter", "summary"}
  BY <1>1, <1>2 DEF Places
<1>4. Behind = 1..(pos - 1) /\ Behind' = Behind \cup {pos}
  BY <1>1, <1>2, <1>3 DEF Behind, Edges
<1>5. LoopInv'
  BY <1>1, <1>2, <1>3, <1>4 DEF LoopInv, AtEdge
<1>6. Uncounted = {} /\ Uncounted' = {}
  BY <1>1, <1>3 DEF Uncounted, InFlight
<1>7. mode = "apply" => pc = "tally" /\ edge[pos] = "converged" /\ unchecked' = unchecked
  BY <1>1 DEF ApplyInv, Settled, Complain, Tally
<1>8. ApplyInv'
  BY <1>1, <1>2, <1>3, <1>4, <1>6, <1>7 DEF ApplyInv, InFlight, Settled
<1>9. DryInv'
  <2> SUFFICES ASSUME mode = "dry-run"
               PROVE  DryInv'
    BY <1>2 DEF DryInv
  <2>1. /\ \A e \in Edges : edge[e] # "mixed"
        /\ drifted => \E e \in Edges : edge[e] = "drifted"
        /\ \A e \in Behind : e \in unchecked \/ edge[e] = "converged" \/ drifted
    BY <1>1 DEF DryInv
  <2>2. CASE Complain
    <3>1. unchecked' = unchecked \cup {pos} /\ drifted' = drifted
      BY <2>2 DEF Complain
    <3> QED BY <1>2, <1>3, <1>4, <2>1, <3>1 DEF DryInv
  <2>3. CASE Tally
    <3>1. unchecked' = unchecked /\ (drifted' <=> drifted \/ changes)
      BY <2>3 DEF Tally
    <3>2. changes <=> edge[pos] # "converged"
      BY <1>1, <2>3 DEF DryInv, Tally
    <3>3. changes => edge[pos] = "drifted"
      BY <1>1, <1>3, <2>1, <3>2 DEF Places
    <3> QED BY <1>2, <1>3, <1>4, <2>1, <3>1, <3>2, <3>3 DEF DryInv
  <2> QED BY <2>2, <2>3
<1> QED BY <1>3, <1>5, <1>8, <1>9, RunningInv

-----------------------------------------------------------------------------
(* The theorems *)

LEMMA InitInv == Init => Inv
<1> SUFFICES ASSUME Init PROVE Inv
  OBVIOUS
<1>1. Behind = {} /\ Uncounted = {}
  BY DEF Init, Behind, Uncounted, InFlight
<1>2. LoopInv
  BY <1>1 DEF Init, LoopInv, AtEdge
<1>3. ApplyInv
  BY <1>1 DEF Init, ApplyInv, InFlight, Settled
<1>4. DryInv
  BY <1>1 DEF Init, DryInv
<1>5. pc # "exit" /\ AccountIsTrue /\ ExitCodeIsTrue /\ EdgesInTurn /\ BlamedEdgeWasEntered
  BY DEF Init, AccountIsTrue, ExitCodeIsTrue, EdgesInTurn, BlamedEdgeWasEntered
<1> QED BY <1>2, <1>3, <1>4, <1>5, InitType DEF Inv

LEMMA NextInv == Inv /\ [Next]_vars => Inv'
<1> SUFFICES ASSUME Inv, [Next]_vars
             PROVE  Inv'
  OBVIOUS
<1>1. TypeOK'
  BY NextType DEF Inv
<1>2. CASE LoadFails \/ (PlanRaises /\ mode = "apply") \/ ApplyRaises \/ PrintFails \/ Interrupt
  BY <1>1, <1>2, LeaveInv DEF LoadFails, PlanRaises, ApplyRaises, PrintFails
<1>3. CASE Load \/ Enter \/ ClearMutating \/ Planned \/ OnMutate \/ Verified \/ PrintDiff
           \/ CountApplied \/ Announce \/ (PlanRaises /\ mode # "apply")
  BY <1>1, <1>3, StepInv
<1>4. CASE Write("mixed") \/ Write("converged")
  BY <1>1, <1>4, WriteInv
<1>5. CASE Complain \/ Tally
  BY <1>1, <1>5, NextEdgeInv
<1>6. CASE Summary
  BY <1>1, <1>6, SummaryInv
<1>7. CASE UNCHANGED vars
  BY <1>7 DEF vars, locals, Inv, TypeOK, LoopInv, ApplyInv, DryInv, Behind, Uncounted,
     AccountIsTrue, ExitCodeIsTrue, EdgesInTurn, BlamedEdgeWasEntered
<1> QED BY <1>2, <1>3, <1>4, <1>5, <1>6, <1>7 DEF Next

\* The inductive invariant holds in every state.
THEOREM Invariant == Spec => []Inv
<1>1. Init => Inv
  BY InitInv
<1>2. Inv /\ [Next]_vars => Inv'
  BY NextInv
<1> QED BY <1>1, <1>2, PTL DEF Spec

\* However a run of any number of edges ends, every edge it changed is either
\* counted as applied and as truth states it, or named as possibly half-changed.
THEOREM TrueAccount == Spec => []AccountIsTrue
<1>1. Inv => AccountIsTrue
  BY DEF Inv
<1> QED BY <1>1, Invariant, PTL

\* Exit codes 0 and 2 are never said of a run without an answer for every edge.
THEOREM TrueExitCode == Spec => []ExitCodeIsTrue
<1>1. Inv => ExitCodeIsTrue
  BY DEF Inv
<1> QED BY <1>1, Invariant, PTL

\* No edge is written to while one before it differs from truth.
THEOREM InTurn == Spec => []EdgesInTurn
<1>1. Inv => EdgesInTurn
  BY DEF Inv
<1> QED BY <1>1, Invariant, PTL

\* An error names an edge as possibly half-changed only if apply was entered.
THEOREM TrueBlame == Spec => []BlamedEdgeWasEntered
<1>1. Inv => BlamedEdgeWasEntered
  BY DEF Inv
<1> QED BY <1>1, Invariant, PTL

=============================================================================
