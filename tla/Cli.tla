-------------------------------- MODULE Cli --------------------------------
(***************************************************************************)
(* cli.main over the selected edges, in --apply and in --dry-run: the loop *)
(* that plans or applies edge after edge, what it remembers of the edges   *)
(* behind it, its exit code, and the account _report_partial_apply gives   *)
(* of a run that did not get to its end.  A single edge's run is taken by  *)
(* its outcome: AzureEdge and CloudflareEdge model how it comes about.     *)
(***************************************************************************)
EXTENDS Naturals

CONSTANTS N         \* number of selected edges, in the order of config.toml

ASSUME CliAssumption == N \in Nat

VARIABLES
    mode,           \* "apply" or "dry-run"
    edge,           \* how each edge compares with truth
    touched,        \* edges a write of this run has reached
    pc,             \* where main is
    pos,            \* the edge the loop is at
    current, mutating, applied, unchecked, drifted,     \* main's locals
    changes,        \* the diff of this edge's result is not empty
    exit,           \* exit status
    report          \* which account was given, if one was

locals == <<current, mutating, applied, unchecked, drifted>>
vars == <<mode, edge, touched, pc, pos, locals, changes, exit, report>>

Edges == 1..N
Steps == {"load", "enter", "clear", "call", "complain", "mutate", "write", "verify", "print",
          "account", "announce", "tally", "summary", "exit"}

TypeOK ==
    /\ mode \in {"apply", "dry-run"}
    /\ edge \in [Edges -> {"converged", "drifted", "mixed"}]
    /\ touched \subseteq Edges
    /\ pc \in Steps
    /\ pos \in Nat /\ (pc = "load" => pos = 1)
    /\ pc \notin {"load", "summary", "exit"} => pos \in Edges
    /\ current \in 0..N
    /\ mutating \subseteq Edges /\ applied \subseteq Edges /\ unchecked \subseteq Edges
    /\ drifted \in BOOLEAN /\ changes \in BOOLEAN
    /\ exit \in {"running", "0", "1", "2", "interrupted"}
    /\ report \in {"none", "partial", "clean"}

Init ==
    /\ mode \in {"apply", "dry-run"}
    /\ edge \in [Edges -> {"converged", "drifted"}] /\ touched = {}
    /\ pc = "load" /\ pos = 1
    /\ current = 0 /\ mutating = {} /\ applied = {} /\ unchecked = {} /\ drifted = FALSE
    /\ changes = FALSE
    /\ exit = "running" /\ report = "none"

-----------------------------------------------------------------------------
(* Leaving main *)

\* Variant: an edge is taken for partly changed only if no edge was applied.
AccountAppliedFirst ==
    IF mode # "apply" \/ current = 0 THEN "none"
    ELSE IF applied # {} THEN "clean"
    ELSE IF mutating # {} THEN "partial"
    ELSE "none"

\* _report_partial_apply
Account ==
    IF mode # "apply" \/ current = 0 THEN "none"
    ELSE IF mutating # {} THEN "partial"
    ELSE IF applied # {} THEN "clean"
    ELSE "none"

Leave(status) ==
    /\ pc' = "exit" /\ exit' = status /\ report' = Account
    /\ UNCHANGED <<mode, edge, touched, pos, locals, changes>>

\* OSError, RuntimeError or ValueError out of the loop.
Raise == Leave("1")

\* Ctrl-C, wherever main is.
Interrupt == pc # "exit" /\ Leave("interrupted")

\* Standard output or error is gone.
PrintFails == pc \in {"complain", "print", "announce", "summary"} /\ Raise

-----------------------------------------------------------------------------
(* The loop *)

Goto(step) == pc' = step /\ UNCHANGED <<exit, report>>

\* Configuration, truth and providers.
Load ==
    /\ pc = "load"
    /\ Goto(IF N = 0 THEN "summary" ELSE "enter")
    /\ UNCHANGED <<mode, edge, touched, pos, locals, changes>>

LoadFails == pc = "load" /\ Raise

Enter ==
    /\ pc = "enter"
    /\ current' = pos
    /\ Goto("clear")
    /\ UNCHANGED <<mode, edge, touched, pos, mutating, applied, unchecked, drifted, changes>>

\* Variant: mutating is kept from edge to edge.
KeepMutating ==
    /\ pc = "clear"
    /\ Goto("call")
    /\ UNCHANGED <<mode, edge, touched, pos, locals, changes>>

ClearMutating ==
    /\ pc = "clear"
    /\ mutating' = {}
    /\ Goto("call")
    /\ UNCHANGED <<mode, edge, touched, pos, current, applied, unchecked, drifted, changes>>

\* plan_edge, alone or at the head of apply_edge, has read and planned.
Planned ==
    /\ pc = "call"
    /\ changes' = (edge[pos] # "converged")
    /\ Goto(IF mode = "apply" /\ edge[pos] # "converged" THEN "mutate" ELSE "print")
    /\ UNCHANGED <<mode, edge, touched, pos, locals>>

\* Variant: a failure that wrote nothing lets --apply go on.
PlanRaisesAndGoesOn ==
    /\ pc = "call"
    /\ Goto("complain")
    /\ UNCHANGED <<mode, edge, touched, pos, locals, changes>>

\* It refused or could not read: --apply stops, --dry-run notes the edge.
PlanRaises ==
    /\ pc = "call"
    /\ IF mode = "apply" THEN Raise
       ELSE Goto("complain") /\ UNCHANGED <<mode, edge, touched, pos, locals, changes>>

Complain ==
    /\ pc = "complain"
    /\ unchecked' = unchecked \cup {pos}
    /\ changes' = FALSE
    /\ IF pos < N THEN Goto("enter") /\ pos' = pos + 1 ELSE Goto("summary") /\ pos' = pos
    /\ UNCHANGED <<mode, edge, touched, current, mutating, applied, drifted>>

OnMutate ==
    /\ pc = "mutate"
    /\ mutating' = mutating \cup {pos}
    /\ Goto("write")
    /\ UNCHANGED <<mode, edge, touched, pos, current, applied, unchecked, drifted, changes>>

\* provider.apply: some of the diff's writes have landed, or all.
Write(status) ==
    /\ pc = "write"
    /\ edge' = [edge EXCEPT ![pos] = status]
    /\ touched' = touched \cup {pos}
    /\ Goto(IF status = "converged" THEN "verify" ELSE "write")
    /\ UNCHANGED <<mode, pos, locals, changes>>

\* apply raises, or the second plan does or finds drift.
ApplyRaises == pc \in {"write", "verify"} /\ Raise

Verified ==
    /\ pc = "verify"
    /\ Goto("print")
    /\ UNCHANGED <<mode, edge, touched, pos, locals, changes>>

PrintDiff ==
    /\ pc = "print"
    /\ Goto(IF mode = "apply" /\ changes THEN "account" ELSE "tally")
    /\ UNCHANGED <<mode, edge, touched, pos, locals, changes>>

CountApplied ==
    /\ pc = "account"
    /\ applied' = applied \cup {pos}
    /\ Goto("announce")
    /\ UNCHANGED <<mode, edge, touched, pos, current, mutating, unchecked, drifted, changes>>

Announce ==
    /\ pc = "announce"
    /\ Goto("tally")
    /\ UNCHANGED <<mode, edge, touched, pos, locals, changes>>

\* Variant: the loop runs one edge past the end.
TallyPastTheEnd ==
    /\ pc = "tally"
    /\ drifted' = (drifted \/ changes)
    /\ IF pos <= N THEN Goto("enter") /\ pos' = pos + 1 ELSE Goto("summary") /\ pos' = pos
    /\ UNCHANGED <<mode, edge, touched, current, mutating, applied, unchecked, changes>>

Tally ==
    /\ pc = "tally"
    /\ drifted' = (drifted \/ changes)
    /\ IF pos < N THEN Goto("enter") /\ pos' = pos + 1 ELSE Goto("summary") /\ pos' = pos
    /\ UNCHANGED <<mode, edge, touched, current, mutating, applied, unchecked, changes>>

\* Variant: drift found is reported whether or not every edge was checked.
ExitCodeDriftFirst ==
    IF mode = "dry-run" /\ drifted THEN "2" ELSE IF unchecked # {} THEN "1" ELSE "0"

ExitCode ==
    IF unchecked # {} THEN "1" ELSE IF mode = "dry-run" /\ drifted THEN "2" ELSE "0"

Summary ==
    /\ pc = "summary"
    /\ pc' = "exit" /\ exit' = ExitCode
    /\ UNCHANGED <<mode, edge, touched, pos, locals, changes, report>>

Next ==
    \/ Load \/ LoadFails \/ Enter \/ ClearMutating \/ Planned \/ PlanRaises \/ Complain
    \/ OnMutate \/ Write("mixed") \/ Write("converged") \/ ApplyRaises \/ Verified
    \/ PrintDiff \/ CountApplied \/ Announce \/ Tally \/ Summary
    \/ PrintFails \/ Interrupt

Spec == Init /\ [][Next]_vars

-----------------------------------------------------------------------------
(* Properties *)

\* The account is complete and true (cli.py:216-220, 250-270): however the run
\* ends, an edge it has written to is either counted as applied, and as truth
\* states it, or it is the one named as possibly half-changed.
AccountIsTrue ==
    pc = "exit" =>
        /\ \A e \in touched : e \in applied \/ (report = "partial" /\ e = current)
        /\ \A e \in applied : edge[e] = "converged"
        /\ report = "none" /\ applied # {} => exit = "0"

\* The contract of the exit code (cli.py:3-6): 0 and 2 are said only of a run
\* that has an answer for every edge, and the answer is right.
ExitCodeIsTrue ==
    /\ exit = "0" => \A e \in Edges : edge[e] = "converged"
    /\ exit = "2" => mode = "dry-run" /\ unchecked = {} /\ \E e \in Edges : edge[e] = "drifted"

\* "Writing on to the next edge after an unexplained failure is how a bad state
\* spreads" (cli.py:199-202): an edge is written to only when every edge before
\* it is as truth states it.
EdgesInTurn == \A e \in touched : \A d \in 1..(e - 1) : edge[d] = "converged"

\* A plan-time refusal never sends the operator looking for damage
\* (cli.py:145-147): when an error ended the run, the edge named as possibly
\* half-changed is one this run's apply was entered for.
BlamedEdgeWasEntered == exit = "1" /\ report = "partial" => current \in mutating

\* Whoever is named "did not complete and may be partially mutated" was entered
\* by apply and has not been counted as applied (cli.py:144-147).
OnlyIncompleteIsBlamed ==
    report = "partial" => current \in mutating /\ current \notin applied

=============================================================================
