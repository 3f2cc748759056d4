----------------------------- MODULE DriftNight -----------------------------
(***************************************************************************)
(* drift.yml: a nightly dry run over the public edge, then over the        *)
(* private one if the lab has its zone, an issue if either has drifted,    *)
(* and a last step that fails the run when the private edge could not be   *)
(* checked.  Nights may overlap (a run can be dispatched by hand), and the *)
(* lab is built and destroyed meanwhile by somebody else.                  *)
(***************************************************************************)
EXTENDS Naturals, FiniteSets

CONSTANT Night

VARIABLES
    lab,        \* "down", "half" (a resource group without its zone) or "up"
    at,         \* the step each night is in; "green" or "red" when it is over
    public,     \* exit code of the public check; "none" before it
    login,      \* outcomes: "none" (or skipped), "success", "failure"
    zone,
    present,    \* whether the zone was found
    azure,      \* exit code of the azure check; "none" if it was not made
    report,     \* outcome of the report
    found,      \* whether the listing returned an open issue
    issues,     \* how many drift issues are open
    labSeen,    \* what the lab was when its zone was listed
    disturbed,  \* nights in which something failed or the lab changed
    overlapped  \* whether two nights ran at once

steps == <<public, login, zone, present, azure, report, found>>
ghosts == <<labSeen, disturbed, overlapped>>
night == <<at, steps, issues, ghosts>>

Over == {"idle", "green", "red"}
Running == {n \in Night : at[n] \notin Over}

Outcomes == {"success", "failure"}
Codes == {"0", "1", "2"}     \* converged, failed, drift found

-----------------------------------------------------------------------------

Step(n, from, to) == at[n] = from /\ at' = [at EXCEPT ![n] = to]

(* A step that fails by itself disturbs its night. *)
Disturbs(n, fails) == disturbed' = IF fails THEN disturbed \cup {n} ELSE disturbed

Start(n) ==
    /\ Step(n, "idle", "public")
    /\ overlapped' = (overlapped \/ Running # {})
    /\ UNCHANGED <<lab, steps, issues, labSeen, disturbed>>

(* cham-reconcile --dry-run: 0 converged, 1 error, 2 drift; the gate lets  *)
(* 0 and 2 pass.  A failure skips all but the steps that always run.       *)
CheckPublic(n) ==
    \E code \in Codes :
        /\ Step(n, "public", IF code = "1" THEN "list" ELSE "login")
        /\ public' = [public EXCEPT ![n] = code]
        /\ Disturbs(n, code = "1")
        /\ UNCHANGED <<lab, login, zone, present, azure, report, found, issues,
                       labSeen, overlapped>>

Login(n) ==
    \E result \in Outcomes :
        /\ Step(n, "login", IF result = "success" THEN "group" ELSE "list")
        /\ login' = [login EXCEPT ![n] = result]
        /\ Disturbs(n, result = "failure")
        /\ UNCHANGED <<lab, public, zone, present, azure, report, found, issues,
                       labSeen, overlapped>>

ProbeFails(n) ==
    /\ at[n] \in {"group", "zone"} /\ at' = [at EXCEPT ![n] = "list"]
    /\ zone' = [zone EXCEPT ![n] = "failure"]
    /\ Disturbs(n, TRUE)
    /\ UNCHANGED <<lab, public, login, present, azure, report, found, issues,
                   labSeen, overlapped>>

Probed(n, answer) ==
    /\ at' = [at EXCEPT ![n] = IF answer THEN "azure" ELSE "list"]
    /\ zone' = [zone EXCEPT ![n] = "success"]
    /\ present' = [present EXCEPT ![n] = answer]
    /\ labSeen' = [labSeen EXCEPT ![n] = lab]
    /\ UNCHANGED <<lab, public, login, azure, report, found, issues, disturbed, overlapped>>

(* Variant: the resource group stands for the zone. *)
ProbeGroupOnly(n) == at[n] = "group" /\ Probed(n, lab # "down")

(* az group exists *)
ProbeGroup(n) ==
    /\ at[n] = "group"
    /\ \/ lab = "down" /\ Probed(n, FALSE)
       \/ /\ lab # "down" /\ at' = [at EXCEPT ![n] = "zone"]
          /\ UNCHANGED <<lab, steps, issues, ghosts>>

(* az network private-dns zone list, which fails if the group has gone *)
ListZones(n) ==
    /\ at[n] = "zone" /\ lab # "down"
    /\ Probed(n, lab = "up")

GroupGone(n) == at[n] = "zone" /\ lab = "down" /\ ProbeFails(n)

CheckAzure(n) ==
    \E code \in IF lab = "up" THEN Codes ELSE {"1"} :
        /\ Step(n, "azure", "list")
        /\ azure' = [azure EXCEPT ![n] = code]
        /\ Disturbs(n, lab = "up" /\ code = "1")
        /\ UNCHANGED <<lab, public, login, zone, present, report, found, issues,
                       labSeen, overlapped>>

Drifted(n) == "2" \in {public[n], azure[n]}

NothingToReport(n) ==
    /\ ~Drifted(n) /\ Step(n, "list", "last")
    /\ UNCHANGED <<lab, steps, issues, ghosts>>

(* listForRepo, without the pull requests *)
ListIssues(n) ==
    /\ Drifted(n) /\ Step(n, "list", "report")
    /\ found' = [found EXCEPT ![n] = issues > 0]
    /\ UNCHANGED <<lab, public, login, zone, present, azure, report, issues, ghosts>>

(* Variant: an issue every night. *)
AnIssueEachTime(n) == TRUE

NeedsIssue(n) == ~found[n]

(* createComment, or create *)
ReportDrift(n) ==
    /\ Step(n, "report", "last")
    /\ report' = [report EXCEPT ![n] = "success"]
    /\ issues' = IF NeedsIssue(n) THEN issues + 1 ELSE issues
    /\ UNCHANGED <<lab, public, login, zone, present, azure, found, ghosts>>

(* A request that fails may have landed. *)
ReportFails(n) ==
    /\ Drifted(n) /\ at[n] \in {"list", "report"} /\ at' = [at EXCEPT ![n] = "last"]
    /\ report' = [report EXCEPT ![n] = "failure"]
    /\ issues' \in {issues, IF at[n] = "report" /\ NeedsIssue(n) THEN issues + 1 ELSE issues}
    /\ Disturbs(n, TRUE)
    /\ UNCHANGED <<lab, public, login, zone, present, azure, found, labSeen, overlapped>>

Unchecked(n) == login[n] = "failure" \/ zone[n] = "failure" \/ azure[n] = "1"

(* The run is red if the last step fails it, or a step did that may not. *)
LastStep(n) ==
    /\ Step(n, "last", IF Unchecked(n) \/ public[n] = "1" \/ report[n] = "failure"
                       THEN "red" ELSE "green")
    /\ UNCHANGED <<lab, steps, issues, ghosts>>

(* Somebody closes an issue. *)
IssueCloses ==
    /\ issues > 0 /\ issues' = issues - 1
    /\ UNCHANGED <<lab, at, steps, ghosts>>

(* The lab changes under the nights that run. *)
LabMoves ==
    /\ disturbed' = disturbed \cup Running
    /\ UNCHANGED <<at, steps, issues, labSeen, overlapped>>

-----------------------------------------------------------------------------

NightNext ==
    \/ IssueCloses
    \/ \E n \in Night :
          \/ Start(n) \/ CheckPublic(n) \/ Login(n)
          \/ ProbeFails(n) \/ ProbeGroup(n) \/ ListZones(n) \/ GroupGone(n)
          \/ CheckAzure(n) \/ NothingToReport(n) \/ ListIssues(n)
          \/ ReportDrift(n) \/ ReportFails(n) \/ LastStep(n)

NightInit ==
    /\ at = [n \in Night |-> "idle"]
    /\ public = [n \in Night |-> "none"] /\ azure = [n \in Night |-> "none"]
    /\ login = [n \in Night |-> "none"] /\ zone = [n \in Night |-> "none"]
    /\ present = [n \in Night |-> FALSE]
    /\ report = [n \in Night |-> "none"] /\ found = [n \in Night |-> FALSE]
    /\ issues \in 0..1
    /\ labSeen = [n \in Night |-> "none"]
    /\ disturbed = {} /\ overlapped = FALSE

-----------------------------------------------------------------------------
(* Properties *)

NightTypeOK ==
    /\ at \in [Night -> Over \cup {"public", "login", "group", "zone", "azure",
                                  "list", "report", "last"}]
    /\ public \in [Night -> {"none"} \cup Codes] /\ azure \in [Night -> {"none"} \cup Codes]
    /\ \A f \in {login, zone, report} : f \in [Night -> {"none"} \cup Outcomes]
    /\ present \in [Night -> BOOLEAN] /\ found \in [Night -> BOOLEAN]
    /\ \A n \in Night : azure[n] # "none" => present[n]
    /\ issues \in 0..(1 + Cardinality(Night))
    /\ labSeen \in [Night -> {"none", "down", "half", "up"}]
    /\ disturbed \subseteq Night /\ overlapped \in BOOLEAN

(* The colour of a night is true.  A green one looked at both edges, or    *)
(* the private zone was not there when it was listed.  A red one was       *)
(* disturbed: whatever the lab is, half built included, a night in which   *)
(* nothing fails and nobody changes the lab is green.  And nothing that    *)
(* fails at Azure keeps drift of either edge from being reported.          *)
NightIsTrue ==
    \A n \in Night :
        /\ at[n] = "green" =>
              /\ public[n] \in {"0", "2"}
              /\ azure[n] \in {"0", "2"} \/ labSeen[n] \in {"down", "half"}
              /\ Drifted(n) => report[n] = "success"
        /\ at[n] = "red" =>
              /\ n \in disturbed
              /\ Drifted(n) => report[n] \in Outcomes

(* There is one open drift issue at a time, unless two nights ran at once. *)
OneIssueUnlessOverlapped == issues > 1 => overlapped
=============================================================================
