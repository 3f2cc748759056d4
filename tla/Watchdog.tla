------------------------------ MODULE Watchdog ------------------------------
(***************************************************************************)
(* scripts/phase3-vm-watchdog.ps1: at a deadline, every lab VM is          *)
(* deallocated and seen to be, by one machine per VM,                      *)
(*     pending-request -> pending-verify -> done,                          *)
(* which falls back when an accepted operation stalls.  Azure accepts      *)
(* requests and drops them, answers late, wrongly or not at all.  A budget *)
(* of time past the deadline ends it all.                                  *)
(***************************************************************************)
EXTENDS Naturals, FiniteSets

CONSTANTS
    VM,             \* $expectedVmNames
    Order,          \* the place of each in that list
    Deadline,       \* $parsedDeadline, on a clock that starts at 0
    Budget,         \* time from the deadline to $retryBudget
    Stall,          \* $stallReissueAfter
    Poll,           \* the pause between two rounds
    MaxCall,        \* the longest a call of az takes
    Work            \* the longest a deallocation takes that is served well

ASSUME WatchdogAssumption ==
    /\ IsFiniteSet(VM)
    /\ Order \in [VM -> Nat] /\ \A v, w \in VM : Order[v] = Order[w] => v = w
    /\ Deadline \in Nat \ {0} /\ Budget \in Nat /\ Stall \in Nat
    /\ Poll \in Nat \ {0} /\ MaxCall \in Nat /\ Work \in Nat

VARIABLES
    clock,
    pc,             \* "arm", "wait", "top", "turn"; then how it ended
    due,            \* the VMs still to be looked at in this round
    phase, everAccepted,    \* $vmStates
    acceptedAt,     \* AcceptedAtUtc, 0 unless it is still going to be read
    report,         \* what the log says of each VM in the end
    toldUnverified, \* watchdog_deallocation_UNVERIFIED
    azure,          \* what each VM is doing
    since,          \* when the operation on it was accepted; 0 if none is
    served,         \* how well Azure served it: "well", "dropped" once, "ill"
    acknowledged    \* the VMs whose deallocation Azure said it accepted

machine == <<phase, acceptedAt, everAccepted>>
outcome == <<report, toldUnverified>>
cloud == <<azure, since, served, acknowledged>>
vars == <<clock, pc, due, machine, outcome, cloud>>

Phases == {"pending-request", "pending-verify", "done"}
Busy == {"accepted", "deallocating"}
Ended == {"verified", "exhausted", "unarmed"}

Pending == {v \in VM : phase[v] # "done"}
RetryBudget == Deadline + Budget

-----------------------------------------------------------------------------
(* Azure *)

(* An operation that takes longer than Work is not served well, nor is one *)
(* that has not begun when the stall window closes: by then "a healthy     *)
(* deallocation has always reported PowerState/deallocating".              *)
Overdue(v, now) ==
    /\ since[v] > 0
    /\ \/ azure[v] \in Busy /\ now > since[v] + Work
       \/ azure[v] = "accepted" /\ now > since[v] + Stall

(* Time passes until now, and the VMs in wronged are not served well. *)
Passes(now, wronged) ==
    /\ clock' = now
    /\ served' = [v \in VM |-> IF v \in wronged \/ Overdue(v, now) THEN "ill"
                               ELSE served[v]]

AzureBegins(v) ==
    /\ azure[v] = "accepted" /\ azure' = [azure EXCEPT ![v] = "deallocating"]
    /\ UNCHANGED <<clock, pc, due, machine, outcome, since, served, acknowledged>>

AzureFinishes(v) ==
    /\ azure[v] = "deallocating" /\ azure' = [azure EXCEPT ![v] = "deallocated"]
    /\ since' = [since EXCEPT ![v] = 0]
    /\ UNCHANGED <<clock, pc, due, machine, outcome, served, acknowledged>>

(* One operation may fail without that counting as ill service. *)
AzureDrops(v) ==
    /\ azure[v] \in Busy /\ azure' = [azure EXCEPT ![v] = "running"]
    /\ served' = [served EXCEPT ![v] = IF @ = "well" THEN "dropped" ELSE "ill"]
    /\ since' = [since EXCEPT ![v] = 0]
    /\ UNCHANGED <<clock, pc, due, machine, outcome, acknowledged>>

PowerState(v) ==
    IF azure[v] \in {"deallocating", "deallocated"} THEN azure[v] ELSE "running"

-----------------------------------------------------------------------------
(* Arming *)

Arm ==
    /\ pc = "arm" /\ pc' \in {"wait", "unarmed"}
    /\ UNCHANGED <<clock, due, machine, outcome, cloud>>

Wait ==
    /\ pc = "wait"
    /\ IF clock < Deadline THEN Passes(clock + 1, {}) /\ UNCHANGED pc
       ELSE pc' = "top" /\ UNCHANGED <<clock, served>>
    /\ UNCHANGED <<due, machine, outcome, azure, since, acknowledged>>

-----------------------------------------------------------------------------
(* A round *)

(* Variant: by phase alone. *)
UnverifiedByPhase(v) == phase[v] # "pending-request"

Unverified(v) == phase[v] # "pending-request" \/ everAccepted[v]

Verified ==
    /\ pc = "top" /\ Pending = {} /\ pc' = "verified"
    /\ UNCHANGED <<clock, due, machine, outcome, cloud>>

(* Variant: the budget is not looked at. *)
InTimeAlways == TRUE

InTime == clock <= RetryBudget

Report ==
    [v \in VM |-> IF v \notin Pending THEN "none"
                 ELSE IF Unverified(v) THEN "verify_FAILED" ELSE "deallocate_FAILED"]

(* Variant: the loop is left only when something was left unverified. *)
GiveUpIfUnverified ==
    /\ pc = "top" /\ Pending # {} /\ ~InTime
    /\ pc' = IF \E v \in Pending : Unverified(v) THEN "exhausted" ELSE "top"
    /\ report' = Report
    /\ toldUnverified' = (\E v \in Pending : Unverified(v))
    /\ UNCHANGED <<clock, due, machine, cloud>>

GiveUp ==
    /\ pc = "top" /\ Pending # {} /\ ~InTime /\ pc' = "exhausted"
    /\ report' = Report
    /\ toldUnverified' = (\E v \in Pending : Unverified(v))
    /\ UNCHANGED <<clock, due, machine, cloud>>

Round ==
    /\ pc = "top" /\ Pending # {} /\ InTime /\ pc' = "turn"
    /\ due' = Pending
    /\ UNCHANGED <<clock, machine, outcome, cloud>>

Turn(v) == pc = "turn" /\ v \in due /\ \A w \in due : Order[v] <= Order[w]

(* Variant: accepted is as good as done. *)
AcceptedIsDone == "done"

AfterAcceptance == "pending-verify"

(* az vm deallocate --no-wait.  It may land though the call fails. *)
Request(v) ==
    /\ Turn(v) /\ phase[v] = "pending-request"
    /\ \E now \in clock..(clock + MaxCall), lands, answered \in BOOLEAN :
          /\ answered => lands
          /\ Passes(now, IF answered THEN {} ELSE {v})
          /\ IF answered
             THEN /\ phase' = [phase EXCEPT ![v] = AfterAcceptance]
                  /\ acceptedAt' = [acceptedAt EXCEPT ![v] = now]
                  /\ everAccepted' = [everAccepted EXCEPT ![v] = TRUE]
                  /\ acknowledged' = acknowledged \cup {v}
             ELSE UNCHANGED <<machine, acknowledged>>
          /\ IF lands /\ azure[v] = "running"
             THEN /\ azure' = [azure EXCEPT ![v] = "accepted"]
                  /\ since' = [since EXCEPT ![v] = IF served'[v] = "ill" THEN 0 ELSE now]
             ELSE UNCHANGED <<azure, since>>
    /\ due' = due \ {v}
    /\ UNCHANGED <<pc, outcome>>

Stalled(v, now) == now > acceptedAt[v] + Stall

(* Variant: an accepted request is never issued again. *)
VerdictWithoutReissue(v, state, now) ==
    IF state = "deallocated" THEN "done" ELSE "pending-verify"

(* What an instance view makes of a VM that waits to be verified. *)
Verdict(v, state, now) ==
    IF state = "deallocated" THEN "done"
    ELSE IF state # "deallocating" /\ Stalled(v, now) THEN "pending-request"
    ELSE "pending-verify"

(* az vm get-instance-view; an answer that cannot be had or read is "unknown". *)
Verify(v) ==
    /\ Turn(v) /\ phase[v] = "pending-verify"
    /\ \E now \in clock..(clock + MaxCall), state \in {PowerState(v), "unknown"} :
          /\ Passes(now, IF state = "unknown" THEN {v} ELSE {})
          /\ phase' = [phase EXCEPT ![v] = Verdict(v, state, now)]
          /\ acceptedAt' = [acceptedAt EXCEPT ![v] = IF phase'[v] = "pending-verify"
                                                    THEN @ ELSE 0]
    /\ due' = due \ {v}
    /\ UNCHANGED <<pc, everAccepted, outcome, azure, since, acknowledged>>

RoundEnds ==
    /\ pc = "turn" /\ due = {}
    /\ pc' = "top"
    /\ IF Pending = {} THEN UNCHANGED <<clock, served>> ELSE Passes(clock + Poll, {})
    /\ UNCHANGED <<due, machine, outcome, azure, since, acknowledged>>

-----------------------------------------------------------------------------

Progress ==
    \/ Arm \/ Wait \/ Verified \/ GiveUp \/ Round \/ RoundEnds
    \/ \E v \in VM : Request(v) \/ Verify(v)

Next ==
    \/ Progress
    \/ pc = "turn" /\ \E v \in VM : AzureBegins(v) \/ AzureFinishes(v) \/ AzureDrops(v)

Init ==
    /\ clock = 0 /\ pc = "arm" /\ due = {}
    /\ phase = [v \in VM |-> "pending-request"]
    /\ acceptedAt = [v \in VM |-> 0]
    /\ everAccepted = [v \in VM |-> FALSE]
    /\ report = [v \in VM |-> "none"] /\ toldUnverified = FALSE
    /\ azure \in [VM -> {"running", "deallocated"}]
    /\ since = [v \in VM |-> 0]
    /\ served = [v \in VM |-> "well"] /\ acknowledged = {}

Spec == Init /\ [][Next]_vars /\ WF_vars(Progress)

-----------------------------------------------------------------------------
(* Properties *)

(* Types; the clock stays within a round of the budget. *)
TypeOK ==
    /\ clock \in 0..(RetryBudget + Poll + MaxCall * Cardinality(VM))
    /\ pc \in {"arm", "wait", "top", "turn"} \cup Ended
    /\ due \subseteq VM
    /\ phase \in [VM -> Phases]
    /\ acceptedAt \in [VM -> Nat] /\ \A v \in VM : acceptedAt[v] <= clock
    /\ everAccepted \in [VM -> BOOLEAN]
    /\ report \in [VM -> {"none", "verify_FAILED", "deallocate_FAILED"}]
    /\ toldUnverified \in BOOLEAN
    /\ azure \in [VM -> {"running", "deallocated"} \cup Busy]
    /\ since \in [VM -> Nat]
    /\ served \in [VM -> {"well", "dropped", "ill"}] /\ acknowledged \subseteq VM

(* watchdog_deallocation_verified=true is said only when every VM is       *)
(* deallocated: acceptance is not completion.                              *)
VerifiedMeansDeallocated ==
    pc = "verified" => \A v \in VM : azure[v] = "deallocated"

(* When the budget runs out, a VM whose deallocation Azure acknowledged,   *)
(* then or any number of reissues before, is told apart from one whose     *)
(* deallocation it never did, and UNVERIFIED is said for the former only.  *)
UnverifiedIsTold ==
    pc = "exhausted" =>
        /\ \A v \in Pending : (v \in acknowledged) = (report[v] = "verify_FAILED")
        /\ \A v \in VM \ Pending : report[v] = "none"
        /\ toldUnverified = (Pending \cap acknowledged # {})

(* A VM that Azure serves well, save for one dropped operation, is done    *)
(* before the budget ends, whatever happens to the other VMs.  The budget  *)
(* must hold the operation that is dropped, or the stall after which that  *)
(* is noticed, then one that is not, and three rounds.  An operation may   *)
(* take longer than the stall: while it is seen to be under way, it is not *)
(* given up.                                                               *)
LongestRound == MaxCall * Cardinality(VM) + Poll
Longer == IF Work > Stall THEN Work ELSE Stall
AmpleBudget == Budget >= Longer + Work + 3 * LongestRound

WellServedIsVerified ==
    AmpleBudget /\ pc = "exhausted" => \A v \in Pending : served[v] = "ill"

(* The watchdog ends: verified, out of budget or never armed. *)
WatchdogEnds == <>(pc \in Ended)
=============================================================================
