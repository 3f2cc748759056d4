-------------------------- MODULE Watchdog_proofs ---------------------------
(***************************************************************************)
(* What the log of the watchdog is worth, for every number of VMs and      *)
(* every deadline, budget and duration.                                    *)
(***************************************************************************)
EXTENDS Watchdog, FiniteSetTheorems, TLAPS

USE WatchdogAssumption

\* Every call that is still to be made in a round has its time set aside.
ClockInv ==
    /\ pc \in {"arm", "wait"} => clock <= Deadline
    /\ pc = "turn" => clock + MaxCall * Cardinality(due)
                        <= RetryBudget + MaxCall * Cardinality(VM)

TypeInv == TypeOK /\ ClockInv

\* What is done is deallocated, and stays so while the watchdog runs.
DoneInv ==
    /\ \A v \in VM : phase[v] = "done" => azure[v] = "deallocated"
    /\ pc = "verified" => Pending = {}

\* everAccepted survives a reissue: it is Azure's acknowledgement, and no VM
\* left its first phase without one.
AccountInv ==
    /\ \A v \in VM : everAccepted[v] <=> v \in acknowledged
    /\ \A v \in VM : phase[v] # "pending-request" => everAccepted[v]
    /\ pc = "exhausted" => /\ report = Report
                           /\ toldUnverified = (\E v \in Pending : Unverified(v))

-----------------------------------------------------------------------------
\* The VMs are counted by a natural number, and so are those still due.
LEMMA Counted ==
    ASSUME due \subseteq VM
    PROVE  /\ IsFiniteSet(due) /\ Cardinality(due) \in Nat
           /\ Cardinality(VM) \in Nat /\ Cardinality(due) <= Cardinality(VM)
<1>1. IsFiniteSet(due) /\ Cardinality(due) <= Cardinality(VM)
    BY FS_Subset
<1>2. QED
    BY <1>1, FS_CardinalityType

\* A product with one more is the product and one more.
LEMMA OneMore ==
    ASSUME NEW n \in Nat
    PROVE  /\ MaxCall * n \in Nat
           /\ n > 0 => MaxCall * n = MaxCall * (n - 1) + MaxCall /\ MaxCall * (n - 1) \in Nat
    OBVIOUS

\* More calls take more time.
LEMMA NoMoreTime ==
    ASSUME NEW m \in Nat, NEW n \in Nat, m <= n
    PROVE  MaxCall * m \in Nat /\ MaxCall * n \in Nat /\ MaxCall * m <= MaxCall * n
<1>1. n - m \in Nat /\ n = m + (n - m)
    OBVIOUS
<1>2. MaxCall * n = MaxCall * m + MaxCall * (n - m) /\ MaxCall * (n - m) \in Nat
    BY <1>1
<1>3. QED
    BY <1>2

-----------------------------------------------------------------------------
\* A call that is made for a VM which is due stays within the time set aside.
LEMMA CallKeepsTime ==
    ASSUME TypeInv, NEW v \in VM, Turn(v), due' = due \ {v}, UNCHANGED pc,
           NEW now \in clock..(clock + MaxCall), clock' = now
    PROVE  /\ due' \subseteq VM
           /\ clock' \in 0..(RetryBudget + Poll + MaxCall * Cardinality(VM))
           /\ ClockInv'
<1>1. /\ clock \in Nat /\ due \subseteq VM /\ pc = "turn" /\ v \in due
      /\ clock + MaxCall * Cardinality(due) <= RetryBudget + MaxCall * Cardinality(VM)
    BY DEF TypeInv, TypeOK, ClockInv, Turn
<1>2. /\ IsFiniteSet(due) /\ Cardinality(due) \in Nat /\ Cardinality(VM) \in Nat
      /\ Cardinality(due) # 0
    BY <1>1, Counted, FS_EmptySet
<1>3. Cardinality(due') = Cardinality(due) - 1
    BY <1>1, <1>2, FS_RemoveElement
<1>4. /\ MaxCall * Cardinality(due) = MaxCall * Cardinality(due') + MaxCall
      /\ MaxCall * Cardinality(due') \in Nat /\ MaxCall * Cardinality(VM) \in Nat
    BY <1>2, <1>3, OneMore
<1>5. RetryBudget \in Nat /\ now \in Nat /\ now <= clock + MaxCall
    BY <1>1 DEF RetryBudget
<1>6. clock' + MaxCall * Cardinality(due') <= RetryBudget + MaxCall * Cardinality(VM)
    BY <1>1, <1>4, <1>5
<1>7. clock' \in 0..(RetryBudget + Poll + MaxCall * Cardinality(VM))
    BY <1>4, <1>5, <1>6
<1>8. QED
    BY <1>1, <1>6, <1>7 DEF ClockInv, RetryBudget

\* The phases a verdict can give.
LEMMA VerdictIsPhase ==
    ASSUME NEW v, NEW state, NEW now
    PROVE  /\ Verdict(v, state, now) \in Phases
           /\ Verdict(v, state, now) = "done" => state = "deallocated"
    BY DEF Verdict, Phases

\* The first state has the types.
LEMMA InitHasTypes ==
    ASSUME Init
    PROVE  TypeInv
<1>1. clock \in 0..(RetryBudget + Poll + MaxCall * Cardinality(VM))
    BY OneMore, FS_CardinalityType DEF Init, RetryBudget
<1>2. azure \in [VM -> {"running", "deallocated"} \cup Busy]
    BY DEF Init, Busy
<1>3. report \in [VM -> {"none", "verify_FAILED", "deallocate_FAILED"}]
    BY DEF Init
<1>4. served \in [VM -> {"well", "dropped", "ill"}]
    BY DEF Init
<1>5. phase \in [VM -> Phases]
    BY DEF Init, Phases
<1>6. /\ pc = "arm" /\ due = {} /\ clock = 0 /\ toldUnverified = FALSE /\ acknowledged = {}
      /\ acceptedAt \in [VM -> Nat] /\ \A v \in VM : acceptedAt[v] <= clock
      /\ everAccepted \in [VM -> BOOLEAN] /\ since \in [VM -> Nat]
    BY DEF Init
<1>7. ClockInv
    BY <1>6 DEF ClockInv
<1>8. QED
    BY <1>1, <1>2, <1>3, <1>4, <1>5, <1>6, <1>7 DEF TypeInv, TypeOK

\* Every step keeps the types, and the clock within its bound.
LEMMA StepKeepsTypes ==
    ASSUME TypeInv, [Next]_vars
    PROVE  TypeInv'
<1> USE DEF TypeInv
<1>0. /\ clock \in Nat /\ RetryBudget \in Nat /\ Cardinality(VM) \in Nat
      /\ MaxCall * Cardinality(VM) \in Nat
    BY Counted, OneMore DEF TypeOK, RetryBudget
<1>1. CASE UNCHANGED vars
    BY <1>1 DEF TypeOK, ClockInv, RetryBudget, vars, machine, outcome, cloud
<1>2. CASE Arm
    BY <1>2 DEF Arm, TypeOK, ClockInv, RetryBudget, Ended, machine, outcome, cloud
<1>3. CASE Wait
    <2>1. clock <= Deadline /\ clock' \in Nat /\ clock' <= Deadline
        BY <1>0, <1>3 DEF Wait, Passes, ClockInv
    <2>2. clock' \in 0..(RetryBudget + Poll + MaxCall * Cardinality(VM))
        BY <1>0, <2>1 DEF RetryBudget
    <2>3. served' \in [VM -> {"well", "dropped", "ill"}]
        BY <1>3 DEF Wait, Passes, TypeOK
    <2>4. \A v \in VM : acceptedAt[v] <= clock'
        BY <1>0, <1>3 DEF Wait, Passes, TypeOK
    <2>5. pc' \in {"wait", "top"}
        BY <1>3 DEF Wait
    <2>6. QED
        BY <1>3, <2>1, <2>2, <2>3, <2>4, <2>5 DEF Wait, TypeOK, ClockInv, RetryBudget, machine, outcome
<1>4. CASE Verified
    BY <1>4 DEF Verified, TypeOK, ClockInv, RetryBudget, Ended, machine, outcome, cloud
<1>5. CASE GiveUp
    <2>1. report' \in [VM -> {"none", "verify_FAILED", "deallocate_FAILED"}]
        BY <1>5 DEF GiveUp, Report
    <2>2. toldUnverified' \in BOOLEAN
        BY <1>5 DEF GiveUp
    <2>3. QED
        BY <1>5, <2>1, <2>2 DEF GiveUp, TypeOK, ClockInv, RetryBudget, Ended, machine, cloud
<1>6. CASE Round
    <2>1. due' \subseteq VM /\ clock' = clock /\ clock <= RetryBudget
        BY <1>6 DEF Round, Pending, InTime
    <2>2. /\ Cardinality(due') \in Nat /\ Cardinality(due') <= Cardinality(VM)
        BY <2>1, FS_Subset, FS_CardinalityType
    <2>3. MaxCall * Cardinality(due') \in Nat
          /\ MaxCall * Cardinality(due') <= MaxCall * Cardinality(VM)
        BY <1>0, <2>2, NoMoreTime
    <2>4. clock' + MaxCall * Cardinality(due') <= RetryBudget + MaxCall * Cardinality(VM)
        BY <1>0, <2>1, <2>3
    <2>5. QED
        BY <1>6, <2>1, <2>4 DEF Round, TypeOK, ClockInv, RetryBudget, machine, outcome, cloud
<1>7. CASE RoundEnds
    <2>1. clock <= RetryBudget + MaxCall * Cardinality(VM)
        BY <1>0, <1>7, FS_EmptySet DEF RoundEnds, ClockInv
    <2>2. clock' \in 0..(RetryBudget + Poll + MaxCall * Cardinality(VM)) /\ clock <= clock'
        BY <1>0, <1>7, <2>1 DEF RoundEnds, Passes
    <2>3. served' \in [VM -> {"well", "dropped", "ill"}]
        BY <1>7 DEF RoundEnds, Passes, TypeOK
    <2>4. \A v \in VM : acceptedAt[v] <= clock'
        BY <1>0, <2>2 DEF TypeOK
    <2>5. QED
        BY <1>7, <2>2, <2>3, <2>4 DEF RoundEnds, TypeOK, ClockInv, RetryBudget, machine, outcome
<1>8. ASSUME NEW v \in VM, Request(v)
      PROVE  TypeInv'
    <2>1. PICK now \in clock..(clock + MaxCall), lands \in BOOLEAN, answered \in BOOLEAN :
             /\ Passes(now, IF answered THEN {} ELSE {v})
             /\ IF answered
                THEN /\ phase' = [phase EXCEPT ![v] = AfterAcceptance]
                     /\ acceptedAt' = [acceptedAt EXCEPT ![v] = now]
                     /\ everAccepted' = [everAccepted EXCEPT ![v] = TRUE]
                     /\ acknowledged' = acknowledged \cup {v}
                ELSE UNCHANGED <<machine, acknowledged>>
             /\ IF lands /\ azure[v] = "running"
                THEN /\ azure' = [azure EXCEPT ![v] = "accepted"]
                     /\ since' = [since EXCEPT ![v] = IF served'[v] = "ill" THEN 0 ELSE now]
                ELSE UNCHANGED <<azure, since>>
        BY <1>8 DEF Request
    <2>2. Turn(v) /\ due' = due \ {v} /\ UNCHANGED <<pc, outcome>>
        BY <1>8 DEF Request
    <2>3. /\ due' \subseteq VM /\ ClockInv'
          /\ clock' \in 0..(RetryBudget + Poll + MaxCall * Cardinality(VM))
        BY <2>1, <2>2, CallKeepsTime DEF Passes
    <2>4. now \in Nat /\ clock' = now /\ clock <= clock'
        BY <1>0, <2>1 DEF Passes
    <2>5. served' \in [VM -> {"well", "dropped", "ill"}]
        BY <2>1 DEF Passes, TypeOK
    <2>6. /\ phase' \in [VM -> Phases] /\ everAccepted' \in [VM -> BOOLEAN]
          /\ acknowledged' \subseteq VM
        BY <2>1 DEF TypeOK, machine, AfterAcceptance, Phases
    <2>7. acceptedAt' \in [VM -> Nat] /\ \A w \in VM : acceptedAt'[w] <= clock'
        BY <1>0, <2>1, <2>4 DEF TypeOK, machine
    <2>8. azure' \in [VM -> {"running", "deallocated"} \cup Busy] /\ since' \in [VM -> Nat]
        BY <2>1, <2>4 DEF TypeOK, Busy
    <2>9. QED
        BY <2>2, <2>3, <2>5, <2>6, <2>7, <2>8 DEF TypeOK, RetryBudget, outcome
<1>9. ASSUME NEW v \in VM, Verify(v)
      PROVE  TypeInv'
    <2>1. PICK now \in clock..(clock + MaxCall), state \in {PowerState(v), "unknown"} :
             /\ Passes(now, IF state = "unknown" THEN {v} ELSE {})
             /\ phase' = [phase EXCEPT ![v] = Verdict(v, state, now)]
             /\ acceptedAt' = [acceptedAt EXCEPT ![v] = IF phase'[v] = "pending-verify"
                                                       THEN @ ELSE 0]
        BY <1>9 DEF Verify
    <2>2. Turn(v) /\ due' = due \ {v} /\ UNCHANGED pc
        BY <1>9 DEF Verify
    <2>3. /\ due' \subseteq VM /\ ClockInv'
          /\ clock' \in 0..(RetryBudget + Poll + MaxCall * Cardinality(VM))
        BY <2>1, <2>2, CallKeepsTime DEF Passes
    <2>4. now \in Nat /\ clock' = now /\ clock <= clock'
        BY <1>0, <2>1 DEF Passes
    <2>5. served' \in [VM -> {"well", "dropped", "ill"}]
        BY <2>1 DEF Passes, TypeOK
    <2>6. phase' \in [VM -> Phases]
        BY <2>1, VerdictIsPhase DEF TypeOK
    <2>7. acceptedAt' \in [VM -> Nat] /\ \A w \in VM : acceptedAt'[w] <= clock'
        BY <1>0, <2>1, <2>4 DEF TypeOK
    <2>8. QED
        BY <1>9, <2>3, <2>5, <2>6, <2>7 DEF Verify, TypeOK, RetryBudget, outcome
<1>10. ASSUME NEW v \in VM, AzureBegins(v) \/ AzureFinishes(v) \/ AzureDrops(v)
       PROVE  TypeInv'
    <2>1. /\ azure' \in [VM -> {"running", "deallocated"} \cup Busy] /\ since' \in [VM -> Nat]
          /\ served' \in [VM -> {"well", "dropped", "ill"}]
        BY <1>10 DEF AzureBegins, AzureFinishes, AzureDrops, TypeOK, Busy
    <2>2. UNCHANGED <<clock, pc, due, machine, outcome, acknowledged>>
        BY <1>10 DEF AzureBegins, AzureFinishes, AzureDrops
    <2>3. QED
        BY <2>1, <2>2 DEF TypeOK, ClockInv, RetryBudget, machine, outcome
<1>11. QED
    BY <1>1, <1>2, <1>3, <1>4, <1>5, <1>6, <1>7, <1>8, <1>9, <1>10 DEF Next, Progress

\* The types, for every number of VMs; the clock stays within a round of the
\* budget, however long the calls of az take.
THEOREM TypeCorrect == Spec => []TypeOK
<1>1. Init => TypeInv
    BY InitHasTypes
<1>2. TypeInv /\ [Next]_vars => TypeInv'
    BY StepKeepsTypes
<1>3. QED
    BY <1>1, <1>2, PTL DEF Spec, TypeInv

-----------------------------------------------------------------------------
\* Only an instance view that shows a VM deallocated makes it done, and Azure
\* does not start a deallocated one.
LEMMA StepKeepsDone ==
    ASSUME TypeInv, DoneInv, [Next]_vars
    PROVE  DoneInv'
<1>0. phase \in [VM -> Phases] /\ azure \in [VM -> {"running", "deallocated"} \cup Busy]
    BY DEF TypeInv, TypeOK
<1>1. CASE UNCHANGED <<phase, azure>> /\ (pc' = "verified" => Pending = {})
    BY <1>1 DEF DoneInv, Pending
<1>2. ASSUME NEW v \in VM, Request(v)
      PROVE  DoneInv'
    <2>1. pc' = "turn" /\ phase[v] = "pending-request"
        BY <1>2 DEF Request, Turn
    <2>2. \A w \in VM : phase'[w] = "done" => w # v /\ phase[w] = "done"
        BY <1>0, <1>2, <2>1 DEF Request, machine, AfterAcceptance
    <2>3. \A w \in VM : w # v => azure'[w] = azure[w]
        BY <1>0, <1>2 DEF Request
    <2>4. QED
        BY <2>1, <2>2, <2>3 DEF DoneInv
<1>3. ASSUME NEW v \in VM, Verify(v)
      PROVE  DoneInv'
    <2>1. PICK now \in clock..(clock + MaxCall), state \in {PowerState(v), "unknown"} :
             phase' = [phase EXCEPT ![v] = Verdict(v, state, now)]
        BY <1>3 DEF Verify
    <2>2. pc' = "turn" /\ azure' = azure
        BY <1>3 DEF Verify, Turn
    <2>3. state = "deallocated" => azure[v] = "deallocated"
        BY <2>1 DEF PowerState
    <2>4. phase'[v] = "done" => azure[v] = "deallocated"
        BY <1>0, <2>1, <2>3, VerdictIsPhase
    <2>5. \A w \in VM : w # v => phase'[w] = phase[w]
        BY <1>0, <2>1
    <2>6. QED
        BY <2>2, <2>4, <2>5 DEF DoneInv
<1>4. ASSUME NEW v \in VM, AzureBegins(v) \/ AzureFinishes(v) \/ AzureDrops(v)
      PROVE  DoneInv'
    <2>1. phase' = phase /\ pc' = pc
        BY <1>4 DEF AzureBegins, AzureFinishes, AzureDrops, machine
    <2>2. \A w \in VM : azure[w] = "deallocated" => azure'[w] = "deallocated"
        BY <1>0, <1>4 DEF AzureBegins, AzureFinishes, AzureDrops, Busy
    <2>3. QED
        BY <2>1, <2>2 DEF DoneInv, Pending
<1>5. CASE UNCHANGED vars \/ Arm \/ Wait \/ Verified \/ GiveUp \/ Round \/ RoundEnds
    <2>1. UNCHANGED <<phase, azure>>
        BY <1>5 DEF vars, machine, cloud, Arm, Wait, Verified, GiveUp, Round, RoundEnds
    <2>2. pc' = "verified" => Pending = {}
        BY <1>5 DEF DoneInv, vars, Arm, Wait, Verified, GiveUp, Round, RoundEnds
    <2>3. QED
        BY <1>1, <2>1, <2>2
<1>6. QED
    BY <1>2, <1>3, <1>4, <1>5 DEF Next, Progress

\* watchdog_deallocation_verified=true is never said while a VM runs, whatever
\* Azure accepted, dropped or answered late.
THEOREM Done == Spec => []VerifiedMeansDeallocated
<1>1. Init => TypeInv /\ DoneInv
    <2> SUFFICES ASSUME Init PROVE TypeInv /\ DoneInv
        OBVIOUS
    <2>1. TypeInv
        BY InitHasTypes
    <2>2. QED
        BY <2>1 DEF Init, DoneInv
<1>2. TypeInv /\ DoneInv /\ [Next]_vars => TypeInv' /\ DoneInv'
    BY StepKeepsTypes, StepKeepsDone
<1>3. TypeInv /\ DoneInv => VerifiedMeansDeallocated
    BY DEF TypeInv, TypeOK, DoneInv, VerifiedMeansDeallocated, Pending
<1>4. QED
    BY <1>1, <1>2, <1>3, PTL DEF Spec

-----------------------------------------------------------------------------
\* A VM enters a phase past the first with an acknowledgement, and keeps it
\* when it falls back.
LEMMA StepKeepsAccount ==
    ASSUME TypeInv, AccountInv, [Next]_vars
    PROVE  AccountInv'
<1>0. phase \in [VM -> Phases] /\ everAccepted \in [VM -> BOOLEAN]
    BY DEF TypeInv, TypeOK
<1>1. ASSUME NEW v \in VM, Request(v)
      PROVE  AccountInv'
    <2>1. pc' = "turn"
        BY <1>1 DEF Request, Turn
    <2>2. CASE UNCHANGED <<machine, acknowledged>>
        BY <2>1, <2>2 DEF AccountInv, machine
    <2>3. CASE /\ phase' = [phase EXCEPT ![v] = AfterAcceptance]
               /\ everAccepted' = [everAccepted EXCEPT ![v] = TRUE]
               /\ acknowledged' = acknowledged \cup {v}
        <3>1. everAccepted'[v] = TRUE /\ v \in acknowledged'
            BY <1>0, <2>3
        <3>2. \A w \in VM : w # v => /\ everAccepted'[w] = everAccepted[w]
                                     /\ phase'[w] = phase[w]
                                     /\ (w \in acknowledged') = (w \in acknowledged)
            BY <1>0, <2>3
        <3>3. QED
            BY <2>1, <3>1, <3>2 DEF AccountInv
    <2>4. QED
        BY <1>1, <2>2, <2>3 DEF Request
<1>2. ASSUME NEW v \in VM, Verify(v)
      PROVE  AccountInv'
    <2>1. pc' = "turn" /\ phase[v] # "pending-request" /\ UNCHANGED <<everAccepted, acknowledged>>
        BY <1>2 DEF Verify, Turn
    <2>2. \A w \in VM : phase'[w] # "pending-request" => phase[w] # "pending-request"
        BY <1>0, <1>2, <2>1 DEF Verify
    <2>3. QED
        BY <2>1, <2>2 DEF AccountInv
<1>3. ASSUME NEW v \in VM, AzureBegins(v) \/ AzureFinishes(v) \/ AzureDrops(v)
      PROVE  AccountInv'
    <2>1. UNCHANGED <<pc, machine, outcome, acknowledged>>
        BY <1>3 DEF AzureBegins, AzureFinishes, AzureDrops
    <2>2. QED
        BY <2>1 DEF AccountInv, machine, outcome, Report, Pending, Unverified
<1>4. CASE GiveUp
    <2>1. UNCHANGED <<machine, acknowledged>>
        BY <1>4 DEF GiveUp, cloud
    <2>2. /\ report' = Report /\ toldUnverified' = (\E v \in Pending : Unverified(v))
        BY <1>4 DEF GiveUp
    <2>3. QED
        BY <2>1, <2>2 DEF AccountInv, machine, Report, Pending, Unverified
<1>5. CASE UNCHANGED vars \/ Arm \/ Wait \/ Verified \/ Round \/ RoundEnds
    <2>1. UNCHANGED <<machine, outcome, acknowledged>>
        BY <1>5 DEF vars, cloud, Arm, Wait, Verified, Round, RoundEnds
    <2>2. pc' = "exhausted" => pc = "exhausted"
        BY <1>5 DEF vars, Arm, Wait, Verified, Round, RoundEnds
    <2>3. QED
        BY <2>1, <2>2 DEF AccountInv, machine, outcome, Report, Pending, Unverified
<1>6. QED
    BY <1>1, <1>2, <1>3, <1>4, <1>5 DEF Next, Progress

\* When the budget runs out, each VM is reported by what Azure acknowledged of
\* it, through any number of stalls and reissues.
THEOREM Told == Spec => []UnverifiedIsTold
<1>1. Init => TypeInv /\ AccountInv
    <2> SUFFICES ASSUME Init PROVE TypeInv /\ AccountInv
        OBVIOUS
    <2>1. \A v \in VM : ~everAccepted[v] /\ v \notin acknowledged /\ phase[v] = "pending-request"
        BY DEF Init
    <2>2. pc # "exhausted"
        BY DEF Init
    <2>3. QED
        BY <2>1, <2>2, InitHasTypes DEF AccountInv
<1>2. TypeInv /\ AccountInv /\ [Next]_vars => TypeInv' /\ AccountInv'
    BY StepKeepsTypes, StepKeepsAccount
<1>3. TypeInv /\ AccountInv => UnverifiedIsTold
    <2> SUFFICES ASSUME TypeInv, AccountInv, pc = "exhausted"
                 PROVE  /\ \A v \in Pending : (v \in acknowledged) = (report[v] = "verify_FAILED")
                        /\ \A v \in VM \ Pending : report[v] = "none"
                        /\ toldUnverified = (Pending \cap acknowledged # {})
        BY DEF UnverifiedIsTold
    <2>1. Pending \subseteq VM
        BY DEF Pending
    <2>2. \A v \in VM : Unverified(v) <=> v \in acknowledged
        BY DEF AccountInv, Unverified
    <2>3. report = Report /\ toldUnverified = (\E v \in Pending : Unverified(v))
        BY DEF AccountInv
    <2>4. (\E v \in Pending : Unverified(v)) <=> Pending \cap acknowledged # {}
        BY <2>1, <2>2
    <2>5. \A v \in VM : report[v] = IF v \notin Pending THEN "none"
                                    ELSE IF Unverified(v) THEN "verify_FAILED"
                                    ELSE "deallocate_FAILED"
        BY <2>3 DEF Report
    <2>6. \A v \in Pending : (v \in acknowledged) = (report[v] = "verify_FAILED")
        BY <2>1, <2>2, <2>5
    <2>7. \A v \in VM \ Pending : report[v] = "none"
        BY <2>5
    <2>8. toldUnverified = (Pending \cap acknowledged # {})
        BY <2>3, <2>4 DEF TypeInv, TypeOK
    <2>9. QED
        BY <2>6, <2>7, <2>8
<1>4. QED
    BY <1>1, <1>2, <1>3, PTL DEF Spec

-----------------------------------------------------------------------------
(* How long a VM that is served well can wait                              *)

\* The time of the calls for the VMs of a set.
Calls(S) == MaxCall * Cardinality(S)

Before(v) == {w \in VM : Order[w] < Order[v]}
After(v) == {w \in VM : Order[w] > Order[v]}

\* No more time has passed since u, when VM v was last called, than the calls
\* for other VMs that were made since, and a pause, may take.
Elapsed(v, u) ==
    /\ pc = "top" => clock <= u + Calls(After(v)) + Poll
    /\ pc = "turn" /\ v \in due =>
          clock + Calls(due \cap Before(v)) <= u + Calls(After(v)) + Poll + Calls(Before(v))
    /\ pc = "turn" /\ v \notin due =>
          due \subseteq After(v) /\ clock + Calls(due) <= u + Calls(After(v))

\* When VM v is requested for the first time, at the latest.
FirstBy(v) == Deadline + Calls(Before(v)) + MaxCall

\* The operation that was accepted last is under way, or was not needed.
UnderWay(v) ==
    \/ azure[v] = "deallocated"
    \/ azure[v] \in Busy /\ since[v] = acceptedAt[v] /\ acceptedAt[v] > 0

Fresh(v) == phase[v] = "pending-request" /\ served[v] = "well" /\ azure[v] \notin Busy

\* The five stages of a VM that is served well but for one dropped operation,
\* with the latest time u of the last call in each: not requested yet, under
\* way, dropped, given up after a stall, under way again.
Stage(v, u) ==
    \/ Fresh(v) /\ u <= Deadline - Calls(After(v)) - Poll
    \/ /\ phase[v] = "pending-verify" /\ served[v] = "well" /\ UnderWay(v)
       /\ acceptedAt[v] <= FirstBy(v) /\ u <= acceptedAt[v] + Work
    \/ /\ phase[v] = "pending-verify" /\ served[v] = "dropped" /\ azure[v] = "running"
       /\ acceptedAt[v] <= FirstBy(v) /\ u <= acceptedAt[v] + Longer
    \/ /\ phase[v] = "pending-request" /\ served[v] = "dropped" /\ azure[v] = "running"
       /\ u <= FirstBy(v) + Longer + LongestRound
    \/ /\ phase[v] = "pending-verify" /\ served[v] = "dropped" /\ UnderWay(v)
       /\ acceptedAt[v] <= FirstBy(v) + Longer + LongestRound + LongestRound
       /\ u <= acceptedAt[v] + Work

Waits(v) ==
    /\ pc \in {"arm", "wait"} => Fresh(v)
    /\ pc \in {"top", "turn"} => /\ clock >= Deadline
                                 /\ \E u \in Int : Elapsed(v, u) /\ Stage(v, u)
    /\ pc # "exhausted"

ServiceInv == AmpleBudget => \A v \in Pending : served[v] # "ill" => Waits(v)

\* A deallocation and a stall both fit into the longer of the two.
LEMMA LongerIs == Longer \in Nat /\ Longer >= Stall /\ Longer >= Work
BY DEF Longer

\* The arithmetic of calls: fewer VMs take less time, and one VM less takes a
\* call less.
LEMMA CallsAdd ==
    ASSUME NEW S \in SUBSET VM
    PROVE  /\ Calls(S) \in Nat
           /\ \A T \in SUBSET S : Calls(T) \in Nat /\ Calls(T) <= Calls(S)
           /\ \A x \in S : Calls(S \ {x}) \in Nat /\ Calls(S) = Calls(S \ {x}) + MaxCall
           /\ S = {} => Calls(S) = 0
<1>1. IsFiniteSet(S) /\ Cardinality(S) \in Nat
    BY FS_Subset, FS_CardinalityType
<1>2. Calls(S) \in Nat
    BY <1>1, OneMore DEF Calls
<1>3. ASSUME NEW T \in SUBSET S PROVE Calls(T) \in Nat /\ Calls(T) <= Calls(S)
    <2>1. IsFiniteSet(T) /\ Cardinality(T) <= Cardinality(S) /\ Cardinality(T) \in Nat
        BY <1>1, FS_Subset, FS_CardinalityType
    <2>2. QED
        BY <1>1, <2>1, NoMoreTime DEF Calls
<1>4. ASSUME NEW x \in S PROVE Calls(S \ {x}) \in Nat /\ Calls(S) = Calls(S \ {x}) + MaxCall
    <2>1. Cardinality(S \ {x}) = Cardinality(S) - 1 /\ Cardinality(S) > 0
        BY <1>1, FS_RemoveElement, FS_EmptySet
    <2>2. QED
        BY <1>1, <2>1, OneMore DEF Calls
<1>5. S = {} => Calls(S) = 0
    BY FS_EmptySet DEF Calls
<1>6. QED
    BY <1>2, <1>3, <1>4, <1>5

\* A round is the calls before a VM, its own, those after it, and a pause.
LEMMA RoundAdds ==
    ASSUME NEW v \in VM
    PROVE  /\ Before(v) \in SUBSET VM /\ After(v) \in SUBSET VM
           /\ Calls(Before(v)) \in Nat /\ Calls(After(v)) \in Nat
           /\ LongestRound = Calls(Before(v)) + MaxCall + Calls(After(v)) + Poll
           /\ LongestRound \in Nat /\ FirstBy(v) \in Nat
<1>1. Before(v) \in SUBSET VM /\ After(v) \in SUBSET VM
    BY DEF Before, After
<1>2. /\ IsFiniteSet(Before(v)) /\ IsFiniteSet(After(v))
      /\ Cardinality(Before(v)) \in Nat /\ Cardinality(After(v)) \in Nat
    BY <1>1, FS_Subset, FS_CardinalityType
<1>3. VM \ {v} = Before(v) \cup After(v) /\ Before(v) \cap After(v) = {}
    BY DEF Before, After
<1>4. Cardinality(VM \ {v}) = Cardinality(Before(v)) + Cardinality(After(v))
    <2>1. Cardinality(Before(v) \cap After(v)) = 0
        BY <1>3, FS_EmptySet
    <2>2. Cardinality(Before(v) \cup After(v))
            = Cardinality(Before(v)) + Cardinality(After(v)) - Cardinality(Before(v) \cap After(v))
        BY <1>2, FS_Union
    <2>3. Cardinality(VM \ {v}) = Cardinality(Before(v) \cup After(v))
        BY <1>3, Zenon
    <2>4. QED
        BY <1>2, <2>1, <2>2, <2>3
<1>5. Calls(VM \ {v}) = Calls(Before(v)) + Calls(After(v))
    BY <1>2, <1>4 DEF Calls
<1>6. Calls(VM) = Calls(VM \ {v}) + MaxCall /\ Calls(VM) \in Nat
    BY CallsAdd
<1>7. Calls(Before(v)) \in Nat /\ Calls(After(v)) \in Nat
    BY <1>1, CallsAdd
<1>8. QED
    BY <1>1, <1>5, <1>6, <1>7 DEF LongestRound, Calls, FirstBy

\* The calls of a round come in the order of the list: those before VM v, ...
LEMMA CallOfAnother ==
    ASSUME TypeInv, NEW v \in VM, NEW w \in VM, w # v, Turn(w), due' = due \ {w}, pc' = pc,
           clock' \in clock..(clock + MaxCall), NEW u \in Int, Elapsed(v, u)
    PROVE  Elapsed(v, u)'
<1>1. /\ clock \in Nat /\ clock' \in Nat /\ clock' <= clock + MaxCall
      /\ due \in SUBSET VM /\ due' \in SUBSET VM /\ w \in due /\ pc = "turn"
    BY DEF TypeInv, TypeOK, Turn, RetryBudget
<1>2. /\ Calls(due) \in Nat /\ Calls(due') \in Nat /\ Calls(due) = Calls(due') + MaxCall
    BY <1>1, CallsAdd
<1>3. /\ Calls(Before(v)) \in Nat /\ Calls(After(v)) \in Nat
    BY RoundAdds
<1>4. CASE v \in due
    <2>1. w \in due \cap Before(v) /\ due' \cap Before(v) = (due \cap Before(v)) \ {w}
        BY <1>1, <1>4 DEF Turn, Before
    <2>2. due \cap Before(v) \in SUBSET VM
        BY <1>1
    <2>3. /\ Calls(due' \cap Before(v)) \in Nat
          /\ Calls(due \cap Before(v)) = Calls(due' \cap Before(v)) + MaxCall
        BY <2>1, <2>2, CallsAdd
    <2>4. clock + Calls(due \cap Before(v)) <= u + Calls(After(v)) + Poll + Calls(Before(v))
        BY <1>1, <1>4 DEF Elapsed
    <2>5. clock' + Calls(due' \cap Before(v)) <= u + Calls(After(v)) + Poll + Calls(Before(v))
        BY <1>1, <1>3, <2>3, <2>4
    <2>6. v \in due' /\ pc' = "turn"
        BY <1>1, <1>4
    <2>7. QED
        BY <2>5, <2>6 DEF Elapsed, Calls, Before, After
<1>5. CASE v \notin due
    <2>1. due \subseteq After(v) /\ clock + Calls(due) <= u + Calls(After(v))
        BY <1>1, <1>5 DEF Elapsed
    <2>2. clock' + Calls(due') <= u + Calls(After(v))
        BY <1>1, <1>2, <1>3, <2>1
    <2>3. v \notin due' /\ pc' = "turn" /\ due' \subseteq After(v)
        BY <1>1, <1>5, <2>1
    <2>4. QED
        BY <2>2, <2>3 DEF Elapsed, Calls, Before, After
<1>6. QED
    BY <1>4, <1>5

\* ... its own, no more than a round after the last one, ...
LEMMA OwnCall ==
    ASSUME TypeInv, NEW v \in VM, Turn(v), due' = due \ {v}, pc' = pc,
           NEW now \in clock..(clock + MaxCall), clock' = now, NEW u \in Int, Elapsed(v, u)
    PROVE  /\ now \in Nat /\ now >= clock
           /\ now <= u + LongestRound
           /\ Elapsed(v, now)'
<1>1. /\ clock \in Nat /\ now \in Nat /\ clock <= now /\ now <= clock + MaxCall
      /\ due \in SUBSET VM /\ v \in due /\ pc = "turn"
    BY DEF TypeInv, TypeOK, Turn, RetryBudget
<1>2. /\ Calls(Before(v)) \in Nat /\ Calls(After(v)) \in Nat /\ LongestRound \in Nat
      /\ LongestRound = Calls(Before(v)) + MaxCall + Calls(After(v)) + Poll
      /\ After(v) \in SUBSET VM
    BY RoundAdds
<1>3. due \cap Before(v) = {} /\ due' \subseteq After(v)
    BY <1>1 DEF Turn, Before, After
<1>4. Calls(due \cap Before(v)) = 0
    BY <1>3, CallsAdd
<1>5. clock <= u + Calls(After(v)) + Poll + Calls(Before(v))
    BY <1>1, <1>4 DEF Elapsed
<1>6. now <= u + LongestRound
    BY <1>1, <1>2, <1>5
<1>7. Calls(due') \in Nat /\ Calls(due') <= Calls(After(v))
    BY <1>2, <1>3, CallsAdd
<1>8. clock' + Calls(due') <= now + Calls(After(v))
    BY <1>1, <1>2, <1>7
<1>9. Elapsed(v, now)'
    BY <1>1, <1>3, <1>8 DEF Elapsed, Calls, Before, After
<1>10. QED
    BY <1>1, <1>6, <1>9

\* ... and those after it.
LEMMA RoundTurns ==
    ASSUME TypeInv, NEW v \in Pending, Round \/ RoundEnds, NEW u \in Int, Elapsed(v, u)
    PROVE  Elapsed(v, u)'
<1>0. v \in VM /\ clock \in Nat
    BY DEF Pending, TypeInv, TypeOK, RetryBudget
<1>1. /\ Calls(Before(v)) \in Nat /\ Calls(After(v)) \in Nat /\ Before(v) \in SUBSET VM
    BY <1>0, RoundAdds
<1>2. CASE Round
    <2>1. pc = "top" /\ pc' = "turn" /\ clock' = clock /\ v \in due'
        BY <1>2 DEF Round
    <2>2. Calls(due' \cap Before(v)) \in Nat /\ Calls(due' \cap Before(v)) <= Calls(Before(v))
        BY <1>1, CallsAdd
    <2>3. clock <= u + Calls(After(v)) + Poll
        BY <2>1 DEF Elapsed
    <2>4. clock' + Calls(due' \cap Before(v)) <= u + Calls(After(v)) + Poll + Calls(Before(v))
        BY <1>0, <1>1, <2>1, <2>2, <2>3
    <2>5. QED
        BY <2>1, <2>4 DEF Elapsed, Calls, Before, After
<1>3. CASE RoundEnds
    <2>1. pc = "turn" /\ pc' = "top" /\ due = {} /\ clock' = clock + Poll
        BY <1>3 DEF RoundEnds, Passes
    <2>2. Calls(due) = 0
        BY <2>1, CallsAdd
    <2>3. clock <= u + Calls(After(v))
        BY <1>0, <1>1, <2>1, <2>2 DEF Elapsed
    <2>4. clock' <= u + Calls(After(v)) + Poll
        BY <1>0, <1>1, <2>1, <2>3
    <2>5. QED
        BY <2>1, <2>4 DEF Elapsed, Calls, Before, After
<1>4. QED
    BY <1>2, <1>3

\* Ill service is for good, and good service is neither wronged nor overdue.
LEMMA WellMeans ==
    ASSUME NEW now, NEW wronged, Passes(now, wronged), NEW v \in VM, served'[v] # "ill"
    PROVE  served'[v] = served[v] /\ v \notin wronged /\ ~Overdue(v, now)
    BY DEF Passes

\* A stage is a matter of one VM alone.
LEMMA StageStands ==
    ASSUME NEW v \in VM, NEW u,
           phase'[v] = phase[v], acceptedAt'[v] = acceptedAt[v], azure'[v] = azure[v],
           since'[v] = since[v], served'[v] = served[v]
    PROVE  /\ Stage(v, u) => Stage(v, u)'
           /\ Fresh(v) => Fresh(v)'
    BY DEF Stage, Fresh, UnderWay, FirstBy, LongestRound, Calls, Before, After

\* An operation that ends or is dropped moves its VM to the next stage.
LEMMA AzureKeepsStage ==
    ASSUME AmpleBudget, NEW v \in VM, NEW u \in Int, Stage(v, u), TypeInv,
           AzureBegins(v) \/ AzureFinishes(v) \/ AzureDrops(v), served'[v] # "ill"
    PROVE  Stage(v, u)'
<1>1. /\ azure \in [VM -> {"running", "deallocated"} \cup Busy] /\ since \in [VM -> Nat]
      /\ served \in [VM -> {"well", "dropped", "ill"}] /\ acceptedAt \in [VM -> Nat]
    BY DEF TypeInv, TypeOK
<1>2. phase' = phase /\ acceptedAt' = acceptedAt
    BY DEF AzureBegins, AzureFinishes, AzureDrops, machine
<1>3. azure[v] \in Busy
    BY DEF AzureBegins, AzureFinishes, AzureDrops, Busy
<1>4. phase[v] = "pending-verify" /\ UnderWay(v)
    BY <1>3 DEF Stage, Fresh, Busy
<1>5. FirstBy(v) \in Nat /\ (FirstBy(v))' = FirstBy(v) /\ LongestRound' = LongestRound
    BY RoundAdds DEF FirstBy, Calls, Before, LongestRound
<1>6. CASE AzureBegins(v) \/ AzureFinishes(v)
    <2>1. UnderWay(v)' /\ served'[v] = served[v]
        BY <1>1, <1>2, <1>3, <1>4, <1>6 DEF AzureBegins, AzureFinishes, UnderWay, Busy
    <2>2. azure[v] # "running"
        BY <1>3 DEF Busy
    <2>3. QED
        BY <1>2, <1>4, <1>5, <2>1, <2>2 DEF Stage, Fresh
<1>7. CASE AzureDrops(v)
    <2>1. served[v] = "well" /\ served'[v] = "dropped" /\ azure'[v] = "running"
        BY <1>1, <1>7 DEF AzureDrops
    <2>2. acceptedAt[v] <= FirstBy(v) /\ u <= acceptedAt[v] + Work
        BY <1>4, <2>1 DEF Stage, Fresh
    <2>3. acceptedAt[v] \in Nat /\ u <= acceptedAt[v] + Longer
        BY <1>1, <2>2, LongerIs
    <2>4. QED
        BY <1>2, <1>4, <1>5, <2>1, <2>2, <2>3 DEF Stage
<1>8. QED
    BY <1>6, <1>7

\* A request of a VM that is served well starts an operation, the first or the
\* one after the stall.
LEMMA RequestKeepsStage ==
    ASSUME AmpleBudget, TypeInv, NEW v \in VM, NEW u \in Int, Elapsed(v, u), Stage(v, u),
           clock >= Deadline, Request(v), served'[v] # "ill"
    PROVE  \E x \in Int : Elapsed(v, x)' /\ Stage(v, x)'
<1>1. PICK now \in clock..(clock + MaxCall), lands \in BOOLEAN, answered \in BOOLEAN :
         /\ answered => lands
         /\ Passes(now, IF answered THEN {} ELSE {v})
         /\ IF answered
            THEN /\ phase' = [phase EXCEPT ![v] = AfterAcceptance]
                 /\ acceptedAt' = [acceptedAt EXCEPT ![v] = now]
                 /\ everAccepted' = [everAccepted EXCEPT ![v] = TRUE]
                 /\ acknowledged' = acknowledged \cup {v}
            ELSE UNCHANGED <<machine, acknowledged>>
         /\ IF lands /\ azure[v] = "running"
            THEN /\ azure' = [azure EXCEPT ![v] = "accepted"]
                 /\ since' = [since EXCEPT ![v] = IF served'[v] = "ill" THEN 0 ELSE now]
            ELSE UNCHANGED <<azure, since>>
    BY DEF Request
<1>2. /\ clock' = now /\ Turn(v) /\ due' = due \ {v} /\ pc' = pc
      /\ phase[v] = "pending-request"
    BY <1>1 DEF Request, Passes
<1>3. now \in Nat /\ now >= clock /\ now <= u + LongestRound /\ Elapsed(v, now)'
    BY <1>1, <1>2, OwnCall
<1>4. answered = TRUE /\ served'[v] = served[v]
    BY <1>1, WellMeans
<1>5. /\ azure \in [VM -> {"running", "deallocated"} \cup Busy] /\ since \in [VM -> Nat]
      /\ phase \in [VM -> Phases] /\ acceptedAt \in [VM -> Nat]
    BY DEF TypeInv, TypeOK
<1>6. phase'[v] = "pending-verify" /\ acceptedAt'[v] = now
    BY <1>1, <1>4, <1>5 DEF AfterAcceptance
<1>7. azure[v] \notin Busy
    BY <1>2 DEF Stage, Fresh, Busy
<1>8. UnderWay(v)'
    <2>1. CASE azure[v] = "running"
        <3>1. azure'[v] = "accepted" /\ since'[v] = now
            BY <1>1, <1>4, <1>5, <2>1
        <3>2. now > 0
            BY <1>3, clock \in Nat DEF TypeInv, TypeOK, RetryBudget
        <3>3. QED
            BY <1>6, <3>1, <3>2 DEF UnderWay, Busy
    <2>2. CASE azure[v] = "deallocated"
        BY <1>1, <2>2 DEF UnderWay
    <2>3. QED
        BY <1>5, <1>7, <2>1, <2>2
<1>9. /\ FirstBy(v) \in Nat /\ (FirstBy(v))' = FirstBy(v) /\ LongestRound' = LongestRound
      /\ LongestRound = Calls(Before(v)) + MaxCall + Calls(After(v)) + Poll
      /\ Calls(Before(v)) \in Nat /\ Calls(After(v)) \in Nat /\ LongestRound \in Nat
    BY RoundAdds DEF FirstBy, Calls, Before, LongestRound
<1>10. now <= now + Work
    BY <1>3
<1>11. CASE Fresh(v) /\ u <= Deadline - Calls(After(v)) - Poll
    <2>1. now <= FirstBy(v)
        BY <1>3, <1>9, <1>11 DEF FirstBy
    <2>2. Stage(v, now)'
        BY <1>4, <1>6, <1>8, <1>9, <1>10, <1>11, <2>1 DEF Stage, Fresh
    <2>3. QED
        BY <1>3, <2>2
<1>12. CASE served[v] = "dropped" /\ u <= FirstBy(v) + Longer + LongestRound
    <2>1. now <= FirstBy(v) + Longer + LongestRound + LongestRound
        BY <1>3, <1>9, <1>12, LongerIs
    <2>2. Stage(v, now)'
        BY <1>4, <1>6, <1>8, <1>9, <1>10, <1>12, <2>1 DEF Stage
    <2>3. QED
        BY <1>3, <2>2
<1>13. QED
    BY <1>2, <1>11, <1>12 DEF Stage

\* An instance view of a VM that is served well shows an operation that is
\* under way, or one that was dropped; the stall tells when to give that up.
LEMMA VerifyKeepsStage ==
    ASSUME AmpleBudget, TypeInv, NEW v \in VM, NEW u \in Int, Elapsed(v, u), Stage(v, u),
           Verify(v), served'[v] # "ill", phase'[v] # "done"
    PROVE  \E x \in Int : Elapsed(v, x)' /\ Stage(v, x)'
<1>1. PICK now \in clock..(clock + MaxCall), state \in {PowerState(v), "unknown"} :
         /\ Passes(now, IF state = "unknown" THEN {v} ELSE {})
         /\ phase' = [phase EXCEPT ![v] = Verdict(v, state, now)]
         /\ acceptedAt' = [acceptedAt EXCEPT ![v] = IF phase'[v] = "pending-verify"
                                                   THEN @ ELSE 0]
    BY DEF Verify
<1>2. /\ clock' = now /\ Turn(v) /\ due' = due \ {v} /\ pc' = pc
      /\ phase[v] = "pending-verify" /\ azure' = azure /\ since' = since
    BY <1>1 DEF Verify, Passes
<1>3. now \in Nat /\ now <= u + LongestRound /\ Elapsed(v, now)'
    BY <1>1, <1>2, OwnCall
<1>4. state = PowerState(v) /\ served'[v] = served[v] /\ ~Overdue(v, now)
    BY <1>1, WellMeans
<1>5. /\ azure \in [VM -> {"running", "deallocated"} \cup Busy] /\ since \in [VM -> Nat]
      /\ phase \in [VM -> Phases] /\ acceptedAt \in [VM -> Nat]
    BY DEF TypeInv, TypeOK
<1>6. /\ phase'[v] = Verdict(v, PowerState(v), now)
      /\ phase'[v] = "pending-verify" => acceptedAt'[v] = acceptedAt[v]
    BY <1>1, <1>4, <1>5
<1>7. azure[v] # "deallocated"
    BY <1>6 DEF Verdict, PowerState
<1>8. /\ FirstBy(v) \in Nat /\ (FirstBy(v))' = FirstBy(v) /\ LongestRound' = LongestRound
      /\ LongestRound \in Nat
    BY RoundAdds DEF FirstBy, Calls, Before, LongestRound
<1>9. CASE UnderWay(v)
    <2>1. azure[v] \in Busy /\ since[v] = acceptedAt[v] /\ acceptedAt[v] > 0
        BY <1>7, <1>9 DEF UnderWay
    <2>2. now <= acceptedAt[v] + Work
        BY <1>3, <1>4, <1>5, <2>1 DEF Overdue
    <2>3. azure[v] = "accepted" => ~Stalled(v, now)
        BY <1>3, <1>4, <1>5, <2>1 DEF Overdue, Stalled
    <2>4. phase'[v] = "pending-verify" /\ acceptedAt'[v] = acceptedAt[v]
        BY <1>6, <1>7, <2>1, <2>3 DEF Verdict, PowerState, Busy
    <2>5. UnderWay(v)'
        BY <1>2, <1>9, <2>4 DEF UnderWay
    <2>6. azure[v] # "running"
        BY <2>1 DEF Busy
    <2>7. Stage(v, now)'
        BY <1>2, <1>4, <1>8, <2>2, <2>4, <2>5, <2>6 DEF Stage, Fresh
    <2>8. QED
        BY <1>3, <2>7
<1>10. CASE /\ served[v] = "dropped" /\ azure[v] = "running"
            /\ acceptedAt[v] <= FirstBy(v) /\ u <= acceptedAt[v] + Longer
    <2>1. CASE Stalled(v, now)
        <3>1. phase'[v] = "pending-request"
            BY <1>6, <1>10, <2>1 DEF Verdict, PowerState
        <3>2. now <= FirstBy(v) + Longer + LongestRound
            BY <1>3, <1>5, <1>8, <1>10, LongerIs
        <3>3. Stage(v, now)'
            BY <1>2, <1>4, <1>8, <1>10, <3>1, <3>2 DEF Stage
        <3>4. QED
            BY <1>3, <3>3
    <2>2. CASE ~Stalled(v, now)
        <3>1. phase'[v] = "pending-verify" /\ acceptedAt'[v] = acceptedAt[v]
            BY <1>6, <1>10, <2>2 DEF Verdict, PowerState
        <3>2. now <= acceptedAt[v] + Longer
            BY <1>3, <1>5, <2>2, LongerIs DEF Stalled
        <3>3. Stage(v, now)'
            BY <1>2, <1>4, <1>8, <1>10, <3>1, <3>2 DEF Stage
        <3>4. QED
            BY <1>3, <3>3
    <2>3. QED
        BY <2>1, <2>2
<1>11. QED
    BY <1>2, <1>9, <1>10 DEF Stage, Fresh

\* Nothing makes up for ill service, and nothing undoes what is done.
LEMMA NoWayBack ==
    ASSUME TypeInv, [Next]_vars, NEW v \in Pending', served'[v] # "ill"
    PROVE  v \in Pending /\ served[v] # "ill"
<1>0. /\ v \in VM /\ phase'[v] # "done"
      /\ phase \in [VM -> Phases] /\ served \in [VM -> {"well", "dropped", "ill"}]
    BY DEF Pending, TypeInv, TypeOK
<1>1. ASSUME NEW w \in VM, Request(w)
      PROVE  phase[v] # "done" /\ served[v] # "ill"
    <2>1. served[v] # "ill"
        BY <1>0, <1>1 DEF Request, Passes
    <2>2. phase[w] = "pending-request" /\ (v # w => phase'[v] = phase[v])
        BY <1>0, <1>1 DEF Request, machine
    <2>3. QED
        BY <1>0, <2>1, <2>2
<1>2. ASSUME NEW w \in VM, Verify(w)
      PROVE  phase[v] # "done" /\ served[v] # "ill"
    <2>1. served[v] # "ill"
        BY <1>0, <1>2 DEF Verify, Passes
    <2>2. phase[w] = "pending-verify" /\ (v # w => phase'[v] = phase[v])
        BY <1>0, <1>2 DEF Verify
    <2>3. QED
        BY <1>0, <2>1, <2>2
<1>3. ASSUME NEW w \in VM, AzureBegins(w) \/ AzureFinishes(w) \/ AzureDrops(w)
      PROVE  phase[v] # "done" /\ served[v] # "ill"
    BY <1>0, <1>3 DEF AzureBegins, AzureFinishes, AzureDrops, machine
<1>4. CASE UNCHANGED vars \/ Arm \/ Wait \/ Verified \/ GiveUp \/ Round \/ RoundEnds
    <2>1. phase' = phase
        BY <1>4 DEF vars, machine, Arm, Wait, Verified, GiveUp, Round, RoundEnds
    <2>2. served[v] # "ill"
        BY <1>0, <1>4 DEF vars, cloud, Arm, Wait, Verified, GiveUp, Round, RoundEnds, Passes
    <2>3. QED
        BY <1>0, <2>1, <2>2 DEF Pending
<1>5. QED
    BY <1>0, <1>1, <1>2, <1>3, <1>4 DEF Next, Progress, Pending

\* When a VM that is served well still waits, the budget has not run out.
LEMMA InBudget ==
    ASSUME AmpleBudget, TypeInv, NEW v \in VM, pc = "top", clock \in Nat,
           NEW u \in Int, Elapsed(v, u), Stage(v, u)
    PROVE  InTime
<1>1. clock <= u + Calls(After(v)) + Poll
    BY DEF Elapsed
<1>2. /\ Calls(Before(v)) \in Nat /\ Calls(After(v)) \in Nat /\ LongestRound \in Nat
      /\ LongestRound = Calls(Before(v)) + MaxCall + Calls(After(v)) + Poll
      /\ FirstBy(v) = Deadline + Calls(Before(v)) + MaxCall
    BY RoundAdds DEF FirstBy
<1>3. acceptedAt[v] \in Nat
    BY DEF TypeInv, TypeOK
<1>4. u <= FirstBy(v) + Longer + LongestRound + LongestRound + Work
    BY <1>2, <1>3, LongerIs DEF Stage
<1>5. clock <= Deadline + Longer + Work + LongestRound + LongestRound + LongestRound
    BY <1>1, <1>2, <1>4, LongerIs
<1>6. Budget >= Longer + Work + LongestRound + LongestRound + LongestRound
    BY <1>2, LongerIs DEF AmpleBudget
<1>7. QED
    BY <1>2, <1>5, <1>6, LongerIs DEF InTime, RetryBudget

\* A VM that is served well waits in one of the stages, in time.
LEMMA StepKeepsService ==
    ASSUME AmpleBudget, TypeInv, ServiceInv, [Next]_vars, NEW v \in Pending', served'[v] # "ill"
    PROVE  Waits(v)'
<1>0. /\ v \in Pending /\ v \in VM /\ served[v] # "ill" /\ Waits(v)
      /\ clock \in Nat /\ phase'[v] # "done"
    BY NoWayBack DEF ServiceInv, Pending, TypeInv, TypeOK, RetryBudget
<1>1. ASSUME pc \in {"top", "turn"}
      PROVE  clock >= Deadline /\ \E u \in Int : Elapsed(v, u) /\ Stage(v, u)
    BY <1>0, <1>1 DEF Waits
<1>2. CASE UNCHANGED vars
    BY <1>0, <1>2 DEF vars, machine, outcome, cloud, Waits, Elapsed, Stage, Fresh, UnderWay,
        FirstBy, LongestRound, Calls, Before, After
<1>3. CASE Arm
    <2>1. Fresh(v) /\ pc' \in {"wait", "unarmed"}
        BY <1>0, <1>3 DEF Arm, Waits
    <2>2. Fresh(v)'
        BY <1>3, <2>1 DEF Arm, machine, cloud, Fresh
    <2>3. QED
        BY <2>1, <2>2 DEF Waits
<1>4. CASE Wait
    <2>1. Fresh(v) /\ pc = "wait"
        BY <1>0, <1>4 DEF Wait, Waits
    <2>2. served'[v] = served[v]
        BY <1>0, <1>4, WellMeans DEF Wait
    <2>3. Fresh(v)' /\ UNCHANGED <<phase, azure>>
        BY <1>4, <2>1, <2>2 DEF Wait, machine, Fresh
    <2>4. CASE clock < Deadline
        BY <1>4, <2>1, <2>3, <2>4 DEF Wait, Waits
    <2>5. CASE ~(clock < Deadline)
        <3>1. pc' = "top" /\ clock' = clock /\ clock = Deadline
            BY <1>0, <1>4, <2>1, <2>5 DEF Wait, TypeInv, ClockInv
        <3> DEFINE u == Deadline - Calls(After(v)) - Poll
        <3>2. Calls(After(v)) \in Nat
            BY <1>0, RoundAdds
        <3>3. u \in Int /\ clock' <= u + Calls(After(v)) + Poll
            BY <1>0, <3>1, <3>2
        <3>4. Elapsed(v, u)'
            BY <3>1, <3>3 DEF Elapsed, Calls, After
        <3>5. u <= Deadline - Calls(After(v)) - Poll
            BY <3>2
        <3>6. Stage(v, u)'
            BY <2>3, <3>5 DEF Stage, Calls, After
        <3>7. clock' >= Deadline
            BY <1>0, <3>1
        <3> HIDE DEF u
        <3>8. QED
            BY <3>1, <3>3, <3>4, <3>6, <3>7 DEF Waits
    <2>6. QED
        BY <2>4, <2>5
<1>5. CASE Verified
    BY <1>0, <1>5 DEF Verified
<1>6. CASE GiveUp
    <2>1. pc = "top" /\ ~InTime
        BY <1>6 DEF GiveUp
    <2>2. PICK u \in Int : Elapsed(v, u) /\ Stage(v, u)
        BY <1>1, <2>1
    <2>3. QED
        BY <1>0, <2>1, <2>2, InBudget
<1>7. CASE Round \/ RoundEnds
    <2>1. pc \in {"top", "turn"} /\ pc' \in {"top", "turn"}
        BY <1>7 DEF Round, RoundEnds
    <2>2. PICK u \in Int : Elapsed(v, u) /\ Stage(v, u)
        BY <1>1, <2>1
    <2>3. Elapsed(v, u)'
        BY <1>0, <1>7, <2>2, RoundTurns
    <2>4. served'[v] = served[v]
        BY <1>0, <1>7, WellMeans DEF Round, RoundEnds, cloud
    <2>5. UNCHANGED <<phase, acceptedAt, azure, since>>
        BY <1>7 DEF Round, RoundEnds, machine, cloud
    <2>6. Stage(v, u)'
        BY <1>0, <2>2, <2>4, <2>5, StageStands
    <2>7. clock' >= Deadline
        BY <1>0, <1>1, <1>7, <2>1 DEF Round, RoundEnds, Passes
    <2>8. QED
        BY <2>1, <2>3, <2>6, <2>7 DEF Waits
<1>8. ASSUME NEW w \in VM, Request(w) \/ Verify(w)
      PROVE  Waits(v)'
    <2>1. pc = "turn" /\ pc' = "turn" /\ Turn(w) /\ due' = due \ {w}
        BY <1>8 DEF Request, Verify, Turn
    <2>2. PICK u \in Int : Elapsed(v, u) /\ Stage(v, u)
        BY <1>1, <2>1
    <2>3. PICK now \in clock..(clock + MaxCall) : \E wronged : Passes(now, wronged)
        BY <1>8 DEF Request, Verify
    <2>4. clock' = now /\ clock' >= Deadline /\ served'[v] = served[v]
        BY <1>0, <1>1, <2>1, <2>3, WellMeans DEF Passes
    <2>5. CASE w = v
        BY <1>0, <1>1, <1>8, <2>1, <2>2, <2>4, <2>5, RequestKeepsStage, VerifyKeepsStage DEF Waits
    <2>6. CASE w # v
        <3>1. Elapsed(v, u)'
            BY <1>0, <2>1, <2>2, <2>3, <2>4, <2>6, CallOfAnother
        <3>2. /\ phase'[v] = phase[v] /\ acceptedAt'[v] = acceptedAt[v]
              /\ azure'[v] = azure[v] /\ since'[v] = since[v]
            <4>1. /\ phase \in [VM -> Phases] /\ acceptedAt \in [VM -> Nat] /\ since \in [VM -> Nat]
                  /\ azure \in [VM -> {"running", "deallocated"} \cup Busy]
                BY DEF TypeInv, TypeOK
            <4>2. QED
                BY <1>0, <1>8, <2>6, <4>1 DEF Request, Verify, machine
        <3>3. Stage(v, u)'
            BY <1>0, <2>2, <2>4, <3>2, StageStands
        <3>4. QED
            BY <2>1, <2>4, <3>1, <3>3 DEF Waits
    <2>7. QED
        BY <2>5, <2>6
<1>9. ASSUME NEW w \in VM, pc = "turn", AzureBegins(w) \/ AzureFinishes(w) \/ AzureDrops(w)
      PROVE  Waits(v)'
    <2>1. UNCHANGED <<clock, pc, due, phase, acceptedAt>>
        BY <1>9 DEF AzureBegins, AzureFinishes, AzureDrops, machine
    <2>2. PICK u \in Int : Elapsed(v, u) /\ Stage(v, u)
        BY <1>1, <1>9
    <2>3. Elapsed(v, u)'
        BY <2>1, <2>2 DEF Elapsed, Calls, Before, After
    <2>4. CASE w = v
        BY <1>0, <1>1, <1>9, <2>1, <2>2, <2>3, <2>4, AzureKeepsStage DEF Waits
    <2>5. CASE w # v
        <3>1. /\ azure'[v] = azure[v] /\ since'[v] = since[v] /\ served'[v] = served[v]
            <4>1. /\ since \in [VM -> Nat] /\ served \in [VM -> {"well", "dropped", "ill"}]
                  /\ azure \in [VM -> {"running", "deallocated"} \cup Busy]
                BY DEF TypeInv, TypeOK
            <4>2. QED
                BY <1>0, <1>9, <2>5, <4>1 DEF AzureBegins, AzureFinishes, AzureDrops
        <3>2. Stage(v, u)'
            BY <1>0, <2>1, <2>2, <3>1, StageStands
        <3>3. QED
            BY <1>0, <1>1, <1>9, <2>1, <2>3, <3>2 DEF Waits
    <2>6. QED
        BY <2>4, <2>5
<1>10. QED
    BY <1>2, <1>3, <1>4, <1>5, <1>6, <1>7, <1>8, <1>9 DEF Next, Progress

\* An ample budget is enough for every VM that Azure serves well, for every
\* number of VMs and whatever happens to the others: one stall, three rounds
\* and one deallocation.
THEOREM WellServed == Spec => []WellServedIsVerified
<1>1. Init => TypeInv /\ ServiceInv
    <2> SUFFICES ASSUME Init PROVE TypeInv /\ ServiceInv
        OBVIOUS
    <2>1. \A v \in VM : Fresh(v)
        BY DEF Init, Fresh, Busy
    <2>2. pc = "arm"
        BY DEF Init
    <2>3. QED
        BY <2>1, <2>2, InitHasTypes DEF ServiceInv, Waits, Pending
<1>2. TypeInv /\ ServiceInv /\ [Next]_vars => TypeInv' /\ ServiceInv'
    <2>1. AmpleBudget' = AmpleBudget
        BY DEF AmpleBudget, Longer, LongestRound
    <2>2. QED
        BY <2>1, StepKeepsTypes, StepKeepsService DEF ServiceInv
<1>3. ServiceInv => WellServedIsVerified
    BY DEF ServiceInv, Waits, WellServedIsVerified
<1>4. QED
    BY <1>1, <1>2, <1>3, PTL DEF Spec
=============================================================================
