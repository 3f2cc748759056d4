# A TLA+ model of cham

cham keeps two DNS edges, an Azure private zone and a Cloudflare public zone,
equal to one source of truth, SpatiumDDI. It shares both zones with other
writers: VM auto-registration, operators, mail records it does not own. What can
go wrong is rarely in one function. It is a write that lands on something read a
moment ago, a truth that lost a record on the way and so orders its deletion, a
run that stops half way and says the wrong thing about it. Around the reconciler
stand the workflows that build, destroy and check the lab, and a watchdog that
switches it off.

This directory models that behaviour, checks it with TLC on small instances, and
proves part of it with TLAPS for every instance. Paths below are relative to
`ddi-reconciler/src/ddi_reconciler/` unless they start elsewhere.

## The system

| Component | State it keeps | Operations | Hard behaviour | Model |
|---|---|---|---|---|
| Planning: `runner.py`, `reconcile.py` | none; a plan is a function of truth, flags and a provider's reading | `plan_edge`, `apply_edge`, `diff_records` | a guard that lets a deletion through; a plan that can never be applied | `PlanEdge`, `OwnedEdge` |
| Azure provider: `providers/azure.py` | the ETags, blocked and unparseable keys of the last listing | `fetch_actual`, `apply` | other writers at any point of listing, writing and verifying; half-applied diffs | `AzureEdge` |
| Cloudflare provider: `providers/cloudflare.py` | the API records, split-TTL and proxied keys of the last fetch | `fetch_actual`, `apply` | no conditional writes; one record set is several API records, so updates pass through intermediate sets | `CloudflareEdge` |
| Command line: `cli.py` | `applied`, `mutating`, `current`, `unchecked` | dry-run, apply, export | the account of a run that failed or was interrupted anywhere; the exit code | `Cli` |
| SpatiumDDI provider: `providers/spatium.py` | the walk's items, total and verdict; `read_verified` | `_get`, `fetch_desired` | paging over a collection that changes; damaged bodies; a verdict that authorizes deletions | `SpatiumWalk`, `SpatiumFetch` |
| Snapshot: `desired_file.py` | the committed file | `save_desired`, `load_desired` | check, then replace; interrupted or concurrent exports | `Export`, `TruthRegister` |
| Workflows: `.github/workflows/{plan,apply,destroy}.yml` | the artifact, its approval, `main`, the Terraform state | plan, apply, destroy | main or the state moving between review and apply | `PlanCustody` |
| Nightly drift: `.github/workflows/drift.yml` | step outcomes, the drift issue | the two checks, the report | best-effort steps that must still turn the run red | `DriftNight`, `LabWorkflows` |
| Watchdog: `scripts/phase3-vm-watchdog.ps1` | a phase per VM, deadline, budget | request, verify, reissue | accepted is not done; the budget ending in the middle | `Watchdog` |
| `config.py`, `model.py` | none | parsing, canonical forms | none that takes more than one step | their results are the models' keys and values |
| Terraform, SpatiumDDI container, release and test jobs, docs | outside the program | | | not modelled |

How they interact: `cli.main` reads truth (SpatiumDDI or a snapshot) with a
verdict on whether the read was whole, then takes the edges one after the other.
For each it calls `plan_edge`, which calls the provider's `fetch_actual` and
refuses or computes a diff. With `--apply`, `apply_edge` then announces the edge
through `on_mutate`, calls the provider's `apply`, which sends one request per
record or value, and plans a second time to verify. The exit code, and on a
failure the account of which edge may be half-changed, are all that the operator
and the nightly job see. The nightly job has no way to SpatiumDDI and reads the
snapshot, which an operator exports (`--export`) and commits, with the verdict of
the fetch behind it. The Azure edge exists only while the lab does: the apply and
destroy workflows build and remove it under the nights, which are in no
concurrency group with them. The watchdog shares nothing with the rest.

What makes each part correct:
- planning removes a key only on evidence that truth does not carry it, and
  refuses what cannot be carried out before anything is written;
- a provider writes only managed keys, only over what it read, vets a diff as a
  whole, and never leaves a name with neither its old nor its new values;
- re-running converges whatever a failed run left, or refuses without writing;
- the command line accounts for every edge that was written to, and says 0 or 2
  only of a complete answer;
- a truth certified as whole is whole, from the walk through the fetch and the
  snapshot to whoever reads it;
- what changes the lab is the plan that was approved, and a good plan is not lost;
- a green night looked at both edges, a red one has a cause;
- the watchdog says "deallocated" only of VMs that are, and names every other.

## Modules

`PlanEdge` holds the decisions of `plan_edge` as operators on a run's arguments
and on a provider's reading. A key stands for (zone, name, type) of one edge; a
value for (values, ttl), which is all `diff_records` compares. `Args` has the
truth as it was read, with its verdict and the operator's two override flags.
`misnamed` and `twice` are the keys that truth spells wrongly or carries twice;
the string arithmetic that finds them is abstracted to these sets.

`OwnedEdge` is the abstract specification: the contract of ADR-005. A step
changes one managed key to what truth as read says, removes one only under
`MayDelete`, and others may change anything. `MayDelete` speaks of `intent`, what
SpatiumDDI really holds, which the run never sees: this is where a truth that
lost a record matters.

`AzureEdge` composes `apply_edge` with the Azure provider. The zone has a value
and a generation at each key (the ETag). The listing takes one key per step, in
any order, so a change of the zone can fall between any two; planning, vetting,
each write and each verifying listing are steps. Others register and deregister
VMs and edit by hand. A fault may be a failed request (whose write may have
landed), a missing ETag or an interrupt.

`CloudflareEdge` composes `apply_edge` with the Cloudflare provider. The zone is
a set of API records with id, content, spelling, TTL and proxy switch; an update
becomes a set of requests that are sent in the code's order, one per step.
Records at `Unlisted` keys are those the fetch leaves out: of unsupported types
(`cloudflare.py:369-370`), or unowned and not to be represented (399-410). Others
add, change and delete records, and rename or retype them, whereby a record keeps
its id; requests go by id alone, so one meant for a managed record can reach it
under its new name. `Spelling` distinguishes wire forms of one canonical TXT value.

`Cli` is the loop of `main`: one step for each statement that can fail, with
interrupts and a dead standard output anywhere. An edge is drifted, mixed or
converged; the providers' detail is in the two modules above.

`SpatiumWalk` is `_get`: one walk over a paged collection. The server pages as a
list, by page number, by page count, by offset or by link, with or without a
total; a body may be damaged in its rows, its metadata or its link, at any page.
Rows are added and removed between requests. The next request is computed by
`NextUrl` as `_next_url` does; the server takes it literally. A list is the
collection itself, as the module's documentation lays down, so it comes whole.

`SpatiumFetch` is `fetch_desired`: the groups, the zones of each and the records
of each zone are collections, read depth first, while truth is edited at any time,
during a walk too. A walk begins in one step and ends in another, and remembers
what it was over all along (`kept`), what at some time (`ever`), and how often it
was disturbed. It returns what `SpatiumWalk` shows that it may: if it is certified,
either of the two after at most one disturbance (a row that came or went, a damaged
body); after two, a row that was rewritten or moved among them, any part of what
it was over (finding 4), as when it is not certified. The verdicts are folded as `_read` does.
Malformed rows, TTLs that disagree and rows that make no record end the fetch.

`Export` is `cham-reconcile --export` by several exporters on one file: that
fetch (a snapshot loaded with `--desired-from-file` and exported again is not modelled), then `save_desired`, one step per look at the file, `open`, `write` and
`os.replace`. The file system has names and inodes, so an exporter whose temporary
file was moved away by another one goes on writing into the published snapshot.
`Load` is `load_desired` with both formats. People edit the file by hand.

`TruthRegister` is the abstract specification of that file: a register that is
replaced in one step by something admitted, loses records only to an exporter that
was told it may, and after a hand edit is trusted only if that edit brings back what
was once exported. It counts the hand edits, so that no step of an export can pass
for one. It also says what is *not* promised: two exports that overlap may publish one another's text, lose
records to each other, or leave a file whose reading is refused.

`PlanCustody` has the plan and apply workflows and both halves of destroy: a run
saves a plan and uploads its manifest in two steps; an apply verifies the chain,
prepares, looks at `main` again, and applies, which changes the lab in two. Jobs
queue in `terraform-mutations`, where a newer job replaces the one that waits, for
its approval too. A hash stands for the attempt that saved the bytes, a commit for
its place on `main`. The group, the artifacts and Terraform's refusal of a plan
made on another serial are external, modelled from how the workflows rely on them.

`DriftNight` is `drift.yml`, a step for each step that can fail, with exit codes
read as `check-drift-exit.sh` reads them. `LabWorkflows` composes the two: what
`PlanCustody` makes of the lab is what the nights find.

`Watchdog` is the PowerShell script: a clock, rounds over the pending VMs, one call
of `az` per step, each with its own duration and answer. Azure begins, finishes
or drops operations at any time. `served` records how well Azure treated a VM, so
that what the script owes in that case can be said. Well served means that every
accepted operation is reported as under way within the stall window, as the comment
at `phase3-vm-watchdog.ps1:273-275` expects, and finished within `Work`, which may
be longer: what is seen "deallocating" is not given up at line 389.

`MC*` modules fix the instances, `*_proofs` hold the theorems. A definition
marked "Variant" is what the definition after it would be with a plausible bug;
each property was seen to fail under one of them.

## What the runs check

| Run | Instance | Shows |
|---|---|---|
| `azure_race` | keys a1 and c1 (a CNAME) at one owner, a2 at another; a1, a2 managed; 1 foreign change, 1 fault; all truths with each key right, lost or misspelled, none carried twice; all verdicts and flags; 1 338 000 states | no write over what was not read (`WritesOnlyOverWhatWasRead`), a diff vetted whole (`VettedWhole`), silence means untouched, returned means converged, and the contract `OwnedEdge` as a refinement |
| `azure_rerun` | all three keys managed, truth whole, runs repeated under fairness; 425 000 states | an accepted plan can be carried out (`QuietRunSucceeds`), and re-running ends, and heals or refuses before it writes |
| `azure_unsupported_type` | a record set of an unsupported type beside a desired CNAME | **fails**: see findings |
| `cloudflare` | a two-value key, a CNAME with an unmanaged TXT at its name, and a record the fetch leaves out; TTLs 1, 30 (refused), 60; proxied or not; 1 foreign change (a record that comes, goes, changes, or is renamed or retyped), between two pages of a listing too, 1 fault; runs repeated; 518 000 states | never under-serves, a bad TTL writes nothing, only managed records change (but for one renamed during the run), quiet runs succeed, returned means values, TTL and proxy are as stated, re-running heals or is refused |
| `cloudflare_spelling` | one TXT key with two spellings | **fails**: see findings |
| `cli` | three edges, both modes, every failure; 1 148 states | the account, the exit code, the order of edges, the edge that is blamed |
| `cli_blame` | two edges | **fails**: see findings |
| `spatium_walk` | up to 3 rows in pages of 2, a cap of 3 pages, 1 change; 56 000 states | a certified read is the whole collection, one row added or removed is noticed, each way of paging reads everything, garbled metadata is never certified, every walk ends |
| `spatium_change` | the same with 2 changes | **fails**: see findings |
| `export` | two groups, two zones, a full and a scoped exporter, 2 exports; 1 edit of truth, during a walk or between two; 2 mishaps in all, each that edit, a damaged body, an unproven walk or an edit by hand; a kill anywhere; 475 000 states | a snapshot that is trusted is one fetch with every row that stood still, but where a walk was disturbed twice (`TrustedSnapshotIsWhole`); the file implements `TruthRegister`; every export ends |
| `watchdog` | two VMs, deadline 1, budget 13, stall 1, work 2, calls and pause of up to 1; 618 000 states | verified means deallocated; unverified is told from never accepted, across reissues; a VM that is served well but for one dropped operation is done in time, whatever the other one does; the watchdog ends |
| `lab_workflows` | two plan runs of two attempts, two applies, one move of `main`; and two nights around one build or destruction; a failure at any step; 4 250 000 states | what is applied is what was approved, for a commit that was `main` when the job was ready; a plan is refused for a reason; the colour of a night is true; one issue unless nights overlapped |

The bounds, and why they are enough:
- Keys: refusals and diffs relate keys only through their owner and their being
  CNAME, managed or neither; two owners, one of them with two types, have every
  combination. Values of different keys are never compared, so truth says one
  value or nothing, and the zone may have that one, another one or none.
- `MaxEdits` and `MaxFaults` of 1: one disturbance can fall at any step, the
  steps of the repeated run included. In `azure_rerun` and `cloudflare` the
  disturbance may also happen in an earlier run than the one observed. Two
  disturbances of one run are covered by the proofs.
- Up to three rows in pages of two make one page, full or short, or a full and a
  short one; a page between two others is only ever an empty or damaged one. The
  proofs have every size. Rows differ in nothing else, so their initial order is
  fixed.
- TTL 30 stands for all that Cloudflare refuses, 1 for automatic, 60 for the rest.
- The Cloudflare fetch is one step, which is exact for a zone of one page, or
  loses a record that moved across a page boundary when another was deleted. A
  record that an insertion shows twice changes no record set; at most its second
  DELETE is refused, an end that `RequestFails` gives the run.
- Keys at Cloudflare: the CNAME shares its owner with an unmanaged TXT, so plans
  clash; the record that the fetch leaves out stands alone. Beside the CNAME
  `QuietRunSucceeds` and `RerunHeals` would fail, as finding 1 says.
- `azure_race` has no key that truth carries twice, which the plan refuses, and no
  key both misspelled and spelled rightly, which is not a near miss.
- Export: one group has both zones and the other one, so a record can have values
  from two groups, with one TTL or two. Two exporters show every overlap. Fetches
  meet only in truth, which changes on its own anyway, so one runs at a time, the
  file is left alone while a walk is under way, and a server lists collections in
  one order. One edit can disturb a walk twice, by rewriting a row or moving one
  (the edit that changes nothing that is read); the proofs have any number.
- The budget of 13 is the least that `AmpleBudget` allows here; with 12 TLC finds a
  well-served VM unverified. `Work` exceeds `Stall`, so a deallocation may be looked
  at after the stall window while it is still under way. One dropped operation
  makes one reissue; a second VM makes a VM wait for its turn.
- `Work` is an upper bound that is looked at where a step of the script ends, which
  is where the script could see an operation finished; Azure's own steps are taken
  within a round, since nothing looks at Azure between rounds.
- Two attempts of a run suffice for an artifact, a blob and a conclusion of
  different attempts; two applies for a plan overtaken by another. A quota of moves
  of `main` of 1 makes every commit current or stale.
- Nights and repeated runs share only the lab, so they are checked in two scopes.
  Nights are interchangeable (symmetry); issues are at first none or one.

Deadlock is checked in the runs of the two edges, where an ended run can always
be started again. `Cli`, `SpatiumWalk` and `Watchdog` are one call each and stop when it ends; in
`Export` and `LabWorkflows` the quotas of exports, runs and nights run out.

Fairness. `WF(Progress)` says that a process that can take its next step does:
each is one sequential process. The Python tools give each SpatiumDDI and Cloudflare
request a timeout, and the Azure SDK has its own.
The watchdog sets none on `az`, so that a call ends within `MaxCall` is an
assumption on `az`, and `WatchdogEnds` holds under it.
`WF(Start)` says that the operator, or the nightly schedule, runs the tool again.
Each exporter has its own: none waits for another. The watchdog's clock advances in
its own steps, a call or a pause, so its fairness is that of one process; Azure gets
none, and neither do runs, nights and operators in `LabWorkflows`, where only
safety is stated. No fairness is given to other writers, to faults, or to the order of steps.
`RerunHeals` is of the form eventually always, after the last disturbance.

## Findings

1. `azure_unsupported_type`: `fetch_actual` drops record sets of unsupported
   types (`azure.py:122-123`) before they are noted, so a desired CNAME beside
   an MX plans as drift and Azure refuses it on every run, where
   `runner.py:64-67, 187-188` promises a refusal in the plan. The Cloudflare
   provider skips records in the same way (`cloudflare.py:369-370, 399-410`): there
   the POST is refused on every run, after earlier requests have landed.
2. `cloudflare_spelling`: `_apply_update` indexes by canonical value
   (`cloudflare.py:450`); of two TXT records that decode alike only one is
   PATCHed, so the split TTL that the warning at 344-347 says is normalized never
   is, and each run ends in `ConvergenceError`.
3. `cli_blame`: `mutating` is cleared at the next edge (`cli.py:190`), not when an
   edge is proven complete, so a failure while its result is printed names a
   completed edge as one that may be half-changed, against `cli.py:144-147`.
4. `spatium_change`: one row removed from a page already read and one added
   further on leave the total as it was and repeat no row; the row that moved
   across the page boundary is missed and the read is certified, where
   `spatium.py:22-25` does not allow "probably". A row edited in place that moves
   across the boundary does the same. One row added or removed never does.

Two more have no run. The comment in `.github/workflows/drift.yml:23-26` says that
the reconciler does not isolate the errors of one edge from the next, while in
`--dry-run` `cli.py:197-211` does; the workflow checks the edges in two steps and is
right either way. And ADR-005 (`docs/decisions.md:53-54`) says that the reconciler
"NEVER touches records outside its managed set": a Cloudflare record that is renamed
between fetch and request is reached by its id and changed or deleted
(`cloudflare.py:466-496, 518-524`). The API has no conditional request, so the code
can only keep that window short; `OnlyManagedRecords` excepts such records, and
without the exception TLC finds one.

## What is proved

Every safety property of a passing run is a theorem, for every set of keys,
values, edges, rows, VMs, runs and nights and every bound. Each module's
theorems rest on the assumptions that its model states of its constants
(`PlanAssumption`, `AzureAssumption`, ...: managed keys are keys, markers are not
values, a quota is a number), which TLC evaluates in the runs.

`PlanEdge_proofs` has the lemmas on `plan_edge` and `diff_records` that both edges
need: a diff that was not refused adds only what was not observed, changes and
deletes only what the provider read, and is empty where the reading agrees with
truth; and no two records it asks for clash.

`AzureEdge_proofs`: `TypeCorrect`; `NoLostUpdate` (`WritesOnlyOverWhatWasRead`);
`SilenceIsTrue`; `DiffVettedWhole`; `Implementation`, that `AzureEdge` implements
`OwnedEdge`; `ReturnedIsTrue` (`ReturnedMeansConverged`); `QuietRuns`
(`QuietRunSucceeds`). The listing is not a snapshot, so "what was read" is no
property of one state of the zone. The inductive invariant therefore ties each
captured ETag to a generation: generations only grow, and while the generation at
a key is the captured one, the key holds what was listed (`EtagsPin`,
`UnlistedUnread`). The refinement adds that the diff is one `PlannedDiff` allows
(`PlanStands`), which is where each guard of `plan_edge` is used, and that truth as
read comes from `intent` (`TruthRead`). For runs that nobody disturbs, three parts
say what one phase hands to the next: the listing is a true picture of the zone
with current ETags (`QuietList`), the writes to come are ones Azure cannot refuse
(`QuietWrite`), and the second listing will find nothing to do (`QuietVerify`).
`QuietRuns` has the hypothesis `NoHiddenClash`, that no record set of an
unsupported type clashes with a managed key: without it the property is false, as
`azure_unsupported_type` shows.

`CloudflareEdge_proofs`, for zones of any finite number of API records and record
sets of any size: `TypeCorrect`; `VettedBeforeWriting` (`BadTtlWritesNothing`);
`OthersUntouched` (`OnlyManagedRecords`); `NeverServesLess` (`NeverUnderServes`);
`ReturnedIsTrue`; `QuietRuns`. Ids are the way from what was fetched to what is
changed, so the base invariant says that an id has one record, whose key, while nobody
has edited, is the one the run read under that id (`Coherent`), and that what is still
to be sent is part of what the plan asks for (`PlanStands`).
For a zone nobody else edits, `Course` carries over-serving through the requests:
each wanted value is in the zone or has a request to come that can succeed, no
value is removed while one is missing, and a CNAME is retargeted in place; `Tidy`
says that each record which is not as truth wants it still has a request that
names it. `QuietRuns` has two hypotheses: `OneSpelling`, since with two spellings of
one value such a run ends in `ConvergenceError` (finding 2), and `NoHiddenClash`, that
no record the fetch leaves out clashes with a managed key (finding 1).

`Cli_proofs`, for every number of edges: `TypeCorrect`, `TrueAccount`,
`TrueExitCode`, `InTurn`, `TrueBlame`. The invariant has three parts: where the
loop is and that everything counted lies behind it (`LoopInv`), what `--apply` has
changed, counted and found in order (`ApplyInv`), and what `--dry-run` has seen
(`DryInv`). The properties speak of the end only; the parts are needed because
each step that can fail must already have the account of that failure right.

`SpatiumWalk_proofs`, for every collection, page size and page cap: `Whole`
(`CertifiedMeansWhole`), `Garbled`, `TypeCorrect`, `OneChange`, `HonestReads`.
`CountInv` says that, while nobody edits, the rows read are distinct rows of the
collection and a clean total is its size; equal cardinalities then make them equal
sets. `VerdictInv` says that malformation is on record until the walk is refused.
`NoticeInv` is why one row added or removed is noticed: after it, every total that was declared
before is wrong, so either rows read and total are those of the present
collection, or the next page contradicts the total. `HonestInv` follows each of
the five ways of paging: a walk that goes on has read exactly its pages' rows, in
order, and its next request, by whichever of page, offset or link the server
speaks, is the one for the row that follows; the page count is a division that
rounds up, and agrees with the rows left to read.

`Export_proofs`, for any number of exporters, scopes, zones, exports and edits:
`ExportTypes`; `TrustedSnapshots` (`TrustedSnapshotIsWhole`); and
`RegisterImplemented`, that the file implements `TruthRegister`. Four facts carry
it. Inodes are used in order and there are enough (`DiskInv`). A fetch proven
complete so far has each row that stood still, or has yet to read a collection
that leads to it (`FetchInv`), which joins the verdicts of its walks; the walk it is
in still has that row among what it keeps, unless it was disturbed twice (`WalkInv`). Every
checksum on the disk was taken of something a fetch vouched for (`SealInv`); an
edit by hand can move such text back into place and cannot make one. And who is
alone in flight has the temporary file open with what it wrote (`FlightInv`), which
is what fails when exports overlap, and so what `overlap` in the register excuses.

`Watchdog_proofs`, for every number of VMs, deadline, budget and duration:
`TypeCorrect`, where `ClockInv` sets the time of every call still to be made in
a round aside, so that the clock stays within a round of the budget; `Done`
(`VerifiedMeansDeallocated`); `Told` (`UnverifiedIsTold`), whose `AccountInv` says
that no VM leaves its first phase without Azure's acknowledgement and that a
reissue does not forget it; and `WellServed` (`WellServedIsVerified`), a bounded
response proved as safety. `ServiceInv` gives each VM that Azure serves well the
stage it is in (not accepted yet, accepted, dropped and stalled, reissued, done)
and a bound on the clock for each stage, counting the calls of the VMs whose turn
is before its own. The budget it needs (`AmpleBudget`) is tight: the longer of a stall
and a deallocation for the one that is dropped, the work of a second, and three of
the longest rounds.

`LabWorkflows_proofs`, from `CustodyAssumption` (no job is not a job) and
`NightAssumption` (finitely many nights), for every quota of runs, attempts and
apply jobs and any movement of `main`:
- `AsReviewed` (`AppliedAsReviewed`). The conclusion is about a job that applies,
  so the invariant says what each earlier step has established: a plan in the
  container is of its run, at an attempt that has begun (`BlobInv`), and a job
  holds, from the step that verified it on, the kind of its run, the plan of the
  approved hash and a commit among those `main` stood at (`JobInv`).
- `RefusalsHaveReasons` (`RefusedForAReason`). A job is refused by comparing
  things that other jobs change, so `QueueInv` ties the concurrency group to the
  steps of runs (`RunHolds`) and of jobs (`TurnHolds`): whoever saves, runs; a run
  that succeeded has its manifest, and its artifact is the one of its last
  attempt; a run that was repeated keeps blobs of earlier attempts only. Then a
  refusal is never the fault of a good chain, and the reason for it stays, since
  `main`, the serial and the attempts only grow (`Onward`).
- `TypeCorrect`, with the counters' bounds: the serial is below the number of
  applies since jobs take their turn in the order of dispatch (`BoundsInv`), and
  each night opens one issue as it ends (`IssueCount`).
- `TrueNights` (`NightIsTrue`), from what a night has found out at each step and
  what can have made it red (`FoundSoFar`, `RedIsDisturbed`), while the other half
  of the module changes the lab under it; and `OneIssue`, from `IssueInv`: a night
  alone that is about to open an issue has listed none.

Only model-checked: liveness (`RerunHeals` of both edges, `WalkEnds`, `ExportEnds`,
`WatchdogEnds`), which is out of this prover's reach. The four findings are shown
by TLC's counterexamples, on the instances of their runs.

## What is not modelled, and why

- Names, IDNA, TXT quoting, IP forms: pure functions of strings, well covered by
  unit tests; the models have their results as values. The exception is where two
  spellings of one value matter (`CloudflareEdge`).
- Wording of messages, logging, environment and credentials, URL origin checks
  other than their refusal.
- `load_config`: one pass of checks over a file, with no later state.
- Terraform and GitHub's own execution; SpatiumDDI beyond what it serves.
- In the workflows: formats of inputs, environment protection, log and summary
  uploads, and the Cloudflare stack, whose chain is a copy of the lab's. Between
  the last look at `main` and the apply a window remains, as the workflow's comment
  grants, so `AppliedAsReviewed` speaks of `main` since the job was ready.
- In the watchdog: `-DryRun`, the log's wording, and a VM that somebody starts again
  after it was verified, which the script does not look at any more.
- `--export --desired-from-file` (`cli.py:65-66`), which saves a loaded snapshot with
  its verdict again.
- That the file system keeps a completed write across a power failure.

## Plan

In order, the most consequential first:

1. An abstract specification of the Cloudflare edge beside `OwnedEdge`, in which a
   key goes from its old values to its new ones through supersets of either, and
   its refinement by `CloudflareEdge` as a theorem.
2. `SpatiumFetch`: that what `Walks` lets a walk return is what `SpatiumWalk` can
   return, which today is an argument from two theorems (`Whole`, `OneChange`) and
   not a theorem.
3. The three hazards without a property, if the code comes to handle them: a
   deallocation that landed and was reported as failed, a VM started again after it
   was verified, and a scoped export that replaces a snapshot of all zones.
