# TLA+ verification of vqec

vqec runs sweeps of quantum error correction experiments. A config names a
circuit constructor, a noise model, a runner and a decoder with parameters that
may be lists; the server expands it into jobs, keeps them in SQLite, and hands
them to worker processes that poll over HTTP; a React front end submits
experiments and plots the results. This directory holds TLA+ models of the
parts in which steps interleave, fail or repeat, the TLC runs that check them on
small instances, and TLAPS proofs of their main invariants for all instances.

`PROJECT.json` lists components, runs, mutants, hazards, findings, theorems and,
for every definition that models code, the lines it stands for.

## 1. Inventory

| Component | Source (`src/src/vqec`, `src/frontend/src`) | State | Modules |
|---|---|---|---|
| Task queue | `server/services/task_queue.py`, `services/experiment.py`, `repositories/`, `routers/`, `workers/update_worker.py`, `main.py` | three SQLite tables | `TaskQueue`, `ExperimentLife` |
| Outcome files | `server/routers/worker.py` 23-80, `worker.py` 99-145 | one file per data task, the row's path | `OutcomeStore` |
| Experiment core | `core/experiment.py`, `server/utils.py`, `services/experiment.py` 55-121 | the rows a config becomes | `SweepExpansion`, `ExperimentSubmission` |
| Registry, compatibility | `core/registry.py`, `core/validator.py`, `services/registry.py` | classes by name, compatibility sets | `Compatibility`, `CreationWizard` |
| Creation wizard | `tabs/ExperimentCreationTab.tsx`, `features/experiments/store.ts` | persisted form, lists, verdicts, launches | `CreationWizard`, `WizardLaunch` |
| Experiment browser | `features/experiments/components/ExperimentBrowser.tsx` | cached list, dialogs, actions in flight | `ExperimentBrowser` |
| Visualization tab | `features/visualization/`, `tabs/VisualizationTab.tsx` | layers, comparisons, axes in localStorage; imports, parse worker | `VizTab`, `PairTable`, `SweepLayers` |
| API client | `api/` | none | the calls in the front-end modules |
| Worker process | `worker.py` | pool, `active_tasks`, heartbeat thread | its calls, batch, kept ids and pool in `TaskQueue`, its reports in `OutcomeStore` |
| Parquet export | `services/export.py`, `workers/export_worker.py` | `parquet_results_path`, files | none |
| Command line | `cli/main.py` | pid file | none |
| Adapters, schemas, settings | | none, or numerics | none |

**Task queue.** An experiment row has decoding rows (its jobs); each decodes the
outcome of one data row; data rows are shared by hash, also between experiments.
Users submit, cancel, retry and delete; workers poll (which leases rows), send
heartbeats (which renew leases), upload outcomes and complete or fail tasks; the
lease loop puts expired rows back; every report rolls the experiment's status up
from its jobs. What is hard: FastAPI handlers are coroutines that check a row,
await, and write it without a transaction around both, so they interleave;
leases expire under workers that still run; reports come late, twice or never;
a worker whose process pool broke goes on polling and renews leases of tasks it
will never run; a failed data task concerns experiments of other users; SQLite never enforces
the foreign keys, and reuses primary keys. Correct means that the statuses of
the three tables agree, results are final, and nothing stays RUNNING for ever
unless such a worker keeps it.

**Outcome files.** `/upload` writes `<id>.pkl.gz` in a thread before the row is
looked at, and only then marks the row COMPLETED; `/download` streams the file
to jobs. Two executions of one task write the same file. Correct means that a
job that is handed out finds its outcome, and finds it whole.

**Experiment core.** `submit_experiment` looks the config's hash up, validates
the first point of the sweep with the adapters, expands the cartesian product,
and inserts rows. The expansion resolves "formulas" (`rounds: "distance"`), and
validation has another loop of its own for them. Correct means that the rows
are exactly the product, data is generated once per spec, and an early return
only merges configs that mean the same.

**Registry and wizard.** Noise models, runners and decoders declare sets of
names they are compatible with. The registry lists components filtered by what
was selected before, the validator checks a whole config, and the wizard builds
a config from the lists; the sets are read three times by different code. The
form is persisted and keeps stale selections and entries; lists, verdicts and
launches are answered late, out of order or never, while the user edits, leaves
or reloads. Correct means that what is offered, what is marked and what the
server accepts agree, and that a verdict or a reset concerns the draft it was
computed from.

**Experiment browser.** One cached list, polled every five seconds, with retry,
cancel and delete on its rows. Answers are stale, overtake each other or are lost,
and hold the newest 100 experiments only: the browser asks for no other page.
Correct means that the user sees his own changes, is refused only when somebody
was faster, and in the end sees the newest experiments as the server has them.

**Visualization tab.** Imports are async functions that download, wait for a web
worker and add layers to a persisted tab; they outlive the modal, the component
and the tab. Removals, reorderings and imports rebuild a list of pairwise
comparisons. Correct means that layers share their axes, the comparisons are one
setting per pair, and every import ends.

**Interactions.** ExperimentSubmission creates the rows TaskQueue moves along;
TaskQueue's upload and poll bracket what OutcomeStore details (its `HandOut`,
`Requeue`, `CommitFailure` and `HandOutJob` are the queue as the files see it);
workers call both. ExperimentLife is the contract between the queue and its
readers: TaskQueue is shown to implement it, and ExperimentBrowser takes it as
its server. CreationWizard makes the configs which WizardLaunch checks and
launches; SweepExpansion is what the server makes of them. VizTab imports what
the queue completed.

## 2. Modules

### TaskQueue

| Variable | Code |
|---|---|
| `exp[i]` | `ExperimentTask.status` of row `i`; `ABSENT` before submit and after delete |
| `status[t]` | `DataGenerationTask.status`, `DecodingTask.status` |
| `lease[t]` | `leased_until`: NULL, later than now, or earlier |
| `experimentId[j]` | `DecodingTask.experiment_id` |
| `run[w][t]` | what worker `w` does with task `t`: not its task (`idle`), executing it, its report sent, or only posting its id (`kept`) |
| `broken` | the workers whose process pool is broken |
| `inflight` | handlers that have read and decided and not yet written |

A handler of the form read, decide, write is an action `Begin...` and an action
`Finish...`. From its first UPDATE to its commit a handler holds SQLite's write
lock, so the write is one step. `PollTasks` is one step since `poll_tasks`
begins with BEGIN IMMEDIATE; `Heartbeat` and `ReclaimExpired` are single
UPDATEs. A handler that finds nothing to do changes nothing and has no Finish. `Begin` and
`Finish` of different requests interleave when `Overlap` is TRUE. With `Overlap`
FALSE whole handlers alternate, which is what the tests of the repository
exercise; properties that hold only there say so.

A worker's batch is the tasks it is executing; it polls again when the batch is
over. `BreakPool` is the death of a process of its pool: the futures of the batch
end and their ids are dropped, or, when the pool broke while the batch was being
submitted, `executor.submit` raises with all the ids in `active_tasks`, and they
are `kept`. A worker with a broken pool polls at once and keeps what it gets. Its
heartbeats name all that is kept, and forget it at a 404, which comes only when
no row of the request is RUNNING. `RestartWorker` is a new process in its place;
no fairness brings it about. `MayBreak` names the workers this may happen to.

`LeaseRunsOut` is the passing of time. `EndTask` covers an answered report, a
killed process, a lost poll answer and a lost failure report: all of them leave
the worker without the task and the rows as they are. `Restart` drops every
handler that has not committed. `Heartbeat` gets bare ids, and renews rows of
either table, as the code does. `Submit` takes SQLite's next rowid, one more than
the largest, which is how a deleted experiment's id comes back.

Left out: error messages, metrics, timestamps, listing and detail queries,
`/download` of results, 404 and 400 answers that change
nothing.

### OutcomeStore

A file is a sequence of blocks, each labelled with the execution that wrote it;
outcomes of different executions have different lengths. `Path.write_bytes` is
`Open` (truncate) and `Write` (from the start of the file, over what is there);
`Check` and `Commit` are the two halves of `TaskQueueService.upload_outcome`.
A worker may give up its upload and report FAILED in any phase, as its client
times out on its own. `Restart` leaves the files as they are. A download finds
the path, then reads block by block.

### SweepExpansion and ExperimentSubmission

Parameters are a sequence of entries in the order of the JSON object, since the
order decides which formulas resolve. A member of a list may be a sweep string or
a list itself (`Sweep`); `_first` takes its first value, `FirstOf`, where
`_expand_params` leaves it as it is. Each loop of the code is a fold (`Lists` has the two
that the front end needs as well):
`ExpandParams` is `_expand_params`, `FirstPoint` is `_first`. `ReferencePoints`
states the docstring's cartesian product without loops. `Hash` is the config
without the order of its keys, like `json.dumps(sort_keys=True)`.
`ExperimentSubmission` runs requests in three steps (`LookUp`, `Validate`,
`Create`) that interleave; `Create` fails as a whole on the UNIQUE index. The
verdict of the adapters is left open, the IndexError on an empty list is not.
Names, types and the numbers behind `linspace` are abstracted; deletion is in
TaskQueue.

### ExperimentLife

What the status of an experiment promises: the moves it can make and, for each,
what becomes of the jobs without a result. `TaskQueue` maps `st` to `exp` and
`left` to `Unfinished`, the jobs of the row that are not COMPLETED, and claims
`LivesAsPromised == Life!Spec`. One transaction moves several experiments (a
failed data task fails all on it), so a step of ExperimentLife moves each
experiment once or not at all. `LateResult` and `Requeue` are allowed where the
code allows them, with the reason next to each.

### Compatibility, CreationWizard and WizardLaunch

`Compatibility` is the predicate of `validator.py` and the filter of
`services/registry.py`, which differ: a component that declares an empty set is
compatible with everything to the validator and with nothing to the listing (so
pymatching, the decoder of the default form, is never listed, and its
entries never reach the config). `CreationWizard` has one action per control of
the form; `asked` and `lists` are the query cache, by kind and filter. An entry is
a text split at its commas, each part one of the sorts that `parseInputValue`, zod,
`_first` and pydantic tell apart: blank, a number that suits the field, a space, a number to
Python alone (`1_000`, `inf`), the name of any parameter, another word. The server's
side is `FirstPoint` of SweepExpansion on the params, in whatever order their keys
come, and pydantic's reading of the result. Parameters are numbers and switches.

`WizardLaunch` takes the form as one value of a set and keeps of the lists
whether all descriptors are there. `Render` is part of every action: React
renders after each change, which rewrites the JSON text and starts the validation query of
the draft on screen. `checking` holds validations by their key; an answer goes to
its own key. Callbacks of a launch run for an instance that is gone, too.
The cache and callback rules of TanStack Query are modelled from their use.

### VizTab, PairTable and SweepLayers

`SweepLayers` holds the pure functions from rows of an export to layers, slices,
grids, ratios and the range of the colours. Rates are orders of magnitude and a
ratio the difference of two, since only ratios are drawn; NaN and the logarithm of 0
are values of their own. `VizTab` has the store entry of a tab, the
component on it, its parse worker, and the imports in flight, each with its
phase and what it read when it began. The router reuses the component between
visualization tabs, so `Switch` neither mounts nor resets it. A parse worker that failed
to load stays, and answers nothing that is posted to it. `PairTable` states what
the comparison list promises (`ComparisonsAreATable`), without the code's rebuild.

### ExperimentBrowser

| Variable | Code |
|---|---|
| `st`, `left`, `moves`, `version` | the server: ExperimentLife, and how often it changed |
| `list`, `asking`, `failed` | `data`, the fetch in flight, `error` of the list query |
| `writes` | mutations in flight: sent, answered, refused |
| `mounted`, `mounts`, `inspected`, `dialog` | the component and its local state |
| `written`, `refusals` | history: own changes answered on screen, refused actions |

A request and its answer are separate steps, and either may be lost.
`Invalidated` is `invalidateQueries`: a list on screen is fetched anew and the fetch
in flight dropped, except the first. One action per instance is in
flight (`busy`). The server's own moves are any step of ExperimentLife; its
answers to actions are the checks of `services/experiment.py`. The inspector's
detail query is left out, and so are the sorting, the filters and the pages of the
table, which are views of the rows it has. `Window` is what `list_experiments` answers without
`limit` and `offset`: the newest `Limit` experiments, 100 in the code.

## 3. Runs

| Run | Expect | Question |
|---|---|---|
| `serial` | pass | Two experiments on one shared outcome, three jobs, all user operations, whole handlers alternating: do the tables agree, are results final, does the queue implement ExperimentLife? |
| `overlap` | pass | What is left when handlers interleave? |
| `live` | pass | Does everything end, but for what a worker with a broken pool keeps? |
| `outcome` | pass | Three executions of one task, a download, restarts: are files there, and is a sole upload kept and read whole? |
| `submission` | pass | Two concurrent submits of any two of 56 configs: are the rows the product? |
| `viz` | pass | A tab, new or from an older version, with two overlapping imports of sweeps with and without holes, every store operation, reloads, workers that fail: do layers, comparisons, plots and the busy flag stay right, does every import end? |
| `wizard` | pass | The form with the adapters of the repository and one that declares everything: do lists, field marks and validator agree? |
| `wizard_launch` | pass | Two launches and validations of five drafts, with edits, leaving, reloads, losses: whose verdict is shown, what is refused, what is thrown away? |
| `browser` | pass | Two experiments that move on their own, a list of one row, two actions, two instances: is the list right, what is refused? |
| `cancel_race` | violation | A COMPLETED experiment becomes CANCELLED. |
| `report_race` | violation | A late FAILED report takes back a result that is committed between its check and its write. |
| `outcome_twice` | violation | A second upload empties the file of a COMPLETED task. |

A violation run checks one property, the sentence of the code it quotes;
`findings` gives the quotation and the disagreement.

**Bounds.** `UserOps` are the user operations besides submit. `MaxInflight`
bounds the handlers between check and write: two are enough for every pair of
handlers to race, the live instance has three, one per client.
`MaxExp` bounds the primary keys. Two experiments over one data task are the
least that share an outcome; three jobs make one experiment with two jobs (all
and any differ) next to another. One data task has the id of a job, so that
heartbeats collide. `BatchSize` 2 lets a poll return a mix. In OutcomeStore one
data task suffices because tasks share no file; three executions allow two
uploads to race with a third in the queue; one outcome has two blocks and one
has one, so an overlay of a short outcome on a long one shows. In the submission runs every kind of value occurs: list, space,
number, formula, chain of formulas, formula before and after its axis, unresolved string,
repeated members, empty list, empty space, a sweep string and a list in a list.

In `viz` the sweeps are two circuits on a full grid, one with holes (a parameter
given by another), and one of another axis, so imports meet equal and different
signatures; two imports are the least that overlap. In `wizard` there are two components
of each kind, three decoders, so that a selection can go stale at every step. Two edits are two changed selections, a selection and an entry, or two entries, which may name each other; there are 15 texts: every sort of part by itself, with the
name of a parameter of the same component and of another one, and lists led by a number, a word, a name and nothing.
In `wizard_launch` the forms make an accepted and a refused config, both refused
while a descriptor is missing, and the JSON text can be good or broken. In `browser` rows influence each other only
through the end of the list: two experiments and a list of one row let an experiment drop out when the other is
created, and come back when that is deleted; two moves of the server and two actions let this happen around a poll.

**Views and symmetry.** `LeaseView` hides the lease of rows that are not RUNNING:
`poll_tasks` overwrites it before the row runs, and the other readers select
RUNNING rows. `WorkerSymmetry` is used only with interchangeable workers and
only for invariants.

**Deadlock.** `CHECK_DEADLOCK FALSE` everywhere: when the submissions, executions
or requests of an instance are used up and all work has ended, the system really stops.

**Fairness.** In `live`, weak fairness for the handlers in flight (the event loop
runs every ready coroutine; weak per client because a client waits for its
answer), for polls (`worker_loop` polls for ever), for the end of an execution (a
process returns, or dies), for time, and for the lease loop (`_lease_loop`
survives exceptions and sleeps a fixed time). Strong fairness for "a task executed again and again is at last
reported" and "a report made again and again is at last committed": the
environment must not kill every execution or restart the server in each report;
without that no retry scheme ends. A broken pool is no part of that: nothing makes
a worker with one stop (worker.py 225-227 goes on polling), so both properties name it as the case they except,
`NoTaskIsStuck` only for rows whose id such a worker posts. The live instance has a GPU job, a worker
without GPU, a pool that may break, colliding ids, cancel, delete and restarts. It leaves out two
things under which `EveryExperimentEnds` is not promised by the code: retry
(a user may retry for ever; and a retry after a job completed under a cancelled
experiment leaves a PENDING experiment with all jobs COMPLETED), and a second
experiment that shares a data task which has already FAILED (its jobs wait until
somebody retries). Both are in `hazards`.

In `viz` the steps of an import and the start of a worker are weakly fair: a
fetch ends or throws, a script loads or fails. In `browser` the poll is weakly
fair (an interval timer of a mounted component), and reading and answering are strongly fair: requests may be
lost again and again, but not all of them for ever. Actions of users are never
fair, and `ListCatchesUp` needs no fairness of the moves of the server, which are
finitely many.

**What holds by which run.** `CompletedMeansDone` and `RunningIsLeased` survive
every interleaving. `OutcomeBeforeDecoding`, `CancelledIsQuiet`,
`FailedHasFailure`, `RunningHasWork`, `CompletedIsFinal` and `LivesAsPromised` hold when handlers
alternate and not when they overlap; `cancel_race` and `report_race` show two consequences.
`LayersShareAxes` excepts two imports that both began on an empty tab, as the code
checks the axes at the start only; `FirstPointIsFirstJob` and `ExistingIsEquivalent` except
formulas that name formulas, the first one sweeps in a list too;
`CellsAreDistinct` excepts entries that are not repaired yet; `RatioAligned` is about layers without holes;
`EntriesOutliveLaunch` excepts edits made after the launch, which the code throws away; `AcceptedIsUnflagged`
excepts what only the server reads as a value (`OnlyTheServerReads`).
A hazard that is such an exception lists no property that excludes it.
Every property of a passing run has a mutant: a plausible bug, written next to
the definition it changes, under which the same run fails.

## 4. Proofs

The proofs hold for every value of the constants that meets the assumptions
named in the modules, restricted only by the bounds that are constants themselves.

| Module | Theorem | Says |
|---|---|---|
| `TaskQueueProofs` | `TypeCorrect`, `CompletedCorrect`, `RunningLeased`, `RowsExistAlways` | with any interleaving: types, COMPLETED means done, RUNNING rows are leased, references exist |
| | `SerialCorrect`, `OutcomeFirst`, `CompletedFinal`, `StatusesHonest` | for `Overlap = FALSE`: outcomes precede decodings, results are final, statuses are honest |
| | `LifeImplemented` | for `Overlap = FALSE`: TaskQueue implements ExperimentLife |
| `OutcomeStoreProofs` | `StoreTypeCorrect`, `HandedOutFinds`, `SoleUploadCorrect` | types, no 404 for a job handed out, one upload is kept and read whole |
| `ExperimentSubmissionProofs` | `SubmissionInvariant`, `DataShared`, `RowsAreProduct`, `FirstPointFirst`, `ExistingEquivalent` | for any configs and requests: the rows are the cartesian product, data is shared, equal hashes mean equal jobs, what is validated is the first job |
| `VizTabProofs` | `Typed`, `ImportedMatches`, `LayersShare`, `ParsingIsWork` | for any exports and any order of imports, edits, mounts and reloads: types, what is marked as imported, the axes of the layers, the busy flag |
| | `ComparisonTable` | VizTab implements PairTable |
| | `Cells`, `Ratios`, `Colours` | one point to a cell, ratios at equal parameters, colours that cover what is drawn |
| `FoldProofs` | lemmas | what the folds compute: filters, inserts, joined lists |
| `CreationWizardProofs` | `WizardTypeCorrect`, `OfferedCorrect`, `StaleCorrect`, `AcceptedUnflagged` | for any adapters: what is offered is accepted, what went stale is refused, what is accepted is not marked |
| `WizardLaunchProofs` | `LaunchTypeCorrect`, `VerdictCorrect`, `RefusalCorrect`, `EntriesKept` | the verdict shown is the draft's, refusals were not foreseeable, entries survive |
| `ExperimentBrowserProofs` | `OwnWritesShown`, `RefusalsExplained` | own changes are never covered up, refusals mean that the experiment moved |

*Queue, any interleaving.* `TypeOK` is inductive. `RowsExist` (a job row without
experiment was never created; executions and handlers refer to rows that exist)
is inductive on top of it and is what keeps a decoding row that is not there yet
out of every handler. `CompletedMeansDone` is then inductive: an experiment
becomes COMPLETED only in a rollup that saw all its jobs COMPLETED; retry,
cancel and the lease loop select other statuses in the UPDATE itself; and a
failure report that overtakes a completion takes the job back but rewrites the
experiment in the same step.

*Queue, serial.* `OutcomeBeforeDecoding` is not inductive: a `complete` in flight
must know that the outcome is still there. `SerialInv` adds `CheckHolds` (the one handler in flight
still sees what its check saw; false as soon as handlers overlap, and
the reason for the findings) and that jobs being executed have their outcome.
`StatusesHonest` is the conjunction of `CancelledIsQuiet`, `FailedHasFailure` and
`RunningHasWork`, inductive relative to `SerialInv`; `CompletedFinal` is the action
property from the same invariant.

*Files.* `FilesInv` chains COMPLETED row, recorded path, existing file.
`SoleInv` follows one upload through its phases, for executions that are the only uploaders of their
task; a download's blocks are a beginning of the outcome.

*Refinement.* `LifeImplemented` shows that initial states map to initial states
and that every step maps to a step or a stutter of ExperimentLife. The invariant is the one
of the serial proofs: a rollup that says FAILED or RUNNING needs
`StatusesHonest` to know that work is left. The rollup is treated once, as
a lemma about the status it computes, and each handler
cites it for the experiments it touches.

*Folds.* The loops of the code are folds, and a fold is defined by recursion on a
set of places. `FoldProofs` derives from the well-foundedness of the numbers that
this recursion has a solution (`FoldTable`) and that a run of the loop exists: a sequence
of intermediate results, one for each iteration. `Keep`, `AppendNew` and `FlattenSeq`
are then proved by induction along their runs (`InductionTo`), as loop invariants are: what is kept is the
intersection and stays in order, an insert keeps what was there and adds nothing twice, joined lists have
the blocks they were joined from.

*Submission.* `SubmissionInv` ties the rows to the configs: the jobs of an
experiment are those of its config in order, each on the data row of its spec (`RowsFollow`), no job
refers to a row that is not there (`RowsRefer`), a spec has one row. `Create` preserves it because the
UNIQUE index makes the insert one step. What is left is about `ExpandParams`
alone: the product of the axes, by induction over the axes, is the set of points that take a value
of each axis, as often as the values repeat; the pass over the formulas is a run of `Resolve`, after which
each formula has what its name had, if it was visible at its place. Together they are `ReferencePoints`.
`_first` is two runs over the same entries; for `Direct` and `Flat` params both ends are the
first combination. Equal hashes are equal maps from keys to values, whose `Direct` points do not depend on
the order.

*Visualization tab.* Each store operation has a lemma that says it turns a good
tab into a good tab (`GoodTab`: types, a signature exactly when there are layers, the
marked experiments are those of the layers, a comparison for each pair, and a slice for every axis of every layer once the entry
has values). A step of the component is then one of four kinds: the tab is kept or closed (`Quiet`), one
operation is applied to it (`Edited`), an import begins (`Began`), or an import arrives (`Arrived`). `IInv` adds to
`GoodTab` that unless `moved` all layers share the axes of the signature (`SharesAxes`), and that the imports in flight of an entry of an older version, which has
names of axes without values until it is repaired, know those names (`ImportsKnowOldAxes`): without it an
arrival might add layers of other names, and the repair, which goes by the names of the signature, would leave
axes of theirs without a slice. `ComparisonTable` maps the
list of comparisons to a function from pairs of ids, the first one of a pair counting, and shows each
kind of step to be an arrangement, a change of one entry, or a stutter of PairTable.

*Plots.* Two points of a layer in one cell agree in x and y by the cell and in every other axis by
the slices, which `GoodTab` has for all of them; so they are one point. For `Ratios`: the signature fixes the
axes and their values, a layer without holes has every combination, so what such a layer shows depends on the
signature and the slices only; two layers then have grids of the same axes, and every row and
column meet in the one point whose rate the cell has. `Cells` and `Ratios` have the hypothesis
`RowsDiffer`: no export lists a point twice. The server accepts a list with a repeated value
and would then export two rows of one point, of which the last one wins; the
sweeps of the run list no point twice, which TLC checks. `Colours` has no hypothesis.

*Wizard.* `OfferedIsAccepted` and `StaleIsRefused` follow in every state from
types and the definitions of the two filters: the work is in showing that the three readings of the
sets agree for any sets. `AcceptedUnflagged` follows the two passes of `_first` over the
params of one component: a word that names no parameter is kept by both runs whatever their order, so the server sees it
and refuses it; a field marked wrong therefore holds one of the texts that only the server reads. In WizardLaunch the strengthening says that
every cached verdict, check and launch is the truth about its own text
(`Truthful`), and that the form is the one a launch was made from unless the user
or another launch's success has changed it since (`Rooted`).

*Browser.* `Inv` adds to the two properties that open dialogs and actions in flight are
allowed in the status their row showed, that no change is answered before it is
made, that an action implies a list (`Made`), and that the answer under way is no older than the last own change
(`NextIsFresh`). `Made` is needed because `invalidateQueries` does not drop the very first fetch.

Every safety and action property that a passing run checks is a theorem. Model-checked
only: liveness (`NoTaskIsStuck`, `EveryExperimentEnds`, `ImportEnds`, `ListCatchesUp`), whose
fairness the prover does not handle, and the violation runs. The theorems about the serial queue, and the two with
`RowsDiffer`, hold under the hypotheses in their statements.

## 5. Plan

Done: the queue, the files, the submission; then ExperimentLife and its refinement,
the wizard, the visualization tab, the browser, and the proofs above.

Next, in this order:

1. Worker: idle polls and the heartbeat thread of one worker after a 404, against "an id is renewed as long as its task runs".
2. Export: the export loop with deletes and reused ids, the download of results. Promise: a recorded path holds the rows of its experiment.
3. Proofs about the operators alone: that `NormalizeSweep` puts every row into exactly one layer, that `Ascending` is the only sorted list.
4. A refinement of TaskQueue's upload by OutcomeStore.

## 6. Not modelled

- Of the worker's loop, its idle polls, and which ids of a batch under way it
  forgets at a 404: a heartbeat of TaskQueue may leave out any task that is executed, so the models
  do not show that the loop renews what it should. Batch, broken pool and restart are in TaskQueue.
- The Parquet export: two hazards of it are listed without a property.
- The command line: a pid file and process I/O.
- The numerics of stim and pymatching; the contour lines of `contours.ts`, which
  are geometry on the output of d3-contour; layouts, themes, titles, colours.
- Request schemas and settings, which have no state. Types are checked by
  pydantic and zod; where they decide what is accepted, the wizard's sorts of
  text stand for them. Parameters that are strings (a Stim circuit's name) or may be
  null (seeds) are not among them.
- The pages of the experiment list: the server has them, the browser asks for none, so
  experiments before the newest 100 are out of its reach, and of the models'.
