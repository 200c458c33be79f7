# coding_opd: a TLA+ development

`coding_opd` trains a coding agent by on-policy distillation: a student model
solves repository tasks in containers, a teacher model scores the student's
tokens, and a separate-async veRL trainer updates the student while the next
rollouts are running. Around that loop are evaluators that may be killed and
resumed, scripts that freeze data sets and scripts that fetch container images.
The modules here describe the concurrent, failing and order-dependent parts of
that code. Paths below are relative to `src/` of the repository; `PROJECT.json`
maps every definition to the lines it stands for.

## 1. The system and its parts

| Part | Code | State it keeps | Operations |
|---|---|---|---|
| Checkpoint-safe prefetch | `src/coding_opd/async_prefetch.py`, patched into veRL's trainer | step, mini-batch index, prefetch flag, dataloader position, prompt markers in TransferQueue, newest checkpoint | submit a batch, sample (dropping and replacing stale rows), `on_sample_end`, update, regular and early save, resume |
| Rollout framework | `opd_framework.py`, `algorithms/*.py` | step a prompt was dispatched at, session tasks of a batch | construction guards, dispatch, horizon, teacher scoring before the queue write, batch barrier, validation |
| Engine server, gateway, ReAct agent | `vllm_server.py`, `adaptive_teacher.py`, `opd_gateway.py`, `react_agent.py`, `rollout_config.py` | tokens of a conversation, suffix start in a ContextVar | clip to the context, generate, diagnose, terminal reason, tools |
| Adaptive rollout | `adaptive_rollout.py`, `opd_gateway.py`, `algorithms/adaptive.py` | per session: entropies, scored token prefixes, `stopped` | generate, accept, attach, finalize; `retained_turns` |
| Start-up | `parallel_startup.py`, memory and cache settings of `verl_optimizations.py` | patched constructors, ranks handed out | three concurrent constructors |
| Weight transfer | `nccl_checkpoint_plugin.py`, `verl_optimizations.py` | sender buffers, group, ranks | prepare, connect, transfer, finalize, over several updates |
| Gradient accumulation | `verl_optimizations.py` | hooks, modules that synchronise | micro-batches, deferred synchronisation, optimizer step |
| Checkpoints | `checkpoints.py`, `scripts/validate_training_checkpoint.py` | marker file, shards | find and validate a checkpoint |
| Agent sandbox | `r2e_task.py`, `codex_agent.py` | container name, running podman client, process in the container | start, `exec_shell`, stop; the frame of a task |
| Task grading | `r2e_task.py`, `swesmith_task.py`, `swe_bench_task.py`, `swebench_codex_task.py`, `deepswe_task.py`, `scripts/regrade_swebench.py` | patch, verifier container, verdict | collect, prepare, test, judge, regrade |
| Codex evaluator | `codex_eval_entrypoint.py` | record files, `result.json`, semaphore, replica slots | start, resume, run one task, collect, finish |
| ReAct evaluator | `eval_entrypoint.py` | scores in memory, `result.json`, `quick_result.json`, rows in TransferQueue | validate the bundle, stage, poll, save, restart |
| Data sets | `dataset_selection.py`, `r2e_data.py`, `swesmith_data.py`, `eval_data.py`, `scripts/{freeze,materialize,prepare,summarize}*.py` | frozen manifests and bundle directories | quotas, splits, tiers; write, validate and summarise bundles |
| Image download | `scripts/download_oci_images.py`, `oci_layout.py` | `.part` files, verified blobs, manifest cache, index, archive | fetch manifests, download with resume, verify, normalise, pack |
| Operations, configuration, kernels, profiling | other scripts, `train_entrypoint.py`, `sandbox_resources.py`, `qwen35_kernels.py`, `profiling.py` | none of their own | not modelled, see section 6 |

How they meet:

* The trainer thread calls the patched hooks; rollouts finish in other
  processes and leave prompt markers in TransferQueue, which the trainer polls.
* A rollout is a session of the gateway: an agent (in a task, on a sandbox) asks
  the gateway for turns, the gateway asks the student's server, in adaptive
  runs then the teacher, then `AdaptiveSession`. Finalizing a session hands
  labelled trajectories to the queue. A timed-out agent abandons a request that
  is still being served.
* An agent's commands are podman clients in worker threads. Cancelling the task
  cancels the coroutine but neither the thread nor the process in the container.
  Grading starts when the agent has left, in its container or in a new one.
* A training job starts from the checkpoint the validator accepts, builds its
  parts in parallel and sends the restored weights to the rollouts, again after
  every step; before that it saves the steps that are to be saved.
* Evaluators, dataset scripts and the image downloader write files that a
  later process, of the same or another directory, believes.

What is hard about it: cancellation at every `await`, against threads that
cannot be cancelled; a process that may die between any two writes; a
one-batch look-ahead that must be empty at exactly the steps that save; an
online decision that has to agree with an offline rule; scores that arrive
while the loop that counts them decides whether it is done; limits that are
computed in two places; roundings that must nest. The complete list, each entry
at its line, is under `hazards` in `PROJECT.json`.

What makes each part correct:

* trainer: a checkpoint is a cut of the stream of rows; nothing is lost or
  trained twice over restarts; training ends;
* rollouts: a conversation fits the context everywhere, a turn that was cut runs
  no tools, a batch uses one version of the weights when it has to, what is in
  the queue is labelled, horizons depend on the batch and not on timing;
* adaptive session: what is trained on are exactly the delivered turns of the
  prefix the offline rule keeps, each token with its own label;
* training job: no half-built service, no incomplete checkpoint, no stale
  weights, buffers or gradients, over kills and relaunches;
* sandbox and grading: the patch is taken from a quiet tree, the container is
  there when it is taken and gone afterwards, time limits are limits, a verdict
  is about the agent's work and never about the infrastructure;
* Codex evaluator: a stopped run can always be continued, nothing is repeated
  and no two semantics are mixed;
* ReAct evaluator: a finished result tells of every session that scored;
* data sets: selections are exact and nest, and an evaluation runs what its
  manifest describes, whichever script was killed;
* image download: a published blob is right, whatever the registries answer, the
  archive is one consistent selection, and interrupted work is resumed.

## 2. Modules

| Module | Models | Built on |
|---|---|---|
| `PrefetchTrainer` | the patched trainer with its queue | implements `CheckpointedStream` |
| `EngineTurn` | one turn: server, teacher's diagnosis, gateway, agent | |
| `OPDRollout` | trainer, batches and sessions of turns | `EngineTurn` |
| `AdaptiveRollout` | one adaptive session: online stop, attach, finalize | |
| `CheckpointFiles` | a writer that dies, and the validator | |
| `ParallelStartup` | three concurrent constructors and what they patch | |
| `WeightTransfer` | NCCL group and buffers over updates | |
| `GradientSync` | deferred gradient synchronisation over micro-batches | |
| `TrainingJob` | a job's life over kills | the four before |
| `AgentSandbox` | container, command, cancellations, agent part of a task | |
| `TaskGrading` | four graders and regrading | `AgentSandbox` |
| `CodexEval` | the Codex evaluator, its files and continuations | |
| `ReactEval` | the ReAct evaluator and its poll loop | |
| `TaskSelection` | every selection rule, as functions on sets of rows | |
| `DatasetBundles` | the scripts that write and read bundles | `TaskSelection` |
| `BlobDownload` | a worker per blob | |
| `ImageDownload` | the download program around the workers | `BlobDownload` |
| `MC*` | constants for the runs | the module named |
| `*Proofs` | theorems | the module named |

**PrefetchTrainer, CheckpointedStream.** Its `pc` names the hook that comes next
(`add`, `sample`, `sample_end`, `update`, `fit_save`, `step_end`, `advance`);
each action is one hook with everything it calls. `AddBatchToGenerate`,
`OnSampleEnd`, `Boundary`, `SaveCheckpoint` and the early save of `OnStepEnd`
are the patched methods; replacing lost rows, sampling, the dataloader and the
resume belong to veRL and are modelled from how the patch and `tests/` drive
them. A row is its position in the dataloader stream, so "which rows has this
model seen" is a set of numbers. `CheckpointedStream` is what the trainer
promises: a consumer of a numbered stream that may save a cut and fall back to
it (`Stream == INSTANCE ... WITH`).

**EngineTurn, OPDRollout.** Of a conversation only its number of tokens is kept,
since the budgets are all that depends on it; a request may bring a token limit of
its own (`RequestLimits`), which the server clips. A turn runs through `ask`,
`engine`, `teacher`, `extract`, `replied`, `tools`; other sessions move in
between, which is where a ContextVar could be another request's. `OPDRollout`
adds the trainer (`Submit`, `Wait`, `Sample`, `Update`, `Validate`), the slots,
the horizon of a session and the teacher calls before its rows are written. An
agent that raises or runs into its deadline ends its episode, which is scored as
any other (`AgentStops`); only what the task does not catch - its sandbox, the
set-up of the tests, the evaluation - aborts the session (`TaskFails`).
`config` ranges over every algorithm and mode, those that `create` refuses
included. The trainer submits, may prefetch and updates; the details of its
queue are in `PrefetchTrainer`.

**AdaptiveRollout.** The teacher's entropies of all turns are chosen at the start
(`script`), which is what lets the online decision be compared with the offline
rule on the whole episode. Tokens come in blocks that carry their kind and
turn, so that "this label belongs to that token" can be said. `TeacherScores` is
`accept`: the entropy is recorded, the rule decides, the prefix is kept.
`Finalize` is `attach` and may happen in any state, as a timed-out agent
leaves its request behind. How the gateway splits, rolls back and restarts
conversations is external and modelled from `attach`'s comments and
`tests/test_adaptive_opd.py`. Entropies are integers in a unit that makes
three times the threshold one integer; the code's mean over three turns becomes
a comparison of sums.

**TrainingJob** and its parts. `CheckpointFiles` writes every file as absent,
empty, partial, full, in any order of the ranks, prunes older checkpoints and
moves the marker last; `validate_checkpoint` looks at what is on disk.
`ParallelStartup` runs the actor, the standalone rollouts and the teacher on
threads of their own, any of which may fail, with the patches of the
constructors put in and taken out. `WeightTransfer` keeps one group over several
updates or rebuilds it; ranks, buffers and cache flushes follow. `GradientSync`
is FSDP's synchronisation flag per module under the patch. `TrainingJob` takes
their steps in the order of the trainer loop, saves the steps that `SaveFreq` and
`FirstStep` (`save_freq`, `first_checkpoint_step`) and the last step ask for, so
that the actor is in general ahead of the newest checkpoint, and kills the process anywhere,
which resets the memory of every part and leaves the files.

**AgentSandbox, TaskGrading.** One task: its coroutine (`pc`, `wait`), the podman
client it awaits behind `asyncio.shield` (`call`), the process in the container
and the container. The two cancellations - the agent's own deadline and one from
outside - may strike at every await. A ReAct agent's commands carry an
in-container timeout, the launch of Codex does not. `TaskGrading` adds what
becomes of the work: the patch, the trees it is applied to with the fallbacks of
`git apply`, the verifier, the test run and the verdict of each kind of task. A
test run has what it would print (`printed`), what a kill leaves of it (`output`),
and for the graders that look for one a report; R2E compares with the statuses its
metadata expects, which may be failures (`expected`).

**CodexEval.** Directories with record files and `result.json`, at most one live
process, its coroutines with the semaphore and the replica slots. An identity of
four fields stands for the fingerprint: code, task configuration, semantics,
resources. Every write is one `os.replace`; a kill may fall between any two.
From the end of a task to the return of its slot the code does not await, so
`Record` is one step.

**ReactEval.** A rollout thread per job submits stages; the main loop asks
`done()`, reads the queue, saves. These are three steps because rollouts write in
between. The queue dies with the process, `result.json` does not.

**TaskSelection, DatasetBundles.** A row is a repository and a number; hashes are
permutations given as constants. `TaskSelection` has largest-remainder quotas
with capacities, splits, tiers, round-robin prefixes and the exclusions.
`DatasetBundles` runs scripts that write one file after another, the manifest
last, and may be killed between two; an evaluation loads, validates and runs a
bundle at separate instants, and a summary reads the results.

**BlobDownload, ImageDownload.** A worker per blob, a list of sources, attempts,
the `.part` file as a length and whether its bytes are right so far. Registries
and the network send too little, too much or the wrong bytes, ignore `Range` or
refuse. Around it the program: manifests by tag or through a list, their cache,
skipped images, the index before and after normalisation, clean-up and archive.

Operators marked "Fault" in the modules are plausible bugs in the definition
that follows them. No specification uses them; they are what each property was
tried against.

## 3. What the runs check

| Run | Question | Bounds and why they are enough |
|---|---|---|
| `prefetch` | Are saves never refused and consistent cuts, is every row accounted for, does training end, and is the trainer a checkpointed stream? | two mini-batches per step, so rows overtake each other; 6 steps with `SaveFreq` 4 and an early save at 3: prefetch before, between and at boundaries and at a final step that is no multiple; threshold 2 (the smallest that is accepted), so a row can go stale; one failure, one crash |
| `opd_rollout` | Do budgets, reasons, diagnoses, labels, weights and horizons stay right over every interleaving of sessions? | every algorithm and mode; two steps, with two sessions and one, and one validation session, on two slots: concurrent turns, sessions that wait until the next step, a prefetched batch; context 4, turn limit 2, prompt 1, response length 4, so that the context and not the response length is what cuts; requests that ask for less than the turn limit, for more, or for nothing; observations of 1 or 2 tokens fit or do not; two trajectories a session, one failure: an agent stops, a task fails, or one of several teacher calls |
| `adaptive` | Online against offline, labels, cropping | six turns (three windows besides the baseline), entropies that fall, rise or are not finite; a split, a rollback and a rewrite in any order; finalization at any moment |
| `adaptive_rollback` | Does `attach` find a scored prefix after every rollback? | expected violation |
| `training_job` | Are checkpoints, start-up, buffers, gradients and weights right over a job's life? | four steps with `SaveFreq` 2 and an early checkpoint at 1: steps 1, 2 and 4 are saved, step 3 is not, so the job can be killed ahead of its checkpoint; two kept, so one is pruned; two ranks, two actors of which both or one send; two modules and three micro-batches: a module may skip the first, the middle or the last; one kill anywhere, then a resume. Settings are the diagonal of eight start-ups with the transports and engines, as the parts do not share settings |
| `codex` | Slots, backing, resumability, semantics, no repeated work | three launches over three directories: a chain of two continuations, or a restart after a continuation; two tasks on two slots; four identities: other resources, other code and task configuration, other semantics |
| `react_eval` | Does the final result miss or invent a score; do complete tasks survive a restart; does it end? | a quick panel and a rest, two sessions a task (so a task can be partly scored), split sessions, one restart. One job: two jobs share nothing but the queue, the product with itself exceeds the time of a run, and the theorems cover any number of them |
| `graded_task` | Quiet tree, container kept and removed, deadline, independent graders, earned verdicts | two commands, one client call that is never answered, both cancellations, both agents, four kinds of task; edits that apply, need fuzz, apply by half, or touch the tests; outputs that are empty, good, failing, contradictory, or with other tests, whole or cut by a kill at any line, with and without a complete report; expectations of passes only and with a failure; one regrade |
| `sandbox_codex_timeout` | Is `agent_timeout` a limit for Codex too? | expected violation |
| `image_download` | Published blobs, exact archive, kept partials, progress | two images that share a blob, two chunks a blob, two sources of which one honours `Range`, two attempts, two faults: a short answer and a kill, or a wrong byte and a moved tag, in one behaviour |
| `blob_resume` | Can a failed run always be resumed? | expected violation |
| `datasets` | Exact and nested selections, balanced prefixes, evaluations of what was frozen | three repositories of one to five rows in three shapes (a large, two large, a tiny one), two revisions, tiers and panels that hit capacities and remainders; one script killed; one evaluation per behaviour |

The properties are described where they are defined. Three kinds recur:
invariants that relate memory to disk or one actor to another (`ConsistentCut`,
`ResultIsBacked`, `AcceptedIsWhole`, `RolloutsFollowActor`, `FixedWeights`),
action properties about what is never undone (`CompleteTasksAreKept`,
`PartialIsKept`) and progress (`TrainingTerminates`, `EvaluationEnds`,
`KnownContainerIsRemoved`, `ToolAgentTimeoutIsEnforced`, `FaultsAreOvercome`).

Runs stop where the system stops (training is over, a session is finalized, all
launches are used up), hence `CHECK_DEADLOCK FALSE`; that nothing stops early
is what the progress properties say.

### Fairness

* Trainer (`prefetch`): weak fairness of the trainer thread as a whole and of the
  rollouts as a whole. The loop blocks only on the queue, and a rollout ends
  because agent loops and commands have their own limits.
* Sandbox (`graded_task`, `sandbox_codex_timeout`): the event loop runs (weak
  fairness of the coroutine), `podman rm` ends, a client call ends or expires,
  the in-container timeout fires, the deadline fires. A process need not end by
  itself: `KnownContainerIsRemoved` is stated under that condition.
* ReAct evaluator: driver threads run, sessions end by
  `session_timeout_seconds`.
* Download: the program and its pool threads run, and a failed run is started
  again.

`opd_rollout`, `adaptive`, `training_job`, `codex` and `datasets` check safety and
assume no fairness.

## 4. What is proved

The proofs are checked by TLAPS, for every value of the constants that satisfies
the named assumptions of the module.

| Module | Theorem | Statement |
|---|---|---|
| `PrefetchTrainerProofs` | `TypeCorrect` | `Spec => []TypeOK` |
| | `SavesSucceed` | `Spec => []SaveNeverRefused` |
| | `RowsAreAccountedFor` | `Spec => []RowAccounting` |
| | `CheckpointsAreCuts` | `Spec => []ConsistentCut` |
| | `LookaheadIsBounded` | `Spec => []OneBatchLookahead` |
| | `LagIsAtMostOne` | `Spec => []PolicyLagAtMostOne` |
| | `CadenceIsKept` | `Spec => []CheckpointCadence` |
| | `ImplementsStream` | `Spec => StreamSpec` |
| `OPDRolloutProofs` | `RolloutTypeOK` | `Spec => []TypeOK` |
| | `ConversationFits` | `Spec => []ContextIsBounded` |
| | `ReasonsAreHonest` | `Spec => []CutTurnsRunNoTools` |
| | `DiagnosisIsOwn` | `Spec => []EntropyIsOfOwnTurn` |
| | `BatchUsesOneVersion` | `Spec => []FixedWeights` |
| | `QueueHoldsLabelledRows` | `Spec => []RowsAreLabelled` |
| | `HorizonsFollowBatches` | `Spec => []CurriculumFollowsBatches` |
| `AdaptiveRolloutProofs` | `FrontierIsStable` | a frontier found in the first *n* turns is what the rule returns for every longer episode |
| | `SessionTypeCorrect` | `Spec => []TypeOK` |
| | `OnlineStoppingIsOfflineSelection` | `Spec => []OnlineIsOffline` |
| | `LabelInvariance` | `Spec => [](IInv /\ LabelInv)` |
| | `DeliveredTurnsStay` | `Spec => []DeliveredTurnsAreTrained` |
| | `EveryTokenHasItsLabel` | `Spec => []LabelsBelongToTokens` |
| `TrainingJobProofs` | `StartupIsSafe` | `StartupSpec => []StartupIsAllOrNothing` |
| | `BuffersAreOfSenders` | `LinkSpec => []BuffersFollowRoles` |
| | `NoGradientIsLost` | `GradientSpec => []GradientsAreReduced` |
| | `JobStartup`, `JobTransfers`, `JobGradients` | `Spec` implies `StartupSpec`, `LinkSpec`, `GradientSpec` |
| | `PartsAreSafe` | `Spec =>` the safety of the three parts |
| | `CheckpointsAreWhole` | `Spec => []AcceptedIsWhole` |
| | `RolloutsAreCurrent` | `Spec => []RolloutsFollowActor` |
| `TaskProofs` | `QuotasFill` | largest remainder gives every seat, within the capacities |
| | `RepoQuotasFit` | proportional quotas fit, add up and are fair within one seat |
| | `SelectionsHold` | `BundleSpec => []SelectionsAreExact` |
| | `RoundRobinIsEven` | prefixes of the round-robin order nest and are even, for all rows |
| | `BundleInvariance` | `BundleSpec => []BundleInv` |
| | `TiersAreBalanced` | `BundleSpec => []PrefixesAreBalanced` |
| | `EvaluationsAreFrozen` | `BundleSpec => []EvaluationsAreOfFrozenTasks` |
| | `CollectionIsQuiet` | `Spec => []SnapshotIsQuiet` |
| | `WorkSurvivesTimeout` | `Spec => []TimeoutKeepsSandbox` |
| | `GradedTaskIsTask` | `GradedSpec => Spec` |
| | `GradersAreIndependent` | `GradedSpec => []GraderIsIndependent` |
| | `VerdictsAreEarned` | `GradedSpec => []VerdictIsEarned` |
| `CodexEvalProofs` | `EvalTypeCorrect` | `Spec => []EvalTypeOK` |
| | `ResultsAreBacked` | `Spec => []ResultIsBacked` |
| | `ResultsAreResumable` | `Spec => []EveryResultIsResumable` |
| | `SemanticsStayApart` | `Spec => []SemanticsNeverMixed` |
| | `WorkIsInherited` | `Spec => []FinishedWorkIsNotRepeated` |
| | `SlotsAreEnough` | `Spec => []SlotsSuffice` |
| `ReactEvalProofs` | `EvalInvariance` | `Spec => []EvalInv` |
| | `ResultsAreTrue` | `Spec => []FinalResultIsTrue` |
| | `CompleteTasksStay` | `Spec => CompleteTasksAreKept` |
| `ImageDownloadProofs` | `DownloadInvariance` | `Spec => []DownloadInv` |
| | `BlobsAreVerified` | `Spec => []PublishedIsVerified` |
| | `ArchiveIsOneSelection` | `Spec => []ArchiveIsExact` |
| | `FetchedIsKept` | `Spec => PartialIsKept` |

Along which arguments:

* **Trainer.** `SaveNeverRefused` is not inductive: that the queue is empty at a
  save follows from how many rows were put in and taken out. `IInv` adds counts:
  `QueueCount` (the queue holds the mini-batches of this step that are not
  sampled yet, and one batch more if the flag is set), `TrainedCount` (the model
  has seen whole mini-batches), `FlagIsOrderly` (a set flag means no boundary and
  not the first mini-batch), `Phase` and `SavedCut` (the checkpoint is a cut
  already, so a crash lands in a state that satisfies the invariant). Replacing
  dropped rows changes neither count, which is why staleness and failures do not
  matter. The lag theorem adds `Fresh`, the cadence theorem that the regular save
  comes before the early one. The refinement is shown step by step: update and
  refill consume rows, a save is a cut, a crash falls back, all else stutters.
* **Rollouts.** `IInv` has the trainer's `Phase` (which batches are out and which
  weights are in use at each place) and per session `Budget`, `Own`, `Honest`,
  `Labels`, `Curriculum` and `Fixed`. `Budget` is inductive only because the
  gateway's capacity is never beyond the context (`CapacityFits`) and a
  generation never takes more than is left. `Fixed` needs `Phase`: with
  synchronous rollouts the guards of construction exclude prefetching, so no
  session of a later batch exists when the weights change. The horizon theorem
  combines `Curriculum` with the monotonicity of the horizon (`HorizonGrows`).
* **Adaptive rule.** The rule is causal (`RisesIsCausal`, `FrontierIsCausal`):
  whether turn *t* is a frontier depends on turns up to *t* only. The invariant
  adds `History` (what was scored is the beginning of the script) and
  `FirstFrontier` (only the last scored turn can be a frontier, and then the
  session has stopped).
  The labels are proved relative to that. What a session hands over is found
  again by looking up the conversation among the scored prefixes, so `LabelInv`
  says how the conversation and the prefixes fit: what was scored ends with a
  generation (`RecordsOK`), the generations in a conversation are of recorded turns
  (`Fresh`), a scored prefix of a trajectory reaches over all of its generations
  (`Covering`), also when a turn has been scored and is about to be recorded
  (`JustScored`), no turn is in the responses of two trajectories (`OwnTurns`), and
  nothing is handed over before the session is finalized (`HandedLast`). Splits,
  rollbacks and rewrites only shorten a conversation or begin a new one.
* **Training job.** Start-up, transfer and gradients are proved for the
  component's own steps in any order (`StartupSpec`, `LinkSpec`, `GradientSpec`),
  launches included; the job is then shown to take no others. Start-up needs
  which patches are in at each place (`Patching`), which threads may be running
  (`Threads`) and that the ranks handed out in parallel are disjoint ranges,
  which rests on a count of the hybrid replicas (`HybridCount`). Transfer needs
  who has ranks at each place (`Group`) and, worker by worker, who has buffers
  (`Buffered`). Gradients need that whatever a module has used is reduced, owed or
  in the making (`Accounted`), and which modules synchronise (`Synchronising`).
  What joins them is `JobInv`. Of the files it says that the step the marker names
  is whole, that a save under way is of another step and that its pending writes
  close every file they open, and that nothing is kept that is newer, so pruning
  never removes the marker's step (which needs `Keep` of at least 2); of the job,
  which version actor and rollouts have in each phase, and that no step due to be saved
  lies between the marker and the actor (`NewestDue`). A kill leaves only
  the part that speaks of files, which a resume builds the rest from again.
* **Sandbox and grading.** `Quiet` ties the process in the container to the place
  of the coroutine: only the agent's second cancellation leaves a command behind,
  and that ends the task. `Answered` says that nobody removes anything as long as
  every client call is answered. Graders take no steps of the sandbox but its own
  (`GradedTaskIsTask`), so `SandboxInv` holds under grading too; with `Known`
  (a container that is collected from is the one the task remembers, and leaving
  removes it) it gives `Separate`: the verifier starts when the agent's container
  is gone. `VerdictIsEarned` needs that the statuses read from an
  output are the last lines about each test (`LastWordIsStatus`), that a complete
  report goes with an output nothing was cut off (`RunsAreRead`), and which tree each
  kind of task was tested on (`Tested`, `AllIsTested`), over regrading.
* **Codex evaluator.** `Believable` is what a result, or the live run, may tell
  of the tasks of a directory: every record file there has its fingerprint, every
  record it knows is on disk, agrees with the directory and has its semantics.
  The live run's result is always exactly what the run knows (`Memory`), so a
  kill at any place leaves a believable result, and a continuation of a
  believable result is believable again. `Stage` says that a task at work is
  known nowhere, so its record overwrites nothing. For the slots the invariant is
  the sum per replica and the semaphore's count; that a coroutine inside the
  semaphore finds a slot is then a pigeonhole argument (`AllSlotsServe`: the
  slots, numbered, map one to one into the running coroutines).
* **ReAct evaluator.** The theorems are about any set of jobs over one queue. A row
  is written once, by a session that is over from then on (`RowsAreFinal`), so
  what a job has read stays the session's outcome (`Memory`). A stage is left only
  when `done()` answered before the scores were read, and no later stage touches
  its tasks, so at its end the scores are all there is (`Settling`). A task that
  was complete before a restart has no session now and so no row, and nothing
  replaces its scores (`Kept`); what is saved is what is in memory (`SavedLast`).
* **Images.** `DownloadInv` says of the staging directory, whatever processes have
  worked on it, that nothing is published wrong, that a published blob has no
  `.part` left and that everything there is named by a cached manifest (`Staging`);
  of a live worker, that it fetches what is absent and validates what is complete
  (`Working`); of the program, that its index has the images met so far, in order
  and by the manifests in the cache (`Selection`), that all blobs are there before
  the index is written (`Downloaded`) and that the archive is of the normalised
  manifests (`Normalized`). A kill leaves `Staging`. `PartialIsKept` is an action
  property and follows from it step by step.
* **Data sets.** A script writes only one kind of contents (`Right`), so a file is
  torn or right whatever was killed; an evaluation has what is on disk unless that
  was written since. For the tiers, `RoundRobinIsEven` considers the first row of
  repository *k* that a tier leaves out, of offset *o*: all rows of *k* before it
  are in, and a row of another repository with a greater offset would come after
  it, so no other repository has more than *o* + 1. "First" is the least element of
  a non-empty set of naturals (`LeastElement`), which is also how the other proofs
  replace an induction.
  `SelectionsHold` needs the sums of quotas. The model's `Total` of an allocation is
  the number of its seats, pairs of a key and a number, so sums are compared by
  inclusion and bijection of finite sets, without induction on the keys. By largest
  remainder the floors do not exceed the total, and as long as seats are left some
  key has room; every step gives one seat, so that the allocation after all steps is
  exact follows from the least step at which it would not be (`QuotasFill`). For
  `_repo_quotas` the fractions add up to the seats the floors leave over, so at least
  as many keys have one, and one pass gives all seats (`RepoQuotasFit`). The first *n* of a
  ranked set are *n* because the positions number it (`PositionsNumber`,
  `FirstOfSize`); a union over repositories or strata has the size of its quotas
  (`PartsFilled`). The small tier nests in the large one, as its quotas are filled
  within the large one's (`NestedSubsetsSize`). `BundleInv` then carries the sizes
  to what is on disk, also after a kill.

Every inductive invariant was model-checked on the run of its module before it was
proved (for `EvalInv` also with two jobs over one queue and one task).

Assumptions beyond the types of the constants:

* `PrefetchConfig` (what the installer accepts), `ConcurrencyFits` (`main()` refuses
  more concurrency than slots), `NoneIsNoRun` (the value for "no process" is no
  process), `TurnAssumption` (the prompt is shorter than the context).
* `Keep` of at least 2. With 1, veRL removes the old checkpoint before the new one
  exists. `scripts/run_r2e128_checkpoint_resume.sh:37` sets 2; without a
  setting nothing is pruned, which is any `Keep` beyond the number of steps.
* `TierSizes` (`prepare_coding_opd_eval.py` raises on other sizes), `PanelSizes`
  (`dataset_selection.py:128` and `:233`; the panels have 50 and 64 tasks),
  `SplitsNest` (`r2e_data.py:155-158`).
* `RanksDiffer` (rows of one source, and its repositories, have different SHA-256
  values under each label), `BundleConstants` (a source is finite, the names of its
  repositories are ordered, the root of the size of a repository that has rows is
  positive).
* The outputs of tests are sequences of pairs, expectations give one status to each
  required test, the image list is a sequence.

Every invariant and every action property of the passing runs is stated by one of
these theorems. Only model-checked is what is about progress
(`TrainingTerminates`, `EvaluationEnds`, `KnownContainerIsRemoved`,
`ToolAgentTimeoutIsEnforced`, `FaultsAreOvercome`), since liveness under fairness is
out of the prover's reach, and the counterexamples of section 5.

## 5. Disagreements found while modelling

1. `codex_agent.py:271` launches Codex without a timeout. When `agent_timeout`
   cancels the agent, `r2e_task.py:115-119` first waits for that command; the
   clause that would kill Codex comes after the wait. A Codex process that does
   not end by itself is never killed (run `sandbox_codex_timeout`).
2. The staging directory that the message at `download_oci_images.py:462` calls
   resumable need not be (run `blob_resume`), for two reasons. A process killed
   after the last chunk of a blob and before its rename leaves a `.part` of full
   size; a later run asks for the bytes beyond its end, gets 416 and gives up. A
   JSON answer that is no manifest is cached before it is used (`:335`), and every
   later run fails on it (`:354`). `FaultsAreOvercome` shows that, a tag without
   an image for the platform apart, nothing else stands in the way.
3. `AdaptiveSession.accept` keeps only the longest scored prefix of a chain. When
   the last generation is rolled back and the next turn is never accepted
   (the detection turn, an empty reply, a request abandoned by a timeout), no
   prefix matches and `attach` raises: the session and its accepted turns are lost
   (run `adaptive_rollback`). It depends on the gateway rolling back the last
   assistant message, which the comment at `adaptive_rollout.py:48-50` says it
   does.

A remark without a run: `docs/oom_recovery.md:15` says that task cancellation
removes the sandbox. On cancellation `r2e_task.py:115` waits for the command and
keeps the sandbox, which its comment and
`tests/test_sandbox_resource_limits.py:57` want, so the patch can be collected.

Behaviour a reader of the models may be surprised by, and which they follow:

* A torn marker file makes the validator refuse the checkpoint, also when older
  checkpoints are whole. A HuggingFace file left behind by a killed save with other
  save contents would be accepted with `--require-hf-model`; in the model a step is
  always saved with the same contents (`ExportFrom`).
* `asyncio.gather` leaves the other teacher calls of a failed session running.
* When a test run is killed, R2E and SWE-smith grade what it printed before, SWE-bench
  raises, and DeepSWE grades whatever valid `reward.json` there is, without a look at
  the exit code. R2E runs the tests of the agent's tree.
* When `git apply` refuses a SWE-bench patch and `--reject` has applied some of its
  hunks, `patch --batch` takes these for reversed ones and undoes them; the task is
  graded without them, as by the upstream harness. `VerdictIsEarned` says that work
  is lost nowhere else.
* A manifest fetched by digest is not compared with it; an image list of which
  every entry was skipped gives an empty archive.
* `source_revision` in the runtime manifests of Verified is copied from the
  frozen manifest and not checked; the manifest of a training bundle is not
  validated at launch.
* A worker thread's `podman run` that outlives a cancelled start leaves a
  container nobody knows (`StartedUnnoticed`); nothing in the code or its
  documentation promises otherwise, so no property is stated.

## 6. What is not modelled

* `veRL`, Uni-Agent, vLLM, podman, git, the benchmark packages and the registries
  themselves: only the behaviour the code relies on, marked external in the map.
* Numerics (losses, kernels, gradient scaling, the pure-distillation fast path),
  tokenization, logging, metrics, profiling.
* Launch scripts and shell operations: sequences of commands over hosts and
  services whose behaviour is not in the repository. Launch configuration:
  computed flags without a state of their own.
* Rollouts: only the separate-async mode with distillation enabled; the step a
  prompt carries is the step it was dispatched at.
* Sandbox: the working directory of the shell tool, the Codex command line and
  its event log; the set-up command before the agent. The SIGTERM that a cancelled
  Codex launch sends (`codex_agent.py:280-284`) is not awaited in the code and is
  an immediate end in the model: Codex is alive there only after a second
  cancellation, which ends the task without collecting a patch. Grading: training runs with `run_evaluation=False`.
* Evaluators: the contents of identities and artifacts. Two concurrent ReAct jobs are
  in the model and in the theorems, but exceed the time of a run.
* Data sets: row order, the reuse mode of `add_repeated_debug_fixture`, different
  seeds for freezing, different numbers of repositories for debug and evaluation
  tiers, and SWE-smith without its exclusions. The canary reads all its inputs in
  one step.
* Downloads: mirror selection and progress output; `normalize_layout`, several writes
  to the private staging directory, is one step; the summary's count of images,
  which includes skipped ones.

## 7. Plan

The order was: the trainer's checkpoints and the teacher-label path first, since an
error there silently damages a training run; then the evaluators and the sandbox;
then the rollout framework and the training job around them; then grading, data and
images. All modules of that plan exist. What would follow, in this order:

1. A run of two ReAct evaluations that share a queue, with sessions reduced to one
   a task; the theorems cover it already.
2. The two trainers joined: `OPDRollout`'s trainer shown to take the steps of
   `PrefetchTrainer`'s.
