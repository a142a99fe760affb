# Verification of tiny-qwen-coder

tiny-qwen-coder turns one pinned base model into a family of language
specialists: it generates teacher data, builds corpora, trains LoRA adapters,
evaluates them in isolated harnesses, audits what it concluded and publishes
what survived.  Almost none of that is a server.  It is a set of long commands
over directories that are *preempted, restarted, synchronized and edited by
hand*, and the interesting correctness of the repository is in its durable
protocols (what may be reused after a crash, what may be deleted, which file
vouches for which other file) and in its derivations and gates (which tokens the
loss falls on, which records may share a split, which score may promote).

All paths below are relative to `src/tiny_qwen_coder/` unless they begin with
`docs/`, `configs/`, `scripts/` or `.github/`.

## Contents

| module | models | checked by | proved in |
|---|---|---|---|
| `ShardLedger` | the promise of a directory of sealed shards (abstract) | `corpus`, `compression` | (what `GenerationImplementsLedger` and `CompressionImplementsLedger` refine) |
| `TeacherGeneration` | `distillation/generation.py` and its command line | `corpus`, `relabel` | `TeacherGenerationProofs` |
| `V4Compression` | `distillation/v4_compression.py` | `compression` | `V4CompressionProofs` |
| `TeacherCorpus` | input policies, reasoning split, salvage, finalization, qualification, archive and import of a corpus | `corpus` | `TeacherGenerationProofs` |
| `SemanticContracts` | `distillation/semantic_contracts.py` | `corpus` | `TeacherGenerationProofs` |
| `StudentCorpus` | generation, the repair of its corpus and the filter by contracts, side by side | `corpus` | `TeacherGenerationProofs` |
| `DataPipeline` | the filters and the split of `data/*` (operators) | `training` | `AdapterTrainingProofs` |
| `PythonCorpus` | `data/python_corpus.py`, its adapters, the P0 manifest | `training` | `AdapterTrainingProofs` |
| `AdapterTraining` | the files of a finalization, and `training/*` | `training` | `AdapterTrainingProofs` |
| `LossPreflight` | `training/loss_masking.py`, `preflight_loss.py`, the gates of `preflight.py` | `curricula` | `CurriculaProofs` |
| `AdapterLifecycle` | `model/*` discovery, `adapters/*`, `runtime/adapter_validation.py` | `training` | `AdapterTrainingProofs` |
| `TrainedAdapters` | the training of adapters, the P0 corpus and the way to P7-007, side by side | `training` | `AdapterTrainingProofs` |
| `AdapterPromotion` | `huggingface_promotion.py` | `promotion`, `promotion_race` | `AdapterPromotionProofs` |
| `ExecutionHarness` | `evaluation/execution.py` | `scoring`, `harness_held_pipe` | `CandidateScoringProofs` |
| `SuiteEvaluation` | HumanEval, MBPP, holdout, regression score, promotion policy | `scoring` | `CandidateScoringProofs` |
| `CandidateScoring` | the harness, the suites scored with it and the comparison by such scores, side by side | `scoring` | `CandidateScoringProofs` |
| `PythonBaseline` | `evaluation/_baseline_*.py` | `baseline`, `baseline_checkout` | `PythonBaselineProofs` |
| `StudyEvaluation` | P0, rank sweep, minimum intervention, distilled trajectory, qualification | `studies` | `StudyConclusionsProofs` |
| `RegressionComparison` | `evaluation/python_p0_regression.py` (P8-002) | `studies` | `StudyConclusionsProofs` |
| `PairedOutcomes` | P8-003, FTR-104, P9-008 | `studies` | `StudyConclusionsProofs` |
| `ControlAudits` | FTR-101 to FTR-103 | `studies` | `StudyConclusionsProofs` |
| `StudyConclusions` | the studies, the audits, P8-002 and the paired outcomes side by side | `studies` | `StudyConclusionsProofs` |
| `TeacherSuperiority` | FTR-201 to FTR-203 | `scoring` | `CandidateScoringProofs` |
| `TokenLedger`, `TrajectoryAlignment` | `pvrl/token_ledger.py`, `pvrl/trajectory_alignment.py` | `curricula` | `CurriculaProofs` |
| `ToolContract` | `pvrl/tool_contract.py` | `curricula` | `CurriculaProofs` |
| `EnvironmentAdmission` | manifests, reference validation, oracle, contamination, partitions, integrity gate of `pvrl/*` | `curricula` | `CurriculaProofs` |
| `Curricula` | admission, conversation, tools and the loss masks of chats side by side | `curricula` | `CurriculaProofs` |

The `MC` modules give the constants their values for TLC; the `.cfg` files add
the bounds of the module that is extended.  `PROJECT.json` has the run, the
mutants of every property, the source lines of every definition, the hazards and
the findings.

**Runs with halves.**  A run that asks several components at once (`MCCorpus`,
`MCScoring`, `MCAdapterTraining`, `MCStudies`, `MCCurricula`) extends one component's
module and instantiates the others over variables of their own, itself or through a
module that puts components side by side for the proofs (`StudentCorpus`,
`TrainedAdapters`, `CandidateScoring`, `StudyConclusions`, `Curricula`).  The variable `half`, chosen
in the initial state, says which of them moves in this behaviour; the others stay in one
initial state.  The state spaces add
and do not multiply.  This is sound because the parts of a run share no state in
the model: where one hands over to another through a file, the receiver starts
from every content the sender's properties leave possible, as the section on
interaction says.  Where parts really interact (generation and its readers,
finalization and training, candidate and harness) they are in one module, or in
modules that extend each other.

In every component module the definitions come in the order of the code:
constants, variables, helpers, one action per step, `Next`, `Spec`, properties.
A definition whose comment begins "Mutant of" is a plausible bug in the
definition below it; nothing uses it but the mutant checks.

## Inventory

### Data and teacher side

* **Teacher generation** (`distillation/generation.py`,
  `scripts/teacher_distillation/generate_teacher_data.py`).  *State*: a
  directory on a mounted Drive: `run-identity.json`, one payload and one
  `.sha256` sidecar per shard, `progress.json`; the input file; the code on
  the machine's disk.  *Operations*: status (`inspect_teacher_generation`), run
  (`run_teacher_generation`), load (`load_completed_distilled_records`).
  *Hard*: Colab preemption between any two effects, several machines on one
  Drive, files that come back wrong or not at all, a second read after a
  validation.  *Correct when*: a sealed shard is never written again, belongs to
  the run of its directory and names the code that produced it; corruption stops
  the run instead of being regenerated over; a loaded corpus answers its
  records in their order.
* **Configuration and vLLM backend** (`config.py`, `vllm_backend.py`).  A
  validated configuration and a call: in the models the configuration is its
  hash, the backend a choice of answers.
* **Input policies** (`input_policy.py`, `v2_input.py`, `v3_input.py`,
  `subset.py`) and **reasoning split** (`reasoning.py`).  *State*: the input file
  and its seal.  *Correct when* the count is exact, the instruction of the
  teacher never reaches the student, and a trace is cut at the one right marker.
* **v4 compression** (`v4_compression.py`, `scripts/.../compress_teacher_v4.py`).
  A second shard protocol over the output of the first, with its own identity,
  payloads and sidecars, and a merge into three files.  *Hard*: as generation,
  and shards of one's own code that are replaced, and a source that changes.
* **Finalization** (`finalize.py`, `finalize_records.py`, `diagnostics.py`,
  `qualification.py`) and **legacy salvage** (`legacy_salvage.py`,
  `distilled_salvage.py`).  *State*: six files of a data set, four of a salvage,
  an archive, an import.  *Hard*: a kill between any two files, and commands
  repeated in another order after the teacher ran again.
* **Semantic contracts** (`semantic_contracts.py`).  *State*: the input of the
  contract generation, its answers, the output of the census.  *Correct when* each
  record has the one verdict it deserves, from the contract asked for it.
* **Data pipeline** (`data/*`).  *State*: the six files of the P0 corpus; the
  rest are functions.  *Correct when* first occurrences are kept, whatever shares
  a prompt stays on one side of the split, quotas are met exactly, and the files
  are of one build.

### Training and publication side

* **Training orchestration** (`training/*`).  *State*: the data set directory
  with the processes that finalize into it, the output directories, the process
  itself with what it read.  *Operations*: plan, data set check, claim, snapshots,
  save, report; the loss preflight before them.  *Hard*: two processes on one
  directory, a data set that is written under a training, a process that ends
  anywhere.
* **Adapter identity, compatibility, runtime** (`adapters/*`,
  `runtime/adapter_validation.py`) and **model inspection** (`model/*`).
  *State*: the frozen target profile, manifests, an output directory, a PEFT model
  with its switches, the P7-007 report.
* **Adapter promotion** (`huggingface_promotion.py`).  *State*: the run's output
  directory (archive, checkpoints, `huggingface-promotion.json`) and a remote
  Git-like repository.  *Operations*: validate, archive, create or reuse the
  repository, list, read the head, inspect its manifest, commit on that parent,
  download the exact commit and compare, delete the checkpoints, write the
  report.  *Hard*: other promotions and other people between any two requests,
  an upload whose answer is lost, a rotten disk, a kill at any point.

### Evaluation side

* **Execution harness** (`evaluation/execution.py`).  *State*: one `run()` with
  two capture threads, two pipes, a leader process, its process group, a
  container.  *Hard*: five parties that move independently, bounded pipes, a
  wall clock.
* **HumanEval, MBPP, repository holdout, regression suite, promotion policy**.
  *State*: a queue of problems, tallies, a decision.  *Hard*: the verdict is read
  off a channel that the candidate writes on too, and may be truncated.
* **Python baseline** (`evaluation/_baseline_*.py`, `baseline.py`,
  `scripts/run_python_baseline.py`).  *State*: a work directory of
  append-only checkpoint files, metadata, provenance, a stage manifest, results
  and aggregates per suite, the frozen manifest; the Git tree.  *Operations*:
  the one-command run, the generation stage, the scoring stage.
* **Studies** (P0, rank sweep, minimum intervention, distilled trajectory,
  qualification).  *State*: per candidate checkpoints, metadata, stage, results,
  score, seal; a selection.  *Hard*: interruption, another training output under
  the same name, several adapters on one base model.
* **Regression comparison P8-002, cross-language smoke P8-003, forensics P9-008,
  variance FTR-104, control audits FTR-101 to 103, teacher comparison FTR-201 to
  203.**  Commands that read evidence and conclude.  *Hard*: each is another
  moment, on another host, commit or copy of the files.
* **Benchmark contamination**.  A filter, within the pipeline's chain.

### Verifiable-RL side (`pvrl/*`)

* **Token ledger**, **trajectory alignment**: the exact tokens of a conversation,
  and loss mask and spans derived from them.
* **Tool contract**: what a policy may call, and what it is shown.
* **Environment manifests, reference validation, oracle, contamination, task
  partitions, integrity gate**: *state*: immutable manifests and reports that a
  caller keeps; any of them may be offered to any operation.

### Shared and static parts

Languages, reporting, reproducibility, configuration: static data, serialization,
hashing and field validation.  They appear in the models as identities ("the hash
of the configuration"), not as modules.

### How the parts interact

Through files, never through calls across machines.  Teacher generation feeds
compression and finalization, those feed the data pipeline, that feeds training;
training leaves a run directory that promotion archives; the baseline and the
candidate evaluations call the execution harness for every scored answer and
compare frozen manifests; the audits read all of that.  Each hand-over is bound
by a digest, which is why the models carry *which run, code, input or contract a
file is of* in the place of its contents.

| sender | hand-over | receiver in the model |
|---|---|---|
| `TeacherGeneration` | a directory that promises `ShardLedger` | `V4Compression` (`source`: finished runs by identity), `TeacherCorpus` (`checkpoint`), `SemanticContracts` (`contracts`) |
| `DataPipeline` | the splits of a data set | `AdapterTraining` extends it; `PythonCorpus` instantiates it |
| `AdapterTraining` | an output directory and its report | `StudyEvaluation` (`Trainings`, also with a report that is not of the files), `AdapterLifecycle` (`files`, of several trainings), `AdapterPromotion` (`archive`) |
| `ExecutionHarness` | a result or an exception | `SuiteEvaluation` (exit code and captured part of stderr), `PythonBaseline` (`broken`) |
| `PythonBaseline` | a frozen manifest | `StudyEvaluation`, `ControlAudits`, `TeacherSuperiority`, `RegressionComparison` (the base's verdicts, also those of a wrong directory) |
| `TokenLedger` | a completed ledger | `TrajectoryAlignment` extends it |

## How state and actions correspond to the code

**One action per effect.**  A session, a promotion or a command is a process
with a program counter.  Everything between two effects that another party can
see or that survives a kill (a rename, a request to the Hub, an append, a
removal) is one action; checks the code makes on the way are guards of it.  A
check that raises is the action that ends the session (`End`), with the memory
of the process forgotten.  `Crash` ends it anywhere.  Where nothing tells a
process that has ended from one that never takes its next step (trainings,
builders, P8-002), its end is no action of its own.  A write through a
temporary file and `os.replace` is atomic; the baseline's appends, which are
not, are modelled as they are.

**Contents are origins.**  A payload is the configuration, code, input and rows
it was made from; a file on the Hub is the run it was archived from; a scoring
is the answers it scored.  Equality of origins stands for equality of digests.
SHA-256 is taken to be collision-free.

**What really happened.**  Many properties compare a verdict with a fact that the
code cannot see: what became of a candidate
(`fate`), what an environment is (`truth`), what a teacher solves (`skill`), which
weights answered.  These are variables or fields that no guard reads; a comment
calls them history.

### Teacher side

**`TeacherGeneration`.**  `payload[j]`, `sidecar[j]`, `identity`, `progress` and
`corpus` are the files of the directory and what a load returned; `pc[s]`,
`job[s]`, `k[s]`, `tally[s]`, `local[s]` and `out[s]` are the program counter,
arguments and local variables of session *s*.  `Launch` to `FinishLoad` follow
the three entry points in order; a run ends in the inspection that the code
makes at its end, a load begins with it.  `DriveFault` removes or garbles a
file, as a mounted Drive does.  `SoleWriter` and `LiveEdits` say how the
directory is used: with `SoleWriter` the first command on a directory is alone
until it has written its identity, with `LiveEdits` code is unpacked over a
machine that is running it.  With `LiveEdits` a shard is labelled with code that did
not make it, since the hash is of the files on the disk and nothing anywhere says what
a process has imported; no property can ask for more, and the models do not record which
code made a payload.  The temporary names of two sessions that write one
file at once are not told apart.

**`ShardLedger`** is what both shard protocols promise: shards are sealed once, a
corpus handed to a reader is a snapshot of them (of none, where a run has nothing to
compress), and only a loss (`Lose`, the image of a fault of the Drive) may unseal one.  `LedgerSpec` of `TeacherGeneration`
and of `V4Compression` are the refinements; a shard counts as sealed while its
payload and its sidecar agree.

**`V4Compression`** has the same shape over a source that may be another finished
run at each launch.  A shard whose binding differs from the running configuration,
code or source is an error, not a gap; the merge reads every shard again without
validating it; corpus, seal and summary are three writes.  A record is its id,
and what selection asks of it (finished, too long, over budget) is a set.

**`TeacherCorpus`.**  A completion is a sequence of parts: markers of thinking,
thinking, an answer.  Commands write their files one by one (`at`, `work`), run
one at a time and may be killed in between; each may be repeated in any order.
`route` says whether the run was affected by the reasoning leak, the one reason
for which the code has two ways from shards to a corpus.  `pinned` are the digests
that `distilled_salvage.py` expects; they are set when the archive is released.
Assumption: on the direct route a teacher that stopped by itself has closed its
thinking; nothing checks it (observation below).

**`SemanticContracts`.**  Code is what a run of it does (ends, times out, exits 0
early).  A contract has the assertions in its text and those a run reaches, which
differ when they stand in functions nobody calls.  The census goes through the
corpus record by record, and writes its files into a new directory at its end.

### Data and training

**`DataPipeline`** is operators: content filter, length filter, deduplication by
content and by upstream key, contamination, groups of linked prompts, split.
Texts are normalised and stand for their hashes; the seeded shuffle is any
permutation given per seed.

**`AdapterTraining`** extends it.  `files` is the data set directory, into which
finalizers write six files one by one; `pc`, `job` and the fields of `outputs` are
the trainings and their directories.  `ClaimOutput` is the `mkdir` that only one
process can win.  The plan that the report names is resolved apart from the
trainer's; the splits are read after the preflight has hashed them; so a data set
that is written under a training is the one exception of `TrainedAsNamed`, and
`stale` is the history that says so.  Import receipts are left out.

**`LossPreflight`** keeps of a rendered chat, for each token, the turn and the parts
of it that the token spells, which is what masks, spans and the joined header
are about.  The two modes (assistant-only loss, completion-only) are two ways of
selecting.

**`PythonCorpus`.**  A build is a function of a world (rows of the streamed
datasets) and a checkout; the control that matters is quota, early stop, fill by
the primary source, and two stages of duplicates.  Both loops, over the rows of a
source and over the sources, are recursive functions of how many were done.  Builders
then write six files one by one; anybody may change the checkout.  `CorpusIsExact`
states the quotas of the records that the manifest lists, and the rest of what is
read.  The quotas of what is read itself may be exceeded: a training
compares contents, and a content need not tell the source it is from, so that
the `train.jsonl` of one freeze beside the manifest of another passes with the same texts
under other sources; the attempt to prove more showed it.

**`AdapterLifecycle`.**  A tree of modules depends on revision and installed library;
PEFT matches by the last part of a name.  The output directory is a record of
which training each file is of, as files may be copied in.  P7-007 loads once,
and each of PEFT's switches may stick; the code's checks and the four rounds of
answers are what is left to see it.

**`AdapterPromotion`.**  `history` is the repository, a sequence of commits each
with its tree and parent; the other variables are, per run, its output directory
and the locals of `promote`.  `EnsureRepo`, `ListFiles` and `ReadInfo` are the
separate requests of `prepare_repo`; `Inspect` downloads at the parent it
remembers; `Commit` is refused when the parent is no longer the head;
`CommitUnanswered` is a request whose answer, or which itself, was lost.
`blind` marks a commit made after an empty listing.  The Hub is external.

### Evaluation

**`ExecutionHarness`.**  `HarnessStep` is `run()` of either backend, statement
by statement from `Popen` to the result; `ReaderStep` is the capture thread,
whose read of `Chunk` bytes is filled from the pipe byte by byte and delivered
whole; `Write`, `Fork`, `Close`, `Exit`, `ContainerStarts` and `ContainerEnds` are the
candidate and the engine.  `CloseStream` waits for a read in progress: the lock
of Python's `BufferedReader`.

**`SuiteEvaluation`** sees of the harness what `run()` promises: an exit code, a
captured part of stderr, or an exception.  The runner is a sequence of steps,
some announced by a line; the candidate writes on the same stderr, may swallow a
line, exit, or never end.  `fate` is what happened, `last` the verdict.  The
decision at the end has the gates of `promotion.py`.

**`PythonBaseline`.**  `Start(cmd)` begins one of the three commands, whose steps
are shared where they share code; `job.code` is the commit whose code was
imported.  `ChangeTree` edits, commits or checks out; `Crash` may leave the last
line of a checkpoint half written (`torn`) or without its newline (`bare`).  One
command runs at a time, as the workflow's concurrency group makes sure
(`.github/workflows/python-base-baseline.yml:9-11`).  `--verify-only`
changes nothing and is left out.

**`StudyEvaluation`** is the five studies, which share their structure in the code
(they copy it) and differ in what is pinned, sealed and selected.  `study` is
chosen in the initial state.  One generation runs at a time: the workflows share a
concurrency group and `docs/P9_007_LOCAL_GPU_RUNBOOK.md` is sequential; the code
does not enforce it.  The scoring runs beside it.

**`ControlAudits`, `TeacherSuperiority`** have one action per command of the audits,
with what each reads: the host, the tree, the adapter files, a directory copied
file by file.  A deviation of a host is the set of items it would answer or judge
otherwise, so that a certificate can be compared with what it certifies.  FTR-103 gives
a path that is declared the heir of another the contract of that other path
(`python_ftr_generation_evaluation_parity.py:612`) and does not ask whether it has code of
its own for it; so a certificate says nothing of the code of such a path, and
`CertificatesExcludeDrift` excepts it.  The one heir of this commit,
`RankCandidateGenerator`, has a constructor only.

**`RegressionComparison`** has any number of processes of the three commands of
P8-002 on one directory, each taking its files one by one: settings and commit are looked
up one after the other (`Context`, `Preflight`), the answers are compared with the stage's
and read again for the comparison, the digests are taken file by file, and `verify` hashes
the comparison and then reads it anew.  `code` is what a process has imported, and scores.
`Stop` may end a process at any point, `Tear` within the write of a file.
**`PairedOutcomes`** has one command for each of three
conclusions; the exact p-value is computed with integers.  The code searches for the least
net gain without a bound; `MinimumNet` searches up to 16 tasks, enough for 3276 comparisons at
the level of 1/20 (the repository makes a handful).

### Verifiable RL

**`TokenLedger` and `TrajectoryAlignment`.**  `ledger` and `file` are the object
and its JSON; `said` is the conversation as it happened, with who said each
token.  `RecordOutput`, `AppendPrompt` and `AdoptPrompt` are the three methods;
their errors leave the ledger as it was.  `AdoptPrompt` is tried with the true
history, with one token rendered otherwise and with one lost; `Damage` changes one
field of the file.  `Alignment` is `_derive_alignment`, computed in every state of
the ledger; `Aligned` and `AuditAccepts` are the code's own checks, which must never
refuse.

**`ToolContract`.**  A text is a sequence of characters with their widths in UTF-8, a
path the names between its slashes, a JSON object a function.  `Leads` is where a path
ends up, name by name, with ".." going back: what `IsInside` is held against.  `call` keeps the
offer it was parsed from, `result` all that the tool printed.

**`EnvironmentAdmission`.**  Manifests, reports and audits are immutable, so the state
is the sets of those ever made; an operation that raises is no step.  The inventory
of reserved tasks is kept by the caller, as in the code.  An assessment of
provenance takes the types of author and oracle from the manifest; families and the producer
of the reference are whatever the caller says (`Assessments`), and nothing binds them to the
manifest, so no property relies on them.  Which few-shot examples and protected
sets an audit sees is up to its caller too; the next-state relation
offers every subset of the protected examples, of which `Audit` accepts those that cover every
benchmark, and always passes all few-shots.

## What the runs check

Times are with two workers.

| run | question | bounds |
|---|---|---|
| `compression` (¼ min) | One session at a time on a directory of compressed shards: what is merged binds record by record to its source and its accounting balances (`MergedIsBound`), the directory implements `ShardLedger` (`CompressionLedger`), and a restarted compression delivers (`EventuallyDelivered`) | two configurations, two codes, three sources of five, two and two records, one of them with nothing to compress, three rewrites, shards of two, one fault, one crash |
| `corpus` (1¼ min) | Readers beside a generator: the protocol keeps its types (`TypeOK`), a load is bound to one run and answers its records (`CorpusIsBound`), is a snapshot (`LedgerSpec`), corruption stops everybody (`CorruptionIsNotOverwritten`).  No file for the student holds the teacher's instruction, thinking or half an answer (`StudentSeesTheTaskOnly`).  The census by contracts (`CensusIsSound`) | two sessions, two codes, two inputs, two answers, a limit that cuts the second shard, one fault, one crash; three tasks, five completions, two runs, one kill; three corpora of four records, six contracts, one kill |
| `relabel` (violation) | Is a corpus bound when two configurations start on one directory? | one record, two configurations |
| `training` (1½ min) | Splits leak nothing and the counters of their summary account for every record (`SplitIsSound`), a session trains on what is named (`TrainedAsNamed`), a directory is of one process (`DirectoryIsOneRun`), reports are true (`ReportIsTrue`).  An adapter lands where it was trained (`LandsWhereTrained`), P7-007 reports about it (`ReportIsOfTheAdapter`).  The P0 corpus is the whole of one composition (`CorpusIsExact`) | two finalizations of six corpora, two sessions, two directories; two libraries, two revisions, three training jobs, two profiles, one upgrade, two files copied in, one prompt; two sources of two records, 16 worlds, two builders, one checkout |
| `studies` (1 min) | Studies: `OnlyTheNamedAdapterAnswers`, `ScoreIsTrue`, `SelectionIsOneTraining`, `VerifiedEvidenceStays`.  Certificates leave no deviation (`CertificatesExcludeDrift`), P8-002 compares truly (`ComparisonIsTrue`), conclusions follow from outcomes (`ConclusionsAreSound`) | two commands of each kind, one checkout in sealed studies and none in development studies; below |
| `curricula` (2¼ min) | Exchanges and tool calls survive (`ExchangeSurvives`), the loss is on the policy's tokens and on the answers (`TrainingSignalIsSound`), admitted environments work (`AdmittedEnvironmentsWork`), roles are disjoint (`RolesAreDisjoint`) | two tokens, three turns, one damage; 24 templates, 5 conversations; 9 texts, 12 paths; two environments of 3 kinds, 3 targets, 3 producers |
| `scoring` (2 min) | The harness: complete and true results, and no container left but one that comes up after its removal (`ResultIsTrue`), an end unless a stream is held (`RunEndsUnlessHeld`).  Suites: `VerdictIsTrue`, `PromotionIsEarned`.  The comparison of the teacher: a decision is about the teacher (`DecisionIsAboutTheTeacher`) | a leader and a child, pipes of 2, reads of 2, limit 3, 5 bytes per stream, one read error; 1, 2 and 1 problems, two tests, two regression cases; the teacher as below |
| `harness_held_pipe` (violation) | Does a run end whatever the candidate does? | the same with one byte |
| `baseline` (1¼ min) | What is frozen is one run (`FrozenIsOneRun`) and stays (`FrozenIsFinal`); reruns end (`EventuallyFrozen`) | two suites of two and one items, three commits of two contracts, one change of the tree, one harness error, one kill |
| `baseline_checkout` (violation) | Does a frozen baseline name the commit that ran? | two commits, one change |
| `promotion` (½ min) | Deletion after verification, true reports, no foreign archive replaced, and an end: `CheckpointsOutliveVerification`, `ReportIsTrue`, `ListedRepoKeepsItsAdapter`, `EventuallyReported` | two runs of two adapters with different files, one edit by others, one fault, one kill |
| `promotion_race` (violation) | Does a concurrent update always make a promotion fail? | two runs, nothing else |

Bounds of the audits: *control audits*: two items, four hosts, two
commits, two changes, two generations; *teacher*: seven tasks, four trees, four
skills, three baselines, two sessions, four copied files, one damage, two scorings;
*regressions*: two cases, two commits, two
processes, two generations, one scoring, one verification, one checkout; *outcomes*: ten tasks at 1/20 with one and
four comparisons, three cases per language, up to three runs of two tasks, three and
two rows of forensics.  The gates of `TeacherCorpus` are 90 and 80 percent, the
student's window 12, its reserve 2, an answer's ceiling 6; the gain of a promotion is
20 percent.

**Why the bounds are enough.**  The hazards are about orders of a few steps: one
crash between two writes, one other party between a check and an act, one fault, one
file of another run.  Of the two versions of the teacher's input one has four records,
which the limit of three cuts short, and one three; they share their first two and
differ in the third.  Shards of two give a full and a short one.  `corpus` has
one configuration: what a second one does to a directory is the question of `relabel`, and
the theorems are about any number of them.  Five records to compress, of which three are selected, give the same two
kinds of shards.  A limit of 3 with reads of 2 falls inside a chunk, and 5 bytes
overfill both pipe and buffer.  Two processes are what a race for a directory or a
repository needs; a second fault or crash repeats a situation already reached, as
every restarted process begins from the durable state alone.  Three turns make the
cursors of the alignment accumulate twice.  `h1` and `h2` ask for one contract and
`h3` for another, so a checkpoint of an earlier commit can be reusable or not.  The
five trainings of the studies agree in some steps and differ in others, and one has a
report that is not of its files.  Ten tasks let one comparison find a difference
where four do not.

The quantities that only thresholds see (percentages, tokens, gains) are scaled so
that the values just below, at and above each threshold occur.

Symmetry is used in `corpus` (sessions, answers, versions of the code), `training` (sessions) and
`curricula` (the two environments).  No definition compares them with anything but
each other, the properties of those runs are invariants or action properties, and the
refinement mapping of `LedgerSpec` treats them alike.

`CHECK_DEADLOCK FALSE` is set where the system really stops: promotions and
executions that end, and the parts whose launches, copies or builds are bounded, when
the bound is used up.

Every run reaches its interesting cases: each property has a mutant of a mapped
definition (a dropped guard, an off-by-one, a missing reset, a swapped order)
that TLC finds violated under the run's own configuration; properties that several
parts share have one for each part.

The liveness of a shard protocol is stated once, for the compression: generation has
the same loop, the same restarts and fewer checks.

### Fairness

* *Compression*: `WF` of a session's steps, because nothing in it blocks; `SF` of
  `Teach`, because the backend may raise on any completion and progress rests on it
  not doing so for ever; `SF` of starting each compression, because the operator
  restarts a preempted one, which is the point of resumable shards.  Delivery is
  promised once source and configurations settle.
* *Promotion*: `WF` of a promotion's steps and of starting it while it has no
  report.  Failed downloads, lost answers, kills and edits are bounded, so none
  happens for ever.
* *Harness*: `WF` of `run()` and of the two threads.  Nothing is asked of the
  candidate, the engine or the container.
* *Baseline*: `WF` of the running command and of cleaning the tree, `SF` of
  starting the one-command run, since other commands may take its place in
  between.

Everything else is safety: commands that run to their end or are killed, with nothing
that has to happen.  In a run with halves only the half that has a liveness property
is fair.

### Disagreements of code and documents

Four runs are expected to find a violation; each states a sentence of the
repository, and `PROJECT.json` "findings" quotes it.

1. `relabel`: the run identity is checked and then written without a lock, and a
   load reads a shard twice.  Two generations with different configurations can
   both claim an empty directory, and a loaded corpus need not bind to its
   configuration (`distillation/generation.py:629-630` says it must).
2. `promotion_race`: the files are listed before the head is read.  A commit
   between the two requests becomes the parent unseen
   (`docs/HUGGINGFACE_PROMOTION.md:97-99`).  What does hold,
   `ListedRepoKeepsItsAdapter`, is checked and proved.
3. `harness_held_pipe`: a background process that keeps `stdout` open keeps the
   run from ending (`evaluation/execution.py:659-660`).  What does hold is
   `RunEndsUnlessHeld`.
4. `baseline_checkout`: a checkout during the one-command run puts a commit in
   the manifest whose code never ran (`docs/P6_005_BASELINE.md:49-50`).

### Observations

Kept in the models as the code has them; no run is made for each.

*Teacher side.*
* A status command may claim an identity beside a generation.
* `scripts/teacher_distillation/README.md:72` says that checkpoints keep only a
  bounded digest of the reasoning; a completion that was cut off before any marker
  is stored whole as `final_response` (`generation.py:390-410`,
  `vllm_backend.py:128-130`).  Finalization refuses it later.
* Nothing checks that a teacher that stopped by itself closed its thinking.
* The splitter of the compression leaves a second closing marker in an answer; only
  the finalization refuses it.  The v2 and v3 policies lose trailing whitespace of a
  system message, and a blank one makes stripping raise for the whole corpus.
* A change of the salvage's code makes a rerun fail at its summary.
* `docs/TODO.md:956-957` asks for at least eight deterministic executable assertions
  that the reference passes.  `semantic_contracts.py:362-371` counts `assert` nodes
  anywhere, in functions nobody calls too, and `_execute` (413-428) looks at the exit
  code alone: a candidate that exits 0 before the tests is accepted.
* A crash in the census' write leaves a directory that every rerun refuses; the
  contract input is hashed by a second read.

*Data and training.*
* The P0 path never checks contamination: the manifest records
  `contamination=not_run` by default; the manifest's commit is read after the build;
  nobody checks its digests of the accepted records and of the composition.
* A data set rewritten under a training, or between the two plans of a full training, is
  trained on unnoticed.
* The loss preflight looks at its probe; on the TRL route tokens joined at the header
  are trained without a check of the boundary.
* A report of P7-007 names a run only through the manifests, so weights of a rerun of
  the same configuration pass; hash and load are not one step;
  `adapter_changed_output` is recorded, not required.
  `require_adapter_compatible`, `require_profile_matches_discovery` and
  `require_measured_trainable_parameters` have no caller in the repository's `src`
  package.
* A kill between the deletion of checkpoints and the report leaves a run whose
  promotion cannot be repeated (part of `Stuck`).

*Evaluation.*
* Background processes of a leader that has exited are not killed.
* An exception message with outer whitespace makes `EvaluationResult` raise and ends
  a suite.  A candidate that hides a marker is a runtime miss in HumanEval and a
  harness error in MBPP and the holdout.  `True == 1` in the comparison of JSON.
* The baseline's scoring stage removes the GPU answers before the freeze that may
  still refuse (`docs/P6_005_BASELINE.md:76` has the other order); a torn checkpoint
  line stops every rerun (`Wedged`).
* No score of a study names a training: two generations at once, which the runbook
  excludes, could mix two trainings in a selection.  A second generation of the rank
  sweep may rewrite metadata and stage after a verification.
* FTR-102 keeps its checkpoints under the contract of the base, which names neither
  adapter nor commit; FTR-101 does not compare the regression suite; the parity audit
  does not look whether an heir overrides `generate`.
* The comparison of FTR-203 checks no identity of its two directories; the audit pins
  the gate's primary minimums and neither its p-value nor the floors of suites.
* Answers of P8-002 may be resumed at another commit with the same contract; its stage
  names the last commit only.  Settings and commit are looked up one after the other, so a
  checkout between the two pairs the contract of one commit with the name of another.
* P8-003 calls its format "code-only", but its patterns find code within prose.

*Verifiable RL.*
* `tool_contract.py:247`: the path `"."` makes `parsed.parts[0]` raise `IndexError`, and
  a lone surrogate in the content of a write `UnicodeEncodeError`, where a
  `LeafLiteContractError` is meant.
* The role of an environment is bound to its evidence by the contamination report
  alone.
* Families and reference producer of an assessment are what its caller says.
* `glob` looks at the spelling of its pattern (`tool_contract.py:240-252`, `parts[0]`), so a
  wildcard there may match the name of what the grader keeps; names are literal in
  the model.

## What is proved

`tlapm` checks every theorem below, for all values of the constants that satisfy
the `ASSUME`s of their modules: what shapes the parameters have (`ShapeAssumption`,
`BoundsAssumption`, `PromotionAssumption`, `PipelineAssumption`, `TrainingAssumption`,
`BaselineAssumption`, `StudyAssumption`, `AdmissionAssumption`, `HarnessAssumption`,
`SuiteAssumption`, `TeacherAssumption`, `RepairAssumption`, `CensusAssumption`,
`AdaptersAssumption`, `MaskAssumption`, `CompositionAssumption`) and
that "nothing" and "unreadable" are not contents (`SentinelAssumption`,
`ContentsAssumption`).  `StudyAssumption` says of the candidates that within a study a
step and a label, or a step and a rate, name one, as the configurations do.  TLC
evaluates all of them on the instances of the runs.  How a directory is used is no
`ASSUME` but a hypothesis of the theorem that needs it, named with it below.

**`TeacherGenerationProofs`**

* `TypeCorrect`: `Spec => []TypeOK`.  `TypeOK` alone is not inductive: that a
  session's shard index is in bounds depends on the records it has read and on
  where it is.  `TypeInv` adds `Prepared(s)`: after reading, the records are a
  non-empty sequence within `MaxRecords`; after hashing there is an input hash;
  while scanning `k <= Total`, while working on a shard `k < Total`; a shard in
  flight has a payload.
* `LoadMatchesSource`: `Spec => []CorpusRowsMatchSource` (a part of `CorpusIsBound`),
  with any number of writers, faults and live edits.  `RowsInv` adds that a load that
  has parsed `k` shards has collected exactly the rows of the first `k` slices of its
  records.  The step that matters is `Parse`, which takes what is on the Drive
  *now*: only the comparison of each row after the second read keeps the
  invariant.
* `CorruptionStops` (`CorruptionIsNotOverwritten`, an action property) and
  `GenerationImplementsLedger` (`LedgerSpec`), if `SoleWriter`.  `WriterInv`: at most one
  session is between claim and confirmation, and where it stands determines what it may
  find in the shard it works on; `Snapshot(s)`: unless something was lost, the shards a load
  has parsed are sealed with exactly the rows it holds.  Every action of the protocol then
  maps to `Seal`, `Publish`, `Lose` or a stutter (`StepKinds`), the moment of sealing being
  the copy of the sidecar.
* `LoadedCorpusIsBound` (`CorpusIsBound`), if `SoleWriter` and not `LiveEdits`.  `BoundInv`:
  beyond the claim every session is of the identity of the directory (`Alone`), every payload
  is of one run of that identity (`PayloadsBound`), and so is what a load has gathered
  (`SessionBound`).  Without `SoleWriter` it is false, which is what run `relabel` shows.
* `StudentsSeeTheTaskOnly` (`StudentSeesTheTaskOnly`), for any tasks, policies and
  completions.  `RepairInv` follows an answer through the files: a run of the affected
  backend stores what was thought, but only behind an answer that does not open with a
  marker (`TaughtRow`); the salvage cuts it off behind the first closing marker, which
  `AfterIsThoughtless` shows to be enough; its four files are of one run whatever was
  killed (`SalvageIsOne`); what is merged, finalized or archived may be learned from, and
  comes from that salvage (`Learnable`, `MayBeLearned`, `MayBeImported`).  `RepairAssumption`
  says what thinking is, that it precedes the first closing marker, and that a rewritten
  answer which ended has closed it: that one nothing checks.
* `SealedCensusesAreSound` (`CensusIsSound`).  `CensusInv`: the results so far are deserved
  verdicts on the first records of a frozen corpus (`GradedTo`), the record at hand has come
  as far as its stage (`AtHand`), and the files written so far are of these
  (`WrittenSoFar`), so an abort leaves no seal and a seal leaves no gap.

**`V4CompressionProofs`**

* `TypeCorrect`, for any number of sessions; selection and slices are recursive functions, and
  `Loop`, `UpTo` and the lemmas about them show that they exist and what they return.
* `CompressionImplementsLedger` (`CompressionLedger`), with no hypothesis: `Launch` starts one
  compression at a time, as its operator does, so the shard that a session makes stays
  unsealed until that session seals it (`WriterInv`), and a merge holds what was sealed
  (`Snapshot`), whatever code and source are replaced by meanwhile.
* `MergeIsBound` (`MergedIsBound`), if `LiveEdits = FALSE`: neither code nor source is
  replaced under a session.  `SoundInv`: what a session loaded is its source (`Loaded`), every
  readable payload a session has inspected fits its source, configuration and code (`Fits`,
  `Checked`), and what a merge has gathered is the rewriting of the first shards
  (`Gathered`).  The balance of the summary is a count of indices: selected and kept ones
  partition the records, and a merge that ended has one row for each.

**`AdapterPromotionProofs`**, from one inductive invariant `Inv`

* `TypeCorrect`, `NoCheckpointIsLost` (`CheckpointsOutliveVerification`),
  `ReportsAreTrue` (`ReportIsTrue`), `AdaptersAreKept`
  (`ListedRepoKeepsItsAdapter`), for any number of runs, names, edits, faults
  and kills.
* `Inv` = the types of hub, disk and memory; `RunInv(r)`, what a promotion knows
  at each point (the parent it remembers is a commit; once it inspected a
  non-empty listing, the manifest at that parent is of its adapter; from `clean`
  on, the revision it remembers holds its archive; missing checkpoints imply
  some commit that does); and `KeepsAdapter(i)` for every commit.
* The argument: the history only grows, by a commit on top of its head
  (`HistoryStepExtends`), so whatever is known of a commit stays known
  (`CommitsStay`, `RunFrame`): edits by others and other promotions cannot
  disturb a run.  There remain one lemma per action of the run itself.

**`AdapterTrainingProofs`**, from one inductive invariant `TrainingInv`

* `OneRunPerDirectory` (`DirectoryIsOneRun`), `TrainedOnItsDataset` (`TrainedAsNamed`),
  `ReportsAreTrue` (`ReportIsTrue`), for any corpora, jobs, sessions, directories and
  finalizations.
* `TrainingInv` = the shape of files and outputs; per session, that the directory it
  writes names it (`Owns`), that what it is going to read is of its plan unless it is
  stale (`WillRead`), and that its two plans agree (`Agrees`); per directory, that its
  artifacts, training record and report are of its one owner.
* The argument: only `ClaimOutput` gives a directory an owner, and only when it has
  none, so no step of one session touches the directory of another; and a finalizer's
  write makes every session between its plan and its last read stale.
* `SplitsAreSound` (`SplitIsSound`), for corpora of any length: `MadeInv` says that whatever
  a finalizer has made, and whatever it has written of it, is `Separates`: no prompt on both
  sides, each distinct usable record once, nothing of a benchmark, neither side empty, and
  counters that account for every record (`SummaryBalances`: each stage of the pipeline
  divides what it gets into what it keeps and what it rejects, `StageAddsUp`).  The rest is about the operators of `DataPipeline`, hence about
  sequences of any length: `OnlyProperties` (a filter keeps order, members and nothing else),
  `FlattenProperties`, `UniqueProperties` (first occurrences), `GroupProperties` (groups
  partition the prompts), `PartProperties` and `SplitProperties`.
* Induction is proved and not assumed: the strict order of finite sets is well founded
  (`FS_StrictSubsetOrderingWellFounded`), which gives least elements (`Least`) and induction
  over an initial segment of the naturals for a property written as a set (`NatInd`,
  `UpToInd`).  With it `Recursion` shows that a recursively defined function exists, so that
  its equation may be used.
* `AdaptersLandWhereTrained` (`LandsWhereTrained`) and `ReportsAreOfTheAdapter`
  (`ReportIsOfTheAdapter`), from `LifecycleInv`, for any libraries, revisions, module trees,
  jobs and copied files.  `TrainedAsDeclared` is what a training knows of the modules it
  attached to; `RoundsSoFar` what each round of P7-007 has seen, given the state of PEFT's
  switches that was checked before it: a drift of the base would show in the round
  without the adapter, which must be the round of the untouched base.  `AdaptersAssumption`:
  a configuration, whose hash is compared, is of one revision; ranks are positive.
* Both sides of the compatibility check are rank times a sum of sizes; that they agree
  means that the sums do (`AddedByRank`).  The sum is a fold of the community modules, a
  function chosen by its recursive equation: `SumsExist` shows by induction over the number of
  elements that one exists over the subsets of a finite set.
* `CorpusIsWhole` (`CorpusIsExact`), for any number of sources, streams of any length, quotas,
  validators, shuffle and fraction, and any number of builds, freezes, crashes and checkouts.
  `CompositionInv` says that every result in memory is a `SoundResult` of the streams, and that
  every file on its way or on disk is of a sound composition (`SoundFile`).  That the files on
  disk are of one and the same is not in it, as it does not hold: it follows from what a
  training compares (`UsableIsWhole`), up to the sources of the records.
* What a composition is comes from two loops.  `Streamed` is the invariant over the rows of a
  source: what is taken is new, valid and within the request, and while a place is free
  whatever could be taken has been, here or earlier.  `Composed` is the one over the sources:
  what was taken and what is still owed are together the quotas so far, also where a source owes
  to the one that fills (`ComposeStep`).  Sums are compared by counting places, pairs
  of a source and a number below its quota (`PlacesOf`, `GoalsAddUp`).  A freeze then
  neither loses nor adds a content (`FrozenIsSound`, `SplitsAreWhole`), by the lemmas on
  `DataPipeline` above.  `CompositionAssumption` says that no source is configured twice, quotas
  are natural numbers, the shuffle permutes and every source streams rows.

**`PythonBaselineProofs`**, from one inductive invariant `BaselineInv`

* `FrozenBaselinesAreOneRun` (`FrozenIsOneRun`) and `FrozenBaselinesAreFinal`
  (`FrozenIsFinal`, an action property), for any suites, commits, answers and any number
  of kills, checkouts and harness errors.
* `BaselineInv` = `Shape`; `Progress`, what a command has answered, scored and measured at
  each point; `Stages`, that a stage manifest that binds (`Binding`) stands beside a true
  provenance and that none binds while a command cleans or freezes; and `Frozen`, that
  beside a manifest no command is past its first checks except to clean, no stage binds,
  and the files are those the manifest has the digests of.
* The argument for `FrozenIsFinal`: from an idle directory with a manifest every way in is
  closed, "run" and "generate" by the manifest itself and "score" because the freeze
  left no stage that binds.  `Touched` is the lemma that any write beneath a stage
  manifest breaks it.  `FrozenIsOneRun` itself is not inductive: that both files of a suite
  are one scoring is known of the files, suite by suite, long before there is a manifest
  (`Scored`, `Measured`), and a resumed command relies on none of it.
* `BaselineInv` was checked by TLC on the instance of run `baseline` before it was proved.

**`StudyConclusionsProofs`**, from one inductive invariant `StudyInv`

* `OnlyTheNamedAdapter` (`OnlyTheNamedAdapterAnswers`), `ScoresAreTrue` (`ScoreIsTrue`),
  `VerifiedEvidenceIsKept` (`VerifiedEvidenceStays`, an action property) and
  `SelectionOfOneTraining` (`SelectionIsOneTraining`), for any candidates, trainings, tasks
  and commits, and any number of stops.
* `StudyInv` = the two invariants; `Generating`, that the training output a generation was
  given has, for every candidate it has still to answer, the weights that it names, that
  the active adapter is that snapshot while it answers, and that no P0 candidate in work
  has a stage; `Counting`, that a scoring past its answers has counted what the adapter of
  its contract solves; and `Verified`, that a verified candidate has all its answers.
* The argument: the five ways of accepting a training output have one thing in common
  (`AcceptedNames`), and a directory is opened only if all its answers are under the
  contract of the one to come; so the first answer of a directory decides on all.  A
  verified candidate has a score and thus all its answers, and `Answer` only adds where
  some are missing; of P0 it has a stage, and what is in work has none.
* The selection needs more, and none of it is in a file.  `TracedInv`: a generation goes
  through a trajectory in the order of its steps, with one training output that names them
  all, so where a candidate has a stage, every directory of its trajectory up to its step is
  finished under that one training (`OfOneTraining`), and no later command changes a
  finished directory.  `ScoredInv`: what is or was scored had such a stage.  A selection is
  made when all candidates are scored, so the last candidate of each trajectory speaks for
  all of it (`LastOfTrajectory`, `SoundSelection`); that a best candidate exists and is the
  earliest of its equals is the lexicographic order on a finite set (`BestExists`).
  `TracedInv` was checked by TLC on the instance of run `studies` before it was proved.
* `CertificatesMeanNoDrift` (`CertificatesExcludeDrift`), for any tasks, hosts, deviations,
  commits and paths, and however often a host, a tree or the adapter is changed between or
  under the commands.  `StudyConclusions` has `ControlAudits` under the name `FTR`;
  `AuditAssumption` says that there is a contract to expect, and that the coding suites are
  among the suites.  `AuditInv` = `ControlIsZero`, that whoever answers has counted the loaded
  parameters itself; and `ReportsAreTrue`, what each of the three reports shows of the rows
  and the commit it looked at.  The control is compared with the rerun, not with the frozen
  baseline; that both reports together lead back to the baseline holds because the rerun of
  a tree is written once.
* `VerifiedComparisonsAreTrue` (`ComparisonIsTrue`), for any suite, commits, number of
  processes, and however they overlap, are killed or meet another checkout, with P8-002
  under the name `P8`; `RegressionAssumption` is the suite's own check that no case is there
  twice.  Little is known of files that processes rewrite under each other, and
  answers are only ever appended.  So `EvidenceInv` says of a manifest, on disk or in the memory
  of a process, that the answers it names answer every case and are what the file begins with
  (`Vouched`): whoever has made a comparison has seen an answer to every case, and none is taken
  back.  With it, a file that can be loaded has exactly one row for each case
  (`AnswersCover`), so the answers from which `verify` recomputes the comparison are those that
  the manifest names, though it reads them long after it hashed them.  The totals add up because the difference of two
  counts is what was gained less what was lost (`TransitionsAddUp`).
* `ConclusionsFollow` (`ConclusionsAreSound`), for any responses, tasks, runs and rows, with
  `PairedOutcomes` under the name `Outcomes`.  `OutcomesAssumption` says that a response is a
  response, that the tasks are finite, that the significance level is below one half (the
  code's is 1/20), and that a net gain of 16 tasks is below it for every number of comparisons
  asked for.  The invariant, `ReportsAreOfMeasures`, is that each report is that of some
  measurement; all the work is in what a report is.
* The sign test: `asGood` counts sets of tasks and the code adds binomial coefficients, so the
  two have to be shown equal (`TailIs`).  The number of k-subsets of a finite set follows
  Pascal's rule, the community module's `Choose` is a quotient of factorials, and an induction
  gives `n! = k! (n-k)!` times the number of k-subsets.  That the minimum of net tasks never
  decides against the test: among the subsets of the discordant tasks at least one in 2^net is
  as good as what was seen (`ShareOfNet`, by induction over the net: for a net of one, of a
  set and its complement one is as good), so a significant result has a net of at least the
  minimum (`StrongIs`); `FloorHolds` follows.  One more task solved adds an
  improvement or takes a regression away (`OneMoreSolved`): the first at most doubles the sets
  as good and doubles all, the second at most leaves the share as it was.
* `VerdictsAreFair`: three cases a language, and a language is lost only below one half.
  `RunsAreCounted`: the runs are equal if no neighbours differ, and a difference of two scores
  is bounded by the flips between them.  `MatrixIsExact`: identities are unique among the rows
  (`Comparable`), so counting rows is counting tasks, in whatever order they come.

**`CandidateScoringProofs`**, from the inductive invariants `HarnessInv`, `SuiteInv` and
`TeacherInv`

* `ResultsAreTrue` (`ResultIsTrue`), for pipes, reads and limits of any size, any number
  of background processes and faults.
* `HarnessInv` = `Counted`, that every byte written is in the pipe, in the read in
  progress, or was drained, and that the buffer has what was drained up to the limit;
  `Holders`, that only running processes hold a stream; `Drainers`, that a thread that is
  done has seen the end; `Control`, where leader and threads are at each point of `run()`.
* The argument: the end of a stream is final, since a process only gets a stream from one
  that holds it (`DoneIsOver`), so when a thread is done, what it drained is all that will
  ever be written.  That the leader is over is another fact, since it may close its
  streams and go on: nothing is collected before it was reaped or killed.
* `VerdictsAreTrue` (`VerdictIsTrue`) and `PromotionsAreEarned` (`PromotionIsEarned`), for
  suites of any size, any number of tests, any baseline and gain, and whatever a candidate
  does to its process and to the lines of its runner.  `CandidateScoring` puts
  `SuiteEvaluation` beside the harness under the name `S`, and `TeacherSuperiority` under the
  name `T`; `SuiteAssumption` says what the frozen protocol fixes: the three suites, finite,
  and counts that are numbers.
* `SuiteInv` = `ScoresShape`; `Runs`, that a runner is at one of its steps and that a line
  captured is of a step already done and announced; `Counts`, suite by suite, that no more
  passes are counted than programs passed and no fewer harness errors than runs were spoilt;
  `Promoted`; and `VerdictIsTrue` itself.
* The argument for verdicts: what the runner's sequence of steps is (`RunnerSteps`: a prelude
  without tests, then one step for each test), hence that the tests whose lines were captured
  are among those done, and all of them when no line is hidden (`TestsCounted`); and that the
  exit code of a step determines the category, whatever was captured (`ExitIsBlamed`).  Every
  way a process ends then gives a verdict that is `Truthful` of its fate, and `JudgeKeeps`
  is the one lemma about putting it down.  For promotions: the gates speak of the counted
  passes, `Counts` bounds them by the real ones, and the gain is rounded up, never down
  (`GainRoundedUp`).
* `DecisionsAreAboutTheTeacher` (`DecisionIsAboutTheTeacher`), for any tasks, trees, sessions,
  copies, damages and baselines.  `TeacherAssumption` is the gate as it is committed: no loss
  allowed in a public suite, against the frozen base's scores.  `TeacherInv` = `Generated`,
  that the answers of a directory on the Drive are a prefix of those of its commit
  (`Begun`), complete once a session is past them, and that a stage `Binds` a complete
  generation of the commit it names; that binding carried along by every copy (`Bound`); and
  `Judged`, that what is compared is the teacher's complete generation and its true passes.
* The argument: nothing is asked of the directory that is copied except that a stage in it
  is some stage written on the Drive, so a mixture of files of several commits is caught by
  the comparison of artifacts with the stage alone; and the gate looks at tasks only
  (`GateLooksAtTasks`), so the passes of the answers may stand for what the teacher solves.

**`CurriculaProofs`**, from the inductive invariants `AdmissionInv`, `LedgerInv`, `ToolInv` and
`MaskInv`

* `AdmittedEnvironments` (`AdmittedEnvironmentsWork`) and `DisjointRoles`
  (`RolesAreDisjoint`), for any environments and texts, any relation `Similar` and any order
  in which manifests, reports and audits are made and offered.
* `AdmissionInv` says of each report that it is of a run its environment can have, of each
  clean audit what it ruled out of the inventory it saw, of each manifest that its
  contamination evidence is a clean audit, and of any two audits that one saw all that the
  other saw.  The last is the argument for `DisjointRoles`: the later of two audits had both
  candidates in its inventory, whichever of them it was made for.
* `ExchangesSurvive` (`ExchangeSurvives`), for conversations of any length over any tokens,
  any renderings, saves, losses and damages, and for any texts, paths, contracts and limits
  of the tools.  `TokenAssumption`: prompts, outputs and deltas are not empty, which the
  ledger checks.  `ToolAssumption`: every character has at least one byte, and what is
  offered or printed is made of characters.
* `LedgerInv` says of the ledger in memory, and of the file with no damage or one, what
  `Loads` checks (`IsSound`), that it `Keeps` what was said, and that the loss mask marks
  exactly the policy's tokens.  The argument for one damage goes field by field (`DamageInv`):
  whatever the damaged field, either the chain of prompts breaks and the file is refused, or
  the field is one that no later prompt repeats, which is a token of the last output.
  `AdoptPrompt` appends the tail of a prompt whose beginning is the history, token by token.
* `ToolInv` keeps what was offered, asked for and printed.  `ParsedSurvives`: completed
  arguments are their own completion, tool by tool.  `InsideLeads`: a path whose names are
  those `PurePosixPath` keeps, without "..", leads to itself.  `DecodedBeginning`: decoding a cut
  encoding gives the longest beginning whose bytes fit (`BytesLoop` and `EncodedBytes` relate
  the two recursive definitions), and `TruncatedIs` that the marker fits behind it.
* `SignalIsSound` (`TrainingSignalIsSound`), for ledgers of any length over any tokens, and
  for any chat templates, conversations and plans.  Its first half, `LossAlwaysOnThePolicy`,
  needs no more of the ledger than `LedgerInv`; the work is in what `Alignment` derives from
  it by flattening.  `FlattenPlaces` says where the members of each part lie once flattened;
  `MarksLie`, that between two turns nothing is marked, so that `SelectedIsActions`: the
  tokens selected are the actions, token by token; `TurnsCut` and `SegmentsCut`, that the
  spans of turns and of segments cut the same tokens out of input and actions, one after
  the other.
* Its second half, `LossAlwaysOnTheAnswers`, is from `MaskInv`: a report and the evidence of a
  preflight are of the tokenizer as it is.  `MaskAssumption` says what the code leaves to
  others: no conversation is empty (`loss_masking.py:155`), the probe ends with an answer, and
  a chat template whose markers enclose the end of an answer encloses its content, which is
  what TRL's check of the stop token stands for.  `RenderedIs` and `LastTurnIs`: where the turns
  of a conversation are in its rendering.  `StableOpens` is the argument for the fallback: if
  the prompt is a prefix of one completed conversation, then the header of an answer is a
  token of its own and the thought is opened by both or by neither, which is a fact about the
  template (`OpensAnswers`), and so the prompt is a prefix of every one (`CompletionCovers`).
  `SpansHold`, `SpansApart` and `SpansAddUp`: the spans of any mask.

**Only model-checked**: all liveness (`EventuallyDelivered`, `EventuallyReported`,
`RunEndsUnlessHeld`, `EventuallyFrozen`), which the prover does not reach.

## What is not modelled, and why

* *Pure I/O and external programs*: tokenizers, chat templates, vLLM, PyTorch, PEFT,
  TRL, the container engine, the tools of a policy and the Hub are what the modelled
  code sees of them.
* *Static data and field checks*: languages, YAML configuration, reporting,
  reproducibility, the teacher's configuration.  A validation of one field is a guard
  on constants.
* *Python as data*: which syntax a contract, a parity audit or a quality validator
  accepts is a set of accepted texts; a model would be of Python's grammar.
* *Measurements*: memory preflight, token percentiles of diagnostics and summaries,
  smoke-test timings, percentiles of training lengths.
* *Within modelled parts*: the fields of the baseline's metadata; digests and JSON forms
  of PVRL manifests, and limits on their artifacts; the binding of log-probabilities in the
  alignment; the all-linear report; import receipts; `--verify-only` commands that
  change nothing; P8-003's recomputation at verification, which repeats
  the comparison; texts that cannot be encoded; credential, Drive-mount and GPU guards
  of the notebooks.
* *Files at a finer grain*: temporary names shared by two writers
  (`_baseline_artifacts.py:69` and the P0 builders) are outside the models, which let
  one baseline command run at a time and take a replaced file as one step.
* *Torn lines of checkpoints* are modelled where they are appended for hours
  (`PythonBaseline`); studies and P8-002 have the same code.

Hazards that share a property with a listed one and are not listed apart: the second
read and hash of the input in `generation.py:440`, the counts and the three output files
of a merge in `v4_compression.py:755` and `828`, the prompt digest of cached answers in
`_baseline_runner.py:198`, the regression results written after scoring in
`_baseline_runner.py:543`, the files of an archive handed to the upload in
`huggingface_promotion.py:215`.

## Plan

The order was by how much breaks when it is wrong: durable protocols first, then what
stands between teacher and student, training, scores, studies, audits, and the
derivations of the RL side.  All of it is modelled.  What would add most next:

1. **One state** for the composition of the P0 corpus and the training that reads it, which
   now share no variable, so that what `CorpusIsExact` and `TrainedAsNamed` say of the
   same files becomes one statement.
2. **Liveness** of the studies' resumption, which needs the torn lines of their
   checkpoints as `PythonBaseline` has them.
3. **Finer files**: temporary names shared by two writers.
4. The memory preflight and the import receipt of a training.

Runs stay one per question: parts without shared state share a run, and a module with
several instances keeps only those whose question differs.
