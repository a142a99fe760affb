---- MODULE AdapterTraining ----
(***************************************************************************)
(* distillation/finalize.py, distillation/finalize_records.py and the      *)
(* package training: finalizations write the six files of a prepared       *)
(* dataset, and training sessions on the same machine check the dataset,   *)
(* claim an output directory, train from the files and leave the evidence  *)
(* that is later promoted.  Nothing locks the dataset.                     *)
(*                                                                         *)
(* A training process may end at any of its steps, by a check that raises, *)
(* by a GPU out of memory or by a kill; what it has written stays.  Nothing*)
(* tells such a process from one that never takes its next step, so its    *)
(* end is no action of its own.                                            *)
(***************************************************************************)
EXTENDS DataPipeline

CONSTANTS
    Corpora,    \* record sequences that finished generations or merges have left
    Finalizers, \* processes that may write the dataset
    Sessions,   \* training processes
    Jobs,       \* [kind, seed, dir, limit]: training configurations
    Dirs,       \* output directories beneath artifacts/train
    Snapshots,  \* number of precommitted steps of a study trajectory
    Frozen,     \* the manifest the distilled trajectory is frozen to
    MaxWrites   \* bound: finalizations started

Kinds == {"full", "smoke", "candidate", "trajectory"}

ASSUME TrainingAssumption ==
    /\ \A j \in Jobs : j.kind \in Kinds /\ j.dir \in Dirs /\ j.limit \in Nat \ {0}
    /\ Corpora \subseteq Seq(Records)
    /\ Snapshots \in Nat \ {0} /\ MaxWrites \in Nat /\ None \notin Sessions

VARIABLES
    files,      \* the dataset directory: file name -> contents, or None
    step, made, \* per finalizer: the number of its next file, and what it made
    pc, job,    \* per session
    outputs,    \* [Dirs -> the artifacts of a training run]; who made it, or None
    writes,
    stale       \* history: sessions under which the dataset was written

dataset == <<files, step, made, writes>>
session == <<pc, job>>
vars == <<dataset, session, outputs, stale>>

----------------------------------------------------------------------------
(* Finalization *)

\* Each file is replaced atomically, one after the other.
Order == <<"accepted", "train", "validation", "manifest", "sidecar", "summary">>

\* finalize_teacher_corpus raises unless all of these hold.
Finalizable(recs) ==
    /\ Unmarked(recs)
    /\ Len(Prefiltered(recs)) >= 2
    /\ Accepted(Prefiltered(recs))

\* The counts of _summary, each taken from the list of its stage.
Summary(recs) ==
    LET pre == Prefiltered(recs)
        content == ContentAccepted(pre)
        long == LengthAccepted(content)
    IN [generated |-> Len(recs), prefiltered |-> Len(pre),
        finishRejected |-> Len(FinishRejected(recs)),
        qualityRejected |-> Len(QualityRejected(recs)),
        contentRejected |-> Len(ContentRejected(pre)),
        lengthRejected |-> Len(LengthRejected(content)),
        duplicates |-> Len(Duplicates(long)), unique |-> Len(Survivors(pre))]

Prepared(recs, c) ==
    LET pre == Prefiltered(recs)
        manifest == Manifest(pre, c)
        split == Split(Survivors(pre), c)
    IN [accepted |-> Survivors(pre), train |-> split.train,
        validation |-> split.validation, manifest |-> manifest,
        sidecar |-> manifest, summary |-> Summary(recs)]

StartFinalization(f, recs, c) ==
    /\ step[f] = 0 /\ writes < MaxWrites
    /\ Finalizable(recs)
    /\ made' = [made EXCEPT ![f] = Prepared(recs, c)]
    /\ step' = [step EXCEPT ![f] = 1]
    /\ writes' = writes + 1
    /\ UNCHANGED <<files, session, outputs, stale>>

\* A session has read the dataset and will read it again.
Reading(s) ==
    (job[s].named # None \/ job[s].plan # None) /\ job[s].data = None

WriteFile(f) ==
    /\ step[f] \in DOMAIN Order
    /\ LET name == Order[step[f]] IN files' = [files EXCEPT ![name] = made[f][name]]
    /\ step' = [step EXCEPT ![f] = (@ + 1) % (Len(Order) + 1)]
    /\ made' = [made EXCEPT ![f] = IF step[f] = Len(Order) THEN None ELSE @]
    /\ stale' = stale \cup {s \in Sessions : Reading(s)}
    /\ UNCHANGED <<session, outputs, writes>>

StopFinalization(f) ==
    /\ step[f] # 0
    /\ step' = [step EXCEPT ![f] = 0]
    /\ made' = [made EXCEPT ![f] = None]
    /\ UNCHANGED <<files, session, outputs, stale, writes>>

----------------------------------------------------------------------------
(* A training session *)

NoJob == [do |-> None, named |-> None, plan |-> None, data |-> None]

NoOutput ==
    [owner |-> None, kind |-> None, preflight |-> None, copy |-> None, run |-> None,
     adapter |-> None, manifest |-> None, report |-> None]

Init ==
    /\ files = [name \in Range(Order) |-> None]
    /\ step = [f \in Finalizers |-> 0]
    /\ made = [f \in Finalizers |-> None]
    /\ pc = [s \in Sessions |-> "idle"]
    /\ job = [s \in Sessions |-> NoJob]
    /\ outputs = [d \in Dirs |-> NoOutput]
    /\ writes = 0 /\ stale = {}

Goto(s, label) == pc' = [pc EXCEPT ![s] = label]
Kind(s) == job[s].do.kind
Dir(s) == job[s].do.dir

\* A full training resolves a plan of its own around that of the trainer.
Launch(s, j) ==
    /\ pc[s] = "idle"
    /\ job' = [job EXCEPT ![s].do = j]
    /\ Goto(s, IF j.kind = "full" THEN "outer" ELSE "plan")
    /\ UNCHANGED <<dataset, outputs, stale>>

\* run_full_training: the plan its report will name.
ResolveOuter(s) ==
    /\ pc[s] = "outer" /\ files.manifest # None
    /\ job' = [job EXCEPT ![s].named = files.manifest]
    /\ Goto(s, "plan")
    /\ UNCHANGED <<dataset, outputs, stale>>

\* _verify_local_corpus: the dataset is the one the study is frozen to.
LocalCorpus ==
    /\ files.manifest = Frozen /\ files.sidecar = Frozen
    /\ files.train # None /\ Len(files.train) = Len(Frozen.train)
    /\ files.validation # None /\ Len(files.validation) = Len(Frozen.validation)

\* resolve_adapter_training_plan.
ResolvePlan(s) ==
    /\ pc[s] = "plan" /\ files.manifest # None
    /\ Kind(s) = "trajectory" => LocalCorpus
    /\ job' = [job EXCEPT ![s].plan = files.manifest]
    /\ Goto(s, "output")
    /\ UNCHANGED <<dataset, outputs, stale>>

\* run_training_preflight looks at targets, output and hardware, and then at the
\* dataset and the loss mask; of these, output and dataset depend on other steps.
CheckOutput(s) ==
    /\ pc[s] = "output" /\ outputs[Dir(s)].owner = None
    /\ Goto(s, "verify")
    /\ UNCHANGED <<dataset, job, outputs, stale>>

\* Mutant of Verified: the splits are counted and not hashed.
VerifiedByCount(plan, seed) ==
    /\ files.manifest = plan /\ files.sidecar = plan /\ plan.seed = seed
    /\ files.train # None /\ Len(files.train) = Len(plan.train)
    /\ files.validation # None /\ Len(files.validation) = Len(plan.validation)

\* load_normalized_training_records_jsonl raises unless it reads records, and some.
Loadable(recs) == recs \in Seq(Records) /\ recs # <<>>

\* verify_frozen_training_dataset.
Verified(plan, seed) ==
    /\ files.manifest = plan /\ files.sidecar = plan /\ plan.seed = seed
    /\ Loadable(files.train) /\ Loadable(files.validation)
    /\ Contents(files.train) = plan.train
    /\ Contents(files.validation) = plan.validation
    /\ Range(Contents(files.train)) \cap Range(Contents(files.validation)) = {}

VerifyDataset(s) ==
    /\ pc[s] = "verify" /\ Verified(job[s].plan, job[s].do.seed)
    /\ Goto(s, "claim")
    /\ UNCHANGED <<dataset, job, outputs, stale>>

\* Mutant of Claimable: the directory may exist by now.
ClaimableAgain(d) == TRUE

\* mkdir(exist_ok=False).
Claimable(d) == outputs[d].owner = None

\* _prepare_output: the directory with the evidence of the preflight, then the
\* manifest as it is on the disk by then.
ClaimOutput(s) ==
    /\ pc[s] = "claim" /\ Claimable(Dir(s))
    /\ outputs' = [outputs EXCEPT ![Dir(s)] =
         [NoOutput EXCEPT !.owner = s, !.kind = Kind(s), !.preflight = job[s].plan]]
    /\ Goto(s, "copy")
    /\ UNCHANGED <<dataset, job, stale>>

\* shutil.copyfile, and the run manifest of this process.
CopyManifest(s) ==
    /\ pc[s] = "copy" /\ files.manifest # None
    /\ outputs' = [outputs EXCEPT ![Dir(s)].copy = files.manifest, ![Dir(s)].run = s]
    /\ Goto(s, "load")
    /\ UNCHANGED <<dataset, job, stale>>

\* _bounded_records: a smoke test takes the first records and needs enough of them.
Bounded(s, recs) ==
    IF Kind(s) = "smoke" THEN SubSeq(recs, 1, job[s].do.limit) ELSE recs

\* _load_training_runtime: the splits are read again, and compared with nothing.
Load(s) ==
    /\ pc[s] = "load" /\ Loadable(files.train) /\ Loadable(files.validation)
    /\ Kind(s) = "smoke" => /\ Len(files.train) >= job[s].do.limit
                            /\ Len(files.validation) >= job[s].do.limit
    /\ job' = [job EXCEPT ![s].data =
         [train |-> Contents(Bounded(s, files.train)),
          validation |-> Contents(Bounded(s, files.validation))]]
    /\ Goto(s, "train")
    /\ UNCHANGED <<dataset, outputs, stale>>

Snapshotting(s) == Kind(s) \in {"candidate", "trajectory"}

\* A generic training and a smoke test train, evaluate, and save one adapter.
Train(s) ==
    /\ pc[s] = "train" /\ ~Snapshotting(s)
    /\ outputs' = [outputs EXCEPT ![Dir(s)].adapter = [by |-> s, of |-> job[s].data, saved |-> 1]]
    /\ Goto(s, IF Kind(s) = "full" THEN "save" ELSE "report")
    /\ UNCHANGED <<dataset, job, stale>>

\* on_step_end at a precommitted step: the adapter as it is by then.
SaveSnapshot(s) ==
    /\ pc[s] = "train" /\ Snapshotting(s)
    /\ LET out == outputs[Dir(s)]
           saved == IF out.adapter = None THEN 0 ELSE out.adapter.saved
       IN /\ outputs' = [outputs EXCEPT ![Dir(s)].adapter =
                            [by |-> s, of |-> job[s].data, saved |-> saved + 1]]
          /\ IF saved + 1 = Snapshots THEN Goto(s, "report") ELSE UNCHANGED pc
    /\ UNCHANGED <<dataset, job, stale>>

\* Mutant of WriteAdapterManifest: it names the dataset that is there by now.
WriteAdapterManifestNow(s) ==
    /\ pc[s] = "save"
    /\ outputs' = [outputs EXCEPT ![Dir(s)].manifest = [by |-> s, dataset |-> files.manifest]]
    /\ Goto(s, "report")
    /\ UNCHANGED <<dataset, job, stale>>

\* create_completed_adapter_manifest names the dataset of the trainer's plan.
WriteAdapterManifest(s) ==
    /\ pc[s] = "save"
    /\ outputs' = [outputs EXCEPT ![Dir(s)].manifest =
                      [by |-> s, dataset |-> job[s].plan]]
    /\ Goto(s, "report")
    /\ UNCHANGED <<dataset, job, stale>>

\* run_full_training reads its artifacts back, and names the outer plan's dataset.
FullReport(s, out) ==
    [by |-> s, dataset |-> job[s].named,
     over |-> <<out.adapter, out.copy, out.run, out.manifest>>]

\* run_training_smoke digests what it trained, and names no dataset.
SmokeReport(s, out) == [by |-> s, dataset |-> None, over |-> <<out.adapter>>]

\* run_minimum_intervention_training: the inventory of its snapshots.
CandidateReport(s, out) == [by |-> s, dataset |-> None, over |-> <<out.adapter>>]

\* run_distilled_trajectory_training: likewise, for the frozen dataset.
TrajectoryReport(s, out) == [by |-> s, dataset |-> Frozen, over |-> <<out.adapter>>]

\* _snapshot_evidence, or the checks of what one training must have saved.
Persisted(s, out) ==
    /\ out.adapter # None
    /\ out.adapter.saved = IF Snapshotting(s) THEN Snapshots ELSE 1
    /\ Kind(s) = "full" => out.manifest # None /\ out.copy # None /\ out.run # None

WriteReport(s) ==
    /\ pc[s] = "report" /\ Persisted(s, outputs[Dir(s)])
    /\ LET out == outputs[Dir(s)] IN
       outputs' = [outputs EXCEPT ![Dir(s)].report =
           CASE Kind(s) = "full" -> FullReport(s, out)
             [] Kind(s) = "smoke" -> SmokeReport(s, out)
             [] Kind(s) = "candidate" -> CandidateReport(s, out)
             [] Kind(s) = "trajectory" -> TrajectoryReport(s, out)]
    /\ Goto(s, "done")
    /\ job' = [job EXCEPT ![s] = NoJob]
    /\ UNCHANGED <<dataset, stale>>

Next ==
    \/ \E f \in Finalizers :
         \/ \E recs \in Corpora, c \in Configs : StartFinalization(f, recs, c)
         \/ WriteFile(f) \/ StopFinalization(f)
    \/ \E s \in Sessions :
         \/ \E j \in Jobs : Launch(s, j)
         \/ ResolveOuter(s) \/ ResolvePlan(s) \/ CheckOutput(s) \/ VerifyDataset(s)
         \/ ClaimOutput(s) \/ CopyManifest(s) \/ Load(s)
         \/ Train(s) \/ SaveSnapshot(s) \/ WriteAdapterManifest(s) \/ WriteReport(s)

Spec == Init /\ [][Next]_vars

----------------------------------------------------------------------------
(* Properties *)

\* Every record that was generated is counted, once, as rejected or as kept.
Balanced(s) ==
    /\ s.generated = s.finishRejected + s.qualityRejected + s.prefiltered
    /\ s.prefiltered = s.contentRejected + s.lengthRejected + s.duplicates + s.unique

Contaminated == (ProtectedPrompts \X Answers) \cup (Prompts \X ProtectedAnswers)

\* Every dataset a finalization writes: the splits share no prompt, however often
\* and with whatever answers the prompt occurs; together they hold each distinct
\* usable record once; neither is empty; no benchmark item is in them; and the
\* counters of its summary account for every record that was generated.
SplitIsSound ==
    \A f \in Finalizers : made[f] # None =>
        LET m == made[f].manifest
            train == Range(m.train)
            validation == Range(m.validation)
        IN /\ {c[1] : c \in train} \cap {c[1] : c \in validation} = {}
           /\ IsInjective(m.train \o m.validation)
           /\ train \cup validation =
                {Content(m.input[i]) : i \in {n \in DOMAIN m.input :
                    m.input[n].answer \notin Malformed \cup Long}}
           /\ train # {} /\ validation # {}
           /\ (train \cup validation) \cap Contaminated = {}
           /\ Len(m.train) + Len(m.validation) = made[f].summary.unique
           /\ Len(m.input) = made[f].summary.prefiltered
           /\ Balanced(made[f].summary)

\* What was trained on, and validated with, is what the manifests of the run name:
\* files of two finalizations that stand side by side after a crash are never
\* trained on, and as the splits of one manifest share no prompt, nor do these.  A
\* dataset rewritten while a session was between its plan and its last read is
\* excepted: nothing in the code prevents that.
TrainedAsNamed ==
    \A d \in Dirs :
        LET out == outputs[d] IN
        out.adapter # None /\ out.owner \notin stale =>
            /\ IsPrefix(out.adapter.of.train, out.preflight.train)
            /\ IsPrefix(out.adapter.of.validation, out.preflight.validation)
            /\ out.kind # "smoke" => out.adapter.of.train = out.preflight.train
            /\ out.copy = out.preflight
            /\ out.kind = "trajectory" => out.preflight = Frozen

\* Two trainings of one configuration race for its directory: whatever is in a
\* directory was written by the one process that made it.
DirectoryIsOneRun ==
    \A d \in Dirs :
        LET out == outputs[d] IN
        /\ out.run \in {None, out.owner}
        /\ \A a \in {out.adapter, out.manifest, out.report} : a # None => a.by = out.owner

\* A training report is closed over the artifacts as they stay; it names the dataset
\* that the adapter manifest beside it names and that was trained on in whole, though
\* it comes from a plan that was resolved apart and is written hours after the last
\* read, when another dataset may be in the files.  Excepted is, as above, a dataset
\* rewritten between the first plan and the last read.
ReportIsTrue ==
    \A d \in Dirs : outputs[d].report # None =>
        LET out == outputs[d] IN
        /\ out.report.over = IF out.kind = "full"
                             THEN <<out.adapter, out.copy, out.run, out.manifest>>
                             ELSE <<out.adapter>>
        /\ out.kind \in {"candidate", "trajectory"} => out.adapter.saved = Snapshots
        /\ out.owner \notin stale =>
              /\ out.kind = "full" =>
                    /\ out.report.dataset = out.manifest.dataset
                    /\ out.adapter.of = [train |-> out.report.dataset.train,
                                         validation |-> out.report.dataset.validation]
              /\ out.kind = "trajectory" => out.report.dataset = out.copy
====
