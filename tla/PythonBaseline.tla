---- MODULE PythonBaseline ----
(***************************************************************************)
(* The baseline of the unchanged model (evaluation/_baseline_*.py).        *)
(* Answers are generated on a GPU and appended to one checkpoint file per  *)
(* suite, scored, and frozen under a manifest of digests.  One command     *)
(* does it all, or a generation stage and a scoring stage do it on two     *)
(* machines, bound by a stage manifest.  Any command may be killed and     *)
(* started again, and the Git tree may change under it.                    *)
(*                                                                         *)
(* One command runs at a time.  A suite's items are answered in the order  *)
(* of its prompts, so a checkpoint file is a prefix of the suite; the      *)
(* prompt hash and the generation contract hash of a record are its        *)
(* contract.  A file stands for its digest.                                *)
(***************************************************************************)
EXTENDS Integers, Sequences

CONSTANTS
    Suites,      \* the suites in their order: _EXPECTED_SUITES
    Items,       \* per suite, how many prompts it has
    Coding,      \* positions of the suites whose aggregate counts harness errors
    Commits,     \* source commits
    Contract,    \* [Commits -> the generation contract the code of a commit asks for]
    Answers,     \* what the model may answer
    MaxChanges,  \* bound: commits, checkouts and edits of the tree
    MaxErrors,   \* bound: scorings with harness errors
    MaxCrashes,  \* bound: commands killed
    None, Torn

ASSUME BaselineAssumption ==
    /\ Len(Suites) \in Nat \ {0} /\ Items \in [1 .. Len(Suites) -> Nat \ {0}]
    /\ Coding \subseteq 1 .. Len(Suites)
    /\ Contract \in [Commits -> {Contract[c] : c \in Commits}]
    /\ MaxChanges \in Nat /\ MaxErrors \in Nat /\ MaxCrashes \in Nat
    /\ None \notin Commits /\ Torn \notin Commits

Positions == 1 .. Len(Suites)
Commands == {"run", "generate", "score"}

VARIABLES
    head, dirty,  \* the Git tree: its commit, and whether it has changes
    ckpt,         \* .baseline-work: per suite, the records ever appended
    end,          \* how each file ends: "line", "bare" (no newline) or "torn"
    metadata,     \* runtime-metadata.json: None, or the answers it measured
    provenance,   \* provenance.json: None, or the commit and whether it was clean
    stage,        \* generation-stage.json: None, Torn, or what it binds
    results,      \* <suite>-results.jsonl: None, or the scoring it holds
    aggregate,    \* <suite>-aggregate.json: the same
    manifest,     \* baseline-manifest.json: None, or what is frozen
    pc, k, job,   \* the command: where it is, at which suite, with what in memory
    changes, errors, crashes

tree == <<head, dirty, changes>>
work == <<ckpt, end>>
scores == <<results, aggregate>>
session == <<pc, k, job>>
vars == <<tree, work, metadata, provenance, stage, scores, manifest, session, errors, crashes>>

NoJob == [cmd |-> None, code |-> None, sha |-> None, prov |-> None, scored |-> None]

Init ==
    /\ head \in Commits /\ dirty = FALSE
    /\ ckpt = [s \in Positions |-> <<>>]
    /\ end = [s \in Positions |-> "line"]
    /\ metadata = None /\ provenance = None /\ stage = None
    /\ results = [s \in Positions |-> None]
    /\ aggregate = [s \in Positions |-> None]
    /\ manifest = None
    /\ pc = "idle" /\ k = 1 /\ job = NoJob
    /\ changes = 0 /\ errors = 0 /\ crashes = 0

Goto(label) == pc' = label /\ UNCHANGED <<k, job>>

\* The command returns, raises or is killed.
End == pc' = "idle" /\ k' = 1 /\ job' = NoJob

\* On to the next suite under one label, or past the last one to another.
NextSuite(label, after) ==
    /\ IF k < Len(Suites) THEN pc' = label /\ k' = k + 1 ELSE pc' = after /\ k' = 1
    /\ UNCHANGED job

\* A file the stage manifest may have the digest of was rewritten or removed.
Touch == stage' = IF stage \in {None, Torn} THEN stage ELSE [stage EXCEPT !.intact = FALSE]

\* What the manifest of the frozen directory has the digests of.
Files == [metadata |-> metadata, provenance |-> provenance, results |-> results,
          aggregate |-> aggregate]

Start(cmd) ==
    /\ pc = "idle"
    /\ pc' = "preflight"
    /\ job' = [NoJob EXCEPT !.cmd = cmd, !.code = head]
    /\ UNCHANGED <<tree, work, metadata, provenance, stage, scores, manifest, k, errors, crashes>>

Preflight ==
    /\ pc = "preflight"
    /\ IF dirty THEN End
       ELSE pc' = "directory" /\ job' = [job EXCEPT !.sha = head] /\ UNCHANGED k
    /\ UNCHANGED <<tree, work, metadata, provenance, stage, scores, manifest, errors, crashes>>

\* Mutant of StageIsValid: the digests are not compared.
StageNamesTheRun ==
    /\ stage \notin {None, Torn}
    /\ stage.sha = job.sha /\ stage.contract = Contract[job.code]
    /\ provenance.sha = job.sha /\ provenance.clean

\* The stage manifest parses, binds this commit and contract and the files as they
\* are, and the provenance is fit for freezing.
StageIsValid ==
    /\ stage \notin {None, Torn}
    /\ stage.intact
    /\ stage.sha = job.sha /\ stage.contract = Contract[job.code]
    /\ provenance.sha = job.sha /\ provenance.clean

\* Mutant of Admitted: a frozen directory is run over.
AdmittedAnyway == CASE job.cmd = "run" -> ~dirty
                    [] job.cmd = "generate" -> manifest = None
                    [] job.cmd = "score" -> StageIsValid

\* A frozen directory is only validated by "run", and refused by "generate"; "run"
\* looks at the tree a second time, after the model has been loaded.
Admitted == CASE job.cmd = "run" -> manifest = None /\ ~dirty
              [] job.cmd = "generate" -> manifest = None
              [] job.cmd = "score" -> StageIsValid

Admit ==
    /\ pc = "directory"
    /\ IF Admitted THEN Goto("load") ELSE End
    /\ UNCHANGED <<tree, work, metadata, provenance, stage, scores, manifest, errors, crashes>>

----------------------------------------------------------------------------
(* _generate_items *)

\* Mutant of Loads: the contract of a record is not compared.
LoadsAnyContract(s) == end[s] # "torn"

\* _load_checkpoints parses the file, and every record binds to the contract.
Loads(s) ==
    /\ end[s] # "torn"
    /\ \A i \in DOMAIN ckpt[s] : ckpt[s][i].contract = Contract[job.code]

LoadCheckpoints ==
    /\ pc = "load"
    /\ IF Loads(k) THEN Goto("generate") ELSE End
    /\ UNCHANGED <<tree, work, metadata, provenance, stage, scores, manifest, errors, crashes>>

Record(answer) == [contract |-> Contract[job.code], answer |-> answer]

\* _append_checkpoint; behind a line without its newline, the new one spoils both.
Checkpoint(answer, ending) ==
    /\ ckpt' = [ckpt EXCEPT ![k] = Append(@, Record(answer))]
    /\ end' = [end EXCEPT ![k] = IF @ = "line" THEN ending ELSE "torn"]

Complete(s) == Len(ckpt[s]) = Items[s]

\* The next prompt of the suite has no record.
Missing == ~Complete(k)

\* The scoring stage has no model: _CheckpointOnlyGenerator raises.
Generate ==
    /\ pc = "generate" /\ Missing
    /\ IF job.cmd = "score"
       THEN End /\ UNCHANGED <<work, stage>>
       ELSE (\E a \in Answers : Checkpoint(a, "line")) /\ Touch /\ UNCHANGED session
    /\ UNCHANGED <<tree, metadata, provenance, scores, manifest, errors, crashes>>

\* "run" scores a suite as soon as it is complete; the stages generate them all first.
SuiteAnswered ==
    /\ pc = "generate" /\ Complete(k)
    /\ CASE job.cmd = "run" -> Goto("evaluate")
         [] job.cmd = "generate" -> NextSuite("load", "metadata")
         [] job.cmd = "score" -> NextSuite("load", "evaluate")
    /\ UNCHANGED <<tree, work, metadata, provenance, stage, scores, manifest, errors, crashes>>

----------------------------------------------------------------------------
(* Scoring *)

\* Mutant of Evaluate: a suite that has results is not scored again.
EvaluateOnce ==
    /\ pc = "evaluate"
    /\ \E broken \in IF k \in Coding /\ errors < MaxErrors THEN BOOLEAN ELSE {FALSE} :
         /\ job' = [job EXCEPT !.scored = IF results[k] # None THEN results[k]
                                          ELSE [rows |-> ckpt[k], broken |-> broken]]
         /\ errors' = errors + (IF broken THEN 1 ELSE 0)
    /\ pc' = "results"
    /\ UNCHANGED <<tree, work, metadata, provenance, stage, scores, manifest, k, crashes>>

\* evaluate_suite; the harness may fail on an item of a coding suite.
Evaluate ==
    /\ pc = "evaluate"
    /\ \E broken \in IF k \in Coding /\ errors < MaxErrors THEN BOOLEAN ELSE {FALSE} :
         /\ job' = [job EXCEPT !.scored = [rows |-> ckpt[k], broken |-> broken]]
         /\ errors' = errors + (IF broken THEN 1 ELSE 0)
    /\ pc' = "results"
    /\ UNCHANGED <<tree, work, metadata, provenance, stage, scores, manifest, k, crashes>>

\* write_artifacts: two files, each replaced at once.
WriteResults ==
    /\ pc = "results"
    /\ results' = [results EXCEPT ![k] = job.scored]
    /\ Goto("aggregate")
    /\ UNCHANGED <<tree, work, metadata, provenance, stage, aggregate, manifest, errors, crashes>>

WriteAggregate ==
    /\ pc = "aggregate"
    /\ aggregate' = [aggregate EXCEPT ![k] = job.scored]
    /\ NextSuite(IF job.cmd = "run" THEN "load" ELSE "evaluate", "metadata")
    /\ UNCHANGED <<tree, work, metadata, provenance, stage, results, manifest, errors, crashes>>

----------------------------------------------------------------------------
(* Freezing *)

\* The generator's measurements; the scoring stage only compares what it was
\* given with the answers it scored, and writes the same bytes again.
WriteMetadata ==
    /\ pc = "metadata"
    /\ IF job.cmd = "score"
       THEN /\ IF metadata = ckpt THEN Goto("unstage") ELSE End
            /\ UNCHANGED <<metadata, stage>>
       ELSE /\ metadata' = ckpt
            /\ Touch
            /\ Goto("provenance")
    /\ UNCHANGED <<tree, work, provenance, scores, manifest, errors, crashes>>

\* collect_baseline_provenance looks at the tree as it is now; only the generation
\* stage compares the commit with the one it started from.
WriteProvenance ==
    /\ pc = "provenance"
    /\ IF job.cmd = "generate" /\ head # job.sha
       THEN End /\ UNCHANGED <<provenance, stage>>
       ELSE /\ provenance' = [sha |-> head, clean |-> ~dirty]
            /\ Touch
            /\ Goto(IF job.cmd = "generate" THEN "stage" ELSE "freeze")
    /\ UNCHANGED <<tree, work, metadata, scores, manifest, errors, crashes>>

WriteStage ==
    /\ pc = "stage"
    /\ stage' = [sha |-> job.sha, contract |-> Contract[job.code], intact |-> TRUE]
    /\ End
    /\ UNCHANGED <<tree, work, metadata, provenance, scores, manifest, errors, crashes>>

RemoveStage ==
    /\ pc = "unstage"
    /\ stage' = None
    /\ Goto("clean")
    /\ UNCHANGED <<tree, work, metadata, provenance, scores, manifest, errors, crashes>>

\* rmtree removes the checkpoint files one by one.
RemoveWork ==
    /\ pc = "clean"
    /\ \/ \E s \in Positions :
            /\ ckpt[s] # <<>> \/ end[s] # "line"
            /\ ckpt' = [ckpt EXCEPT ![s] = <<>>]
            /\ end' = [end EXCEPT ![s] = "line"]
            /\ Touch
            /\ UNCHANGED session
       \/ /\ \A s \in Positions : ckpt[s] = <<>> /\ end[s] = "line"
          /\ IF job.cmd = "score" THEN Goto("freeze") ELSE End
          /\ UNCHANGED <<work, stage>>
    /\ UNCHANGED <<tree, metadata, provenance, scores, manifest, errors, crashes>>

\* freeze_python_baseline: clean provenance, every artifact there, no harness error
\* in an aggregate of the coding suites.
Freezable ==
    /\ provenance.clean
    /\ \A s \in Positions : results[s] # None /\ aggregate[s] # None
    /\ \A s \in Coding : ~aggregate[s].broken

Freeze ==
    /\ pc = "freeze"
    /\ IF Freezable
       THEN /\ manifest' = [sha |-> provenance.sha, contract |-> Contract[job.code],
                            ran |-> job.code, files |-> Files]
            /\ IF job.cmd = "score" THEN End ELSE Goto("clean")
       ELSE End /\ UNCHANGED manifest
    /\ UNCHANGED <<tree, work, metadata, provenance, stage, scores, errors, crashes>>

----------------------------------------------------------------------------
(* The environment *)

\* A killed command may leave the line or the stage manifest it was writing half
\* written.
Crash ==
    /\ pc # "idle" /\ crashes < MaxCrashes
    /\ crashes' = crashes + 1
    /\ End
    /\ \/ UNCHANGED <<work, stage>>
       \/ /\ pc = "generate" /\ job.cmd # "score" /\ Missing
          /\ \/ \E a \in Answers : Checkpoint(a, "bare")
             \/ end' = [end EXCEPT ![k] = "torn"] /\ UNCHANGED ckpt
          /\ Touch
       \/ /\ pc = "stage" /\ stage' = Torn
          /\ UNCHANGED work
    /\ UNCHANGED <<tree, metadata, provenance, scores, manifest, errors>>

\* A commit is checked out, or files are edited, at any time; the operator cleans up.
ChangeTree ==
    /\ changes < MaxChanges
    /\ changes' = changes + 1
    /\ \/ head' \in Commits \ {head} /\ UNCHANGED dirty
       \/ ~dirty /\ dirty' = TRUE /\ UNCHANGED head
    /\ UNCHANGED <<work, metadata, provenance, stage, scores, manifest, session, errors, crashes>>

TidyTree ==
    /\ dirty /\ dirty' = FALSE
    /\ UNCHANGED <<head, changes, work, metadata, provenance, stage, scores, manifest, session,
                   errors, crashes>>

Step ==
    \/ Preflight \/ Admit \/ LoadCheckpoints \/ Generate \/ SuiteAnswered
    \/ Evaluate \/ WriteResults \/ WriteAggregate \/ WriteMetadata \/ WriteProvenance
    \/ WriteStage \/ RemoveStage \/ RemoveWork \/ Freeze

Next == Step \/ (\E cmd \in Commands : Start(cmd)) \/ Crash \/ ChangeTree \/ TidyTree

Spec == Init /\ [][Next]_vars

\* A command goes on while it is not killed; the operator cleans the tree and, however
\* often the stages are used, starts "run" again and again.
Fairness == WF_vars(Step) /\ WF_vars(TidyTree) /\ SF_vars(Start("run"))
FairSpec == Spec /\ Fairness

----------------------------------------------------------------------------
(* Properties *)

Rows == UNION {[1 .. n -> [contract : {Contract[c] : c \in Commits}, answer : Answers]] :
               n \in 0 .. 3}
Scorings == {None} \cup [rows : Rows, broken : BOOLEAN]

\* What is frozen is one run from end to end, however often it was interrupted, resumed
\* or carried to another machine: both files of a suite are one scoring, of an answer to
\* every item, generated under the contract the manifest names; the measurements are
\* those of the same answers; nothing was scored by a broken harness or a dirty tree.
FrozenIsOneRun ==
    manifest # None =>
        /\ manifest.files.provenance = [sha |-> manifest.sha, clean |-> TRUE]
        /\ \A s \in Positions :
             LET scored == manifest.files.results[s]
             IN  /\ manifest.files.aggregate[s] = scored
                 /\ Len(scored.rows) = Items[s]
                 /\ \A i \in DOMAIN scored.rows : scored.rows[i].contract = manifest.contract
                 /\ manifest.files.metadata[s] = scored.rows
                 /\ s \in Coding => ~scored.broken

\* A frozen baseline stays what it is: no later command, of either kind, on whatever an
\* interrupted one has left behind, writes over a frozen artifact or the manifest.
FrozenIsFinal ==
    [][manifest # None => manifest' = manifest /\ Files' = manifest.files]_vars

\* A file that no rerun can use: its last line is not JSON, or it holds answers for
\* another contract.
Wedged == \E s \in Positions :
    end[s] = "torn" \/ \E i \in DOMAIN ckpt[s] : ckpt[s][i].contract # Contract[head]

\* "If generation is interrupted, rerunning the same command reuses ...": reruns end with
\* a frozen baseline, unless a checkpoint file has become unusable for good.
EventuallyFrozen == <>(manifest # None) \/ <>[]Wedged

\* "the frozen manifest binds the results to one exact source commit": the commit it
\* names is the one whose code ran.
NamesTheCommitThatRan == manifest # None => manifest.sha = manifest.ran
====
