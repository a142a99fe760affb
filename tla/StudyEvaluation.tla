---- MODULE StudyEvaluation ----
(***************************************************************************)
(* The studies that evaluate trained adapters: python_p0, the rank sweep,  *)
(* the minimum-intervention and the distilled trajectories, and the        *)
(* qualification of the one winner.  A GPU process answers the tasks of a  *)
(* candidate after the other and checkpoints each answer; a CPU process    *)
(* runs the answers and scores them; scores are sealed, or compared and    *)
(* one candidate is selected.                                              *)
(*                                                                         *)
(* There is one GPU, and one generation at a time: the workflows put       *)
(* theirs in one concurrency group, the runbook for the local GPU runs     *)
(* them one by one.  Nothing in the code enforces it.                      *)
(***************************************************************************)
EXTENDS Integers, Sequences, FiniteSets, FiniteSetsExt

CONSTANTS
    Candidates,  \* [study, label, step, rate]: each has an output directory of its own;
                 \* a learning rate is its rank among those of the grid
    Trainings,   \* [label, at, reported]: weights by step, as saved and as in the report
    Pinned,      \* [Candidates -> weights]: by a registry or an authorization; not
                 \* looked at for the distilled trajectory
    Tasks,       \* [Studies -> sequence of tasks], suite after suite
    Suite,       \* [task -> suite]
    Solves,      \* [weights -> set of tasks that their answers pass]
    Floor,       \* [suite -> Nat]: what the base model passes of the development tasks
    MinCombined, \* minimum of a selectable candidate
    Earned,      \* [suite -> Nat]: what the winner passed of the development tasks
    Policy,      \* [suite -> Nat]: what a promotion needs of all tasks of a suite
    MinPolicy,   \* and of all of them
    Commits,     \* clean source trees
    MaxLaunches, \* [study -> bound: generations started]
    MaxCheckouts,\* [study -> bound: changes of the source tree]
    None

Sealed == {"p0", "rank"}
Development == {"minimum", "distilled"}
Studies == Sealed \cup Development \cup {"qualification"}
Suites == DOMAIN Floor

\* The grid of a study is finite, and has one candidate for a step with a label or a
\* rate; its tasks are of the suites.
ASSUME StudyAssumption ==
    /\ IsFiniteSet(Candidates) /\ None \notin Candidates
    /\ \A c \in Candidates : c.study \in Studies /\ c.step \in Nat /\ c.rate \in Nat
    /\ \A c, d \in Candidates :
         c.study = d.study /\ c.step = d.step /\ (c.label = d.label \/ c.rate = d.rate) => c = d
    /\ \A s \in Studies : Tasks[s] \in Seq(DOMAIN Suite) /\ Tasks[s] # <<>>

VARIABLES
    study,       \* the study that is run; never changes
    answers,     \* [Candidates -> sequence of checkpoints]: the n-th answers the n-th task
    runtime,     \* [Candidates -> runtime-metadata.json: the generation that wrote it]
    stage,       \* [Candidates -> generation-stage.json, or None]
    results,     \* [Candidates -> the artifacts of the suites, or None]
    score,       \* [Candidates -> comparison.json or the score file, or None]
    seal,        \* [Candidates -> evaluation-manifest.json, or None]
    phase, todo, source, active, commit,  \* of the generating process
    scoring,     \* the scoring process, or None
    selection,   \* the development-selection file, or None
    verified,    \* history: candidates whose sealed evaluation was verified
    head, launches, checkouts

files == <<answers, runtime, stage, results, score, seal>>
gpu == <<phase, todo, source, active, commit, launches>>
tree == <<head, checkouts>>
vars == <<study, files, gpu, tree, scoring, selection, verified>>

Empty(value) == [c \in Candidates |-> value]

Init ==
    /\ study \in {c.study : c \in Candidates}
    /\ answers = Empty(<<>>)
    /\ runtime = Empty(None) /\ stage = Empty(None)
    /\ results = Empty(None) /\ score = Empty(None) /\ seal = Empty(None)
    /\ phase = "idle" /\ todo = {} /\ source = None /\ active = None /\ commit = None
    /\ scoring = None /\ selection = None /\ verified = {}
    /\ head \in Commits /\ launches = 0 /\ checkouts = 0

----------------------------------------------------------------------------
(* What is evaluated *)

\* The candidates of one training, in the order of their steps.
Trajectory(c) == {d \in Candidates : d.study = c.study /\ d.label = c.label}
First(S) == CHOOSE c \in S : \A d \in S : c.step <= d.step

\* The identity under which every answer is kept.
Contract(c, weights) == [of |-> c, weights |-> weights]

\* The output names this trajectory and has a snapshot of this step.
IsNamed(t, c) == t.label = c.label /\ c.step \in DOMAIN t.at

\* _snapshot_identity: the files are those of the report.
IsReported(t, step) == t.at[step] = t.reported[step]

IsPinned(t, c) == t.at[c.step] = Pinned[c]

\* validate_python_p0_adapter, and the validation of P7-007 that it calls.
P0Adapter(t, c) == IsNamed(t, c) /\ IsReported(t, c.step) /\ IsPinned(t, c)

\* _validated_candidate_bundle.
RankBundle(t, c) == IsNamed(t, c) /\ IsReported(t, c.step) /\ IsPinned(t, c)

\* validate_training_artifact: by the registry, not by the inventory of the report.
RegisteredTrajectory(t, c) == \A d \in Trajectory(c) : IsNamed(t, d) /\ IsPinned(t, d)

\* load_local_trajectory: no weights are pinned, but every step is there, and report
\* and files agree.
LocalTrajectory(t, c) ==
    /\ \A d \in Trajectory(c) : IsNamed(t, d)
    /\ \A s \in DOMAIN t.at : IsReported(t, s)

\* _validate_selected_snapshot.
IsWinner(t, c) == t.reported[c.step] = Pinned[c]

\* A training output is accepted for all the candidates of its trajectory.
Accepted(t, c) ==
    CASE c.study = "p0" -> P0Adapter(t, c)
      [] c.study = "rank" -> RankBundle(t, c)
      [] c.study = "minimum" -> RegisteredTrajectory(t, c)
      [] c.study = "distilled" -> LocalTrajectory(t, c)
      [] c.study = "qualification" -> LocalTrajectory(t, c) /\ IsWinner(t, c)

\* The weights of candidate c: by the report of the distilled trajectory, or pinned.
Named(t, c) == IF c.study = "distilled" THEN t.reported[c.step] ELSE Pinned[c]

----------------------------------------------------------------------------
(* Generation *)

Current == First(todo)
CurrentContract == Contract(Current, Named(source, Current))

\* generate_python_p0_stage: an unscored directory without a stage; with one it is
\* returned, or refused.
P0IsOpen(c) == score[c] = None /\ seal[c] = None /\ stage[c] = None

\* generate_rank_stage.
RankIsOpen(c) == score[c] = None /\ seal[c] = None

\* Mutant of Open: P0 does without the check of the stage, as the rank sweep does.
OpenAsRank(c) == c.study \in Sealed => RankIsOpen(c)

Open(c) ==
    /\ c.study = "p0" => P0IsOpen(c)
    /\ c.study = "rank" => RankIsOpen(c)

\* PEFT makes the adapter active that is loaded first: of a trajectory, or of the
\* winner's, that is its first snapshot.
LoadedFirst(t) == t.at[CHOOSE s \in DOMAIN t.at : \A r \in DOMAIN t.at : s <= r]

Launch(c, t) ==
    /\ phase = "idle" /\ launches < MaxLaunches[study] /\ c.study = study
    /\ Accepted(t, c) /\ Open(c)
    /\ phase' = "open" /\ source' = t /\ commit' = head
    /\ todo' = IF study \in Development THEN Trajectory(c) ELSE {c}
    /\ active' = LoadedFirst(t)
    /\ launches' = launches + 1
    /\ UNCHANGED <<study, files, tree, scoring, selection, verified>>

End == phase' = "idle" /\ todo' = {} /\ source' = None /\ active' = None /\ commit' = None

\* Mutant of Select: the adapter stays that was loaded first.
StaysActive == active

\* select_step.
Selected == source.at[Current.step]

\* Mutant of Resumable: what is cached is taken as it is.
ResumableAsIs(c, contract) == TRUE

\* _generate_items: a checkpoint under another contract ends the process.
Resumable(c, contract) ==
    \A n \in DOMAIN answers[c] : answers[c][n].contract = contract

OpenDirectory ==
    /\ phase = "open"
    /\ IF Resumable(Current, CurrentContract)
       THEN /\ phase' = "answer" /\ active' = Selected
            /\ UNCHANGED <<todo, source, commit>>
       ELSE End
    /\ UNCHANGED <<study, files, launches, tree, scoring, selection, verified>>

\* One response, appended with the contract it was generated under.
Answer ==
    /\ phase = "answer" /\ Len(answers[Current]) < Len(Tasks[study])
    /\ answers' = [answers EXCEPT ![Current] =
                      Append(@, [contract |-> CurrentContract, by |-> active])]
    /\ UNCHANGED <<study, runtime, stage, results, score, seal, gpu, tree,
                   scoring, selection, verified>>

Answered == phase = "answer" /\ Len(answers[Current]) = Len(Tasks[study])

\* write_runtime_metadata: latencies and memory of this process.
WriteRuntime ==
    /\ Answered /\ study \in Sealed
    /\ runtime' = [runtime EXCEPT ![Current] = launches]
    /\ phase' = "stage"
    /\ UNCHANGED <<study, answers, stage, results, score, seal, todo, source, active,
                   commit, launches, tree, scoring, selection, verified>>

\* What a sealed stage digests.
Evidence(c) == <<answers[c], runtime[c]>>

StageOf(c, contract, sha) ==
    [contract |-> contract, head |-> sha,
     over |-> IF study \in Sealed THEN Evidence(c) ELSE None]

\* The stage file; a trajectory goes on with its next candidate.
WriteStage ==
    /\ IF study \in Sealed THEN phase = "stage" ELSE Answered
    /\ stage' = [stage EXCEPT ![Current] = StageOf(Current, CurrentContract, commit)]
    /\ IF todo = {Current} THEN End
       ELSE phase' = "open" /\ todo' = todo \ {Current} /\ UNCHANGED <<source, active, commit>>
    /\ UNCHANGED <<study, answers, runtime, results, score, seal, launches, tree,
                   scoring, selection, verified>>

\* The process is killed, or CUDA fails: what it has appended stays.
StopGeneration ==
    /\ phase # "idle" /\ End
    /\ UNCHANGED <<study, files, launches, tree, scoring, selection, verified>>

----------------------------------------------------------------------------
(* Scoring *)

\* validate_stage: the tree must be the one that generated, the evidence as digested.
P0Stage(c, contract, sha) ==
    stage[c] = [contract |-> contract, head |-> sha, over |-> Evidence(c)]

\* _validate_stage of the rank sweep, which is given the generating commit.
RankStage(c, contract) ==
    stage[c] = [contract |-> contract, head |-> stage[c].head, over |-> Evidence(c)]

\* The stage check of score_qualification.
QualificationStage(c, contract, sha) ==
    stage[c].contract = contract /\ stage[c].head = sha

\* The stage checks of score_checkpoint, in either trajectory study.
MinimumStage(c, contract) == stage[c].contract = contract
DistilledStage(c, contract) == stage[c].contract = contract

StageAccepted(c, contract, sha) ==
    /\ stage[c] # None
    /\ CASE study = "p0" -> P0Stage(c, contract, sha)
         [] study = "rank" -> RankStage(c, contract)
         [] study = "minimum" -> MinimumStage(c, contract)
         [] study = "distilled" -> DistilledStage(c, contract)
         [] study = "qualification" -> QualificationStage(c, contract, sha)

\* The contract a scoring process expects: from the registry, or from a training
\* output that it validates again.
Expects(c, t) ==
    IF study \in Sealed \cup {"minimum"} THEN Contract(c, Pinned[c])
    ELSE Contract(c, Named(t, c))

StartScoring(c, t) ==
    /\ scoring = None /\ c.study = study
    /\ study \in {"distilled", "qualification"} => Accepted(t, c)
    /\ StageAccepted(c, Expects(c, t), head)
    /\ scoring' = [at |-> "load", of |-> c, contract |-> Expects(c, t),
                   head |-> head, passed |-> {}]
    /\ UNCHANGED <<study, files, gpu, tree, selection, verified>>

Scoring(at) == scoring # None /\ scoring.at = at

\* _CheckpointOnlyGenerator: an answer that is missing is not generated again.
Complete(c) == Len(answers[c]) = Len(Tasks[study])

PassedOf(checkpoints) ==
    {n \in DOMAIN checkpoints : Tasks[study][n] \in Solves[checkpoints[n].by]}

\* _generate_items without a model, and the run of every answer in the harness.
LoadAnswers ==
    /\ Scoring("load")
    /\ LET c == scoring.of IN
       scoring' = IF Complete(c) /\ Resumable(c, scoring.contract)
                  THEN [scoring EXCEPT !.at = "results", !.passed = PassedOf(answers[c])]
                  ELSE None
    /\ UNCHANGED <<study, files, gpu, tree, selection, verified>>

\* Tasks may fail by an error of the harness.  It stops the development scoring and
\* the qualification before a file is written; a sealed study writes the artifacts of
\* its suites first.
WriteResults(errors) ==
    /\ Scoring("results")
    /\ IF errors # {} /\ study \notin Sealed
       THEN scoring' = None /\ UNCHANGED results
       ELSE /\ results' = [results EXCEPT ![scoring.of] =
                              [passed |-> scoring.passed \ errors, errors |-> errors]]
            /\ scoring' = [scoring EXCEPT !.at = "score"]
    /\ UNCHANGED <<study, answers, runtime, stage, score, seal, gpu, tree,
                   selection, verified>>

\* Mutant of Countable: the errors of the harness are not looked at.
CountableAnyhow(result) == TRUE

\* aggregate: results with errors of the harness are no metric.
Countable(result) == result.errors = {}

InSuite(passed, suite) == Cardinality({n \in passed : Suite[Tasks[study][n]] = suite})

\* The eligibility of score_checkpoint.
Eligible(passed) ==
    /\ Cardinality(passed) >= MinCombined
    /\ \A suite \in Suites : InSuite(passed, suite) >= Floor[suite]

\* evaluate_target_language_gate: with what the winner passed in development.
TargetGate(passed) ==
    /\ \A suite \in Suites : Earned[suite] + InSuite(passed, suite) >= Policy[suite]
    /\ MapThenSumSet(LAMBDA suite : Earned[suite], Suites) + Cardinality(passed) >= MinPolicy

Verdict(passed) ==
    CASE study \in Sealed -> None
      [] study \in Development -> Eligible(passed)
      [] study = "qualification" -> TargetGate(passed)

ScoreOf(s, passed) ==
    [contract |-> s.contract, head |-> s.head, passed |-> passed, verdict |-> Verdict(passed)]

\* The comparison with the base model, from the artifacts on the disk.
WriteComparison(c) ==
    IF Countable(results[c])
    THEN /\ score' = [score EXCEPT ![c] = ScoreOf(scoring, results[c].passed)]
         /\ scoring' = [scoring EXCEPT !.at = "seal"]
    ELSE scoring' = None /\ UNCHANGED score

\* The other scores are what the process has counted itself.
WriteScoreFile(c) ==
    /\ score' = [score EXCEPT ![c] = ScoreOf(scoring, scoring.passed)]
    /\ scoring' = None

WriteScore ==
    /\ Scoring("score")
    /\ IF study \in Sealed THEN WriteComparison(scoring.of) ELSE WriteScoreFile(scoring.of)
    /\ UNCHANGED <<study, answers, runtime, stage, results, seal, gpu, tree,
                   selection, verified>>

Final(c) == <<stage[c], runtime[c], answers[c], results[c], score[c]>>

\* write_evaluation_manifest.
Seal ==
    /\ Scoring("seal")
    /\ seal' = [seal EXCEPT ![scoring.of] = [head |-> scoring.head, over |-> Final(scoring.of)]]
    /\ scoring' = None
    /\ UNCHANGED <<study, answers, runtime, stage, results, score, gpu, tree,
                   selection, verified>>

StopScoring ==
    /\ scoring # None /\ scoring' = None
    /\ UNCHANGED <<study, files, gpu, tree, selection, verified>>

\* What is on the disk is counted again.
Recounted(c) ==
    /\ results[c] # None /\ Countable(results[c])
    /\ score[c] # None
    /\ score[c] = [contract |-> Contract(c, Pinned[c]), head |-> head,
                   passed |-> results[c].passed, verdict |-> None]

\* verify_python_p0_evaluation: on the commit that generated and scored.
P0Verified(c) ==
    /\ seal[c] = [head |-> head, over |-> Final(c)]
    /\ StageAccepted(c, Contract(c, Pinned[c]), head)
    /\ Recounted(c)

\* verify_rank_evaluation: on the commit that scored.
RankVerified(c) ==
    /\ StageAccepted(c, Contract(c, Pinned[c]), head)
    /\ Recounted(c)
    /\ seal[c] = [head |-> head, over |-> Final(c)]

\* verify_qualification: the arithmetic of the decision.
QualificationVerified(c, t) ==
    /\ Accepted(t, c)
    /\ stage[c] # None /\ score[c] # None
    /\ score[c].verdict = TargetGate(score[c].passed)

Verify(c, t) ==
    /\ c.study = study /\ c \notin verified
    /\ \/ study = "p0" /\ P0Verified(c)
       \/ study = "rank" /\ RankVerified(c)
       \/ study = "qualification" /\ QualificationVerified(c, t)
    /\ verified' = verified \cup {c}
    /\ UNCHANGED <<study, files, gpu, tree, scoring, selection>>

----------------------------------------------------------------------------
(* Selection *)

Grid == {c \in Candidates : c.study = study}
Selectable == {c \in Grid : score[c].verdict}
Combined(c) == Cardinality(score[c].passed)

\* The sort keys of select_development_candidate.
Before(c, d) ==
    \/ Combined(c) > Combined(d)
    \/ Combined(c) = Combined(d) /\ c.step < d.step
    \/ Combined(c) = Combined(d) /\ c.step = d.step /\ c.rate < d.rate

\* _score_from_payload: the flag in the file is that of its numbers.
Consistent(c) == score[c].verdict = Eligible(score[c].passed)

\* select_from_root: exactly the scores of the grid, whenever they were made.
Select ==
    /\ study \in Development
    /\ \A c \in Grid : score[c] # None /\ Consistent(c)
    /\ selection' = [scores |-> [c \in Grid |-> score[c]],
                     best |-> IF Selectable = {} THEN None
                              ELSE CHOOSE c \in Selectable :
                                      \A d \in Selectable \ {c} : Before(c, d)]
    /\ UNCHANGED <<study, files, gpu, tree, scoring, verified>>

\* The source tree is set to another commit between two commands.
Checkout(sha) ==
    /\ sha # head /\ checkouts < MaxCheckouts[study]
    /\ head' = sha /\ checkouts' = checkouts + 1
    /\ UNCHANGED <<study, files, gpu, scoring, selection, verified>>

Next ==
    \/ \E c \in Candidates, t \in Trainings :
          Launch(c, t) \/ StartScoring(c, t) \/ Verify(c, t)
    \/ OpenDirectory \/ Answer \/ WriteRuntime \/ WriteStage \/ StopGeneration
    \/ LoadAnswers \/ \E errors \in SUBSET DOMAIN Tasks[study] : WriteResults(errors)
    \/ WriteScore \/ Seal \/ StopScoring
    \/ Select
    \/ \E sha \in Commits : Checkout(sha)

Spec == Init /\ [][Next]_vars

----------------------------------------------------------------------------
(* Properties *)

Solved(weights) == {n \in DOMAIN Tasks[study] : Tasks[study][n] \in Solves[weights]}

\* Whatever was interrupted and taken up again, with whatever training output: all
\* answers in a directory are of one adapter, which their contract names, and which is
\* the pinned one where one is pinned.  Nothing is generated with a snapshot that the
\* generator loaded before, and the qualification has no answer of a runner-up.
OnlyTheNamedAdapterAnswers ==
    \A c \in Candidates : \A n \in DOMAIN answers[c] :
        LET weights == answers[c][1].contract.weights IN
        /\ answers[c][n] = [contract |-> Contract(c, weights), by |-> weights]
        /\ study # "distilled" => weights = Pinned[c]
        /\ n \in DOMAIN Tasks[study]

\* Every comparison and score counts what the adapter it names passes of all tasks of
\* the study: no error of the harness and no missing answer is in it.
ScoreIsTrue ==
    \A c \in Candidates : score[c] # None =>
        LET weights == score[c].contract.weights IN
        /\ score[c].contract.of = c
        /\ study # "distilled" => weights = Pinned[c]
        /\ score[c].passed = Solved(weights)
        /\ Len(answers[c]) = Len(Tasks[study])
        /\ \A n \in DOMAIN answers[c] : answers[c][n].by = weights

\* The scores a candidate is selected from are those of one training for each
\* trajectory, though no score names one and the outputs are given anew to every
\* command; and none that was eligible passes more, or as many after fewer steps.
SelectionIsOneTraining ==
    selection # None =>
        LET Of(c) == selection.scores[c].contract.weights
            Passes(c) == Cardinality(Solved(Of(c)))
            Fit == {c \in Grid : Eligible(Solved(Of(c)))}
        IN /\ \A c \in Grid : \E t \in Trainings : \A d \in Trajectory(c) :
                 IsNamed(t, d) /\ t.at[d.step] = Of(d)
           /\ (selection.best = None) = (Fit = {})
           /\ selection.best # None =>
                 /\ selection.best \in Fit
                 /\ \A c \in Fit : /\ Passes(c) <= Passes(selection.best)
                                   /\ c.step < selection.best.step =>
                                         Passes(c) < Passes(selection.best)

\* What a verified evaluation rests on is not generated again: a second generation of
\* P0 leaves answers, metadata and stage as they are, one of the rank sweep the
\* answers (it may have started before there was a comparison, and then rewrites
\* metadata and stage, which the next verification refuses).
VerifiedEvidenceStays ==
    [][\A c \in verified : /\ answers'[c] = answers[c]
                           /\ study = "p0" => /\ runtime'[c] = runtime[c]
                                              /\ stage'[c] = stage[c]]_vars
====
