---- MODULE TeacherSuperiority ----
(***************************************************************************)
(* FTR-201 to FTR-203: is the teacher so much better than the base model   *)
(* that its answers are worth distilling?  The teacher answers the         *)
(* protected suites on Colab, into a directory on a Drive that is named    *)
(* for the commit; somebody copies the files to a machine without          *)
(* credentials, where they are verified, scored and compared with a        *)
(* baseline under a gate that was fixed before any result.  The steps of   *)
(* the generating and of the scoring stage themselves are PythonBaseline.  *)
(***************************************************************************)
EXTENDS Integers, Sequences, FiniteSets

CONSTANTS
    Tasks,        \* sequence of the tasks and cases of all suites
    Suite,        \* [task -> "humaneval", "mbpp", "holdout" or "regression"]
    Commits,
    Tree,         \* [commit -> [evaluated, distilled, semantics, referenced, gate]]
    Canonical,    \* the semantics of the evaluation of the unchanged base
    Skills,       \* sets of tasks that the teacher may turn out to solve
    FrozenSolved, \* what the frozen base solves
    BaseDirs,     \* baselines that may be given: [solved, missing, errors]
    Fixed,        \* the gate as it was committed before any result
    MaxSessions, MaxCopies, MaxDamages, MaxScorings,
    None, Damaged

Id == {Tasks[n] : n \in DOMAIN Tasks}
Of(suite) == {t \in Id : Suite[t] = suite}
Public == Of("humaneval") \cup Of("mbpp")
Coding == Public \cup Of("holdout")
Files == {"answers", "metadata", "stage", "handoff"}

VARIABLES
    skill,        \* what the teacher really solves
    drive,        \* [commit -> [file -> its content, or None]]
    session,      \* the generation on Colab, or None
    copied,       \* the transported directory: [file -> its content, or None]
    destination,  \* the output directory of the scoring checkout, or None
    scoring,      \* the scoring process, or None
    report,       \* the last report, or None; of is history
    sessions, copies, damages, scorings

colab == <<drive, session, sessions>>
transport == <<copied, copies, damages>>
scorer == <<destination, scoring, report, scorings>>
vars == <<skill, colab, transport, scorer>>

Empty == [f \in Files |-> None]

Init ==
    /\ skill \in Skills
    /\ drive = [sha \in Commits |-> Empty] /\ session = None
    /\ copied = Empty
    /\ destination = None /\ scoring = None /\ report = None
    /\ sessions = 0 /\ copies = 0 /\ damages = 0 /\ scorings = 0

----------------------------------------------------------------------------
(* The audits of the tree *)

\* _validated_support_payload: the teacher is that of the distillation, the evaluation
\* that of the base, and no training configuration names the artifacts.
SupportReady(sha) ==
    /\ Tree[sha].evaluated = Tree[sha].distilled
    /\ Tree[sha].semantics = Canonical
    /\ ~Tree[sha].referenced

\* Mutant of ProtocolReady: the gate may have any minimum.
ProtocolUnpinned(sha) == Tree[sha].gate.precommitted

\* audit_teacher_benchmark_protocol: of the gate only the primary minimums are pinned.
ProtocolReady(sha) ==
    /\ Tree[sha].gate.precommitted
    /\ Tree[sha].gate.primary = Fixed.primary

----------------------------------------------------------------------------
(* Colab *)

\* run_ftr_202_colab, on a clean checkout, up to generate_teacher_stage.
StartSession(sha) ==
    /\ session = None /\ sessions < MaxSessions
    /\ SupportReady(sha) /\ ProtocolReady(sha)
    /\ session' = [sha |-> sha, at |-> "answer"]
    /\ sessions' = sessions + 1
    /\ UNCHANGED <<skill, drive, transport, scorer>>

Write(f, content) == drive' = [drive EXCEPT ![session.sha][f] = content]
Goto(label) == session' = [session EXCEPT !.at = label]

Answered == IF drive[session.sha]["answers"] = None THEN <<>>
            ELSE drive[session.sha]["answers"]

\* A checkpoint per task: a session takes up where the last one was cut off.
Answer ==
    /\ session # None /\ session.at = "answer" /\ Len(Answered) < Len(Tasks)
    /\ Write("answers", Append(Answered, [task |-> Tasks[Len(Answered) + 1],
                                          by |-> Tree[session.sha].evaluated]))
    /\ UNCHANGED <<skill, session, sessions, transport, scorer>>

WriteMetadata ==
    /\ session # None /\ session.at = "answer" /\ Len(Answered) = Len(Tasks)
    /\ Write("metadata", sessions)
    /\ Goto("stage")
    /\ UNCHANGED <<skill, sessions, transport, scorer>>

Artifacts(dir) == <<dir["answers"], dir["metadata"]>>

WriteStage ==
    /\ session # None /\ session.at = "stage"
    /\ Write("stage", [sha |-> session.sha, artifacts |-> Artifacts(drive[session.sha])])
    /\ Goto("handoff")
    /\ UNCHANGED <<skill, sessions, transport, scorer>>

\* build_generation_handoff and write_generation_handoff.
WriteHandoff ==
    /\ session # None /\ session.at = "handoff"
    /\ Write("handoff", [sha |-> session.sha, stage |-> drive[session.sha]["stage"],
                         artifacts |-> Artifacts(drive[session.sha])])
    /\ session' = None
    /\ UNCHANGED <<skill, sessions, transport, scorer>>

\* The runtime is taken away.
Disconnect ==
    /\ session # None /\ session' = None
    /\ UNCHANGED <<skill, drive, sessions, transport, scorer>>

----------------------------------------------------------------------------
(* The way to the scoring machine *)

\* File by file, at any time, from the directory of any commit.
Copy(sha, f) ==
    /\ copies < MaxCopies /\ copies' = copies + 1
    /\ drive[sha][f] # None
    /\ copied' = [copied EXCEPT ![f] = drive[sha][f]]
    /\ UNCHANGED <<skill, colab, damages, scorer>>

Damage(f) ==
    /\ damages < MaxDamages /\ damages' = damages + 1
    /\ copied[f] # None
    /\ copied' = [copied EXCEPT ![f] = Damaged]
    /\ UNCHANGED <<skill, colab, copies, scorer>>

----------------------------------------------------------------------------
(* Scoring *)

Readable(dir, f) == dir[f] \notin {None, Damaged}

\* _validate_generation_stage_manifest, and the same of the transport.
StageIsValid(dir, sha) ==
    /\ Readable(dir, "stage") /\ dir["stage"].sha = sha
    /\ dir["stage"].artifacts = Artifacts(dir)

\* verify_generation_handoff.
HandoffIsValid(dir, sha) ==
    /\ Readable(dir, "handoff") /\ dir["handoff"].sha = sha
    /\ StageIsValid(dir, sha)
    /\ dir["handoff"].stage = dir["stage"]
    /\ dir["handoff"].artifacts = Artifacts(dir)

\* _preflight of the scorer, in a clean checkout.
StartScoring(sha) ==
    /\ scoring = None /\ scorings < MaxScorings
    /\ HandoffIsValid(copied, sha)
    /\ scoring' = [sha |-> sha, at |-> "copy", solved |-> {}]
    /\ scorings' = scorings + 1
    /\ UNCHANGED <<skill, colab, transport, destination, report>>

\* A destination that an earlier attempt left behind is refused; copytree.
CopyTree ==
    /\ scoring # None /\ scoring.at = "copy"
    /\ IF destination # None
       THEN scoring' = None /\ UNCHANGED destination
       ELSE scoring' = [scoring EXCEPT !.at = "score"] /\ destination' = copied
    /\ UNCHANGED <<skill, colab, transport, report, scorings>>

\* What of the answers passes; an answer of another model may pass anywhere.
Solved(answers) ==
    {answers[n].task : n \in {n \in DOMAIN answers :
        answers[n].by = Tree[scoring.sha].distilled => answers[n].task \in skill}}

\* _require_valid_coding_aggregates.
Freezable(spoilt) == spoilt = {}

\* The protocol again, score_teacher_stage with the audits and the validation of the
\* stage, and the freezing, which refuses what the harness spoilt after it has removed
\* the answers.
Score(spoilt) ==
    /\ scoring # None /\ scoring.at = "score"
    /\ IF /\ ProtocolReady(scoring.sha) /\ SupportReady(scoring.sha)
          /\ StageIsValid(destination, scoring.sha)
          /\ Len(destination["answers"]) = Len(Tasks)
       THEN /\ destination' = [destination EXCEPT !["stage"] = None, !["answers"] = None]
            /\ scoring' = IF ~Freezable(spoilt) THEN None
                          ELSE [sha |-> scoring.sha, at |-> "compare",
                                solved |-> Solved(destination["answers"]) \ spoilt,
                                of |-> destination["answers"]]
       ELSE scoring' = None /\ UNCHANGED destination
    /\ UNCHANGED <<skill, colab, transport, report, scorings>>

FreshCheckout ==
    /\ scoring = None /\ destination # None
    /\ destination' = None
    /\ UNCHANGED <<skill, colab, transport, scoring, report, scorings>>

----------------------------------------------------------------------------
(* The comparison *)

Passed(solved, tasks) == Cardinality(solved \cap tasks)
Improvements(base, teacher, tasks) == Cardinality((teacher \ base) \cap tasks)
Net(base, teacher, tasks) == Passed(teacher, tasks) - Passed(base, tasks)

\* _paired_p_value is at most the maximum: of all ways to let the changed tasks gain or
\* lose, those with so many gains.
Significant(base, teacher, gate) ==
    LET changed == ((teacher \ base) \cup (base \ teacher)) \cap Public
        tail == {gains \in SUBSET changed :
                    Cardinality(gains) >= Improvements(base, teacher, Public)}
    IN changed # {} /\ Cardinality(tail) * gate.alphaDen <= gate.alphaNum * 2 ^ Cardinality(changed)

\* gate_checks.
MeetsGate(base, teacher, gate) ==
    /\ Passed(teacher, Public) >= gate.primary.minPassed
    /\ Net(base, teacher, Public) >= gate.primary.minNet
    /\ Significant(base, teacher, gate)
    /\ \A s \in {"humaneval", "mbpp"} : Net(base, teacher, Of(s)) >= gate.minDelta
    /\ \A s \in {"holdout", "regression"} : Net(base, teacher, Of(s)) >= -gate.maxDrop

\* The rows and aggregates of the baseline: complete, no harness error, the scores of the
\* gate; nothing else says which baseline it is.
Comparable(base, gate) ==
    /\ base.missing = {} /\ ~base.errors
    /\ \A s \in {"humaneval", "mbpp", "holdout"} : Passed(base.solved, Of(s)) = gate.base[s]

\* compare_teacher_to_base and write_report.
Compare(base) ==
    /\ scoring # None /\ scoring.at = "compare" /\ scoring' = None
    /\ LET gate == Tree[scoring.sha].gate IN
       IF Comparable(base, gate)
       THEN report' = [sha |-> scoring.sha, base |-> base.solved, of |-> scoring.of,
                       authorize |-> MeetsGate(base.solved, scoring.solved, gate)]
       ELSE UNCHANGED report
    /\ UNCHANGED <<skill, colab, transport, destination, scorings>>

Next ==
    \/ \E sha \in Commits : StartSession(sha) \/ StartScoring(sha)
    \/ \E sha \in Commits, f \in Files : Copy(sha, f)
    \/ \E f \in Files : Damage(f)
    \/ Answer \/ WriteMetadata \/ WriteStage \/ WriteHandoff \/ Disconnect
    \/ CopyTree \/ FreshCheckout
    \/ \E spoilt \in {{}} \cup {{t} : t \in Coding} : Score(spoilt)
    \/ \E base \in BaseDirs : Compare(base)

Spec == Init /\ [][Next]_vars

----------------------------------------------------------------------------
(* Properties *)

\* A decision is about the teacher.  What was scored is the answer of the commit's teacher
\* to every task, however its generation was interrupted and the directory copied; no
\* distillation is authorized unless the teacher really solves as many tasks as was fixed
\* beforehand, whichever baseline was given and whatever gate is in the tree; with the
\* gate as it was fixed it also loses in no suite against the frozen base; and against
\* the frozen base, a teacher that deserves it is not turned away.
DecisionIsAboutTheTeacher ==
    report # None =>
        /\ Len(report.of) = Len(Tasks)
        /\ \A n \in DOMAIN Tasks :
             report.of[n] = [task |-> Tasks[n], by |-> Tree[report.sha].distilled]
        /\ report.authorize => Passed(skill, Public) >= Fixed.primary.minPassed
        /\ Tree[report.sha].gate = Fixed =>
             /\ report.authorize =>
                  \A s \in {"humaneval", "mbpp"} : Net(FrozenSolved, skill, Of(s)) >= 0
             /\ report.base = FrozenSolved =>
                  (report.authorize <=> MeetsGate(FrozenSolved, skill, Fixed))
====
