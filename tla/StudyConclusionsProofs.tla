---- MODULE StudyConclusionsProofs ----
(***************************************************************************)
(* Theorems about StudyEvaluation, for any candidates, trainings, tasks    *)
(* and commits and however often a generation or a scoring is stopped;     *)
(* about the control audits and the regression suite that go with it; and  *)
(* about what is concluded from any paired outcomes.                       *)
(***************************************************************************)
EXTENDS StudyConclusions, FiniteSetTheorems, SequenceTheorems, WellFoundedInduction, TLAPS

----------------------------------------------------------------------------
(* The inductive invariant *)

Weights == {Named(t, c) : t \in Trainings, c \in Candidates}
Checkpoints == [contract : [of : Candidates, weights : Weights], by : Weights]

Shape ==
    /\ study \in Studies
    /\ answers \in [Candidates -> Seq(Checkpoints)]
    /\ \A c \in Candidates : Len(answers[c]) <= Len(Tasks[study])
    /\ DOMAIN stage = Candidates /\ DOMAIN results = Candidates /\ DOMAIN score = Candidates

\* What a generation is given names the weights it is about to load, for everything it
\* has still to answer; and with P0, nothing of that has a stage yet.
Generating ==
    /\ phase # "idle" =>
         /\ todo # {} /\ todo \in SUBSET {c \in Candidates : c.study = study}
         /\ source \in Trainings
         /\ \A c \in todo : source.at[c.step] = Named(source, c)
    /\ phase = "answer" => active = Selected /\ Resumable(Current, CurrentContract)
    /\ study = "p0" /\ phase # "idle" => \A c \in todo : stage[c] = None

\* Every answer of a directory is there, under one contract.
Finished(c, contract) == Complete(c) /\ Resumable(c, contract)

\* What a scoring has counted is what the adapter of its contract solves.
Counting ==
    scoring # None =>
        /\ DOMAIN scoring = {"at", "of", "contract", "head", "passed"}
        /\ scoring.of \in Candidates /\ scoring.of.study = study
        /\ scoring.contract.of = scoring.of
        /\ study # "distilled" => scoring.contract.weights = Pinned[scoring.of]
        /\ scoring.at \in {"results", "score"} =>
             /\ Finished(scoring.of, scoring.contract)
             /\ scoring.passed = Solved(scoring.contract.weights)
        /\ scoring.at = "score" /\ study \in Sealed /\ Countable(results[scoring.of]) =>
             results[scoring.of].passed = scoring.passed

Verified ==
    \A c \in verified :
        /\ c \in Candidates /\ Complete(c)
        /\ study = "p0" => stage[c] # None

StudyInv ==
    /\ Shape /\ Generating /\ Counting /\ Verified
    /\ OnlyTheNamedAdapterAnswers /\ ScoreIsTrue

----------------------------------------------------------------------------
(* Least elements, from the well-foundedness of strict inclusion between     *)
(* finite sets                                                               *)

\* A set of numbers has a least one.
LEMMA Least ==
  ASSUME NEW T \in SUBSET Nat, T # {}
  PROVE  \E m \in T : \A n \in T : m <= n
<1> DEFINE Below(n) == {i \in Nat : i < n}
           D == {Below(n) : n \in T}
<1>1. ASSUME NEW n \in Nat PROVE IsFiniteSet(Below(n))
  <2>1. Below(n) \subseteq 0 .. n
    OBVIOUS
  <2>2. IsFiniteSet(0 .. n)
    BY FS_Interval
  <2> QED BY <2>1, <2>2, FS_Subset
<1>2. D \subseteq FiniteSubsetsOf(Nat) /\ D # {}
  BY <1>1 DEF FiniteSubsetsOf
<1>3. IsWellFoundedOn(StrictSubsetOrdering(Nat), FiniteSubsetsOf(Nat))
  BY FS_StrictSubsetOrderingWellFounded
<1>4. PICK X \in D : \A Y \in D : ~(<<Y, X>> \in StrictSubsetOrdering(Nat))
  BY <1>2, <1>3, WFMin
<1>5. PICK m \in T : X = Below(m)
  BY <1>4
<1>6. ASSUME NEW n \in T, ~(m <= n) PROVE FALSE
  <2>1. Below(n) \in D /\ Below(n) \subseteq Nat /\ Below(m) \subseteq Nat
    OBVIOUS
  <2>2. Below(n) \subseteq Below(m) /\ n \in Below(m) /\ n \notin Below(n)
    BY <1>6
  <2>3. <<Below(n), Below(m)>> \in StrictSubsetOrdering(Nat)
    BY <2>1, <2>2 DEF StrictSubsetOrdering
  <2> QED BY <1>4, <1>5, <2>1, <2>3
<1> QED BY <1>6

\* What holds of 0, and of n + 1 when of n, holds of every number.
LEMMA NatInd ==
  ASSUME NEW T, 0 \in T, \A n \in Nat : n \in T => n + 1 \in T
  PROVE  Nat \subseteq T
<1> SUFFICES ASSUME ~(Nat \subseteq T) PROVE FALSE
  OBVIOUS
<1>1. PICK m \in Nat \ T : \A n \in Nat \ T : m <= n
  BY Least
<1>2. m # 0 /\ m - 1 \in Nat /\ m - 1 \in T
  BY <1>1
<1> QED BY <1>1, <1>2

\* A number that belongs to each element is least for one.
LEMMA LeastOf ==
  ASSUME NEW S, S # {}, NEW f \in [S -> Nat]
  PROVE  \E g \in S : \A h \in S : f[g] <= f[h]
<1> DEFINE T == {f[g] : g \in S}
<1>1. T \in SUBSET Nat /\ T # {}
  OBVIOUS
<1>2. PICK n \in T : \A i \in T : n <= i
  <2> HIDE DEF T
  <2> QED BY <1>1, Least
<1>3. PICK g \in S : n = f[g]
  BY <1>2
<1>4. \A h \in S : f[h] \in T
  OBVIOUS
<1> QED BY <1>2, <1>3, <1>4

----------------------------------------------------------------------------
(* What is given, and what a step leaves alone *)

\* The earliest of the candidates still to be answered is one of them.
LEMMA CurrentIsToDo ==
  ASSUME Generating, phase # "idle"
  PROVE  Current \in todo /\ Current \in Candidates /\ Current.study = study
<1>1. todo \in SUBSET Candidates /\ todo # {}
  BY DEF Generating
<1>2. \E c \in todo : \A d \in todo : c.step <= d.step
  <2> DEFINE steps == [c \in todo |-> c.step]
  <2>1. steps \in [todo -> Nat] /\ \A c \in todo : steps[c] = c.step
    BY <1>1, StudyAssumption
  <2> HIDE DEF steps
  <2>2. PICK c \in todo : \A d \in todo : steps[c] <= steps[d]
    BY <1>1, <2>1, LeastOf
  <2> QED BY <2>1, <2>2
<1>3. Current \in todo
  BY <1>2 DEF Current, First
<1> QED BY <1>1, <1>3 DEF Generating

\* The output that is accepted names, for all a generation is to answer, the weights that
\* are in its directories.
LEMMA AcceptedNames ==
  ASSUME NEW c \in Candidates, NEW t \in Trainings, c.study \in Studies, Accepted(t, c),
         NEW d \in IF c.study \in Development THEN Trajectory(c) ELSE {c}
  PROVE  d \in Candidates /\ d.study = c.study /\ t.at[d.step] = Named(t, d)
<1>1. CASE c.study \in {"p0", "rank"}
  BY <1>1 DEF Accepted, P0Adapter, RankBundle, IsPinned, Named, Development
<1>2. CASE c.study = "minimum"
  BY <1>2 DEF Accepted, RegisteredTrajectory, IsPinned, Named, Development, Trajectory
<1>3. CASE c.study = "distilled"
  BY <1>3 DEF Accepted, LocalTrajectory, IsNamed, IsReported, Named, Development, Trajectory
<1>4. CASE c.study = "qualification"
  <2>1. c \in Trajectory(c)
    BY DEF Trajectory
  <2> QED BY <1>4, <2>1 DEF Accepted, LocalTrajectory, IsWinner, IsNamed, IsReported, Named,
                            Development
<1> QED BY <1>1, <1>2, <1>3, <1>4 DEF Studies, Sealed, Development

\* A step that leaves the answers alone leaves what is said of them.
LEMMA AnswersStay ==
  ASSUME UNCHANGED <<study, answers>>
  PROVE  /\ OnlyTheNamedAdapterAnswers => OnlyTheNamedAdapterAnswers'
         /\ \A c, contract : Finished(c, contract)' <=> Finished(c, contract)
         /\ \A c : Complete(c)' <=> Complete(c)
         /\ \A weights : Solved(weights)' = Solved(weights)
<1>1. OnlyTheNamedAdapterAnswers => OnlyTheNamedAdapterAnswers'
  BY DEF OnlyTheNamedAdapterAnswers
<1>2. \A c : Complete(c)' <=> Complete(c)
  BY DEF Complete
<1>3. \A c, contract : Resumable(c, contract)' <=> Resumable(c, contract)
  BY DEF Resumable
<1>4. \A weights : Solved(weights)' = Solved(weights)
  BY DEF Solved
<1> QED BY <1>1, <1>2, <1>3, <1>4 DEF Finished

\* Nothing of the generation moves.
LEMMA GenerationStays ==
  ASSUME Generating, UNCHANGED <<study, answers, stage, phase, todo, source, active>>
  PROVE  Generating'
BY DEF Generating, Selected, Current, CurrentContract, Resumable

LEMMA ScoresStay ==
  ASSUME ScoreIsTrue, UNCHANGED <<study, answers, score>>
  PROVE  ScoreIsTrue'
BY AnswersStay DEF ScoreIsTrue, Solved

LEMMA CountingStays ==
  ASSUME Counting, UNCHANGED <<study, answers, results, scoring>>
  PROVE  Counting'
BY AnswersStay DEF Counting, Countable

LEMMA VerifiedStay ==
  ASSUME Verified, UNCHANGED <<study, answers, stage, verified>>
  PROVE  Verified'
BY AnswersStay DEF Verified

----------------------------------------------------------------------------
LEMMA InitStudyInv ==
  ASSUME Init
  PROVE  StudyInv
<1>1. /\ answers = [c \in Candidates |-> <<>>] /\ score = [c \in Candidates |-> None]
      /\ stage = [c \in Candidates |-> None] /\ results = [c \in Candidates |-> None]
      /\ phase = "idle" /\ scoring = None /\ verified = {} /\ study \in Studies
  BY StudyAssumption DEF Init, Empty
<1>2. \A c \in Candidates : answers[c] = <<>> /\ score[c] = None
  BY <1>1
<1>3. Tasks[study] \in Seq(DOMAIN Suite)
  BY <1>1, StudyAssumption
<1>4. Shape
  BY <1>1, <1>2, <1>3 DEF Shape
<1>5. Generating /\ Counting /\ Verified
  BY <1>1 DEF Generating, Counting, Verified
<1>6. OnlyTheNamedAdapterAnswers /\ ScoreIsTrue
  BY <1>2 DEF OnlyTheNamedAdapterAnswers, ScoreIsTrue
<1> QED BY <1>4, <1>5, <1>6 DEF StudyInv

----------------------------------------------------------------------------
(* Generation *)

LEMMA LaunchInv ==
  ASSUME StudyInv, NEW c \in Candidates, NEW t \in Trainings, Launch(c, t)
  PROVE  StudyInv'
<1>1. /\ UNCHANGED <<study, answers, stage, results, score, scoring, verified>>
      /\ phase' = "open" /\ source' = t /\ c.study = study /\ Accepted(t, c) /\ Open(c)
      /\ todo' = IF study \in Development THEN Trajectory(c) ELSE {c}
  BY DEF Launch, files
<1>2. Shape'
  BY <1>1 DEF StudyInv, Shape
<1>3. Generating'
  <2>1. \A d \in todo' : d \in Candidates /\ d.study = study /\ t.at[d.step] = Named(t, d)
    BY <1>1, AcceptedNames DEF StudyInv, Shape
  <2>2. todo' # {}
    BY <1>1 DEF Trajectory
  <2>3. study = "p0" => todo' = {c} /\ stage[c] = None
    BY <1>1 DEF Open, P0IsOpen, Development
  <2> QED BY <1>1, <2>1, <2>2, <2>3 DEF Generating, Named
<1> QED BY <1>1, <1>2, <1>3, AnswersStay, ScoresStay, CountingStays, VerifiedStay DEF StudyInv

\* A generation that ends, with the answers as they are.
LEMMA EndStep ==
  ASSUME StudyInv, End, UNCHANGED <<study, answers, stage, results, score, scoring, verified>>
  PROVE  StudyInv'
<1>1. Shape'
  BY DEF StudyInv, Shape
<1>2. Generating'
  BY DEF Generating, End
<1> QED BY <1>1, <1>2, AnswersStay, ScoresStay, CountingStays, VerifiedStay DEF StudyInv

LEMMA OpenDirectoryInv ==
  ASSUME StudyInv, OpenDirectory
  PROVE  StudyInv'
<1>1. /\ phase = "open"
      /\ UNCHANGED <<study, answers, stage, results, score, scoring, verified>>
  BY DEF OpenDirectory, files
<1>2. CASE Resumable(Current, CurrentContract)
  <2>1. phase' = "answer" /\ active' = Selected /\ UNCHANGED <<todo, source>>
    BY <1>2 DEF OpenDirectory
  <2>2. Shape'
    BY <1>1 DEF StudyInv, Shape
  <2>3. Generating'
    BY <1>1, <1>2, <2>1 DEF StudyInv, Generating, Selected, Current, CurrentContract, Resumable
  <2> QED BY <1>1, <2>2, <2>3, AnswersStay, ScoresStay, CountingStays, VerifiedStay DEF StudyInv
<1>3. CASE ~Resumable(Current, CurrentContract)
  BY <1>1, <1>3, EndStep DEF OpenDirectory
<1> QED BY <1>2, <1>3

\* One more answer is of the adapter that its contract names, as are all before it; and it
\* is not of a directory that was scored.
LEMMA AnswerInv ==
  ASSUME StudyInv, Answer
  PROVE  StudyInv'
<1> DEFINE row == [contract |-> CurrentContract, by |-> active]
<1>1. /\ phase = "answer" /\ Len(answers[Current]) < Len(Tasks[study])
      /\ answers' = [answers EXCEPT ![Current] = Append(answers[Current], row)]
      /\ UNCHANGED <<study, stage, results, score, phase, todo, source, active,
                     scoring, verified>>
  BY DEF Answer, gpu
<1>2. Current \in todo /\ Current \in Candidates /\ Current.study = study
  BY <1>1, CurrentIsToDo DEF StudyInv
<1>3. /\ source \in Trainings /\ active = Named(source, Current)
      /\ Resumable(Current, CurrentContract)
  BY <1>1, <1>2 DEF StudyInv, Generating, Selected
<1>4. /\ row.contract = CurrentContract /\ row.by = Named(source, Current)
      /\ row \in Checkpoints
  BY <1>2, <1>3 DEF CurrentContract, Contract, Checkpoints, Weights
<1>5. row = [contract |-> Contract(Current, Named(source, Current)),
             by |-> Named(source, Current)]
  BY <1>3 DEF CurrentContract
<1> HIDE DEF row
<1>6. answers[Current] \in Seq(Checkpoints) /\ Len(answers[Current]) \in Nat
  BY <1>2 DEF StudyInv, Shape
<1> DEFINE more == Append(answers[Current], row)
<1>7. /\ more \in Seq(Checkpoints) /\ Len(more) = Len(answers[Current]) + 1
      /\ \A n \in DOMAIN more :
            \/ n \in DOMAIN answers[Current] /\ more[n] = answers[Current][n]
            \/ n = Len(answers[Current]) + 1 /\ more[n] = row
      /\ DOMAIN more = 1 .. Len(more)
  BY <1>4, <1>6
<1>8. answers'[Current] = more /\ \A c \in Candidates \ {Current} : answers'[c] = answers[c]
  BY <1>1, <1>2 DEF StudyInv, Shape
<1> HIDE DEF more
<1>9. Tasks[study] \in Seq(DOMAIN Suite) /\ Len(Tasks[study]) \in Nat
  BY StudyAssumption DEF StudyInv, Shape
<1>10. Shape'
  <2>1. answers' \in [Candidates -> Seq(Checkpoints)]
    BY <1>1, <1>2, <1>7 DEF StudyInv, Shape, more
  <2>2. Len(answers'[Current]) <= Len(Tasks[study])
    BY <1>1, <1>6, <1>7, <1>8, <1>9
  <2> QED BY <1>1, <1>8, <2>1, <2>2 DEF StudyInv, Shape
<1>11. Generating'
  <2>1. Current' = Current /\ CurrentContract' = CurrentContract
    BY <1>1 DEF Current, CurrentContract
  <2>2. \A n \in DOMAIN more : more[n].contract = CurrentContract
    BY <1>3, <1>4, <1>7 DEF Resumable
  <2>3. Resumable(Current, CurrentContract)'
    BY <1>8, <2>1, <2>2 DEF Resumable
  <2> QED BY <1>1, <2>1, <2>3 DEF StudyInv, Generating, Selected
<1>12. OnlyTheNamedAdapterAnswers'
  <2>1. ASSUME NEW c \in Candidates \ {Current}, NEW n \in DOMAIN answers'[c]
        PROVE  LET weights == answers'[c][1].contract.weights IN
               /\ answers'[c][n] = [contract |-> Contract(c, weights), by |-> weights]
               /\ study # "distilled" => weights = Pinned[c]
               /\ n \in DOMAIN Tasks[study]
    BY <1>8 DEF StudyInv, OnlyTheNamedAdapterAnswers
  <2>2. ASSUME NEW n \in DOMAIN more
        PROVE  /\ more[n] = row
               /\ row.contract.weights = Named(source, Current)
               /\ study # "distilled" => Named(source, Current) = Pinned[Current]
               /\ n \in DOMAIN Tasks[study]
    <3>1. CASE n \in DOMAIN answers[Current] /\ more[n] = answers[Current][n]
      <4> DEFINE w == answers[Current][1].contract.weights
      <4>1. answers[Current][n] = [contract |-> Contract(Current, w), by |-> w]
        BY <1>2, <3>1 DEF StudyInv, OnlyTheNamedAdapterAnswers
      <4>2. answers[Current][n].contract = CurrentContract
        BY <1>3, <3>1 DEF Resumable
      <4> HIDE DEF w
      <4>3. w = Named(source, Current)
        BY <4>1, <4>2 DEF CurrentContract, Contract
      <4> QED BY <1>2, <1>5, <3>1, <4>1, <4>3 DEF StudyInv, OnlyTheNamedAdapterAnswers, Named, Contract
    <3>2. CASE n = Len(answers[Current]) + 1 /\ more[n] = row
      <4>1. n \in DOMAIN Tasks[study]
        BY <1>1, <1>6, <1>9, <3>2
      <4> QED BY <1>2, <1>5, <3>2, <4>1 DEF Named, Contract
    <3> QED BY <1>7, <3>1, <3>2
  <2>3. \A n \in DOMAIN more : more[1] = row
    <3>1. \A n \in DOMAIN more : 1 \in DOMAIN more
      BY <1>6, <1>7
    <3> QED BY <2>2, <3>1
  <2>4. ASSUME NEW n \in DOMAIN answers'[Current]
        PROVE  LET weights == answers'[Current][1].contract.weights IN
               /\ answers'[Current][n] = [contract |-> Contract(Current, weights), by |-> weights]
               /\ study # "distilled" => weights = Pinned[Current]
               /\ n \in DOMAIN Tasks[study]
    BY <1>5, <1>8, <2>2, <2>3
  <2> QED BY <1>1, <2>1, <2>4 DEF OnlyTheNamedAdapterAnswers, Contract
<1>13. \A c \in Candidates : Complete(c) => c # Current
  BY <1>1, <1>6, <1>9 DEF Complete
<1>14. /\ \A c \in Candidates : Complete(c) => Complete(c)'
       /\ \A c \in Candidates : \A contract : Finished(c, contract) => Finished(c, contract)'
  BY <1>1, <1>8, <1>13 DEF Complete, Finished, Resumable
<1>15. \A weights : Solved(weights)' = Solved(weights)
  BY <1>1 DEF Solved
<1>16. Counting'
  BY <1>1, <1>14, <1>15 DEF StudyInv, Counting, Countable
<1>17. ScoreIsTrue'
  BY <1>1, <1>8, <1>13, <1>15 DEF StudyInv, ScoreIsTrue, Complete
<1>18. Verified'
  BY <1>1, <1>14 DEF StudyInv, Verified
<1> QED BY <1>10, <1>11, <1>12, <1>16, <1>17, <1>18 DEF StudyInv

LEMMA WriteRuntimeInv ==
  ASSUME StudyInv, WriteRuntime
  PROVE  StudyInv'
<1>1. /\ phase = "answer" /\ phase' = "stage"
      /\ UNCHANGED <<study, answers, stage, results, score, todo, source, scoring, verified>>
  BY DEF WriteRuntime, Answered
<1>2. Shape'
  BY <1>1 DEF StudyInv, Shape
<1>3. Generating'
  BY <1>1 DEF StudyInv, Generating, Named
<1> QED BY <1>1, <1>2, <1>3, AnswersStay, ScoresStay, CountingStays, VerifiedStay DEF StudyInv

\* The stage is that of the candidate just answered: of P0, one without a stage, and so
\* none that was verified.
LEMMA WriteStageInv ==
  ASSUME StudyInv, WriteStage
  PROVE  StudyInv'
<1>1. /\ phase # "idle"
      /\ stage' = [stage EXCEPT ![Current] = StageOf(Current, CurrentContract, commit)]
      /\ UNCHANGED <<study, answers, results, score, scoring, verified>>
      /\ \/ End
         \/ todo # {Current} /\ phase' = "open" /\ todo' = todo \ {Current} /\ source' = source
  BY DEF WriteStage, Answered, End
<1>2. Current \in todo /\ Current \in Candidates /\ Current.study = study
  BY <1>1, CurrentIsToDo DEF StudyInv
<1>3. Shape'
  BY <1>1 DEF StudyInv, Shape
<1>4. \A c \in Candidates \ {Current} : stage'[c] = stage[c]
  BY <1>1 DEF StudyInv, Shape
<1>5. Generating'
  <2>1. CASE End
    BY <2>1 DEF Generating, End
  <2>2. CASE phase' = "open" /\ todo' = todo \ {Current} /\ source' = source /\ todo # {Current}
    <3>1. todo' # {} /\ todo' \in SUBSET todo /\ todo \in SUBSET Candidates
      BY <1>1, <1>2, <2>2 DEF StudyInv, Generating
    <3>2. \A c \in todo' : stage'[c] = stage[c]
      BY <1>4, <2>2, <3>1
    <3> QED BY <1>1, <2>2, <3>1, <3>2 DEF StudyInv, Generating, Named
  <2> QED BY <1>1, <2>1, <2>2
<1>6. Verified'
  <2>1. study = "p0" => stage[Current] = None
    BY <1>1, <1>2 DEF StudyInv, Generating
  <2> QED BY <1>1, <1>4, <2>1, AnswersStay DEF StudyInv, Verified
<1> QED BY <1>1, <1>3, <1>5, <1>6, AnswersStay, ScoresStay, CountingStays DEF StudyInv

LEMMA StopGenerationInv ==
  ASSUME StudyInv, StopGeneration
  PROVE  StudyInv'
BY EndStep DEF StopGeneration, files

----------------------------------------------------------------------------
(* Scoring *)

\* A step of the scoring process that changes no score.
LEMMA ScoringStep ==
  ASSUME StudyInv, Counting', DOMAIN results' = Candidates,
         UNCHANGED <<study, answers, stage, score, phase, todo, source, active, verified>>
  PROVE  StudyInv'
<1>1. Shape'
  BY DEF StudyInv, Shape
<1> QED BY <1>1, AnswersStay, GenerationStays, ScoresStay, VerifiedStay DEF StudyInv

LEMMA StartScoringInv ==
  ASSUME StudyInv, NEW c \in Candidates, NEW t \in Trainings, StartScoring(c, t)
  PROVE  StudyInv'
<1>1. /\ c.study = study
      /\ scoring' = [at |-> "load", of |-> c, contract |-> Expects(c, t),
                     head |-> head, passed |-> {}]
      /\ UNCHANGED <<study, answers, stage, results, score, phase, todo, source, active,
                     verified>>
  BY DEF StartScoring, files, gpu
<1>2. Expects(c, t).of = c /\ (study # "distilled" => Expects(c, t).weights = Pinned[c])
  BY <1>1 DEF Expects, Contract, Named
<1>3. Counting'
  BY <1>1, <1>2 DEF Counting
<1> QED BY <1>1, <1>3, ScoringStep DEF StudyInv, Shape

\* All answers of a directory that is finished are of the adapter of its contract.
LEMMA FinishedAnswers ==
  ASSUME StudyInv, NEW c \in Candidates, NEW contract,
         Finished(c, contract)
  PROVE  /\ DOMAIN answers[c] = DOMAIN Tasks[study]
         /\ \A n \in DOMAIN answers[c] : answers[c][n].by = contract.weights
         /\ PassedOf(answers[c]) = Solved(contract.weights)
<1>1. answers[c] \in Seq(Checkpoints) /\ Tasks[study] \in Seq(DOMAIN Suite)
  BY StudyAssumption DEF StudyInv, Shape
<1>2. DOMAIN answers[c] = DOMAIN Tasks[study]
  BY <1>1 DEF Finished, Complete
<1>3. ASSUME NEW n \in DOMAIN answers[c]
      PROVE  answers[c][n].by = contract.weights
  <2> DEFINE w == answers[c][1].contract.weights
  <2>1. answers[c][n] = [contract |-> Contract(c, w), by |-> w]
    BY DEF StudyInv, OnlyTheNamedAdapterAnswers
  <2>2. answers[c][n].contract = contract
    BY DEF Finished, Resumable
  <2> HIDE DEF w
  <2> QED BY <2>1, <2>2 DEF Contract
<1> QED BY <1>2, <1>3 DEF PassedOf, Solved

LEMMA LoadAnswersInv ==
  ASSUME StudyInv, LoadAnswers
  PROVE  StudyInv'
<1> DEFINE c == scoring.of
           counted == [scoring EXCEPT !.at = "results", !.passed = PassedOf(answers[c])]
<1>1. /\ scoring # None /\ c \in Candidates
      /\ UNCHANGED <<study, answers, stage, results, score, phase, todo, source, active,
                     verified>>
  BY DEF LoadAnswers, Scoring, StudyInv, Counting, files, gpu
<1>2. CASE scoring' = None
  BY <1>1, <1>2, ScoringStep DEF Counting, StudyInv, Shape
<1>3. CASE Complete(c) /\ Resumable(c, scoring.contract) /\ scoring' = counted
  <2>1. Finished(c, scoring.contract)
    BY <1>3 DEF Finished
  <2>2. PassedOf(answers[c]) = Solved(scoring.contract.weights)
    BY <1>1, <2>1, FinishedAnswers
  <2>3. /\ DOMAIN scoring' = {"at", "of", "contract", "head", "passed"}
        /\ scoring'.at = "results" /\ scoring'.of = c
        /\ scoring'.contract = scoring.contract
        /\ scoring'.passed = Solved(scoring.contract.weights)
    BY <1>1, <1>3, <2>2 DEF StudyInv, Counting
  <2>4. Counting'
    BY <1>1, <2>1, <2>3, AnswersStay DEF StudyInv, Counting
  <2> QED BY <1>1, <2>4, ScoringStep DEF StudyInv, Shape
<1> QED BY <1>2, <1>3 DEF LoadAnswers

LEMMA WriteResultsInv ==
  ASSUME StudyInv, NEW errors \in SUBSET DOMAIN Tasks[study], WriteResults(errors)
  PROVE  StudyInv'
<1>1. /\ scoring # None /\ scoring.at = "results"
      /\ UNCHANGED <<study, answers, stage, score, phase, todo, source, active, verified>>
  BY DEF WriteResults, Scoring, gpu
<1>2. CASE scoring' = None /\ results' = results
  BY <1>1, <1>2, ScoringStep DEF Counting, StudyInv, Shape
<1>3. CASE /\ results' = [results EXCEPT ![scoring.of] =
                             [passed |-> scoring.passed \ errors, errors |-> errors]]
           /\ scoring' = [scoring EXCEPT !.at = "score"]
  <2>1. /\ DOMAIN scoring' = {"at", "of", "contract", "head", "passed"}
        /\ scoring'.at = "score" /\ scoring'.of = scoring.of
        /\ scoring'.contract = scoring.contract /\ scoring'.passed = scoring.passed
    BY <1>1, <1>3 DEF StudyInv, Counting
  <2>2. /\ DOMAIN results' = Candidates
        /\ results'[scoring.of] = [passed |-> scoring.passed \ errors, errors |-> errors]
    BY <1>1, <1>3 DEF StudyInv, Shape, Counting
  <2>3. Countable(results'[scoring.of]) => results'[scoring.of].passed = scoring.passed
    BY <2>2 DEF Countable
  <2>4. Counting'
    BY <1>1, <2>1, <2>3, AnswersStay DEF StudyInv, Counting, Countable
  <2> QED BY <1>1, <2>2, <2>4, ScoringStep
<1> QED BY <1>2, <1>3 DEF WriteResults

\* A score is that of the adapter its contract names, on all the tasks: no result with an
\* error is counted.
LEMMA WriteScoreInv ==
  ASSUME StudyInv, WriteScore
  PROVE  StudyInv'
<1> DEFINE c == scoring.of
           w == scoring.contract.weights
<1>1. /\ scoring # None /\ scoring.at = "score" /\ c \in Candidates
      /\ scoring.contract.of = c /\ (study # "distilled" => w = Pinned[c])
      /\ Finished(c, scoring.contract) /\ scoring.passed = Solved(w)
      /\ UNCHANGED <<study, answers, stage, results, phase, todo, source, active, verified>>
  BY DEF WriteScore, Scoring, StudyInv, Counting, gpu
<1>2. CASE scoring' = None /\ score' = score
  BY <1>1, <1>2, ScoringStep DEF Counting, StudyInv, Shape
<1>3. CASE /\ score' = [score EXCEPT ![c] = ScoreOf(scoring, scoring.passed)]
           /\ scoring' = None \/ scoring' = [scoring EXCEPT !.at = "seal"]
  <2>1. Counting'
    <3>1. CASE scoring' = None
      BY <3>1 DEF Counting
    <3>2. CASE scoring' = [scoring EXCEPT !.at = "seal"]
      <4>1. /\ DOMAIN scoring' = {"at", "of", "contract", "head", "passed"}
            /\ scoring'.at = "seal" /\ scoring'.of = scoring.of
            /\ scoring'.contract = scoring.contract
        BY <1>1, <3>2 DEF StudyInv, Counting
      <4> QED BY <1>1, <4>1 DEF StudyInv, Counting
    <3> QED BY <1>3, <3>1, <3>2
  <2>2. /\ DOMAIN score' = Candidates
        /\ \A d \in Candidates \ {c} : score'[d] = score[d]
        /\ score'[c].contract = scoring.contract /\ score'[c].passed = Solved(w)
    BY <1>1, <1>3 DEF StudyInv, Shape, ScoreOf
  <2>3. Shape'
    BY <1>1, <2>2 DEF StudyInv, Shape
  <2>4. /\ Len(answers[c]) = Len(Tasks[study])
        /\ \A n \in DOMAIN answers[c] : answers[c][n].by = w
    BY <1>1, FinishedAnswers DEF Finished, Complete
  <2>5. \A weights : Solved(weights)' = Solved(weights)
    BY <1>1, AnswersStay
  <2> HIDE DEF c, w
  <2>6. ScoreIsTrue'
    BY <1>1, <2>2, <2>4, <2>5 DEF StudyInv, ScoreIsTrue, c, w
  <2> QED BY <1>1, <2>1, <2>3, <2>6, AnswersStay, GenerationStays, VerifiedStay DEF StudyInv
<1>4. study \in Sealed /\ Countable(results[c]) => results[c].passed = scoring.passed
  BY <1>1 DEF StudyInv, Counting
<1> QED BY <1>1, <1>2, <1>3, <1>4 DEF WriteScore, WriteComparison, WriteScoreFile

\* Only a scored candidate is verified, of P0 one with a stage.
LEMMA VerifyInv ==
  ASSUME StudyInv, NEW c \in Candidates, NEW t \in Trainings, Verify(c, t)
  PROVE  StudyInv'
<1>1. /\ verified' = verified \cup {c} /\ score[c] # None
      /\ study = "p0" => stage[c] # None
      /\ UNCHANGED <<study, answers, stage, results, score, phase, todo, source, active,
                     scoring>>
  BY DEF Verify, P0Verified, RankVerified, QualificationVerified, StageAccepted, Recounted,
         files, gpu
<1>2. Complete(c)
  BY <1>1 DEF StudyInv, ScoreIsTrue, Complete
<1>3. Verified'
  BY <1>1, <1>2, AnswersStay DEF StudyInv, Verified
<1>4. Shape'
  BY <1>1 DEF StudyInv, Shape
<1> QED BY <1>1, <1>3, <1>4, AnswersStay, GenerationStays, ScoresStay, CountingStays
        DEF StudyInv

\* Sealing, selecting and a checkout touch nothing of this.
LEMMA QuietStep ==
  ASSUME StudyInv, UNCHANGED <<study, answers, stage, results, score, phase, todo, source,
                               active, scoring, verified>>
  PROVE  StudyInv'
<1>1. Counting'
  BY CountingStays DEF StudyInv
<1> QED BY <1>1, ScoringStep DEF StudyInv, Shape

LEMMA SealInv ==
  ASSUME StudyInv, Seal \/ StopScoring
  PROVE  StudyInv'
<1>1. /\ scoring' = None
      /\ UNCHANGED <<study, answers, stage, results, score, phase, todo, source, active,
                     verified>>
  BY DEF Seal, StopScoring, files, gpu
<1>2. Counting'
  BY <1>1 DEF Counting
<1> QED BY <1>1, <1>2, ScoringStep DEF StudyInv, Shape

----------------------------------------------------------------------------
LEMMA NextStudyInv ==
  ASSUME StudyInv, [Next]_vars
  PROVE  StudyInv'
<1>1. CASE \E c \in Candidates, t \in Trainings :
              Launch(c, t) \/ StartScoring(c, t) \/ Verify(c, t)
  BY <1>1, LaunchInv, StartScoringInv, VerifyInv
<1>2. CASE OpenDirectory \/ Answer \/ WriteRuntime \/ WriteStage \/ StopGeneration
  BY <1>2, OpenDirectoryInv, AnswerInv, WriteRuntimeInv, WriteStageInv, StopGenerationInv
<1>3. CASE LoadAnswers \/ \E errors \in SUBSET DOMAIN Tasks[study] : WriteResults(errors)
  BY <1>3, LoadAnswersInv, WriteResultsInv
<1>4. CASE WriteScore \/ Seal \/ StopScoring
  BY <1>4, WriteScoreInv, SealInv
<1>5. CASE Select \/ \E sha \in Commits : Checkout(sha)
  BY <1>5, QuietStep DEF Select, Checkout, files, gpu
<1>6. CASE UNCHANGED vars
  BY <1>6, QuietStep DEF vars, files, gpu
<1> QED BY <1>1, <1>2, <1>3, <1>4, <1>5, <1>6 DEF Next

\* However generations and scorings are stopped and taken up again, and whatever training
\* output is given to each: all answers in a directory are of the one adapter that their
\* contract names, the pinned one where one is pinned.
THEOREM OnlyTheNamedAdapter ==
  Spec => []OnlyTheNamedAdapterAnswers
<1>1. Init => StudyInv
  BY InitStudyInv
<1>2. StudyInv /\ [Next]_vars => StudyInv'
  BY NextStudyInv
<1>3. StudyInv => OnlyTheNamedAdapterAnswers
  BY DEF StudyInv
<1> QED BY <1>1, <1>2, <1>3, PTL DEF Spec

\* Every score counts what the adapter it names passes of all tasks of its study, with no
\* error of the harness and no missing answer in it.
THEOREM ScoresAreTrue ==
  Spec => []ScoreIsTrue
<1>1. Init => StudyInv
  BY InitStudyInv
<1>2. StudyInv /\ [Next]_vars => StudyInv'
  BY NextStudyInv
<1>3. StudyInv => ScoreIsTrue
  BY DEF StudyInv
<1> QED BY <1>1, <1>2, <1>3, PTL DEF Spec

\* The actions that write answers, runtime metadata or stages.
LEMMA OnlyGenerationWrites ==
  ASSUME [Next]_vars, ~Answer, ~WriteRuntime, ~WriteStage
  PROVE  UNCHANGED <<answers, runtime, stage>>
<1>1. CASE \E c \in Candidates, t \in Trainings :
              Launch(c, t) \/ StartScoring(c, t) \/ Verify(c, t)
  BY <1>1 DEF Launch, StartScoring, Verify, files
<1>2. CASE OpenDirectory \/ StopGeneration
  BY <1>2 DEF OpenDirectory, StopGeneration, files
<1>3. CASE LoadAnswers \/ \E errors \in SUBSET DOMAIN Tasks[study] : WriteResults(errors)
  BY <1>3 DEF LoadAnswers, WriteResults, files
<1>4. CASE WriteScore \/ Seal \/ StopScoring
  BY <1>4 DEF WriteScore, Seal, StopScoring, files
<1>5. CASE Select \/ \E sha \in Commits : Checkout(sha)
  BY <1>5 DEF Select, Checkout, files
<1>6. CASE UNCHANGED vars
  BY <1>6 DEF vars, files
<1> QED BY <1>1, <1>2, <1>3, <1>4, <1>5, <1>6 DEF Next

RuntimeShape == DOMAIN runtime = Candidates

LEMMA RuntimeShapeStays ==
  ASSUME RuntimeShape, [Next]_vars
  PROVE  RuntimeShape'
<1>1. CASE Answer \/ WriteStage
  BY <1>1 DEF Answer, WriteStage, RuntimeShape
<1>2. CASE WriteRuntime
  BY <1>2 DEF WriteRuntime, RuntimeShape
<1> QED BY <1>1, <1>2, OnlyGenerationWrites DEF RuntimeShape

\* What a generation writes is of a candidate that was not verified, or, of the rank
\* sweep, not an answer.
LEMMA EvidenceStaysInAStep ==
  ASSUME StudyInv, RuntimeShape, [Next]_vars, NEW c \in verified
  PROVE  /\ answers'[c] = answers[c]
         /\ study = "p0" => runtime'[c] = runtime[c] /\ stage'[c] = stage[c]
<1>1. c \in Candidates /\ Complete(c) /\ (study = "p0" => stage[c] # None)
  BY DEF StudyInv, Verified
<1>2. CASE Answer
  <2>1. /\ answers' = [answers EXCEPT ![Current] = Append(answers[Current],
                          [contract |-> CurrentContract, by |-> active])]
        /\ Len(answers[Current]) < Len(Tasks[study])
        /\ UNCHANGED <<runtime, stage>> /\ phase # "idle"
    BY <1>2 DEF Answer
  <2>2. Current \in Candidates
    BY <2>1, CurrentIsToDo DEF StudyInv
  <2>3. Len(answers[Current]) \in Nat
    BY <2>2 DEF StudyInv, Shape
  <2>4. c # Current
    BY <1>1, <2>1, <2>3 DEF Complete
  <2> QED BY <1>1, <2>1, <2>4 DEF StudyInv, Shape
<1>3. CASE WriteRuntime \/ WriteStage
  <2>1. /\ phase # "idle" /\ UNCHANGED answers
        /\ \/ stage' = [stage EXCEPT ![Current] = StageOf(Current, CurrentContract, commit)]
              /\ UNCHANGED runtime
           \/ runtime' = [runtime EXCEPT ![Current] = launches] /\ UNCHANGED stage
    BY <1>3 DEF WriteRuntime, WriteStage, Answered
  <2>2. Current \in todo
    BY <2>1, CurrentIsToDo DEF StudyInv
  <2>3. study = "p0" => c # Current
    BY <1>1, <2>1, <2>2 DEF StudyInv, Generating
  <2> QED BY <1>1, <2>1, <2>3 DEF StudyInv, Shape, RuntimeShape
<1> QED BY <1>2, <1>3, OnlyGenerationWrites

\* What a verified evaluation rests on is never generated again.
THEOREM VerifiedEvidenceIsKept ==
  Spec => VerifiedEvidenceStays
<1>1. Init => StudyInv /\ RuntimeShape
  BY InitStudyInv DEF Init, Empty, RuntimeShape
<1>2. StudyInv /\ RuntimeShape /\ [Next]_vars => (StudyInv /\ RuntimeShape)'
  BY NextStudyInv, RuntimeShapeStays
<1>3. StudyInv /\ RuntimeShape /\ [Next]_vars =>
        [\A c \in verified : /\ answers'[c] = answers[c]
                             /\ study = "p0" => /\ runtime'[c] = runtime[c]
                                                /\ stage'[c] = stage[c]]_vars
  BY EvidenceStaysInAStep
<1> QED BY <1>1, <1>2, <1>3, PTL DEF Spec, VerifiedEvidenceStays

----------------------------------------------------------------------------
(* One training for each trajectory *)

\* Training t is accepted for c, and of what else is in its trajectory, but for what is
\* given, all answers are there under contracts that name the weights of t.
Traced(c, t, given) ==
    /\ Accepted(t, c)
    /\ \A d \in Trajectory(c) \ given : Finished(d, Contract(d, Named(t, d)))

After(c) == {d \in Candidates : d.step > c.step}

OfOneTraining(c) == \E t \in Trainings : Traced(c, t, After(c))

TracedInv ==
    study \in Development =>
        /\ phase # "idle" => \A c \in todo :
             /\ Traced(c, source, todo)
             /\ \A d \in Trajectory(c) \ todo : d.step < c.step
        /\ \A c \in Candidates : stage[c] # None =>
             /\ c.study = study
             /\ OfOneTraining(c)

ScoredInv ==
    study \in Development =>
        /\ scoring # None => OfOneTraining(scoring.of)
        /\ \A c \in Candidates : score[c] # None => OfOneTraining(c)

\* A step of a trajectory is one candidate.
LEMMA StepsDiffer ==
  ASSUME NEW c \in Candidates, NEW d \in Trajectory(c), c # d
  PROVE  d \in Candidates /\ d.study = c.study /\ d.step # c.step /\ Trajectory(d) = Trajectory(c)
BY StudyAssumption DEF Trajectory

\* What is accepted for one of a trajectory is accepted for all.
LEMMA AcceptedForAll ==
  ASSUME NEW c \in Candidates, c.study \in Development, NEW t, Accepted(t, c),
         NEW d \in Trajectory(c)
  PROVE  Accepted(t, d)
<1>1. d \in Candidates /\ d.study = c.study /\ Trajectory(d) = Trajectory(c)
  BY DEF Trajectory
<1>2. CASE c.study = "minimum"
  BY <1>1, <1>2 DEF Accepted, RegisteredTrajectory
<1>3. CASE c.study = "distilled"
  BY <1>1, <1>3 DEF Accepted, LocalTrajectory
<1> QED BY <1>2, <1>3 DEF Development

\* A directory that is finished stays so: its answers are never written again.
LEMMA FinishedStays ==
  ASSUME StudyInv, [Next]_vars, NEW c \in Candidates, NEW contract, Finished(c, contract)
  PROVE  Finished(c, contract)' /\ answers'[c] = answers[c] /\ study' = study
<1>1. study' = study
  BY DEF Next, Launch, StartScoring, Verify, OpenDirectory, Answer, WriteRuntime, WriteStage,
         StopGeneration, LoadAnswers, WriteResults, WriteScore, Seal, StopScoring, Select,
         Checkout, vars
<1>2. answers'[c] = answers[c]
  <2>1. CASE Answer
    <3>1. /\ answers' = [answers EXCEPT ![Current] = Append(answers[Current],
                            [contract |-> CurrentContract, by |-> active])]
          /\ Len(answers[Current]) < Len(Tasks[study])
          /\ phase # "idle"
      BY <2>1 DEF Answer
    <3>2. Current \in Candidates
      BY <3>1, CurrentIsToDo DEF StudyInv
    <3>3. Len(answers[Current]) \in Nat /\ Len(answers[c]) = Len(Tasks[study])
      BY <3>2 DEF StudyInv, Shape, Finished, Complete
    <3>4. c # Current
      BY <3>1, <3>3
    <3> QED BY <3>1, <3>4 DEF StudyInv, Shape
  <2>2. CASE WriteRuntime \/ WriteStage
    BY <2>2 DEF WriteRuntime, WriteStage
  <2> QED BY <2>1, <2>2, OnlyGenerationWrites
<1> QED BY <1>1, <1>2 DEF Finished, Complete, Resumable

\* Nothing undoes what is traced.
LEMMA TracedStays ==
  ASSUME StudyInv, [Next]_vars, NEW c \in Candidates, NEW t, NEW given, Traced(c, t, given)
  PROVE  Traced(c, t, given)'
<1>1. \A d \in Trajectory(c) \ given : d \in Candidates
  BY DEF Trajectory
<1>2. ASSUME NEW d \in Trajectory(c) \ given
      PROVE  Finished(d, Contract(d, Named(t, d)))'
  BY <1>1, FinishedStays DEF Traced
<1> QED BY <1>2 DEF Traced

\* What stays when neither stages nor the generating process move.
LEMMA TracedFrame ==
  ASSUME StudyInv, TracedInv, [Next]_vars, study' = study, UNCHANGED stage,
         phase' # "idle" => phase # "idle" /\ UNCHANGED <<todo, source>>
  PROVE  TracedInv'
<1>1. \A c \in todo : phase # "idle" => c \in Candidates
  BY DEF StudyInv, Generating
<1>2. ASSUME study \in Development, phase' # "idle", NEW c \in todo'
      PROVE  /\ Traced(c, source, todo)'
             /\ \A d \in Trajectory(c) \ todo' : d.step < c.step
  <2>1. c \in todo /\ c \in Candidates /\ Traced(c, source, todo)
    BY <1>1, <1>2 DEF TracedInv
  <2>2. \A t, given : Traced(c, t, given) => Traced(c, t, given)'
    BY <2>1, TracedStays
  <2> QED BY <1>2, <2>1, <2>2 DEF TracedInv, Traced
<1>3. ASSUME study \in Development, NEW c \in Candidates, stage'[c] # None
      PROVE  c.study = study /\ \E t \in Trainings : Traced(c, t, After(c))'
  BY <1>3, TracedStays DEF TracedInv, OfOneTraining
<1> QED BY <1>2, <1>3 DEF TracedInv, OfOneTraining

\* A launch is given a training for the whole trajectory, and nothing is done of it yet.
LEMMA LaunchTraced ==
  ASSUME StudyInv, TracedInv, NEW c \in Candidates, NEW t \in Trainings, Launch(c, t)
  PROVE  TracedInv'
<1>1. /\ phase = "idle" /\ c.study = study /\ Accepted(t, c) /\ source' = t
      /\ todo' = (IF study \in Development THEN Trajectory(c) ELSE {c})
      /\ UNCHANGED <<study, answers, stage>>
  BY DEF Launch, files
<1>2. [Next]_vars
  BY DEF Next
<1>3. ASSUME study \in Development, NEW d \in todo'
      PROVE  /\ Traced(d, source, todo)'
             /\ \A e \in Trajectory(d) \ todo' : e.step < d.step
  <2>1. todo' = Trajectory(c) /\ d \in Trajectory(c) /\ Trajectory(d) = Trajectory(c)
    BY <1>1, <1>3 DEF Trajectory
  <2>2. Accepted(t, d)
    BY <1>1, <1>3, <2>1, AcceptedForAll
  <2> QED BY <1>1, <2>1, <2>2 DEF Traced
<1>4. ASSUME study \in Development, NEW d \in Candidates, stage'[d] # None
      PROVE  d.study = study /\ \E r \in Trainings : Traced(d, r, After(d))'
  BY <1>1, <1>2, <1>4, TracedStays DEF TracedInv, OfOneTraining
<1> QED BY <1>1, <1>3, <1>4 DEF TracedInv, OfOneTraining

LEMMA OpenDirectoryTraced ==
  ASSUME StudyInv, TracedInv, OpenDirectory
  PROVE  TracedInv'
<1>1. /\ phase # "idle" /\ UNCHANGED <<study, stage>>
      /\ phase' # "idle" => UNCHANGED <<todo, source>>
  BY DEF OpenDirectory, End, files
<1> QED BY <1>1, TracedFrame DEF Next

\* The candidate whose stage is written has all its answers, and so has what came before.
LEMMA WriteStageTraced ==
  ASSUME StudyInv, TracedInv, WriteStage
  PROVE  TracedInv'
<1> SUFFICES ASSUME study \in Development PROVE TracedInv'
  BY DEF TracedInv, WriteStage
<1>0. [Next]_vars
  BY DEF Next
<1>1. /\ Answered /\ phase # "idle" /\ UNCHANGED <<study, answers>>
      /\ stage' = [stage EXCEPT ![Current] = StageOf(Current, CurrentContract, commit)]
      /\ phase' # "idle" => todo' = todo \ {Current} /\ UNCHANGED source
  BY DEF WriteStage, Development, Sealed, End, Answered
<1>2. Current \in todo /\ Current \in Candidates /\ Current.study = study
  BY <1>1, CurrentIsToDo DEF StudyInv
<1>3. Finished(Current, CurrentContract)
  BY <1>1 DEF StudyInv, Generating, Answered, Finished, Complete
<1>4. CurrentContract = Contract(Current, Named(source, Current)) /\ source \in Trainings
  BY <1>1 DEF CurrentContract, StudyInv, Generating
<1>5. \A d \in todo : d \in Candidates /\ Current.step <= d.step
  <2>1. todo \in SUBSET Candidates /\ todo # {}
    BY <1>1 DEF StudyInv, Generating
  <2> DEFINE steps == [c \in todo |-> c.step]
  <2>2. steps \in [todo -> Nat] /\ \A c \in todo : steps[c] = c.step
    BY <2>1, StudyAssumption
  <2> HIDE DEF steps
  <2>3. PICK c \in todo : \A d \in todo : steps[c] <= steps[d]
    BY <2>1, <2>2, LeastOf
  <2>4. \E e \in todo : \A d \in todo : e.step <= d.step
    BY <2>2, <2>3
  <2>5. \A d \in todo : Current.step <= d.step
    BY <2>4 DEF Current, First
  <2> QED BY <2>1, <2>5
<1>6. \A d \in Candidates : d.step \in Nat
  BY StudyAssumption
<1>a. PICK at : at = Current
  OBVIOUS
<1>b. PICK t : t = source
  OBVIOUS
<1>7. ASSUME NEW c \in todo, NEW d \in Trajectory(c), d \notin todo \ {at}
      PROVE  Finished(d, Contract(d, Named(source, d))) /\ (c # at => d.step < c.step)
  <2>1. c \in Candidates /\ at \in Candidates
    BY <1>2, <1>5, <1>a
  <2>2. CASE d = at
    <3>1. c # at => d.step <= c.step /\ d.step # c.step
      BY <1>5, <1>7, <2>1, <2>2, StepsDiffer, <1>a
    <3> QED BY <1>3, <1>4, <1>6, <2>1, <2>2, <3>1, <1>a
  <2>3. CASE d # at
    BY <1>1, <1>7, <2>3 DEF TracedInv, Traced
  <2> QED BY <2>2, <2>3
<1>8. \A c \in todo : Accepted(source, c)
  BY <1>1 DEF TracedInv, Traced
<1>9. \A c, contract : Finished(c, contract)' <=> Finished(c, contract)
  BY <1>1, AnswersStay
<1>10. ASSUME phase' # "idle", NEW c \in todo'
       PROVE  /\ Traced(c, source, todo)'
              /\ \A d \in Trajectory(c) \ todo' : d.step < c.step
  <2>1. c \in todo /\ c # at /\ todo' = todo \ {at} /\ source' = source
    BY <1>1, <1>10, <1>a
  <2>2. \A d \in Trajectory(c) \ todo' :
          Finished(d, Contract(d, Named(source, d))) /\ d.step < c.step
    BY <1>7, <2>1
  <2> QED BY <1>8, <1>9, <2>1, <2>2 DEF Traced
<1>11. ASSUME NEW c \in Candidates, stage'[c] # None
       PROVE  c.study = study /\ OfOneTraining(c)'
  <2>1. CASE c = at
    <3>1. ASSUME NEW d \in Trajectory(at) \ After(at)
          PROVE  Finished(d, Contract(d, Named(source, d)))
      <4>1. d \in Candidates /\ d.step <= at.step
        BY <1>2, <1>6, <1>a DEF Trajectory, After
      <4>2. d \notin todo \ {at}
        BY <1>2, <1>5, <1>6, <4>1, StepsDiffer, <1>a
      <4> QED BY <1>2, <1>7, <4>2, <1>a
    <3>2. Traced(at, t, After(at))
      BY <1>2, <1>8, <1>b, <3>1, <1>a DEF Traced
    <3>3. Traced(at, t, After(at))'
      BY <1>9, <3>2 DEF Traced
    <3> QED BY <1>2, <1>4, <1>a, <1>b, <2>1, <3>3 DEF OfOneTraining
  <2>2. CASE c # at
    <3>1. stage'[c] = stage[c]
      BY <1>1, <1>11, <2>2, <1>a DEF StudyInv, Shape
    <3> QED BY <1>0, <1>11, <3>1, TracedStays DEF TracedInv, OfOneTraining
  <2> QED BY <2>1, <2>2
<1> QED BY <1>1, <1>10, <1>11 DEF TracedInv, OfOneTraining

LEMMA TracedStep ==
  ASSUME StudyInv, TracedInv, [Next]_vars
  PROVE  TracedInv'
<1>1. CASE WriteStage
  BY <1>1, WriteStageTraced
<1>2. ASSUME NEW c \in Candidates, NEW t \in Trainings, Launch(c, t) PROVE TracedInv'
  BY <1>2, LaunchTraced
<1>3. CASE OpenDirectory
  BY <1>3, OpenDirectoryTraced
<1>4. CASE Answer \/ WriteRuntime
  <2>1. /\ phase # "idle" /\ UNCHANGED <<study, stage, todo, source>>
    BY <1>4 DEF Answer, WriteRuntime, Answered, gpu
  <2> QED BY <2>1, TracedFrame
<1>5. CASE StopGeneration
  BY <1>5, TracedFrame DEF StopGeneration, End, files
<1>6. CASE UNCHANGED <<study, stage, gpu>>
  BY <1>6, TracedFrame DEF gpu
<1>7. ASSUME NEW c \in Candidates, NEW t \in Trainings, StartScoring(c, t) \/ Verify(c, t)
      PROVE  UNCHANGED <<study, stage, gpu>>
  BY <1>7 DEF StartScoring, Verify, files
<1>8. CASE \/ LoadAnswers \/ \E errors \in SUBSET DOMAIN Tasks[study] : WriteResults(errors)
           \/ WriteScore \/ Seal \/ StopScoring \/ Select \/ \E sha \in Commits : Checkout(sha)
           \/ UNCHANGED vars
  <2>1. UNCHANGED <<study, stage, gpu>>
    BY <1>8 DEF LoadAnswers, WriteResults, WriteScore, Seal, StopScoring, Select, Checkout,
                vars, files, gpu
  <2> QED BY <1>6, <2>1
<1> QED BY <1>1, <1>2, <1>3, <1>4, <1>5, <1>6, <1>7, <1>8 DEF Next

----------------------------------------------------------------------------
(* Scores are of stages, and a selection is of scores *)

LEMMA OneTrainingStays ==
  ASSUME StudyInv, [Next]_vars, NEW c \in Candidates, OfOneTraining(c)
  PROVE  OfOneTraining(c)'
BY TracedStays DEF OfOneTraining

LEMMA ScoredStep ==
  ASSUME StudyInv, TracedInv, ScoredInv, [Next]_vars
  PROVE  ScoredInv'
<1>1. study' = study
  BY DEF Next, Launch, StartScoring, Verify, OpenDirectory, Answer, WriteRuntime, WriteStage,
         StopGeneration, LoadAnswers, WriteResults, WriteScore, Seal, StopScoring, Select,
         Checkout, vars
<1>2. scoring # None => scoring.of \in Candidates
  BY DEF StudyInv, Counting
<1>3. /\ scoring' # None => scoring # None /\ scoring'.of = scoring.of
      /\ \A c \in Candidates : score'[c] # None =>
           score[c] # None \/ (scoring # None /\ c = scoring.of)
      => ScoredInv'
  BY <1>1, <1>2, OneTrainingStays DEF ScoredInv
<1>4. CASE UNCHANGED <<scoring, score>>
  BY <1>3, <1>4
<1>5. ASSUME NEW c \in Candidates, NEW t \in Trainings, StartScoring(c, t) PROVE ScoredInv'
  <2>1. /\ scoring'.of = c /\ score' = score /\ stage[c] # None
    BY <1>5 DEF StartScoring, StageAccepted, files
  <2>2. study \in Development => OfOneTraining(c)
    BY <2>1 DEF TracedInv
  <2> QED BY <1>1, <2>1, <2>2, OneTrainingStays DEF ScoredInv
<1>6. CASE LoadAnswers \/ (\E errors \in SUBSET DOMAIN Tasks[study] : WriteResults(errors))
  <2>1. score' = score /\ scoring # None
    BY <1>6 DEF LoadAnswers, WriteResults, Scoring, files
  <2>2. DOMAIN scoring = {"at", "of", "contract", "head", "passed"}
    BY <2>1 DEF StudyInv, Counting
  <2>3. scoring' # None => scoring'.of = scoring.of
    BY <1>6, <2>2 DEF LoadAnswers, WriteResults
  <2> QED BY <1>3, <2>1, <2>3
<1>7. CASE WriteScore
  <2>1. scoring # None /\ DOMAIN score = Candidates
    BY <1>7 DEF WriteScore, Scoring, StudyInv, Shape
  <2>2. DOMAIN scoring = {"at", "of", "contract", "head", "passed"}
    BY <2>1 DEF StudyInv, Counting
  <2>3. scoring' # None => scoring'.of = scoring.of
    BY <1>7, <2>2 DEF WriteScore, WriteComparison, WriteScoreFile
  <2>4. \A c \in Candidates : score'[c] # None => score[c] # None \/ c = scoring.of
    BY <1>7, <2>1 DEF WriteScore, WriteComparison, WriteScoreFile
  <2> QED BY <1>3, <2>1, <2>3, <2>4
<1>8. CASE Seal \/ StopScoring
  BY <1>3, <1>8 DEF Seal, StopScoring, files
<1>9. CASE \/ \E c \in Candidates, t \in Trainings : Launch(c, t) \/ Verify(c, t)
           \/ OpenDirectory \/ Answer \/ WriteRuntime \/ WriteStage \/ StopGeneration
           \/ Select \/ \E sha \in Commits : Checkout(sha)
           \/ UNCHANGED vars
  <2>1. UNCHANGED <<scoring, score>>
    BY <1>9 DEF Launch, Verify, OpenDirectory, Answer, WriteRuntime, WriteStage,
                StopGeneration, Select, Checkout, vars, files
  <2> QED BY <1>4, <2>1
<1> QED BY <1>5, <1>6, <1>7, <1>8, <1>9 DEF Next

\* A trajectory has a last step.
LEMMA LastOfTrajectory ==
  ASSUME NEW c \in Candidates
  PROVE  \E m \in Trajectory(c) : \A d \in Trajectory(c) : d \notin After(m)
<1> DEFINE T == Trajectory(c)
           Later(d) == {e \in T : e.step > d.step}
           f == [d \in T |-> Cardinality(Later(d))]
<1>1. T \in SUBSET Candidates /\ c \in T /\ IsFiniteSet(T) /\ \A d \in T : d.step \in Nat
  BY StudyAssumption, FS_Subset DEF Trajectory
<1>2. ASSUME NEW d \in T PROVE IsFiniteSet(Later(d)) /\ Cardinality(Later(d)) \in Nat
  <2>1. Later(d) \in SUBSET T
    OBVIOUS
  <2> HIDE DEF T, Later
  <2> QED BY <1>1, <2>1, FS_Subset, FS_CardinalityType
<1>3. f \in [T -> Nat] /\ \A d \in T : f[d] = Cardinality(Later(d))
  BY <1>2
<1> HIDE DEF f
<1>4. PICK m \in T : \A d \in T : f[m] <= f[d]
  <2> HIDE DEF T, Later
  <2> QED BY <1>1, <1>3, LeastOf
<1>5. ASSUME NEW d \in T, d.step > m.step PROVE FALSE
  <2>1. Later(d) \in SUBSET Later(m) /\ d \in Later(m) /\ d \notin Later(d)
    BY <1>1, <1>5
  <2> HIDE DEF T, Later
  <2>2. Cardinality(Later(d)) < Cardinality(Later(m))
    <3>1. Later(d) # Later(m)
      BY <2>1
    <3> QED BY <1>2, <2>1, <3>1, FS_Subset
  <2> QED BY <1>2, <1>3, <1>4, <2>2
<1>6. \A d \in T : d \notin After(m)
  BY <1>5 DEF After
<1> QED BY <1>6

\* Of scores that are all there, those of a trajectory are of one training.
LEMMA ScoresOfOneTraining ==
  ASSUME StudyInv, ScoredInv, study \in Development, NEW c \in Grid,
         \A d \in Grid : score[d] # None
  PROVE  \E t \in Trainings : \A d \in Trajectory(c) :
           /\ d \in Grid /\ IsNamed(t, d)
           /\ t.at[d.step] = score[d].contract.weights
<1>1. c \in Candidates /\ \A d \in Trajectory(c) : d \in Grid /\ d \in Candidates
  BY DEF Grid, Trajectory
<1>2. PICK m \in Trajectory(c) : \A d \in Trajectory(c) : d \notin After(m)
  BY <1>1, LastOfTrajectory
<1>3. PICK t \in Trainings : Traced(m, t, After(m))
  BY <1>1 DEF ScoredInv, OfOneTraining
<1>4. Trajectory(m) = Trajectory(c) /\ m.study = study /\ m \in Candidates
  BY DEF Trajectory, Grid
<1>5. ASSUME NEW d \in Trajectory(c)
      PROVE  IsNamed(t, d) /\ t.at[d.step] = score[d].contract.weights
  <2>1. Finished(d, Contract(d, Named(t, d))) /\ Accepted(t, d) /\ d.study = study
    BY <1>1, <1>2, <1>3, <1>4, AcceptedForAll DEF Traced, Grid
  <2>2. d \in IF d.study \in Development THEN Trajectory(d) ELSE {d}
    BY DEF Trajectory
  <2>3. t.at[d.step] = Named(t, d)
    BY <1>1, <2>1, <2>2, AcceptedNames DEF Studies
  <2>4. IsNamed(t, d)
    <3>1. d \in Trajectory(d)
      BY <1>1 DEF Trajectory
    <3> QED BY <2>1, <3>1 DEF Accepted, RegisteredTrajectory, LocalTrajectory, Development
  <2>5. 1 \in DOMAIN answers[d]
    <3>1. /\ answers[d] \in Seq(Checkpoints) /\ Len(answers[d]) = Len(Tasks[study])
          /\ Tasks[study] \in Seq(DOMAIN Suite) /\ Tasks[study] # <<>>
      BY <1>1, <2>1, StudyAssumption DEF StudyInv, Shape, Finished, Complete
    <3>2. Len(Tasks[study]) \in Nat \ {0}
      BY <3>1
    <3> QED BY <3>1, <3>2
  <2>6. answers[d][1].by = Named(t, d)
    BY <1>1, <2>1, <2>5, FinishedAnswers DEF Contract
  <2>7. answers[d][1].by = score[d].contract.weights
    BY <1>1, <2>5 DEF StudyInv, ScoreIsTrue
  <2> QED BY <2>3, <2>4, <2>6, <2>7
<1> QED BY <1>1, <1>5

\* What a score counts is some of the tasks.
LEMMA CountedInNat ==
  ASSUME StudyInv, NEW c \in Grid, score[c] # None
  PROVE  Combined(c) \in Nat /\ Combined(c) <= Len(Tasks[study])
<1> DEFINE N == Len(Tasks[study])
<1>1. c \in Candidates /\ N \in Nat /\ DOMAIN Tasks[study] = 1 .. N
  BY StudyAssumption DEF StudyInv, Shape, Grid
<1>2. score[c].passed \in SUBSET (1 .. N)
  <2>1. score[c].passed = Solved(score[c].contract.weights)
    BY <1>1 DEF StudyInv, ScoreIsTrue
  <2> HIDE DEF N
  <2> QED BY <1>1, <2>1 DEF Solved
<1> HIDE DEF N
<1>3. IsFiniteSet(1 .. N) /\ Cardinality(1 .. N) = N
  <2>1. 1 \in Int /\ N \in Int
    BY <1>1
  <2>2. /\ IsFiniteSet(1 .. N)
        /\ Cardinality(1 .. N) = IF 1 > N THEN 0 ELSE N - 1 + 1
    BY <2>1, FS_Interval
  <2> QED BY <1>1, <2>2
<1>4. Combined(c) \in Nat /\ Combined(c) <= N
  BY <1>1, <1>2, <1>3, FS_Subset, FS_CardinalityType DEF Combined
<1> QED BY <1>4 DEF N

\* The sort has a first element: a candidate with the most passes, of these one with the
\* fewest steps, of these the one with the lowest rate.
LEMMA BestExists ==
  ASSUME StudyInv, \A d \in Grid : score[d] # None, Selectable # {}
  PROVE  \E c \in Selectable : \A d \in Selectable \ {c} : Before(c, d)
<1> DEFINE S == Selectable
           N == Len(Tasks[study])
           short == [c \in S |-> N - Combined(c)]
           A == {c \in S : \A d \in S : short[c] <= short[d]}
           steps == [c \in A |-> c.step]
           B == {c \in A : \A d \in A : steps[c] <= steps[d]}
           rates == [c \in B |-> c.rate]
<1>1. \A c \in S : c \in Candidates /\ c \in Grid /\ c.study = study /\ c.step \in Nat /\ c.rate \in Nat
  BY StudyAssumption DEF Selectable, Grid
<1>2. N \in Nat
  BY StudyAssumption DEF StudyInv, Shape
<1>3. ASSUME NEW c \in S PROVE Combined(c) \in Nat /\ Combined(c) <= N
  BY <1>1, CountedInNat
<1>4. short \in [S -> Nat] /\ \A c \in S : short[c] = N - Combined(c)
  <2>1. \A c \in S : N - Combined(c) \in Nat
    BY <1>2, <1>3
  <2> HIDE DEF S, N
  <2> QED BY <2>1
<1> HIDE DEF short
<1>5. PICK a \in S : \A d \in S : short[a] <= short[d]
  <2> HIDE DEF S
  <2> QED BY <1>4, LeastOf DEF S
<1>6. A # {} /\ \A c \in A : c \in S
  BY <1>5
<1>7. steps \in [A -> Nat] /\ \A c \in A : steps[c] = c.step
  <2> HIDE DEF S, A
  <2> QED BY <1>1, <1>6
<1> HIDE DEF steps
<1>8. PICK b \in A : \A d \in A : steps[b] <= steps[d]
  <2> HIDE DEF A
  <2> QED BY <1>6, <1>7, LeastOf
<1>9. B # {} /\ \A c \in B : c \in A
  BY <1>8
<1>10. rates \in [B -> Nat] /\ \A c \in B : rates[c] = c.rate
  <2> HIDE DEF S, A, B
  <2> QED BY <1>1, <1>6, <1>9
<1> HIDE DEF rates
<1>11. PICK c \in B : \A d \in B : rates[c] <= rates[d]
  <2> HIDE DEF B
  <2> QED BY <1>9, <1>10, LeastOf
<1>12. ASSUME NEW d \in S \ {c} PROVE Before(c, d)
  <2>1. /\ c \in A /\ c \in S /\ c \in Candidates /\ d \in Candidates /\ d.study = c.study
        /\ c.step \in Nat /\ c.rate \in Nat /\ d.step \in Nat /\ d.rate \in Nat
    <3> HIDE DEF S, A, B
    <3> QED BY <1>1, <1>6, <1>9, <1>12
  <2>2. Combined(c) \in Nat /\ Combined(d) \in Nat
    BY <1>3, <2>1
  <2>3. short[c] <= short[d]
    BY <2>1
  <2>4. Combined(d) <= Combined(c)
    <3> HIDE DEF S, A, B, N
    <3> QED BY <1>2, <1>4, <1>12, <2>1, <2>2, <2>3
  <2>5. Combined(c) = Combined(d) => d \in A
    <3>1. ASSUME Combined(c) = Combined(d) PROVE short[c] = short[d]
      <4> HIDE DEF S, A, B, N
      <4> QED BY <1>4, <1>12, <2>1, <3>1
    <3>2. ASSUME Combined(c) = Combined(d) PROVE \A e \in S : short[d] <= short[e]
      BY <2>1, <3>1, <3>2
    <3> QED BY <3>2
  <2>6. d \in A => c.step <= d.step
    <3>1. d \in A => steps[c] <= steps[d]
      OBVIOUS
    <3> HIDE DEF S, A, B
    <3> QED BY <1>7, <2>1, <3>1
  <2>7. d \in A /\ c.step = d.step => d \in B
    <3>1. ASSUME d \in A, c.step = d.step PROVE steps[c] = steps[d]
      <4> HIDE DEF S, A, B
      <4> QED BY <1>7, <2>1, <3>1
    <3>2. ASSUME d \in A, c.step = d.step PROVE \A e \in A : steps[d] <= steps[e]
      BY <3>1, <3>2
    <3> QED BY <3>2
  <2>8. d \in B => c.rate <= d.rate
    <3> HIDE DEF B
    <3> QED BY <1>10, <1>11
  <2>9. c.step = d.step => c.rate # d.rate
    BY <1>12, <2>1, StudyAssumption
  <2> HIDE DEF S, A, B
  <2> QED BY <2>1, <2>2, <2>4, <2>5, <2>6, <2>7, <2>8, <2>9 DEF Before
<1>13. c \in S
  BY <1>6, <1>9
<1> HIDE DEF A, B
<1> QED BY <1>12, <1>13 DEF S

\* What SelectionIsOneTraining says of a selection.
SoundSelection(made) ==
    LET Of(c) == made.scores[c].contract.weights
        Passes(c) == Cardinality(Solved(Of(c)))
        Fit == {c \in Grid : Eligible(Solved(Of(c)))}
    IN /\ \A c \in Grid : \E t \in Trainings : \A d \in Trajectory(c) :
             IsNamed(t, d) /\ t.at[d.step] = Of(d)
       /\ (made.best = None) = (Fit = {})
       /\ made.best # None =>
             /\ made.best \in Fit
             /\ \A c \in Fit : /\ Passes(c) <= Passes(made.best)
                               /\ c.step < made.best.step => Passes(c) < Passes(made.best)

LEMMA SelectionPrimed ==
  ASSUME UNCHANGED study, selection' # None => SoundSelection(selection')
  PROVE  SelectionIsOneTraining'
<1>1. /\ Grid' = Grid /\ \A w : Solved(w)' = Solved(w)
      /\ \A passed : Eligible(passed)' <=> Eligible(passed)
  BY DEF Grid, Solved, Eligible, InSuite
<1> QED BY <1>1 DEF SelectionIsOneTraining, SoundSelection

\* What was selected stays selected of what it was.
LEMMA SelectionStays ==
  ASSUME SelectionIsOneTraining, UNCHANGED <<study, selection>>
  PROVE  SelectionIsOneTraining'
<1>1. selection # None => SoundSelection(selection)
  BY DEF SelectionIsOneTraining, SoundSelection
<1> QED BY <1>1, SelectionPrimed

\* A selection is made of scores that are all there.
LEMMA SelectInv ==
  ASSUME StudyInv, ScoredInv, Select
  PROVE  SelectionIsOneTraining'
<1> DEFINE Of(c) == selection'.scores[c].contract.weights
           Passes(c) == Cardinality(Solved(Of(c)))
           Fit == {c \in Grid : Eligible(Solved(Of(c)))}
           best == IF Selectable = {} THEN None
                   ELSE CHOOSE c \in Selectable : \A d \in Selectable \ {c} : Before(c, d)
<1>1. /\ study \in Development /\ UNCHANGED <<study, score>>
      /\ \A c \in Grid : score[c] # None /\ Consistent(c)
      /\ selection' = [scores |-> [c \in Grid |-> score[c]], best |-> best]
  BY DEF Select, files
<1>2. \A c \in Grid : Of(c) = score[c].contract.weights
  BY <1>1
<1>3. selection'.best = best
  BY <1>1
<1>4. \A c \in Grid : c \in Candidates /\ c # None /\ c.step \in Nat
  BY StudyAssumption DEF Grid
<1>5. \A c \in Grid : score[c].passed = Solved(Of(c)) /\ score[c].verdict = Eligible(Solved(Of(c)))
  <2> SUFFICES ASSUME NEW c \in Grid
               PROVE  score[c].passed = Solved(Of(c)) /\ score[c].verdict = Eligible(Solved(Of(c)))
    OBVIOUS
  <2>1. score[c].passed = Solved(score[c].contract.weights)
    BY <1>1, <1>4 DEF StudyInv, ScoreIsTrue
  <2> HIDE DEF Of
  <2> QED BY <1>1, <1>2, <2>1 DEF Consistent
<1>6. Selectable = Fit /\ \A c \in Grid : Combined(c) = Passes(c)
  <2> HIDE DEF Of
  <2> QED BY <1>5 DEF Selectable, Combined
<1>7. ASSUME Selectable # {}
      PROVE  best \in Selectable /\ \A d \in Selectable \ {best} : Before(best, d)
  BY <1>1, <1>7, BestExists
<1>8. \A c \in Selectable : c \in Grid
  BY DEF Selectable
<1> HIDE DEF best
<1>9. (best = None) = (Selectable = {})
  <2>1. Selectable = {} => best = None
    BY DEF best
  <2>2. Selectable # {} => best # None
    BY <1>4, <1>7, <1>8
  <2> QED BY <2>1, <2>2
<1>10. ASSUME best # None, NEW c \in Selectable
       PROVE  /\ best \in Selectable /\ Combined(c) <= Combined(best)
              /\ c.step < best.step => Combined(c) < Combined(best)
  <2>1. best \in Selectable /\ best \in Grid /\ c \in Grid
    BY <1>7, <1>8, <1>10
  <2>2. Combined(c) \in Nat /\ Combined(best) \in Nat
    BY <1>1, <2>1, CountedInNat
  <2>3. best.step \in Nat /\ c.step \in Nat
    BY <1>4, <2>1
  <2>4. c = best \/ Before(best, c)
    BY <1>7, <1>10
  <2> QED BY <2>1, <2>2, <2>3, <2>4 DEF Before
<1>11. \A c \in Grid : \E t \in Trainings : \A d \in Trajectory(c) :
         IsNamed(t, d) /\ t.at[d.step] = Of(d)
  <2> SUFFICES ASSUME NEW c \in Grid
               PROVE  \E t \in Trainings : \A d \in Trajectory(c) :
                        IsNamed(t, d) /\ t.at[d.step] = Of(d)
    OBVIOUS
  <2>1. PICK t \in Trainings : \A d \in Trajectory(c) :
          /\ d \in Grid /\ IsNamed(t, d)
          /\ t.at[d.step] = score[d].contract.weights
    BY <1>1, ScoresOfOneTraining
  <2> HIDE DEF Of
  <2> QED BY <1>2, <2>1
<1>12. /\ (best = None) = (Fit = {})
       /\ best # None =>
            /\ best \in Fit
            /\ \A c \in Fit : /\ Passes(c) <= Passes(best)
                              /\ c.step < best.step => Passes(c) < Passes(best)
  <2>1. \A c \in Selectable : Combined(c) = Passes(c) /\ c \in Grid
    BY <1>6, <1>8
  <2>2. best # None => best \in Selectable
    BY <1>7, <1>9
  <2>3. Fit = Selectable
    BY <1>6
  <2> HIDE DEF Of, Passes, Fit
  <2> QED BY <1>9, <1>10, <2>1, <2>2, <2>3
<1>13. SoundSelection(selection')
  BY <1>3, <1>11, <1>12 DEF SoundSelection
<1> QED BY <1>1, <1>13, SelectionPrimed

LEMMA SelectionStep ==
  ASSUME StudyInv, ScoredInv, SelectionIsOneTraining, [Next]_vars
  PROVE  SelectionIsOneTraining'
<1>1. CASE Select
  BY <1>1, SelectInv
<1>2. CASE \/ \E c \in Candidates, t \in Trainings :
                Launch(c, t) \/ StartScoring(c, t) \/ Verify(c, t)
           \/ OpenDirectory \/ Answer \/ WriteRuntime \/ WriteStage \/ StopGeneration
  <2>1. UNCHANGED <<study, selection>>
    BY <1>2 DEF Launch, StartScoring, Verify, OpenDirectory, Answer, WriteRuntime, WriteStage,
                StopGeneration
  <2> QED BY <2>1, SelectionStays
<1>3. CASE \/ LoadAnswers \/ \E errors \in SUBSET DOMAIN Tasks[study] : WriteResults(errors)
           \/ WriteScore \/ Seal \/ StopScoring \/ \E sha \in Commits : Checkout(sha)
           \/ UNCHANGED vars
  <2>1. UNCHANGED <<study, selection>>
    BY <1>3 DEF LoadAnswers, WriteResults, WriteScore, Seal, StopScoring, Checkout, vars
  <2> QED BY <2>1, SelectionStays
<1> QED BY <1>1, <1>2, <1>3 DEF Next

\* The scores a candidate is selected from are of one training for each trajectory, though
\* each command is given a training output anew and no score names one; and the best of
\* them is one that nothing eligible surpasses, nor equals after fewer steps.
THEOREM SelectionOfOneTraining ==
  Spec => []SelectionIsOneTraining
<1> DEFINE I == StudyInv /\ TracedInv /\ ScoredInv /\ SelectionIsOneTraining
<1>1. Init => I
  <2>1. Init => TracedInv /\ ScoredInv /\ SelectionIsOneTraining
    BY DEF Init, Empty, TracedInv, ScoredInv, SelectionIsOneTraining
  <2> QED BY <2>1, InitStudyInv
<1>2. I /\ [Next]_vars => I'
  BY NextStudyInv, TracedStep, ScoredStep, SelectionStep
<1>3. I => SelectionIsOneTraining
  OBVIOUS
<1> QED BY <1>1, <1>2, <1>3, PTL DEF Spec

----------------------------------------------------------------------------
(* The control audits *)

\* What a checkpoint of the control may be.
Zeros ==
    [by : {"zero"},
     deviations : SUBSET {"runtime", "template", "loader", "code", "weights"}]

\* Every answer that is kept went through an adapter of zeros: the loaded parameters are
\* counted in the process that answers.
ControlIsZero ==
    /\ replies \in Seq(Zeros)
    /\ session # None /\ session.at # "load" => session.weights = "zero"

\* What the last reports say of what they looked at; the baseline of this tree is there
\* for good once it is there.
TrueReports(now, all) ==
    /\ DOMAIN all = {101, 102, 103}
    /\ now # None => DOMAIN now.rows = FTR!Id
    /\ all[101] # None =>
         /\ now # None /\ all[101].of = now.rows
         /\ all[101].exact => \A i \in Coding : now.rows[i] = FTR!FrozenRows[i]
    /\ all[102] # None =>
         /\ now # None
         /\ \A n \in DOMAIN Items : all[102].of.answers[n].by = "zero"
         /\ all[102].exact => \A i \in FTR!Id : all[102].of.rows[i] = now.rows[i]
    /\ all[103] # None => (all[103].exact <=> FTR!Parity(all[103].sha))

ReportsAreTrue == TrueReports(current, reports)

AuditInv == ControlIsZero /\ ReportsAreTrue

\* Only a generation of the control writes answers or loads an adapter.
LEMMA ControlStep ==
  ASSUME ControlIsZero, [FTR!Next]_(FTR!vars)
  PROVE  ControlIsZero'
<1> USE DEF ControlIsZero
<1>1. CASE UNCHANGED <<replies, session>>
  BY <1>1
<1>2. CASE FTR!OpenControl
  BY <1>2 DEF FTR!OpenControl
<1>3. CASE FTR!LoadAdapter
  BY <1>3 DEF FTR!LoadAdapter, FTR!LoadedZero
<1>4. CASE FTR!AnswerControl
  <2>1. PICK d : d = FTR!ControlDeviations
    OBVIOUS
  <2>2. d \in SUBSET {"runtime", "template", "loader", "code", "weights"}
    BY <2>1 DEF FTR!ControlDeviations, FTR!BaseDeviations
  <2>3. session.weights = "zero" /\ UNCHANGED session
    BY <1>4 DEF FTR!AnswerControl
  <2>4. replies' = Append(replies, [by |-> "zero", deviations |-> d])
    BY <1>4, <2>1, <2>3 DEF FTR!AnswerControl
  <2>5. [by |-> "zero", deviations |-> d] \in Zeros
    BY <2>2 DEF Zeros
  <2>6. replies' \in Seq(Zeros)
    BY <2>4, <2>5
  <2> QED
    BY <2>3, <2>6
<1>5. CASE FTR!WriteIdentity
  BY <1>5 DEF FTR!WriteIdentity
<1>6. CASE FTR!WriteManifest
  BY <1>6 DEF FTR!WriteManifest
<1>7. CASE FTR!StopControl
  BY <1>7 DEF FTR!StopControl
<1>8. CASE FTR!PrepareAdapter
  BY <1>8 DEF FTR!PrepareAdapter
<1>9. CASE \E h \in Hosts : FTR!Drift(h)
  BY <1>9, <1>1 DEF FTR!Drift, FTR!Change
<1>10. CASE \E sha \in Commits : FTR!Checkout(sha)
  BY <1>10, <1>1 DEF FTR!Checkout, FTR!Change
<1>11. CASE FTR!Replace
  BY <1>11, <1>1 DEF FTR!Replace, FTR!Change
<1>12. CASE FTR!AuditParity \/ FTR!CaptureIdentity \/ FTR!RunBaseline
  BY <1>12, <1>1 DEF FTR!AuditParity, FTR!CaptureIdentity, FTR!RunBaseline, FTR!control
<1>13. CASE FTR!StartScoring
  BY <1>13, <1>1 DEF FTR!StartScoring, FTR!control
<1>14. CASE \E lost \in {{}} \cup {{i} : i \in FTR!Id} :
              FTR!CompareReproduction(lost) \/ FTR!CompareControl(lost)
  BY <1>14, <1>1 DEF FTR!CompareReproduction, FTR!CompareControl, FTR!control
<1>15. CASE UNCHANGED FTR!vars
  BY <1>15, <1>1 DEF FTR!vars, FTR!control
<1> QED
  BY <1>2, <1>3, <1>4, <1>5, <1>6, <1>7, <1>8, <1>9, <1>10, <1>11, <1>12, <1>13, <1>14, <1>15
     DEF FTR!Next

\* A report of FTR-101 that is exact has every coding row of the frozen baseline.
LEMMA ReproducedRows ==
  ASSUME NEW rows, NEW lost,
         FTR!SameRows(FTR!Restrict(FTR!FrozenRows, Coding), FTR!Restrict(rows, Coding \ lost))
  PROVE  \A i \in Coding : rows[i] = FTR!FrozenRows[i]
<1>1. DOMAIN FTR!Restrict(FTR!FrozenRows, Coding) = Coding
  BY DEF FTR!Restrict
<1>2. DOMAIN FTR!Restrict(rows, Coding \ lost) = Coding \ lost
  BY DEF FTR!Restrict
<1>3. Coding = Coding \ lost
  BY <1>1, <1>2 DEF FTR!SameRows
<1>4. ASSUME NEW i \in Coding PROVE rows[i] = FTR!FrozenRows[i]
  <2>1. FTR!Restrict(FTR!FrozenRows, Coding)[i] = FTR!Restrict(rows, Coding \ lost)[i]
    BY <1>1 DEF FTR!SameRows, FTR!SameRow
  <2>2. FTR!Restrict(FTR!FrozenRows, Coding)[i] = FTR!FrozenRows[i]
    BY DEF FTR!Restrict
  <2>3. FTR!Restrict(rows, Coding \ lost)[i] = rows[i]
    BY <1>3 DEF FTR!Restrict
  <2> QED
    BY <2>1, <2>2, <2>3
<1> QED
  BY <1>4

\* And one of FTR-102 has every row of the baseline it is compared with.
LEMMA EquivalentRows ==
  ASSUME NEW rows, NEW others, NEW lost, DOMAIN rows = FTR!Id,
         FTR!SameRows(rows, FTR!Restrict(others, FTR!Id \ lost))
  PROVE  \A i \in FTR!Id : others[i] = rows[i]
<1>1. DOMAIN FTR!Restrict(others, FTR!Id \ lost) = FTR!Id \ lost
  BY DEF FTR!Restrict
<1>2. FTR!Id = FTR!Id \ lost
  BY <1>1 DEF FTR!SameRows
<1>3. ASSUME NEW i \in FTR!Id PROVE others[i] = rows[i]
  <2>1. rows[i] = FTR!Restrict(others, FTR!Id \ lost)[i]
    BY DEF FTR!SameRows, FTR!SameRow
  <2>2. FTR!Restrict(others, FTR!Id \ lost)[i] = others[i]
    BY <1>2 DEF FTR!Restrict
  <2> QED
    BY <2>1, <2>2
<1> QED
  BY <1>3

LEMMA BaselineReport ==
  ASSUME ReportsAreTrue, NEW lost, FTR!CompareReproduction(lost)
  PROVE  TrueReports(current', reports')
<1>1. PICK rows : rows = FTR!Restrict(current.rows, Coding \ lost)
  OBVIOUS
<1>2. PICK new : new = [sha |-> current.sha, exact |-> FTR!Reproduced(rows), of |-> current.rows]
  OBVIOUS
<1>3. reports' = [reports EXCEPT ![101] = new] /\ current # None /\ UNCHANGED current
  BY <1>1, <1>2 DEF FTR!CompareReproduction, FTR!base
<1>4. DOMAIN reports = {101, 102, 103}
  BY DEF ReportsAreTrue, TrueReports
<1>5. /\ DOMAIN reports' = {101, 102, 103} /\ reports'[101] = new
      /\ reports'[102] = reports[102] /\ reports'[103] = reports[103]
  BY <1>3, <1>4
<1>6. new.of = current.rows /\ (new.exact <=> FTR!Reproduced(rows))
  BY <1>2
<1>7. ASSUME new.exact PROVE \A i \in Coding : current.rows[i] = FTR!FrozenRows[i]
  <2>1. FTR!SameRows(FTR!Restrict(FTR!FrozenRows, Coding), rows)
    BY <1>6, <1>7 DEF FTR!Reproduced
  <2> QED
    BY <2>1, <1>1, ReproducedRows
<1> QED
  BY <1>3, <1>5, <1>6, <1>7 DEF ReportsAreTrue, TrueReports

LEMMA ControlReport ==
  ASSUME ControlIsZero, ReportsAreTrue, NEW lost, FTR!CompareControl(lost)
  PROVE  TrueReports(current', reports')
<1>1. CASE UNCHANGED reports
  BY <1>1 DEF FTR!CompareControl, ReportsAreTrue, TrueReports, FTR!base
<1>2. CASE current # None /\ Len(replies) = Len(Items)
  <2>1. PICK image : image = host \cap {"image"}
    OBVIOUS
  <2>2. PICK all : all = FTR!ControlRows(image)
    OBVIOUS
  <2>3. PICK rows : rows = FTR!Restrict(all, FTR!Id \ lost)
    OBVIOUS
  <2>4. PICK new : new = [sha |-> audited, exact |-> FTR!Equivalent(rows, image),
                         of |-> [rows |-> all, answers |-> replies]]
    OBVIOUS
  <2>5. reports' = [reports EXCEPT ![102] = new] /\ UNCHANGED current
    BY <1>2, <2>1, <2>2, <2>3, <2>4 DEF FTR!CompareControl, FTR!base
  <2>6. DOMAIN reports = {101, 102, 103}
    BY DEF ReportsAreTrue, TrueReports
  <2>7. /\ DOMAIN reports' = {101, 102, 103} /\ reports'[102] = new
        /\ reports'[101] = reports[101] /\ reports'[103] = reports[103]
    BY <2>5, <2>6
  <2>8. /\ new.of.rows = all /\ new.of.answers = replies
        /\ new.exact <=> FTR!Equivalent(rows, image)
    BY <2>4
  <2>9. DOMAIN replies = DOMAIN Items
    BY <1>2, AuditAssumption DEF ControlIsZero
  <2>10. \A n \in DOMAIN Items : new.of.answers[n].by = "zero"
    <3> SUFFICES ASSUME NEW n \in DOMAIN Items PROVE replies[n].by = "zero"
      BY <2>8
    <3>1. replies[n] \in Zeros
      BY <2>9 DEF ControlIsZero
    <3> QED
      BY <3>1 DEF Zeros
  <2>11. ASSUME new.exact PROVE \A i \in FTR!Id : all[i] = current.rows[i]
    <3>1. FTR!SameRows(current.rows, rows)
      BY <2>8, <2>11 DEF FTR!Equivalent
    <3>2. DOMAIN current.rows = FTR!Id
      BY <1>2 DEF ReportsAreTrue, TrueReports
    <3> QED
      BY <3>1, <3>2, <2>3, EquivalentRows
  <2> QED
    BY <1>2, <2>5, <2>7, <2>8, <2>10, <2>11 DEF ReportsAreTrue, TrueReports
<1> QED
  BY <1>1, <1>2 DEF FTR!CompareControl

LEMMA ParityReport ==
  ASSUME ReportsAreTrue, FTR!AuditParity
  PROVE  TrueReports(current', reports')
<1>1. PICK new : new = [sha |-> auditTree, exact |-> FTR!Parity(auditTree), of |-> None]
  OBVIOUS
<1>2. reports' = [reports EXCEPT ![103] = new] /\ UNCHANGED current
  BY <1>1 DEF FTR!AuditParity, FTR!base
<1>3. DOMAIN reports = {101, 102, 103}
  BY DEF ReportsAreTrue, TrueReports
<1>4. /\ DOMAIN reports' = {101, 102, 103} /\ reports'[103] = new
      /\ reports'[101] = reports[101] /\ reports'[102] = reports[102]
  BY <1>2, <1>3
<1>5. new.exact <=> FTR!Parity(new.sha)
  BY <1>1
<1> QED
  BY <1>2, <1>4, <1>5 DEF ReportsAreTrue, TrueReports

LEMMA BaselineStep ==
  ASSUME ReportsAreTrue, FTR!RunBaseline
  PROVE  TrueReports(current', reports')
<1>1. current = None /\ UNCHANGED reports
  BY DEF FTR!RunBaseline
<1>2. PICK all :
        all = [i \in FTR!Id |-> FTR!Row(i, FTR!BaseDeviations(auditTree), host \cap {"image"})]
  OBVIOUS
<1>3. current'.rows = all
  BY <1>2 DEF FTR!RunBaseline
<1>4. DOMAIN all = FTR!Id
  BY <1>2
<1> QED
  BY <1>1, <1>3, <1>4 DEF ReportsAreTrue, TrueReports

LEMMA ReportStep ==
  ASSUME AuditInv, [FTR!Next]_(FTR!vars)
  PROVE  TrueReports(current', reports')
<1>1. CASE UNCHANGED <<current, reports>>
  BY <1>1 DEF AuditInv, ReportsAreTrue, TrueReports
<1>2. CASE \E h \in Hosts : FTR!Drift(h)
  BY <1>2, <1>1 DEF FTR!Drift, FTR!Change, FTR!base
<1>3. CASE \E sha \in Commits : FTR!Checkout(sha)
  BY <1>3, <1>1 DEF FTR!Checkout, FTR!Change, FTR!base
<1>4. CASE FTR!Replace
  BY <1>4, <1>1 DEF FTR!Replace, FTR!Change, FTR!base
<1>5. CASE FTR!AuditParity
  BY <1>5, ParityReport DEF AuditInv
<1>6. CASE FTR!CaptureIdentity
  BY <1>6, <1>1 DEF FTR!CaptureIdentity
<1>7. CASE FTR!RunBaseline
  BY <1>7, BaselineStep DEF AuditInv
<1>8. CASE FTR!PrepareAdapter \/ FTR!OpenControl \/ FTR!LoadAdapter \/ FTR!AnswerControl
  BY <1>8, <1>1 DEF FTR!PrepareAdapter, FTR!OpenControl, FTR!LoadAdapter,
                     FTR!AnswerControl, FTR!base
<1>9. CASE FTR!WriteIdentity \/ FTR!WriteManifest \/ FTR!StopControl \/ FTR!StartScoring
  BY <1>9, <1>1 DEF FTR!WriteIdentity, FTR!WriteManifest, FTR!StopControl,
                     FTR!StartScoring, FTR!base
<1>10. CASE \E lost \in {{}} \cup {{i} : i \in FTR!Id} :
              FTR!CompareReproduction(lost) \/ FTR!CompareControl(lost)
  BY <1>10, BaselineReport, ControlReport DEF AuditInv
<1>11. CASE UNCHANGED FTR!vars
  BY <1>11, <1>1 DEF FTR!vars, FTR!base
<1> QED
  BY <1>2, <1>3, <1>4, <1>5, <1>6, <1>7, <1>8, <1>9, <1>10, <1>11 DEF FTR!Next

LEMMA AuditsBegin ==
  ASSUME FTR!Init
  PROVE  AuditInv
<1>1. replies \in Seq(Zeros)
  BY DEF FTR!Init
<1>2. DOMAIN reports = {101, 102, 103} /\ \A r \in {101, 102, 103} : reports[r] = None
  BY DEF FTR!Init
<1> QED
  BY <1>1, <1>2 DEF FTR!Init, AuditInv, ControlIsZero, ReportsAreTrue, TrueReports

\* A path that is in parity generates as is expected, or has code nobody looked at.
LEMMA ParityIsCanonical ==
  ASSUME NEW sha, FTR!Parity(sha), NEW p \in FTR!Paths
  PROVE  \/ FTR!Effective(sha, p) = Canonical
         \/ Parent[p] # None /\ Code[sha][p].own # None
<1>1. FTR!GeneratorParity(sha, p)
  BY DEF FTR!Parity
<1>2. CASE Parent[p] = None
  BY <1>1, <1>2, AuditAssumption DEF FTR!GeneratorParity, FTR!Effective
<1>3. CASE Parent[p] # None
  BY <1>1, <1>3 DEF FTR!GeneratorParity, FTR!Inherits, FTR!Effective
<1> QED
  BY <1>2, <1>3

LEMMA InvExcludesDrift ==
  ASSUME AuditInv
  PROVE  FTR!CertificatesExcludeDrift
<1>1. ASSUME FTR!Certified(101) PROVE \A i \in Coding : reports[101].of[i] = FTR!FrozenRows[i]
  BY <1>1 DEF FTR!Certified, AuditInv, ReportsAreTrue, TrueReports
<1>2. ASSUME FTR!Certified(102)
      PROVE  /\ \A n \in DOMAIN Items : reports[102].of.answers[n].by = "zero"
             /\ FTR!Certified(101) => \A i \in Coding : reports[102].of.rows[i] = FTR!FrozenRows[i]
  <2>1. \A n \in DOMAIN Items : reports[102].of.answers[n].by = "zero"
    BY <1>2 DEF FTR!Certified, AuditInv, ReportsAreTrue, TrueReports
  <2>2. ASSUME FTR!Certified(101), NEW i \in Coding
        PROVE  reports[102].of.rows[i] = FTR!FrozenRows[i]
    <3>1. i \in FTR!Id
      BY AuditAssumption
    <3>2. current.rows[i] = FTR!FrozenRows[i]
      BY <2>2 DEF FTR!Certified, AuditInv, ReportsAreTrue, TrueReports
    <3>3. reports[102].of.rows[i] = current.rows[i]
      BY <1>2, <3>1 DEF FTR!Certified, AuditInv, ReportsAreTrue, TrueReports
    <3> QED
      BY <3>2, <3>3
  <2> QED
    BY <2>1, <2>2
<1>3. ASSUME FTR!Certified(103), NEW p \in FTR!Paths
      PROVE  \/ FTR!Effective(reports[103].sha, p) = Canonical
             \/ Parent[p] # None /\ Code[reports[103].sha][p].own # None
  <2>1. FTR!Parity(reports[103].sha)
    BY <1>3 DEF FTR!Certified, AuditInv, ReportsAreTrue, TrueReports
  <2> QED
    BY <2>1, ParityIsCanonical
<1> QED
  BY <1>1, <1>2, <1>3 DEF FTR!CertificatesExcludeDrift

\* The certificates of FTR-101 to FTR-103 mean what they are taken to mean, for any
\* tasks, hosts and commits and however often what they look at is changed.
THEOREM CertificatesMeanNoDrift ==
  FTR!Spec => []CertificatesExcludeDrift
<1>1. FTR!Init => AuditInv
  BY AuditsBegin
<1>2. AuditInv /\ [FTR!Next]_(FTR!vars) => AuditInv'
  BY ControlStep, ReportStep DEF AuditInv, ReportsAreTrue
<1>3. AuditInv => CertificatesExcludeDrift
  BY InvExcludesDrift DEF CertificatesExcludeDrift
<1> QED
  BY <1>1, <1>2, <1>3, PTL DEF FTR!Spec

----------------------------------------------------------------------------
(* The comparison on the regression suite *)

\* What a row of the checkpoint file may be.
Contracts == {GenContract[c] : c \in Commits} \cup {None}
AnswerRows ==
    [case : P8!SuiteCases, text : UNION P8!Range(Texts), contract : Contracts]

\* Rows that answer every case, and with which the file begins.
Covers(rows) == \A c \in P8!SuiteCases : \E i \in DOMAIN rows : rows[i].case = c
Vouched(rows, file) ==
    /\ rows \in Seq(AnswerRows) /\ Len(rows) <= Len(file) /\ Covers(rows)
    /\ \A i \in DOMAIN rows : file[i] = rows[i]

\* What P8-002 promises of a verification, as far as the process knows it.
ShowsRows(made) ==
    LET shown == made.comparison
        text == [c \in P8!SuiteCases |-> shown.cases[c].text]
    IN /\ Len(made.rows) = Len(CaseList)
       /\ \A c \in P8!SuiteCases : \E i \in DOMAIN made.rows :
            made.rows[i] = P8!Row(c, text[c], shown.contract)
ShowsVerdicts(made, code) ==
    LET shown == made.comparison
        text == [c \in P8!SuiteCases |-> shown.cases[c].text]
    IN \A c \in P8!SuiteCases :
         /\ shown.cases[c].base = BaseRows[c]
         /\ shown.cases[c].passed <=> <<c, text[c]>> \in Passing[code]
NetOf(x, S) ==
    Cardinality({c \in S : x.cases[c].transition = "improvement"})
      - Cardinality({c \in S : x.cases[c].transition = "regression"})
ShowsTotals(shown) ==
    /\ shown.overall.delta = NetOf(shown, P8!SuiteCases)
    /\ \A k \in P8!Range(Category) :
         shown.categories[k].delta = NetOf(shown, {c \in P8!SuiteCases : Category[c] = k})
IsTrue(j) ==
    /\ ShowsRows(j.made) /\ ShowsVerdicts(j.made, j.code) /\ ShowsTotals(j.made.comparison)
    /\ j.made.comparison.git = j.made.git

\* Whoever has made a comparison has seen an answer to every case; a manifest vouches for
\* such answers, in the one that makes it as in those that read it.
EvidenceFields == {"git", "stage", "rows", "comparison"}
JobOk(j, file) ==
    j.kind # "none" =>
      /\ DOMAIN j = {"kind", "step", "code", "git", "contract", "rows", "next", "made"}
      /\ DOMAIN j.made = EvidenceFields
      /\ j.contract \in Contracts /\ j.next \in Nat \ {0}
      /\ j.kind = "score" /\ j.step # "digest" => j.next = 1
      /\ j.kind = "score" /\ j.step \in {"write", "digest"} => Covers(file)
      /\ j.kind = "score" /\ j.step = "digest" /\ j.next > 2 => Vouched(j.made.rows, file)
      /\ j.kind = "verify" /\ j.step # "manifest" => Vouched(j.made.rows, file)
      /\ j.kind = "verify" /\ j.step = "accepted" => IsTrue(j)
EvidenceOk(e, file) == e # None => DOMAIN e = EvidenceFields /\ Vouched(e.rows, file)

EvidenceInv ==
    /\ suiteTree \in Commits /\ DOMAIN job = Processes
    /\ checkpoints \in Seq(AnswerRows)
    /\ \A p \in Processes : JobOk(job[p], checkpoints)
    /\ EvidenceOk(evidence, checkpoints)

\* What begins the file still does when a row is appended.
LEMMA VouchedGrows ==
  ASSUME NEW file \in Seq(AnswerRows), NEW row \in AnswerRows
  PROVE  /\ Covers(file) => Covers(Append(file, row))
         /\ \A rows : Vouched(rows, file) => Vouched(rows, Append(file, row))
         /\ \A j : JobOk(j, file) => JobOk(j, Append(file, row))
         /\ \A e : EvidenceOk(e, file) => EvidenceOk(e, Append(file, row))
<1>1. PICK longer : longer = Append(file, row)
  OBVIOUS
<1>2. /\ longer \in Seq(AnswerRows) /\ Len(longer) = Len(file) + 1 /\ Len(file) \in Nat
      /\ DOMAIN file = 1 .. Len(file) /\ DOMAIN longer = 1 .. Len(longer)
      /\ \A i \in DOMAIN file : longer[i] = file[i]
  BY <1>1
<1>3. Covers(file) => Covers(longer)
  BY <1>2 DEF Covers
<1>4. ASSUME NEW rows, Vouched(rows, file) PROVE Vouched(rows, longer)
  <2>1. /\ rows \in Seq(AnswerRows) /\ Len(rows) <= Len(file) /\ Covers(rows)
        /\ DOMAIN rows = 1 .. Len(rows) /\ Len(rows) \in Nat
        /\ \A i \in DOMAIN rows : file[i] = rows[i]
    BY <1>4 DEF Vouched
  <2>2. \A i \in DOMAIN rows : longer[i] = rows[i]
    BY <2>1, <1>2
  <2> QED
    BY <2>1, <2>2, <1>2 DEF Vouched
<1>5. \A j : JobOk(j, file) => JobOk(j, longer)
  BY <1>3, <1>4 DEF JobOk
<1>6. \A e : EvidenceOk(e, file) => EvidenceOk(e, longer)
  BY <1>4 DEF EvidenceOk
<1> QED
  BY <1>1, <1>3, <1>4, <1>5, <1>6

LEMMA AnswerKeepsEvidence ==
  ASSUME EvidenceInv, NEW p \in Processes, NEW text, text \in UNION P8!Range(Texts),
         P8!Answer(p, text)
  PROVE  EvidenceInv'
<1>1. job[p].kind = "generate" /\ job[p].step = "answer" /\ job[p].next <= Len(CaseList)
  BY DEF P8!Answer, P8!At
<1>2. job[p].next \in DOMAIN CaseList /\ job[p].contract \in Contracts
  BY <1>1, RegressionAssumption DEF EvidenceInv, JobOk
<1>3. P8!Asked(p) \in P8!SuiteCases
  BY <1>2, RegressionAssumption DEF P8!Asked
<1>4. PICK row : row = P8!Row(P8!Asked(p), text, job[p].contract)
  OBVIOUS
<1>5. row \in AnswerRows
  BY <1>2, <1>3, <1>4 DEF P8!Row, AnswerRows
<1>6. /\ checkpoints' = Append(checkpoints, row) /\ UNCHANGED <<suiteTree, evidence>>
      /\ job' = [job EXCEPT ![p].next = @ + 1]
  BY <1>4 DEF P8!Answer
<1>7. checkpoints' \in Seq(AnswerRows) /\ EvidenceOk(evidence', checkpoints')
  BY <1>5, <1>6, VouchedGrows DEF EvidenceInv
<1>8. ASSUME NEW q \in Processes PROVE JobOk(job[q], checkpoints')
  BY <1>5, <1>6, VouchedGrows DEF EvidenceInv
<1>9. JobOk(job'[p], checkpoints')
  BY <1>1, <1>6, <1>8 DEF EvidenceInv, JobOk
<1>10. \A q \in Processes \ {p} : job'[q] = job[q]
  BY <1>6 DEF EvidenceInv
<1> QED
  BY <1>6, <1>7, <1>8, <1>9, <1>10 DEF EvidenceInv

\* The size of a set is that of the comparison.
LEMMA SameSize ==
  ASSUME NEW X
  PROVE  P8!Cardinality(X) = Cardinality(X)
BY DEF P8!Cardinality, Cardinality

\* A sequence without repetition is as long as it has values.
LEMMA InjectiveLength ==
  ASSUME NEW s, NEW n \in Nat, NEW V, DOMAIN s = 1 .. n,
         \A i, j \in 1 .. n : s[i] = s[j] => i = j,
         \A i \in 1 .. n : s[i] \in V, \A v \in V : \E i \in 1 .. n : s[i] = v
  PROVE  IsFiniteSet(V) /\ Cardinality(V) = n
<1>1. PICK f : f = [i \in 1 .. n |-> s[i]]
  OBVIOUS
<1>2. f \in [1 .. n -> V]
  BY <1>1
<1>3. \A i \in 1 .. n : f[i] = s[i]
  BY <1>1
<1>4. f \in Bijection(1 .. n, V)
  BY <1>2, <1>3 DEF Bijection, Injection, Surjection, IsInjective
<1>5. ExistsBijection(1 .. n, V)
  BY <1>4 DEF ExistsBijection
<1> QED
  BY <1>5, FS_NatBijection, FS_CountingElements

\* Answers that can be compared are one to every case, and no other.
LEMMA AnswersCover ==
  ASSUME checkpoints \in Seq(AnswerRows), NEW contract, P8!Complete(checkpoints, contract)
  PROVE  /\ Len(checkpoints) = Len(CaseList) /\ IsFiniteSet(P8!SuiteCases)
         /\ \A c \in P8!SuiteCases : \E i \in DOMAIN checkpoints :
              checkpoints[i] = P8!Row(c, P8!Responses(checkpoints, contract)[c], contract)
<1>1. /\ Len(checkpoints) \in Nat /\ DOMAIN checkpoints = 1 .. Len(checkpoints)
      /\ \A i \in DOMAIN checkpoints : checkpoints[i] \in AnswerRows
  OBVIOUS
<1>2. PICK s : s = [i \in DOMAIN checkpoints |-> checkpoints[i].case]
  OBVIOUS
<1>3. /\ DOMAIN s = 1 .. Len(checkpoints)
      /\ \A i \in DOMAIN checkpoints : s[i] = checkpoints[i].case
  BY <1>1, <1>2
<1>4. P8!IsInjective(s)
  BY <1>2 DEF P8!Complete, P8!Loadable
<1>5. \A i, j \in 1 .. Len(checkpoints) : s[i] = s[j] => i = j
  BY <1>3, <1>4 DEF P8!IsInjective
<1>6. \A i \in 1 .. Len(checkpoints) : s[i] \in P8!SuiteCases
  BY <1>1, <1>3 DEF AnswerRows
<1>7. ASSUME NEW c \in P8!SuiteCases
      PROVE  \E i \in DOMAIN checkpoints :
               checkpoints[i] = P8!Row(c, P8!Responses(checkpoints, contract)[c], contract)
  <2>1. PICK r : r = CHOOSE x \in P8!Cached(checkpoints, c, contract) : TRUE
    OBVIOUS
  <2>2. r \in P8!Cached(checkpoints, c, contract)
    BY <2>1 DEF P8!Complete
  <2>3. PICK i \in DOMAIN checkpoints : checkpoints[i] = r
    BY <2>2 DEF P8!Cached, P8!Range
  <2>4. r.case = c /\ r.contract = contract /\ r \in AnswerRows
    BY <1>1, <2>2, <2>3 DEF P8!Cached
  <2>5. P8!Responses(checkpoints, contract)[c] = r.text
    BY <2>1 DEF P8!Responses
  <2>6. r = P8!Row(c, r.text, contract)
    BY <2>4 DEF AnswerRows, P8!Row
  <2> QED
    BY <2>3, <2>5, <2>6
<1>8. \A c \in P8!SuiteCases : \E i \in 1 .. Len(checkpoints) : s[i] = c
  <2> SUFFICES ASSUME NEW c \in P8!SuiteCases PROVE \E i \in 1 .. Len(checkpoints) : s[i] = c
    OBVIOUS
  <2>1. PICK i \in DOMAIN checkpoints :
          checkpoints[i] = P8!Row(c, P8!Responses(checkpoints, contract)[c], contract)
    BY <1>7
  <2>2. checkpoints[i].case = c
    BY <2>1 DEF P8!Row
  <2> QED
    BY <1>1, <1>3, <2>2
<1>9. IsFiniteSet(P8!SuiteCases) /\ Cardinality(P8!SuiteCases) = Len(checkpoints)
  BY <1>1, <1>3, <1>5, <1>6, <1>8, InjectiveLength
<1>10. /\ Len(CaseList) \in Nat /\ DOMAIN CaseList = 1 .. Len(CaseList)
       /\ \A i \in 1 .. Len(CaseList) : CaseList[i] \in P8!SuiteCases
  BY RegressionAssumption
<1>11. \A c \in P8!SuiteCases : \E i \in 1 .. Len(CaseList) : CaseList[i] = c
  BY <1>10 DEF P8!SuiteCases, P8!Range
<1>12. Cardinality(P8!SuiteCases) = Len(CaseList)
  <2>1. \A i, j \in 1 .. Len(CaseList) : CaseList[i] = CaseList[j] => i = j
    BY <1>10, RegressionAssumption
  <2> QED
    BY <1>10, <1>11, <2>1, InjectiveLength
<1> QED
  BY <1>7, <1>9, <1>12

\* The two sides of a comparison differ by what was gained less what was lost.
LEMMA NetOfTwoSides ==
  ASSUME NEW X, NEW Y, IsFiniteSet(X), IsFiniteSet(Y)
  PROVE  Cardinality(X) - Cardinality(Y) = Cardinality(X \ Y) - Cardinality(Y \ X)
<1>1. /\ Cardinality(X \ Y) = Cardinality(X) - Cardinality(X \cap Y)
      /\ Cardinality(Y \ X) = Cardinality(Y) - Cardinality(Y \cap X)
  BY FS_Difference
<1>2. X \cap Y = Y \cap X
  OBVIOUS
<1>3. /\ Cardinality(X) \in Nat /\ Cardinality(Y) \in Nat /\ Cardinality(X \cap Y) \in Nat
  BY FS_CardinalityType, FS_Intersection
<1> QED
  BY <1>1, <1>2, <1>3

Solving(S, code, text) == {c \in S : <<c, text[c]>> \in Passing[code]}
SolvedBefore(S) == {c \in S : BaseRows[c].passed}

\* What the transitions of a comparison say, and what they add up to.
TransitionsAreOf(x, code, text) ==
    \A c \in P8!SuiteCases :
        x.cases[c].transition =
          P8!Transition(BaseRows[c].passed, <<c, text[c]>> \in Passing[code])

LEMMA ComparisonParts ==
  ASSUME NEW git, NEW code, NEW contract, NEW text, NEW x,
         x = P8!Comparison(git, code, contract, text)
  PROVE  /\ x.git = git /\ x.contract = contract
         /\ \A c \in P8!SuiteCases :
              /\ x.cases[c].base = BaseRows[c] /\ x.cases[c].text = text[c]
              /\ x.cases[c].passed <=> <<c, text[c]>> \in Passing[code]
              /\ x.cases[c].transition =
                   P8!Transition(BaseRows[c].passed, <<c, text[c]>> \in Passing[code])
         /\ x.overall.delta = Cardinality(Solving(P8!SuiteCases, code, text))
                                - Cardinality(SolvedBefore(P8!SuiteCases))
         /\ \A k \in P8!Range(Category) :
              LET S == {c \in P8!SuiteCases : Category[c] = k} IN
              x.categories[k].delta = Cardinality(Solving(S, code, text))
                                        - Cardinality(SolvedBefore(S))
BY SameSize DEF P8!Comparison, Solving, SolvedBefore

LEMMA TransitionsAddUp ==
  ASSUME NEW S \in SUBSET P8!SuiteCases, IsFiniteSet(P8!SuiteCases), NEW code, NEW text,
         NEW x, TransitionsAreOf(x, code, text)
  PROVE  Cardinality(Solving(S, code, text)) - Cardinality(SolvedBefore(S)) = NetOf(x, S)
<1>1. IsFiniteSet(Solving(S, code, text)) /\ IsFiniteSet(SolvedBefore(S))
  <2>1. /\ Solving(S, code, text) \in SUBSET P8!SuiteCases
        /\ SolvedBefore(S) \in SUBSET P8!SuiteCases
    BY DEF Solving, SolvedBefore
  <2> QED
    BY <2>1, FS_Subset
<1>2. \A c \in P8!SuiteCases :
        /\ P8!Transition(BaseRows[c].passed, <<c, text[c]>> \in Passing[code]) = "improvement"
             <=> ~BaseRows[c].passed /\ <<c, text[c]>> \in Passing[code]
        /\ P8!Transition(BaseRows[c].passed, <<c, text[c]>> \in Passing[code]) = "regression"
             <=> BaseRows[c].passed /\ ~(<<c, text[c]>> \in Passing[code])
  BY RegressionAssumption DEF P8!Transition
<1>3. {c \in S : x.cases[c].transition = "improvement"}
        = Solving(S, code, text) \ SolvedBefore(S)
  BY <1>2 DEF Solving, SolvedBefore, TransitionsAreOf
<1>4. {c \in S : x.cases[c].transition = "regression"}
        = SolvedBefore(S) \ Solving(S, code, text)
  BY <1>2 DEF Solving, SolvedBefore, TransitionsAreOf
<1> QED
  BY <1>1, <1>3, <1>4, NetOfTwoSides DEF NetOf

\* What is accepted quotes the answers that the manifest vouches for: those begin the
\* file, answer every case, and the file answers none twice.
LEMMA AcceptedIsTrue ==
  ASSUME EvidenceInv, NEW p \in Processes, P8!Accept(p)
  PROVE  IsTrue(job[p])
<1> DEFINE made == job[p].made
           contract == job[p].contract
           code == job[p].code
<1>1. /\ job[p].kind = "verify" /\ job[p].step = "compare"
      /\ P8!Complete(checkpoints, contract)
      /\ made.comparison = P8!Recomputed(p) /\ made.git = job[p].git
  BY DEF P8!Accept, P8!At, P8!Agrees
<1>2. Vouched(made.rows, checkpoints) /\ checkpoints \in Seq(AnswerRows)
  BY <1>1 DEF EvidenceInv, JobOk
<1>3. PICK text : text = P8!Responses(checkpoints, contract)
  OBVIOUS
<1>4. PICK shown : shown = made.comparison
  OBVIOUS
<1>5. shown = P8!Comparison(job[p].git, code, contract, text)
  BY <1>1, <1>3, <1>4 DEF P8!Recomputed
<1>6. /\ Len(checkpoints) = Len(CaseList) /\ IsFiniteSet(P8!SuiteCases)
      /\ \A c \in P8!SuiteCases : \E i \in DOMAIN checkpoints :
           checkpoints[i] = P8!Row(c, text[c], contract)
  BY <1>1, <1>2, <1>3, AnswersCover
<1>7. made.rows = checkpoints
  <2>1. /\ made.rows \in Seq(AnswerRows) /\ Len(made.rows) <= Len(checkpoints)
        /\ Covers(made.rows) /\ \A i \in DOMAIN made.rows : checkpoints[i] = made.rows[i]
    BY <1>2 DEF Vouched
  <2>2. \A i, j \in DOMAIN checkpoints : checkpoints[i].case = checkpoints[j].case => i = j
    BY <1>1 DEF P8!Complete, P8!Loadable, P8!IsInjective
  <2>3. Len(made.rows) \in Nat /\ Len(checkpoints) \in Nat
        /\ DOMAIN made.rows = 1 .. Len(made.rows)
        /\ DOMAIN checkpoints = 1 .. Len(checkpoints)
    BY <1>2, <2>1
  <2>4. ASSUME Len(made.rows) < Len(checkpoints) PROVE FALSE
    <3>1. PICK n : n = Len(made.rows) + 1
      OBVIOUS
    <3>2. n \in DOMAIN checkpoints /\ ~(n \in DOMAIN made.rows)
      BY <2>3, <2>4, <3>1
    <3>3. checkpoints[n].case \in P8!SuiteCases
      <4>1. checkpoints[n] \in AnswerRows
        BY <1>2, <2>3, <3>2, ElementOfSeq
      <4> QED
        BY <4>1 DEF AnswerRows
    <3>4. PICK i \in DOMAIN made.rows : made.rows[i].case = checkpoints[n].case
      BY <2>1, <3>3 DEF Covers
    <3>5. i \in DOMAIN checkpoints /\ checkpoints[i] = made.rows[i]
      BY <2>1, <2>3
    <3> QED
      BY <2>2, <3>2, <3>4, <3>5
  <2>5. Len(made.rows) = Len(checkpoints)
    BY <2>1, <2>3, <2>4
  <2>6. \A i \in 1 .. Len(checkpoints) : made.rows[i] = checkpoints[i]
    BY <2>1, <2>3, <2>5
  <2> QED
    BY <2>1, <2>5, <2>6, <1>2, SeqEqual
<1>8. /\ shown.git = job[p].git /\ shown.contract = contract
      /\ \A c \in P8!SuiteCases :
           /\ shown.cases[c].base = BaseRows[c] /\ shown.cases[c].text = text[c]
           /\ shown.cases[c].passed <=> <<c, text[c]>> \in Passing[code]
           /\ shown.cases[c].transition =
                P8!Transition(BaseRows[c].passed, <<c, text[c]>> \in Passing[code])
      /\ shown.overall.delta = Cardinality(Solving(P8!SuiteCases, code, text))
                                 - Cardinality(SolvedBefore(P8!SuiteCases))
      /\ \A k \in P8!Range(Category) :
           shown.categories[k].delta =
             Cardinality(Solving({c \in P8!SuiteCases : Category[c] = k}, code, text))
               - Cardinality(SolvedBefore({c \in P8!SuiteCases : Category[c] = k}))
  BY <1>5, ComparisonParts
<1>9. ASSUME NEW S \in SUBSET P8!SuiteCases
      PROVE  Cardinality(Solving(S, code, text)) - Cardinality(SolvedBefore(S))
               = NetOf(shown, S)
  <2>1. TransitionsAreOf(shown, code, text)
    BY <1>8 DEF TransitionsAreOf
  <2> QED
    BY <1>6, <2>1, TransitionsAddUp
<1>10. ShowsTotals(shown)
  <2>1. shown.overall.delta = NetOf(shown, P8!SuiteCases)
    BY <1>8, <1>9
  <2>2. ASSUME NEW k \in P8!Range(Category)
        PROVE  shown.categories[k].delta =
                 NetOf(shown, {c \in P8!SuiteCases : Category[c] = k})
    <3>1. {c \in P8!SuiteCases : Category[c] = k} \in SUBSET P8!SuiteCases
      OBVIOUS
    <3> QED
      BY <1>8, <1>9, <3>1
  <2> QED
    BY <2>1, <2>2 DEF ShowsTotals
<1>11. PICK given : given = [c \in P8!SuiteCases |-> shown.cases[c].text]
  OBVIOUS
<1>12. \A c \in P8!SuiteCases : given[c] = text[c]
  BY <1>8, <1>11
<1>13. ShowsRows(made)
  <2>1. \A c \in P8!SuiteCases : \E i \in DOMAIN made.rows :
          made.rows[i] = P8!Row(c, given[c], shown.contract)
    BY <1>6, <1>7, <1>8, <1>12
  <2> QED
    BY <1>4, <1>6, <1>7, <1>11, <2>1 DEF ShowsRows
<1>14. ShowsVerdicts(made, code)
  <2>1. \A c \in P8!SuiteCases :
          /\ shown.cases[c].base = BaseRows[c]
          /\ shown.cases[c].passed <=> <<c, given[c]>> \in Passing[code]
    BY <1>8, <1>12
  <2> QED
    BY <1>4, <1>11, <2>1 DEF ShowsVerdicts
<1> QED
  BY <1>1, <1>4, <1>8, <1>10, <1>13, <1>14 DEF IsTrue

\* What else a command does with itself.
LEMMA JobStep ==
  ASSUME EvidenceInv, NEW p \in Processes, NEW kind \in P8!Commands,
         \/ P8!Launch(p, kind) \/ P8!Context(p) \/ P8!Preflight(p) \/ P8!Load(p)
         \/ P8!TakeUp(p) \/ P8!WriteStage(p)
         \/ P8!CheckStage(p) \/ P8!Compare(p) \/ P8!WriteComparison(p) \/ P8!Digest(p)
         \/ P8!ReadEvidence(p) \/ P8!Rehash(p) \/ P8!ReadComparison(p) \/ P8!Accept(p)
         \/ P8!Stop(p) \/ P8!Tear(p) \/ P8!WriteEvidence(p)
  PROVE  EvidenceInv'
<1>1. UNCHANGED <<checkpoints, suiteTree>>
  BY DEF P8!Launch, P8!Context, P8!Preflight, P8!Load, P8!TakeUp, P8!WriteStage,
         P8!CheckStage, P8!Compare, P8!WriteComparison, P8!Digest, P8!ReadEvidence,
         P8!Rehash, P8!ReadComparison, P8!Accept, P8!WriteEvidence, P8!Stop, P8!Tear,
         P8!files, P8!OnlyJob
<1>2. ASSUME DOMAIN job' = Processes, \A q \in Processes \ {p} : job'[q] = job[q],
             JobOk(job'[p], checkpoints), EvidenceOk(evidence', checkpoints)
      PROVE  EvidenceInv'
  BY <1>1, <1>2 DEF EvidenceInv
<1>3. JobOk(job[p], checkpoints) /\ EvidenceOk(evidence, checkpoints) /\ p \in DOMAIN job
  BY DEF EvidenceInv
<1>4. CASE P8!Launch(p, kind)
  <2>1. PICK none : none = [git |-> None, stage |-> None, rows |-> None, comparison |-> None]
    OBVIOUS
  <2>2. PICK new : new =
          [kind |-> kind, step |-> IF kind = "verify" THEN "manifest" ELSE "context",
           code |-> suiteTree, git |-> None, contract |-> None, rows |-> <<>>, next |-> 1,
           made |-> none]
    OBVIOUS
  <2>3. job' = [job EXCEPT ![p] = new] /\ evidence' = evidence
    BY <1>4, <2>1, <2>2 DEF P8!Launch, P8!files
  <2>4. JobOk(new, checkpoints)
    BY <2>1, <2>2 DEF Contracts, JobOk, EvidenceFields, P8!Commands
  <2> QED
    BY <2>3, <2>4, <1>2, <1>3 DEF EvidenceInv
<1>5. CASE P8!Context(p)
  <2>1. GenContract[suiteTree] \in Contracts
    BY DEF EvidenceInv, Contracts
  <2>2. /\ job' = [job EXCEPT ![p].step = "preflight", ![p].contract = GenContract[suiteTree]]
        /\ evidence' = evidence /\ job[p].kind # "none" /\ job[p].step = "context"
    BY <1>5 DEF P8!Context, P8!OnlyJob, P8!files
  <2>3. JobOk(job'[p], checkpoints)
    BY <2>1, <2>2, <1>3 DEF JobOk
  <2> QED
    BY <2>2, <2>3, <1>2, <1>3 DEF EvidenceInv
<1>6. CASE P8!Preflight(p)
  <2>1. PICK next : next = IF job[p].kind = "generate" THEN "load" ELSE "check"
    OBVIOUS
  <2>2. /\ job' = [job EXCEPT ![p].step = next, ![p].git = suiteTree]
        /\ evidence' = evidence /\ job[p].kind # "none" /\ job[p].step = "preflight"
        /\ next \in {"load", "check"}
    BY <1>6, <2>1 DEF P8!Preflight, P8!OnlyJob, P8!files
  <2>3. JobOk(job'[p], checkpoints)
    BY <2>2, <1>3 DEF JobOk
  <2> QED
    BY <2>2, <2>3, <1>2, <1>3 DEF EvidenceInv
<1>7. CASE P8!Load(p) \/ P8!TakeUp(p)
  <2>1. /\ \/ job' = [job EXCEPT ![p].step = "answer", ![p].rows = checkpoints]
           \/ job' = [job EXCEPT ![p].next = @ + 1]
        /\ evidence' = evidence /\ job[p].kind = "generate"
    BY <1>7 DEF P8!Load, P8!TakeUp, P8!At, P8!OnlyJob, P8!files
  <2>2. JobOk(job'[p], checkpoints)
    BY <2>1, <1>3 DEF JobOk
  <2> QED
    BY <2>1, <2>2, <1>2, <1>3 DEF EvidenceInv
<1>8. CASE P8!CheckStage(p)
  <2>1. /\ job' = [job EXCEPT ![p].step = "compare"]
        /\ evidence' = evidence /\ job[p].kind # "none" /\ job[p].step = "check"
    BY <1>8 DEF P8!CheckStage, P8!OnlyJob, P8!files
  <2>2. JobOk(job'[p], checkpoints)
    BY <2>1, <1>3 DEF JobOk
  <2> QED
    BY <2>1, <2>2, <1>2, <1>3 DEF EvidenceInv
<1>9. CASE P8!Compare(p)
  <2>1. PICK new : new = P8!Recomputed(p)
    OBVIOUS
  <2>2. /\ job' = [job EXCEPT ![p].step = "write", ![p].made.comparison = new]
        /\ evidence' = evidence /\ job[p].kind = "score" /\ job[p].step = "compare"
        /\ P8!Complete(checkpoints, job[p].contract)
    BY <1>9, <2>1 DEF P8!Compare, P8!At, P8!OnlyJob, P8!files
  <2>3. Covers(checkpoints)
    <3>1. \A c \in P8!SuiteCases : \E i \in DOMAIN checkpoints :
            checkpoints[i] = P8!Row(c, P8!Responses(checkpoints, job[p].contract)[c],
                                    job[p].contract)
      BY <2>2, AnswersCover DEF EvidenceInv
    <3> QED
      BY <3>1 DEF Covers, P8!Row
  <2>4. JobOk(job'[p], checkpoints)
    BY <2>2, <2>3, <1>3 DEF JobOk, EvidenceFields
  <2> QED
    BY <2>2, <2>4, <1>2, <1>3 DEF EvidenceInv
<1>10. CASE P8!WriteComparison(p)
  <2>1. /\ job' = [job EXCEPT ![p].step = "digest", ![p].made.git = job[p].git]
        /\ evidence' = evidence /\ job[p].kind = "score" /\ job[p].step = "write"
    BY <1>10 DEF P8!WriteComparison, P8!At
  <2>2. JobOk(job'[p], checkpoints)
    BY <2>1, <1>3 DEF JobOk, EvidenceFields
  <2> QED
    BY <2>1, <2>2, <1>2, <1>3 DEF EvidenceInv
<1>11. CASE P8!Digest(p)
  <2>1. PICK n : n = job[p].next
    OBVIOUS
  <2>2. PICK file : file = P8!Hashed[n]
    OBVIOUS
  <2>3. PICK content : content = P8!Disk[file]
    OBVIOUS
  <2>4. /\ job' = [job EXCEPT ![p].made[file] = content, ![p].next = n + 1]
        /\ evidence' = evidence /\ job[p].kind = "score" /\ job[p].step = "digest"
        /\ n <= 3
    BY <1>11, <2>1, <2>2, <2>3 DEF P8!Digest, P8!At, P8!OnlyJob, P8!files, P8!Hashed
  <2>5. n \in 1 .. 3 /\ Covers(checkpoints) /\ DOMAIN job[p].made = EvidenceFields
    BY <2>1, <2>4, <1>3 DEF JobOk
  <2>6. /\ file = "rows" <=> n = 2
        /\ file \in EvidenceFields
        /\ n = 2 => content = checkpoints
    BY <2>2, <2>3, <2>5 DEF P8!Hashed, P8!Disk, EvidenceFields
  <2>7. Vouched(checkpoints, checkpoints)
    BY <2>5 DEF Vouched, EvidenceInv
  <2>8. /\ DOMAIN job'[p] = DOMAIN job[p] /\ DOMAIN job'[p].made = EvidenceFields
        /\ job'[p].kind = job[p].kind /\ job'[p].step = job[p].step
        /\ job'[p].contract = job[p].contract /\ job'[p].next = n + 1
        /\ job'[p].made.rows = IF n = 2 THEN checkpoints ELSE job[p].made.rows
    <3>1. PICK made : made = [job[p].made EXCEPT ![file] = content]
      OBVIOUS
    <3>2. /\ DOMAIN made = EvidenceFields
          /\ made.rows = IF n = 2 THEN checkpoints ELSE job[p].made.rows
      BY <2>5, <2>6, <3>1 DEF EvidenceFields
    <3>3. job' = [job EXCEPT ![p].made = made, ![p].next = n + 1]
      BY <2>4, <3>1
    <3>4. {"kind", "step", "contract", "next", "made"} \subseteq DOMAIN job[p]
      BY <2>4, <1>3 DEF JobOk
    <3>5. /\ DOMAIN job'[p] = DOMAIN job[p] /\ job'[p].made = made
          /\ job'[p].kind = job[p].kind /\ job'[p].step = job[p].step
          /\ job'[p].contract = job[p].contract /\ job'[p].next = n + 1
      BY <3>3, <3>4, <1>3
    <3> QED
      BY <3>2, <3>5
  <2>9. n = 3 => Vouched(job[p].made.rows, checkpoints)
    BY <2>1, <2>4, <1>3 DEF JobOk
  <2>10. JobOk(job'[p], checkpoints)
    BY <2>4, <2>5, <2>7, <2>8, <2>9, <1>3 DEF JobOk
  <2> QED
    BY <2>4, <2>10, <1>2, <1>3 DEF EvidenceInv
<1>12. CASE P8!ReadEvidence(p)
  <2>1. /\ job' = [job EXCEPT ![p].step = "hash", ![p].made = evidence]
        /\ evidence' = evidence /\ job[p].kind = "verify" /\ evidence # None
    BY <1>12 DEF P8!ReadEvidence, P8!At, P8!OnlyJob, P8!files
  <2>2. JobOk(job'[p], checkpoints)
    BY <2>1, <1>3 DEF JobOk, EvidenceOk
  <2> QED
    BY <2>1, <2>2, <1>2, <1>3 DEF EvidenceInv
<1>13. CASE P8!Rehash(p)
  <2>1. /\ job' = [job EXCEPT ![p].next = @ + 1]
        /\ evidence' = evidence /\ job[p].kind = "verify" /\ job[p].step = "hash"
    BY <1>13 DEF P8!Rehash, P8!At, P8!OnlyJob, P8!files
  <2>2. JobOk(job'[p], checkpoints)
    BY <2>1, <1>3 DEF JobOk
  <2> QED
    BY <2>1, <2>2, <1>2, <1>3 DEF EvidenceInv
<1>14. CASE P8!ReadComparison(p)
  <2>1. PICK read : read = comparison
    OBVIOUS
  <2>2. /\ job' = [job EXCEPT ![p].step = "context", ![p].made.comparison = read]
        /\ evidence' = evidence /\ job[p].kind = "verify" /\ job[p].step = "hash"
    BY <1>14, <2>1 DEF P8!ReadComparison, P8!At, P8!OnlyJob, P8!files
  <2>3. JobOk(job'[p], checkpoints)
    BY <2>2, <1>3 DEF JobOk, EvidenceFields
  <2> QED
    BY <2>2, <2>3, <1>2, <1>3 DEF EvidenceInv
<1>15. CASE P8!Accept(p)
  <2>1. /\ job' = [job EXCEPT ![p].step = "accepted"]
        /\ evidence' = evidence /\ job[p].kind = "verify" /\ job[p].step = "compare"
    BY <1>15 DEF P8!Accept, P8!At, P8!OnlyJob, P8!files
  <2>2. IsTrue(job[p])
    BY <1>15, AcceptedIsTrue
  <2>3. job'[p].made = job[p].made /\ job'[p].code = job[p].code
    BY <2>1, <1>3 DEF JobOk
  <2>4. IsTrue(job'[p])
    BY <2>2, <2>3 DEF IsTrue
  <2>5. JobOk(job'[p], checkpoints)
    BY <2>1, <2>4, <1>3 DEF JobOk
  <2> QED
    BY <2>1, <2>5, <1>2, <1>3 DEF EvidenceInv
<1>16. CASE P8!WriteEvidence(p)
  <2>1. /\ job' = [job EXCEPT ![p] = P8!Idle] /\ evidence' = job[p].made
        /\ job[p].kind = "score" /\ job[p].step = "digest" /\ job[p].next > 3
    BY <1>16 DEF P8!WriteEvidence, P8!At, P8!Hashed
  <2>2. EvidenceOk(evidence', checkpoints)
    BY <2>1, <1>3 DEF JobOk, EvidenceOk
  <2>3. JobOk(job'[p], checkpoints)
    BY <2>1, <1>3 DEF JobOk, P8!Idle
  <2> QED
    BY <2>1, <2>2, <2>3, <1>2, <1>3 DEF EvidenceInv
<1>17. CASE P8!WriteStage(p) \/ P8!Stop(p) \/ P8!Tear(p)
  <2>1. /\ job' = [job EXCEPT ![p] = P8!Idle]
        /\ evidence' \in {evidence, None}
    BY <1>17 DEF P8!WriteStage, P8!Stop, P8!Tear, P8!files
  <2>2. EvidenceOk(evidence', checkpoints)
    BY <2>1, <1>3 DEF EvidenceOk
  <2>3. JobOk(job'[p], checkpoints)
    BY <2>1, <1>3 DEF JobOk, P8!Idle
  <2> QED
    BY <2>1, <2>2, <2>3, <1>2, <1>3 DEF EvidenceInv
<1> QED
  BY <1>4, <1>5, <1>6, <1>7, <1>8, <1>9, <1>10, <1>11, <1>12, <1>13, <1>14, <1>15, <1>16, <1>17

LEMMA EvidenceStep ==
  ASSUME EvidenceInv, [P8!Next]_(P8!vars)
  PROVE  EvidenceInv'
<1>1. CASE \E c \in Commits : P8!Checkout(c)
  BY <1>1 DEF P8!Checkout, P8!files, EvidenceInv
<1>2. CASE UNCHANGED P8!vars
  BY <1>2 DEF P8!vars, EvidenceInv
<1>3. CASE \E p \in Processes, text \in UNION P8!Range(Texts) : P8!Answer(p, text)
  BY <1>3, AnswerKeepsEvidence
<1>4. CASE \E p \in Processes, kind \in P8!Commands :
             \/ P8!Launch(p, kind) \/ P8!Context(p) \/ P8!Preflight(p) \/ P8!Load(p)
             \/ P8!TakeUp(p) \/ P8!WriteStage(p)
             \/ P8!CheckStage(p) \/ P8!Compare(p) \/ P8!WriteComparison(p) \/ P8!Digest(p)
             \/ P8!ReadEvidence(p) \/ P8!Rehash(p) \/ P8!ReadComparison(p) \/ P8!Accept(p)
             \/ P8!Stop(p) \/ P8!Tear(p) \/ P8!WriteEvidence(p)
  BY <1>4, JobStep
<1>5. "score" \in P8!Commands
  BY DEF P8!Commands
<1> QED
  BY <1>1, <1>2, <1>3, <1>4, <1>5 DEF P8!Next

LEMMA InvMeansTrue ==
  ASSUME EvidenceInv
  PROVE  P8!ComparisonIsTrue
<1> SUFFICES ASSUME NEW p \in Processes, P8!Accepted(p)
             PROVE  /\ IsTrue(job[p])
                    /\ Len(job[p].made.rows) <= Len(checkpoints)
                    /\ \A i \in DOMAIN job[p].made.rows :
                         checkpoints[i] = job[p].made.rows[i]
  BY SameSize DEF P8!ComparisonIsTrue, IsTrue, ShowsRows, ShowsVerdicts, ShowsTotals, NetOf
<1>1. job[p].kind = "verify" /\ job[p].step = "accepted"
  BY DEF P8!Accepted, P8!At
<1>2. JobOk(job[p], checkpoints)
  BY DEF EvidenceInv
<1> QED
  BY <1>1, <1>2 DEF JobOk, Vouched

\* What verify accepts is true, for any suite, commits and number of commands and
\* however they overlap, are killed or meet another checkout.
THEOREM VerifiedComparisonsAreTrue ==
  P8!Spec => []ComparisonIsTrue
<1>1. P8!Init => EvidenceInv
  BY DEF P8!Init, EvidenceInv, P8!Idle, JobOk, EvidenceOk
<1>2. EvidenceInv /\ [P8!Next]_(P8!vars) => EvidenceInv'
  BY EvidenceStep
<1>3. EvidenceInv => ComparisonIsTrue
  BY InvMeansTrue DEF ComparisonIsTrue
<1> QED
  BY <1>1, <1>2, <1>3, PTL DEF P8!Spec

----------------------------------------------------------------------------
(* Counting the subsets of a finite set, one element after the other *)

AtLeast(D, i) == {S \in SUBSET D : Cardinality(S) >= i}
Exactly(D, k) == {S \in SUBSET D : Cardinality(S) = k}
With(t, Y) == {S \cup {t} : S \in Y}

LEMMA SizeOfPart ==
  ASSUME NEW D, IsFiniteSet(D), NEW S \in SUBSET D
  PROVE  IsFiniteSet(S) /\ Cardinality(S) \in Nat /\ Cardinality(S) <= Cardinality(D)
BY FS_Subset, FS_CardinalityType

\* Any families of subsets are finite.
LEMMA FamilyIsFinite ==
  ASSUME NEW D, IsFiniteSet(D), NEW X \in SUBSET SUBSET D
  PROVE  IsFiniteSet(X) /\ Cardinality(X) \in Nat
<1>1. IsFiniteSet(SUBSET D)
  BY FS_SUBSET
<1> QED BY <1>1, FS_Subset, FS_CardinalityType

\* The union of what lies apart.
LEMMA SizeOfBoth ==
  ASSUME NEW X, NEW Y, IsFiniteSet(X), IsFiniteSet(Y), X \cap Y = {}
  PROVE  IsFiniteSet(X \cup Y) /\ Cardinality(X \cup Y) = Cardinality(X) + Cardinality(Y)
<1>1. /\ IsFiniteSet(X \cup Y)
      /\ Cardinality(X \cup Y) = Cardinality(X) + Cardinality(Y) - Cardinality(X \cap Y)
  BY FS_Union
<1>2. Cardinality(X \cap Y) = 0
  BY FS_EmptySet
<1>3. Cardinality(X) \in Nat /\ Cardinality(Y) \in Nat
  BY FS_CardinalityType
<1> QED BY <1>1, <1>2, <1>3

\* As many subsets with one element more.
LEMMA SizeOfWith ==
  ASSUME NEW D, IsFiniteSet(D), NEW t, t \notin D, NEW Y \in SUBSET SUBSET D
  PROVE  IsFiniteSet(With(t, Y)) /\ Cardinality(With(t, Y)) = Cardinality(Y)
<1>1. IsFiniteSet(Y)
  BY FamilyIsFinite
<1>2. PICK f : f = [S \in Y |-> S \cup {t}]
  OBVIOUS
<1>3. \A S \in Y : f[S] = S \cup {t}
  BY <1>2
<1>4. f \in [Y -> With(t, Y)]
  BY <1>2 DEF With
<1>5. ASSUME NEW S \in Y, NEW R \in Y, f[S] = f[R] PROVE S = R
  <2>1. S \cup {t} = R \cup {t} /\ t \notin S /\ t \notin R
    BY <1>3, <1>5
  <2> QED BY <2>1
<1>6. \A Z \in With(t, Y) : \E S \in Y : f[S] = Z
  BY <1>3 DEF With
<1>7. f \in Bijection(Y, With(t, Y))
  BY <1>4, <1>5, <1>6 DEF Bijection, Injection, Surjection, IsInjective
<1>8. ExistsBijection(Y, With(t, Y))
  BY <1>7 DEF ExistsBijection
<1> QED BY <1>1, <1>8, FS_Bijection

LEMMA SizeOfHalves ==
  ASSUME NEW D, IsFiniteSet(D), NEW t, t \notin D,
         NEW X \in SUBSET SUBSET D, NEW Y \in SUBSET SUBSET D
  PROVE  Cardinality(X \cup With(t, Y)) = Cardinality(X) + Cardinality(Y)
<1>1. X \cap With(t, Y) = {}
  BY DEF With
<1>2. IsFiniteSet(X) /\ IsFiniteSet(With(t, Y)) /\ Cardinality(With(t, Y)) = Cardinality(Y)
  BY FamilyIsFinite, SizeOfWith
<1> QED BY <1>1, <1>2, SizeOfBoth

\* A subset of a set with one element more has that element or has it not.
LEMMA PartsOfMore ==
  ASSUME NEW D, IsFiniteSet(D), NEW t, t \notin D
  PROVE  SUBSET (D \cup {t}) = (SUBSET D) \cup With(t, SUBSET D)
<1>1. ASSUME NEW S \in SUBSET (D \cup {t}) PROVE S \in (SUBSET D) \cup With(t, SUBSET D)
  <2>1. CASE t \in S
    <3>1. S \ {t} \in SUBSET D /\ S = (S \ {t}) \cup {t}
      BY <2>1
    <3> QED BY <3>1 DEF With
  <2>2. CASE t \notin S
    BY <2>2
  <2> QED BY <2>1, <2>2
<1>2. (SUBSET D) \cup With(t, SUBSET D) \subseteq SUBSET (D \cup {t})
  BY DEF With
<1> QED BY <1>1, <1>2

LEMMA SizeOfMore ==
  ASSUME NEW D, IsFiniteSet(D), NEW t, t \notin D, NEW S \in SUBSET D
  PROVE  Cardinality(S) \in Nat /\ Cardinality(S \cup {t}) = Cardinality(S) + 1
<1>1. IsFiniteSet(S) /\ Cardinality(S) \in Nat /\ t \notin S
  BY SizeOfPart
<1> QED BY <1>1, FS_AddElement

LEMMA PowerDoubles ==
  ASSUME NEW D, IsFiniteSet(D), NEW t, t \notin D
  PROVE  Cardinality(SUBSET (D \cup {t})) = 2 * Cardinality(SUBSET D)
<1>1. SUBSET (D \cup {t}) = (SUBSET D) \cup With(t, SUBSET D)
  BY PartsOfMore
<1>2. PICK P \in SUBSET SUBSET D : P = SUBSET D
  OBVIOUS
<1>3. Cardinality(P) \in Nat
  BY FamilyIsFinite
<1>4. Cardinality(P \cup With(t, P)) = Cardinality(P) + Cardinality(P)
  BY SizeOfHalves
<1>5. SUBSET (D \cup {t}) = P \cup With(t, P)
  BY <1>1, <1>2, Zenon
<1>6. Cardinality(SUBSET (D \cup {t})) = Cardinality(P) + Cardinality(P)
  BY <1>4, <1>5, Zenon
<1>7. Cardinality(SUBSET (D \cup {t})) = 2 * Cardinality(P)
  BY <1>3, <1>6
<1> QED BY <1>2, <1>7, Zenon

LEMMA AtLeastOfMore ==
  ASSUME NEW D, IsFiniteSet(D), NEW t, t \notin D, NEW i \in Int
  PROVE  /\ Cardinality(AtLeast(D \cup {t}, i))
              = Cardinality(AtLeast(D, i)) + Cardinality(AtLeast(D, i - 1))
         /\ Cardinality(AtLeast(D, i)) \in Nat
         /\ Cardinality(AtLeast(D, i)) <= Cardinality(AtLeast(D, i - 1))
<1>1. AtLeast(D, i) \in SUBSET SUBSET D /\ AtLeast(D, i - 1) \in SUBSET SUBSET D
  BY DEF AtLeast
<1>2. AtLeast(D \cup {t}, i) = AtLeast(D, i) \cup With(t, AtLeast(D, i - 1))
  <2>1. ASSUME NEW S \in SUBSET D
        PROVE  Cardinality(S \cup {t}) >= i <=> Cardinality(S) >= i - 1
    <3>1. Cardinality(S) \in Nat /\ Cardinality(S \cup {t}) = Cardinality(S) + 1
      BY SizeOfMore
    <3> QED BY <3>1
  <2>2. ASSUME NEW S \in AtLeast(D \cup {t}, i)
        PROVE  S \in AtLeast(D, i) \cup With(t, AtLeast(D, i - 1))
    <3>1. S \in (SUBSET D) \cup With(t, SUBSET D) /\ Cardinality(S) >= i
      BY PartsOfMore DEF AtLeast
    <3> QED BY <2>1, <3>1 DEF With, AtLeast
  <2>3. ASSUME NEW S \in AtLeast(D, i) \cup With(t, AtLeast(D, i - 1))
        PROVE  S \in AtLeast(D \cup {t}, i)
    <3>1. S \in (SUBSET D) \cup With(t, SUBSET D) /\ Cardinality(S) >= i
      BY <2>1 DEF AtLeast, With
    <3> QED BY <3>1, PartsOfMore DEF AtLeast
  <2> QED BY <2>2, <2>3
<1>3. AtLeast(D, i) \subseteq AtLeast(D, i - 1)
  <2>1. \A S \in SUBSET D : Cardinality(S) \in Nat
    BY SizeOfPart
  <2> QED BY <2>1 DEF AtLeast
<1>4. IsFiniteSet(AtLeast(D, i - 1)) /\ Cardinality(AtLeast(D, i)) \in Nat
  BY <1>1, FamilyIsFinite
<1>5. Cardinality(AtLeast(D, i) \cup With(t, AtLeast(D, i - 1)))
        = Cardinality(AtLeast(D, i)) + Cardinality(AtLeast(D, i - 1))
  BY <1>1, SizeOfHalves
<1>6. Cardinality(AtLeast(D, i)) <= Cardinality(AtLeast(D, i - 1))
  BY <1>3, <1>4, FS_Subset
<1> QED BY <1>2, <1>4, <1>5, <1>6

LEMMA ExactlyOfMore ==
  ASSUME NEW D, IsFiniteSet(D), NEW t, t \notin D, NEW k \in Int
  PROVE  Cardinality(Exactly(D \cup {t}, k))
           = Cardinality(Exactly(D, k)) + Cardinality(Exactly(D, k - 1))
<1>1. Exactly(D, k) \in SUBSET SUBSET D /\ Exactly(D, k - 1) \in SUBSET SUBSET D
  BY DEF Exactly
<1>2. Exactly(D \cup {t}, k) = Exactly(D, k) \cup With(t, Exactly(D, k - 1))
  <2>1. ASSUME NEW S \in SUBSET D
        PROVE  Cardinality(S \cup {t}) = k <=> Cardinality(S) = k - 1
    <3>1. Cardinality(S) \in Nat /\ Cardinality(S \cup {t}) = Cardinality(S) + 1
      BY SizeOfMore
    <3> QED BY <3>1
  <2>2. ASSUME NEW S \in Exactly(D \cup {t}, k)
        PROVE  S \in Exactly(D, k) \cup With(t, Exactly(D, k - 1))
    <3>1. S \in (SUBSET D) \cup With(t, SUBSET D) /\ Cardinality(S) = k
      BY PartsOfMore DEF Exactly
    <3> QED BY <2>1, <3>1 DEF With, Exactly
  <2>3. ASSUME NEW S \in Exactly(D, k) \cup With(t, Exactly(D, k - 1))
        PROVE  S \in Exactly(D \cup {t}, k)
    <3>1. S \in (SUBSET D) \cup With(t, SUBSET D) /\ Cardinality(S) = k
      BY <2>1 DEF Exactly, With
    <3> QED BY <3>1, PartsOfMore DEF Exactly
  <2> QED BY <2>2, <2>3
<1>3. Cardinality(Exactly(D, k) \cup With(t, Exactly(D, k - 1)))
        = Cardinality(Exactly(D, k)) + Cardinality(Exactly(D, k - 1))
  BY <1>1, SizeOfHalves
<1> QED BY <1>2, <1>3

\* At most half of the subsets have fewer elements than half of the set.
LEMMA HalfOfSubsets ==
  ASSUME NEW D, IsFiniteSet(D), NEW i \in Nat, NEW r \in Nat, Cardinality(D) = i + r, i <= r + 1
  PROVE  Cardinality(SUBSET D) <= 2 * Cardinality(AtLeast(D, i))
<1>1. PICK X : X = AtLeast(D, i)
  OBVIOUS
<1>2. PICK Y : Y = (SUBSET D) \ X
  OBVIOUS
<1>3. X \in SUBSET SUBSET D /\ Y \in SUBSET SUBSET D
  BY <1>1, <1>2 DEF AtLeast
<1>4. PICK f : f = [S \in Y |-> D \ S]
  OBVIOUS
<1>5. ASSUME NEW S \in Y PROVE f[S] = D \ S /\ D \ S \in X
  <2>1. S \in SUBSET D /\ ~(Cardinality(S) >= i)
    BY <1>1, <1>2 DEF AtLeast
  <2>2. Cardinality(S) \in Nat
    BY <2>1, SizeOfPart
  <2>3. D \cap S = S
    BY <2>1
  <2>4. Cardinality(D \ S) = Cardinality(D) - Cardinality(S)
    BY <2>3, FS_Difference
  <2>5. Cardinality(D \ S) >= i
    BY <2>1, <2>2, <2>4
  <2>6. D \ S \in SUBSET D
    OBVIOUS
  <2> QED BY <1>1, <1>4, <2>5, <2>6 DEF AtLeast
<1>6. f \in [Y -> X]
  BY <1>4, <1>5
<1>7. ASSUME NEW S \in Y, NEW R \in Y, f[S] = f[R] PROVE S = R
  <2>1. D \ S = D \ R /\ S \subseteq D /\ R \subseteq D
    BY <1>3, <1>5, <1>7
  <2> QED BY <2>1
<1>8. f \in Injection(Y, X)
  BY <1>6, <1>7 DEF Injection, IsInjective
<1>9. IsFiniteSet(X) /\ IsFiniteSet(Y) /\ Cardinality(X) \in Nat /\ Cardinality(Y) \in Nat
  BY <1>3, FamilyIsFinite
<1>10. Cardinality(Y) <= Cardinality(X)
  BY <1>8, <1>9, FS_Injection
<1>11. X \cup Y = SUBSET D /\ X \cap Y = {}
  BY <1>2, <1>3
<1>12. Cardinality(SUBSET D) = Cardinality(X) + Cardinality(Y)
  BY <1>9, <1>11, SizeOfBoth
<1> QED BY <1>1, <1>9, <1>10, <1>12

\* Powers of two, by the sets that have so many subsets.
LEMMA PowersOfTwo ==
  /\ \A n \in Nat : 2 ^ n \in Nat /\ 2 ^ n > 0 /\ 2 ^ (n + 1) = 2 * 2 ^ n
  /\ 2 ^ 1 = 2
<1>1. ASSUME NEW n \in Nat PROVE 2 ^ n \in Nat /\ 2 ^ n > 0 /\ 2 ^ (n + 1) = 2 * 2 ^ n
  <2>1. IsFiniteSet(1 .. n) /\ Cardinality(1 .. n) = n
    BY FS_Interval
  <2>2. n + 1 \notin 1 .. n /\ 1 .. n + 1 = (1 .. n) \cup {n + 1}
    OBVIOUS
  <2>3. IsFiniteSet(1 .. n + 1) /\ Cardinality(1 .. n + 1) = n + 1
    <3>1. n + 1 \in Int
      OBVIOUS
    <3> QED BY <3>1, FS_Interval
  <2>4. Cardinality(SUBSET (1 .. n)) = 2 ^ n /\ Cardinality(SUBSET (1 .. n + 1)) = 2 ^ (n + 1)
    BY <2>1, <2>3, FS_SUBSET
  <2>5. Cardinality(SUBSET (1 .. n + 1)) = 2 * Cardinality(SUBSET (1 .. n))
    BY <2>1, <2>2, PowerDoubles
  <2>6. IsFiniteSet(SUBSET (1 .. n)) /\ Cardinality(SUBSET (1 .. n)) \in Nat
    BY <2>1, FamilyIsFinite
  <2>7. Cardinality(SUBSET (1 .. n)) # 0
    BY <2>6, FS_EmptySet
  <2> QED BY <2>4, <2>5, <2>6, <2>7
<1>2. 2 ^ 0 = 1
  <2>1. SUBSET {} = {{}}
    OBVIOUS
  <2>2. Cardinality(SUBSET {}) = 1
    BY <2>1, FS_Singleton
  <2> QED BY <2>2, FS_SUBSET, FS_EmptySet
<1>3. 2 ^ (0 + 1) = 2 * 2 ^ 0
  BY <1>1
<1>4. 0 + 1 = 1
  OBVIOUS
<1>5. 2 ^ 1 = 2 * 2 ^ 0
  BY <1>3, <1>4
<1> QED BY <1>1, <1>2, <1>5

LEMMA PowersGrow ==
  ASSUME NEW m \in Nat, NEW n \in Nat, m <= n
  PROVE  2 ^ m <= 2 ^ n
<1> DEFINE T == {k \in Nat : 2 ^ m <= 2 ^ (m + k)}
<1>1. 0 \in T
  <2>1. m + 0 = m /\ 2 ^ m \in Nat
    BY PowersOfTwo
  <2>2. 2 ^ (m + 0) = 2 ^ m
    BY <2>1
  <2> QED BY <2>1, <2>2
<1>2. ASSUME NEW k \in Nat, k \in T PROVE k + 1 \in T
  <2>1. 2 ^ ((m + k) + 1) = 2 * 2 ^ (m + k) /\ 2 ^ (m + k) \in Nat /\ 2 ^ m \in Nat
    BY PowersOfTwo
  <2>2. (m + k) + 1 = m + (k + 1)
    OBVIOUS
  <2>3. 2 ^ (m + (k + 1)) = 2 * 2 ^ (m + k)
    BY <2>1, <2>2
  <2> QED BY <1>2, <2>1, <2>3
<1>3. Nat \subseteq T
  <2> HIDE DEF T
  <2> QED BY <1>1, <1>2, NatInd
<1>4. n - m \in Nat /\ m + (n - m) = n
  OBVIOUS
<1>5. 2 ^ m <= 2 ^ (m + (n - m))
  BY <1>3, <1>4
<1> QED BY <1>4, <1>5

\* Not more than one in 2 ^ net of the subsets is too much: at least that share of them
\* has i elements or more, of i + r.
Share(D, i, net) == Cardinality(SUBSET D) <= 2 ^ net * Cardinality(AtLeast(D, i))

LEMMA ShareOfNet ==
  ASSUME NEW U, IsFiniteSet(U), NEW i \in Nat, NEW r \in Nat, Cardinality(U) = i + r, i > r
  PROVE  Share(U, i, i - r)
<1> DEFINE Fits(m, D) == Cardinality(D) = r + 1 + m + r => Share(D, r + 1 + m, m + 1)
           T == {m \in Nat : \A D \in SUBSET U : Fits(m, D)}
<1>1. 0 \in T
  <2> SUFFICES ASSUME NEW D \in SUBSET U, Cardinality(D) = r + 1 + 0 + r
               PROVE  Share(D, r + 1 + 0, 0 + 1)
    OBVIOUS
  <2>1. IsFiniteSet(D) /\ r + 1 \in Nat /\ Cardinality(D) = (r + 1) + r
    BY SizeOfPart
  <2>2. Cardinality(SUBSET D) <= 2 * Cardinality(AtLeast(D, r + 1))
    BY <2>1, HalfOfSubsets
  <2>3. r + 1 + 0 = r + 1 /\ 0 + 1 = 1
    OBVIOUS
  <2>4. Share(D, r + 1, 1)
    BY <2>2, PowersOfTwo DEF Share
  <2> QED BY <2>3, <2>4
<1>2. ASSUME NEW m \in Nat, m \in T PROVE m + 1 \in T
  <2> SUFFICES ASSUME NEW D \in SUBSET U, Cardinality(D) = r + 1 + (m + 1) + r
               PROVE  Share(D, r + 1 + (m + 1), (m + 1) + 1)
    OBVIOUS
  <2>1. IsFiniteSet(D) /\ Cardinality(D) # 0
    BY SizeOfPart
  <2>2. PICK t : t \in D
    BY <2>1, FS_EmptySet
  <2>3. PICK E : E = D \ {t}
    OBVIOUS
  <2>4. E \in SUBSET U /\ t \notin E /\ D = E \cup {t}
    BY <2>2, <2>3
  <2>5. IsFiniteSet(E) /\ Cardinality(E) = Cardinality(D) - 1
    BY <2>1, <2>2, <2>3, FS_RemoveElement
  <2>6. Cardinality(E) = r + 1 + m + r
    BY <2>5
  <2>7. PICK k \in Nat : k = r + 1 + m
    OBVIOUS
  <2>8. Share(E, k, m + 1)
    BY <1>2, <2>4, <2>6, <2>7
  <2>9. PICK a \in Nat, b \in Nat, p \in Nat :
          a = Cardinality(AtLeast(E, k)) /\ b = Cardinality(AtLeast(D, k + 1)) /\ p = 2 ^ (m + 1)
    <3>1. AtLeast(E, k) \in SUBSET SUBSET E /\ AtLeast(D, k + 1) \in SUBSET SUBSET D
      BY DEF AtLeast
    <3>2. m + 1 \in Nat
      OBVIOUS
    <3> QED BY <2>1, <2>5, <3>1, <3>2, FamilyIsFinite, PowersOfTwo
  <2>10. a <= b
    <3>1. /\ Cardinality(AtLeast(E \cup {t}, k + 1))
               = Cardinality(AtLeast(E, k + 1)) + Cardinality(AtLeast(E, (k + 1) - 1))
          /\ Cardinality(AtLeast(E, k + 1)) \in Nat
      <4>1. k + 1 \in Int
        OBVIOUS
      <4> QED BY <2>4, <2>5, <4>1, AtLeastOfMore
    <3>2. (k + 1) - 1 = k
      OBVIOUS
    <3> QED BY <2>4, <2>9, <3>1, <3>2
  <2>11. Cardinality(SUBSET E) <= p * a /\ Cardinality(SUBSET E) \in Nat
    BY <2>5, <2>8, <2>9, FamilyIsFinite DEF Share
  <2>12. Cardinality(SUBSET D) = 2 * Cardinality(SUBSET E)
    BY <2>4, <2>5, PowerDoubles
  <2>13. p * a <= p * b
    BY <2>10
  <2>14. 2 ^ ((m + 1) + 1) = 2 * p
    <3>1. m + 1 \in Nat
      OBVIOUS
    <3> QED BY <2>9, <3>1, PowersOfTwo
  <2>15. (2 * p) * b = 2 * (p * b)
    OBVIOUS
  <2>16. p * a \in Nat /\ p * b \in Nat
    OBVIOUS
  <2>17. Cardinality(SUBSET D) <= (2 * p) * b
    BY <2>11, <2>12, <2>13, <2>15, <2>16
  <2>18. r + 1 + (m + 1) = k + 1
    BY <2>7
  <2> QED BY <2>9, <2>14, <2>17, <2>18 DEF Share
<1>3. Nat \subseteq T
  <2> HIDE DEF T
  <2> QED BY <1>1, <1>2, NatInd
<1>4. PICK m \in Nat : m = i - r - 1
  OBVIOUS
<1>5. r + 1 + m = i /\ m + 1 = i - r /\ Cardinality(U) = r + 1 + m + r
  BY <1>4
<1>6. Fits(m, U)
  BY <1>3
<1> QED BY <1>5, <1>6

----------------------------------------------------------------------------
(* Factorials and binomial coefficients, which the library defines by recursion and *)
(* by division                                                                      *)

FactorialUpTo(f, m) ==
    /\ f \in [0 .. m -> Nat] /\ f[0] = 1
    /\ \A n \in 1 .. m : f[n] = n * f[n - 1]

LEMMA FactorialUpToExists ==
  ASSUME NEW m \in Nat
  PROVE  \E f : FactorialUpTo(f, m)
<1> DEFINE T == {n \in Nat : \E f : FactorialUpTo(f, n)}
<1>1. 0 \in T
  <2>1. PICK g : g = [n \in 0 .. 0 |-> 1]
    OBVIOUS
  <2>2. g \in [0 .. 0 -> Nat] /\ g[0] = 1 /\ 1 .. 0 = {}
    BY <2>1
  <2>3. FactorialUpTo(g, 0)
    BY <2>2 DEF FactorialUpTo
  <2> QED BY <2>3
<1>2. ASSUME NEW n \in Nat, n \in T PROVE n + 1 \in T
  <2>1. PICK f : FactorialUpTo(f, n)
    BY <1>2
  <2>2. f \in [0 .. n -> Nat] /\ f[0] = 1 /\ \A i \in 1 .. n : f[i] = i * f[i - 1]
    BY <2>1 DEF FactorialUpTo
  <2>3. PICK v \in Nat : v = (n + 1) * f[n]
    <3>1. f[n] \in Nat
      BY <2>2
    <3> QED BY <3>1
  <2>4. PICK g : g = [i \in 0 .. n + 1 |-> IF i = n + 1 THEN v ELSE f[i]]
    OBVIOUS
  <2>5. g \in [0 .. n + 1 -> Nat]
    BY <2>2, <2>4
  <2>6. g[n + 1] = v /\ \A i \in 0 .. n : g[i] = f[i]
    BY <2>4
  <2>7. ASSUME NEW i \in 1 .. n + 1 PROVE g[i] = i * g[i - 1]
    <3>1. CASE i = n + 1
      <4>1. i - 1 = n /\ n \in 0 .. n
        BY <3>1
      <4> QED BY <2>3, <2>6, <3>1, <4>1
    <3>2. CASE i # n + 1
      <4>1. i \in 1 .. n /\ i \in 0 .. n /\ i - 1 \in 0 .. n
        BY <3>2
      <4> QED BY <2>2, <2>6, <4>1
    <3> QED BY <3>1, <3>2
  <2>8. g[0] = 1
    <3>1. 0 \in 0 .. n
      OBVIOUS
    <3> QED BY <2>2, <2>6, <3>1
  <2>9. FactorialUpTo(g, n + 1)
    BY <2>5, <2>7, <2>8 DEF FactorialUpTo
  <2> QED BY <2>9
<1>3. Nat \subseteq T
  <2> HIDE DEF T
  <2> QED BY <1>1, <1>2, NatInd
<1> QED BY <1>3

LEMMA FactorialsAgree ==
  ASSUME NEW m \in Nat, NEW k \in Nat, m <= k, NEW f, NEW g,
         FactorialUpTo(f, m), FactorialUpTo(g, k)
  PROVE  f[m] = g[m]
<1> DEFINE T == {n \in Nat : n <= m => f[n] = g[n]}
<1>0. /\ f[0] = 1 /\ g[0] = 1
      /\ \A n \in 1 .. m : f[n] = n * f[n - 1]
      /\ \A n \in 1 .. k : g[n] = n * g[n - 1]
  BY DEF FactorialUpTo
<1>1. 0 \in T
  BY <1>0
<1>2. ASSUME NEW n \in Nat, n \in T PROVE n + 1 \in T
  <2> SUFFICES ASSUME n + 1 <= m PROVE f[n + 1] = g[n + 1]
    OBVIOUS
  <2>1. PICK i : i = n + 1
    OBVIOUS
  <2>2. i \in 1 .. m /\ i \in 1 .. k /\ i - 1 = n /\ n <= m
    BY <2>1
  <2>3. f[n] = g[n]
    BY <1>2, <2>2
  <2> QED BY <1>0, <2>1, <2>2, <2>3
<1>3. Nat \subseteq T
  <2> HIDE DEF T
  <2> QED BY <1>1, <1>2, NatInd
<1> QED BY <1>3

LEMMA FactorialIs ==
  /\ Outcomes!factorial[0] = 1
  /\ \A n \in Nat : /\ Outcomes!factorial[n] \in Nat /\ Outcomes!factorial[n] > 0
                    /\ Outcomes!factorial[n + 1] = (n + 1) * Outcomes!factorial[n]
<1> DEFINE F(m) == CHOOSE f : FactorialUpTo(f, m)
           h == [m \in Nat |-> F(m)[m]]
           W == Outcomes!factorial
<1>1. ASSUME NEW m \in Nat PROVE FactorialUpTo(F(m), m)
  BY FactorialUpToExists
<1>2. ASSUME NEW m \in Nat PROVE h[m] = F(m)[m]
  OBVIOUS
<1>3. ASSUME NEW m \in Nat PROVE h[m] = IF m = 0 THEN 1 ELSE m * h[m - 1]
  <2> HIDE DEF F, h
  <2>1. CASE m = 0
    BY <1>1, <1>2, <2>1 DEF FactorialUpTo
  <2>2. CASE m # 0
    <3>1. m - 1 \in Nat /\ m - 1 <= m /\ m \in 1 .. m
      BY <2>2
    <3>2. FactorialUpTo(F(m), m) /\ FactorialUpTo(F(m - 1), m - 1)
      BY <1>1, <3>1
    <3>3. F(m - 1)[m - 1] = F(m)[m - 1]
      BY <3>1, <3>2, FactorialsAgree
    <3>4. F(m)[m] = m * F(m)[m - 1]
      BY <3>1, <3>2 DEF FactorialUpTo
    <3>5. h[m] = F(m)[m] /\ h[m - 1] = F(m - 1)[m - 1]
      BY <1>2, <3>1
    <3> QED BY <2>2, <3>3, <3>4, <3>5
  <2> QED BY <2>1, <2>2
<1>4. h = [n \in Nat |-> IF n = 0 THEN 1 ELSE n * h[n - 1]]
  <2>1. h = [n \in Nat |-> h[n]]
    OBVIOUS
  <2> HIDE DEF h
  <2> QED BY <1>3, <2>1
<1>5. W = [n \in Nat |-> IF n = 0 THEN 1 ELSE n * W[n - 1]]
  <2>1. W = CHOOSE f : f = [n \in Nat |-> IF n = 0 THEN 1 ELSE n * f[n - 1]]
    BY DEF Outcomes!factorial
  <2> HIDE DEF h, W
  <2> QED BY <1>4, <2>1
<1> HIDE DEF W
<1>6. W[0] = 1
  BY <1>5
<1>7. ASSUME NEW n \in Nat PROVE W[n + 1] = (n + 1) * W[n]
  <2>1. PICK m \in Nat : m = n + 1
    OBVIOUS
  <2>2. m # 0 /\ m - 1 = n
    BY <2>1
  <2>3. W[m] = m * W[m - 1]
    BY <1>5, <2>2
  <2> QED BY <2>1, <2>2, <2>3
<1>8. Nat \subseteq {n \in Nat : W[n] \in Nat /\ W[n] > 0}
  <2> DEFINE T == {n \in Nat : W[n] \in Nat /\ W[n] > 0}
  <2>1. 0 \in T
    BY <1>6
  <2>2. ASSUME NEW n \in Nat, n \in T PROVE n + 1 \in T
    <3>1. PICK v \in Nat : v = W[n] /\ v > 0
      BY <2>2
    <3>2. (n + 1) * v \in Nat /\ (n + 1) * v > 0
      BY <3>1
    <3>3. W[n + 1] = (n + 1) * v
      BY <1>7, <3>1
    <3> QED BY <3>2, <3>3
  <2> HIDE DEF T
  <2> QED BY <2>1, <2>2, NatInd DEF T
<1>9. \A n \in Nat : W[n] \in Nat /\ W[n] > 0
  BY <1>8
<1> QED BY <1>6, <1>7, <1>9 DEF W

LEMMA Pascal ==
  ASSUME NEW a \in Nat, NEW b \in Nat, NEW x \in Nat, NEW y \in Nat, NEW f \in Nat,
         NEW k \in Nat, NEW j \in Nat, a * ((k * x) * y) = f, b * (x * (j * y)) = f
  PROVE  (a + b) * ((k * x) * (j * y)) = (k + j) * f
<1>1. (a + b) * ((k * x) * (j * y)) = j * (a * ((k * x) * y)) + k * (b * (x * (j * y)))
  OBVIOUS
<1>2. j * f + k * f = (k + j) * f
  OBVIOUS
<1> QED BY <1>1, <1>2

LEMMA Quotient ==
  ASSUME NEW a \in Nat, NEW d \in Nat, d > 0
  PROVE  (a * d) \div d = a
OBVIOUS

\* How many subsets have k elements, of n.
Binomial(D, n) ==
    \A k \in 0 .. n : Cardinality(Exactly(D, k)) * (Outcomes!factorial[k] * Outcomes!factorial[n - k])
                        = Outcomes!factorial[n]

LEMMA NoneOfThatSize ==
  ASSUME NEW D, IsFiniteSet(D), NEW k \in Int, k < 0 \/ k > Cardinality(D)
  PROVE  Cardinality(Exactly(D, k)) = 0
<1>1. Exactly(D, k) = {}
  <2> SUFFICES ASSUME NEW S \in SUBSET D, Cardinality(S) = k PROVE FALSE
    BY DEF Exactly
  <2>1. Cardinality(S) \in Nat /\ Cardinality(S) <= Cardinality(D) /\ Cardinality(D) \in Nat
    BY SizeOfPart, FS_CardinalityType
  <2> QED BY <2>1
<1> QED BY <1>1, FS_EmptySet

LEMMA BinomialOfMore ==
  ASSUME NEW D, IsFiniteSet(D), NEW t, t \notin D, NEW n \in Nat, Cardinality(D) = n,
         Binomial(D, n)
  PROVE  Binomial(D \cup {t}, n + 1)
<1> SUFFICES ASSUME NEW k \in 0 .. n + 1
             PROVE  Cardinality(Exactly(D \cup {t}, k))
                      * (Outcomes!factorial[k] * Outcomes!factorial[(n + 1) - k])
                        = Outcomes!factorial[n + 1]
  BY DEF Binomial
<1>1. PICK F : F = Outcomes!factorial
  OBVIOUS
<1>2. /\ F[0] = 1
      /\ \A i \in Nat : F[i] \in Nat /\ F[i] > 0 /\ F[i + 1] = (i + 1) * F[i]
  BY <1>1, FactorialIs
<1>3. PICK a \in Nat, b \in Nat :
        a = Cardinality(Exactly(D, k)) /\ b = Cardinality(Exactly(D, k - 1))
  <2>1. Exactly(D, k) \in SUBSET SUBSET D /\ Exactly(D, k - 1) \in SUBSET SUBSET D
    BY DEF Exactly
  <2> QED BY <2>1, FamilyIsFinite
<1>4. Cardinality(Exactly(D \cup {t}, k)) = a + b
  <2>1. k \in Int
    OBVIOUS
  <2> QED BY <1>3, <2>1, ExactlyOfMore
<1>5. \A i \in 0 .. n : Cardinality(Exactly(D, i)) * (F[i] * F[n - i]) = F[n]
  BY <1>1 DEF Binomial
<1>6. F[n + 1] = (n + 1) * F[n] /\ F[n] \in Nat
  BY <1>2
<1>7. CASE k = 0
  <2>1. b = 0
    <3>1. k - 1 \in Int /\ k - 1 < 0
      BY <1>7
    <3> QED BY <1>3, <3>1, NoneOfThatSize
  <2>2. a * (F[0] * F[n]) = F[n]
    <3>1. 0 \in 0 .. n /\ n - 0 = n
      OBVIOUS
    <3> QED BY <1>3, <1>5, <1>7, <3>1
  <2>3. PICK f \in Nat : f = F[n]
    BY <1>6
  <2>4. a * f = f
    BY <1>2, <2>2, <2>3
  <2>5. a * ((n + 1) * f) = (n + 1) * (a * f)
    OBVIOUS
  <2>6. (n + 1) - k = n + 1 /\ F[k] = 1
    BY <1>2, <1>7
  <2>7. (a + b) * (F[k] * F[(n + 1) - k]) = (n + 1) * f
    BY <1>6, <2>1, <2>3, <2>4, <2>5, <2>6
  <2> QED BY <1>1, <1>4, <1>6, <2>3, <2>7
<1>8. CASE k = n + 1
  <2>1. a = 0
    <3>1. k \in Int /\ k > Cardinality(D)
      BY <1>8
    <3> QED BY <1>3, <3>1, NoneOfThatSize
  <2>2. b * (F[n] * F[0]) = F[n]
    <3>1. n \in 0 .. n /\ n - n = 0 /\ k - 1 = n
      BY <1>8
    <3>2. Cardinality(Exactly(D, n)) = b
      BY <1>3, <3>1
    <3> QED BY <1>5, <3>1, <3>2
  <2>3. PICK f \in Nat : f = F[n]
    BY <1>6
  <2>4. b * f = f
    BY <1>2, <2>2, <2>3
  <2>5. b * ((n + 1) * f) = (n + 1) * (b * f)
    OBVIOUS
  <2>6. (n + 1) - k = 0 /\ F[k] = (n + 1) * f /\ F[0] = 1
    BY <1>2, <1>6, <1>8, <2>3
  <2>7. F[(n + 1) - k] = 1
    BY <2>6
  <2>8. (a + b) * (F[k] * F[(n + 1) - k]) = (n + 1) * f
    BY <2>1, <2>4, <2>5, <2>6, <2>7
  <2> QED BY <1>1, <1>4, <1>6, <2>3, <2>8
<1>9. CASE k # 0 /\ k # n + 1
  <2>1. PICK j \in Nat : j = (n + 1) - k
    OBVIOUS
  <2>2. PICK i \in Nat : i = k - 1
    BY <1>9
  <2>3. PICK m \in Nat : m = n - k
    BY <1>9
  <2>4. k \in Nat /\ k = i + 1 /\ j = m + 1 /\ k + j = n + 1 /\ n - i = j
    BY <2>1, <2>2, <2>3
  <2>5. PICK x \in Nat, y \in Nat, f \in Nat : x = F[i] /\ y = F[m] /\ f = F[n]
    BY <1>2
  <2>6. F[k] = k * x /\ F[j] = j * y
    BY <1>2, <2>4, <2>5
  <2>7. a * (F[k] * F[n - k]) = F[n]
    <3>1. k \in 0 .. n
      BY <1>9
    <3> QED BY <1>3, <1>5, <3>1
  <2>8. b * (F[i] * F[n - i]) = F[n]
    <3>1. i \in 0 .. n
      BY <1>9, <2>2
    <3>2. b = Cardinality(Exactly(D, i))
      BY <1>3, <2>2
    <3> QED BY <1>5, <3>1, <3>2
  <2>9. a * ((k * x) * y) = f
    BY <2>3, <2>5, <2>6, <2>7
  <2>10. b * (x * (j * y)) = f
    BY <2>4, <2>5, <2>6, <2>8
  <2>11. (a + b) * ((k * x) * (j * y)) = (k + j) * f
    BY <2>4, <2>9, <2>10, Pascal
  <2>12. (a + b) * (F[k] * F[(n + 1) - k]) = (n + 1) * F[n]
    BY <2>1, <2>4, <2>5, <2>6, <2>11
  <2> QED BY <1>1, <1>4, <1>6, <2>12
<1> QED BY <1>7, <1>8, <1>9

LEMMA BinomialOfAny ==
  ASSUME NEW U, IsFiniteSet(U)
  PROVE  Binomial(U, Cardinality(U))
<1> DEFINE T == {n \in Nat : \A D \in SUBSET U : Cardinality(D) = n => Binomial(D, n)}
<1>1. 0 \in T
  <2> SUFFICES ASSUME NEW D \in SUBSET U, Cardinality(D) = 0 PROVE Binomial(D, 0)
    OBVIOUS
  <2>1. D = {}
    BY SizeOfPart, FS_EmptySet
  <2>2. Exactly(D, 0) = {{}}
    BY <2>1, FS_EmptySet DEF Exactly
  <2>3. Cardinality(Exactly(D, 0)) = 1
    BY <2>2, FS_Singleton
  <2>4. 0 .. 0 = {0} /\ 0 - 0 = 0 /\ 1 * (1 * 1) = 1
    OBVIOUS
  <2>5. Outcomes!factorial[0] = 1
    BY FactorialIs
  <2> QED BY <2>3, <2>4, <2>5 DEF Binomial
<1>2. ASSUME NEW n \in Nat, n \in T PROVE n + 1 \in T
  <2> SUFFICES ASSUME NEW D \in SUBSET U, Cardinality(D) = n + 1 PROVE Binomial(D, n + 1)
    OBVIOUS
  <2>1. IsFiniteSet(D) /\ Cardinality(D) # 0
    BY SizeOfPart
  <2>2. PICK t : t \in D
    BY <2>1, FS_EmptySet
  <2>3. PICK E : E = D \ {t}
    OBVIOUS
  <2>4. E \in SUBSET U /\ t \notin E /\ D = E \cup {t}
    BY <2>2, <2>3
  <2>5. IsFiniteSet(E) /\ Cardinality(E) = Cardinality(D) - 1
    BY <2>1, <2>2, <2>3, FS_RemoveElement
  <2>6. Cardinality(E) = n
    BY <2>5
  <2>7. Binomial(E, n)
    BY <1>2, <2>4, <2>6
  <2>8. Binomial(E \cup {t}, n + 1)
    BY <2>4, <2>5, <2>6, <2>7, BinomialOfMore
  <2> QED BY <2>4, <2>8
<1>3. Nat \subseteq T
  <2> HIDE DEF T
  <2> QED BY <1>1, <1>2, NatInd
<1>4. Cardinality(U) \in Nat
  BY FS_CardinalityType
<1> QED BY <1>3, <1>4

\* math.comb counts subsets.
LEMMA ChooseIs ==
  ASSUME NEW D, IsFiniteSet(D), NEW n \in Nat, Cardinality(D) = n, NEW k \in 0 .. n
  PROVE  Outcomes!choose(n, k) = Cardinality(Exactly(D, k))
<1>1. PICK a \in Nat : a = Cardinality(Exactly(D, k))
  <2>1. Exactly(D, k) \in SUBSET SUBSET D
    BY DEF Exactly
  <2> QED BY <2>1, FamilyIsFinite
<1>2. PICK x \in Nat, y \in Nat :
        x = Outcomes!factorial[k] /\ y = Outcomes!factorial[n - k] /\ x > 0 /\ y > 0
  <2>1. k \in Nat /\ n - k \in Nat
    OBVIOUS
  <2> QED BY <2>1, FactorialIs
<1>3. PICK d \in Nat : d = x * y /\ d > 0
  <2>1. x * y \in Nat /\ x * y > 0
    BY <1>2
  <2> QED BY <2>1
<1>4. a * d = Outcomes!factorial[n]
  BY <1>1, <1>2, <1>3, BinomialOfAny DEF Binomial
<1>5. Outcomes!choose(n, k) = (a * d) \div d
  BY <1>2, <1>3, <1>4 DEF Outcomes!choose
<1> QED BY <1>1, <1>3, <1>5, Quotient

SizedIn(D, s) == {S \in SUBSET D : Cardinality(S) \in s}
ChooseTurn(n, f, S) ==
    IF S = {} THEN 0
    ELSE LET x == CHOOSE y \in S : TRUE IN Outcomes!choose(n, x) + f[S \ {x}]

LEMMA OneSizeMore ==
  ASSUME NEW D, IsFiniteSet(D), NEW n \in Nat, Cardinality(D) = n,
         NEW s \in SUBSET (0 .. n), NEW x \in s
  PROVE  Cardinality(SizedIn(D, s)) = Outcomes!choose(n, x) + Cardinality(SizedIn(D, s \ {x}))
<1>1. PICK X : X = Exactly(D, x)
  OBVIOUS
<1>2. PICK Y : Y = SizedIn(D, s \ {x})
  OBVIOUS
<1>3. X \in SUBSET SUBSET D /\ Y \in SUBSET SUBSET D
  BY <1>1, <1>2 DEF Exactly, SizedIn
<1>4. X \cup Y = SizedIn(D, s) /\ X \cap Y = {}
  BY <1>1, <1>2 DEF Exactly, SizedIn
<1>5. IsFiniteSet(X) /\ IsFiniteSet(Y)
  BY <1>3, FamilyIsFinite
<1>6. Cardinality(X \cup Y) = Cardinality(X) + Cardinality(Y)
  BY <1>4, <1>5, SizeOfBoth
<1>7. x \in 0 .. n
  OBVIOUS
<1>8. Outcomes!choose(n, x) = Cardinality(X)
  BY <1>1, <1>7, ChooseIs
<1> QED BY <1>2, <1>4, <1>6, <1>8

LEMMA ChoicesAddUp ==
  ASSUME NEW D, IsFiniteSet(D), NEW n \in Nat, Cardinality(D) = n, NEW S \in SUBSET (0 .. n)
  PROVE  Outcomes!MapThenSumSet(LAMBDA k : Outcomes!choose(n, k), S) = Cardinality(SizedIn(D, S))
<1> DEFINE W == CHOOSE f : f = [s \in SUBSET S |-> ChooseTurn(n, f, s)]
           g == [s \in SUBSET S |-> Cardinality(SizedIn(D, s))]
<1>1. Outcomes!MapThenSumSet(LAMBDA k : Outcomes!choose(n, k), S) = W[S]
  BY DEF Outcomes!MapThenSumSet, Outcomes!MapThenFoldSet, ChooseTurn
<1>2. IsFiniteSet(S)
  <2>1. IsFiniteSet(0 .. n)
    BY FS_Interval
  <2> QED BY <2>1, FS_Subset
<1>3. ASSUME NEW s \in SUBSET S, NEW x \in s
      PROVE  g[s] = Outcomes!choose(n, x) + g[s \ {x}]
  <2>1. s \in SUBSET (0 .. n)
    OBVIOUS
  <2>2. Cardinality(SizedIn(D, s)) = Outcomes!choose(n, x) + Cardinality(SizedIn(D, s \ {x}))
    BY <2>1, OneSizeMore
  <2>3. s \ {x} \in SUBSET S
    OBVIOUS
  <2> QED BY <2>2, <2>3
<1>4. g[{}] = 0
  <2>1. SizedIn(D, {}) = {}
    BY DEF SizedIn
  <2> QED BY <2>1, FS_EmptySet
<1>5. ASSUME NEW s \in SUBSET S PROVE g[s] = ChooseTurn(n, g, s)
  <2> HIDE DEF g
  <2>1. CASE s = {}
    BY <1>4, <2>1 DEF ChooseTurn
  <2>2. CASE s # {}
    <3>1. PICK x \in s : x = CHOOSE y \in s : TRUE
      BY <2>2
    <3>2. ChooseTurn(n, g, s) = Outcomes!choose(n, x) + g[s \ {x}]
      BY <2>2, <3>1 DEF ChooseTurn
    <3> QED BY <1>3, <3>2
  <2> QED BY <2>1, <2>2
<1>6. g = [s \in SUBSET S |-> ChooseTurn(n, g, s)]
  <2>1. g = [s \in SUBSET S |-> g[s]]
    OBVIOUS
  <2> HIDE DEF g
  <2> QED BY <1>5, <2>1
<1>7. W = [s \in SUBSET S |-> ChooseTurn(n, W, s)]
  <2> HIDE DEF g
  <2> QED BY <1>6
<1>8. W[S] = g[S]
  <2> DEFINE E(k) == {s \in SUBSET S : Cardinality(s) <= k}
             T == {k \in Nat : \A s \in E(k) : W[s] = g[s]}
  <2>0. ASSUME NEW s \in SUBSET S PROVE IsFiniteSet(s) /\ Cardinality(s) \in Nat
    BY <1>2, FS_Subset, FS_CardinalityType
  <2>e. ASSUME NEW s \in SUBSET S PROVE W[s] = ChooseTurn(n, W, s)
    <3> HIDE DEF W
    <3> QED BY <1>7
  <2> HIDE DEF W, g
  <2>1. 0 \in T
    <3>1. ASSUME NEW s \in E(0) PROVE W[s] = g[s]
      <4>1. Cardinality(s) = 0 /\ IsFiniteSet(s)
        BY <2>0
      <4>2. s = {}
        BY <4>1, FS_EmptySet
      <4>3. W[s] = ChooseTurn(n, W, s)
        BY <2>e
      <4> QED BY <1>4, <4>2, <4>3 DEF ChooseTurn
    <3> QED BY <3>1
  <2>2. ASSUME NEW k \in Nat, k \in T PROVE k + 1 \in T
    <3>1. ASSUME NEW s \in E(k + 1) PROVE W[s] = g[s]
      <4>0. W[s] = ChooseTurn(n, W, s)
        BY <2>e
      <4>1. CASE s = {}
        BY <1>4, <4>0, <4>1 DEF ChooseTurn
      <4>2. CASE s # {}
        <5>1. PICK x \in s : x = CHOOSE y \in s : TRUE
          BY <4>2
        <5>2. Cardinality(s \ {x}) = Cardinality(s) - 1
          BY <2>0, FS_RemoveElement
        <5>3. s \ {x} \in E(k)
          BY <2>0, <5>2
        <5>4. W[s \ {x}] = g[s \ {x}]
          BY <2>2, <5>3
        <5>5. W[s] = Outcomes!choose(n, x) + W[s \ {x}]
          BY <4>0, <4>2, <5>1 DEF ChooseTurn
        <5> QED BY <1>3, <5>4, <5>5
      <4> QED BY <4>1, <4>2
    <3> QED BY <3>1
  <2>3. Nat \subseteq T
    <3> HIDE DEF T
    <3> QED BY <2>1, <2>2, NatInd
  <2>4. Cardinality(S) \in Nat /\ S \in SUBSET S
    BY <1>2, FS_CardinalityType
  <2> QED BY <2>3, <2>4
<1> QED BY <1>1, <1>8

\* The tail of the sign test counts the outcomes that are as good.
LEMMA TailIs ==
  ASSUME NEW D, IsFiniteSet(D), NEW i \in Nat, NEW r \in Nat, Cardinality(D) = i + r
  PROVE  Outcomes!TailCount(i, r) = Cardinality(AtLeast(D, i))
<1>1. PICK n \in Nat : n = i + r
  OBVIOUS
<1>2. i .. n \in SUBSET (0 .. n)
  BY <1>1
<1>3. Outcomes!MapThenSumSet(LAMBDA k : Outcomes!choose(n, k), i .. n)
        = Cardinality(SizedIn(D, i .. n))
  BY <1>1, <1>2, ChoicesAddUp
<1>4. SizedIn(D, i .. n) = AtLeast(D, i)
  <2>1. \A S \in SUBSET D : Cardinality(S) \in Nat /\ Cardinality(S) <= n
    BY <1>1, SizeOfPart
  <2> QED BY <2>1 DEF SizedIn, AtLeast
<1>5. Outcomes!TailCount(i, r)
        = Outcomes!MapThenSumSet(LAMBDA k : Outcomes!choose(n, k), i .. n)
  BY <1>1 DEF Outcomes!TailCount
<1> QED BY <1>3, <1>4, <1>5

----------------------------------------------------------------------------
(* The sign test of FTR-104 *)

\* The size of a set is that of the outcomes.
LEMMA SizeOfOutcomes ==
  ASSUME NEW X
  PROVE  Outcomes!Cardinality(X) = Cardinality(X)
BY DEF Outcomes!Cardinality, Cardinality

LEMMA CancelRight ==
  ASSUME NEW x \in Nat, NEW y \in Nat, NEW a \in Nat, a > 0, x * a <= y * a
  PROVE  x <= y
<1> SUFFICES ASSUME y < x PROVE FALSE
  OBVIOUS
<1>1. PICK d \in Nat : x = y + d /\ d > 0
  <2>1. x - y \in Nat /\ x = y + (x - y) /\ x - y > 0
    OBVIOUS
  <2> QED BY <2>1
<1>2. x * a = y * a + d * a /\ d * a > 0 /\ y * a \in Nat /\ d * a \in Nat
  BY <1>1
<1> QED BY <1>2

LEMMA LeastNumber ==
  ASSUME NEW S \in SUBSET Nat, S # {}
  PROVE  Outcomes!Min(S) \in S /\ \A n \in S : Outcomes!Min(S) <= n
<1>1. \E m \in S : \A n \in S : m <= n
  BY Least
<1> QED BY <1>1 DEF Outcomes!Min

Surviving(n) == {g \in 1 .. 16 : AlphaDen * n <= AlphaNum * 2 ^ g}

LEMMA MinimumNetIs ==
  ASSUME NEW n \in Comparisons
  PROVE  /\ Outcomes!MinimumNet(n) \in Surviving(n)
         /\ \A g \in Surviving(n) : Outcomes!MinimumNet(n) <= g
<1>1. 16 \in Surviving(n)
  BY OutcomesAssumption DEF Surviving
<1>2. Surviving(n) \in SUBSET Nat
  BY DEF Surviving
<1>3. Outcomes!MinimumNet(n) = Outcomes!Min(Surviving(n))
  BY DEF Outcomes!MinimumNet, Surviving
<1> QED BY <1>1, <1>2, <1>3, LeastNumber

\* A net gain that survives by itself reaches the minimum.
LEMMA NetReachesMinimum ==
  ASSUME NEW n \in Comparisons, NEW net \in Nat \ {0}, AlphaDen * n <= AlphaNum * 2 ^ net
  PROVE  net >= Outcomes!MinimumNet(n)
<1>1. PICK m \in 1 .. 16 : m = Outcomes!MinimumNet(n) /\ \A g \in Surviving(n) : m <= g
  BY MinimumNetIs DEF Surviving
<1>2. CASE net <= 16
  <2>1. net \in Surviving(n)
    BY <1>2 DEF Surviving
  <2> QED BY <1>1, <2>1
<1>3. CASE net > 16
  BY <1>1, <1>3
<1> QED BY <1>2, <1>3

\* That so many of the subsets have i elements is rare enough for n comparisons.
RareEnough(D, i, n) ==
    AlphaDen * n * Cardinality(AtLeast(D, i)) <= AlphaNum * Cardinality(SUBSET D)

LEMMA AtLeastIsSome ==
  ASSUME NEW D, IsFiniteSet(D), NEW i \in Nat, i <= Cardinality(D)
  PROVE  Cardinality(AtLeast(D, i)) \in Nat /\ Cardinality(AtLeast(D, i)) > 0
<1>1. AtLeast(D, i) \in SUBSET SUBSET D /\ D \in AtLeast(D, i)
  <2>1. Cardinality(D) >= i
    BY FS_CardinalityType
  <2>2. D \in SUBSET D
    OBVIOUS
  <2> QED BY <2>1, <2>2 DEF AtLeast
<1>2. IsFiniteSet(AtLeast(D, i)) /\ Cardinality(AtLeast(D, i)) \in Nat
  BY <1>1, FamilyIsFinite
<1>3. Cardinality(AtLeast(D, i)) # 0
  BY <1>1, <1>2, FS_EmptySet
<1> QED BY <1>2, <1>3

LEMMA EvidenceNeedsNet ==
  ASSUME NEW D, IsFiniteSet(D), NEW i \in Nat, NEW r \in Nat, Cardinality(D) = i + r,
         NEW n \in Comparisons, RareEnough(D, i, n)
  PROVE  i > r /\ AlphaDen * n <= AlphaNum * 2 ^ (i - r)
<1>1. PICK a \in Nat : a = Cardinality(AtLeast(D, i)) /\ a > 0
  <2>1. i <= Cardinality(D)
    OBVIOUS
  <2> QED BY <2>1, AtLeastIsSome
<1>2. PICK s \in Nat : s = Cardinality(SUBSET D)
  BY FamilyIsFinite
<1>3. PICK u \in Nat, e \in Nat : u = AlphaNum /\ e = AlphaDen * n /\ e > 2 * u
  <2>1. PICK v \in Nat, w \in Nat, x \in Nat : v = AlphaNum /\ w = AlphaDen /\ x = n
                                               /\ x > 0 /\ 2 * v < w
    <3>1. AlphaNum \in Nat /\ AlphaDen \in Nat /\ n \in Nat \ {0} /\ 2 * AlphaNum < AlphaDen
      BY OutcomesAssumption
    <3> QED BY <3>1
  <2>2. w * x >= w /\ w * x \in Nat
    BY <2>1
  <2> QED BY <2>1, <2>2
<1>4. e * a <= u * s
  BY <1>1, <1>2, <1>3 DEF RareEnough
<1>5. ASSUME NEW p \in Nat, s <= p * a PROVE e <= u * p
  <2>1. u * s <= u * (p * a)
    <3>1. PICK q \in Nat : q = p * a
      OBVIOUS
    <3>2. s <= q
      BY <1>5, <3>1
    <3>3. u * s <= u * q
      BY <3>2
    <3> QED BY <3>1, <3>3
  <2>2. u * (p * a) = (u * p) * a
    OBVIOUS
  <2>3. e * a \in Nat /\ u * s \in Nat /\ u * (p * a) \in Nat /\ u * p \in Nat
    OBVIOUS
  <2>4. e * a <= (u * p) * a
    BY <1>4, <2>1, <2>2, <2>3
  <2> QED BY <1>1, <2>3, <2>4, CancelRight
<1>6. i > r
  <2> SUFFICES ASSUME ~(i > r) PROVE FALSE
    OBVIOUS
  <2>1. i <= r + 1
    OBVIOUS
  <2>2. s <= 2 * a
    BY <1>1, <1>2, <2>1, HalfOfSubsets
  <2>3. e <= u * 2
    BY <1>5, <2>2
  <2> QED BY <1>3, <2>3
<1>7. PICK p \in Nat : p = 2 ^ (i - r)
  <2>1. i - r \in Nat
    BY <1>6
  <2> QED BY <2>1, PowersOfTwo
<1>8. s <= p * a
  BY <1>1, <1>2, <1>6, <1>7, ShareOfNet DEF Share
<1>9. e <= u * p
  BY <1>5, <1>8
<1> QED BY <1>3, <1>6, <1>7, <1>9

Discordant(p) == Outcomes!Improvements(p) \cup Outcomes!Regressions(p)
Gained(p) == Cardinality(Outcomes!Improvements(p))
IsPair(p) == p.base \in SUBSET Assessed /\ p.candidate \in SUBSET Assessed

LEMMA DiscordantTasks ==
  ASSUME NEW p, IsPair(p)
  PROVE  /\ IsFiniteSet(Outcomes!Improvements(p)) /\ IsFiniteSet(Outcomes!Regressions(p))
         /\ IsFiniteSet(Discordant(p))
         /\ Gained(p) \in Nat /\ Cardinality(Outcomes!Regressions(p)) \in Nat
         /\ Cardinality(Discordant(p)) = Gained(p) + Cardinality(Outcomes!Regressions(p))
<1>1. /\ Outcomes!Improvements(p) \in SUBSET Assessed
      /\ Outcomes!Regressions(p) \in SUBSET Assessed
      /\ Outcomes!Improvements(p) \cap Outcomes!Regressions(p) = {}
  BY DEF IsPair, Outcomes!Improvements, Outcomes!Regressions
<1>2. /\ IsFiniteSet(Outcomes!Improvements(p)) /\ IsFiniteSet(Outcomes!Regressions(p))
      /\ Gained(p) \in Nat /\ Cardinality(Outcomes!Regressions(p)) \in Nat
  BY <1>1, SizeOfPart, OutcomesAssumption DEF Gained
<1> QED BY <1>1, <1>2, SizeOfBoth DEF Discordant, Gained

\* What the report of an assessment says.
LEMMA EffectParts ==
  ASSUME NEW p, IsPair(p), NEW n, NEW i \in Nat, NEW r \in Nat, i = Gained(p),
         r = Cardinality(Outcomes!Regressions(p))
  PROVE  /\ Outcomes!Effect(p, n).pair = p /\ Outcomes!Effect(p, n).comparisons = n
         /\ Outcomes!Effect(p, n).strong <=>
              /\ i - r >= Outcomes!MinimumNet(n)
              /\ AlphaDen * n * Outcomes!TailCount(i, r) <= AlphaNum * 2 ^ (i + r)
         /\ Outcomes!Effect(p, n).floor =
              Outcomes!MinimumPasses(Cardinality(p.base), Cardinality(Assessed), n)
BY SizeOfOutcomes DEF Gained, Outcomes!Effect, Outcomes!Significant

\* The minimum of net tasks never decides against the sign test.
LEMMA StrongIs ==
  ASSUME NEW p, IsPair(p), NEW n \in Comparisons
  PROVE  Outcomes!Effect(p, n).strong <=>
           Discordant(p) # {} /\ RareEnough(Discordant(p), Gained(p), n)
<1>1. PICK i \in Nat, r \in Nat : i = Gained(p) /\ r = Cardinality(Outcomes!Regressions(p))
  BY DiscordantTasks
<1>2. PICK D : D = Discordant(p)
  OBVIOUS
<1>3. IsFiniteSet(D) /\ Cardinality(D) = i + r
  BY <1>1, <1>2, DiscordantTasks
<1>4. Outcomes!TailCount(i, r) = Cardinality(AtLeast(D, i))
  BY <1>3, TailIs
<1>5. Cardinality(SUBSET D) = 2 ^ (i + r)
  BY <1>3, FS_SUBSET
<1>6. Outcomes!Effect(p, n).strong <=> i - r >= Outcomes!MinimumNet(n) /\ RareEnough(D, i, n)
  BY <1>1, <1>4, <1>5, EffectParts DEF RareEnough
<1>7. ASSUME i - r >= Outcomes!MinimumNet(n) PROVE D # {}
  <2>1. Outcomes!MinimumNet(n) \in 1 .. 16
    BY MinimumNetIs DEF Surviving
  <2>2. Cardinality(D) # 0
    BY <1>3, <1>7, <2>1
  <2> QED BY <2>2, FS_EmptySet
<1>8. ASSUME RareEnough(D, i, n) PROVE i - r >= Outcomes!MinimumNet(n)
  <2>1. i > r /\ AlphaDen * n <= AlphaNum * 2 ^ (i - r)
    BY <1>3, <1>8, EvidenceNeedsNet
  <2>2. i - r \in Nat \ {0}
    BY <2>1
  <2> QED BY <2>1, <2>2, NetReachesMinimum
<1> QED BY <1>1, <1>2, <1>6, <1>7, <1>8

\* The floor of passes excludes nobody.
LEMMA FloorHolds ==
  ASSUME NEW p, IsPair(p), NEW n \in Comparisons, Outcomes!Effect(p, n).strong
  PROVE  Cardinality(p.candidate) >= Outcomes!Effect(p, n).floor
<1>1. PICK i \in Nat, r \in Nat : i = Gained(p) /\ r = Cardinality(Outcomes!Regressions(p))
  BY DiscordantTasks
<1>2. PICK m \in 1 .. 16 : m = Outcomes!MinimumNet(n)
  BY MinimumNetIs DEF Surviving
<1>3. i - r >= m
  BY <1>1, <1>2, EffectParts
<1>4. IsFiniteSet(p.base) /\ IsFiniteSet(p.candidate)
  BY OutcomesAssumption, SizeOfPart DEF IsPair
<1>5. PICK b \in Nat, c \in Nat, z \in Nat :
        b = Cardinality(p.base) /\ c = Cardinality(p.candidate) /\ z = Cardinality(Assessed)
  BY <1>4, OutcomesAssumption, FS_CardinalityType
<1>6. c - b = i - r
  BY <1>1, <1>4, <1>5, NetOfTwoSides
       DEF Gained, Outcomes!Improvements, Outcomes!Regressions
<1>7. Outcomes!Effect(p, n).floor = Outcomes!Min({z + 1, b + m})
  BY <1>1, <1>2, <1>5, EffectParts DEF Outcomes!MinimumPasses
<1>8. {z + 1, b + m} \in SUBSET Nat /\ {z + 1, b + m} # {}
  OBVIOUS
<1>9. PICK f \in Nat : f = Outcomes!Min({z + 1, b + m}) /\ f <= b + m
  BY <1>8, LeastNumber
<1>10. f <= c
  BY <1>3, <1>6, <1>9
<1> QED BY <1>5, <1>7, <1>9, <1>10

\* One element less, that did not count.
LEMMA EvidenceOfFewer ==
  ASSUME NEW D, IsFiniteSet(D), NEW t, t \notin D, NEW i \in Nat, NEW n \in Comparisons,
         RareEnough(D \cup {t}, i, n)
  PROVE  RareEnough(D, i, n)
<1>1. PICK a \in Nat, b \in Nat, c \in Nat, s \in Nat :
        /\ a = Cardinality(AtLeast(D \cup {t}, i)) /\ b = Cardinality(AtLeast(D, i))
        /\ c = Cardinality(AtLeast(D, i - 1)) /\ s = Cardinality(SUBSET D)
  <2>1. IsFiniteSet(D \cup {t})
    BY FS_AddElement
  <2>2. /\ AtLeast(D \cup {t}, i) \in SUBSET SUBSET (D \cup {t})
        /\ AtLeast(D, i) \in SUBSET SUBSET D /\ AtLeast(D, i - 1) \in SUBSET SUBSET D
    BY DEF AtLeast
  <2>3. Cardinality(SUBSET D) \in Nat
    BY FamilyIsFinite
  <2> QED BY <2>1, <2>2, <2>3, FamilyIsFinite
<1>2. a = b + c /\ b <= c
  <2>1. i \in Int
    OBVIOUS
  <2> QED BY <1>1, <2>1, AtLeastOfMore
<1>3. Cardinality(SUBSET (D \cup {t})) = 2 * s
  BY <1>1, PowerDoubles
<1>4. PICK e \in Nat, u \in Nat : e = AlphaDen * n /\ u = AlphaNum
  BY OutcomesAssumption
<1>5. e * a <= u * (2 * s)
  BY <1>1, <1>3, <1>4 DEF RareEnough
<1>6. e * (2 * b) <= e * a
  <2>1. PICK d \in Nat : a = 2 * b + d
    <3>1. a - 2 * b \in Nat /\ a = 2 * b + (a - 2 * b)
      BY <1>2
    <3> QED BY <3>1
  <2>2. e * a = e * (2 * b) + e * d /\ e * d \in Nat /\ e * (2 * b) \in Nat
    BY <2>1
  <2> QED BY <2>2
<1>7. e * (2 * b) = 2 * (e * b) /\ u * (2 * s) = 2 * (u * s)
  OBVIOUS
<1>8. e * b \in Nat /\ u * s \in Nat /\ e * a \in Nat
  OBVIOUS
<1>9. e * b <= u * s
  BY <1>5, <1>6, <1>7, <1>8
<1> QED BY <1>1, <1>4, <1>9 DEF RareEnough

\* One element more, that counts.
LEMMA EvidenceOfMore ==
  ASSUME NEW D, IsFiniteSet(D), NEW t, t \notin D, NEW i \in Nat, NEW n \in Comparisons,
         RareEnough(D, i, n)
  PROVE  RareEnough(D \cup {t}, i + 1, n)
<1>1. PICK a \in Nat, b \in Nat, c \in Nat, s \in Nat :
        /\ a = Cardinality(AtLeast(D \cup {t}, i + 1)) /\ b = Cardinality(AtLeast(D, i + 1))
        /\ c = Cardinality(AtLeast(D, i)) /\ s = Cardinality(SUBSET D)
  <2>1. IsFiniteSet(D \cup {t})
    BY FS_AddElement
  <2>2. /\ AtLeast(D \cup {t}, i + 1) \in SUBSET SUBSET (D \cup {t})
        /\ AtLeast(D, i + 1) \in SUBSET SUBSET D /\ AtLeast(D, i) \in SUBSET SUBSET D
    BY DEF AtLeast
  <2>3. Cardinality(SUBSET D) \in Nat
    BY FamilyIsFinite
  <2> QED BY <2>1, <2>2, <2>3, FamilyIsFinite
<1>2. a = b + c /\ b <= c
  <2>1. PICK j \in Int : j = i + 1 /\ j - 1 = i
    OBVIOUS
  <2>2. /\ Cardinality(AtLeast(D \cup {t}, j))
             = Cardinality(AtLeast(D, j)) + Cardinality(AtLeast(D, j - 1))
        /\ Cardinality(AtLeast(D, j)) <= Cardinality(AtLeast(D, j - 1))
    BY AtLeastOfMore
  <2> QED BY <1>1, <2>1, <2>2
<1>3. Cardinality(SUBSET (D \cup {t})) = 2 * s
  BY <1>1, PowerDoubles
<1>4. PICK e \in Nat, u \in Nat : e = AlphaDen * n /\ u = AlphaNum
  BY OutcomesAssumption
<1>5. e * c <= u * s
  BY <1>1, <1>4 DEF RareEnough
<1>6. e * a <= e * (2 * c)
  <2>1. PICK d \in Nat : 2 * c = a + d
    <3>1. 2 * c - a \in Nat /\ 2 * c = a + (2 * c - a)
      BY <1>2
    <3> QED BY <3>1
  <2>2. e * (2 * c) = e * a + e * d /\ e * d \in Nat /\ e * a \in Nat
    BY <2>1
  <2> QED BY <2>2
<1>7. e * (2 * c) = 2 * (e * c) /\ u * (2 * s) = 2 * (u * s)
  OBVIOUS
<1>8. e * c \in Nat /\ u * s \in Nat /\ e * a \in Nat
  OBVIOUS
<1>9. e * a <= u * (2 * s)
  BY <1>5, <1>6, <1>7, <1>8
<1> QED BY <1>1, <1>3, <1>4, <1>9 DEF RareEnough

\* One more task solved never weakens the evidence.
LEMMA OneMoreSolved ==
  ASSUME NEW p, p \in [base : SUBSET Assessed, candidate : SUBSET Assessed],
         NEW n \in Comparisons, Outcomes!Effect(p, n).strong, NEW t \in Assessed
  PROVE  Outcomes!Effect([p EXCEPT !.candidate = @ \cup {t}], n).strong
<1>1. PICK q : q = [p EXCEPT !.candidate = @ \cup {t}]
  OBVIOUS
<1>2. IsPair(p) /\ IsPair(q) /\ q.base = p.base /\ q.candidate = p.candidate \cup {t}
  BY <1>1 DEF IsPair
<1>3. PICK D : D = Discordant(p)
  OBVIOUS
<1>4. PICK i \in Nat, r \in Nat : i = Gained(p) /\ r = Cardinality(Outcomes!Regressions(p))
  BY <1>2, DiscordantTasks
<1>5. IsFiniteSet(D) /\ Cardinality(D) = i + r
  BY <1>2, <1>3, <1>4, DiscordantTasks
<1>6. D # {} /\ RareEnough(D, i, n)
  BY <1>2, <1>3, <1>4, StrongIs
<1>7. i > r
  BY <1>5, <1>6, EvidenceNeedsNet
<1>8. IsFiniteSet(Outcomes!Improvements(p))
  BY <1>2, DiscordantTasks
<1>9. CASE t \in p.candidate
  <2>1. /\ Outcomes!Improvements(q) = Outcomes!Improvements(p)
        /\ Outcomes!Regressions(q) = Outcomes!Regressions(p)
    BY <1>2, <1>9 DEF Outcomes!Improvements, Outcomes!Regressions
  <2>2. Discordant(q) = D /\ Gained(q) = i
    BY <1>3, <1>4, <2>1 DEF Discordant, Gained
  <2> QED BY <1>1, <1>2, <1>6, <2>2, StrongIs
<1>10. CASE t \notin p.candidate /\ t \in p.base
  <2>1. Outcomes!Improvements(q) = Outcomes!Improvements(p)
    BY <1>2, <1>10 DEF Outcomes!Improvements
  <2>2. PICK E : E = Discordant(q)
    OBVIOUS
  <2>3. t \notin E /\ D = E \cup {t} /\ Outcomes!Improvements(p) \subseteq E
    BY <1>2, <1>3, <1>10, <2>2
         DEF Discordant, Outcomes!Improvements, Outcomes!Regressions
  <2>4. IsFiniteSet(E)
    BY <1>2, <2>2, DiscordantTasks
  <2>5. Gained(q) = i
    BY <1>4, <2>1 DEF Gained
  <2>6. RareEnough(E, i, n)
    BY <1>6, <2>3, <2>4, EvidenceOfFewer
  <2>7. Outcomes!Improvements(p) # {}
    <3>1. Cardinality(Outcomes!Improvements(p)) # 0
      BY <1>4, <1>7 DEF Gained
    <3> QED BY <3>1, FS_EmptySet
  <2> QED BY <1>1, <1>2, <2>2, <2>3, <2>5, <2>6, <2>7, StrongIs
<1>11. CASE t \notin p.candidate /\ t \notin p.base
  <2>1. /\ Outcomes!Improvements(q) = Outcomes!Improvements(p) \cup {t}
        /\ t \notin Outcomes!Improvements(p)
    BY <1>2, <1>11 DEF Outcomes!Improvements
  <2>2. t \notin D /\ Discordant(q) = D \cup {t}
    BY <1>2, <1>3, <1>11 DEF Discordant, Outcomes!Improvements, Outcomes!Regressions
  <2>3. Gained(q) = i + 1
    BY <1>4, <1>8, <2>1, FS_AddElement DEF Gained
  <2>4. RareEnough(D \cup {t}, i + 1, n)
    BY <1>5, <1>6, <2>2, EvidenceOfMore
  <2> QED BY <1>1, <1>2, <2>2, <2>3, <2>4, StrongIs
<1> QED BY <1>9, <1>10, <1>11

LEMMA EffectsAreExact ==
  ASSUME NEW p \in Pairs, NEW n \in Comparisons, effect = Outcomes!Effect(p, n)
  PROVE  Outcomes!EffectIsExact
<1>1. IsPair(p) /\ p \in [base : SUBSET Assessed, candidate : SUBSET Assessed]
  BY OutcomesAssumption DEF IsPair
<1>2. effect.pair = p /\ effect.comparisons = n
  <2>1. Gained(p) \in Nat /\ Cardinality(Outcomes!Regressions(p)) \in Nat
    BY <1>1, DiscordantTasks
  <2>2. Outcomes!Effect(p, n).pair = p /\ Outcomes!Effect(p, n).comparisons = n
    BY <1>1, <2>1, EffectParts, ZenonT(60)
  <2> QED BY <2>2
<1>3. PICK D : D = Discordant(p)
  OBVIOUS
<1>4. PICK asGood : asGood = {S \in SUBSET D : Outcomes!Cardinality(S)
                                                 >= Outcomes!Cardinality(Outcomes!Improvements(p))}
  OBVIOUS
<1>5. asGood = AtLeast(D, Gained(p))
  BY <1>4, SizeOfOutcomes DEF AtLeast, Gained
<1>6. effect.strong <=>
        /\ D # {}
        /\ AlphaDen * n * Outcomes!Cardinality(asGood)
             <= AlphaNum * Outcomes!Cardinality(SUBSET D)
  BY <1>1, <1>3, <1>5, StrongIs, SizeOfOutcomes DEF RareEnough
<1>7. effect.strong => Outcomes!Cardinality(p.candidate) >= effect.floor
  BY <1>1, FloorHolds, SizeOfOutcomes
<1>8. effect.strong => \A t \in Assessed :
        Outcomes!Effect([p EXCEPT !.candidate = @ \cup {t}], n).strong
  BY <1>1, OneMoreSolved
<1> QED BY <1>2, <1>3, <1>4, <1>6, <1>7, <1>8 DEF Outcomes!EffectIsExact, Discordant

----------------------------------------------------------------------------
(* The verdict of P8-003 *)

SmokeSide == SUBSET SmokeCases

LEMMA ThreeNumbers ==
  IsFiniteSet(1 .. 3) /\ Cardinality(1 .. 3) = 3
<1>1. 1 \in Int /\ 3 \in Int
  OBVIOUS
<1>2. /\ IsFiniteSet(1 .. 3)
      /\ Cardinality(1 .. 3) = IF 1 > 3 THEN 0 ELSE 3 - 1 + 1
  BY <1>1, FS_Interval
<1> QED BY <1>2

LEMMA SmokeIsFinite ==
  ASSUME NEW S \in SmokeSide
  PROVE  IsFiniteSet(S) /\ Cardinality(S) \in Nat
<1>1. IsFiniteSet({"typescript"}) /\ IsFiniteSet({"rust"}) /\ IsFiniteSet(1 .. 3)
  BY FS_Singleton, ThreeNumbers
<1>2. SmokeLanguages = {"typescript"} \cup {"rust"}
  BY DEF SmokeLanguages
<1>3. IsFiniteSet(SmokeLanguages)
  BY <1>1, <1>2, FS_Union
<1>4. IsFiniteSet(SmokeCases)
  BY <1>1, <1>3, FS_Product DEF SmokeCases
<1> QED BY <1>4, SizeOfPart DEF SmokeSide

\* Three cases of a language, and what both languages have.
LEMMA SidesByLanguage ==
  ASSUME NEW S \in SmokeSide
  PROVE  /\ \A l \in SmokeLanguages : Outcomes!Of(l, S) \in SUBSET S
                                      /\ Cardinality(Outcomes!Of(l, S)) \in Nat
                                      /\ Cardinality(Outcomes!Of(l, S)) <= 3
         /\ Cardinality(S) = Cardinality(Outcomes!Of("typescript", S))
                               + Cardinality(Outcomes!Of("rust", S))
<1>1. IsFiniteSet(S)
  BY SmokeIsFinite
<1>2. ASSUME NEW l \in SmokeLanguages
      PROVE  /\ Outcomes!Of(l, S) \in SUBSET S
             /\ Cardinality(Outcomes!Of(l, S)) \in Nat
             /\ Cardinality(Outcomes!Of(l, S)) <= 3
  <2>1. Outcomes!Of(l, S) \in SUBSET S
    BY DEF Outcomes!Of
  <2>2. IsFiniteSet({l} \X (1 .. 3)) /\ Cardinality({l} \X (1 .. 3)) = 3
    <3>1. /\ IsFiniteSet({l}) /\ Cardinality({l}) = 1
          /\ IsFiniteSet(1 .. 3) /\ Cardinality(1 .. 3) = 3
      BY FS_Singleton, ThreeNumbers
    <3> QED BY <3>1, FS_Product
  <2>3. Outcomes!Of(l, S) \in SUBSET ({l} \X (1 .. 3))
    <3> SUFFICES ASSUME NEW c \in Outcomes!Of(l, S) PROVE c \in {l} \X (1 .. 3)
      OBVIOUS
    <3>1. c \in SmokeLanguages \X (1 .. 3) /\ c[1] = l
      BY DEF Outcomes!Of, SmokeSide, SmokeCases
    <3> QED BY <3>1
  <2> QED BY <2>1, <2>2, <2>3, SizeOfPart
<1>3. PICK X, Y : X = Outcomes!Of("typescript", S) /\ Y = Outcomes!Of("rust", S)
  OBVIOUS
<1>4. X \in SUBSET S /\ Y \in SUBSET S /\ X \cap Y = {}
  BY <1>3 DEF Outcomes!Of
<1>5. X \cup Y = S
  <2> SUFFICES ASSUME NEW c \in S PROVE c \in X \cup Y
    BY <1>4
  <2>1. c \in SmokeLanguages \X (1 .. 3)
    BY DEF SmokeSide, SmokeCases
  <2>2. c[1] = "typescript" \/ c[1] = "rust"
    BY <2>1 DEF SmokeLanguages
  <2> QED BY <1>3, <2>2 DEF Outcomes!Of
<1>6. IsFiniteSet(X) /\ IsFiniteSet(Y)
  BY <1>1, <1>4, FS_Subset
<1>7. Cardinality(S) = Cardinality(X) + Cardinality(Y)
  BY <1>4, <1>5, <1>6, SizeOfBoth
<1> QED BY <1>2, <1>3, <1>7

Solves2(p, l) == Cardinality(Outcomes!Of(l, p.base)) >= 2
LosesAll(p) ==
    \/ \E l \in SmokeLanguages : Cardinality(Outcomes!Of(l, p.candidate)) = 0
    \/ Cardinality(p.base) >= 4 /\ Cardinality(p.candidate) * 2 <= Cardinality(p.base)

LEMMA VerdictIs ==
  ASSUME NEW p
  PROVE  /\ Outcomes!Verdict(p) = "catastrophic_regression"
              <=> (\A l \in SmokeLanguages : Solves2(p, l)) /\ LosesAll(p)
         /\ Outcomes!Verdict(p) = "no_catastrophic_regression"
              <=> (\A l \in SmokeLanguages : Solves2(p, l)) /\ ~LosesAll(p)
<1>1. \A l \in SmokeLanguages : Outcomes!Adequate(p, l) <=> Solves2(p, l)
  BY SizeOfOutcomes DEF Outcomes!Adequate, Solves2
<1>2. CASE \E l \in SmokeLanguages : ~Solves2(p, l)
  <2>1. Outcomes!Verdict(p) = "inconclusive_base"
    BY <1>1, <1>2 DEF Outcomes!Verdict
  <2> QED BY <1>2, <2>1
<1>3. CASE \A l \in SmokeLanguages : Solves2(p, l)
  <2>1. Outcomes!Verdict(p) =
          IF (\E l \in SmokeLanguages : Outcomes!Lost(p, l)) \/ Outcomes!Halved(p)
          THEN "catastrophic_regression" ELSE "no_catastrophic_regression"
    BY <1>1, <1>3 DEF Outcomes!Verdict
  <2>2. (\E l \in SmokeLanguages : Outcomes!Lost(p, l)) \/ Outcomes!Halved(p) <=> LosesAll(p)
    BY <1>3, SizeOfOutcomes DEF Outcomes!Lost, Outcomes!Halved, LosesAll, Solves2
  <2> QED BY <1>3, <2>1, <2>2
<1> QED BY <1>2, <1>3

\* A catastrophe is a net loss: one language cannot make up for the other.
LEMMA CatastropheIsNetLoss ==
  ASSUME NEW p, p.base \in SmokeSide, p.candidate \in SmokeSide,
         Outcomes!Verdict(p) = "catastrophic_regression"
  PROVE  Cardinality(p.candidate) < Cardinality(p.base)
<1>1. "typescript" \in SmokeLanguages /\ "rust" \in SmokeLanguages
  BY DEF SmokeLanguages
<1>2. PICK a \in Nat, b \in Nat :
        /\ a = Cardinality(Outcomes!Of("typescript", p.base)) /\ a >= 2
        /\ b = Cardinality(Outcomes!Of("rust", p.base)) /\ b >= 2
        /\ Cardinality(p.base) = a + b
  BY <1>1, VerdictIs, SidesByLanguage DEF Solves2
<1>3. PICK c \in Nat, d \in Nat :
        /\ c = Cardinality(Outcomes!Of("typescript", p.candidate)) /\ c <= 3
        /\ d = Cardinality(Outcomes!Of("rust", p.candidate)) /\ d <= 3
        /\ Cardinality(p.candidate) = c + d
  BY <1>1, SidesByLanguage
<1>4. c = 0 \/ d = 0 \/ (c + d) * 2 <= a + b
  <2>1. LosesAll(p)
    BY VerdictIs
  <2>2. CASE \E l \in SmokeLanguages : Cardinality(Outcomes!Of(l, p.candidate)) = 0
    BY <1>3, <2>2 DEF SmokeLanguages
  <2>3. CASE Cardinality(p.candidate) * 2 <= Cardinality(p.base)
    BY <1>2, <1>3, <2>3
  <2> QED BY <2>1, <2>2, <2>3 DEF LosesAll
<1> QED BY <1>2, <1>3, <1>4

\* One that solves less is not cleared.
LEMMA CatastropheOfLess ==
  ASSUME NEW p, NEW q, p.base \in SmokeSide, p.candidate \in SmokeSide,
         q.base = p.base, q.candidate \in SUBSET p.candidate,
         Outcomes!Verdict(p) = "catastrophic_regression"
  PROVE  Outcomes!Verdict(q) = "catastrophic_regression"
<1>1. q.candidate \in SmokeSide
  BY DEF SmokeSide
<1>2. /\ IsFiniteSet(p.candidate) /\ IsFiniteSet(q.candidate)
      /\ Cardinality(p.candidate) \in Nat /\ Cardinality(q.candidate) \in Nat
      /\ Cardinality(p.base) \in Nat
  BY <1>1, SmokeIsFinite
<1>3. Cardinality(q.candidate) <= Cardinality(p.candidate)
  BY <1>2, FS_Subset
<1>4. ASSUME NEW l \in SmokeLanguages, Cardinality(Outcomes!Of(l, p.candidate)) = 0
      PROVE  Cardinality(Outcomes!Of(l, q.candidate)) = 0
  <2>1. Outcomes!Of(l, p.candidate) \in SUBSET p.candidate
    BY SidesByLanguage
  <2>2. IsFiniteSet(Outcomes!Of(l, p.candidate))
    BY <1>2, <2>1, FS_Subset
  <2>3. Outcomes!Of(l, p.candidate) = {}
    BY <1>4, <2>2, FS_EmptySet
  <2>4. Outcomes!Of(l, q.candidate) = {}
    BY <2>3 DEF Outcomes!Of
  <2> QED BY <2>4, FS_EmptySet
<1>5. \A l \in SmokeLanguages : Solves2(q, l)
  BY VerdictIs DEF Solves2
<1>6. LosesAll(q)
  <2>1. LosesAll(p)
    BY VerdictIs
  <2>2. CASE \E l \in SmokeLanguages : Cardinality(Outcomes!Of(l, p.candidate)) = 0
    BY <1>4, <2>2 DEF LosesAll
  <2>3. CASE Cardinality(p.base) >= 4 /\ Cardinality(p.candidate) * 2 <= Cardinality(p.base)
    BY <1>2, <1>3, <2>3 DEF LosesAll
  <2> QED BY <2>1, <2>2, <2>3 DEF LosesAll
<1> QED BY <1>5, <1>6, VerdictIs

\* What is cleared solves something of every language.
LEMMA ClearedSolves ==
  ASSUME NEW p, p.base \in SmokeSide, p.candidate \in SmokeSide,
         Outcomes!Verdict(p) = "no_catastrophic_regression", NEW l \in SmokeLanguages
  PROVE  Outcomes!Of(l, p.candidate) # {} /\ Outcomes!Of(l, p.base) # {}
<1>1. Solves2(p, l) /\ ~LosesAll(p)
  BY VerdictIs
<1>2. Cardinality(Outcomes!Of(l, p.candidate)) # 0 /\ Cardinality(Outcomes!Of(l, p.base)) # 0
  BY <1>1 DEF Solves2, LosesAll
<1> QED BY <1>2, FS_EmptySet

LEMMA ScoredSides ==
  ASSUME NEW m
  PROVE  LET f == Outcomes!Scored(m, "format")
             p == Outcomes!Scored(m, "semantic")
         IN /\ p = [base |-> p.base, candidate |-> p.candidate]
            /\ p.base = {c \in SmokeCases : Outcomes!SemanticPasses(m.base[c])}
            /\ p.candidate = {c \in SmokeCases : Outcomes!SemanticPasses(m.adapter[c])}
            /\ f.base = {c \in SmokeCases : Outcomes!FormatPasses(m.base[c])}
            /\ f.candidate = {c \in SmokeCases : Outcomes!FormatPasses(m.adapter[c])}
BY DEF Outcomes!Scored

\* What passes the strict dimension passes the one that decides.
LEMMA StrictIsStricter ==
  ASSUME NEW r \in Outcomes!Responses, Outcomes!FormatPasses(r)
  PROVE  Outcomes!SemanticPasses(r)
BY DEF Outcomes!Responses, Outcomes!FormatPasses, Outcomes!SemanticPasses

LEMMA VerdictsAreFair ==
  ASSUME NEW m \in Smokes, smoke = Outcomes!Report(m)
  PROVE  Outcomes!VerdictIsFair
<1>1. PICK p : p = Outcomes!Scored(m, "semantic")
  OBVIOUS
<1>2. PICK f : f = Outcomes!Scored(m, "format")
  OBVIOUS
<1>3. /\ smoke.semantic = p /\ smoke.format = f /\ smoke.conclusion = Outcomes!Verdict(p)
      /\ smoke.regressions = Cardinality(Outcomes!Regressions(p))
      /\ smoke.improvements = Cardinality(Outcomes!Improvements(p))
  BY <1>1, <1>2, SizeOfOutcomes DEF Outcomes!Report
<1>4. /\ p = [base |-> p.base, candidate |-> p.candidate]
      /\ p.base = {c \in SmokeCases : Outcomes!SemanticPasses(m.base[c])}
      /\ p.candidate = {c \in SmokeCases : Outcomes!SemanticPasses(m.adapter[c])}
      /\ f.base = {c \in SmokeCases : Outcomes!FormatPasses(m.base[c])}
      /\ f.candidate = {c \in SmokeCases : Outcomes!FormatPasses(m.adapter[c])}
  BY <1>1, <1>2, ScoredSides
<1>5. p.base \in SmokeSide /\ p.candidate \in SmokeSide
  BY <1>4 DEF SmokeSide
<1>6. f.base \subseteq p.base /\ f.candidate \subseteq p.candidate
  <2>1. \A c \in SmokeCases : m.base[c] \in Outcomes!Responses /\ m.adapter[c] \in Outcomes!Responses
    BY OutcomesAssumption
  <2> QED BY <1>4, <2>1, StrictIsStricter
<1>7. ASSUME smoke.conclusion = "catastrophic_regression"
      PROVE  /\ smoke.regressions > smoke.improvements
             /\ \A l \in SmokeLanguages : Outcomes!Cardinality(Outcomes!Of(l, p.base)) >= 2
             /\ \A less \in SUBSET p.candidate :
                  Outcomes!Verdict([p EXCEPT !.candidate = less]) = "catastrophic_regression"
  <2>1. Cardinality(p.candidate) < Cardinality(p.base)
    BY <1>3, <1>5, <1>7, CatastropheIsNetLoss
  <2>2. IsFiniteSet(p.candidate) /\ IsFiniteSet(p.base)
    BY <1>5, SmokeIsFinite
  <2>3. PICK a \in Nat, b \in Nat, x \in Nat, y \in Nat :
          /\ a = Cardinality(p.candidate) /\ b = Cardinality(p.base)
          /\ x = smoke.improvements /\ y = smoke.regressions
    <3>1. /\ IsFiniteSet(Outcomes!Improvements(p)) /\ IsFiniteSet(Outcomes!Regressions(p))
      BY <2>2, FS_Difference DEF Outcomes!Improvements, Outcomes!Regressions
    <3> QED BY <1>3, <2>2, <3>1, FS_CardinalityType
  <2>4. a - b = x - y
    BY <1>3, <2>2, <2>3, NetOfTwoSides DEF Outcomes!Improvements, Outcomes!Regressions
  <2>5. smoke.regressions > smoke.improvements
    BY <2>1, <2>3, <2>4
  <2>6. \A l \in SmokeLanguages : Outcomes!Cardinality(Outcomes!Of(l, p.base)) >= 2
    BY <1>3, <1>7, VerdictIs, SizeOfOutcomes DEF Solves2
  <2>7. ASSUME NEW less \in SUBSET p.candidate
        PROVE  Outcomes!Verdict([p EXCEPT !.candidate = less]) = "catastrophic_regression"
    <3>1. PICK q : q = [p EXCEPT !.candidate = less]
      OBVIOUS
    <3>2. q.base = p.base /\ q.candidate = less
      BY <1>4, <3>1
    <3>3. Outcomes!Verdict(p) = "catastrophic_regression" /\ q.candidate \in SUBSET p.candidate
      BY <1>3, <1>7, <3>2
    <3>4. Outcomes!Verdict(q) = "catastrophic_regression"
      BY <1>5, <3>2, <3>3, CatastropheOfLess
    <3> QED BY <3>1, <3>4
  <2> QED BY <2>5, <2>6, <2>7
<1>8. ASSUME smoke.conclusion = "no_catastrophic_regression"
      PROVE  \A l \in SmokeLanguages :
               Outcomes!Of(l, p.candidate) # {} /\ Outcomes!Of(l, p.base) # {}
  BY <1>3, <1>5, <1>8, ClearedSolves
<1> QED BY <1>3, <1>6, <1>7, <1>8 DEF Outcomes!VerdictIsFair

----------------------------------------------------------------------------
(* Repeated runs *)

IsRuns(runs, L) ==
    L \in Nat /\ L >= 2 /\ DOMAIN runs = 1 .. L /\ Len(runs) = L
    /\ \A n \in 1 .. L : runs[n] \in SUBSET Few

FlipsAt(runs, n, t) == (t \in runs[n]) # (t \in runs[n + 1])

\* What never flips is the same in every run.
LEMMA Steady ==
  ASSUME NEW runs, NEW L, IsRuns(runs, L), NEW t, \A n \in 1 .. L - 1 : ~FlipsAt(runs, n, t)
  PROVE  \A i, j \in 1 .. L : t \in runs[i] <=> t \in runs[j]
<1> DEFINE T == {k \in Nat : k + 1 <= L => (t \in runs[k + 1] <=> t \in runs[1])}
<1>1. 0 \in T
  OBVIOUS
<1>2. ASSUME NEW k \in Nat, k \in T PROVE k + 1 \in T
  <2> SUFFICES ASSUME (k + 1) + 1 <= L PROVE t \in runs[(k + 1) + 1] <=> t \in runs[1]
    OBVIOUS
  <2>1. PICK n \in Nat : n = k + 1
    OBVIOUS
  <2>2. n \in 1 .. L - 1
    BY <2>1 DEF IsRuns
  <2>3. t \in runs[n] <=> t \in runs[n + 1]
    BY <2>2 DEF FlipsAt
  <2>4. t \in runs[n] <=> t \in runs[1]
    BY <1>2, <2>1, <2>2 DEF IsRuns
  <2> QED BY <2>1, <2>3, <2>4
<1>3. Nat \subseteq T
  <2> HIDE DEF T
  <2> QED BY <1>1, <1>2, NatInd
<1>4. ASSUME NEW i \in 1 .. L PROVE t \in runs[i] <=> t \in runs[1]
  <2>1. PICK k \in Nat : k = i - 1
    OBVIOUS
  <2>2. k + 1 = i /\ k + 1 <= L
    BY <2>1 DEF IsRuns
  <2> QED BY <1>3, <2>2
<1> QED BY <1>4

LEMMA FlipIs ==
  ASSUME NEW runs, NEW L, IsRuns(runs, L)
  PROVE  Outcomes!Flips(runs) = {f \in (1 .. L - 1) \X Few : FlipsAt(runs, f[1], f[2])}
BY DEF IsRuns, Outcomes!Flips, FlipsAt

\* The tasks that are unstable are those that flip.
LEMMA UnstableFlips ==
  ASSUME NEW runs, NEW L, IsRuns(runs, L)
  PROVE  /\ IsFiniteSet(Outcomes!Flips(runs))
         /\ \A f \in Outcomes!Flips(runs) : f[2] \in Outcomes!Unstable(runs)
         /\ \A t \in Outcomes!Unstable(runs) : \E f \in Outcomes!Flips(runs) : f[2] = t
<1>1. IsFiniteSet(Outcomes!Flips(runs))
  <2>1. IsFiniteSet(1 .. L - 1)
    <3>1. 1 \in Int /\ L - 1 \in Int
      BY DEF IsRuns
    <3> QED BY <3>1, FS_Interval
  <2>2. IsFiniteSet((1 .. L - 1) \X Few)
    BY <2>1, OutcomesAssumption, FS_Product
  <2>3. Outcomes!Flips(runs) \in SUBSET ((1 .. L - 1) \X Few)
    BY FlipIs
  <2> QED BY <2>2, <2>3, FS_Subset
<1>2. ASSUME NEW f \in Outcomes!Flips(runs) PROVE f[2] \in Outcomes!Unstable(runs)
  <2>1. PICK n \in 1 .. L - 1, t \in Few : f = <<n, t>> /\ FlipsAt(runs, n, t)
    <3>1. f \in (1 .. L - 1) \X Few /\ FlipsAt(runs, f[1], f[2])
      BY FlipIs
    <3>2. PICK n \in 1 .. L - 1, t \in Few : f = <<n, t>>
      BY <3>1
    <3>3. f[1] = n /\ f[2] = t
      BY <3>2
    <3> QED BY <3>1, <3>2, <3>3
  <2>2. f[2] = t /\ n \in DOMAIN runs /\ n + 1 \in DOMAIN runs
    BY <2>1 DEF IsRuns
  <2>3. (t \in runs[n] /\ t \notin runs[n + 1]) \/ (t \in runs[n + 1] /\ t \notin runs[n])
    BY <2>1 DEF FlipsAt
  <2>4. \E i, j \in DOMAIN runs : t \in runs[i] /\ t \notin runs[j]
    BY <2>2, <2>3
  <2>5. t \in Outcomes!Unstable(runs)
    BY <2>1, <2>4 DEF Outcomes!Unstable
  <2> QED BY <2>2, <2>5
<1>3. ASSUME NEW t \in Outcomes!Unstable(runs)
      PROVE  \E f \in Outcomes!Flips(runs) : f[2] = t
  <2>1. t \in Few /\ \E i, j \in 1 .. L : t \in runs[i] /\ t \notin runs[j]
    BY DEF Outcomes!Unstable, IsRuns
  <2>2. PICK n \in 1 .. L - 1 : FlipsAt(runs, n, t)
    BY <2>1, Steady
  <2>3. PICK f : f = <<n, t>>
    OBVIOUS
  <2>4. f \in (1 .. L - 1) \X Few /\ f[1] = n /\ f[2] = t
    BY <2>1, <2>3
  <2> QED BY <2>2, <2>4, FlipIs
<1> QED BY <1>1, <1>2, <1>3

LEMMA UnstableIsCounted ==
  ASSUME NEW runs, NEW L, IsRuns(runs, L)
  PROVE  /\ IsFiniteSet(Outcomes!Unstable(runs))
         /\ Cardinality(Outcomes!Unstable(runs)) \in Nat
         /\ Cardinality(Outcomes!Flips(runs)) \in Nat
         /\ Cardinality(Outcomes!Unstable(runs)) <= Cardinality(Outcomes!Flips(runs))
         /\ Outcomes!Unstable(runs) = {} <=> Cardinality(Outcomes!Flips(runs)) = 0
<1>1. PICK F, V : F = Outcomes!Flips(runs) /\ V = Outcomes!Unstable(runs)
  OBVIOUS
<1>2. IsFiniteSet(F) /\ (\A f \in F : f[2] \in V) /\ \A t \in V : \E f \in F : f[2] = t
  BY <1>1, UnstableFlips
<1>3. PICK g : g = [f \in F |-> f[2]]
  OBVIOUS
<1>4. g \in Surjection(F, V)
  BY <1>2, <1>3 DEF Surjection
<1>5. IsFiniteSet(V) /\ Cardinality(V) <= Cardinality(F)
  BY <1>2, <1>4, FS_Surjection
<1>6. V = {} <=> F = {}
  BY <1>2
<1>7. F = {} <=> Cardinality(F) = 0
  BY <1>2, FS_EmptySet
<1> QED BY <1>1, <1>2, <1>5, <1>6, <1>7, FS_CardinalityType

\* A greatest number, of those up to N.
LEMMA GreatestNumber ==
  ASSUME NEW N \in Nat, NEW S \in SUBSET (0 .. N), S # {}
  PROVE  Outcomes!Max(S) \in S /\ \A n \in S : n <= Outcomes!Max(S)
<1> DEFINE T == {N - n : n \in S}
<1>1. T \in SUBSET Nat /\ T # {}
  OBVIOUS
<1>2. PICK m \in T : \A n \in T : m <= n
  <2> HIDE DEF T
  <2> QED BY <1>1, Least
<1>3. PICK g \in S : m = N - g
  BY <1>2
<1>4. ASSUME NEW n \in S PROVE g >= n
  <2>1. N - n \in T
    OBVIOUS
  <2>2. m <= N - n
    BY <1>2, <2>1
  <2>3. n \in Nat /\ g \in Nat
    OBVIOUS
  <2> QED BY <1>3, <2>2, <2>3
<1>5. Outcomes!Max(S) = CHOOSE x \in S : \A y \in S : x >= y
  BY DEF Outcomes!Max
<1>6. Outcomes!Max(S) \in S /\ \A y \in S : Outcomes!Max(S) >= y
  <2> HIDE DEF T
  <2> QED BY <1>4, <1>5
<1>7. S \subseteq Nat
  OBVIOUS
<1>8. \A x \in Nat, y \in Nat : x >= y => y <= x
  OBVIOUS
<1> HIDE DEF T
<1> QED BY <1>6, <1>7, <1>8

LEMMA RunsAreCounted ==
  ASSUME NEW runs \in Series, Len(runs) >= 2, variance = Outcomes!Variance(runs)
  PROVE  /\ variance.flips = 0 <=> Outcomes!Cardinality(Outcomes!Range(variance.runs)) = 1
         /\ variance.unstable = {} <=> variance.flips = 0
         /\ variance.range <= variance.flips
         /\ Outcomes!Cardinality(variance.unstable) <= variance.flips
<1>1. PICK L : L = Len(runs)
  OBVIOUS
<1>2. IsRuns(runs, L)
  <2>1. runs \in Seq(SUBSET Few)
    BY OutcomesAssumption
  <2> QED BY <1>1, <2>1 DEF IsRuns
<1>3. PICK F, V : F = Outcomes!Flips(runs) /\ V = Outcomes!Unstable(runs)
  OBVIOUS
<1>4. /\ IsFiniteSet(V) /\ Cardinality(V) \in Nat /\ Cardinality(F) \in Nat
      /\ Cardinality(V) <= Cardinality(F)
      /\ V = {} <=> Cardinality(F) = 0
  BY <1>2, <1>3, UnstableIsCounted
<1>5. PICK R : R = Outcomes!Range(runs)
  OBVIOUS
<1>6. R = {runs[n] : n \in 1 .. L} /\ R # {} /\ R \subseteq SUBSET Few
  BY <1>2, <1>5 DEF IsRuns, Outcomes!Range
<1>7. PICK passed : passed = {Cardinality(s) : s \in R}
  OBVIOUS
<1>8. /\ variance.runs = runs /\ variance.unstable = V /\ variance.flips = Cardinality(F)
      /\ variance.range = Outcomes!Max(passed) - Outcomes!Min(passed)
  BY <1>3, <1>5, <1>7, SizeOfOutcomes DEF Outcomes!Variance
<1>9. IsFiniteSet(R)
  <2>1. IsFiniteSet(SUBSET Few)
    BY OutcomesAssumption, FS_SUBSET
  <2> QED BY <1>6, <2>1, FS_Subset
<1>10. V = {} <=> Cardinality(R) = 1
  <2>1. ASSUME V = {} PROVE R = {runs[1]}
    <3>1. ASSUME NEW i \in 1 .. L PROVE runs[i] = runs[1]
      <4>1. 1 \in 1 .. L /\ DOMAIN runs = 1 .. L
        BY <1>2 DEF IsRuns
      <4>2. runs[i] \subseteq Few /\ runs[1] \subseteq Few
        BY <1>2, <4>1 DEF IsRuns
      <4>3. \A t \in Few : t \in runs[i] <=> t \in runs[1]
        BY <1>3, <2>1, <4>1 DEF Outcomes!Unstable
      <4> QED BY <4>2, <4>3
    <3>2. 1 \in 1 .. L
      BY <1>2 DEF IsRuns
    <3> QED BY <1>6, <3>1, <3>2
  <2>2. ASSUME NEW x, R = {x} PROVE V = {}
    <3>1. \A i \in 1 .. L : runs[i] = x
      BY <1>6, <2>2
    <3>2. DOMAIN runs = 1 .. L
      BY <1>2 DEF IsRuns
    <3> QED BY <1>3, <3>1, <3>2 DEF Outcomes!Unstable
  <2>3. Cardinality(R) = 1 <=> \E x : R = {x}
    BY <1>9, FS_Singleton
  <2> QED BY <2>1, <2>2, <2>3
<1>11. variance.range <= Cardinality(V)
  <2>1. PICK N \in Nat : N = Cardinality(Few)
    BY OutcomesAssumption, FS_CardinalityType
  <2>2. passed \in SUBSET (0 .. N) /\ passed # {}
    <3>1. \A s \in R : Cardinality(s) \in 0 .. N
      <4> SUFFICES ASSUME NEW s \in R PROVE Cardinality(s) \in 0 .. N
        OBVIOUS
      <4>1. s \in SUBSET Few
        BY <1>6
      <4>2. Cardinality(s) \in Nat /\ Cardinality(s) <= N
        BY <2>1, <4>1, OutcomesAssumption, SizeOfPart
      <4> QED BY <4>2
    <3> QED BY <1>6, <1>7, <3>1
  <2>3. Outcomes!Max(passed) \in passed
    BY <2>2, GreatestNumber
  <2>4. Outcomes!Min(passed) \in passed
    <3>1. passed \in SUBSET Nat
      BY <2>2
    <3> QED BY <2>2, <3>1, LeastNumber
  <2>5. PICK a \in R, b \in R :
          Outcomes!Max(passed) = Cardinality(a) /\ Outcomes!Min(passed) = Cardinality(b)
    BY <1>7, <2>3, <2>4
  <2>6. IsFiniteSet(a) /\ IsFiniteSet(b) /\ a \subseteq Few
    <3>1. a \in SUBSET Few /\ b \in SUBSET Few
      BY <1>6
    <3> QED BY <3>1, OutcomesAssumption, FS_Subset
  <2>7. Cardinality(a) - Cardinality(b) = Cardinality(a \ b) - Cardinality(b \ a)
    BY <2>6, NetOfTwoSides
  <2>8. a \ b \in SUBSET V
    <3>1. PICK i \in 1 .. L, j \in 1 .. L : a = runs[i] /\ b = runs[j]
      BY <1>6
    <3>2. DOMAIN runs = 1 .. L
      BY <1>2 DEF IsRuns
    <3> QED BY <1>3, <2>6, <3>1, <3>2 DEF Outcomes!Unstable
  <2>9. Cardinality(a \ b) \in Nat /\ Cardinality(a \ b) <= Cardinality(V)
    BY <1>4, <2>8, SizeOfPart
  <2>10. Cardinality(b \ a) \in Nat
    BY <2>6, FS_Difference, FS_CardinalityType
  <2>11. Cardinality(a) - Cardinality(b) <= Cardinality(V)
    BY <1>4, <2>7, <2>9, <2>10
  <2> QED BY <1>8, <2>5, <2>11
<1>12. variance.range <= variance.flips
  <2>1. variance.range \in Int
    <3>1. PICK N \in Nat : N = Cardinality(Few)
      BY OutcomesAssumption, FS_CardinalityType
    <3>2. passed \in SUBSET (0 .. N) /\ passed # {}
      <4>1. \A s \in R : Cardinality(s) \in 0 .. N
        <5> SUFFICES ASSUME NEW s \in R PROVE Cardinality(s) \in 0 .. N
          OBVIOUS
        <5>1. s \in SUBSET Few
          BY <1>6
        <5>2. Cardinality(s) \in Nat /\ Cardinality(s) <= N
          BY <3>1, <5>1, OutcomesAssumption, SizeOfPart
        <5> QED BY <5>2
      <4> QED BY <1>6, <1>7, <4>1
    <3>3. passed \in SUBSET Nat
      BY <3>2
    <3>4. Outcomes!Max(passed) \in passed /\ Outcomes!Min(passed) \in passed
      BY <3>2, <3>3, GreatestNumber, LeastNumber
    <3>5. Outcomes!Max(passed) \in Nat /\ Outcomes!Min(passed) \in Nat
      BY <3>3, <3>4
    <3> QED BY <1>8, <3>5
  <2> QED BY <1>4, <1>8, <1>11, <2>1
<1> QED BY <1>4, <1>5, <1>8, <1>10, <1>12, SizeOfOutcomes

----------------------------------------------------------------------------
(* The matrix of P9-008 *)

AreRows(rows) == Len(rows) \in Nat /\ DOMAIN rows = 1 .. Len(rows)
RowsThatPass(rows, ids) ==
    {r \in Outcomes!Range(rows) : r.category = "none" /\ r.id \in ids}

LEMMA RowsAreFinite ==
  ASSUME NEW rows, AreRows(rows)
  PROVE  IsFiniteSet(Outcomes!Range(rows)) /\ IsFiniteSet(Outcomes!Ids(rows))
<1>1. PICK n \in Nat : n = Len(rows) /\ DOMAIN rows = 1 .. n
  BY DEF AreRows
<1>2. PICK R : R = Outcomes!Range(rows)
  OBVIOUS
<1>3. R = {rows[i] : i \in 1 .. n}
  BY <1>1, <1>2 DEF Outcomes!Range
<1>4. IsFiniteSet(1 .. n)
  BY FS_Interval
<1>5. PICK f : f = [i \in 1 .. n |-> rows[i]]
  OBVIOUS
<1>6. f \in Surjection(1 .. n, R)
  BY <1>3, <1>5 DEF Surjection
<1>7. IsFiniteSet(R)
  BY <1>4, <1>6, FS_Surjection
<1>8. PICK g : g = [r \in R |-> r.id]
  OBVIOUS
<1>9. g \in Surjection(R, Outcomes!Ids(rows))
  BY <1>2, <1>8 DEF Surjection, Outcomes!Ids
<1>10. IsFiniteSet(Outcomes!Ids(rows))
  BY <1>7, <1>9, FS_Surjection
<1> QED BY <1>2, <1>7, <1>10

\* No task has two rows: there are as many tasks solved as rows that pass.
LEMMA SolvedAreRows ==
  ASSUME NEW rows, AreRows(rows), Outcomes!Readable(rows), NEW ids
  PROVE  /\ IsFiniteSet(Outcomes!Solved(rows, ids))
         /\ Cardinality(RowsThatPass(rows, ids)) = Cardinality(Outcomes!Solved(rows, ids))
<1>1. PICK P, V : P = RowsThatPass(rows, ids) /\ V = Outcomes!Solved(rows, ids)
  OBVIOUS
<1>2. V = {r.id : r \in P}
  BY <1>1 DEF RowsThatPass, Outcomes!Solved
<1>3. IsFiniteSet(P)
  <2>1. P \in SUBSET Outcomes!Range(rows)
    BY <1>1 DEF RowsThatPass
  <2> QED BY <2>1, RowsAreFinite, FS_Subset
<1>4. ASSUME NEW r \in P, NEW s \in P, r.id = s.id PROVE r = s
  <2>1. PICK i \in DOMAIN rows, j \in DOMAIN rows : r = rows[i] /\ s = rows[j]
    BY <1>1 DEF RowsThatPass, Outcomes!Range
  <2>2. PICK f : f = [k \in DOMAIN rows |-> rows[k].id]
    OBVIOUS
  <2>3. \A k, l \in DOMAIN f : f[k] = f[l] => k = l
    BY <2>2 DEF Outcomes!Readable, Outcomes!IsInjective
  <2>4. f[i] = f[j] /\ i \in DOMAIN f /\ j \in DOMAIN f
    BY <1>4, <2>1, <2>2
  <2> QED BY <2>1, <2>3, <2>4
<1>5. PICK f : f = [r \in P |-> r.id]
  OBVIOUS
<1>6. f \in [P -> V] /\ \A r \in P : f[r] = r.id
  BY <1>2, <1>5
<1>7. f \in Bijection(P, V)
  BY <1>2, <1>4, <1>6 DEF Bijection, Injection, Surjection, IsInjective
<1>8. ExistsBijection(P, V)
  BY <1>7 DEF ExistsBijection
<1> QED BY <1>1, <1>3, <1>8, FS_Bijection

LEMMA MatrixIsExact ==
  ASSUME NEW m \in Forensics, Outcomes!Comparable(m), matrix = Outcomes!Matrix(m)
  PROVE  LET cells == <<matrix.retainedPass, matrix.retainedFail, matrix.regressions,
                        matrix.improvements>>
             after == Outcomes!Cardinality({r \in Outcomes!Range(matrix.of.adapter) :
                                              r.category = "none"})
             before == Outcomes!Cardinality({r \in Outcomes!Range(matrix.of.base) :
                         r.category = "none" /\ r.id \in Outcomes!Ids(matrix.of.adapter)})
         IN /\ UNION Outcomes!Range(cells) = Outcomes!Ids(matrix.of.adapter)
            /\ \A i, j \in DOMAIN cells : i # j => cells[i] \cap cells[j] = {}
            /\ matrix.net = after - before
            /\ "none" \notin DOMAIN matrix.categories
<1>1. PICK ids, b, c : /\ ids = Outcomes!Ids(m.adapter) /\ b = Outcomes!Solved(m.base, ids)
                       /\ c = Outcomes!Solved(m.adapter, ids)
  OBVIOUS
<1>2. /\ matrix.of = m
      /\ matrix.retainedPass = b \cap c /\ matrix.retainedFail = ids \ (b \cup c)
      /\ matrix.regressions = b \ c /\ matrix.improvements = c \ b
      /\ matrix.net = Cardinality(c \ b) - Cardinality(b \ c)
      /\ DOMAIN matrix.categories =
           {r.category : r \in {x \in Outcomes!Range(m.adapter) : x.id \in b \ c}}
  BY <1>1, SizeOfOutcomes DEF Outcomes!Matrix, Outcomes!Regressions, Outcomes!Improvements
<1>3. b \subseteq ids /\ c \subseteq ids
  BY <1>1 DEF Outcomes!Solved
<1>4. AreRows(m.base) /\ AreRows(m.adapter)
  BY OutcomesAssumption DEF AreRows
<1>5. Outcomes!Readable(m.base) /\ Outcomes!Readable(m.adapter)
  BY DEF Outcomes!Comparable
<1>6. PICK cells : cells = <<b \cap c, ids \ (b \cup c), b \ c, c \ b>>
  OBVIOUS
<1>7. /\ DOMAIN cells = 1 .. 4
      /\ cells[1] = b \cap c /\ cells[2] = ids \ (b \cup c)
      /\ cells[3] = b \ c /\ cells[4] = c \ b
  BY <1>6
<1>8. UNION Outcomes!Range(cells) = ids
  <2>1. Outcomes!Range(cells) = {cells[i] : i \in 1 .. 4}
    BY <1>7 DEF Outcomes!Range
  <2>2. ASSUME NEW t \in ids PROVE \E i \in 1 .. 4 : t \in cells[i]
    BY <1>7
  <2>3. ASSUME NEW i \in 1 .. 4, NEW t \in cells[i] PROVE t \in ids
    <3>1. i = 1 \/ i = 2 \/ i = 3 \/ i = 4
      OBVIOUS
    <3> QED BY <1>3, <1>7, <2>3, <3>1
  <2> QED BY <2>1, <2>2, <2>3
<1>9. \A i, j \in DOMAIN cells : i # j => cells[i] \cap cells[j] = {}
  <2>1. /\ cells[1] \cap cells[2] = {} /\ cells[1] \cap cells[3] = {}
        /\ cells[1] \cap cells[4] = {} /\ cells[2] \cap cells[3] = {}
        /\ cells[2] \cap cells[4] = {} /\ cells[3] \cap cells[4] = {}
    BY <1>7
  <2>2. ASSUME NEW i \in 1 .. 4, NEW j \in 1 .. 4, i # j PROVE cells[i] \cap cells[j] = {}
    <3>1. i = 1 \/ i = 2 \/ i = 3 \/ i = 4
      OBVIOUS
    <3>2. j = 1 \/ j = 2 \/ j = 3 \/ j = 4
      OBVIOUS
    <3> QED BY <2>1, <2>2, <3>1, <3>2
  <2> QED BY <1>7, <2>2
<1>10. PICK A, B : /\ A = {r \in Outcomes!Range(m.adapter) : r.category = "none"}
                   /\ B = {r \in Outcomes!Range(m.base) : r.category = "none" /\ r.id \in ids}
  OBVIOUS
<1>11. A = RowsThatPass(m.adapter, ids) /\ B = RowsThatPass(m.base, ids)
  BY <1>1, <1>10 DEF RowsThatPass, Outcomes!Ids
<1>12. /\ IsFiniteSet(b) /\ IsFiniteSet(c)
       /\ Cardinality(A) = Cardinality(c) /\ Cardinality(B) = Cardinality(b)
  BY <1>1, <1>4, <1>5, <1>11, SolvedAreRows
<1>13. matrix.net = Cardinality(A) - Cardinality(B)
  BY <1>2, <1>12, NetOfTwoSides
<1>14. "none" \notin DOMAIN matrix.categories
  <2> SUFFICES ASSUME NEW r \in Outcomes!Range(m.adapter), r.id \in b \ c, r.category = "none"
               PROVE  FALSE
    BY <1>2
  <2>1. r.id \in ids
    BY <1>3
  <2>2. r.id \in c
    BY <1>1, <2>1 DEF Outcomes!Solved
  <2> QED BY <2>2
<1>15. cells = <<matrix.retainedPass, matrix.retainedFail, matrix.regressions,
                 matrix.improvements>>
  BY <1>2, <1>6
<1>16. /\ A = {r \in Outcomes!Range(matrix.of.adapter) : r.category = "none"}
       /\ B = {r \in Outcomes!Range(matrix.of.base) :
                 r.category = "none" /\ r.id \in Outcomes!Ids(matrix.of.adapter)}
       /\ ids = Outcomes!Ids(matrix.of.adapter)
  BY <1>1, <1>2, <1>10
<1>17. matrix.net = Outcomes!Cardinality(A) - Outcomes!Cardinality(B)
  BY <1>13, SizeOfOutcomes
<1> QED BY <1>8, <1>9, <1>14, <1>15, <1>16, <1>17

----------------------------------------------------------------------------
(* The commands *)

\* Each report is of what was measured.
ReportsAreOfMeasures ==
    /\ measured # None =>
         \/ measured.kind = "smoke" /\ measured.of \in Smokes
         \/ measured.kind = "pair" /\ measured.of \in Pairs
         \/ measured.kind = "series" /\ measured.of \in Series
         \/ measured.kind = "forensics" /\ measured.of \in Forensics
    /\ smoke # None => \E m \in Smokes : smoke = Outcomes!Report(m)
    /\ effect # None => \E p \in Pairs, n \in Comparisons : effect = Outcomes!Effect(p, n)
    /\ variance # None =>
         \E runs \in Series : Len(runs) >= 2 /\ variance = Outcomes!Variance(runs)
    /\ matrix # None =>
         \E m \in Forensics : Outcomes!Comparable(m) /\ matrix = Outcomes!Matrix(m)

LEMMA ReportsStay ==
  ASSUME ReportsAreOfMeasures, [Outcomes!Next]_<<measured, smoke, effect, variance, matrix>>
  PROVE  ReportsAreOfMeasures'
<1>1. CASE Outcomes!Measure
  BY <1>1 DEF ReportsAreOfMeasures, Outcomes!Measure
<1>2. CASE Outcomes!Smoke
  BY <1>2 DEF ReportsAreOfMeasures, Outcomes!Smoke, Outcomes!Has
<1>3. CASE Outcomes!Characterize
  BY <1>3 DEF ReportsAreOfMeasures, Outcomes!Characterize, Outcomes!Has
<1>4. CASE Outcomes!Analyze
  BY <1>4 DEF ReportsAreOfMeasures, Outcomes!Analyze, Outcomes!Has
<1>5. CASE \E n \in Comparisons : Outcomes!Assess(n)
  BY <1>5 DEF ReportsAreOfMeasures, Outcomes!Assess, Outcomes!Has
<1>6. CASE UNCHANGED <<measured, smoke, effect, variance, matrix>>
  BY <1>6 DEF ReportsAreOfMeasures
<1> QED BY <1>1, <1>2, <1>3, <1>4, <1>5, <1>6 DEF Outcomes!Next

LEMMA ReportsAreSound ==
  ASSUME ReportsAreOfMeasures
  PROVE  ConclusionsAreSound
<1>1. Outcomes!VerdictIsFair
  <2>1. CASE smoke = None
    BY <2>1 DEF Outcomes!VerdictIsFair
  <2>2. CASE smoke # None
    BY <2>2, VerdictsAreFair DEF ReportsAreOfMeasures
  <2> QED BY <2>1, <2>2
<1>2. Outcomes!EffectIsExact
  <2>1. CASE effect = None
    BY <2>1 DEF Outcomes!EffectIsExact
  <2>2. CASE effect # None
    BY <2>2, EffectsAreExact DEF ReportsAreOfMeasures
  <2> QED BY <2>1, <2>2
<1>3. Outcomes!FlipsAreCounted
  <2>1. ASSUME variance # None
        PROVE  /\ variance.flips = 0 <=> Outcomes!Cardinality(Outcomes!Range(variance.runs)) = 1
               /\ variance.unstable = {} <=> variance.flips = 0
               /\ variance.range <= variance.flips
               /\ Outcomes!Cardinality(variance.unstable) <= variance.flips
    BY <2>1, RunsAreCounted DEF ReportsAreOfMeasures
  <2>2. ASSUME matrix # None
        PROVE  \E m \in Forensics : Outcomes!Comparable(m) /\ matrix = Outcomes!Matrix(m)
    BY <2>2 DEF ReportsAreOfMeasures
  <2> QED BY <2>1, <2>2, MatrixIsExact DEF Outcomes!FlipsAreCounted
<1> QED BY <1>1, <1>2, <1>3 DEF ConclusionsAreSound, Outcomes!ConclusionsAreSound

\* What P8-003, FTR-104 and P9-008 conclude is what the outcomes show, of any responses,
\* tasks, runs and rows: no catastrophe is an artifact of the thresholds, evidence is
\* strong exactly when the sign test says so, and every change is counted once.
THEOREM ConclusionsFollow == Outcomes!Spec => []ConclusionsAreSound
<1>1. Outcomes!Init => ReportsAreOfMeasures
  BY DEF Outcomes!Init, ReportsAreOfMeasures
<1>2. ReportsAreOfMeasures /\ [Outcomes!Next]_(Outcomes!vars) => ReportsAreOfMeasures'
  BY ReportsStay DEF Outcomes!vars
<1>3. ReportsAreOfMeasures => ConclusionsAreSound
  BY ReportsAreSound
<1> QED BY <1>1, <1>2, <1>3, PTL DEF Outcomes!Spec
====
