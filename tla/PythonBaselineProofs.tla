---- MODULE PythonBaselineProofs ----
(***************************************************************************)
(* Theorems about PythonBaseline, for any suites, commits and answers and  *)
(* however many crashes, changes of the tree and harness errors.           *)
(***************************************************************************)
EXTENDS PythonBaseline, SequenceTheorems, TLAPS

----------------------------------------------------------------------------
(* The inductive invariant *)

Recs == [contract : {Contract[c] : c \in Commits}, answer : Answers]

Shape ==
    /\ head \in Commits /\ k \in Positions
    /\ ckpt \in [Positions -> Seq(Recs)]
    /\ DOMAIN results = Positions /\ DOMAIN aggregate = Positions
    /\ stage \notin {None, Torn} => DOMAIN stage = {"sha", "contract", "intact"}
    /\ DOMAIN job = {"cmd", "code", "sha", "prov", "scored"}
    /\ pc # "idle" => job.cmd \in Commands /\ job.code \in Commits

OfContract(rows) == \A i \in DOMAIN rows : rows[i].contract = Contract[job.code]
Answered(s) == Len(ckpt[s]) = Items[s] /\ OfContract(ckpt[s])
Scored(s) == results[s].rows = ckpt[s] /\ aggregate[s] = results[s]

\* The measurements are of the answers that were scored, whatever became of the work.
Measured(s) ==
    /\ Len(metadata[s]) = Items[s] /\ OfContract(metadata[s])
    /\ results[s].rows = metadata[s] /\ aggregate[s] = results[s]

Scoring == {"evaluate", "results", "aggregate"}

\* How far a command has come: what it has answered, scored and measured.
Progress ==
    /\ pc \in {"idle", "preflight", "directory"} => k = 1
    /\ pc = "generate" => OfContract(ckpt[k])
    /\ pc \in {"load", "generate"} \cup Scoring /\ job.cmd = "run" =>
         \A s \in 1 .. k - 1 : Answered(s) /\ Scored(s)
    /\ pc \in {"load", "generate"} /\ job.cmd = "score" => \A s \in 1 .. k - 1 : Answered(s)
    /\ pc \in Scoring => job.cmd # "generate" /\ Answered(k)
    /\ pc \in Scoring /\ job.cmd = "score" =>
         /\ \A s \in Positions : Answered(s)
         /\ \A s \in 1 .. k - 1 : Scored(s)
    /\ pc \in {"results", "aggregate"} => job.scored.rows = ckpt[k]
    /\ pc = "aggregate" => results[k] = job.scored
    /\ pc \in {"metadata", "provenance"} /\ job.cmd # "generate" =>
         \A s \in Positions : Answered(s) /\ Scored(s)
    /\ pc = "provenance" => job.cmd # "score"
    /\ pc = "provenance" /\ job.cmd # "generate" => metadata = ckpt
    /\ pc = "unstage" => job.cmd = "score"
    /\ pc = "freeze" => job.cmd # "generate"
    /\ pc \in {"unstage", "freeze"} => \A s \in Positions : Measured(s)
    /\ pc = "clean" /\ job.cmd = "score" => \A s \in Positions : Measured(s)

IsProvenance == provenance = [sha |-> provenance.sha, clean |-> provenance.clean]
                /\ provenance.clean \in BOOLEAN

\* The stage manifest binds files that are still as they were.
Binding == stage \notin {None, Torn} /\ stage.intact

\* A directory that is, or is about to be, frozen has no stage manifest that binds.
Stages ==
    /\ pc \in {"clean", "freeze"} => ~Binding
    /\ pc \in {"stage", "freeze"} \/ Binding => IsProvenance
    /\ job.cmd = "score" /\ pc \notin {"idle", "preflight", "directory"} => IsProvenance

Frozen ==
    manifest # None =>
        /\ pc \in {"idle", "preflight", "directory", "clean"}
        /\ pc = "clean" => job.cmd # "score"
        /\ ~Binding
        /\ Files = manifest.files

BaselineInv == Shape /\ Progress /\ Stages /\ Frozen /\ FrozenIsOneRun

----------------------------------------------------------------------------
LEMMA InitBaselineInv == Init => BaselineInv
<1> SUFFICES ASSUME Init PROVE BaselineInv
  OBVIOUS
<1>1. Shape
  BY BaselineAssumption DEF Init, Shape, Positions, NoJob
<1>2. Progress
  BY DEF Init, Progress, Scoring
<1>3. Stages /\ Frozen /\ FrozenIsOneRun
  BY DEF Init, Stages, Binding, Frozen, FrozenIsOneRun, NoJob
<1> QED BY <1>1, <1>2, <1>3 DEF BaselineInv

\* A command that ends leaves what it wrote, and nothing that binds anew.
LEMMA EndStep ==
  ASSUME BaselineInv, End, head' \in Commits, ckpt' \in [Positions -> Seq(Recs)],
         UNCHANGED <<metadata, provenance, scores, manifest>>,
         stage' \notin {None, Torn} => DOMAIN stage' = {"sha", "contract", "intact"},
         Binding' => Binding
  PROVE  BaselineInv'
<1>1. Shape'
  BY BaselineAssumption DEF BaselineInv, Shape, End, NoJob, Positions, scores
<1>2. Progress'
  BY DEF End, Progress, Scoring
<1>3. Stages'
  BY DEF BaselineInv, Stages, End, NoJob, IsProvenance
<1>4. Frozen' /\ FrozenIsOneRun'
  BY DEF BaselineInv, Frozen, FrozenIsOneRun, End, Files, scores
<1> QED BY <1>1, <1>2, <1>3, <1>4 DEF BaselineInv

\* The stage manifest, when a file it may bind was touched.
LEMMA Touched ==
  ASSUME BaselineInv, Touch
  PROVE  ~Binding' /\ (stage' \notin {None, Torn} => DOMAIN stage' = {"sha", "contract", "intact"})
BY DEF BaselineInv, Shape, Touch, Binding

LEMMA StartInv ==
  ASSUME BaselineInv, NEW cmd \in Commands, Start(cmd)
  PROVE  BaselineInv'
<1>1. Shape'
  BY DEF BaselineInv, Shape, Start, NoJob, scores, work, tree
<1>2. Progress'
  BY DEF BaselineInv, Start, Progress, Scoring
<1>3. Stages'
  BY DEF BaselineInv, Stages, Start, IsProvenance, Binding
<1>4. Frozen' /\ FrozenIsOneRun'
  BY DEF BaselineInv, Frozen, FrozenIsOneRun, Start, Files, scores, Binding
<1> QED BY <1>1, <1>2, <1>3, <1>4 DEF BaselineInv

LEMMA PreflightInv ==
  ASSUME BaselineInv, Preflight
  PROVE  BaselineInv'
<1>1. CASE dirty
  BY <1>1, EndStep DEF BaselineInv, Shape, Preflight, work, tree, Binding
<1>2. CASE ~dirty
  <2>1. Shape'
    BY <1>2 DEF BaselineInv, Shape, Preflight, scores, work, tree
  <2>2. Progress'
    BY <1>2 DEF BaselineInv, Preflight, Progress, Scoring
  <2>3. Stages'
    BY <1>2 DEF BaselineInv, Stages, Preflight, IsProvenance, Binding
  <2>4. Frozen' /\ FrozenIsOneRun'
    BY <1>2 DEF BaselineInv, Frozen, FrozenIsOneRun, Preflight, Files, scores, Binding
  <2> QED BY <2>1, <2>2, <2>3, <2>4 DEF BaselineInv
<1> QED BY <1>1, <1>2

\* Between the directory and the cleaning, nothing is frozen and a step that leaves the
\* manifest alone keeps it so.
LEMMA Unfrozen ==
  ASSUME BaselineInv, pc \notin {"idle", "preflight", "directory", "clean"},
         UNCHANGED manifest
  PROVE  Frozen' /\ FrozenIsOneRun'
BY DEF BaselineInv, Frozen, FrozenIsOneRun

LEMMA AdmitInv ==
  ASSUME BaselineInv, Admit
  PROVE  BaselineInv'
<1>1. CASE ~Admitted
  BY <1>1, EndStep DEF BaselineInv, Shape, Admit, work, tree, Binding
<1>2. CASE Admitted
  <2>1. manifest = None
    BY <1>2 DEF BaselineInv, Shape, Frozen, Admit, Admitted, StageIsValid, Binding, Commands
  <2>2. Shape'
    BY <1>2 DEF BaselineInv, Shape, Admit, Goto, scores, work, tree
  <2>3. Progress'
    BY <1>2 DEF BaselineInv, Admit, Goto, Progress, Scoring
  <2>4. Stages'
    BY <1>2 DEF BaselineInv, Stages, Admit, Admitted, StageIsValid, Goto, IsProvenance, Binding
  <2>5. Frozen' /\ FrozenIsOneRun'
    BY <2>1 DEF Frozen, FrozenIsOneRun, Admit
  <2> QED BY <2>2, <2>3, <2>4, <2>5 DEF BaselineInv
<1> QED BY <1>1, <1>2

LEMMA LoadCheckpointsInv ==
  ASSUME BaselineInv, LoadCheckpoints
  PROVE  BaselineInv'
<1>1. CASE ~Loads(k)
  BY <1>1, EndStep DEF BaselineInv, Shape, LoadCheckpoints, work, tree, Binding
<1>2. CASE Loads(k)
  <2>1. Shape'
    BY <1>2 DEF BaselineInv, Shape, LoadCheckpoints, Goto, scores, work, tree
  <2>2. Progress'
    BY <1>2 DEF BaselineInv, Shape, LoadCheckpoints, Loads, Goto, Progress, Scoring, OfContract,
                Answered, Scored, work, scores
  <2>3. Stages'
    BY <1>2 DEF BaselineInv, Stages, LoadCheckpoints, Goto, IsProvenance, Binding
  <2>4. Frozen' /\ FrozenIsOneRun'
    BY Unfrozen DEF LoadCheckpoints
  <2> QED BY <2>1, <2>2, <2>3, <2>4 DEF BaselineInv
<1> QED BY <1>1, <1>2

\* One more answer in the file of the suite the command is at.
LEMMA CheckpointStep ==
  ASSUME BaselineInv, pc = "generate", NEW a \in Answers, NEW ending, Checkpoint(a, ending)
  PROVE  /\ ckpt' \in [Positions -> Seq(Recs)]
         /\ \A s \in Positions \ {k} : ckpt'[s] = ckpt[s]
         /\ \A i \in DOMAIN ckpt'[k] : ckpt'[k][i].contract = Contract[job.code]
<1> DEFINE r == Record(a)
<1>1. k \in Positions /\ ckpt \in [Positions -> Seq(Recs)] /\ OfContract(ckpt[k])
  BY DEF BaselineInv, Shape, Progress
<1>2. r \in Recs /\ r.contract = Contract[job.code]
  BY DEF BaselineInv, Shape, Record, Recs
<1>3. ckpt' = [ckpt EXCEPT ![k] = Append(ckpt[k], r)]
  BY DEF Checkpoint
<1> HIDE DEF r
<1>4. Append(ckpt[k], r) \in Seq(Recs)
  BY <1>1, <1>2
<1>5. ckpt'[k] = Append(ckpt[k], r)
  BY <1>1, <1>3
<1>6. \A i \in DOMAIN Append(ckpt[k], r) : Append(ckpt[k], r)[i].contract = Contract[job.code]
  BY <1>1, <1>2 DEF OfContract
<1> QED BY <1>1, <1>3, <1>4, <1>5, <1>6

LEMMA GenerateInv ==
  ASSUME BaselineInv, Generate
  PROVE  BaselineInv'
<1>1. CASE job.cmd = "score"
  BY <1>1, EndStep DEF BaselineInv, Shape, Generate, work, tree, Binding
<1>2. CASE job.cmd # "score"
  <2>1. PICK a \in Answers : Checkpoint(a, "line")
    BY <1>2 DEF Generate
  <2>2. /\ pc = "generate" /\ Touch /\ UNCHANGED <<head, pc, k, job>>
        /\ UNCHANGED <<metadata, provenance, results, aggregate, manifest>>
    BY <1>2 DEF Generate, session, tree, scores
  <2>3. /\ ckpt' \in [Positions -> Seq(Recs)]
        /\ \A s \in Positions \ {k} : ckpt'[s] = ckpt[s]
        /\ \A i \in DOMAIN ckpt'[k] : ckpt'[k][i].contract = Contract[job.code]
    BY <2>1, <2>2, CheckpointStep
  <2>4. Shape'
    BY <2>2, <2>3, Touched DEF BaselineInv, Shape
  <2>5. Progress'
    <3>1. \A s \in 1 .. k - 1 : s \in Positions \ {k}
      BY BaselineAssumption DEF BaselineInv, Shape, Positions
    <3> QED BY <1>2, <2>2, <2>3, <3>1 DEF BaselineInv, Progress, Scoring, OfContract, Answered, Scored
  <2>6. Stages'
    BY <1>2, <2>2, Touched DEF BaselineInv, Stages, IsProvenance
  <2>7. Frozen' /\ FrozenIsOneRun'
    BY <2>2, Unfrozen
  <2> QED BY <2>4, <2>5, <2>6, <2>7 DEF BaselineInv
<1> QED BY <1>1, <1>2

\* A position is below the next one when it is this one or below it.
LEMMA Before ==
  ASSUME BaselineInv
  PROVE  /\ k < Len(Suites) => k + 1 \in Positions /\ 1 .. (k + 1) - 1 = (1 .. k - 1) \cup {k}
         /\ ~(k < Len(Suites)) => Positions = (1 .. k - 1) \cup {k}
         /\ 1 \in Positions /\ 1 .. 1 - 1 = {}
         /\ 1 .. k - 1 \subseteq Positions \ {k}
<1>1. Len(Suites) \in Nat \ {0} /\ k \in 1 .. Len(Suites)
  BY BaselineAssumption DEF BaselineInv, Shape, Positions
<1>2. k < Len(Suites) => k + 1 \in 1 .. Len(Suites)
  BY <1>1
<1>3. 1 .. (k + 1) - 1 = (1 .. k - 1) \cup {k}
  BY <1>1
<1>4. ~(k < Len(Suites)) => 1 .. Len(Suites) = (1 .. k - 1) \cup {k}
  BY <1>1
<1>5. 1 \in 1 .. Len(Suites) /\ 1 .. 1 - 1 = {} /\ 1 .. k - 1 \subseteq (1 .. Len(Suites)) \ {k}
  BY <1>1
<1> QED BY <1>2, <1>3, <1>4, <1>5 DEF Positions

LEMMA SuiteAnsweredInv ==
  ASSUME BaselineInv, SuiteAnswered
  PROVE  BaselineInv'
<1>1. /\ pc = "generate" /\ Answered(k)
      /\ UNCHANGED <<head, ckpt, metadata, provenance, stage, results, aggregate, manifest, job>>
  BY DEF BaselineInv, Shape, Progress, SuiteAnswered, Complete, Answered, Goto, NextSuite,
         tree, work, scores, Commands
<1>2. Stages' /\ Frozen' /\ FrozenIsOneRun'
  <2>1. pc' \in {"evaluate", "load", "metadata"}
    BY DEF BaselineInv, Shape, SuiteAnswered, Goto, NextSuite, Commands
  <2> QED BY <1>1, <2>1, Unfrozen DEF BaselineInv, Stages, IsProvenance, Binding
<1>3. CASE job.cmd = "run"
  <2>1. pc' = "evaluate" /\ k' = k
    BY <1>3 DEF SuiteAnswered, Goto
  <2>2. Shape'
    BY <1>1, <2>1 DEF BaselineInv, Shape
  <2>3. Progress'
    BY <1>1, <1>3, <2>1 DEF BaselineInv, Progress, Scoring, Answered, OfContract, Scored
  <2> QED BY <1>2, <2>2, <2>3 DEF BaselineInv
<1>4. CASE job.cmd = "generate"
  <2>1. /\ pc' \in {"load", "metadata"} /\ k' \in Positions
    BY <1>1, <1>4, Before DEF SuiteAnswered, NextSuite
  <2>2. Shape'
    BY <1>1, <2>1 DEF BaselineInv, Shape
  <2>3. Progress'
    BY <1>1, <1>4, <2>1 DEF Progress, Scoring
  <2> QED BY <1>2, <2>2, <2>3 DEF BaselineInv
<1>5. CASE job.cmd = "score"
  <2>1. \/ k < Len(Suites) /\ pc' = "load" /\ k' = k + 1
        \/ ~(k < Len(Suites)) /\ pc' = "evaluate" /\ k' = 1
    BY <1>5 DEF SuiteAnswered, NextSuite
  <2>2. Shape'
    BY <1>1, <2>1, Before DEF BaselineInv, Shape
  <2>3. \A s \in 1 .. k - 1 : Answered(s)
    BY <1>1, <1>5 DEF BaselineInv, Progress
  <2>4. Progress'
    BY <1>1, <1>5, <2>1, <2>3, Before DEF Progress, Scoring, Answered, OfContract
  <2> QED BY <1>2, <2>2, <2>4 DEF BaselineInv
<1> QED BY <1>3, <1>4, <1>5 DEF BaselineInv, Shape, Commands, SuiteAnswered

LEMMA EvaluateInv ==
  ASSUME BaselineInv, Evaluate
  PROVE  BaselineInv'
<1>1. PICK broken \in BOOLEAN : job' = [job EXCEPT !.scored = [rows |-> ckpt[k], broken |-> broken]]
  BY Zenon DEF Evaluate
<1>2. /\ pc = "evaluate" /\ pc' = "results"
      /\ UNCHANGED <<head, ckpt, metadata, provenance, stage, results, aggregate, manifest, k>>
  BY DEF Evaluate, tree, work, scores
<1>3. /\ DOMAIN job' = {"cmd", "code", "sha", "prov", "scored"}
      /\ job'.cmd = job.cmd /\ job'.code = job.code /\ job'.scored.rows = ckpt[k]
  BY <1>1 DEF BaselineInv, Shape
<1>4. Shape'
  BY <1>2, <1>3 DEF BaselineInv, Shape
<1>5. Progress'
  BY <1>2, <1>3 DEF BaselineInv, Progress, Scoring, Answered, OfContract, Scored
<1>6. Stages' /\ Frozen' /\ FrozenIsOneRun'
  BY <1>2, <1>3, Unfrozen DEF BaselineInv, Stages, IsProvenance, Binding
<1> QED BY <1>4, <1>5, <1>6 DEF BaselineInv

LEMMA WriteResultsInv ==
  ASSUME BaselineInv, WriteResults
  PROVE  BaselineInv'
<1>1. /\ pc = "results" /\ pc' = "aggregate" /\ results' = [results EXCEPT ![k] = job.scored]
      /\ UNCHANGED <<head, ckpt, metadata, provenance, stage, aggregate, manifest, k, job>>
  BY DEF WriteResults, Goto, tree, work
<1>2. /\ DOMAIN results' = Positions /\ results'[k] = job.scored
      /\ \A s \in 1 .. k - 1 : results'[s] = results[s]
  BY <1>1, Before DEF BaselineInv, Shape
<1>3. Shape'
  BY <1>1, <1>2 DEF BaselineInv, Shape
<1>4. Progress'
  BY <1>1, <1>2 DEF BaselineInv, Progress, Scoring, Answered, OfContract, Scored
<1>5. Stages' /\ Frozen' /\ FrozenIsOneRun'
  BY <1>1, Unfrozen DEF BaselineInv, Stages, IsProvenance, Binding
<1> QED BY <1>3, <1>4, <1>5 DEF BaselineInv

LEMMA WriteAggregateInv ==
  ASSUME BaselineInv, WriteAggregate
  PROVE  BaselineInv'
<1>1. /\ pc = "aggregate" /\ aggregate' = [aggregate EXCEPT ![k] = job.scored]
      /\ UNCHANGED <<head, ckpt, metadata, provenance, stage, results, manifest, job>>
  BY DEF WriteAggregate, NextSuite, tree, work
<1>2. \/ k < Len(Suites) /\ pc' = (IF job.cmd = "run" THEN "load" ELSE "evaluate") /\ k' = k + 1
      \/ ~(k < Len(Suites)) /\ pc' = "metadata" /\ k' = 1
  BY DEF WriteAggregate, NextSuite
<1>3. /\ DOMAIN aggregate' = Positions /\ aggregate'[k] = job.scored
      /\ \A s \in 1 .. k - 1 : aggregate'[s] = aggregate[s]
  BY <1>1, Before DEF BaselineInv, Shape
<1>4. /\ job.cmd # "generate" /\ job.cmd \in Commands
      /\ \A s \in (1 .. k - 1) \cup {k} : Answered(s) /\ Scored(s)'
      /\ job.cmd = "score" => \A s \in Positions : Answered(s)
  <2>1. \A s \in 1 .. k - 1 : Answered(s) /\ Scored(s)
    BY <1>1, Before DEF BaselineInv, Shape, Progress, Scoring, Commands
  <2>2. /\ Answered(k) /\ results[k] = job.scored /\ job.scored.rows = ckpt[k]
        /\ job.cmd # "generate" /\ job.cmd \in Commands
        /\ job.cmd = "score" => \A s \in Positions : Answered(s)
    BY <1>1 DEF BaselineInv, Shape, Progress, Scoring
  <2> QED BY <1>1, <1>3, <2>1, <2>2 DEF Scored
<1>5. Shape'
  BY <1>1, <1>2, <1>3, Before DEF BaselineInv, Shape
<1>6. Progress'
  <2>1. \A s \in Positions : Answered(s)' <=> Answered(s)
    BY <1>1 DEF Answered, OfContract
  <2>2. CASE k < Len(Suites)
    <3>1. 1 .. k' - 1 = (1 .. k - 1) \cup {k} /\ k' \in Positions /\ k \in Positions
      BY <1>2, <2>2, Before DEF BaselineInv, Shape
    <3>2. pc' = IF job.cmd = "run" THEN "load" ELSE "evaluate"
      BY <1>2, <2>2
    <3> QED BY <1>1, <1>4, <2>1, <3>1, <3>2, Before DEF Progress, Scoring, Commands
  <2>3. CASE ~(k < Len(Suites))
    <3>1. pc' = "metadata" /\ k' = 1 /\ \A s \in Positions : Answered(s) /\ Scored(s)'
      BY <1>2, <1>4, <2>3, Before
    <3> QED BY <1>1, <1>4, <2>1, <3>1 DEF Progress, Scoring
  <2> QED BY <2>2, <2>3
<1>7. Stages' /\ Frozen' /\ FrozenIsOneRun'
  <2>1. pc' \in {"load", "evaluate", "metadata"}
    BY <1>2
  <2> QED BY <1>1, <2>1, Unfrozen DEF BaselineInv, Stages, IsProvenance, Binding
<1> QED BY <1>5, <1>6, <1>7 DEF BaselineInv

----------------------------------------------------------------------------
(* Freezing *)

LEMMA WriteMetadataInv ==
  ASSUME BaselineInv, WriteMetadata
  PROVE  BaselineInv'
<1>1. /\ pc = "metadata"
      /\ UNCHANGED <<head, ckpt, provenance, results, aggregate, manifest>>
  BY DEF WriteMetadata, tree, work, scores
<1>2. CASE job.cmd = "score" /\ metadata # ckpt
  BY <1>1, <1>2, EndStep DEF BaselineInv, Shape, WriteMetadata, work, scores, Binding
<1>3. CASE job.cmd = "score" /\ metadata = ckpt
  <2>1. pc' = "unstage" /\ UNCHANGED <<k, job, metadata, stage>>
    BY <1>3 DEF WriteMetadata, Goto
  <2>2. Shape'
    BY <1>1, <2>1 DEF BaselineInv, Shape
  <2>3. Progress'
    BY <1>1, <1>3, <2>1 DEF BaselineInv, Progress, Scoring, Answered, OfContract, Scored, Measured
  <2>4. Stages' /\ Frozen' /\ FrozenIsOneRun'
    BY <1>1, <1>3, <2>1, Unfrozen DEF BaselineInv, Stages, IsProvenance, Binding
  <2> QED BY <2>2, <2>3, <2>4 DEF BaselineInv
<1>4. CASE job.cmd # "score"
  <2>1. pc' = "provenance" /\ UNCHANGED <<k, job>> /\ metadata' = ckpt /\ Touch
    BY <1>4 DEF WriteMetadata, Goto
  <2>2. Shape'
    BY <1>1, <2>1, Touched DEF BaselineInv, Shape
  <2>3. Progress'
    BY <1>1, <1>4, <2>1 DEF BaselineInv, Progress, Scoring, Answered, OfContract, Scored
  <2>4. Stages' /\ Frozen' /\ FrozenIsOneRun'
    BY <1>1, <1>4, <2>1, Touched, Unfrozen DEF BaselineInv, Stages, IsProvenance
  <2> QED BY <2>2, <2>3, <2>4 DEF BaselineInv
<1> QED BY <1>2, <1>3, <1>4

LEMMA WriteProvenanceInv ==
  ASSUME BaselineInv, WriteProvenance
  PROVE  BaselineInv'
<1>1. /\ pc = "provenance" /\ job.cmd # "score"
      /\ UNCHANGED <<head, ckpt, metadata, results, aggregate, manifest>>
  BY DEF BaselineInv, Progress, WriteProvenance, tree, work, scores
<1>2. CASE job.cmd = "generate" /\ head # job.sha
  BY <1>1, <1>2, EndStep DEF BaselineInv, Shape, WriteProvenance, work, scores, Binding
<1>3. CASE ~(job.cmd = "generate" /\ head # job.sha)
  <2>1. /\ pc' = (IF job.cmd = "generate" THEN "stage" ELSE "freeze")
        /\ UNCHANGED <<k, job>> /\ Touch
        /\ provenance' = [sha |-> head, clean |-> ~dirty]
    BY <1>3 DEF WriteProvenance, Goto
  <2>2. Shape'
    BY <1>1, <2>1, Touched DEF BaselineInv, Shape
  <2>3. Progress'
    BY <1>1, <2>1 DEF BaselineInv, Progress, Scoring, Answered, OfContract, Scored, Measured
  <2>4. IsProvenance'
    <3>1. provenance'.sha = head /\ provenance'.clean = ~dirty
      BY <2>1
    <3> QED BY <2>1, <3>1, Zenon DEF IsProvenance
  <2>5. Stages' /\ Frozen' /\ FrozenIsOneRun'
    BY <1>1, <2>1, <2>4, Touched, Unfrozen DEF BaselineInv, Stages
  <2> QED BY <2>2, <2>3, <2>5 DEF BaselineInv
<1> QED BY <1>2, <1>3

\* The one step after which a stage manifest binds, and what it binds is in place.
LEMMA WriteStageInv ==
  ASSUME BaselineInv, WriteStage
  PROVE  BaselineInv'
<1>1. /\ pc = "stage" /\ End
      /\ stage' = [sha |-> job.sha, contract |-> Contract[job.code], intact |-> TRUE]
      /\ UNCHANGED <<head, ckpt, metadata, provenance, results, aggregate, manifest>>
  BY DEF WriteStage, tree, work, scores
<1>2. Shape'
  BY <1>1, BaselineAssumption DEF BaselineInv, Shape, End, NoJob, Positions
<1>3. Progress'
  BY <1>1 DEF End, Progress, Scoring
<1>4. Stages' /\ Frozen' /\ FrozenIsOneRun'
  BY <1>1, Unfrozen DEF BaselineInv, Stages, IsProvenance, End, NoJob
<1> QED BY <1>2, <1>3, <1>4 DEF BaselineInv

LEMMA RemoveStageInv ==
  ASSUME BaselineInv, RemoveStage
  PROVE  BaselineInv'
<1>1. /\ pc = "unstage" /\ pc' = "clean" /\ stage' = None /\ UNCHANGED <<k, job>>
      /\ UNCHANGED <<head, ckpt, metadata, provenance, results, aggregate, manifest>>
  BY DEF RemoveStage, Goto, tree, work, scores
<1>2. Shape'
  BY <1>1 DEF BaselineInv, Shape
<1>3. Progress'
  BY <1>1 DEF BaselineInv, Progress, Scoring, OfContract, Measured
<1>4. Stages' /\ Frozen' /\ FrozenIsOneRun'
  BY <1>1, Unfrozen DEF BaselineInv, Stages, IsProvenance, Binding, Progress
<1> QED BY <1>2, <1>3, <1>4 DEF BaselineInv

LEMMA RemoveWorkInv ==
  ASSUME BaselineInv, RemoveWork
  PROVE  BaselineInv'
<1>1. /\ pc = "clean"
      /\ UNCHANGED <<head, metadata, provenance, results, aggregate, manifest>>
  BY DEF RemoveWork, tree, scores
<1>2. ASSUME NEW s \in Positions, ckpt' = [ckpt EXCEPT ![s] = <<>>], Touch, UNCHANGED session
      PROVE  BaselineInv'
  <2>1. ckpt' \in [Positions -> Seq(Recs)]
    BY <1>2 DEF BaselineInv, Shape
  <2>2. Shape'
    BY <1>1, <1>2, <2>1, Touched DEF BaselineInv, Shape, session
  <2>3. Progress'
    BY <1>1, <1>2 DEF BaselineInv, Progress, Scoring, OfContract, Measured, session
  <2>4. Stages' /\ Frozen' /\ FrozenIsOneRun'
    BY <1>1, <1>2, Touched DEF BaselineInv, Stages, Frozen, FrozenIsOneRun, IsProvenance, Files,
                              session
  <2> QED BY <2>2, <2>3, <2>4 DEF BaselineInv
<1>3. ASSUME UNCHANGED <<work, stage>>, job.cmd = "score", Goto("freeze")
      PROVE  BaselineInv'
  <2>1. Shape'
    BY <1>1, <1>3 DEF BaselineInv, Shape, Goto, work
  <2>2. Progress'
    BY <1>1, <1>3 DEF BaselineInv, Progress, Scoring, OfContract, Measured, Goto
  <2>3. manifest = None
    BY <1>1, <1>3 DEF BaselineInv, Frozen
  <2>4. Stages' /\ Frozen' /\ FrozenIsOneRun'
    BY <1>1, <1>3, <2>3 DEF BaselineInv, Stages, Frozen, FrozenIsOneRun, IsProvenance, Binding, Goto
  <2> QED BY <2>1, <2>2, <2>4 DEF BaselineInv
<1>4. ASSUME UNCHANGED <<work, stage>>, End
      PROVE  BaselineInv'
  BY <1>1, <1>4, EndStep DEF BaselineInv, Shape, scores, work, Binding
<1> QED BY <1>2, <1>3, <1>4 DEF RemoveWork

\* What is frozen is what was measured, and from here on the files are left alone.
LEMMA FreezeInv ==
  ASSUME BaselineInv, Freeze
  PROVE  BaselineInv'
<1>1. /\ pc = "freeze"
      /\ UNCHANGED <<head, ckpt, metadata, provenance, stage, results, aggregate>>
  BY DEF Freeze, tree, work, scores
<1>2. CASE ~Freezable
  BY <1>1, <1>2, EndStep DEF BaselineInv, Shape, Freeze, work, scores, Binding
<1>3. CASE Freezable
  <2> DEFINE frozen == [sha |-> provenance.sha, contract |-> Contract[job.code],
                        ran |-> job.code, files |-> Files]
  <2>1. /\ manifest' = frozen
        /\ IF job.cmd = "score" THEN End ELSE Goto("clean")
    BY <1>3 DEF Freeze
  <2>2. /\ frozen.sha = provenance.sha /\ frozen.contract = Contract[job.code]
        /\ frozen.files = Files
        /\ Files.provenance = provenance /\ Files.results = results
        /\ Files.aggregate = aggregate /\ Files.metadata = metadata
    BY DEF Files
  <2>3. Files' = Files
    BY <1>1 DEF Files
  <2> HIDE DEF frozen
  <2>4. ~Binding /\ IsProvenance /\ \A s \in Positions : Measured(s)
    BY <1>1 DEF BaselineInv, Stages, Progress
  <2>5. ASSUME NEW s \in Positions
        PROVE  /\ aggregate[s] = results[s] /\ Len(results[s].rows) = Items[s]
               /\ \A i \in DOMAIN results[s].rows :
                    results[s].rows[i].contract = Contract[job.code]
               /\ metadata[s] = results[s].rows
               /\ s \in Coding => ~results[s].broken
    BY <1>3, <2>4 DEF Measured, OfContract, Freezable
  <2>6. provenance = [sha |-> provenance.sha, clean |-> TRUE]
    BY <1>3, <2>4, Zenon DEF Freezable, IsProvenance
  <2>7. FrozenIsOneRun'
    BY <2>1, <2>2, <2>5, <2>6 DEF FrozenIsOneRun
  <2>8. Frozen'
    BY <1>1, <2>1, <2>2, <2>3, <2>4 DEF Frozen, End, Goto, Binding
  <2>9. Shape' /\ Progress'
    <3>1. CASE job.cmd = "score"
      BY <1>1, <2>1, <3>1, BaselineAssumption
      DEF BaselineInv, Shape, Progress, Scoring, End, NoJob, Positions
    <3>2. CASE job.cmd # "score"
      BY <1>1, <2>1, <3>2 DEF BaselineInv, Shape, Progress, Scoring, Goto
    <3> QED BY <3>1, <3>2
  <2>10. Stages'
    BY <1>1, <2>1, <2>4 DEF Stages, IsProvenance, Binding, End, Goto, NoJob
  <2> QED BY <2>7, <2>8, <2>9, <2>10 DEF BaselineInv
<1> QED BY <1>2, <1>3

----------------------------------------------------------------------------
(* The environment *)

LEMMA CrashInv ==
  ASSUME BaselineInv, Crash
  PROVE  BaselineInv'
<1>1. End /\ UNCHANGED <<head, metadata, provenance, scores, manifest>>
  BY DEF Crash, tree
<1>2. head' \in Commits /\ ckpt \in [Positions -> Seq(Recs)]
  BY <1>1 DEF BaselineInv, Shape
<1>3. ASSUME UNCHANGED <<work, stage>>
      PROVE  BaselineInv'
  BY <1>1, <1>2, <1>3, EndStep DEF BaselineInv, Shape, work, Binding
<1>4. ASSUME pc = "generate", NEW a \in Answers, Checkpoint(a, "bare"), Touch
      PROVE  BaselineInv'
  <2>1. ckpt' \in [Positions -> Seq(Recs)]
    BY <1>4, CheckpointStep
  <2> QED BY <1>1, <1>2, <1>4, <2>1, Touched, EndStep
<1>5. ASSUME UNCHANGED ckpt, Touch
      PROVE  BaselineInv'
  BY <1>1, <1>2, <1>5, Touched, EndStep
<1>6. ASSUME UNCHANGED work, stage' = Torn
      PROVE  BaselineInv'
  BY <1>1, <1>2, <1>6, EndStep DEF work, Binding
<1> QED BY <1>3, <1>4, <1>5, <1>6 DEF Crash

LEMMA TreeInv ==
  ASSUME BaselineInv, ChangeTree \/ TidyTree
  PROVE  BaselineInv'
<1>1. /\ head' \in Commits
      /\ UNCHANGED <<ckpt, metadata, provenance, stage, results, aggregate, manifest, pc, k, job>>
  BY DEF BaselineInv, Shape, ChangeTree, TidyTree, work, scores, session
<1>2. Shape'
  BY <1>1 DEF BaselineInv, Shape
<1>3. Progress'
  BY <1>1 DEF BaselineInv, Progress, Scoring, Answered, OfContract, Scored, Measured
<1>4. Stages' /\ Frozen' /\ FrozenIsOneRun'
  BY <1>1 DEF BaselineInv, Stages, Frozen, FrozenIsOneRun, IsProvenance, Binding, Files
<1> QED BY <1>2, <1>3, <1>4 DEF BaselineInv

LEMMA StutterInv ==
  ASSUME BaselineInv, UNCHANGED vars
  PROVE  BaselineInv'
<1>1. UNCHANGED <<head, ckpt, metadata, provenance, stage, results, aggregate, manifest, pc, k, job>>
  BY DEF vars, tree, work, scores, session
<1>2. Shape'
  BY <1>1 DEF BaselineInv, Shape
<1>3. Progress'
  BY <1>1 DEF BaselineInv, Progress, Scoring, Answered, OfContract, Scored, Measured
<1>4. Stages' /\ Frozen' /\ FrozenIsOneRun'
  BY <1>1 DEF BaselineInv, Stages, Frozen, FrozenIsOneRun, IsProvenance, Binding, Files
<1> QED BY <1>2, <1>3, <1>4 DEF BaselineInv

LEMMA NextInv ==
  ASSUME BaselineInv, [Next]_vars
  PROVE  BaselineInv'
<1>1. CASE Step
  BY <1>1, PreflightInv, AdmitInv, LoadCheckpointsInv, GenerateInv, SuiteAnsweredInv, EvaluateInv,
     WriteResultsInv, WriteAggregateInv, WriteMetadataInv, WriteProvenanceInv, WriteStageInv,
     RemoveStageInv, RemoveWorkInv, FreezeInv
  DEF Step
<1> QED BY <1>1, StartInv, CrashInv, TreeInv, StutterInv DEF Next

----------------------------------------------------------------------------
(* A frozen directory *)

\* With a manifest in place, no step of any command reaches the manifest or a file it has
\* the digest of: only the commands' beginnings and their cleaning are left to them.
LEMMA FrozenStep ==
  ASSUME BaselineInv, [Next]_vars, manifest # None
  PROVE  manifest' = manifest /\ Files' = manifest.files
<1>1. pc \in {"idle", "preflight", "directory", "clean"} /\ Files = manifest.files
  BY DEF BaselineInv, Frozen
<1>2. UNCHANGED <<metadata, provenance, scores, manifest>>
  <2>1. CASE Step
    <3>1. Preflight \/ Admit \/ RemoveWork
      BY <1>1, <2>1 DEF Step, LoadCheckpoints, Generate, SuiteAnswered, Evaluate, WriteResults,
                        WriteAggregate, WriteMetadata, WriteProvenance, WriteStage, RemoveStage,
                        Freeze
    <3> QED BY <3>1 DEF Preflight, Admit, RemoveWork
  <2>2. CASE ~Step
    BY <2>2 DEF Next, Start, Crash, ChangeTree, TidyTree, vars
  <2> QED BY <2>1, <2>2
<1> QED BY <1>1, <1>2 DEF Files, scores

----------------------------------------------------------------------------
(* The theorems *)

LEMMA BaselineInvariant == Spec => []BaselineInv
<1>1. Init => BaselineInv
  BY InitBaselineInv
<1>2. BaselineInv /\ [Next]_vars => BaselineInv'
  BY NextInv
<1> QED BY <1>1, <1>2, PTL DEF Spec

\* What a baseline manifest binds was produced by one run from end to end, whatever was
\* killed, resumed or carried to another machine before (freeze_python_baseline and the
\* generation stage): both files of a suite are one scoring, of an answer to every item
\* under the contract named, and the measurements are of those answers.
THEOREM FrozenBaselinesAreOneRun == Spec => []FrozenIsOneRun
<1>1. BaselineInv => FrozenIsOneRun
  BY DEF BaselineInv
<1> QED BY <1>1, BaselineInvariant, PTL

\* A frozen baseline is never written again: whatever an interrupted command left behind,
\* every later one is refused, only validates, or only removes the work directory
\* (run_python_baseline, run_python_baseline_generation and its scoring stage).
THEOREM FrozenBaselinesAreFinal == Spec => FrozenIsFinal
<1>1. BaselineInv /\ [Next]_vars =>
        [manifest # None => manifest' = manifest /\ Files' = manifest.files]_vars
  BY FrozenStep
<1> QED BY <1>1, BaselineInvariant, PTL DEF Spec, FrozenIsFinal
====
