---- MODULE SuiteEvaluation ----
(* The suites of the Python evaluation (humaneval.py, _mbpp_*.py,                  *)
(* _repository_holdout_*.py) and the decision made of their scores (promotion.py,  *)
(* with the general suite of regression.py).                                       *)
(*                                                                                 *)
(* A candidate is a program of the model's.  A runner written for the suite        *)
(* executes it in a container, step after step, and says on its stderr how far it  *)
(* came: a line after a step that is announced, an exit code when a step raises.   *)
(* The evaluator sees the exit code and the part of stderr that was captured, and  *)
(* gives a verdict.  The candidate writes on the same stderr, may stop the process *)
(* or never end it; the variable "fate" keeps what really happened, which the      *)
(* evaluator never sees.                                                           *)
EXTENDS Integers, SequencesExt

CONSTANTS
    Problems,       \* the problems of a suite, a set of numbers for each
    Tests,          \* the tests of a problem of MBPP and of the holdout
    Rows,           \* what a dataset, or a list of completions, may hold: sequences of numbers
    Drifts,         \* what may differ from the frozen protocol at once: sets of terms
    Cases,          \* the cases of the general suite
    Kind,           \* "exact_text", "json" or "tool_call" for each
    BasePasses,     \* how many problems of each suite the unchanged base passed
    BaseRight,      \* the cases the unchanged base answered
    Gain,           \* the gain a promotion asks for, of 100
    MinGeneral,     \* the cases it must answer
    MaxRegressions, \* the cases it may lose
    None

Suites == <<"humaneval", "mbpp", "holdout">>

VARIABLES
    queue,      \* problems of the suite at hand that are still to be scored
    done,       \* suites that are scored, in order
    at,         \* the step the runner is at, 0 when none runs
    intact,     \* the program of the reply came out of it whole
    shown,      \* the steps whose line was captured
    blind,      \* "no", or what of the next lines is lost: one, or the rest
    last,       \* the verdict given last
    fate,       \* and what happened to the candidate it is of
    tally,      \* verdicts of each suite by category
    earned,     \* candidates of each suite that really passed
    broken,     \* candidates of each suite whose run the harness or the benchmark spoilt
    state,      \* "open", "refused", "aborted", or what was decided
    right       \* the cases of the general suite answered rightly

vars == <<queue, done, at, intact, shown, blind, last, fate, tally, earned, broken, state, right>>

----------------------------------------------------------------------------
(* The runners. *)

Steps(s) ==
    CASE s = "humaneval" -> <<"parse", "compile", "benchmark", "check">>
      [] s = "mbpp" -> <<"parse", "compile", "benchmark", "candidate", "setup">>
                          \o [i \in 1 .. Tests |-> "test"]
      [] s = "holdout" -> <<"parse", "compile", "benchmark", "fixture", "candidate", "collect">>
                          \o [i \in 1 .. Tests |-> "test"]

\* The code a runner exits with when the step raises.
Exit(step) ==
    CASE step = "parse" -> 10
      [] step = "compile" -> 11
      [] step = "candidate" -> 13
      [] step \in {"check", "setup", "test"} -> 12
      [] step \in {"benchmark", "fixture", "collect"} -> 20

Announced(step) == step \in {"parse", "compile", "test"}

\* Steps in which code of the candidate runs.
Foreign(step) == step \in {"check", "candidate", "setup", "collect", "test"}

Suite == Suites[Len(done) + 1]
Step == Steps(Suite)[at]
LastStep == Len(Steps(Suite))

\* A code that no runner uses: an interpreter that died, an engine that did not start one.
OtherCode == 1

----------------------------------------------------------------------------
(* The verdict. *)

Captured(status, code, lines) == [status |-> status, code |-> code, lines |-> lines]

ParseStatus(r) ==
    CASE r.code = 10 -> "failed"
      [] r.code = 11 -> "passed"
      [] OTHER -> IF 1 \in r.lines THEN "passed" ELSE "not_run"

CompileStatus(r) ==
    CASE r.code = 10 -> "not_run"
      [] r.code = 11 -> "failed"
      [] OTHER -> IF 2 \in r.lines THEN "passed" ELSE "not_run"

TestsTotal(s) == IF s = "humaneval" THEN 1 ELSE Tests

TestsShown(s, r) == Cardinality({i \in r.lines : i <= Len(Steps(s)) /\ Steps(s)[i] = "test"})

ReportsPass(s, r) == r.status = "succeeded" /\ Len(Steps(s)) + 1 \in r.lines

AllShown(s, r) ==
    /\ ParseStatus(r) = "passed" /\ CompileStatus(r) = "passed"
    /\ TestsShown(s, r) = Tests

NothingRan(r) == ParseStatus(r) = "not_run" /\ CompileStatus(r) = "not_run"

\* Mutant: the exit of a broken benchmark is not told from the others.
CategoryWithoutBenchmark(s, r) ==
    CASE ReportsPass(s, r) ->
            IF s = "humaneval" \/ AllShown(s, r) THEN "none" ELSE "harness"
      [] ~ReportsPass(s, r) /\ s # "humaneval" /\ r.status = "succeeded" -> "harness"
      [] r.status = "timed_out" -> "timeout"
      [] r.code = 10 -> "parse"
      [] r.code = 11 -> "compile"
      [] r.code = 12 -> "test"
      [] OTHER -> IF NothingRan(r) THEN "harness" ELSE "runtime"

Category(s, r) ==
    CASE ReportsPass(s, r) ->
            IF s = "humaneval" \/ AllShown(s, r) THEN "none" ELSE "harness"
      [] ~ReportsPass(s, r) /\ s # "humaneval" /\ r.status = "succeeded" -> "harness"
      [] r.status = "timed_out" -> "timeout"
      [] r.code = 10 -> "parse"
      [] r.code = 11 -> "compile"
      [] r.code = 12 -> "test"
      [] r.code = 20 -> "harness"
      [] OTHER -> IF NothingRan(r) /\ ~(s # "humaneval" /\ r.code = 13)
                  THEN "harness" ELSE "runtime"

Verdict(s, r) ==
    LET category == Category(s, r)
    IN [category |-> category,
        tests |-> IF s # "humaneval" THEN TestsShown(s, r)
                  ELSE IF category = "none" THEN 1 ELSE 0]

Unrun(category) == [category |-> category, tests |-> 0]

\* EvaluationResult refuses a verdict that contradicts itself, and a message with space
\* around it.
Consistent(s, v, r, tidy) ==
    /\ v.category # "none" => tidy
    /\ v.category = "none" => v.tests = TestsTotal(s)
    /\ v.category = "parse" => ParseStatus(r) = "failed"
    /\ v.category = "compile" => CompileStatus(r) = "failed"
    /\ v.category = "test" => v.tests # TestsTotal(s)

----------------------------------------------------------------------------
(* What an evaluator is built from. *)

\* Terms of the frozen protocol, each checked where a suite reads it: the file of the
\* runner by its digest, the benchmark and the configuration field by field.
RunnerIsFrozen(drift) == "runner" \notin drift
HoldoutIsFrozen(drift) == drift \cap {"runner", "assets"} = {}

SettingsAgree(drift) == drift \cap {"settings", "seed", "decoding"} = {}

HumanEvalContract(drift) ==
    drift \cap {"benchmark_language", "benchmark_id", "dataset", "language", "suites", "network",
                "timeout", "base", "adapter", "family"} = {}

MbppContract(drift) ==
    drift \cap {"dataset", "language", "suites", "network", "timeout", "base", "adapter"} = {}

\* The loader of MBPP looks at the benchmark again, and at more of it.
MbppBenchmark(drift) == drift \cap {"benchmark_language", "benchmark_id", "dataset"} = {}

HoldoutContract(drift) ==
    drift \cap {"benchmark_id", "dataset", "language", "suites", "network", "timeout", "base",
                "adapter", "protection"} = {}

Builds(s, drift) ==
    /\ SettingsAgree(drift)
    /\ CASE s = "humaneval" -> RunnerIsFrozen(drift) /\ HumanEvalContract(drift)
         [] s = "mbpp" -> RunnerIsFrozen(drift) /\ MbppContract(drift) /\ MbppBenchmark(drift)
         [] s = "holdout" -> HoldoutIsFrozen(drift) /\ HoldoutContract(drift)

Distinct(rows) == \A i, j \in DOMAIN rows : i # j => rows[i] # rows[j]
Contents(rows) == {rows[i] : i \in DOMAIN rows}

\* The rows of a dataset are sorted, and must be exactly the problems of the suite; the
\* tasks of the holdout cover every category once.
HumanEvalLoads(rows) ==
    Len(rows) = Cardinality(Problems["humaneval"]) /\ Contents(rows) = Problems["humaneval"]
MbppLoads(rows) ==
    Len(rows) = Cardinality(Problems["mbpp"]) /\ Contents(rows) = Problems["mbpp"]
HoldoutLoads(rows) == Distinct(rows) /\ Contents(rows) = Problems["holdout"]

Loads(s, rows) ==
    CASE s = "humaneval" -> HumanEvalLoads(rows)
      [] s = "mbpp" -> MbppLoads(rows)
      [] s = "holdout" -> HoldoutLoads(rows)

\* A completion for every problem, and one only.
Answers(s, given) == Distinct(given) /\ Contents(given) = Problems[s]

\* How a reply may carry its program: bare, after an echo of the prompt, or fenced, with
\* the tag in lower case, with none or in capitals, or with another one.
Forms == {"bare", "echo", "python", "plain", "py"}

HumanEvalExtracts(form) == form \in {"bare", "echo", "python"}
MbppExtracts(form) == form \in {"bare", "echo", "python", "plain"}
HoldoutExtracts(form) == form \in {"bare", "python", "plain"}

Extracts(s, form) ==
    CASE s = "humaneval" -> HumanEvalExtracts(form)
      [] s = "mbpp" -> MbppExtracts(form)
      [] s = "holdout" -> HoldoutExtracts(form)

----------------------------------------------------------------------------
(* A suite is scored. *)

NoTally == [c \in {"none", "timeout", "harness", "other"} |-> 0]
Column(category) == IF category \in DOMAIN NoTally THEN category ELSE "other"

Init ==
    /\ queue = <<>> /\ done = <<>> /\ at = 0 /\ intact = FALSE /\ shown = {} /\ blind = "no"
    /\ last = None /\ fate = None /\ state = "open" /\ right = {}
    /\ tally = [i \in {} |-> NoTally]
    /\ earned = [s \in {Suites[i] : i \in 1 .. 3} |-> 0]
    /\ broken = [s \in {Suites[i] : i \in 1 .. 3} |-> 0]

Open ==
    /\ state = "open" /\ Len(done) < 3 /\ queue = <<>>
    /\ Suite \notin DOMAIN tally
    /\ \E rows, given \in Rows, drift \in Drifts :
        IF Builds(Suite, drift) /\ Loads(Suite, rows) /\ Answers(Suite, given)
        THEN /\ queue' = SetToSortSeq(Problems[Suite], <)
             /\ tally' = [s \in DOMAIN tally \cup {Suite} |->
                            IF s = Suite THEN NoTally ELSE tally[s]]
             /\ UNCHANGED state
        ELSE state' = "refused" /\ UNCHANGED <<queue, tally>>
    /\ UNCHANGED <<done, at, intact, shown, blind, last, fate, earned, broken, right>>

Running == state = "open" /\ at > 0
Idle == state = "open" /\ at = 0 /\ queue # <<>>

Spoilt(f) == f.how \in {"harness", "unstarted"} \/ (f.how = "raised" /\ Exit(f.step) = 20)

\* The verdict v on the candidate at the head of the queue, whose fate was f.
Judge(v, f) ==
    /\ last' = v /\ fate' = f
    /\ queue' = Tail(queue)
    /\ tally' = [tally EXCEPT ![Suite][Column(v.category)] = @ + 1]
    /\ earned' = [earned EXCEPT ![Suite] = @ + IF f.how = "passed" THEN 1 ELSE 0]
    /\ broken' = [broken EXCEPT ![Suite] = @ + IF Spoilt(f) THEN 1 ELSE 0]
    /\ at' = 0 /\ intact' = FALSE /\ shown' = {} /\ blind' = "no"
    /\ UNCHANGED <<done, state, right>>

Fate(how, step, tests, hidden) ==
    [suite |-> Suite, how |-> how, step |-> step, tests |-> tests, hidden |-> hidden]

TestsDone == Cardinality({i \in 1 .. at - 1 : i <= LastStep /\ Steps(Suite)[i] = "test"})

\* The steps done so far whose line did not reach the evaluator.
Hidden == \E i \in 1 .. at - 1 : Announced(Steps(Suite)[i]) /\ i \notin shown

\* The process ends with what was captured of it: a verdict, or an exception that ends
\* the whole evaluation.
Conclude(r, tidy, f) ==
    LET v == Verdict(Suite, r)
    IN IF Consistent(Suite, v, r, tidy)
       THEN Judge(v, f)
       ELSE /\ state' = "aborted"
            /\ UNCHANGED <<queue, done, at, intact, shown, blind, last, fate, tally, earned, broken,
                           right>>

GenerationFailed == Idle /\ Judge(Unrun("generation"), Fate("unanswered", "none", 0, FALSE))

Launch ==
    /\ Idle /\ at' = 1 /\ last' = None /\ fate' = None
    /\ \E form \in Forms : intact' = Extracts(Suite, form)
    /\ UNCHANGED <<queue, done, shown, blind, tally, earned, broken, state, right>>

\* The harness raises: no runtime, an input that is too large, a stream that fails.
HarnessRaises == Running /\ Judge(Unrun("harness"), Fate("harness", "none", 0, FALSE))

\* The engine cannot start the runner, and says so by its exit code.
NeverStarts ==
    /\ Running /\ at = 1
    /\ Conclude(Captured("failed", OtherCode, {}), TRUE, Fate("unstarted", "none", 0, FALSE))

\* A step is done, and its line is captured unless something hides it.
Announce(step) ==
    /\ shown' = IF Announced(step) /\ blind = "no" THEN shown \cup {at} ELSE shown
    /\ blind' = IF Announced(step) /\ blind = "line" THEN "no" ELSE blind

StepDone ==
    /\ Running /\ at <= LastStep
    /\ Step = "parse" => intact
    /\ Announce(Step) /\ at' = at + 1
    /\ UNCHANGED <<queue, done, intact, last, fate, tally, earned, broken, state, right>>

\* The candidate leaves a line unfinished, and the next one is glued to it; or it writes
\* more than is kept, and what follows is lost.
WritesOnStderr ==
    /\ Running /\ at <= LastStep /\ Foreign(Step) /\ blind = "no"
    /\ blind' \in {"line", "rest"}
    /\ UNCHANGED <<queue, done, at, intact, shown, last, fate, tally, earned, broken, state, right>>

\* The message of an exception is reported as it is, space at its end included.
StepRaises ==
    /\ Running /\ at <= LastStep
    /\ \E tidy \in BOOLEAN :
        Conclude(Captured("failed", Exit(Step), shown), tidy,
                 Fate("raised", Step, TestsDone, Hidden))

\* ast.parse raises what is no SyntaxError, the runner is killed, or the candidate leaves
\* the process without an exception.
Dies ==
    /\ Running /\ at <= LastStep
    /\ \E code \in {0, OtherCode} :
        /\ code = 0 => Foreign(Step)
        /\ Conclude(Captured(IF code = 0 THEN "succeeded" ELSE "failed", code, shown), TRUE,
                    Fate("died", Step, TestsDone, Hidden))

Hangs ==
    /\ Running /\ at <= LastStep /\ Foreign(Step)
    /\ Conclude(Captured("timed_out", 0, shown), TRUE,
                Fate("hung", Step, TestsDone, Hidden))

\* The runner has said that everything passed and ends; a thread of the candidate may keep
\* the interpreter from ending, or end it otherwise.
Ends ==
    /\ Running /\ at = LastStep + 1
    /\ LET lines == IF blind = "no" THEN shown \cup {at} ELSE shown
           hidden == Hidden \/ blind # "no"
       IN \/ Conclude(Captured("succeeded", 0, lines), TRUE,
                      Fate("passed", "none", TestsDone, hidden))
          \/ Conclude(Captured("timed_out", 0, lines), TRUE,
                      Fate("hung", "none", TestsDone, hidden))
          \/ Conclude(Captured("failed", OtherCode, lines), TRUE,
                      Fate("died", "none", TestsDone, hidden))

----------------------------------------------------------------------------
(* The scores, and what is decided of them. *)

Passed(s) == tally[s]["none"]
Score(s) == IF tally[s]["harness"] > 0 THEN None ELSE Passed(s)

Totals == [s \in DOMAIN Problems |-> Cardinality(Problems[s])]

CloseSuite ==
    /\ state = "open" /\ at = 0 /\ queue = <<>> /\ Len(done) < 3
    /\ Suite \in DOMAIN tally
    /\ done' = Append(done, Suite) /\ last' = None /\ fate' = None
    /\ UNCHANGED <<queue, at, intact, shown, blind, tally, earned, broken, state, right>>

Together(f) == f["humaneval"] + f["mbpp"] + f["holdout"]

\* Mutant: the gain is rounded down.
MinimumRoundedDown == Together(BasePasses) + ((Gain * Together(Totals)) \div 100)

\* The least number of passes: what the base passed, and the gain of all of them.
MinimumCombined ==
    Together(BasePasses) + ((Gain * Together(Totals) + 99) \div 100)

\* The gates of the policy, for the general suite's right answers and for the evidence
\* of the other studies.
Failing(answered, evidence) ==
    {g \in {"combined", "humaneval", "mbpp", "holdout", "general"} \cup DOMAIN evidence :
        ~CASE g = "combined" -> Together([s \in DOMAIN tally |-> Passed(s)]) >= MinimumCombined
           [] g \in DOMAIN tally -> Passed(g) >= BasePasses[g]
           [] g = "general" -> /\ Cardinality(answered) >= MinGeneral
                               /\ Cardinality(BaseRight \ answered) <= MaxRegressions
           [] OTHER -> evidence[g]}

\* A response is the value, the value with space around it, JSON that Python finds equal
\* (1 for true), or another one.
Responses == {"value", "spaced", "equal", "other"}

IsRight(kind, response) ==
    \/ response = "value"
    \/ response = "spaced" /\ kind = "json"
    \/ response = "equal" /\ kind \in {"json", "tool_call"}

\* A case without a response counts as failed.
Answered(responses) == {c \in DOMAIN responses : IsRight(Kind[c], responses[c])}

Decide ==
    /\ state = "open" /\ Len(done) = 3
    /\ \E answered \in SUBSET Cases :
        \E responses \in [answered -> Responses],
           evidence \in [{"cross_language", "contamination", "load"} -> BOOLEAN] :
            /\ right' = Answered(responses)
            /\ state' = IF Failing(right', evidence) = {} THEN "promote" ELSE "reject"
    /\ UNCHANGED <<queue, done, at, intact, shown, blind, last, fate, tally, earned, broken>>

Next ==
    \/ Open \/ GenerationFailed \/ Launch \/ HarnessRaises \/ NeverStarts
    \/ StepDone \/ WritesOnStderr \/ StepRaises \/ Dies \/ Hangs \/ Ends
    \/ CloseSuite \/ Decide

Spec == Init /\ [][Next]_vars

----------------------------------------------------------------------------
(* Properties. *)

\* What the category of a failure is for the step that raised.
Blames(s, step) ==
    CASE step = "parse" -> "parse"
      [] step = "compile" -> "compile"
      [] step = "candidate" -> "runtime"
      [] step \in {"check", "setup", "test"} -> "test"
      [] OTHER -> "harness"

\* A verdict says what happened to the candidate: a pass is of a program that came to the
\* end, and a program that came to the end fails only when it hid a line of the runner;
\* what raised is blamed; a run that the harness or the benchmark spoilt is a harness error
\* and never a miss; and no test is counted that did not pass, nor one that passed left out
\* unless its line was hidden (the evaluate_completion of the three evaluators).
VerdictIsTrue ==
    fate # None =>
        /\ last.category = "none" => fate.how = "passed"
        /\ fate.how = "passed" /\ ~fate.hidden => last.category = "none"
        /\ fate.how = "raised" => last.category = Blames(fate.suite, fate.step)
        /\ Spoilt(fate) => last.category = "harness"
        /\ fate.suite # "humaneval" /\ fate.how # "harness" =>
            /\ last.tests <= fate.tests
            /\ ~fate.hidden => last.tests = fate.tests

\* An adapter is recommended only for programs that really passed: in every suite at least
\* as many as the base passed, together the gain that is asked for, in a suite that has
\* a score no run the harness spoilt, and no more lost cases of the general suite than
\* the policy allows (aggregates of the suites; evaluate_python_adapter_promotion).
PromotionIsEarned ==
    /\ \A i \in DOMAIN done : Score(done[i]) # None =>
            /\ broken[done[i]] = 0 /\ Score(done[i]) <= earned[done[i]]
    /\ state = "promote" =>
        /\ \A s \in DOMAIN earned : earned[s] >= BasePasses[s]
        /\ 100 * (Together(earned) - Together(BasePasses)) >= Gain * Together(Totals)
        /\ Cardinality(BaseRight \ right) <= MaxRegressions
====
