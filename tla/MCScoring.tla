---- MODULE MCScoring ----
(* Small instances for TLC of the execution of one candidate, of the scoring of suites of *)
(* them, and of the comparison of the teacher with the base by such scores.  A behaviour  *)
(* is one of the three: SuiteEvaluation keeps of the harness what run() promises, a       *)
(* result or an exception.                                                                *)
EXTENDS MCExecutionHarness, CandidateScoring

CONSTANTS c1, c2

VARIABLE half

MCProblems == [s \in {"humaneval", "mbpp", "holdout"} |-> IF s = "mbpp" THEN {1, 2} ELSE {1}]

\* Rows in and out of order, one twice, one missing.
MCRows == {<<1>>, <<1, 2>>, <<2, 1>>, <<1, 1>>, <<1, 1, 2>>}

MCBasePasses == [s \in {"humaneval", "mbpp", "holdout"} |-> IF s = "holdout" THEN 0 ELSE 1]

MCDrifts == {{}, {"assets"}, {"family"}, {"seed", "runner"}, {"benchmark_id"}}
MCKind == [c \in {c1, c2} |-> IF c = c1 THEN "json" ELSE "tool_call"]

scored == <<queue, done, at, intact, shown, blind, last, fate, tally, earned, broken, state, right>>

----------------------------------------------------------------------------
(* The teacher and the base *)

MCTasks == <<"he1", "he2", "mb1", "mb2", "mb3", "ho1", "ge1">>
MCSuite == [t \in {"he1", "he2", "mb1", "mb2", "mb3", "ho1", "ge1"} |->
    CASE t \in {"he1", "he2"} -> "humaneval" [] t = "ho1" -> "holdout"
      [] t = "ge1" -> "regression" [] OTHER -> "mbpp"]

Gate(minPassed, minNet, num, den, minDelta) ==
    [precommitted |-> TRUE, primary |-> [minPassed |-> minPassed, minNet |-> minNet],
     alphaNum |-> num, alphaDen |-> den, minDelta |-> minDelta, maxDrop |-> 1,
     base |-> [s \in {"humaneval", "mbpp", "holdout"} |-> IF s = "mbpp" THEN 0 ELSE 1]]

MCFixed == Gate(3, 2, 3, 10, 0)

\* The gate as it was fixed; one with a lower floor for a suite and less significance, one
\* with lower minimums; and a tree that evaluates another model than it distils from.
MCTree == [c \in {"good", "loose", "lax", "other"} |->
    [evaluated |-> IF c = "other" THEN "another" ELSE "teacher", distilled |-> "teacher",
     semantics |-> "canonical", referenced |-> FALSE,
     gate |-> CASE c = "loose" -> Gate(3, 2, 1, 3, -1) [] c = "lax" -> Gate(2, 1, 1, 2, 0)
                [] OTHER -> MCFixed]]

\* Better; as good, but at a loss in one suite; as good, but within chance; too few.
MCSkills == {{"he1", "mb1", "mb2", "ge1"}, {"mb1", "mb2", "mb3", "ho1"},
             {"he2", "mb1", "mb2", "ho1"}, {"he1", "mb1", "ho1", "ge1"}}

\* The frozen base, another with the same scores, and one with lower scores.
MCFrozen == {"he1", "ho1", "ge1"}
Baseline(solved) == [solved |-> solved, missing |-> {}, errors |-> FALSE]
MCBases == {Baseline(MCFrozen), Baseline({"he2", "ho1", "ge1"}), Baseline({"ho1"})}

teacher == <<skill, drive, session, copied, destination, scoring, report, sessions,
             copies, damages, scorings>>

----------------------------------------------------------------------------

MCInit ==
    /\ half \in {"harness", "suites", "teacher"}
    /\ Init /\ S!Init /\ T!Init
    /\ half # "harness" => kind = "oci"
    /\ half # "teacher" => skill = MCFrozen \cup {"mb1"}

MCNext ==
    \/ half = "harness" /\ Next /\ UNCHANGED <<half, scored, teacher>>
    \/ half = "suites" /\ S!Next /\ UNCHANGED <<half, vars, teacher>>
    \/ half = "teacher" /\ T!Next /\ UNCHANGED <<half, vars, scored>>

\* The harness is fair in its part; the others are checked for safety only.
MCSpec == MCInit /\ [][MCNext]_<<half, vars, scored, teacher>> /\ Fairness

====
