---- MODULE CandidateScoring ----
(* A candidate program, from the harness that runs it to what is decided of the scores *)
(* of all of them: ExecutionHarness together with SuiteEvaluation, which keeps of the  *)
(* harness what run() promises its callers, a result or an exception, and with         *)
(* TeacherSuperiority, which compares two models by such scores.                       *)
EXTENDS ExecutionHarness, Sequences

CONSTANTS
    Problems, Tests, Rows, Drifts, Cases, Kind, BasePasses, BaseRight, Gain, MinGeneral,
    MaxRegressions

\* The three suites are fixed by the frozen protocol, the gain by the policy.
ASSUME SuiteAssumption ==
    /\ Tests \in Nat /\ Gain \in Nat
    /\ DOMAIN Problems = {"humaneval", "mbpp", "holdout"}
    /\ \A s \in DOMAIN Problems : IsFiniteSet(Problems[s])
    /\ BasePasses \in [DOMAIN Problems -> Nat]

VARIABLES
    queue, done, at, intact, shown, blind, last, fate, tally, earned, broken, state, right

S == INSTANCE SuiteEvaluation

CONSTANTS
    Tasks, SuiteOf, Commits, Tree, Canonical, Skills, FrozenSolved, BaseDirs, Fixed,
    MaxSessions, MaxCopies, MaxDamages, MaxScorings, Damaged

VARIABLES
    skill, drive, session, copied, destination, scoring, report, sessions, copies, damages,
    scorings

T == INSTANCE TeacherSuperiority WITH Suite <- SuiteOf

\* There is something to solve, and the gate as it was fixed asks for no loss in a public
\* suite against the scores of the frozen base (ftr_203_teacher_superiority_gate_v1.json).
ASSUME TeacherAssumption ==
    /\ Tasks \in Seq(T!Id) /\ Tasks # <<>>
    /\ Fixed.minDelta \in Nat
    /\ \A s \in {"humaneval", "mbpp"} : Fixed.base[s] = T!Passed(FrozenSolved, T!Of(s))

\* What the evaluators say of a candidate is what happened to it (the evaluate_completion
\* of the three evaluators).
VerdictIsTrue == S!VerdictIsTrue

\* An adapter is recommended for programs that really passed (promotion.py).
PromotionIsEarned == S!PromotionIsEarned

\* A distillation is authorized for what the teacher really solves (FTR-203).
DecisionIsAboutTheTeacher == T!DecisionIsAboutTheTeacher
====
