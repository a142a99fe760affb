---- MODULE StudyConclusions ----
(* The studies that evaluate trained adapters, together with what clears a difference of *)
(* scores before it is put down to an adapter, the audits FTR-101 to FTR-103, with the   *)
(* comparison of the accepted adapter on the regression suite, and with what is          *)
(* concluded from paired outcomes.                                                       *)
EXTENDS StudyEvaluation

CONSTANTS
    Items, Coding, BaseSolved, Hosts, Touches, Alters, Protocol, Code, Parent, Canonical,
    MaxChanges, MaxCaptures

VARIABLES
    auditTree, host, changes, current, captured, adapter, prepared, session, replies,
    identity, handover, audited, reports, captures

FTR == INSTANCE ControlAudits WITH
    Flips <- Alters, MaxLaunches <- MaxCaptures,
    head <- auditTree, answers <- replies, scoring <- audited, launches <- captures

\* There is a contract to expect of a path, and the coding suites are among the suites.
ASSUME AuditAssumption ==
    /\ Items \in Seq(FTR!Id) /\ Coding \subseteq FTR!Id
    /\ Canonical # None

CONSTANTS
    CaseList, Category, Texts, Passing, BaseRows, GenContract, Processes, MaxCommands, MaxTrees

VARIABLES
    suiteTree, checkpoints, compared, comparison, evidence, job, launched, changed

P8 == INSTANCE RegressionComparison WITH
    Cases <- CaseList, Answers <- Texts, Passes <- Passing, Base <- BaseRows,
    MaxLaunches <- MaxCommands, MaxCheckouts <- MaxTrees,
    commit <- suiteTree, answers <- checkpoints, stage <- compared, launches <- launched,
    checkouts <- changed

\* The suite has no case twice (evaluation/regression.py), and a row is passed or not.
ASSUME RegressionAssumption ==
    /\ CaseList \in Seq(P8!SuiteCases)
    /\ \A i, j \in DOMAIN CaseList : CaseList[i] = CaseList[j] => i = j
    /\ \A c \in P8!SuiteCases : BaseRows[c].passed \in BOOLEAN

CONSTANTS Smokes, Assessed, Pairs, Comparisons, AlphaNum, AlphaDen, Series, Few, Forensics

VARIABLES measured, smoke, effect, variance, matrix

\* SMOKE_CASES: three of each language.
SmokeLanguages == {"typescript", "rust"}
SmokeCases == SmokeLanguages \X (1 .. 3)

Outcomes == INSTANCE PairedOutcomes WITH
    Languages <- SmokeLanguages, Cases <- SmokeCases, Tasks <- Assessed

\* What is measured is of those cases and tasks.  The significance level is below one
\* half (_ALPHA is 1/20), and a net gain of 16 tasks is below it for any number of
\* comparisons that is asked for, so that the search for the minimum ends.
ASSUME OutcomesAssumption ==
    /\ \A m \in Smokes : \A c \in SmokeCases :
         m.base[c] \in Outcomes!Responses /\ m.adapter[c] \in Outcomes!Responses
    /\ IsFiniteSet(Assessed) /\ IsFiniteSet(Few)
    /\ Pairs \subseteq [base : SUBSET Assessed, candidate : SUBSET Assessed]
    /\ AlphaNum \in Nat \ {0} /\ AlphaDen \in Nat /\ 2 * AlphaNum < AlphaDen
    /\ \A n \in Comparisons : n \in Nat \ {0} /\ AlphaDen * n <= AlphaNum * 2 ^ 16
    /\ Series \subseteq Seq(SUBSET Few)
    /\ \A m \in Forensics : /\ Len(m.base) \in Nat /\ DOMAIN m.base = 1 .. Len(m.base)
                            /\ Len(m.adapter) \in Nat /\ DOMAIN m.adapter = 1 .. Len(m.adapter)

\* What FTR-101 to FTR-103 certify excludes that the pipeline has drifted.
CertificatesExcludeDrift == FTR!CertificatesExcludeDrift

\* What P8-002 says of the regression suite is what was answered and scored.
ComparisonIsTrue == P8!ComparisonIsTrue

\* What P8-003, FTR-104 and P9-008 conclude is what the outcomes show.
ConclusionsAreSound == Outcomes!ConclusionsAreSound
====
