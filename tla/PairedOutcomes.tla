---- MODULE PairedOutcomes ----
(***************************************************************************)
(* What is concluded from the outcomes of a base and of a candidate on the *)
(* same tasks:                                                             *)
(*   evaluation/cross_language_smoke.py (P8-003), with its report;         *)
(*   evaluation/python_ftr_evaluation_variance.py (FTR-104);               *)
(*   evaluation/python_distilled_mbpp_forensics.py (P9-008).               *)
(*                                                                         *)
(* Each is a command that reads what was measured and states a conclusion. *)
(***************************************************************************)
EXTENDS Integers, Sequences, FiniteSets, SequencesExt, FiniteSetsExt, Functions, Combinatorics

CONSTANTS
    Languages, Cases,   \* Cases is a set of <<language, number>>: three of each language
    Smokes,     \* set of [base : [case -> response], adapter : [case -> response]]
    Tasks,
    Pairs,      \* set of [base, candidate : SUBSET Tasks]: what each solved
    Comparisons, AlphaNum, AlphaDen,
    Series,     \* set of sequences of what the same model solved of Few
    Few,
    Forensics,  \* set of [base, adapter : sequences of rows [id, category, passed, total]]
    None

VARIABLES
    measured,   \* what was measured, or None
    smoke,      \* the P8-003 report, or None
    effect,     \* the FTR-104 assessment, or None
    variance,   \* the FTR-104 characterization of repeated runs, or None
    matrix      \* the P9-008 summary, or None

vars == <<measured, smoke, effect, variance, matrix>>

----------------------------------------------------------------------------
(* P8-003 *)

\* A response is whether its code matches the patterns of the case, the fences it has
\* ("other": of another tag, or not the whole response; prose without a fence is not
\* told from code), and whether it reached the token budget.
Responses == [right : BOOLEAN, fence : {"none", "whole", "other"}, cut : BOOLEAN]

\* score_text: any fence is forbidden, and every pattern of the case is required.
FormatPasses(r) == r.right /\ r.fence = "none" /\ ~r.cut

\* score_semantic_text: one fence of the right language around everything is taken off.
SemanticPasses(r) == r.fence # "other" /\ FormatPasses([r EXCEPT !.fence = "none"])

Scored(m, dimension) ==
    LET Solved(by) == {c \in Cases : IF dimension = "format" THEN FormatPasses(by[c])
                                     ELSE SemanticPasses(by[c])}
    IN [base |-> Solved(m.base), candidate |-> Solved(m.adapter)]

Of(language, S) == {c \in S : c[1] = language}

\* _language_summary; there are three cases of a language.
Adequate(p, l) == Cardinality(Of(l, p.base)) >= 2
Lost(p, l) == Cardinality(Of(l, p.base)) >= 2 /\ Cardinality(Of(l, p.candidate)) = 0

\* Half of what the base solved, when it solved four of the six.
Halved(p) == Cardinality(p.base) >= 4 /\ Cardinality(p.candidate) * 2 <= Cardinality(p.base)

\* Mutant of Verdict: a language without a baseline is judged as well.
VerdictOfAny(p) ==
    IF (\E l \in Languages : Lost(p, l)) \/ Halved(p) THEN "catastrophic_regression"
    ELSE IF \A l \in Languages : Adequate(p, l) THEN "no_catastrophic_regression"
    ELSE "inconclusive_base"

Verdict(p) ==
    CASE \E l \in Languages : ~Adequate(p, l) -> "inconclusive_base"
      [] \A l \in Languages : Adequate(p, l) ->
         IF (\E l \in Languages : Lost(p, l)) \/ Halved(p) THEN "catastrophic_regression"
         ELSE "no_catastrophic_regression"

Improvements(p) == p.candidate \ p.base
Regressions(p) == p.base \ p.candidate

\* run_cross_language_smoke: the report holds the responses, their scores by both
\* dimensions and the summaries; only the semantic one decides.
Report(m) ==
    [measured |-> m, format |-> Scored(m, "format"), semantic |-> Scored(m, "semantic"),
     conclusion |-> Verdict(Scored(m, "semantic")),
     regressions |-> Cardinality(Regressions(Scored(m, "semantic"))),
     improvements |-> Cardinality(Improvements(Scored(m, "semantic")))]

----------------------------------------------------------------------------
(* FTR-104 *)

\* Mutant of TailCount: the outcome itself is not counted.
TailAbove(improvements, regressions) ==
    MapThenSumSet(LAMBDA k : choose(improvements + regressions, k),
                  improvements + 1 .. improvements + regressions)

\* exact_one_sided_discordant_p_value, times 2 ^ (improvements + regressions).
TailCount(improvements, regressions) ==
    MapThenSumSet(LAMBDA k : choose(improvements + regressions, k),
                  improvements .. improvements + regressions)

\* theoretical_minimum_net_improvement: the least gain g for which 0.5 ^ g survives.
MinimumNet(comparisons) ==
    Min({g \in 1 .. 16 : AlphaDen * comparisons <= AlphaNum * 2 ^ g})

\* variance_aware_minimum_passes
MinimumPasses(passed, total, comparisons) ==
    Min({total + 1, passed + MinimumNet(comparisons)})

Significant(p, comparisons) ==
    LET i == Cardinality(Improvements(p))
        r == Cardinality(Regressions(p))
    IN AlphaDen * comparisons * TailCount(i, r) <= AlphaNum * 2 ^ (i + r)

\* assess_paired_effect
Effect(p, comparisons) ==
    LET net == Cardinality(Improvements(p)) - Cardinality(Regressions(p)) IN
    [pair |-> p, comparisons |-> comparisons, net |-> net,
     floor |-> MinimumPasses(Cardinality(p.base), Cardinality(Tasks), comparisons),
     strong |-> net >= MinimumNet(comparisons) /\ Significant(p, comparisons)]

\* characterize_repeated_outcomes: a flip is a change from one run to the next.
Flips(runs) ==
    {f \in (1 .. Len(runs) - 1) \X Few : (f[2] \in runs[f[1]]) # (f[2] \in runs[f[1] + 1])}

Unstable(runs) == {t \in Few : \E i, j \in DOMAIN runs : t \in runs[i] /\ t \notin runs[j]}

Variance(runs) ==
    LET passed == {Cardinality(s) : s \in Range(runs)} IN
    [runs |-> runs, range |-> Max(passed) - Min(passed), unstable |-> Unstable(runs),
     flips |-> Cardinality(Flips(runs))]

----------------------------------------------------------------------------
(* P9-008 *)

Ids(rows) == {r.id : r \in Range(rows)}

\* _rows_by_id: no task twice, counts that make sense, and no success without all tests.
Readable(rows) ==
    /\ IsInjective([i \in DOMAIN rows |-> rows[i].id])
    /\ \A r \in Range(rows) :
         /\ r.passed \in 0 .. r.total /\ r.total > 0
         /\ r.category = "none" => r.passed = r.total

Solved(rows, ids) == {r.id : r \in {x \in Range(rows) : x.category = "none" /\ x.id \in ids}}

\* analyze_mbpp_results; the numbers of rows and of passes, and the membership of the
\* qualification are pinned in the code, and stand for what was measured.  Its token
\* summaries need a regression, a task that the adapter solves and one that it does not.
Comparable(m) ==
    /\ Readable(m.base) /\ Readable(m.adapter) /\ Ids(m.adapter) \subseteq Ids(m.base)
    /\ Solved(m.adapter, Ids(m.adapter)) # {}
    /\ Solved(m.base, Ids(m.adapter)) \ Solved(m.adapter, Ids(m.adapter)) # {}

Matrix(m) ==
    LET ids == Ids(m.adapter)
        p == [base |-> Solved(m.base, ids), candidate |-> Solved(m.adapter, ids)]
    IN [of |-> m, retainedPass |-> p.base \cap p.candidate,
        retainedFail |-> ids \ (p.base \cup p.candidate),
        regressions |-> Regressions(p), improvements |-> Improvements(p),
        net |-> Cardinality(Improvements(p)) - Cardinality(Regressions(p)),
        categories |-> [c \in {r.category : r \in {x \in Range(m.adapter) : x.id \in Regressions(p)}}
                          |-> Cardinality({r \in Range(m.adapter) :
                                             r.id \in Regressions(p) /\ r.category = c})]]

----------------------------------------------------------------------------
(* The commands *)

Init == measured = None /\ smoke = None /\ effect = None /\ variance = None /\ matrix = None

\* What was generated and scored before.
Measure ==
    /\ measured = None
    /\ \/ \E m \in Smokes : measured' = [kind |-> "smoke", of |-> m]
       \/ \E p \in Pairs : measured' = [kind |-> "pair", of |-> p]
       \/ \E runs \in Series : measured' = [kind |-> "series", of |-> runs]
       \/ \E m \in Forensics : measured' = [kind |-> "forensics", of |-> m]
    /\ UNCHANGED <<smoke, effect, variance, matrix>>

Has(kind) == measured # None /\ measured.kind = kind

Smoke ==
    /\ Has("smoke") /\ smoke = None
    /\ smoke' = Report(measured.of)
    /\ UNCHANGED <<measured, effect, variance, matrix>>

Assess(comparisons) ==
    /\ Has("pair") /\ effect = None
    /\ effect' = Effect(measured.of, comparisons)
    /\ UNCHANGED <<measured, smoke, variance, matrix>>

Characterize ==
    /\ Has("series") /\ variance = None /\ Len(measured.of) >= 2
    /\ variance' = Variance(measured.of)
    /\ UNCHANGED <<measured, smoke, effect, matrix>>

Analyze ==
    /\ Has("forensics") /\ matrix = None /\ Comparable(measured.of)
    /\ matrix' = Matrix(measured.of)
    /\ UNCHANGED <<measured, smoke, effect, variance>>

Next ==
    \/ Measure \/ Smoke \/ Characterize \/ Analyze
    \/ \E n \in Comparisons : Assess(n)

Spec == Init /\ [][Next]_vars

----------------------------------------------------------------------------
(* Properties *)

\* A verdict of P8-003 is not an artifact of its thresholds: a catastrophe is a net
\* loss of solved cases of a base that solves most of every language, and is never
\* declared for an adapter when one that solves less is cleared; and what passes the
\* strict dimension passes the one that decides.
VerdictIsFair ==
    smoke # None =>
        LET p == smoke.semantic IN
        /\ smoke.format.base \subseteq p.base /\ smoke.format.candidate \subseteq p.candidate
        /\ smoke.conclusion = "catastrophic_regression" =>
             /\ smoke.regressions > smoke.improvements
             /\ \A l \in Languages : Cardinality(Of(l, p.base)) >= 2
             /\ \A less \in SUBSET p.candidate :
                  Verdict([p EXCEPT !.candidate = less]) = "catastrophic_regression"
        /\ smoke.conclusion = "no_catastrophic_regression" =>
             \A l \in Languages : Of(l, p.candidate) # {} /\ Of(l, p.base) # {}

\* Strong evidence of FTR-104 is what the sign test says, counted over all ways in
\* which the discordant tasks could have fallen: the minimum of net tasks never
\* decides against it, the floor of passes that is derived from it excludes nobody
\* whose evidence is strong, and one more task solved never weakens it.
EffectIsExact ==
    effect # None =>
        LET p == effect.pair
            discordant == Improvements(p) \cup Regressions(p)
            asGood == {S \in SUBSET discordant : Cardinality(S) >= Cardinality(Improvements(p))}
        IN /\ effect.strong <=>
                /\ discordant # {}
                /\ AlphaDen * effect.comparisons * Cardinality(asGood)
                     <= AlphaNum * Cardinality(SUBSET discordant)
           /\ effect.strong => Cardinality(p.candidate) >= effect.floor
           /\ effect.strong => \A t \in Tasks :
                Effect([p EXCEPT !.candidate = @ \cup {t}], effect.comparisons).strong

\* Repeated runs without a flip are equal, and no score moves further than tasks flip;
\* and the matrix of P9-008 has every task of the qualification once, whatever the
\* order of the rows, and its net is the difference of the two scores.
FlipsAreCounted ==
    /\ variance # None =>
         /\ variance.flips = 0 <=> Cardinality(Range(variance.runs)) = 1
         /\ variance.unstable = {} <=> variance.flips = 0
         /\ variance.range <= variance.flips
         /\ Cardinality(variance.unstable) <= variance.flips
    /\ matrix # None =>
         LET cells == <<matrix.retainedPass, matrix.retainedFail, matrix.regressions,
                        matrix.improvements>>
             adapter == Cardinality({r \in Range(matrix.of.adapter) : r.category = "none"})
             base == Cardinality({r \in Range(matrix.of.base) :
                                    r.category = "none" /\ r.id \in Ids(matrix.of.adapter)})
         IN /\ UNION Range(cells) = Ids(matrix.of.adapter)
            /\ \A i, j \in DOMAIN cells : i # j => cells[i] \cap cells[j] = {}
            /\ matrix.net = adapter - base
            /\ "none" \notin DOMAIN matrix.categories

\* What P8-003, FTR-104 and P9-008 conclude is what the outcomes show: the verdict is
\* fair, the evidence is exact, and every change between two runs is counted once.
ConclusionsAreSound == VerdictIsFair /\ EffectIsExact /\ FlipsAreCounted
====
