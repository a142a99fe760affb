---- MODULE RegressionComparison ----
(***************************************************************************)
(* evaluation/python_p0_regression.py (P8-002): the accepted adapter       *)
(* answers the general and tool regression suite, a later process compares *)
(* its answers with the frozen baseline, and a third verifies the evidence.*)
(*                                                                         *)
(* The commands share one directory, in which the answers are appended and *)
(* every other file is rewritten in place.  Nothing keeps two of them      *)
(* apart, and each looks for itself at the commit that is checked out.     *)
(***************************************************************************)
EXTENDS Integers, Sequences, FiniteSets, SequencesExt, FiniteSetsExt, Functions

CONSTANTS
    Cases,      \* the sequence of cases
    Category,   \* [case -> category]
    Answers,    \* [case -> texts with which the adapter may answer]
    Passes,     \* [commit -> set of <<case, text>>]: what passes by its scoring
    Base,       \* [case -> [text, passed]]: the rows of the accepted baseline
    GenContract, \* [commit -> generation contract of the adapter]
    Commits, Processes, None,
    MaxLaunches,    \* [command -> how often it may be run]
    MaxCheckouts

VARIABLES
    commit,     \* what is checked out
    answers,    \* the checkpoint file: a sequence of rows
    stage, comparison, evidence,    \* the other files: contents, or None if missing or torn
    job,        \* per process: the command it runs
    launches, checkouts

vars == <<commit, answers, stage, comparison, evidence, job, launches, checkouts>>
files == <<answers, stage, comparison, evidence>>

SuiteCases == Range(Cases)

----------------------------------------------------------------------------
(* The checkpoints *)

Row(case, text, contract) == [case |-> case, text |-> text, contract |-> contract]

\* Mutant of Loadable: of two answers to a case one is taken.
LoadableAnyway(rows) == TRUE

\* _load_checkpoints refuses a file that answers a case twice.
Loadable(rows) == IsInjective([i \in DOMAIN rows |-> rows[i].case])

\* What _generate_items takes up for a case instead of generating.
Cached(rows, case, contract) ==
    {r \in Range(rows) : r.case = case /\ r.contract = contract}

Known(rows, case) == \E r \in Range(rows) : r.case = case

----------------------------------------------------------------------------
(* The comparison *)

\* Mutant of Transition: what the adapter solves is put down to it.
TransitionByAdapter(base, adapter) ==
    CASE base /\ ~adapter -> "regression"
      [] adapter -> "improvement"
      [] OTHER -> "preserved_fail"

Transition(base, adapter) ==
    CASE base /\ ~adapter -> "regression"
      [] ~base /\ adapter -> "improvement"
      [] base /\ adapter -> "preserved_pass"
      [] OTHER -> "preserved_fail"

\* _build_comparison, by the scoring of one commit and under the name of another.
Comparison(git, code, contract, text) ==
    LET Adapter(c) == <<c, text[c]>> \in Passes[code]
        Before(c) == Base[c].passed
        Was(S) == Cardinality({c \in S : Before(c)})
        Is(S) == Cardinality({c \in S : Adapter(c)})
        Deltas(S) == [base |-> Was(S), adapter |-> Is(S), delta |-> Is(S) - Was(S)]
        Of(kind) == {c \in SuiteCases : Transition(Before(c), Adapter(c)) = kind}
    IN [git |-> git, contract |-> contract,
        cases |-> [c \in SuiteCases |->
            [base |-> Base[c], text |-> text[c], passed |-> Adapter(c),
             transition |-> Transition(Before(c), Adapter(c))]],
        categories |-> [k \in Range(Category) |-> Deltas({c \in SuiteCases : Category[c] = k})],
        overall |-> Deltas(SuiteCases),
        regressions |-> Cardinality(Of("regression")),
        improvements |-> Cardinality(Of("improvement"))]

\* _validate_stage: of this commit, this contract and these very answers.
ValidStage(git, contract) ==
    /\ stage # None
    /\ stage.git = git /\ stage.contract = contract /\ stage.rows = answers

\* _NoGenerate: scoring takes up an answer for every case, or fails.
Complete(rows, contract) ==
    Loadable(rows) /\ \A c \in SuiteCases : Cached(rows, c, contract) # {}

Responses(rows, contract) ==
    [c \in SuiteCases |-> (CHOOSE r \in Cached(rows, c, contract) : TRUE).text]

----------------------------------------------------------------------------
(* The commands *)

Commands == {"generate", "score", "verify"}
Idle == [kind |-> "none"]

\* What the evidence manifest names by digest: the files hashed, one after another.
Hashed == <<"stage", "rows", "comparison">>
Disk == [stage |-> stage, rows |-> answers, comparison |-> comparison]

Init ==
    /\ commit \in Commits
    /\ answers = <<>> /\ stage = None /\ comparison = None /\ evidence = None
    /\ job = [p \in Processes |-> Idle]
    /\ launches = [kind \in Commands |-> 0] /\ checkouts = 0

At(p, kind, step) == job[p].kind = kind /\ job[p].step = step

\* Steps of a process that change no file.
OnlyJob == UNCHANGED <<commit, files, launches, checkouts>>

\* The code is imported when the process starts.
Launch(p, kind) ==
    /\ job[p].kind = "none" /\ launches[kind] < MaxLaunches[kind]
    /\ job' = [job EXCEPT ![p] =
         [kind |-> kind, step |-> IF kind = "verify" THEN "manifest" ELSE "context",
          code |-> commit, git |-> None, contract |-> None, rows |-> <<>>, next |-> 1,
          made |-> [git |-> None, stage |-> None, rows |-> None, comparison |-> None]]]
    /\ launches' = [launches EXCEPT ![kind] = @ + 1]
    /\ UNCHANGED <<commit, files, checkouts>>

\* _context: the settings are those on the disk by now.
Context(p) ==
    /\ job[p].kind # "none" /\ job[p].step = "context"
    /\ job' = [job EXCEPT ![p].step = "preflight", ![p].contract = GenContract[commit]]
    /\ OnlyJob

\* _preflight_source_tree, a moment later: and so is the commit.
Preflight(p) ==
    /\ job[p].kind # "none" /\ job[p].step = "preflight"
    /\ job' = [job EXCEPT ![p].step = IF job[p].kind = "generate" THEN "load" ELSE "check",
                          ![p].git = commit]
    /\ OnlyJob

\* What was answered before is read once, after the model has been prepared.
Load(p) ==
    /\ At(p, "generate", "load") /\ Loadable(answers)
    /\ job' = [job EXCEPT ![p].step = "answer", ![p].rows = answers]
    /\ OnlyJob

Asked(p) == Cases[job[p].next]

TakeUp(p) ==
    /\ At(p, "generate", "answer") /\ job[p].next <= Len(Cases)
    /\ Cached(job[p].rows, Asked(p), job[p].contract) # {}
    /\ job' = [job EXCEPT ![p].next = @ + 1]
    /\ OnlyJob

Answer(p, text) ==
    /\ At(p, "generate", "answer") /\ job[p].next <= Len(Cases)
    /\ ~Known(job[p].rows, Asked(p)) /\ text \in Answers[Asked(p)]
    /\ answers' = Append(answers, Row(Asked(p), text, job[p].contract))
    /\ job' = [job EXCEPT ![p].next = @ + 1]
    /\ UNCHANGED <<commit, stage, comparison, evidence, launches, checkouts>>

\* The stage names the file as it is by then, whoever has appended to it.
WriteStage(p) ==
    /\ At(p, "generate", "answer") /\ job[p].next > Len(Cases)
    /\ stage' = [git |-> job[p].git, contract |-> job[p].contract, rows |-> answers]
    /\ job' = [job EXCEPT ![p] = Idle]
    /\ UNCHANGED <<commit, answers, comparison, evidence, launches, checkouts>>

\* _build_comparison, by score and by verify.
CheckStage(p) ==
    /\ job[p].kind # "none" /\ job[p].step = "check"
    /\ ValidStage(job[p].git, job[p].contract)
    /\ job' = [job EXCEPT ![p].step = "compare"]
    /\ OnlyJob

\* The answers are read once more, after the stage was checked against them.
Recomputed(p) ==
    Comparison(job[p].git, job[p].code, job[p].contract, Responses(answers, job[p].contract))

Compare(p) ==
    /\ At(p, "score", "compare") /\ Complete(answers, job[p].contract)
    /\ job' = [job EXCEPT ![p].step = "write", ![p].made.comparison = Recomputed(p)]
    /\ OnlyJob

WriteComparison(p) ==
    /\ At(p, "score", "write")
    /\ comparison' = job[p].made.comparison
    /\ job' = [job EXCEPT ![p].step = "digest", ![p].made.git = job[p].git]
    /\ UNCHANGED <<commit, answers, stage, evidence, launches, checkouts>>

\* The digests are of the files as they are by then.
Digest(p) ==
    /\ At(p, "score", "digest") /\ job[p].next <= Len(Hashed)
    /\ Disk[Hashed[job[p].next]] # None
    /\ job' = [job EXCEPT ![p].made[Hashed[job[p].next]] = Disk[Hashed[job[p].next]],
                          ![p].next = @ + 1]
    /\ OnlyJob

WriteEvidence(p) ==
    /\ At(p, "score", "digest") /\ job[p].next > Len(Hashed)
    /\ evidence' = job[p].made
    /\ job' = [job EXCEPT ![p] = Idle]
    /\ UNCHANGED <<commit, answers, stage, comparison, launches, checkouts>>

\* verify reads the manifest, hashes what it names,
ReadEvidence(p) ==
    /\ At(p, "verify", "manifest") /\ evidence # None
    /\ job' = [job EXCEPT ![p].step = "hash", ![p].made = evidence]
    /\ OnlyJob

Rehash(p) ==
    /\ At(p, "verify", "hash") /\ job[p].next <= Len(Hashed)
    /\ Disk[Hashed[job[p].next]] = job[p].made[Hashed[job[p].next]]
    /\ job' = [job EXCEPT ![p].next = @ + 1]
    /\ OnlyJob

\* reads the comparison it has just hashed,
ReadComparison(p) ==
    /\ At(p, "verify", "hash") /\ job[p].next > Len(Hashed) /\ comparison # None
    /\ job' = [job EXCEPT ![p].step = "context", ![p].made.comparison = comparison]
    /\ OnlyJob

\* Mutant of Agrees: digests that match are evidence enough.
AgreesByDigest(p) == job[p].made.git = job[p].git

\* and accepts it if it comes out the same and the manifest names this commit.
Agrees(p) ==
    job[p].made.comparison = Recomputed(p) /\ job[p].made.git = job[p].git

Accept(p) ==
    /\ At(p, "verify", "compare") /\ Complete(answers, job[p].contract) /\ Agrees(p)
    /\ job' = [job EXCEPT ![p].step = "accepted"]
    /\ OnlyJob

\* A check that raises, or a kill.
Stop(p) ==
    /\ job[p].kind # "none"
    /\ job' = [job EXCEPT ![p] = Idle]
    /\ UNCHANGED <<commit, files, launches, checkouts>>

\* A kill while a file is being rewritten in place leaves nothing that can be read.
Tear(p) ==
    /\ \/ /\ At(p, "generate", "answer") /\ job[p].next > Len(Cases)
          /\ stage' = None /\ UNCHANGED <<comparison, evidence>>
       \/ At(p, "score", "write") /\ comparison' = None /\ UNCHANGED <<stage, evidence>>
       \/ /\ At(p, "score", "digest") /\ job[p].next > Len(Hashed)
          /\ evidence' = None /\ UNCHANGED <<stage, comparison>>
    /\ job' = [job EXCEPT ![p] = Idle]
    /\ UNCHANGED <<commit, answers, launches, checkouts>>

Checkout(c) ==
    /\ c # commit /\ checkouts < MaxCheckouts
    /\ commit' = c /\ checkouts' = checkouts + 1
    /\ UNCHANGED <<files, job, launches>>

Next ==
    \/ \E p \in Processes :
         \/ \E kind \in Commands : Launch(p, kind)
         \/ Context(p) \/ Preflight(p) \/ Load(p) \/ TakeUp(p) \/ WriteStage(p)
         \/ \E text \in UNION Range(Answers) : Answer(p, text)
         \/ CheckStage(p) \/ Compare(p) \/ WriteComparison(p) \/ Digest(p) \/ WriteEvidence(p)
         \/ ReadEvidence(p) \/ Rehash(p) \/ ReadComparison(p) \/ Accept(p)
         \/ Stop(p) \/ Tear(p)
    \/ \E c \in Commits : Checkout(c)

Spec == Init /\ [][Next]_vars

----------------------------------------------------------------------------
(* Properties *)

\* verify has returned what it read.
Accepted(p) == At(p, "verify", "accepted")

\* However commands overlapped, were killed or met another checkout, and whatever was
\* rewritten while verify went from file to file: once it accepts a comparison, the
\* answers that the manifest vouches for are one to every case, they are the first that
\* the accepted adapter gave and are in the file to this day, and it is those that the
\* comparison quotes, beside the rows of the accepted baseline.  They were given under the
\* contract it names and pass by the scoring of the code that verified, and its totals are
\* what the transitions of its cases add up to, over all and over the categories.
ComparisonIsTrue ==
    \A p \in Processes : Accepted(p) =>
        LET rows == job[p].made.rows
            shown == job[p].made.comparison
            text == [c \in SuiteCases |-> shown.cases[c].text]
            Of(S, kind) == Cardinality({c \in S : shown.cases[c].transition = kind})
            Net(S) == Of(S, "improvement") - Of(S, "regression")
        IN /\ Len(rows) = Len(Cases) /\ Len(rows) <= Len(answers)
           /\ \A i \in DOMAIN rows : answers[i] = rows[i]
           /\ \A c \in SuiteCases : \E i \in DOMAIN rows :
                rows[i] = Row(c, text[c], shown.contract)
           /\ \A c \in SuiteCases :
                /\ shown.cases[c].base = Base[c]
                /\ shown.cases[c].passed <=> <<c, text[c]>> \in Passes[job[p].code]
           /\ shown.git = job[p].made.git
           /\ shown.overall.delta = Net(SuiteCases)
           /\ \A k \in Range(Category) :
                shown.categories[k].delta = Net({c \in SuiteCases : Category[c] = k})
====
