---- MODULE MCStudies ----
(* A small instance for TLC of the studies that evaluate trained adapters, and of what    *)
(* clears a difference before it is put down to an adapter: the control audits, the       *)
(* comparison of an adapter on the regression suite, and what is concluded from paired    *)
(* outcomes.  They share no state: a behaviour is one of the four.                        *)
EXTENDS StudyConclusions

VARIABLE half

----------------------------------------------------------------------------
(* The studies *)

Candidate(s, l, n, r) == [study |-> s, label |-> l, step |-> n, rate |-> r]

MCCandidates ==
    {Candidate("distilled", "v4", n, 1) : n \in 1 .. 3}
    \cup {Candidate("minimum", "low", n, 1) : n \in 1 .. 2}
    \cup {Candidate("minimum", "high", n, 2) : n \in 1 .. 2}
    \cup {Candidate("qualification", "v4", 3, 1), Candidate("p0", "p0", 1, 1),
          Candidate("rank", "r8", 1, 1)}

Training(l, saved) == [label |-> l, at |-> saved, reported |-> saved]

\* Two trainings of one configuration that agree for a while, one whose report is not
\* of its files, and for each pinned one another that is not the pinned one.
MCTrainings ==
    {Training("v4", <<"w1", "w2", "w3">>), Training("v4", <<"w1", "w4", "w5">>),
     [label |-> "v4", at |-> <<"w1", "w2", "w4">>, reported |-> <<"w1", "w2", "w3">>],
     Training("low", <<"l1", "l2">>), Training("low", <<"l1", "w2">>),
     Training("high", <<"h1", "h2">>),
     Training("p0", <<"p0">>), Training("p0", <<"w3">>),
     Training("r8", <<"r8">>), Training("r8", <<"w3">>)}

MCPinned == [c \in MCCandidates |->
    CASE c.study = "distilled" -> None
      [] c.study = "qualification" -> "w3"
      [] c.study = "p0" -> "p0"
      [] c.study = "rank" -> "r8"
      [] c.label = "low" -> <<"l1", "l2">>[c.step]
      [] c.label = "high" -> <<"h1", "h2">>[c.step]]

MCStudyTasks == [s \in {"p0", "rank", "minimum", "distilled", "qualification"} |->
    IF s \in {"minimum", "distilled"} THEN <<"he1", "mb1", "mb2">> ELSE <<"he1", "mb1">>]
MCStudySuite == [t \in {"he1", "mb1", "mb2"} |-> IF t = "he1" THEN "humaneval" ELSE "mbpp"]

\* Ties between steps and between rates, and one that only fails a suite.
MCSolves ==
    [w \in {"w1", "w2", "w3", "w4", "w5", "l1", "l2", "h1", "h2", "p0", "r8"} |->
        CASE w \in {"w2", "w3", "l2", "h2", "p0"} -> {"he1", "mb1"}
          [] w \in {"w1", "l1", "w5"} -> {"mb1", "mb2"}
          [] OTHER -> {"he1"}]

MCMaxLaunches == [s \in DOMAIN MCStudyTasks |-> 2]
MCMaxCheckouts == [s \in DOMAIN MCStudyTasks |-> IF s \in {"minimum", "distilled"} THEN 0 ELSE 1]

MCFloor == [s \in {"humaneval", "mbpp"} |-> 1]
MCEarned == [s \in {"humaneval", "mbpp"} |-> 1]
MCPolicy == [s \in {"humaneval", "mbpp"} |-> 2]

----------------------------------------------------------------------------
(* The control audits *)

Deviations == {"runtime", "template", "loader", "image", "code", "weights"}

\* One coding task and one case of the regression suite.  What deviates may change an
\* answer, a verdict, both or nothing.
MCControlItems == <<"c1", "g1">>
MCTouches == [d \in Deviations |->
    CASE d = "runtime" -> {"c1"} [] d \in {"loader", "code"} -> {"g1"} [] OTHER -> {}]
MCFlips == [d \in Deviations |->
    CASE d = "image" -> {"c1"} [] d = "loader" -> {"g1"} [] OTHER -> {}]
MCHosts == {{}, {"runtime"}, {"loader"}, {"image"}}

\* The rank sweep is declared to generate like P0; at sha2 it is not, and the base is
\* altered.  The trial is its heir at both, with code of its own.
Path(inherits, own) == [inherits |-> inherits, own |-> own, loads |-> TRUE, scores |-> TRUE]
MCParent ==
    [p \in {"base", "p0", "rank", "trial"} |-> IF p \in {"rank", "trial"} THEN "p0" ELSE None]
MCCode == [sha \in {"sha1", "sha2"} |-> [p \in DOMAIN MCParent |->
    CASE p = "rank" -> Path(IF sha = "sha1" THEN "p0" ELSE "base", None)
      [] p = "trial" -> Path("p0", "altered")
      [] p = "base" /\ sha = "sha2" -> Path(None, "altered")
      [] OTHER -> Path(None, "canonical")]]
MCProtocol == [sha \in {"sha1", "sha2"} |-> "v1"]

audits == <<auditTree, host, changes, current, captured, adapter, prepared, session, replies,
            identity, handover, audited, reports, captures>>

----------------------------------------------------------------------------
(* The regression suite *)

\* Two cases; the second commit scores by another rule and generates under another contract.
MCCases == <<"chat", "tool">>
MCCategory == [c \in {"chat", "tool"} |-> c]
MCTexts == [c \in {"chat", "tool"} |-> IF c = "chat" THEN {"a", "b"} ELSE {"a"}]
MCPassing == [sha \in {"sha1", "sha2"} |->
    IF sha = "sha1" THEN {<<"chat", "a">>, <<"tool", "a">>} ELSE {<<"chat", "b">>}]
MCBaseRows == [c \in {"chat", "tool"} |-> [text |-> "a", passed |-> c = "chat"]]
MCGenContract == [sha \in {"sha1", "sha2"} |-> sha]
MCMaxCommands == [generate |-> 2, score |-> 1, verify |-> 1]

regressions == <<suiteTree, checkpoints, compared, comparison, evidence, job, launched, changed>>

----------------------------------------------------------------------------
(* Paired outcomes *)

\* What is solved is fenced or not; what is not is wrong, wrapped otherwise, or cut.
Responses(S) == [c \in SmokeCases |->
    IF c \in S THEN [right |-> TRUE, fence |-> IF c[2] = 2 THEN "whole" ELSE "none", cut |-> FALSE]
    ELSE [right |-> c[2] # 1, fence |-> IF c[2] = 2 THEN "other" ELSE "none", cut |-> c[2] = 3]]

\* How many of each language the base solves, and any cases the adapter solves.
MCSmokes == {[base |-> Responses({c \in SmokeCases :
                                    c[2] <= IF c[1] = "rust" THEN n[1] ELSE n[2]}),
              adapter |-> Responses(S)] : n \in (0 .. 3) \X (0 .. 3), S \in SUBSET SmokeCases}

\* Ten tasks: some lost, some kept, some gained.
MCPairs == {[base |-> 1 .. n[1] + n[2], candidate |-> n[1] + 1 .. n[1] + n[2] + n[3]] :
              n \in {m \in (0 .. 10) \X (0 .. 10) \X (0 .. 10) : m[1] + m[2] + m[3] <= 10}}

\* One, two or three runs of two tasks.
MCSeries == UNION {[1 .. n -> SUBSET {1, 2}] : n \in 1 .. 3}

\* Rows of up to three tasks of two tests, twice the same one among them.
MCRow(id, passed) ==
    [id |-> id, category |-> IF passed = 2 THEN "none" ELSE "test", passed |-> passed, total |-> 2]
MCRowSets(n) == [1 .. n -> {MCRow(id, passed) : id \in 1 .. 3, passed \in 1 .. 2}]
MCForensics == {[base |-> m[1], adapter |-> m[2]] : m \in MCRowSets(3) \X MCRowSets(2)}

outcomes == <<measured, smoke, effect, variance, matrix>>

----------------------------------------------------------------------------

MCInit ==
    /\ half \in {"studies", "audits", "regressions", "outcomes"}
    /\ Init /\ FTR!Init /\ P8!Init /\ Outcomes!Init
    /\ half # "studies" => study = "p0" /\ head = "sha1"
    /\ half # "audits" => auditTree = "sha1"
    /\ half # "regressions" => suiteTree = "sha1"

MCNext ==
    \/ half = "studies" /\ Next /\ UNCHANGED <<half, audits, regressions, outcomes>>
    \/ half = "audits" /\ FTR!Next /\ UNCHANGED <<half, vars, regressions, outcomes>>
    \/ half = "regressions" /\ P8!Next /\ UNCHANGED <<half, vars, audits, outcomes>>
    \/ half = "outcomes" /\ Outcomes!Next /\ UNCHANGED <<half, vars, audits, regressions>>

MCSpec == MCInit /\ [][MCNext]_<<half, vars, audits, regressions, outcomes>>
====
