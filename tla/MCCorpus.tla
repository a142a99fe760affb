---- MODULE MCCorpus ----
(* A small instance for TLC of what stands between the teacher and the student: sessions *)
(* that share a shard directory, the repair of a corpus that held thinking, and the      *)
(* filter by executable contracts.  They share no state here, each starting from         *)
(* finished work of the one before: a behaviour is one of the three.                     *)
EXTENDS MCTeacherGeneration, StudentCorpus

VARIABLE half

----------------------------------------------------------------------------
(* The repair of a corpus *)

Rules == [text |-> "rules", budget |-> 0]
Blank == [text |-> "space", budget |-> 0]

\* The second system message ends in a blank; the answer of the third task is too long.
MCCorpusTasks == <<
    [group |-> 1, systems |-> <<>>, tokens |-> 3, fits |-> TRUE],
    [group |-> 1, systems |-> <<<<Rules, Blank>>>>, tokens |-> 4, fits |-> TRUE],
    [group |-> 2, systems |-> <<<<Rules>>>>, tokens |-> 2, fits |-> FALSE]>>

Written(parts, finish) == [parts |-> parts, finish |-> finish]

\* With and without the opening marker; closed twice; cut off while thinking; never
\* closed.
MCCompletions == {
    Written(<<"T", "C", "A">>, "stop"), Written(<<"O", "T", "C", "A">>, "stop"),
    Written(<<"T", "C", "A", "C", "A">>, "stop"), Written(<<"T">>, "length"),
    Written(<<"T">>, "stop")}
MCRewrites == {Written(<<"T", "C", "B">>, "stop"), Written(<<"T", "C", "B", "C", "B">>, "stop")}

repair == <<route, prepared, seal, checkpoint, salvaged, merged, final, qualification,
            archive, pinned, imported, at, work, runs, kills>>

----------------------------------------------------------------------------
(* The filter by contracts *)

Answer(id, task, code, blocks) == [id |-> id, task |-> task, code |-> code, blocks |-> blocks]
A1 == Answer(1, "t1", "right", 1)
A2 == Answer(2, "t1", "right", 2)
A3 == Answer(3, "t1", "wrong", 1)
A4 == Answer(4, "t2", "slow", 1)
A5 == Answer(5, "t2", "exits", 1)

Finalized(manifest, records, validation) ==
    [manifest |-> manifest, clean |-> TRUE, accepted |-> records, validation |-> validation,
     train |-> {records[i] : i \in DOMAIN records} \ validation]

\* The pinned corpus, one in another order, and one with another last answer.
MCCorpora == {Finalized("pinned", <<A1, A2, A3, A4>>, {A4}),
              Finalized("other", <<A3, A1, A2, A4>>, {A4}),
              Finalized("other", <<A1, A2, A3, A5>>, {A5})}

Tests(written, reached, reference, passes) ==
    [form |-> "verifiable", written |-> written, reached |-> reached,
     reference |-> reference, passes |-> passes]

\* Garbled; sound; with a wrong reference, or one that ends early; with too few tests;
\* with tests in functions nobody calls.
MCResponses == {
    [Tests(0, 0, "right", {}) EXCEPT !.form = "garbled"],
    Tests(2, 2, "right", {"right", "slow"}), Tests(2, 2, "wrong", {"right", "slow"}),
    Tests(2, 0, "exits", {"right"}), Tests(1, 1, "right", {"right"}),
    Tests(2, 0, "right", {"right", "wrong", "slow"})}

census == <<verifierInput, contracts, source, index, stage, results, survivors, filtered,
            aborts>>

----------------------------------------------------------------------------

MCInit ==
    /\ half \in {"generation", "repair", "contracts"}
    /\ Init /\ Repair!Init /\ Contracts!Init
    /\ half # "generation" =>
        /\ inputFile = (CHOOSE i \in Inputs : TRUE)
        /\ diskCode = [s \in Sessions |-> CHOOSE z \in Codes : TRUE]
    /\ half # "repair" => route = "direct"

MCNext ==
    \/ half = "generation" /\ Next /\ UNCHANGED <<half, repair, census>>
    \/ half = "repair" /\ Repair!Next /\ UNCHANGED <<half, vars, census>>
    \/ half = "contracts" /\ Contracts!Next /\ UNCHANGED <<half, vars, repair>>

MCSpec == MCInit /\ [][MCNext]_<<half, vars, repair, census>>
====
