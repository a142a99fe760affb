---- MODULE SemanticContracts ----
(***************************************************************************)
(* The executable filter of a repaired corpus                              *)
(* (distillation/semantic_contracts.py and its two scripts).  For each     *)
(* record the teacher writes a contract from the task alone: a reference   *)
(* solution and tests.  A contract that passes its own tests grades the    *)
(* answer of the record; the answers that pass make the filtered corpus.   *)
(*                                                                         *)
(* Code is what a run of it does: "right" and "wrong" code runs to its     *)
(* end, "slow" code does so or times out, "exits" code ends the process    *)
(* with status 0 before what is appended to it.  A contract is             *)
(*   [form, written, reached, reference, passes]                           *)
(* where `written` counts the assertions in its text that name the entry   *)
(* point, `reached` those a run of the tests executes, and `passes` is the *)
(* set of code that meets these.  The hash of a thing is the thing.        *)
(***************************************************************************)
EXTENDS Integers, Sequences, FiniteSets, SequencesExt

CONSTANTS
    Corpora,       \* finalized corpora: [manifest, clean, accepted, train, validation]
    Pinned,        \* EXPECTED_SOURCE_MANIFEST_SHA256, EXPECTED_SOURCE_OUTPUT_SHA256
    Expected,      \* EXPECTED_ACCEPTED_RECORDS
    MinAssertions, \* MIN_ASSERTIONS
    Responses,     \* what the teacher may answer: contracts
    MaxCrashes,    \* bound: killed or aborted censuses
    None

VARIABLES
    input,      \* the input of the contract generation
    contracts,  \* a complete run of the generation: its input and its answers
    source,     \* the corpus the census works on, or None
    index, stage,
    results, survivors,
    out,        \* the output directory: None, or its files
    crashes

vars == <<input, contracts, source, index, stage, results, survivors, out, crashes>>

census == <<source, index, stage, results, survivors>>

OutFiles == <<"accepted", "train", "validation", "results", "summary", "manifest", "seal">>

Init ==
    /\ input = None /\ contracts = None /\ source = None /\ index = 0 /\ stage = "idle"
    /\ results = <<>> /\ survivors = <<>> /\ out = None /\ crashes = 0

----------------------------------------------------------------------------
(* The input of the teacher *)

\* prepare_semantic_contract_record: the last task and digests, not the answer.
Hidden(record) == [prompt |-> record.task, candidate |-> record, policy |-> "v1"]

\* prepare_semantic_contract_input.py, from any corpus of the right size.
Prepare(corpus) ==
    /\ stage = "idle"
    /\ Len(corpus.accepted) = Expected
    /\ input' = [i \in 1 .. Expected |-> Hidden(corpus.accepted[i])]
    /\ UNCHANGED <<contracts, census, out, crashes>>

\* A run of TeacherGeneration, which cannot be taken up again with another input.
\* Bound: one such run.
Generate ==
    /\ input # None /\ contracts = None
    /\ \E answers \in [1 .. Expected -> Responses] :
        contracts' = [input |-> input, answers |-> answers]
    /\ UNCHANGED <<input, census, out, crashes>>

----------------------------------------------------------------------------
(* One contract *)

\* Exactly one JSON object with the fields and nulls asked for.
Parses(contract) == contract.form # "garbled"

\* validate_semantic_contract_static looks at the text alone.
IsStatic(contract) ==
    /\ contract.form = "verifiable"
    /\ contract.written >= MinAssertions

\* extract_candidate_code: one block, and one only, defines the entry point.
Extracts(record) == record.blocks = 1

\* What _execute may return for code with the tests of a contract behind it: the
\* exit status says whether the process ended well, not how far it came.
Runs(code, contract) ==
    IF code = "exits" THEN {TRUE}
    ELSE {code \in contract.passes} \cup (IF code = "slow" THEN {FALSE} ELSE {})

----------------------------------------------------------------------------
(* The census: build_semantically_filtered_corpus *)

SourceIsFrozen(corpus) ==
    /\ corpus.manifest = Pinned /\ corpus.clean
    /\ Len(corpus.accepted) = Expected
    /\ corpus.train \cap corpus.validation = {}
    /\ ToSet(corpus.accepted) = corpus.train \cup corpus.validation

Begin(corpus) ==
    /\ stage = "idle" /\ out = None
    /\ contracts # None /\ contracts.input = input
    /\ SourceIsFrozen(corpus)
    /\ source' = corpus /\ index' = 1 /\ stage' = "bind"
    /\ results' = <<>> /\ survivors' = <<>>
    /\ UNCHANGED <<input, contracts, out, crashes>>

Contract == contracts.answers[index]
Candidate == source.accepted[index]

\* Mutant of Bound: only the messages are compared.
BoundByTask == contracts.input[index].prompt = Candidate.task

\* The contract was asked for this very record, in this place.
Bound == contracts.input[index] = Hidden(Candidate)

Result(reason) ==
    [of |-> Candidate, contract |-> Contract, asked |-> contracts.input[index],
     reason |-> reason]

Record(reason) ==
    /\ results' = Append(results, Result(reason))
    /\ survivors' = IF reason = "semantic_pass" THEN Append(survivors, Candidate)
                    ELSE survivors
    /\ stage' = IF index = Expected THEN "split" ELSE "bind"
    /\ index' = index + 1
    /\ UNCHANGED <<input, contracts, source, out, crashes>>

\* Parsing and the static checks, with nothing executed.
Bind ==
    /\ stage = "bind" /\ Bound
    /\ IF ~Parses(Contract) THEN Record("contract_parse")
       ELSE IF ~IsStatic(Contract) THEN Record("static")
       ELSE /\ stage' = "reference"
            /\ UNCHANGED <<input, contracts, source, index, results, survivors, out, crashes>>

RunReference ==
    /\ stage = "reference"
    /\ \E succeeded \in Runs(Contract.reference, Contract) :
         IF ~succeeded THEN Record("reference_self_test_failed")
         ELSE IF ~Extracts(Candidate) THEN Record("candidate_extract")
         ELSE /\ stage' = "candidate"
              /\ UNCHANGED <<input, contracts, source, index, results, survivors, out, crashes>>

RunCandidate ==
    /\ stage = "candidate"
    /\ \E succeeded \in Runs(Candidate.code, Contract) :
         Record(IF succeeded THEN "semantic_pass" ELSE "candidate_test_failed")

\* The survivors keep the partition they had.
Kept(part) == {r \in ToSet(survivors) : r \in part}

Counts == [input |-> Len(source.accepted), verified |-> Len(survivors),
           train |-> Cardinality(Kept(source.train)),
           validation |-> Cardinality(Kept(source.validation))]

\* Neither part may be empty; then the directory is made.
Split ==
    /\ stage = "split"
    /\ Kept(source.train) # {} /\ Kept(source.validation) # {}
    /\ out' = [f \in ToSet(OutFiles) |-> None]
    /\ stage' = Head(OutFiles)
    /\ UNCHANGED <<input, contracts, source, index, results, survivors, crashes>>

Content(f) ==
    CASE f = "accepted" -> ToSet(survivors)
      [] f = "train" -> Kept(source.train)
      [] f = "validation" -> Kept(source.validation)
      [] f = "results" -> results
      [] f = "summary" -> [counts |-> Counts, results |-> out["results"]]
      [] f = "manifest" -> [counts |-> Counts, results |-> out["results"],
                            records |-> ToSet(survivors), source |-> source.manifest]
      [] f = "seal" -> out["manifest"]

Write ==
    /\ stage \in ToSet(OutFiles)
    /\ out' = [out EXCEPT ![stage] = Content(stage)]
    /\ IF stage = Last(OutFiles)
       THEN /\ stage' = "idle" /\ source' = None /\ index' = 0
            /\ results' = <<>> /\ survivors' = <<>>
       ELSE /\ stage' = OutFiles[(CHOOSE j \in DOMAIN OutFiles : OutFiles[j] = stage) + 1]
            /\ UNCHANGED <<source, index, results, survivors>>
    /\ UNCHANGED <<input, contracts, crashes>>

\* A killed process, a failure of the harness and each check that raises end the
\* census without a verdict.  A directory that was made stays, and is refused.
Abort ==
    /\ stage # "idle" /\ crashes < MaxCrashes
    /\ crashes' = crashes + 1
    /\ stage' = "idle" /\ source' = None /\ index' = 0
    /\ results' = <<>> /\ survivors' = <<>>
    /\ UNCHANGED <<input, contracts, out>>

Next ==
    \/ \E corpus \in Corpora : Prepare(corpus) \/ Begin(corpus)
    \/ Generate
    \/ Bind \/ RunReference \/ RunCandidate
    \/ Split \/ Write
    \/ Abort

Spec == Init /\ [][Next]_vars

----------------------------------------------------------------------------
(* Properties *)

Sealed == out # None /\ out["seal"] # None

\* The verdict a record deserves from a contract that was asked for it: accepted
\* code met the tests or ended before them, refused code could fail them, and the
\* tests were tried on the reference of the contract first.
Deserved(result) ==
    LET graded == result.reason \in {"semantic_pass", "candidate_test_failed"} IN
    /\ result.asked.candidate = result.of /\ result.asked.prompt = result.of.task
    /\ graded => /\ IsStatic(result.contract) /\ result.of.blocks = 1
                 /\ TRUE \in Runs(result.contract.reference, result.contract)
                 /\ (result.reason = "semantic_pass") \in Runs(result.of.code, result.contract)

\* One deserved verdict for each record of the pinned corpus, in its order; files that
\* are those of one census; and what survives is where it was.
IsCensusOf(files, corpus) ==
    LET verdicts == files["results"] IN
    /\ corpus.manifest = Pinned /\ files["seal"].source = Pinned
    /\ [i \in DOMAIN verdicts |-> verdicts[i].of] = corpus.accepted
    /\ \A i \in DOMAIN verdicts : Deserved(verdicts[i])
    /\ files["accepted"] =
         {verdicts[i].of : i \in {j \in DOMAIN verdicts : verdicts[j].reason = "semantic_pass"}}
    /\ files["train"] = files["accepted"] \cap corpus.train
    /\ files["validation"] = files["accepted"] \cap corpus.validation
    /\ files["seal"] = files["manifest"] /\ files["manifest"].results = verdicts
    /\ files["manifest"].records = files["accepted"]

\* A sealed census is a census of the pinned corpus: no answer moves between training and
\* validation, none is dropped without a verdict.
CensusIsSound == Sealed => \E corpus \in Corpora : IsCensusOf(out, corpus)
====
