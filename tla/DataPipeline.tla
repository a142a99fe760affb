---- MODULE DataPipeline ----
(***************************************************************************)
(* data/pipeline.py and the stages it calls, with the part of distillation *)
(* that prepares a teacher's corpus for it: from the records of a finished *)
(* generation to the train and validation splits of one dataset manifest.  *)
(*                                                                         *)
(* A record has the identity its source gave it (or None), its prompt      *)
(* without the policy that only the teacher saw, its final answer and its  *)
(* finish reason.  Texts are normalised and stand for their SHA-256; what  *)
(* the stages ask of a text is a set.                                      *)
(***************************************************************************)
EXTENDS Integers, Sequences, FiniteSets, SequencesExt, FiniteSetsExt, Functions

CONSTANTS
    Prompts, Answers, Keys,
    LowQuality,        \* answers that fail the Python quality validator
    Malformed,         \* answers that make the record malformed or empty
    Long,              \* answers whose record is out of the token bounds
    Thinking,          \* answers with <think> markup
    ProtectedPrompts,  \* prompts equal to, or overlapping with, a benchmark prompt
    ProtectedAnswers,  \* the same for benchmark solutions
    Configs,           \* data configurations, by their SHA-256 and commit
    Seed,              \* [Configs -> Int]
    Shuffle,           \* [seed -> [set of prompts -> sequence of them]]
    Num, Den,          \* validation_fraction is Num / Den
    None

Records == [key : Keys \cup {None}, prompt : Prompts, answer : Answers,
            finish : {"stop", "length"}]

IsPermutation(sq, S) == sq \in Seq(S) /\ Range(sq) = S /\ IsInjective(sq)

ASSUME PipelineAssumption ==
    /\ Num \in Nat /\ Den \in Nat /\ 0 < Num /\ Num < Den
    /\ None \notin Keys
    /\ \A c \in Configs, P \in SUBSET Prompts :
         IsFiniteSet(P) => IsPermutation(Shuffle[Seed[c]][P], P)

\* The loops of all stages: what of the sequence is in S, in its order.
Only(sq, S) ==
    LET upTo[n \in 0 .. Len(sq)] ==
          IF n = 0 THEN <<>>
          ELSE IF sq[n] \in S THEN Append(upTo[n - 1], sq[n]) ELSE upTo[n - 1]
    IN upTo[Len(sq)]

----------------------------------------------------------------------------
(* Before the pipeline *)

\* _require_no_reasoning_markers.
Unmarked(recs) == \A i \in DOMAIN recs : recs[i].answer \notin Thinking

\* Mutant of QualityRejected: an unfinished answer is validated all the same.
QualityRejectedToo(recs) == Only(recs, {r \in Range(recs) : r.answer \in LowQuality})

\* _prefilter_candidates: the finish reason is asked first, and a record is counted once.
FinishRejected(recs) == Only(recs, {r \in Range(recs) : r.finish # "stop"})
QualityRejected(recs) ==
    Only(recs, {r \in Range(recs) : r.finish = "stop" /\ r.answer \in LowQuality})
Prefiltered(recs) ==
    Only(recs, {r \in Range(recs) : r.finish = "stop" /\ r.answer \notin LowQuality})

----------------------------------------------------------------------------
(* The stages, in their order *)

\* filter_required_content: what it accepts and what it rejects.
ContentAccepted(recs) == Only(recs, {r \in Range(recs) : r.answer \notin Malformed})
ContentRejected(recs) == Only(recs, {r \in Range(recs) : r.answer \in Malformed})

\* filter_by_token_length, with rejection in place of truncation.
LengthAccepted(recs) == Only(recs, {r \in Range(recs) : r.answer \notin Long})
LengthRejected(recs) == Only(recs, {r \in Range(recs) : r.answer \in Long})

Content(r) == <<r.prompt, r.answer>>

\* One upstream key with two contents stops the deduplication.
Conflicting(recs) ==
    \E i, j \in DOMAIN recs :
        /\ recs[i].key # None /\ recs[i].key = recs[j].key
        /\ Content(recs[i]) # Content(recs[j])

Repeats(recs, i) ==
    \E j \in 1 .. i - 1 : \/ Content(recs[j]) = Content(recs[i])
                          \/ recs[i].key # None /\ recs[j].key = recs[i].key

\* deduplicate_exact_records: the earliest of equal contents or equal keys stays.
Unique(recs) ==
    LET Kept == Only([i \in DOMAIN recs |-> i], {i \in DOMAIN recs : ~Repeats(recs, i)})
    IN [n \in DOMAIN Kept |-> recs[Kept[n]]]
Duplicates(recs) == Only([i \in DOMAIN recs |-> i], {i \in DOMAIN recs : Repeats(recs, i)})

\* check_training_contamination finds nothing.
Clean(recs) ==
    \A i \in DOMAIN recs : /\ recs[i].prompt \notin ProtectedPrompts
                           /\ recs[i].answer \notin ProtectedAnswers

----------------------------------------------------------------------------
(* The split *)

\* round() of a quotient: to the nearest, and to the even one between two.
Round(a, b) ==
    LET q == a \div b
        r == 2 * (a % b)
    IN CASE r < b -> q [] r > b -> q + 1 [] OTHER -> q + (q % 2)

\* _target_validation_count.
Target(n) == Max({1, Min({n - 1, Round(n * Num, Den)})})

\* _linked_prompt_groups: the records of one prompt, in their order.
Group(recs, p) == Only(recs, {r \in Range(recs) : r.prompt = p})
Linked(recs) == {recs[i].prompt : i \in DOMAIN recs}

Less(a, b) ==
    \E n \in DOMAIN a : a[n] < b[n] /\ \A m \in 1 .. n - 1 : a[m] = b[m]

\* _choose_validation_group_count: the prefix of the shuffled groups nearest to
\* the target, rather below than above it, that leaves a group to train on.
ValidationGroups(sizes, target) ==
    LET taken[g \in 0 .. Len(sizes)] == IF g = 0 THEN 0 ELSE taken[g - 1] + sizes[g]
        Distance(g) == IF taken[g] > target THEN taken[g] - target ELSE target - taken[g]
        Rank(g) == <<Distance(g), IF taken[g] > target THEN 1 ELSE 0, taken[g], g>>
        Counts == 1 .. Len(sizes) - 1
    IN CHOOSE g \in Counts : \A h \in Counts \ {g} : Less(Rank(g), Rank(h))

\* Mutant of Split: records are shuffled one by one, whatever their prompts.
SplitByRecord(recs, c) ==
    [train |-> Tail(recs), validation |-> <<Head(recs)>>]

\* split_deduplicated_records.
Split(recs, c) ==
    LET order == Shuffle[Seed[c]][Linked(recs)]
        groups == [n \in DOMAIN order |-> Group(recs, order[n])]
        count == ValidationGroups([n \in DOMAIN groups |-> Len(groups[n])],
                                  Target(Len(recs)))
    IN [train |-> FlattenSeq(SubSeq(groups, count + 1, Len(groups))),
        validation |-> FlattenSeq(SubSeq(groups, 1, count))]

----------------------------------------------------------------------------
(* run_dataset_pipeline as the finalization calls it *)

Survivors(recs) == Unique(LengthAccepted(ContentAccepted(recs)))

\* None of the checks on the way raises.
Accepted(recs) ==
    LET long == LengthAccepted(ContentAccepted(recs)) IN
    /\ ~Conflicting(long)
    /\ Clean(Unique(long))
    /\ Cardinality(Linked(Unique(long))) >= 2

Contents(recs) == [i \in DOMAIN recs |-> Content(recs[i])]

\* create_dataset_manifest: its counts are the lengths of what it lists.
Manifest(recs, c) ==
    LET split == Split(Survivors(recs), c) IN
    [config |-> c, seed |-> Seed[c], input |-> recs,
     unique |-> Contents(Survivors(recs)),
     train |-> Contents(split.train), validation |-> Contents(split.validation)]
====
