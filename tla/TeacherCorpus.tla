---- MODULE TeacherCorpus ----
(***************************************************************************)
(* From selected tasks to a corpus the student may train on.  The teacher  *)
(* sees a task with an instruction of its own (distillation/v2_input.py,   *)
(* v3_input.py) and writes hidden thinking before its answer               *)
(* (reasoning.py); both must be gone from every record of the corpus       *)
(* (finalize.py, finalize_records.py).  On the route "repair" the shards   *)
(* of an affected run still hold the thinking: legacy_salvage.py takes     *)
(* them apart, the merged corpus is finalized, qualified and archived, and *)
(* distilled_salvage.py imports the archive into the repository.           *)
(*                                                                         *)
(* A completion is a sequence of parts: "O" and "C" are the opening and    *)
(* closing think markers, "T" is thinking, "A" an answer.  A system        *)
(* message is a sequence of words.  The hash of a thing is the thing.      *)
(* Commands run one at a time; each may be killed between two files.       *)
(***************************************************************************)
EXTENDS Integers, Sequences, FiniteSets, SequencesExt

CONSTANTS
    Tasks,        \* sequence of tasks: [group, systems, tokens, fits]
    Sizes,        \* values of --count
    Policies,     \* instructions for the teacher: "v2", "v3"
    Completions,  \* what the teacher may write: [parts, finish]
    Rewrites,     \* what it may write for an answer that was too long
    Held,         \* tasks the split holds back for validation
    Window, Reserve, Ceiling,  \* V3_STUDENT_MAX_TOKENS, _SAFETY_RESERVE_, _MAX_ANSWER_
    MinStop, MinFit,           \* the gates of a study, in percent
    MaxRuns,      \* bound: runs of the teacher
    MaxCrashes,   \* bound: killed commands
    None

VARIABLES
    route,        \* "direct", or "repair" when the run was affected by the leak
    input, seal,  \* the teacher's input file and its .sha256
    checkpoint,   \* a finished teacher run: its input and its rows
    salvaged,     \* the four files of the salvage
    merged,       \* the merged corpus, compressed where it was too long
    final,        \* the files of the finalized corpus
    qualification,
    archive, pinned,  \* the evidence ZIP; the digests distilled_salvage.py expects
    imported,     \* data/...: the corpus in the repository
    at, work,     \* the command at work: its next file, and what it writes
    runs, crashes

repair == <<salvaged, merged, qualification, archive, pinned, imported>>
vars == <<route, input, seal, checkpoint, final, repair, at, work, runs, crashes>>

SalvageFiles == <<"output", "output seal", "summary", "identity">>
FinalFiles == <<"accepted", "train", "validation", "manifest", "manifest seal", "finalization">>

Empty(names) == [f \in ToSet(names) |-> None]

Init ==
    /\ route \in {"direct", "repair"}
    /\ input = None /\ seal = None /\ checkpoint = None /\ merged = None
    /\ salvaged = Empty(SalvageFiles) /\ final = Empty(FinalFiles)
    /\ qualification = None /\ archive = None /\ pinned = None /\ imported = None
    /\ at = "idle" /\ work = None /\ runs = 0 /\ crashes = 0

----------------------------------------------------------------------------
(* subset.py: an exact count, each source by its share *)

Groups == {Tasks[i].group : i \in DOMAIN Tasks}
Of(g) == {i \in DOMAIN Tasks : Tasks[i].group = g}

Remainder(g, n) == (n * Cardinality(Of(g))) % Len(Tasks)
Share(g, n) == (n * Cardinality(Of(g))) \div Len(Tasks)

\* The largest remainders are rounded up first, ties by the source's key.
Quota(g, n) ==
    LET left == n - FoldSet(LAMBDA h, sum : Share(h, n) + sum, 0, Groups)
        before == {h \in Groups : \/ Remainder(h, n) > Remainder(g, n)
                                  \/ Remainder(h, n) = Remainder(g, n) /\ h < g}
    IN  Share(g, n) + (IF Cardinality(before) < left THEN 1 ELSE 0)

\* Which records of a source are taken depends on hashes alone.
Selections(n) ==
    {S \in SUBSET DOMAIN Tasks : \A g \in Groups : Cardinality(S \cap Of(g)) = Quota(g, n)}

----------------------------------------------------------------------------
(* The instruction of the teacher *)

Space == [text |-> "space", budget |-> 0]
Gap == [text |-> "gap", budget |-> 0]

Budget(i) ==
    LET room == Window - Tasks[i].tokens - Reserve IN IF room < Ceiling THEN room ELSE Ceiling

Instruction(p, i) == [text |-> p, budget |-> IF p = "v3" THEN Budget(i) ELSE 0]

RStrip(words) ==
    SubSeq(words, 1, Max({0} \cup {j \in DOMAIN words : words[j] # Space}))

\* A source record, with the answer of the source in its place.
SourceRecord(i) ==
    [task |-> i, systems |-> Tasks[i].systems, policy |-> None,
     answer |-> [of |-> i, parts |-> <<"source">>], finish |-> "stop"]

Instructable(p, i) == p = "v3" => Budget(i) > 0

\* It is appended to the system message, or becomes one.
Instructed(p, r) ==
    LET order == Instruction(p, r.task) IN
    [r EXCEPT !.policy = p,
              !.systems = IF r.systems = <<>> THEN <<<<order>>>>
                          ELSE <<RStrip(Head(r.systems)) \o <<Gap, order>>>>]

\* Whether strip_teacher_input_policy finds the instruction it has to take away.
Strippable(r) ==
    r.policy # None =>
        LET order == Instruction(r.policy, r.task) IN
        /\ r.systems # <<>>
        /\ \/ Head(r.systems) = <<order>>
           \/ /\ IsSuffix(<<Gap, order>>, Head(r.systems))
              /\ Len(Head(r.systems)) > 2

\* Mutant of Stripped: only an instruction that is the whole message is taken away.
StrippedIfWhole(r) ==
    IF r.policy # None /\ Head(r.systems) = <<Instruction(r.policy, r.task)>>
    THEN [r EXCEPT !.systems = <<>>] ELSE r

Stripped(r) ==
    IF r.policy = None THEN r
    ELSE LET words == Head(r.systems) IN
         [r EXCEPT !.systems = IF Len(words) = 1 THEN <<>>
                               ELSE <<SubSeq(words, 1, Len(words) - 2)>>]

----------------------------------------------------------------------------
(* reasoning.py *)

Has(parts, marker) == marker \in ToSet(parts)
Marked(parts) == Has(parts, "O") \/ Has(parts, "C")
Opens(parts) == parts # <<>> /\ Head(parts) = "O"

After(parts) ==
    SubSeq(parts, Min({j \in DOMAIN parts : parts[j] = "C"}) + 1, Len(parts))

\* _split_reasoning of generation.py and _split_completion of v4_compression.py return
\* an answer, or raise.
Parts(parts) == Opens(parts) => Has(parts, "C") /\ After(parts) # <<>>
Answer(parts) == IF Opens(parts) THEN After(parts) ELSE parts

\* The backend puts back the opening marker the template had filled in, or raises.
Normalizes(parts) == Opens(parts) \/ ~Has(parts, "O")
Normal(parts) == IF ~Opens(parts) /\ Has(parts, "C") THEN <<"O">> \o parts ELSE parts

\* split_qwen_thinking_completion, which also looks at the answer.
Splits(parts) ==
    /\ Normalizes(parts) /\ Parts(Normal(parts))
    /\ Opens(Normal(parts)) => ~Marked(After(Normal(parts)))

----------------------------------------------------------------------------
(* Commands up to the teacher's run *)

Idle == at = "idle"

\* write_teacher_input_subset, and write_v2_ or write_v3_teacher_input upon it, in the
\* order of the source.  The affected run was one of v3.
Prepare(n, p) ==
    /\ Idle /\ (route = "repair" => p = "v3")
    /\ \E order \in [1 .. n -> DOMAIN Tasks] :
        /\ \A j \in 2 .. n : order[j - 1] < order[j]
        /\ Range(order) \in Selections(n)
        /\ \A i \in Range(order) : Instructable(p, i)
        /\ input' = [j \in 1 .. n |-> Instructed(p, SourceRecord(order[j]))]
    /\ at' = "input seal"
    /\ UNCHANGED <<route, seal, checkpoint, final, repair, work, runs, crashes>>

SealInput ==
    /\ at = "input seal" /\ at' = "idle"
    /\ seal' = input
    /\ UNCHANGED <<route, input, checkpoint, final, repair, work, runs, crashes>>

\* The backend of the affected run did not put the marker back.
Transported(parts) == IF route = "repair" THEN parts ELSE Normal(parts)

Row(i, c) ==
    LET text == Transported(c.parts) IN
    [of |-> input[i].task, stored |-> Answer(text), thought |-> Opens(text),
     finish |-> c.finish]

\* Assumed on the direct route, where nothing checks it: a teacher that ends by
\* itself has closed its thinking.
Closed(c) == c.finish = "stop" => Has(c.parts, "C")

\* A complete run of the teacher (TeacherGeneration) in a directory of its own: one
\* completion a record, which ends in an error unless every one has an answer.
Teach ==
    /\ Idle /\ input # None /\ runs < MaxRuns
    /\ runs' = runs + 1
    /\ \E written \in [DOMAIN input -> Completions] :
        /\ \A i \in DOMAIN input :
             /\ Parts(Transported(written[i].parts))
             /\ route = "direct" => Normalizes(written[i].parts) /\ Closed(written[i])
        /\ checkpoint' = [input |-> input, rows |-> [i \in DOMAIN input |-> Row(i, written[i])]]
    /\ UNCHANGED <<route, input, seal, final, repair, at, work, crashes>>

\* distilled_record_from_shard: the record the teacher saw, with what it stored.
Distilled(i, parts) ==
    [checkpoint.input[i] EXCEPT
        !.answer = [of |-> checkpoint.rows[i].of, parts |-> parts],
        !.finish = checkpoint.rows[i].finish]

----------------------------------------------------------------------------
(* legacy_salvage.py *)

\* Without a marker nothing tells where the thinking of an ended answer ends.
Salvageable(row) ==
    IF Marked(row.stored) THEN ~row.thought /\ Splits(row.stored)
    ELSE row.finish = "length"

\* A row without a marker spent its whole budget on thinking: it has no answer.
SalvagedParts(row) ==
    IF Marked(row.stored) THEN Answer(Normal(row.stored))
    ELSE IF row.finish = "length" THEN <<>> ELSE row.stored

\* Everything is validated before the first file is written.
Salvage ==
    /\ Idle /\ route = "repair" /\ checkpoint # None
    /\ seal \in {None, input} /\ checkpoint.input = input
    /\ \A i \in DOMAIN input : Salvageable(checkpoint.rows[i])
    /\ work' = [i \in DOMAIN input |-> Distilled(i, SalvagedParts(checkpoint.rows[i]))]
    /\ at' = Head(SalvageFiles)
    /\ UNCHANGED <<route, input, seal, checkpoint, final, repair, runs, crashes>>

Following(names, f) ==
    LET j == CHOOSE i \in DOMAIN names : names[i] = f
    IN  IF j = Len(names) THEN "idle" ELSE names[j + 1]

\* Mutant of WriteExactOrVerify: what is there already is left alone.
WriteIfMissing ==
    /\ at \in ToSet(SalvageFiles)
    /\ salvaged' = [salvaged EXCEPT ![at] = IF @ = None THEN work ELSE @]
    /\ at' = Following(SalvageFiles, at)
    /\ work' = IF at' = "idle" THEN None ELSE work
    /\ UNCHANGED <<route, input, seal, checkpoint, final, merged, qualification, archive,
                   pinned, imported, runs, crashes>>

\* _write_exact_or_verify: a file that is there must be the very same.
WriteExactOrVerify ==
    /\ at \in ToSet(SalvageFiles)
    /\ IF salvaged[at] \in {None, work}
       THEN /\ salvaged' = [salvaged EXCEPT ![at] = work]
            /\ at' = Following(SalvageFiles, at)
       ELSE at' = "idle" /\ UNCHANGED salvaged
    /\ work' = IF at' = "idle" THEN None ELSE work
    /\ UNCHANGED <<route, input, seal, checkpoint, final, merged, qualification, archive,
                   pinned, imported, runs, crashes>>

\* write_v4_merged_records (V4Compression): without the instruction, what is long
\* is replaced by what the teacher made of it.
Merge(written) ==
    /\ Idle /\ salvaged["output"] # None /\ salvaged["identity"] # None
    /\ Normalizes(written.parts) /\ Parts(Normal(written.parts))
    /\ \A i \in DOMAIN salvaged["output"] : Strippable(salvaged["output"][i])
    /\ merged' = [source |-> salvaged["identity"], records |->
         [i \in DOMAIN salvaged["output"] |->
            LET student == [Stripped(salvaged["output"][i]) EXCEPT !.policy = None] IN
            IF student.finish # "stop" \/ Tasks[student.task].fits THEN student
            ELSE [student EXCEPT !.answer.parts = Answer(Normal(written.parts)),
                                 !.finish = written.finish]]]
    /\ UNCHANGED <<route, input, seal, checkpoint, final, salvaged, qualification, archive,
                   pinned, imported, at, work, runs, crashes>>

----------------------------------------------------------------------------
(* finalize.py and finalize_records.py *)

\* What a finalization starts from: finalize_teacher_corpus loads the run of the
\* input that is there, finalize_prepared_teacher_records the merged corpus, which
\* must hold no instruction any more.
Candidates ==
    IF route = "direct"
    THEN {Stripped(Distilled(i, checkpoint.rows[i].stored)) : i \in DOMAIN input}
    ELSE ToSet(merged.records)

Finalizable ==
    IF route = "direct"
    THEN /\ checkpoint # None /\ checkpoint.input = input
         /\ \A i \in DOMAIN input : Strippable(Distilled(i, checkpoint.rows[i].stored))
    ELSE /\ merged # None
         /\ \A r \in ToSet(merged.records) : r.policy = None

\* _prefilter_candidates: what the teacher ended by itself.
Prefiltered(records) == {r \in records : r.finish = "stop"}

\* The pipeline drops what is too long for the student and parts the rest by task
\* (DataPipeline).
Fits(r) == Tasks[r.task].fits \/ Has(r.answer.parts, "B")
Prepared == {r \in Prefiltered(Candidates) : Fits(r)}

Finalize ==
    /\ Idle /\ Finalizable
    /\ \A r \in Candidates : ~Marked(r.answer.parts)
    /\ Cardinality(Prefiltered(Candidates)) >= 2
    /\ LET validation == {r \in Prepared : r.task \in Held}
       IN  work' = [accepted |-> Prepared, train |-> Prepared \ validation,
                    validation |-> validation]
    /\ work'.train # {} /\ work'.validation # {}
    /\ at' = Head(FinalFiles)
    /\ UNCHANGED <<route, input, seal, checkpoint, final, repair, runs, crashes>>

\* One atomic write a file, over whatever an earlier finalization left.
WriteFinal ==
    /\ at \in ToSet(FinalFiles)
    /\ final' = [final EXCEPT ![at] =
                    IF at \in {"accepted", "train", "validation"} THEN work[at] ELSE work]
    /\ at' = Following(FinalFiles, at)
    /\ work' = IF at' = "idle" THEN None ELSE work
    /\ UNCHANGED <<route, input, seal, checkpoint, repair, runs, crashes>>

\* diagnose_prepared_teacher_data.py and qualify_teacher_study.py.
Qualify ==
    /\ Idle /\ merged # None /\ final["manifest"] # None
    /\ LET records == merged.records
           stopped == {i \in DOMAIN records : records[i].finish = "stop"}
           fitting == {i \in stopped : Fits(records[i])}
       IN  qualification' =
             [total |-> Len(records),
              qualified |-> /\ 100 * Cardinality(stopped) >= MinStop * Len(records)
                            /\ stopped # {}
                            /\ 100 * Cardinality(fitting) >= MinFit * Cardinality(stopped)]
    /\ UNCHANGED <<route, input, seal, checkpoint, final, salvaged, merged, archive, pinned,
                   imported, at, work, runs, crashes>>

----------------------------------------------------------------------------
(* distilled_salvage.py *)

\* The evidence is packed by hand, whatever state it is in.
Pack ==
    /\ Idle /\ route = "repair"
    /\ qualification # None /\ salvaged["identity"] # None
    /\ archive' = [final |-> final, qualification |-> qualification,
                    identity |-> salvaged["identity"]]
    /\ UNCHANGED <<route, input, seal, checkpoint, final, salvaged, merged, qualification,
                   pinned, imported, at, work, runs, crashes>>

\* The expected digests and counts are written into the code, once, from an archive.
Pin ==
    /\ Idle /\ pinned = None /\ archive # None /\ archive.final["manifest"] # None
    /\ pinned' = [manifest |-> archive.final["manifest"], output |-> archive.identity,
                   total |-> archive.qualification.total]
    /\ UNCHANGED <<route, input, seal, checkpoint, final, salvaged, merged, qualification,
                   archive, imported, at, work, runs, crashes>>

Verified(a) ==
    /\ a.qualification.qualified /\ a.qualification.total = pinned.total
    /\ a.identity = pinned.output
    /\ \A f \in DOMAIN a.final : a.final[f] # None
    /\ a.final["manifest"] = pinned.manifest /\ a.final["manifest seal"] = pinned.manifest
    /\ \A f \in {"accepted", "train", "validation"} :
         /\ a.final[f] = pinned.manifest[f]
         /\ \A r \in a.final[f] : ~Marked(r.answer.parts)
         /\ Cardinality(a.final["finalization"][f]) = Cardinality(a.final[f])
    /\ a.final["train"] \cap a.final["validation"] = {}
    /\ a.final["accepted"] = a.final["train"] \cup a.final["validation"]

\* Unpacked and verified aside, then renamed into place: never over a corpus.
Import ==
    /\ Idle /\ imported = None /\ archive # None /\ pinned # None
    /\ Verified(archive)
    /\ imported' = [final |-> archive.final, identity |-> archive.identity]
    /\ UNCHANGED <<route, input, seal, checkpoint, final, salvaged, merged, qualification,
                   archive, pinned, at, work, runs, crashes>>

----------------------------------------------------------------------------

\* The runtime is preempted or the command killed between two files.
Crash ==
    /\ ~Idle /\ crashes < MaxCrashes
    /\ at' = "idle" /\ work' = None /\ crashes' = crashes + 1
    /\ UNCHANGED <<route, input, seal, checkpoint, final, repair, runs>>

Next ==
    \/ \E n \in Sizes, p \in Policies : Prepare(n, p)
    \/ SealInput
    \/ Teach
    \/ Salvage
    \/ WriteExactOrVerify
    \/ \E c \in Rewrites : Merge(c)
    \/ Finalize
    \/ WriteFinal
    \/ Qualify \/ Pack \/ Pin \/ Import
    \/ Crash

Spec == Init /\ [][Next]_vars

----------------------------------------------------------------------------
(* Properties *)

\* The task as it was in the source, but for blanks at the end of its system
\* message, and an answer the teacher finished for that very task, of which no
\* thinking is left.
IsStudentRecord(r) ==
    LET told == Tasks[r.task].systems IN
    /\ r.systems \in {told, IF told = <<>> THEN <<>> ELSE <<RStrip(Head(told))>>}
    /\ r.answer.of = r.task
    /\ r.finish = "stop"
    /\ \A j \in DOMAIN r.answer.parts : r.answer.parts[j] \notin {"O", "C", "T", "source"}

\* What is imported was finalized in one go, from the output of the salvage its
\* identity names: each answer is the salvaged one or was rewritten because it
\* was too long.
ImportIsWhole ==
    imported # None =>
        /\ imported.final["accepted"] = imported.final["train"] \cup imported.final["validation"]
        /\ imported.final["train"] \cap imported.final["validation"] = {}
        /\ \A r \in imported.final["accepted"] :
             \E i \in DOMAIN imported.identity :
                /\ imported.identity[i].task = r.task
                /\ \/ imported.identity[i].answer = r.answer
                   \/ ~Tasks[r.task].fits

\* No file the student may be trained from holds an instruction meant for the
\* teacher, its hidden thinking or an answer it did not finish, and the imported
\* corpus is whole, whichever of the commands were cut short or run again.
StudentSeesTheTaskOnly ==
    /\ \A f \in {"accepted", "train", "validation"} :
        /\ final[f] # None => \A r \in final[f] : IsStudentRecord(r)
        /\ imported # None => \A r \in imported.final[f] : IsStudentRecord(r)
    /\ ImportIsWhole
====
