---- MODULE PythonCorpus ----
(***************************************************************************)
(* data/python_corpus.py, its two source adapters, python_p0_manifest.py   *)
(* and python_corpus_io.py: the canonical Python P0 corpus is composed     *)
(* from streamed sources by quota, and prepared or frozen on disk.         *)
(*                                                                         *)
(* A build reads pinned revisions and lives in memory, so it is a function *)
(* of the world it reads and of the checkout whose validators it runs; the *)
(* files are written one after the other, by whoever builds.               *)
(***************************************************************************)
EXTENDS Integers, Sequences, FiniteSets, SequencesExt, FiniteSetsExt, Functions

CONSTANTS
    Prompts, Answers, Ids,
    Sources,    \* the sequence of configured sources; the first is the primary one
    Goal,       \* [source -> target_accepted]
    Worlds,     \* [rows : [dataset -> rows], of : [source -> dataset], fill : source or "none"]
    Malformed, Long,
    Commits, Invalid,  \* [commit -> answers that its validators fail]
    Order,      \* [set of prompts -> sequence of them]: the seeded shuffle
    Num, Den,   \* validation_fraction
    Builders, MaxBuilds, MaxCheckouts, None

VARIABLES
    world,
    head,       \* the commit that is checked out
    files,      \* file name -> contents, or None
    job,        \* per builder: what it has built and has yet to write
    builds, checkouts

vars == <<world, head, files, job, builds, checkouts>>

Names == {"accepted", "composition", "train", "validation", "manifest", "sidecar"}
Configured == Range(Sources)
Sum(f, S) == MapThenSumSet(LAMBDA s : f[s], S)

\* The stages and the split that the corpus shares with the generic pipeline.
Pipeline == INSTANCE DataPipeline WITH
    Keys <- {<<d, i>> : d \in {world.of[s] : s \in Configured}, i \in Ids},
    LowQuality <- {}, Thinking <- {}, ProtectedPrompts <- {}, ProtectedAnswers <- {},
    Configs <- {"p0"}, Seed <- [c \in {"p0"} |-> 1], Shuffle <- [n \in {1} |-> Order]

----------------------------------------------------------------------------
(* The source adapters *)

\* A row of another language is passed over, before its fields are looked at.
Selected(row) == row.python

\* A selected row without a field that the schema needs stops the stream.
Broken(row) == row.python /\ ~row.whole

\* _normalize_row: the upstream identity of a record is its dataset and its row.
Record(d, row) == [key |-> <<d, row.id>>, source |-> d, prompt |-> row.prompt,
                   answer |-> row.answer]

Content(r) == <<r.prompt, r.answer>>

----------------------------------------------------------------------------
(* The composition *)

\* _process_candidate: content, then validation, then length.
Stage(r, c) ==
    CASE r.answer \in Malformed -> "content"
      [] r.answer \notin Malformed /\ r.answer \in Invalid[c] -> "validation"
      [] r.answer \notin Malformed \cup Invalid[c] /\ r.answer \in Long -> "length"
      [] OTHER -> "none"

\* _is_duplicate: what is known of this content and of this upstream record.
Repeats(st, r) == Content(r) \in st.contents \/ \E x \in st.seen : x[1] = r.key
Conflicts(st, r) == \E x \in st.seen : x[1] = r.key /\ x[2] # Content(r)

Count(st, stage) == [st EXCEPT !.rejected[stage] = @ + 1, !.scanned = @ + 1]

Accept(st, r) ==
    [st EXCEPT !.taken = Append(@, r), !.scanned = @ + 1,
               !.contents = @ \cup {Content(r)},
               !.seen = @ \cup {<<r.key, Content(r)>>}]

Repeat(st, r) ==
    [Count(st, "duplicate") EXCEPT !.seen = @ \cup {<<r.key, Content(r)>>}]

\* What a whole record of the language comes to.
Classify(st, r, c) ==
    CASE Stage(r, c) # "none" -> Count(st, Stage(r, c))
      [] Stage(r, c) = "none" /\ Conflicts(st, r) -> [st EXCEPT !.failed = TRUE]
      [] Stage(r, c) = "none" /\ ~Conflicts(st, r) ->
         IF Repeats(st, r) THEN Repeat(st, r) ELSE Accept(st, r)

\* One turn of the loop over a stream.  It is left once enough has been taken, so
\* the rest of the stream is never looked at.
Consume(st, d, row, c, requested) ==
    CASE st.failed \/ Len(st.taken) >= requested \/ ~Selected(row) -> st
      [] OTHER -> IF Broken(row) THEN [st EXCEPT !.failed = TRUE]
                  ELSE Classify(st, Record(d, row), c)

\* _processing_order: the source that fills a shortfall is the last.
ProcessingOrder ==
    Pipeline!Only(Sources, Configured \ {world.fill}) \o Pipeline!Only(Sources, {world.fill})

Fresh == [content |-> 0, validation |-> 0, length |-> 0, duplicate |-> 0]

\* One source: its quota, and what the others fell short of if it fills.
Compose(st, s, c) ==
    LET requested == Goal[s] + IF s = world.fill THEN st.shortfall ELSE 0
        start == [st EXCEPT !.taken = <<>>, !.rejected = Fresh, !.scanned = 0]
        d == world.of[s]
        rows == world.rows[d]
        upTo[n \in 0 .. Len(rows)] ==
          IF n = 0 THEN start ELSE Consume(upTo[n - 1], d, rows[n], c, requested)
        end == upTo[Len(rows)]
        short == requested - Len(end.taken)
    IN [end EXCEPT !.shortfall = IF s = world.fill THEN short ELSE @ + short,
                   !.by[s] = end.taken,
                   !.stats[s] = [scanned |-> end.scanned, rejected |-> end.rejected,
                                 accepted |-> Len(end.taken), requested |-> requested]]

Empty ==
    [failed |-> FALSE, shortfall |-> 0, taken |-> <<>>, rejected |-> Fresh, scanned |-> 0,
     contents |-> {}, seen |-> {}, by |-> [s \in Configured |-> <<>>],
     stats |-> [s \in Configured |-> None]]

\* build_python_p0_corpus.
Build(c) ==
    LET order == ProcessingOrder
        upTo[n \in 0 .. Len(order)] ==
          IF n = 0 THEN Empty ELSE Compose(upTo[n - 1], order[n], c)
    IN upTo[Len(order)]

\* PythonP0CorpusResult: the records follow the configured order of the sources.
Result(c) ==
    LET b == Build(c) IN
    [accepted |-> FlattenSeq([n \in DOMAIN Sources |-> b.by[Sources[n]]]),
     stats |-> b.stats, of |-> c]

Total == Sum(Goal, Configured)

\* Mutant of Shortfall: a corpus that is short by one record passes for complete.
ShortfallOfMany(result) == Max({0, Total - 1 - Len(result.accepted)})

Shortfall(result) == Max({0, Total - Len(result.accepted)})

----------------------------------------------------------------------------
(* The frozen manifest *)

\* Of the records, those that came from the source.
From(recs, s) == Pipeline!Only(recs, {r \in Range(recs) : r.source = world.of[s]})

\* split_python_p0_corpus and _build_sources refuse a result unless: it is complete,
\* a second deduplication changes nothing, no two sources are one dataset, and every
\* source kept what its counters say; the split needs two groups of prompts.
Freezable(result) ==
    /\ Shortfall(result) = 0
    /\ ~Pipeline!Conflicting(result.accepted)
    /\ Pipeline!Unique(result.accepted) = result.accepted
    /\ IsInjective([s \in Configured |-> world.of[s]])
    /\ \A s \in Configured :
         Len(From(result.accepted, s)) = result.stats[s].accepted
    /\ Cardinality(Pipeline!Linked(result.accepted)) >= 2

\* create_python_p0_dataset_manifest names the commit that is checked out by then.
Manifest(result) ==
    LET split == Pipeline!Split(result.accepted, "p0") IN
    [git |-> head, composition |-> result.stats, accepted |-> result.accepted,
     train |-> split.train, validation |-> split.validation]

----------------------------------------------------------------------------
(* The commands *)

Idle == [mode |-> "none", result |-> None, writes |-> <<>>]

Init ==
    /\ world \in Worlds /\ head \in Commits
    /\ files = [n \in Names |-> None]
    /\ job = [b \in Builders |-> Idle]
    /\ builds = 0 /\ checkouts = 0

File(name, contents) == <<name, contents>>

\* The two files that scripts/prepare_python_p0.py leaves, ready for training or not.
PreparedFiles(result) ==
    <<File("accepted", result.accepted), File("composition", result.stats)>>

\* The six of a freeze, in their order; each is replaced atomically.
FrozenFiles(result, manifest) ==
    PreparedFiles(result) \o
    <<File("train", manifest.train), File("validation", manifest.validation),
      File("manifest", manifest), File("sidecar", manifest)>>

Start(b, mode) ==
    /\ job[b].mode = "none" /\ builds < MaxBuilds
    /\ ~Build(head).failed
    /\ job' = [job EXCEPT ![b] =
         [mode |-> mode, result |-> Result(head),
          writes |-> IF mode = "prepare" THEN PreparedFiles(Result(head)) ELSE <<>>]]
    /\ builds' = builds + 1
    /\ UNCHANGED <<world, head, files, checkouts>>

\* freeze_python_p0_result describes everything before it writes anything.
Describe(b) ==
    /\ job[b].mode = "freeze" /\ job[b].writes = <<>>
    /\ Freezable(job[b].result)
    /\ job' = [job EXCEPT ![b].writes =
                  FrozenFiles(job[b].result, Manifest(job[b].result))]
    /\ UNCHANGED <<world, head, files, builds, checkouts>>

Write(b) ==
    /\ job[b].writes # <<>>
    /\ LET next == Head(job[b].writes) IN files' = [files EXCEPT ![next[1]] = next[2]]
    /\ job' = [job EXCEPT ![b] =
         IF Len(job[b].writes) = 1 THEN Idle
         ELSE [job[b] EXCEPT !.writes = Tail(job[b].writes)]]
    /\ UNCHANGED <<world, head, builds, checkouts>>

\* A check that raises, or a kill; what is written stays.
Stop(b) ==
    /\ job[b].mode # "none"
    /\ job' = [job EXCEPT ![b] = Idle]
    /\ UNCHANGED <<world, head, files, builds, checkouts>>

Checkout(c) ==
    /\ c # head /\ checkouts < MaxCheckouts
    /\ head' = c /\ checkouts' = checkouts + 1
    /\ UNCHANGED <<world, files, job, builds>>

Next ==
    \/ \E b \in Builders :
         \/ \E mode \in {"prepare", "freeze"} : Start(b, mode)
         \/ Describe(b) \/ Write(b) \/ Stop(b)
    \/ \E c \in Commits : Checkout(c)

Spec == Init /\ [][Next]_vars

----------------------------------------------------------------------------
(* Properties *)

\* verify_frozen_training_dataset: what a training would be willing to read.
Usable ==
    /\ files.manifest # None /\ files.sidecar = files.manifest
    /\ files.train # None /\ files.validation # None
    /\ [i \in DOMAIN files.train |-> Content(files.train[i])]
         = [i \in DOMAIN files.manifest.train |-> Content(files.manifest.train[i])]
    /\ [i \in DOMAIN files.validation |-> Content(files.validation[i])]
         = [i \in DOMAIN files.manifest.validation |-> Content(files.manifest.validation[i])]

Yield(s) == {Record(world.of[s], row) : row \in {x \in Range(world.rows[world.of[s]]) : Selected(x)}}

\* Whatever freezes, crashes and checkouts came before: if the files on disk pass
\* the check of a training, they hold the whole of one composition, the one that
\* their manifest lists.  It has as many records as the configuration asks for, none
\* twice and none refused by the validators of some one checkout; its splits share no
\* prompt; no source but the one that fills gives more than its quota; and one that
\* gives less has nothing left that could have been taken, for all the streams are
\* left early.
CorpusIsExact ==
    Usable =>
        LET kept == files.train \o files.validation
            listed == files.manifest.accepted
            contents == {Content(r) : r \in Range(kept)}
            Given(s) == Len(From(listed, s))
        IN /\ Len(kept) = Total
           /\ Cardinality(contents) = Total
           /\ contents = {Content(r) : r \in Range(listed)}
           /\ {r.prompt : r \in Range(files.train)}
                \cap {r.prompt : r \in Range(files.validation)} = {}
           /\ files.train # <<>> /\ files.validation # <<>>
           /\ \A s \in Configured \ {world.fill} : Given(s) <= Goal[s]
           /\ \E c \in Commits :
                /\ \A r \in Range(kept) : Stage(r, c) = "none"
                /\ \A s \in Configured : Given(s) < Goal[s] =>
                     \A r \in Yield(s) : Stage(r, c) = "none" => Content(r) \in contents
====
