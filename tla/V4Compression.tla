---- MODULE V4Compression ----
(***************************************************************************)
(* distillation/v4_compression.py and compress_teacher_v4.py: the answers  *)
(* of a finished teacher run that are too long for the student are         *)
(* rewritten by the teacher, shard by shard on the same preemptible        *)
(* machines, and merged with the untouched answers into one sealed corpus. *)
(* The source directory promises what ShardLedger says, so its records are *)
(* a constant of its identity; this directory implements ShardLedger again.*)
(*                                                                         *)
(* A record is its id: its conversation, answer and token counts with it.  *)
(* A SHA-256 is the thing hashed.                                          *)
(***************************************************************************)
EXTENDS Integers, Sequences, FiniteSets

CONSTANTS
    Sessions,    \* slots for processes, each on a machine with its own checkout
    Configs,     \* compression configurations, by their SHA-256
    Codes,       \* contents of v4_compression.py, config.py and vllm_backend.py
    Sources,     \* finished v3 runs, by the SHA-256 of their run-identity.json
    SourceRecords, \* the records of all those runs
    Records,     \* [Sources -> sequence of the records a run loads]
    Stopped,     \* source records whose finish reason is "stop"
    Long,        \* source records over the student's 2048 tokens
    Wordy,       \* source records whose answer exceeds its budget
    Answers,     \* what the teacher may rewrite an answer into
    ClearStop,   \* the answers it finished normally
    Short,       \* the answers that bring their record under 2048 tokens
    Brief,       \* the answers within their budget
    ShardSize,   \* checkpoint.shard_size
    MaxRecords,  \* bound: no run has more records
    MaxFaults,   \* bound: losses and corruptions of files on the Drive
    MaxCrashes,  \* bound: preempted or killed sessions
    LiveEdits,   \* TRUE: code and source are also replaced under a session
    None, Garbled

ASSUME BoundsAssumption ==
    /\ MaxRecords \in Nat \ {0} /\ ShardSize \in Nat \ {0}
    /\ MaxFaults \in Nat /\ MaxCrashes \in Nat /\ LiveEdits \in BOOLEAN
    /\ Records \in [Sources -> Seq(SourceRecords)]
    /\ \A v \in Sources : Len(Records[v]) <= MaxRecords

VARIABLES
    source,      \* the v3 run now in the source directory
    diskCode,    \* the code files now on each session's machine
    identity,    \* run-identity.json of the compression directory, or None
    payload,     \* shards/shard-k.jsonl, or None, or Garbled
    sidecar,     \* shards/shard-k.sha256: the contents it vouches for, or None
    merged,      \* the merged corpus at output_path, or None
    seal,        \* its .sha256, or None
    summary,     \* its .summary.json, or None
    pc,          \* where each session is
    job,         \* its arguments and what it has read
    k, tally,    \* the shard it is at; how many an inspection found complete
    local,       \* the shard it has built in work_dir, or None
    parts,       \* the shards a merge has read again
    rows,        \* their rows by source_input_index
    faults, crashes

directory == <<identity, payload, sidecar>>
outputs == <<merged, seal, summary>>
world == <<source, diskCode, faults, crashes>>
process == <<pc, job, k, tally, local, parts, rows>>
vars == <<directory, outputs, world, process>>

Shards == 0 .. MaxRecords - 1

----------------------------------------------------------------------------
(* Selection *)

\* Mutant of Selected: an answer the teacher never finished is rewritten too.
SelectedUnfinished(r) == r \in Long

\* A normally finished answer that is too long for the student; one that is too
\* long although it kept its budget stops the command.
Selected(r) == r \in Stopped \cap Long
Accounted(recs) == \A i \in DOMAIN recs : Selected(recs[i]) => recs[i] \in Wordy

\* select_v4_compression_targets: the indices of the selected records, in order.
Targets(recs) ==
    LET upTo[n \in 0 .. Len(recs)] ==
          IF n = 0 THEN <<>>
          ELSE IF Selected(recs[n]) THEN Append(upTo[n - 1], n) ELSE upTo[n - 1]
    IN upTo[Len(recs)]

NumShards(targets) == (Len(targets) + ShardSize - 1) \div ShardSize

Slice(targets, j) ==
    SubSeq(targets, j * ShardSize + 1,
           IF (j + 1) * ShardSize < Len(targets) THEN (j + 1) * ShardSize ELSE Len(targets))

----------------------------------------------------------------------------
(* Shards *)

NoJob ==
    [goal |-> None, phase |-> None, config |-> None, recs |-> <<>>,
     sid |-> None, claim |-> None]

\* A dictionary with nothing in it.
NoRows == [i \in {} |-> None]

Init ==
    /\ source \in Sources
    /\ diskCode \in [Sessions -> Codes]
    /\ identity = None /\ merged = None /\ seal = None /\ summary = None
    /\ payload = [j \in Shards |-> None]
    /\ sidecar = [j \in Shards |-> None]
    /\ pc = [s \in Sessions |-> "idle"]
    /\ job = [s \in Sessions |-> NoJob]
    /\ k = [s \in Sessions |-> 0]
    /\ tally = [s \in Sessions |-> 0]
    /\ local = [s \in Sessions |-> None]
    /\ parts = [s \in Sessions |-> <<>>]
    /\ rows = [s \in Sessions |-> NoRows]
    /\ faults = 0 /\ crashes = 0

Wanted(s) == Targets(job[s].recs)
Total(s) == NumShards(Wanted(s))

Sealed(j) == payload[j] # None /\ sidecar[j] = payload[j]

\* The checks _validate_shard makes of every row: one row per target of the
\* shard, in order, for the source record, answer and prompt at that index.
Binds(s, p, j) ==
    /\ p # Garbled
    /\ p.config = job[s].config
    /\ p.code = diskCode[s]
    /\ p.sid = job[s].sid
    /\ [i \in DOMAIN p.rows |-> p.rows[i].index] = Slice(Wanted(s), j)
    /\ \A i \in DOMAIN p.rows : p.rows[i].record = job[s].recs[p.rows[i].index]

\* Mutant of Open: a resumed run does not look for the checksum.
OpenAlways(j) == TRUE

\* _validate_shard returns True, returns False, or raises.
Accepts(s, j) == Sealed(j) /\ Binds(s, payload[j], j)
Open(j) == sidecar[j] = None
Rejects(s, j) == ~Open(j) /\ ~Accepts(s, j)

----------------------------------------------------------------------------
(* Steps of a session *)

Goto(s, label) == pc' = [pc EXCEPT ![s] = label]

\* The process ends, by returning or by raising: its memory is gone.
End(s) ==
    /\ Goto(s, "idle")
    /\ job' = [job EXCEPT ![s] = NoJob]
    /\ k' = [k EXCEPT ![s] = 0]
    /\ tally' = [tally EXCEPT ![s] = 0]
    /\ local' = [local EXCEPT ![s] = None]
    /\ parts' = [parts EXCEPT ![s] = <<>>]
    /\ rows' = [rows EXCEPT ![s] = NoRows]

Raise(s) == End(s) /\ UNCHANGED <<directory, outputs, world>>

Compressing(s) == pc[s] # "idle" /\ job[s].goal = "compress"

\* The command: --status-only inspects; otherwise shards are made, inspected and
\* merged.  The operator runs one compression at a time.
Launch(s, goal, c) ==
    /\ pc[s] = "idle"
    /\ goal = "compress" => \A t \in Sessions : ~Compressing(t)
    /\ Goto(s, "load")
    /\ job' = [job EXCEPT ![s] =
           [goal |-> goal, phase |-> IF goal = "status" THEN "inspect" ELSE "run",
            config |-> c, recs |-> <<>>, sid |-> None, claim |-> None]]
    /\ UNCHANGED <<directory, outputs, world, k, tally, local, parts, rows>>

\* load_completed_distilled_records, or the salvaged records whose hash and
\* count their frozen identity names.
LoadSource(s) ==
    /\ pc[s] = "load"
    /\ Goto(s, "select")
    /\ job' = [job EXCEPT ![s].recs = Records[source]]
    /\ UNCHANGED <<directory, outputs, world, k, tally, local, parts, rows>>

\* The targets are selected, and the source directory's identity is read apart
\* from its records.
Select(s) ==
    /\ pc[s] = "select" /\ Accounted(job[s].recs)
    /\ Goto(s, "identify")
    /\ job' = [job EXCEPT ![s].sid = source]
    /\ UNCHANGED <<directory, outputs, world, k, tally, local, parts, rows>>

SelectFails(s) ==
    /\ pc[s] = "select" /\ ~Accounted(job[s].recs)
    /\ Raise(s)

\* _run_identity_text: the code is hashed now, on the disk.
RunIdentity(s) ==
    [config |-> job[s].config, code |-> diskCode[s], sid |-> job[s].sid,
     targets |-> [i \in DOMAIN Wanted(s) |->
                     [index |-> Wanted(s)[i], record |-> job[s].recs[Wanted(s)[i]]]]]

\* Mutant of CheckIdentity: a directory that exists is never taken up again.
CheckIdentityFresh(s) ==
    /\ pc[s] = "identify"
    /\ \/ /\ identity = None
          /\ Goto(s, "claim")
          /\ job' = [job EXCEPT ![s].claim = RunIdentity(s)]
          /\ UNCHANGED <<k, tally, local, parts, rows>>
       \/ identity # None /\ End(s)
    /\ UNCHANGED <<directory, outputs, world>>

CheckIdentity(s) ==
    /\ pc[s] = "identify"
    /\ \/ /\ identity = None
          /\ Goto(s, "claim")
          /\ job' = [job EXCEPT ![s].claim = RunIdentity(s)]
          /\ UNCHANGED <<k, tally, local, parts, rows>>
       \/ /\ identity = RunIdentity(s)
          /\ Goto(s, "scan")
          /\ UNCHANGED <<job, k, tally, local, parts, rows>>
       \/ /\ identity \notin {None, RunIdentity(s)}
          /\ End(s)
    /\ UNCHANGED <<directory, outputs, world>>

ClaimIdentity(s) ==
    /\ pc[s] = "claim"
    /\ identity' = job[s].claim
    /\ Goto(s, "scan")
    /\ UNCHANGED <<payload, sidecar, outputs, world, job, k, tally, local, parts, rows>>

ScanSealed(s) ==
    /\ pc[s] = "scan" /\ k[s] < Total(s) /\ Accepts(s, k[s])
    /\ k' = [k EXCEPT ![s] = @ + 1]
    /\ tally' = [tally EXCEPT ![s] = @ + IF job[s].phase = "inspect" THEN 1 ELSE 0]
    /\ UNCHANGED <<directory, outputs, world, pc, job, local, parts, rows>>

\* A missing or unsealed shard is listed by an inspection and made by a run.
ScanOpen(s) ==
    /\ pc[s] = "scan" /\ k[s] < Total(s) /\ Open(k[s])
    /\ \/ /\ job[s].phase = "inspect"
          /\ k' = [k EXCEPT ![s] = @ + 1]
          /\ UNCHANGED pc
       \/ /\ job[s].phase = "run"
          /\ Goto(s, "teach")
          /\ UNCHANGED k
    /\ UNCHANGED <<directory, outputs, world, job, tally, local, parts, rows>>

\* A checksum without a payload, a wrong checksum, or rows of something else.
ScanRejected(s) ==
    /\ pc[s] = "scan" /\ k[s] < Total(s) /\ Rejects(s, k[s])
    /\ Raise(s)

\* backend.generate and _build_shard_records, into the work directory.
Teach(s) ==
    /\ pc[s] = "teach"
    /\ LET mine == Slice(Wanted(s), k[s]) IN
       \E a \in [DOMAIN mine -> Answers] :
         local' = [local EXCEPT ![s] =
            [config |-> job[s].config, code |-> diskCode[s], sid |-> job[s].sid,
             rows |-> [i \in DOMAIN mine |->
                 [index |-> mine[i], record |-> job[s].recs[mine[i]], answer |-> a[i]]]]]
    /\ Goto(s, "copy")
    /\ UNCHANGED <<directory, outputs, world, job, k, tally, parts, rows>>

\* Too few completions, a <think> that is not closed, or no final answer.
TeachFails(s) ==
    /\ pc[s] = "teach"
    /\ Raise(s)

CopyPayload(s) ==
    /\ pc[s] = "copy"
    /\ payload' = [payload EXCEPT ![k[s]] = local[s]]
    /\ Goto(s, "seal")
    /\ UNCHANGED <<identity, sidecar, outputs, world, job, k, tally, local, parts, rows>>

CopySidecar(s) ==
    /\ pc[s] = "seal"
    /\ sidecar' = [sidecar EXCEPT ![k[s]] = local[s]]
    /\ Goto(s, "confirm")
    /\ UNCHANGED <<identity, payload, outputs, world, job, k, tally, local, parts, rows>>

Confirm(s) ==
    /\ pc[s] = "confirm" /\ Accepts(s, k[s])
    /\ k' = [k EXCEPT ![s] = @ + 1]
    /\ local' = [local EXCEPT ![s] = None]
    /\ Goto(s, "scan")
    /\ UNCHANGED <<directory, outputs, world, job, tally, parts, rows>>

ConfirmFails(s) ==
    /\ pc[s] = "confirm" /\ ~Accepts(s, k[s])
    /\ Raise(s)

\* run_v4_compression ends with an inspection, which selects, reads the source
\* identity and checks the directory's identity once more.
FinishRun(s) ==
    /\ pc[s] = "scan" /\ job[s].phase = "run" /\ k[s] = Total(s)
    /\ Goto(s, "select")
    /\ job' = [job EXCEPT ![s].phase = "inspect"]
    /\ k' = [k EXCEPT ![s] = 0]
    /\ UNCHANGED <<directory, outputs, world, tally, local, parts, rows>>

\* A status is printed; a compression goes on to merge what is complete.
FinishInspect(s) ==
    /\ pc[s] = "scan" /\ job[s].phase = "inspect" /\ k[s] = Total(s)
    /\ IF job[s].goal = "compress" /\ tally[s] = Total(s)
       THEN /\ Goto(s, "merge")
            /\ k' = [k EXCEPT ![s] = 0]
            /\ UNCHANGED <<job, tally, local, parts, rows>>
       ELSE End(s)
    /\ UNCHANGED <<directory, outputs, world>>

----------------------------------------------------------------------------
(* The merge *)

\* _load_completed_rows: every shard is parsed again, and validated by nothing; its
\* rows go into a dictionary, where no index may be met twice.
Indices(p) == {p.rows[n].index : n \in DOMAIN p.rows}

Readable(s, p) ==
    /\ p \notin {None, Garbled}
    /\ \A n, m \in DOMAIN p.rows : p.rows[n].index = p.rows[m].index => n = m
    /\ Indices(p) \cap DOMAIN rows[s] = {}

RowOf(p, i) == p.rows[CHOOSE n \in DOMAIN p.rows : p.rows[n].index = i]

ReadShard(s) ==
    /\ pc[s] = "merge" /\ k[s] < Total(s) /\ Readable(s, payload[k[s]])
    /\ parts' = [parts EXCEPT ![s] = Append(@, payload[k[s]])]
    /\ rows' = [rows EXCEPT ![s] =
           [i \in DOMAIN @ \cup Indices(payload[k[s]]) |->
               IF i \in DOMAIN @ THEN @[i] ELSE RowOf(payload[k[s]], i)]]
    /\ k' = [k EXCEPT ![s] = @ + 1]
    /\ UNCHANGED <<directory, outputs, world, pc, job, tally, local>>

ReadShardFails(s) ==
    /\ pc[s] = "merge" /\ k[s] < Total(s) /\ ~Readable(s, payload[k[s]])
    /\ Raise(s)

\* As many rows as there are targets.
Complete(s) == Cardinality(DOMAIN rows[s]) = Len(Wanted(s))

\* Mutant of MergedRow: records are counted from one where the rows count from zero.
MergedRowShifted(s, i) ==
    [record |-> job[s].recs[i],
     row |-> IF i + 1 \in DOMAIN rows[s] THEN rows[s][i + 1] ELSE None]

\* Record i of the corpus: the compressed answer whose row names it, or the
\* source answer untouched.
MergedRow(s, i) ==
    [record |-> job[s].recs[i],
     row |-> IF i \in DOMAIN rows[s] THEN rows[s][i] ELSE None]

MergedRows(s) == [i \in DOMAIN job[s].recs |-> MergedRow(s, i)]

Count(corpus, Test(_)) == Cardinality({i \in DOMAIN corpus : Test(corpus[i])})

FinalStop(m) == IF m.row = None THEN m.record \in Stopped ELSE m.row.answer \in ClearStop
FinalFits(m) == IF m.row = None THEN m.record \notin Long ELSE m.row.answer \in Short

\* The counters of build_v4_merged_records; the number of targets is the status's.
Summarise(corpus, targets) ==
    [targets |-> targets,
     sourceStop |-> Count(corpus, LAMBDA m : m.record \in Stopped),
     sourceAccepted |-> Count(corpus, LAMBDA m : m.record \in Stopped /\ m.record \notin Long),
     compressionStop |-> Count(corpus, LAMBDA m : m.row # None /\ FinalStop(m)),
     withinBudget |-> Count(corpus, LAMBDA m : m.row # None /\ m.row.answer \in Brief),
     compressedAccepted |-> Count(corpus, LAMBDA m : /\ m.row # None
                                                     /\ FinalStop(m) /\ FinalFits(m)),
     rescued |-> Count(corpus, LAMBDA m : /\ m.row # None /\ FinalStop(m) /\ FinalFits(m)
                                          /\ m.record \in Long),
     finalStop |-> Count(corpus, FinalStop),
     finalAccepted |-> Count(corpus, LAMBDA m : FinalStop(m) /\ FinalFits(m))]

\* build_v4_merged_records, and the corpus file; rows that do not add up raise.
WriteMerged(s) ==
    /\ pc[s] = "merge" /\ k[s] = Total(s)
    /\ IF Complete(s)
       THEN /\ merged' = [config |-> job[s].config, sid |-> job[s].sid, shards |-> parts[s],
                          rows |-> MergedRows(s)]
            /\ Goto(s, "sum")
            /\ UNCHANGED <<job, k, tally, local, parts, rows>>
       ELSE End(s) /\ UNCHANGED merged
    /\ UNCHANGED <<directory, seal, summary, world>>

\* The file is hashed as it is on the disk, then the summary of this merge.
WriteSeal(s) ==
    /\ pc[s] = "sum"
    /\ seal' = merged
    /\ Goto(s, "summary")
    /\ UNCHANGED <<directory, merged, summary, world, job, k, tally, local, parts, rows>>

WriteSummary(s) ==
    /\ pc[s] = "summary"
    /\ summary' = Summarise(MergedRows(s), Len(Wanted(s)))
    /\ End(s)
    /\ UNCHANGED <<directory, merged, seal, world>>

SessionStep(s) ==
    \/ LoadSource(s) \/ Select(s) \/ SelectFails(s) \/ CheckIdentity(s)
    \/ ClaimIdentity(s) \/ ScanSealed(s) \/ ScanOpen(s) \/ ScanRejected(s)
    \/ Teach(s) \/ TeachFails(s) \/ CopyPayload(s) \/ CopySidecar(s)
    \/ Confirm(s) \/ ConfirmFails(s) \/ FinishRun(s) \/ FinishInspect(s)
    \/ ReadShard(s) \/ ReadShardFails(s) \/ WriteMerged(s)
    \/ WriteSeal(s) \/ WriteSummary(s)

----------------------------------------------------------------------------
(* The world around the sessions *)

Crash(s) ==
    /\ pc[s] # "idle" /\ crashes < MaxCrashes
    /\ crashes' = crashes + 1
    /\ End(s)
    /\ UNCHANGED <<directory, outputs, source, diskCode, faults>>

ReplaceCode(s, c) ==
    /\ diskCode[s] # c
    /\ LiveEdits \/ pc[s] = "idle"
    /\ diskCode' = [diskCode EXCEPT ![s] = c]
    /\ UNCHANGED <<directory, outputs, source, faults, crashes, process>>

\* Another finished teacher run is put in the place of the source directory.
ReplaceSource(v) ==
    /\ source # v
    /\ LiveEdits \/ \A s \in Sessions : pc[s] = "idle"
    /\ source' = v
    /\ UNCHANGED <<directory, outputs, diskCode, faults, crashes, process>>

\* The Drive loses or damages one file of a shard.
DriveFault(j) ==
    /\ faults < MaxFaults
    /\ faults' = faults + 1
    /\ \/ /\ payload[j] # None
          /\ payload' = [payload EXCEPT ![j] = None]
          /\ UNCHANGED sidecar
       \/ /\ payload[j] \notin {None, Garbled}
          /\ payload' = [payload EXCEPT ![j] = Garbled]
          /\ UNCHANGED sidecar
       \/ /\ sidecar[j] # None
          /\ sidecar' = [sidecar EXCEPT ![j] = None]
          /\ UNCHANGED payload
    /\ UNCHANGED <<identity, outputs, source, diskCode, crashes, process>>

Goals == {"status", "compress"}

Next ==
    \/ \E s \in Sessions :
         \/ \E goal \in Goals, c \in Configs : Launch(s, goal, c)
         \/ SessionStep(s)
         \/ Crash(s)
         \/ \E c \in Codes : ReplaceCode(s, c)
    \/ \E v \in Sources : ReplaceSource(v)
    \/ \E j \in Shards : DriveFault(j)

Spec == Init /\ [][Next]_vars

\* A process that runs goes on, the operator starts the compression again
\* whenever it has ended, and the teacher does not fail for ever.
Fairness ==
    \A s \in Sessions :
        /\ WF_vars(SessionStep(s))
        /\ SF_vars(Teach(s))
        /\ \A c \in Configs : SF_vars(Launch(s, "compress", c))

FairSpec == Spec /\ Fairness

----------------------------------------------------------------------------
(* Properties *)

Rows == [index : 1 .. MaxRecords, record : SourceRecords, answer : Answers]
Payloads == [config : Configs, code : Codes, sid : Sources, rows : Seq(Rows)]
Corpora ==
    [config : Configs, sid : Sources, shards : Seq(Payloads),
     rows : Seq([record : SourceRecords, row : Rows \cup {None}])]
Identities ==
    [config : Configs, code : Codes, sid : Sources,
     targets : Seq([index : 1 .. MaxRecords, record : SourceRecords])]
Jobs ==
    [goal : Goals, phase : {"inspect", "run"}, config : Configs, recs : Seq(SourceRecords),
     sid : Sources \cup {None}, claim : Identities \cup {None}]

\* "Not there" and "damaged" are told apart from everything a file may hold.
ASSUME ContentsAssumption ==
    /\ None \notin Rows \cup Payloads \cup Corpora
    /\ None # Garbled /\ Garbled \notin Payloads

Places ==
    {"idle", "load", "select", "identify", "claim", "scan", "teach", "copy", "seal",
     "confirm", "merge", "sum", "summary"}

DriveOK ==
    /\ source \in Sources /\ diskCode \in [Sessions -> Codes]
    /\ identity \in Identities \cup {None}
    /\ payload \in [Shards -> Payloads \cup {None, Garbled}]
    /\ sidecar \in [Shards -> Payloads \cup {None}]
    /\ {merged, seal} \subseteq Corpora \cup {None}
    /\ faults \in 0 .. MaxFaults /\ crashes \in 0 .. MaxCrashes

SessionsOK ==
    /\ pc \in [Sessions -> Places]
    /\ job \in [Sessions -> Jobs \cup {NoJob}]
    /\ \A s \in Sessions : pc[s] # "idle" => job[s] \in Jobs
    /\ k \in [Sessions -> 0 .. MaxRecords]
    /\ tally \in [Sessions -> 0 .. MaxRecords]
    /\ local \in [Sessions -> Payloads \cup {None}]
    /\ parts \in [Sessions -> Seq(Payloads)]
    /\ DOMAIN rows = Sessions
    /\ \A s \in Sessions : /\ DOMAIN rows[s] \subseteq 1 .. MaxRecords
                            /\ \A i \in DOMAIN rows[s] : rows[s][i] \in Rows

\* The type invariant; no shard index is beyond the run, no index beyond the source.
TypeOK == DriveOK /\ SessionsOK

\* The merged corpus has every record of the run it names, in order; each
\* selected record has an answer that was rewritten from that very record by the
\* configuration the corpus names, and every other record keeps its own, though
\* the merge reads the shards a second time and validates none of them.  The
\* published accounting balances: what the student accepts in the end is what it
\* accepted before plus what was rescued, and what finished normally is what
\* finished before, with the rewritten answers in the place of their sources.
MergedIsBound ==
    /\ merged # None =>
        /\ [i \in DOMAIN merged.rows |-> merged.rows[i].record] = Records[merged.sid]
        /\ \A i \in DOMAIN merged.rows :
              LET m == merged.rows[i] IN
              IF Selected(m.record)
              THEN /\ m.row # None /\ m.row.index = i /\ m.row.record = m.record
                   /\ \E j \in DOMAIN merged.shards :
                         /\ \E n \in DOMAIN merged.shards[j].rows :
                               m.row = merged.shards[j].rows[n]
                         /\ merged.shards[j].config = merged.config
                         /\ merged.shards[j].sid = merged.sid
              ELSE m.row = None
    /\ summary # None =>
        /\ summary.finalAccepted = summary.sourceAccepted + summary.rescued
        /\ summary.finalStop = summary.sourceStop - summary.targets + summary.compressionStop
        /\ summary.rescued = summary.compressedAccepted
        /\ summary.rescued <= summary.compressionStop
        /\ summary.compressionStop <= summary.targets

\* A compression directory keeps the promise of ShardLedger: no session writes
\* over a sealed shard, and a merge is a snapshot of shards that were all sealed.
Ledger == INSTANCE ShardLedger WITH
    ledger <- [j \in Shards |-> IF Sealed(j) THEN payload[j] ELSE None],
    corpus <- IF merged = None THEN None ELSE merged.shards,
    losses <- faults
CompressionLedger == Ledger!Spec

\* Once code and source stay those of the directory's identity, and the Drive
\* loses nothing, a compression that is preempted and started again leaves a
\* merged corpus of that source, sealed, with the summary that describes it.
Settled ==
    /\ identity # None /\ source = identity.sid
    /\ \A s \in Sessions : diskCode[s] = identity.code
Delivered ==
    /\ merged # None /\ seal = merged /\ merged.sid = identity.sid
    /\ summary = Summarise(merged.rows, Len(Targets(Records[merged.sid])))
EventuallyDelivered == [](faults = 0) /\ <>[]Settled => <>[]Delivered
====
