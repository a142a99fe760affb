---- MODULE TeacherGeneration ----
(***************************************************************************)
(* distillation/generation.py: the teacher's answers to a corpus are       *)
(* generated shard by shard on a machine that may be preempted, and each   *)
(* shard is made durable on a shared Drive by two atomic copies, payload   *)
(* first and checksum sidecar second.  Sessions (a Python process on some  *)
(* machine) inspect the Drive, generate what is missing, or load the       *)
(* finished corpus.  There is no lock: what keeps the Drive consistent is  *)
(* the run identity and the validation of every sealed shard.              *)
(*                                                                         *)
(* A SHA-256 is the thing hashed.  A shard's rows agree on everything but  *)
(* the record they answer, so a payload is one record; its answers are one *)
(* value.  Its code is the label that was put on it.                       *)
(***************************************************************************)
EXTENDS Integers, Sequences, FiniteSets

CONSTANTS
    Sessions,    \* slots for processes, each on a machine with its own checkout
    Configs,     \* teacher configurations, by their SHA-256
    ShardSize,   \* [Configs -> positive number of records in a shard]
    Codes,       \* contents of generation.py, config.py and vllm_backend.py
    Inputs,      \* versions of the input file, by their SHA-256
    RecordIds,   \* fingerprints of input records
    Records,     \* [Inputs -> nonempty sequence of record fingerprints]
    Limits,      \* values of --limit; one above every length stands for none
    Answers,     \* what the teacher may answer: regenerating may differ
    MaxRecords,  \* bound: no input file is longer
    MaxShards,   \* bound: no configuration cuts that many records in more
    MaxFaults,   \* bound: losses and corruptions of files on the Drive
    MaxCrashes,  \* bound: preempted or killed sessions
    SoleWriter,  \* TRUE: one generating session at a time, and the first command on a
                 \* directory is alone on it until it has written its identity
    LiveEdits,   \* TRUE: code and input are also replaced under a session
    None, Garbled

Shards == 0 .. MaxShards - 1

NumShards(c, n) == (n + ShardSize[c] - 1) \div ShardSize[c]

ASSUME ShapeAssumption ==
    /\ MaxRecords \in Nat \ {0} /\ MaxShards \in Nat \ {0}
    /\ MaxFaults \in Nat /\ MaxCrashes \in Nat
    /\ SoleWriter \in BOOLEAN /\ LiveEdits \in BOOLEAN
    /\ Limits \subseteq Nat \ {0}
    /\ ShardSize \in [Configs -> Nat \ {0}]
    /\ Records \in [Inputs -> Seq(RecordIds)]
    /\ \A i \in Inputs : Len(Records[i]) \in 1 .. MaxRecords
    /\ \A c \in Configs : \A n \in 1 .. MaxRecords :
           NumShards(c, n) \in 1 .. MaxShards

ASSUME SentinelAssumption ==
    /\ None # Garbled
    /\ None \notin Inputs \cup Codes \cup Configs

VARIABLES
    identity,    \* run-identity.json on the Drive, or None
    payload,     \* shards/shard-k.jsonl, or None, or Garbled
    sidecar,     \* shards/shard-k.sha256: the contents it vouches for, or None
    progress,    \* progress.json, or None
    inputFile,   \* the version of the input file now in place
    diskCode,    \* the code files now on each session's machine
    pc,          \* where each session is
    job,         \* its arguments, the code it imported and what it has read
    k,           \* the shard it is at: shard_index
    tally,       \* completed_shards
    local,       \* the shard it has built in work_dir, or None
    out,         \* a loading session's output: the shards parsed so far
    corpus,      \* what the last load to finish returned, or None
    faults, crashes

drive == <<identity, payload, sidecar, progress>>
world == <<inputFile, diskCode, faults, crashes>>
session == <<pc, job, k, tally, local, out>>
vars == <<drive, world, session, corpus>>

NoJob ==
    [goal |-> None, phase |-> None, config |-> None, limit |-> 0, code |-> None,
     recs |-> <<>>, input |-> None, claim |-> None]

Init ==
    /\ identity = None /\ progress = None /\ corpus = None
    /\ payload = [j \in Shards |-> None]
    /\ sidecar = [j \in Shards |-> None]
    /\ inputFile \in Inputs
    /\ diskCode \in [Sessions -> Codes]
    /\ pc = [s \in Sessions |-> "idle"]
    /\ job = [s \in Sessions |-> NoJob]
    /\ k = [s \in Sessions |-> 0]
    /\ tally = [s \in Sessions |-> 0]
    /\ local = [s \in Sessions |-> None]
    /\ out = [s \in Sessions |-> <<>>]
    /\ faults = 0 /\ crashes = 0

----------------------------------------------------------------------------
(* Shards *)

Take(recs, n) == SubSeq(recs, 1, IF n < Len(recs) THEN n ELSE Len(recs))

FirstOf(c, j) == j * ShardSize[c]

Slice(c, recs, j) ==
    SubSeq(recs, FirstOf(c, j) + 1,
           IF FirstOf(c, j) + ShardSize[c] < Len(recs)
           THEN FirstOf(c, j) + ShardSize[c] ELSE Len(recs))

Total(s) == NumShards(job[s].config, Len(job[s].recs))

\* The commit marker is there and vouches for what the payload now holds.
Sealed(j) == payload[j] # None /\ sidecar[j] = payload[j]

\* Session s would accept payload p as shard j of its own run.
Binds(s, p, j) ==
    /\ p # Garbled
    /\ p.rows = Slice(job[s].config, job[s].recs, j)
    /\ p.config = job[s].config
    /\ p.code = diskCode[s]
    /\ p.input = job[s].input
    /\ p.start = FirstOf(job[s].config, j)

\* Mutant of Accepts: a shard is trusted before its sidecar was copied.
AcceptsUnsealed(s, j) == payload[j] # None /\ Binds(s, payload[j], j)

\* Mutant of Open: a bad checksum means regenerate.
OpenIfBad(j) == sidecar[j] = None \/ sidecar[j] # payload[j]

\* _validate_durable_shard returns True, returns False, or raises.
Accepts(s, j) == Sealed(j) /\ Binds(s, payload[j], j)
Open(j) == sidecar[j] = None
Rejects(s, j) == ~Open(j) /\ ~Accepts(s, j)

----------------------------------------------------------------------------
(* Steps of a session *)

Goto(s, label) == pc' = [pc EXCEPT ![s] = label]

\* The process ends, by returning or by raising: its memory is gone.
End(s) ==
    /\ Goto(s, "idle")
    /\ job' = [job EXCEPT ![s] = NoJob]
    /\ k' = [k EXCEPT ![s] = 0]
    /\ tally' = [tally EXCEPT ![s] = 0]
    /\ local' = [local EXCEPT ![s] = None]
    /\ out' = [out EXCEPT ![s] = <<>>]

Generating(s) == pc[s] # "idle" /\ job[s].goal = "generate"

\* The arguments of a session that has read nothing yet.
Fresh(goal, phase, c, limit, code) ==
    [goal |-> goal, phase |-> phase, config |-> c, limit |-> limit, code |-> code,
     recs |-> <<>>, input |-> None, claim |-> None]

\* A command is started: the status of a run, a generation (which inspects
\* first), or a load of the finished corpus.
Launch(s, goal, c, limit) ==
    /\ pc[s] = "idle"
    /\ SoleWriter /\ goal = "generate" => \A t \in Sessions : ~Generating(t)
    /\ SoleWriter /\ identity = None => \A t \in Sessions : pc[t] = "idle"
    /\ Goto(s, "read")
    /\ job' = [job EXCEPT ![s] = Fresh(goal, IF goal = "load" THEN "load" ELSE "inspect",
                                       c, limit, diskCode[s])]
    /\ UNCHANGED <<drive, world, k, tally, local, out, corpus>>

\* load_normalized_training_records_jsonl, and records[:limit].
ReadRecords(s) ==
    /\ pc[s] = "read"
    /\ Goto(s, "hash")
    /\ job' = [job EXCEPT ![s].recs = Take(Records[inputFile], job[s].limit)]
    /\ UNCHANGED <<drive, world, k, tally, local, out, corpus>>

\* The file is hashed after it was parsed, by a second read.
HashInput(s) ==
    /\ pc[s] = "hash"
    /\ Goto(s, "identify")
    /\ job' = [job EXCEPT ![s].input = inputFile]
    /\ UNCHANGED <<drive, world, k, tally, local, out, corpus>>

\* The identity this session expects; the code is hashed now, on the disk.
RunIdentity(s) ==
    [config |-> job[s].config, code |-> diskCode[s],
     input |-> job[s].input, total |-> Len(job[s].recs)]

CheckIdentity(s) ==
    /\ pc[s] = "identify"
    /\ \/ /\ identity = None
          /\ Goto(s, "claim")
          /\ job' = [job EXCEPT ![s].claim = RunIdentity(s)]
          /\ UNCHANGED <<k, tally, local, out>>
       \/ /\ identity = RunIdentity(s)
          /\ Goto(s, "scan")
          /\ UNCHANGED <<job, k, tally, local, out>>
       \/ /\ identity \notin {None, RunIdentity(s)}
          /\ End(s)
    /\ UNCHANGED <<drive, world, corpus>>

ClaimIdentity(s) ==
    /\ pc[s] = "claim"
    /\ identity' = job[s].claim
    /\ Goto(s, "scan")
    /\ UNCHANGED <<payload, sidecar, progress, world, job, k, tally, local, out, corpus>>

\* The shard at hand validates: it is counted, or read a second time to load it.
ScanSealed(s) ==
    /\ pc[s] = "scan" /\ k[s] < Total(s) /\ Accepts(s, k[s])
    /\ IF job[s].phase = "load"
       THEN Goto(s, "parse") /\ UNCHANGED <<k, tally>>
       ELSE /\ k' = [k EXCEPT ![s] = @ + 1]
            /\ tally' = [tally EXCEPT ![s] = @ + 1]
            /\ UNCHANGED pc
    /\ UNCHANGED <<drive, world, job, local, out, corpus>>

\* Mutant of ScanOpen: a load passes over it as an inspection does.
ScanOpenSkips(s) ==
    /\ pc[s] = "scan" /\ k[s] < Total(s) /\ Open(k[s])
    /\ \/ /\ job[s].phase # "run"
          /\ k' = [k EXCEPT ![s] = @ + 1]
          /\ UNCHANGED <<pc, job, tally, local, out>>
       \/ /\ job[s].phase = "run"
          /\ Goto(s, "teach")
          /\ UNCHANGED <<job, k, tally, local, out>>
    /\ UNCHANGED <<drive, world, corpus>>

\* It is missing or unsealed: listed as missing, generated, or fatal to a load.
ScanOpen(s) ==
    /\ pc[s] = "scan" /\ k[s] < Total(s) /\ Open(k[s])
    /\ \/ /\ job[s].phase = "inspect"
          /\ k' = [k EXCEPT ![s] = @ + 1]
          /\ UNCHANGED <<pc, job, tally, local, out>>
       \/ /\ job[s].phase = "run"
          /\ Goto(s, "teach")
          /\ UNCHANGED <<job, k, tally, local, out>>
       \/ /\ job[s].phase = "load"
          /\ End(s)
    /\ UNCHANGED <<drive, world, corpus>>

\* It contradicts its sidecar or belongs to another run: the session raises.
ScanRejected(s) ==
    /\ pc[s] = "scan" /\ k[s] < Total(s) /\ Rejects(s, k[s])
    /\ End(s)
    /\ UNCHANGED <<drive, world, corpus>>

\* backend.generate, _build_shard_records and the local files.  The rows are
\* labelled with the code on the disk now, which need not be the one imported at
\* launch: nothing on the Drive says who made a shard.
Teach(s) ==
    /\ pc[s] = "teach"
    /\ \E answer \in Answers :
         local' = [local EXCEPT ![s] =
            [config |-> job[s].config, code |-> diskCode[s],
             input |-> job[s].input, start |-> FirstOf(job[s].config, k[s]),
             rows |-> Slice(job[s].config, job[s].recs, k[s]), answer |-> answer]]
    /\ Goto(s, "copy")
    /\ UNCHANGED <<drive, world, job, k, tally, out, corpus>>

\* The teacher's completions are too few, or one of them has no final answer.
TeachFails(s) ==
    /\ pc[s] = "teach"
    /\ End(s)
    /\ UNCHANGED <<drive, world, corpus>>

CopyPayload(s) ==
    /\ pc[s] = "copy"
    /\ payload' = [payload EXCEPT ![k[s]] = local[s]]
    /\ Goto(s, "seal")
    /\ UNCHANGED <<identity, sidecar, progress, world, job, k, tally, local, out, corpus>>

CopySidecar(s) ==
    /\ pc[s] = "seal"
    /\ sidecar' = [sidecar EXCEPT ![k[s]] = local[s]]
    /\ Goto(s, "confirm")
    /\ UNCHANGED <<identity, payload, progress, world, job, k, tally, local, out, corpus>>

Report(s, n) ==
    progress' = [config |-> job[s].config, input |-> job[s].input, done |-> n]

\* The copied shard is validated again before it counts as progress.
Confirm(s) ==
    /\ pc[s] = "confirm" /\ Accepts(s, k[s])
    /\ tally' = [tally EXCEPT ![s] = @ + 1]
    /\ k' = [k EXCEPT ![s] = @ + 1]
    /\ local' = [local EXCEPT ![s] = None]
    /\ Report(s, tally'[s])
    /\ Goto(s, "scan")
    /\ UNCHANGED <<identity, payload, sidecar, world, job, out, corpus>>

ConfirmFails(s) ==
    /\ pc[s] = "confirm" /\ ~Accepts(s, k[s])
    /\ End(s)
    /\ UNCHANGED <<drive, world, corpus>>

\* _parse_shard and distilled_record_from_shard: the payload as it is now.
Parses(s) ==
    /\ payload[k[s]] \notin {None, Garbled}
    /\ payload[k[s]].rows = Slice(job[s].config, job[s].recs, k[s])

Parse(s) ==
    /\ pc[s] = "parse" /\ Parses(s)
    /\ out' = [out EXCEPT ![s] = Append(@, payload[k[s]])]
    /\ k' = [k EXCEPT ![s] = @ + 1]
    /\ Goto(s, "scan")
    /\ UNCHANGED <<drive, world, job, tally, local, corpus>>

ParseFails(s) ==
    /\ pc[s] = "parse" /\ ~Parses(s)
    /\ End(s)
    /\ UNCHANGED <<drive, world, corpus>>

\* Mutants of FinishInspect: the counter of the inspection is kept, and a
\* directory with missing shards is inspected again instead of filled.
FinishInspectKeepsTally(s) ==
    /\ pc[s] = "scan" /\ job[s].phase = "inspect" /\ k[s] = Total(s)
    /\ Report(s, tally[s])
    /\ IF job[s].goal = "generate" /\ tally[s] < Total(s)
       THEN /\ Goto(s, "read")
            /\ job' = [job EXCEPT ![s] = Fresh("generate", "run", job[s].config,
                                               job[s].limit, job[s].code)]
            /\ k' = [k EXCEPT ![s] = 0]
            /\ UNCHANGED <<tally, local, out>>
       ELSE End(s)
    /\ UNCHANGED <<identity, payload, sidecar, world, corpus>>

\* Every shard was inspected; a generation goes on if some were missing.
FinishInspect(s) ==
    /\ pc[s] = "scan" /\ job[s].phase = "inspect" /\ k[s] = Total(s)
    /\ Report(s, tally[s])
    /\ IF job[s].goal = "generate" /\ tally[s] < Total(s)
       THEN /\ Goto(s, "read")
            /\ job' = [job EXCEPT ![s] = Fresh("generate", "run", job[s].config,
                                               job[s].limit, job[s].code)]
            /\ k' = [k EXCEPT ![s] = 0]
            /\ tally' = [tally EXCEPT ![s] = 0]
            /\ UNCHANGED <<local, out>>
       ELSE End(s)
    /\ UNCHANGED <<identity, payload, sidecar, world, corpus>>

FinishRun(s) ==
    /\ pc[s] = "scan" /\ job[s].phase = "run" /\ k[s] = Total(s)
    /\ Report(s, tally[s])
    /\ End(s)
    /\ UNCHANGED <<identity, payload, sidecar, world, corpus>>

FinishLoad(s) ==
    /\ pc[s] = "scan" /\ job[s].phase = "load" /\ k[s] = Total(s)
    /\ corpus' = [config |-> job[s].config, input |-> job[s].input, code |-> job[s].code,
                  limit |-> job[s].limit, recs |-> job[s].recs, shards |-> out[s]]
    /\ End(s)
    /\ UNCHANGED <<drive, world>>

SessionStep(s) ==
    \/ ReadRecords(s) \/ HashInput(s) \/ CheckIdentity(s) \/ ClaimIdentity(s)
    \/ ScanSealed(s) \/ ScanOpen(s) \/ ScanRejected(s)
    \/ Teach(s) \/ TeachFails(s) \/ CopyPayload(s) \/ CopySidecar(s)
    \/ Confirm(s) \/ ConfirmFails(s) \/ Parse(s) \/ ParseFails(s)
    \/ FinishInspect(s) \/ FinishRun(s) \/ FinishLoad(s)

----------------------------------------------------------------------------
(* The world around the sessions *)

\* The runtime is preempted or the process killed.
Crash(s) ==
    /\ pc[s] # "idle" /\ crashes < MaxCrashes
    /\ crashes' = crashes + 1
    /\ End(s)
    /\ UNCHANGED <<drive, inputFile, diskCode, faults, corpus>>

\* Another code ZIP is unpacked on the machine of session s.
ReplaceCode(s, c) ==
    /\ diskCode[s] # c
    /\ LiveEdits \/ pc[s] = "idle"
    /\ diskCode' = [diskCode EXCEPT ![s] = c]
    /\ UNCHANGED <<drive, inputFile, faults, crashes, session, corpus>>

ReplaceInput(i) ==
    /\ inputFile # i
    /\ LiveEdits \/ \A s \in Sessions : pc[s] = "idle"
    /\ inputFile' = i
    /\ UNCHANGED <<drive, diskCode, faults, crashes, session, corpus>>

\* The Drive loses or damages one file of a shard.
DriveFault(j) ==
    /\ faults < MaxFaults
    /\ faults' = faults + 1
    /\ \/ /\ payload[j] # None
          /\ payload' = [payload EXCEPT ![j] = None]
          /\ UNCHANGED sidecar
       \/ /\ payload[j] \notin {None, Garbled}
          /\ payload' = [payload EXCEPT ![j] = Garbled]
          /\ UNCHANGED sidecar
       \/ /\ sidecar[j] # None
          /\ sidecar' = [sidecar EXCEPT ![j] = None]
          /\ UNCHANGED payload
    /\ UNCHANGED <<identity, progress, inputFile, diskCode, crashes, session, corpus>>

Goals == {"status", "generate", "load"}

Next ==
    \/ \E s \in Sessions :
         \/ \E goal \in Goals, c \in Configs, limit \in Limits : Launch(s, goal, c, limit)
         \/ SessionStep(s)
         \/ Crash(s)
         \/ \E c \in Codes : ReplaceCode(s, c)
    \/ \E i \in Inputs : ReplaceInput(i)
    \/ \E j \in Shards : DriveFault(j)

Spec == Init /\ [][Next]_vars

----------------------------------------------------------------------------
(* Properties *)

Payloads ==
    [config : Configs, code : Codes, input : Inputs, start : Nat,
     rows : Seq(RecordIds), answer : Answers]

Identities ==
    [config : Configs, code : Codes, input : Inputs, total : 1 .. MaxRecords]

Jobs ==
    [goal : Goals, phase : {"inspect", "run", "load"}, config : Configs,
     limit : Limits, code : Codes, recs : Seq(RecordIds),
     input : Inputs \cup {None}, claim : Identities \cup {None}]

Corpora ==
    [config : Configs, input : Inputs, code : Codes, limit : Limits,
     recs : Seq(RecordIds), shards : Seq(Payloads)]

\* "Not there" and "damaged" are told apart from everything a file may hold.
ASSUME ContentsAssumption ==
    /\ None \notin Identities \cup Payloads \cup Corpora
    /\ Garbled \notin Payloads

Places ==
    {"idle", "read", "hash", "identify", "claim", "scan", "teach", "copy", "seal",
     "confirm", "parse"}

DriveOK ==
    /\ identity \in Identities \cup {None}
    /\ payload \in [Shards -> Payloads \cup {None, Garbled}]
    /\ sidecar \in [Shards -> Payloads \cup {None}]
    /\ progress \in [config : Configs, input : Inputs, done : 0 .. MaxShards] \cup {None}
    /\ inputFile \in Inputs
    /\ diskCode \in [Sessions -> Codes]
    /\ faults \in 0 .. MaxFaults /\ crashes \in 0 .. MaxCrashes

SessionsOK ==
    /\ pc \in [Sessions -> Places]
    /\ job \in [Sessions -> Jobs \cup {NoJob}]
    /\ k \in [Sessions -> 0 .. MaxShards]
    /\ tally \in [Sessions -> 0 .. MaxShards]
    /\ local \in [Sessions -> Payloads \cup {None}]
    /\ out \in [Sessions -> Seq(Payloads)]
    /\ \A s \in Sessions : pc[s] # "idle" => job[s] \in Jobs

\* The type invariant: a session that is not idle has its arguments.
TypeOK == DriveOK /\ SessionsOK

\* The rows load_completed_distilled_records returns answer the very records it
\* read, in their order, whoever else was at work and whatever the Drive lost:
\* distilled_record_from_shard compares each row once more after the second read.
CorpusRowsMatchSource ==
    corpus # None =>
        /\ Len(corpus.shards) = NumShards(corpus.config, Len(corpus.recs))
        /\ \A j \in 1 .. Len(corpus.shards) :
              corpus.shards[j].rows = Slice(corpus.config, corpus.recs, j - 1)

\* A loaded corpus binds to one config, one implementation and one input file,
\* and its rows answer the records of the file version whose hash they carry
\* ("must bind to the exact source record, config, and input file").
CorpusIsBound ==
    corpus # None =>
        /\ CorpusRowsMatchSource
        /\ corpus.recs = Take(Records[corpus.input], corpus.limit)
        /\ \A j \in 1 .. Len(corpus.shards) :
              /\ corpus.shards[j].config = corpus.config
              /\ corpus.shards[j].input = corpus.input
              /\ corpus.shards[j].code = corpus.code

\* "A sealed shard with a bad checksum fails closed as corruption": no session
\* writes over a shard whose sidecar contradicts it; only the Drive itself may
\* change it further.
CorruptionIsNotOverwritten ==
    [][\A j \in Shards :
          sidecar[j] # None /\ sidecar[j] # payload[j] /\ faults' = faults
             => payload'[j] = payload[j] /\ sidecar'[j] = sidecar[j]]_vars

\* The promise of a sealed directory: shards written once, and every load a
\* snapshot though it reads the shards one by one beside a generating session;
\* what the Drive loses is counted, and excuses no session.
Ledger == INSTANCE ShardLedger WITH
    ledger <- [j \in Shards |-> IF Sealed(j) THEN payload[j] ELSE None],
    corpus <- IF corpus = None THEN None ELSE corpus.shards,
    losses <- faults
LedgerSpec == Ledger!Spec
====
