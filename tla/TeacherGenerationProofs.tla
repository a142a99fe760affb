---- MODULE TeacherGenerationProofs ----
(***************************************************************************)
(* Theorems about TeacherGeneration, for any number of sessions, shards,   *)
(* configurations, input versions, crashes and faults; and about what      *)
(* stands between its corpus and the student (TeacherCorpus,               *)
(* SemanticContracts), for any tasks, completions, contracts and crashes.  *)
(***************************************************************************)
EXTENDS StudentCorpus, FiniteSetTheorems, WellFoundedInduction, SequenceTheorems, TLAPS

----------------------------------------------------------------------------
(* The helpers *)

LEMMA TotalInBounds ==
  ASSUME NEW c \in Configs, NEW n \in 1 .. MaxRecords
  PROVE  NumShards(c, n) \in 1 .. MaxShards
BY ShapeAssumption

LEMMA TakeType ==
  ASSUME NEW i \in Inputs, NEW n \in Limits
  PROVE  /\ Take(Records[i], n) \in Seq(RecordIds)
         /\ Len(Take(Records[i], n)) \in 1 .. MaxRecords
<1> DEFINE r == Records[i]
           m == IF n < Len(r) THEN n ELSE Len(r)
<1>1. /\ r \in Seq(RecordIds) /\ Len(r) \in 1 .. MaxRecords
      /\ n \in Nat \ {0} /\ MaxRecords \in Nat
  BY ShapeAssumption
<1>2. m \in 1 .. Len(r) /\ m <= MaxRecords
  BY <1>1
<1>3. \A j \in 1 .. m : r[j] \in RecordIds
  BY <1>1, <1>2, ElementOfSeq
<1>4. SubSeq(r, 1, m) \in Seq(RecordIds) /\ Len(SubSeq(r, 1, m)) = m
  <2> HIDE DEF r, m
  <2>1. m \in Int /\ 1 \in Int /\ 1 <= m /\ m - 1 + 1 = m
    BY <1>1, <1>2
  <2> QED BY <2>1, <1>3, SubSeqProperties
<1> QED BY <1>1, <1>2, <1>4 DEF Take

LEMMA SliceType ==
  ASSUME NEW c \in Configs, NEW recs \in Seq(RecordIds), NEW j \in Nat
  PROVE  FirstOf(c, j) \in Nat /\ Slice(c, recs, j) \in Seq(RecordIds)
<1> DEFINE a == FirstOf(c, j)
           b == IF a + ShardSize[c] < Len(recs) THEN a + ShardSize[c] ELSE Len(recs)
<1>1. ShardSize[c] \in Nat /\ a \in Nat
  BY ShapeAssumption DEF FirstOf
<1>2. b \in Nat /\ b <= Len(recs) /\ a + 1 \in Int
  BY <1>1
<1>3. \A i \in a + 1 .. b : i \in 1 .. Len(recs)
  BY <1>1, <1>2
<1>4. \A i \in a + 1 .. b : recs[i] \in RecordIds
  BY <1>3, ElementOfSeq
<1>5. SubSeq(recs, a + 1, b) \in Seq(RecordIds)
  <2> HIDE DEF a, b
  <2> QED BY <1>2, <1>4, SubSeqProperties
<1> QED BY <1>1, <1>5 DEF Slice

----------------------------------------------------------------------------
(* Type correctness.  TypeOK is not inductive: that a shard index stays in *)
(* bounds depends on the records a session has read by the time it scans.  *)

Prepared(s) ==
    /\ pc[s] \notin {"idle", "read"} => Len(job[s].recs) \in 1 .. MaxRecords
    /\ pc[s] \notin {"idle", "read", "hash"} => job[s].input \in Inputs
    /\ pc[s] = "claim" => job[s].claim \in Identities
    /\ pc[s] \in {"idle", "read", "hash", "identify", "claim"} => k[s] = 0
    /\ pc[s] = "scan" => k[s] <= Total(s)
    /\ pc[s] \in {"teach", "copy", "seal", "confirm", "parse"} => k[s] < Total(s)
    /\ pc[s] \in {"copy", "seal", "confirm"} => local[s] \in Payloads
    /\ tally[s] <= k[s]

TypeInv == DriveOK /\ SessionsOK /\ \A s \in Sessions : Prepared(s)

LEMMA TotalType ==
  ASSUME SessionsOK, NEW s \in Sessions, Prepared(s), pc[s] \notin {"idle", "read"}
  PROVE  Total(s) \in 1 .. MaxShards
<1>1. job[s].config \in Configs /\ Len(job[s].recs) \in 1 .. MaxRecords
  BY DEF SessionsOK, Prepared, Jobs
<1> QED BY <1>1, TotalInBounds DEF Total

LEMMA InitTypeInv == Init => TypeInv
<1> SUFFICES ASSUME Init PROVE TypeInv
  OBVIOUS
<1>1. DriveOK
  BY ShapeAssumption DEF Init, DriveOK
<1>2. SessionsOK
  BY ShapeAssumption DEF Init, SessionsOK, Places
<1>3. \A s \in Sessions : Prepared(s)
  BY DEF Init, Prepared
<1> QED BY <1>1, <1>2, <1>3 DEF TypeInv

\* A session that ends leaves every session well formed.
LEMMA EndTypeInv ==
  ASSUME SessionsOK, \A s \in Sessions : Prepared(s), NEW t \in Sessions, End(t)
  PROVE  SessionsOK' /\ \A s \in Sessions : Prepared(s)'
<1>1. SessionsOK'
  BY ShapeAssumption DEF SessionsOK, End, Goto, Places
<1>2. ASSUME NEW s \in Sessions PROVE Prepared(s)'
  <2>1. CASE s = t
    BY <2>1 DEF Prepared, End, Goto, SessionsOK, Total
  <2>2. CASE s # t
    BY <2>2 DEF Prepared, End, Goto, SessionsOK, Total
  <2> QED BY <2>1, <2>2
<1> QED BY <1>1, <1>2

\* What holds of a session holds of it still when its own state is unchanged.
LEMMA PreparedFrame ==
  ASSUME NEW s \in Sessions, Prepared(s),
         pc'[s] = pc[s], job'[s] = job[s], k'[s] = k[s],
         tally'[s] = tally[s], local'[s] = local[s]
  PROVE  Prepared(s)'
BY DEF Prepared, Total

\* A step that ends its session and leaves the Drive's files well formed.
LEMMA EndingStep ==
  ASSUME TypeInv, NEW t \in Sessions, End(t), DriveOK'
  PROVE  TypeInv'
BY EndTypeInv DEF TypeInv

LEMMA DriveFrame ==
  ASSUME DriveOK, UNCHANGED <<drive, world>>
  PROVE  DriveOK'
BY DEF DriveOK, drive, world

LEMMA FreshType ==
  ASSUME NEW goal \in Goals, NEW phase \in {"inspect", "run", "load"}, NEW c \in Configs,
         NEW limit \in Limits, NEW code \in Codes
  PROVE  Fresh(goal, phase, c, limit, code) \in Jobs
BY DEF Fresh, Jobs

LEMMA LaunchTypeInv ==
  ASSUME TypeInv, NEW t \in Sessions, NEW goal \in Goals, NEW c \in Configs,
         NEW limit \in Limits, Launch(t, goal, c, limit)
  PROVE  TypeInv'
<1>1. DriveOK'
  BY DriveFrame DEF TypeInv, Launch
<1> DEFINE j == Fresh(goal, IF goal = "load" THEN "load" ELSE "inspect", c, limit, diskCode[t])
<1>a. job' = [job EXCEPT ![t] = j]
  BY DEF Launch
<1>b. j \in Jobs
  BY FreshType DEF TypeInv, DriveOK
<1> HIDE DEF j
<1>2. job' = [job EXCEPT ![t] = job'[t]] /\ job'[t] \in Jobs
  BY <1>a, <1>b DEF TypeInv, SessionsOK
<1>3. SessionsOK'
  BY <1>2 DEF TypeInv, SessionsOK, Launch, Goto, Places
<1>4. Prepared(t)'
  BY DEF TypeInv, SessionsOK, Prepared, Launch, Goto
<1>5. ASSUME NEW s \in Sessions, s # t PROVE Prepared(s)'
  BY <1>5, PreparedFrame DEF TypeInv, SessionsOK, Launch, Goto
<1> QED BY <1>1, <1>3, <1>4, <1>5 DEF TypeInv

LEMMA ReadRecordsTypeInv ==
  ASSUME TypeInv, NEW t \in Sessions, ReadRecords(t)
  PROVE  TypeInv'
<1>1. DriveOK'
  BY DriveFrame DEF TypeInv, ReadRecords
<1>2. job[t] \in Jobs /\ inputFile \in Inputs
  BY DEF TypeInv, SessionsOK, DriveOK, ReadRecords
<1> DEFINE r == Take(Records[inputFile], job[t].limit)
<1>3. r \in Seq(RecordIds) /\ Len(r) \in 1 .. MaxRecords
  BY <1>2, TakeType DEF Jobs
<1> HIDE DEF r
<1>4. job' = [job EXCEPT ![t] = job'[t]] /\ job'[t] \in Jobs /\ job'[t].recs = r
  BY <1>2, <1>3 DEF TypeInv, SessionsOK, ReadRecords, Jobs, r
<1>5. SessionsOK'
  BY <1>4 DEF TypeInv, SessionsOK, ReadRecords, Goto, Places
<1>6. Prepared(t)'
  BY <1>3, <1>4 DEF TypeInv, SessionsOK, Prepared, ReadRecords, Goto
<1>7. ASSUME NEW s \in Sessions, s # t PROVE Prepared(s)'
  BY <1>7, PreparedFrame DEF TypeInv, SessionsOK, ReadRecords, Goto
<1> QED BY <1>1, <1>5, <1>6, <1>7 DEF TypeInv

LEMMA HashInputTypeInv ==
  ASSUME TypeInv, NEW t \in Sessions, HashInput(t)
  PROVE  TypeInv'
<1>1. DriveOK'
  BY DriveFrame DEF TypeInv, HashInput
<1>2. /\ job' = [job EXCEPT ![t] = job'[t]] /\ job'[t] \in Jobs
      /\ job'[t].recs = job[t].recs /\ job'[t].input \in Inputs
  BY DEF TypeInv, SessionsOK, DriveOK, HashInput, Jobs
<1>3. SessionsOK'
  BY <1>2 DEF TypeInv, SessionsOK, HashInput, Goto, Places
<1>4. Prepared(t)'
  BY <1>2 DEF TypeInv, SessionsOK, Prepared, HashInput, Goto
<1>5. ASSUME NEW s \in Sessions, s # t PROVE Prepared(s)'
  BY <1>5, PreparedFrame DEF TypeInv, SessionsOK, HashInput, Goto
<1> QED BY <1>1, <1>3, <1>4, <1>5 DEF TypeInv

LEMMA CheckIdentityTypeInv ==
  ASSUME TypeInv, NEW t \in Sessions, CheckIdentity(t)
  PROVE  TypeInv'
<1>1. DriveOK'
  BY DriveFrame DEF TypeInv, CheckIdentity
<1>2. pc[t] = "identify" /\ job[t] \in Jobs /\ Prepared(t)
  BY DEF TypeInv, SessionsOK, CheckIdentity
<1>3. RunIdentity(t) \in Identities
  BY <1>2 DEF TypeInv, DriveOK, Prepared, RunIdentity, Identities, Jobs
<1>4. CASE End(t)
  BY <1>1, <1>4, EndingStep
<1>5. CASE /\ Goto(t, "claim")
           /\ job' = [job EXCEPT ![t].claim = RunIdentity(t)]
           /\ UNCHANGED <<k, tally, local, out>>
  <2>1. /\ job' = [job EXCEPT ![t] = job'[t]] /\ job'[t] \in Jobs
        /\ job'[t].recs = job[t].recs /\ job'[t].input = job[t].input
        /\ job'[t].claim \in Identities
    BY <1>2, <1>3, <1>5 DEF TypeInv, SessionsOK, Jobs
  <2>2. SessionsOK'
    BY <2>1, <1>5 DEF TypeInv, SessionsOK, Goto, Places
  <2>3. Prepared(t)'
    BY <2>1, <1>2, <1>5 DEF TypeInv, SessionsOK, Prepared, Goto
  <2>4. ASSUME NEW s \in Sessions, s # t PROVE Prepared(s)'
    BY <1>5, <2>4, PreparedFrame DEF TypeInv, SessionsOK, Goto
  <2> QED BY <1>1, <2>2, <2>3, <2>4 DEF TypeInv
<1>6. CASE Goto(t, "scan") /\ UNCHANGED <<job, k, tally, local, out>>
  <2>1. Total(t) \in 1 .. MaxShards
    BY <1>2, TotalType DEF TypeInv
  <2>2. SessionsOK'
    BY <1>2, <1>6 DEF TypeInv, SessionsOK, Goto, Places
  <2>3. Prepared(t)'
    BY <2>1, <1>2, <1>6 DEF TypeInv, SessionsOK, Prepared, Goto, Total
  <2>4. ASSUME NEW s \in Sessions, s # t PROVE Prepared(s)'
    BY <1>6, <2>4, PreparedFrame DEF TypeInv, SessionsOK, Goto
  <2> QED BY <1>1, <2>2, <2>3, <2>4 DEF TypeInv
<1> QED BY <1>4, <1>5, <1>6 DEF CheckIdentity

LEMMA ClaimIdentityTypeInv ==
  ASSUME TypeInv, NEW t \in Sessions, ClaimIdentity(t)
  PROVE  TypeInv'
<1>1. pc[t] = "claim" /\ Prepared(t) /\ Total(t) \in 1 .. MaxShards
  BY TotalType DEF TypeInv, ClaimIdentity
<1>2. DriveOK'
  BY <1>1 DEF TypeInv, DriveOK, Prepared, ClaimIdentity, world
<1>3. SessionsOK'
  BY <1>1 DEF TypeInv, SessionsOK, ClaimIdentity, Goto, Places
<1>4. Prepared(t)'
  BY <1>1 DEF TypeInv, SessionsOK, Prepared, ClaimIdentity, Goto, Total
<1>5. ASSUME NEW s \in Sessions, s # t PROVE Prepared(s)'
  BY <1>5, PreparedFrame DEF TypeInv, SessionsOK, ClaimIdentity, Goto
<1> QED BY <1>2, <1>3, <1>4, <1>5 DEF TypeInv

LEMMA ScanSealedTypeInv ==
  ASSUME TypeInv, NEW t \in Sessions, ScanSealed(t)
  PROVE  TypeInv'
<1>a. pc[t] = "scan" /\ Prepared(t) /\ SessionsOK /\ k[t] < Total(t)
  BY DEF TypeInv, ScanSealed
<1>b. Total(t) \in 1 .. MaxShards /\ MaxShards \in Nat
  BY <1>a, TotalType, ShapeAssumption
<1>1. /\ pc[t] = "scan" /\ Prepared(t) /\ k[t] < Total(t) /\ Total(t) \in 1 .. MaxShards
      /\ k[t] \in Nat /\ tally[t] \in Nat /\ tally[t] <= k[t]
      /\ MaxShards \in Nat /\ k[t] + 1 \in 0 .. MaxShards
      /\ tally[t] + 1 \in 0 .. MaxShards
  BY <1>a, <1>b DEF SessionsOK, Prepared
<1>2. DriveOK'
  BY DriveFrame DEF TypeInv, ScanSealed
<1>3. SessionsOK'
  <2>1. CASE job[t].phase = "load"
    BY <2>1 DEF TypeInv, SessionsOK, ScanSealed, Goto, Places
  <2>2. CASE job[t].phase # "load"
    BY <1>1, <2>2 DEF TypeInv, SessionsOK, ScanSealed, Goto, Places
  <2> QED BY <2>1, <2>2
<1>4. Prepared(t)'
  BY <1>1 DEF TypeInv, SessionsOK, Prepared, ScanSealed, Goto, Total
<1>5. ASSUME NEW s \in Sessions, s # t PROVE Prepared(s)'
  BY <1>5, PreparedFrame DEF TypeInv, SessionsOK, ScanSealed, Goto
<1> QED BY <1>2, <1>3, <1>4, <1>5 DEF TypeInv

\* The place a session is at while it works on one shard.
LEMMA AtShard ==
  ASSUME TypeInv, NEW t \in Sessions,
         \/ pc[t] \in {"teach", "copy", "seal", "confirm", "parse"}
         \/ pc[t] = "scan" /\ k[t] < Total(t)
  PROVE  /\ Prepared(t) /\ SessionsOK /\ MaxShards \in Nat
         /\ job[t] \in Jobs /\ job[t].input \in Inputs
         /\ k[t] \in Nat /\ tally[t] \in Nat /\ tally[t] <= k[t] /\ k[t] < Total(t)
         /\ k[t] \in Shards /\ k[t] + 1 \in 0 .. MaxShards
         /\ tally[t] + 1 \in 0 .. MaxShards /\ Total(t) \in 1 .. MaxShards
<1>1. Prepared(t) /\ SessionsOK /\ MaxShards \in Nat /\ pc[t] \notin {"idle", "read"}
  BY ShapeAssumption DEF TypeInv
<1>2. Total(t) \in 1 .. MaxShards
  BY <1>1, TotalType
<1>3. k[t] \in Nat /\ tally[t] \in Nat /\ tally[t] <= k[t] /\ k[t] < Total(t)
  BY <1>1, <1>2 DEF SessionsOK, Prepared
<1>4. job[t] \in Jobs /\ job[t].input \in Inputs
  BY <1>1 DEF SessionsOK, Prepared
<1> QED BY <1>1, <1>2, <1>3, <1>4 DEF Shards

\* A step that only moves one session to another place at the same shard.
LEMMA MoveTypeInv ==
  ASSUME TypeInv, NEW t \in Sessions,
         pc' \in [Sessions -> Places], local' \in [Sessions -> Payloads \cup {None}],
         \A s \in Sessions : s # t => pc'[s] = pc[s] /\ local'[s] = local[s],
         pc[t] \in {"scan", "teach", "copy", "seal"}, k[t] < Total(t),
         pc'[t] \in {"teach", "copy", "seal", "confirm"},
         UNCHANGED <<job, k, tally, out>>,
         \/ local'[t] \in Payloads
         \/ pc'[t] = "teach" /\ local'[t] = local[t]
  PROVE  SessionsOK' /\ \A s \in Sessions : Prepared(s)'
<1>1. Prepared(t) /\ SessionsOK /\ job[t] \in Jobs /\ k[t] < Total(t)
  BY AtShard
<1>2. SessionsOK'
  BY <1>1 DEF SessionsOK
<1>3. Prepared(t)'
  BY <1>1 DEF SessionsOK, Prepared, Total
<1>4. ASSUME NEW s \in Sessions, s # t PROVE Prepared(s)'
  BY <1>4, PreparedFrame DEF TypeInv
<1> QED BY <1>2, <1>3, <1>4

LEMMA ScanOpenTypeInv ==
  ASSUME TypeInv, NEW t \in Sessions, ScanOpen(t)
  PROVE  TypeInv'
<1>1. pc[t] = "scan" /\ k[t] < Total(t) /\ DriveOK'
  BY DriveFrame DEF TypeInv, ScanOpen
<1>2. CASE End(t)
  BY <1>1, <1>2, EndingStep
<1>3. CASE Goto(t, "teach") /\ UNCHANGED <<job, k, tally, local, out>>
  <2>1. /\ pc' \in [Sessions -> Places] /\ local' \in [Sessions -> Payloads \cup {None}]
        /\ \A s \in Sessions : s # t => pc'[s] = pc[s] /\ local'[s] = local[s]
        /\ pc'[t] = "teach" /\ local'[t] = local[t]
    BY <1>3 DEF TypeInv, SessionsOK, Goto, Places
  <2> QED BY <1>1, <1>3, <2>1, MoveTypeInv DEF TypeInv
<1>4. CASE k' = [k EXCEPT ![t] = @ + 1] /\ UNCHANGED <<pc, job, tally, local, out>>
  <2>1. /\ Prepared(t) /\ job[t] \in Jobs /\ k[t] \in Nat /\ tally[t] \in Nat
        /\ tally[t] <= k[t] /\ k[t] + 1 \in 0 .. MaxShards /\ Total(t) \in 1 .. MaxShards
    BY <1>1, AtShard
  <2>2. SessionsOK'
    BY <1>4, <2>1 DEF TypeInv, SessionsOK
  <2>3. Prepared(t)'
    BY <1>1, <1>4, <2>1 DEF TypeInv, SessionsOK, Prepared, Total
  <2>4. ASSUME NEW s \in Sessions, s # t PROVE Prepared(s)'
    BY <1>4, <2>4, PreparedFrame DEF TypeInv, SessionsOK
  <2> QED BY <1>1, <2>2, <2>3, <2>4 DEF TypeInv
<1> QED BY <1>2, <1>3, <1>4 DEF ScanOpen

LEMMA TeachTypeInv ==
  ASSUME TypeInv, NEW t \in Sessions, Teach(t)
  PROVE  TypeInv'
<1>1. DriveOK' /\ pc[t] = "teach"
  BY DriveFrame DEF TypeInv, Teach
<1>2. /\ k[t] \in Nat /\ k[t] < Total(t) /\ diskCode[t] \in Codes
      /\ job[t] \in Jobs /\ job[t].input \in Inputs
  BY <1>1, AtShard DEF TypeInv, DriveOK
<1>3. job[t].config \in Configs /\ job[t].recs \in Seq(RecordIds) /\ job[t].code \in Codes
  BY <1>2 DEF Jobs
<1>4. /\ FirstOf(job[t].config, k[t]) \in Nat
      /\ Slice(job[t].config, job[t].recs, k[t]) \in Seq(RecordIds)
  BY <1>2, <1>3, SliceType
<1>5. PICK answer \in Answers : local' = [local EXCEPT ![t] =
         [config |-> job[t].config, code |-> diskCode[t],
          input |-> job[t].input, start |-> FirstOf(job[t].config, k[t]),
          rows |-> Slice(job[t].config, job[t].recs, k[t]), answer |-> answer]]
  BY DEF Teach
<1>6. /\ local'[t] \in Payloads /\ local' \in [Sessions -> Payloads \cup {None}]
      /\ \A s \in Sessions : s # t => local'[s] = local[s]
  BY <1>2, <1>3, <1>4, <1>5 DEF TypeInv, SessionsOK, Payloads
<1>7. /\ pc' \in [Sessions -> Places] /\ pc'[t] = "copy"
      /\ \A s \in Sessions : s # t => pc'[s] = pc[s]
      /\ UNCHANGED <<job, k, tally, out>>
  BY DEF TypeInv, SessionsOK, Teach, Goto, Places
<1> QED BY <1>1, <1>2, <1>6, <1>7, MoveTypeInv DEF TypeInv

LEMMA CopyPayloadTypeInv ==
  ASSUME TypeInv, NEW t \in Sessions, CopyPayload(t)
  PROVE  TypeInv'
<1>1. pc[t] = "copy" /\ k[t] \in Shards /\ k[t] < Total(t) /\ local[t] \in Payloads
  BY AtShard DEF CopyPayload, Prepared
<1>2. DriveOK'
  BY <1>1 DEF TypeInv, DriveOK, CopyPayload, world
<1>3. /\ local'[t] \in Payloads /\ local' \in [Sessions -> Payloads \cup {None}]
      /\ \A s \in Sessions : local'[s] = local[s]
  BY <1>1 DEF TypeInv, SessionsOK, CopyPayload
<1>4. /\ pc' \in [Sessions -> Places] /\ pc'[t] = "seal"
      /\ \A s \in Sessions : s # t => pc'[s] = pc[s]
      /\ UNCHANGED <<job, k, tally, out>>
  BY DEF TypeInv, SessionsOK, CopyPayload, Goto, Places
<1> QED BY <1>1, <1>2, <1>3, <1>4, MoveTypeInv DEF TypeInv

LEMMA CopySidecarTypeInv ==
  ASSUME TypeInv, NEW t \in Sessions, CopySidecar(t)
  PROVE  TypeInv'
<1>1. pc[t] = "seal" /\ k[t] \in Shards /\ k[t] < Total(t) /\ local[t] \in Payloads
  BY AtShard DEF CopySidecar, Prepared
<1>2. DriveOK'
  BY <1>1 DEF TypeInv, DriveOK, CopySidecar, world
<1>3. /\ local'[t] \in Payloads /\ local' \in [Sessions -> Payloads \cup {None}]
      /\ \A s \in Sessions : local'[s] = local[s]
  BY <1>1 DEF TypeInv, SessionsOK, CopySidecar
<1>4. /\ pc' \in [Sessions -> Places] /\ pc'[t] = "confirm"
      /\ \A s \in Sessions : s # t => pc'[s] = pc[s]
      /\ UNCHANGED <<job, k, tally, out>>
  BY DEF TypeInv, SessionsOK, CopySidecar, Goto, Places
<1> QED BY <1>1, <1>2, <1>3, <1>4, MoveTypeInv DEF TypeInv

LEMMA ConfirmTypeInv ==
  ASSUME TypeInv, NEW t \in Sessions, Confirm(t)
  PROVE  TypeInv'
<1>1. /\ pc[t] = "confirm" /\ Prepared(t) /\ job[t] \in Jobs /\ job[t].input \in Inputs
      /\ k[t] \in Nat /\ tally[t] \in Nat /\ tally[t] <= k[t] /\ k[t] < Total(t)
      /\ k[t] + 1 \in 0 .. MaxShards /\ tally[t] + 1 \in 0 .. MaxShards
      /\ Total(t) \in 1 .. MaxShards
  BY AtShard DEF Confirm
<1>2. tally'[t] = tally[t] + 1 /\ job[t].config \in Configs
  BY <1>1 DEF TypeInv, SessionsOK, Confirm, Jobs
<1>3. DriveOK'
  BY <1>1, <1>2 DEF TypeInv, DriveOK, Confirm, Report, world
<1>4. SessionsOK'
  BY <1>1 DEF TypeInv, SessionsOK, Confirm, Goto, Places
<1>5. Prepared(t)'
  BY <1>1 DEF TypeInv, SessionsOK, Prepared, Confirm, Goto, Total
<1>6. ASSUME NEW s \in Sessions, s # t PROVE Prepared(s)'
  BY <1>6, PreparedFrame DEF TypeInv, SessionsOK, Confirm, Goto
<1> QED BY <1>3, <1>4, <1>5, <1>6 DEF TypeInv

LEMMA ParseTypeInv ==
  ASSUME TypeInv, NEW t \in Sessions, Parse(t)
  PROVE  TypeInv'
<1>1. /\ pc[t] = "parse" /\ Prepared(t) /\ job[t] \in Jobs
      /\ k[t] \in Nat /\ tally[t] \in Nat /\ tally[t] <= k[t] /\ k[t] < Total(t)
      /\ k[t] + 1 \in 0 .. MaxShards /\ Total(t) \in 1 .. MaxShards
  BY AtShard DEF Parse
<1>2. payload[k[t]] \in Payloads
  BY AtShard DEF TypeInv, DriveOK, Parse, Parses
<1>3. DriveOK'
  BY DriveFrame DEF TypeInv, Parse
<1>4. Append(out[t], payload[k[t]]) \in Seq(Payloads)
  BY <1>2 DEF TypeInv, SessionsOK
<1>5. SessionsOK'
  BY <1>1, <1>4 DEF TypeInv, SessionsOK, Parse, Goto, Places
<1>6. Prepared(t)'
  BY <1>1 DEF TypeInv, SessionsOK, Prepared, Parse, Goto, Total
<1>7. ASSUME NEW s \in Sessions, s # t PROVE Prepared(s)'
  BY <1>7, PreparedFrame DEF TypeInv, SessionsOK, Parse, Goto
<1> QED BY <1>3, <1>5, <1>6, <1>7 DEF TypeInv

LEMMA FinishInspectTypeInv ==
  ASSUME TypeInv, NEW t \in Sessions, FinishInspect(t)
  PROVE  TypeInv'
<1>1. /\ pc[t] = "scan" /\ Prepared(t) /\ SessionsOK /\ MaxShards \in Nat
      /\ job[t] \in Jobs /\ job[t].input \in Inputs /\ tally[t] \in 0 .. MaxShards
  BY ShapeAssumption DEF TypeInv, SessionsOK, Prepared, FinishInspect
<1>2. DriveOK'
  BY <1>1 DEF TypeInv, DriveOK, FinishInspect, Report, world, Jobs
<1>3. CASE End(t)
  BY <1>2, <1>3, EndingStep
<1>4. CASE ~(End(t))
  <2>1. /\ Goto(t, "read")
        /\ job' = [job EXCEPT ![t] = Fresh("generate", "run", job[t].config,
                                           job[t].limit, job[t].code)]
        /\ k' = [k EXCEPT ![t] = 0] /\ tally' = [tally EXCEPT ![t] = 0]
        /\ UNCHANGED <<local, out>>
    BY <1>4 DEF FinishInspect
  <2> DEFINE j == Fresh("generate", "run", job[t].config, job[t].limit, job[t].code)
  <2>a. j \in Jobs
    BY <1>1, FreshType DEF Jobs, Goals
  <2>b. job' = [job EXCEPT ![t] = j]
    BY <2>1
  <2> HIDE DEF j
  <2>2. job'[t] \in Jobs /\ job' = [job EXCEPT ![t] = job'[t]]
    BY <1>1, <2>a, <2>b DEF SessionsOK
  <2>3. SessionsOK'
    BY <1>1, <2>1, <2>2 DEF SessionsOK, Goto, Places
  <2>4. Prepared(t)'
    BY <1>1, <2>1 DEF SessionsOK, Prepared, Goto
  <2>5. ASSUME NEW s \in Sessions, s # t PROVE Prepared(s)'
    BY <2>1, <2>5, PreparedFrame DEF TypeInv, SessionsOK, Goto
  <2> QED BY <1>2, <2>3, <2>4, <2>5 DEF TypeInv
<1> QED BY <1>3, <1>4

LEMMA FinishRunTypeInv ==
  ASSUME TypeInv, NEW t \in Sessions, FinishRun(t)
  PROVE  TypeInv'
<1>1. /\ pc[t] = "scan" /\ MaxShards \in Nat
      /\ job[t] \in Jobs /\ job[t].input \in Inputs /\ tally[t] \in 0 .. MaxShards
  BY ShapeAssumption DEF TypeInv, SessionsOK, Prepared, FinishRun
<1>2. DriveOK'
  BY <1>1 DEF TypeInv, DriveOK, FinishRun, Report, world, Jobs
<1> QED BY <1>2, EndingStep DEF FinishRun

\* Every step of a session preserves the invariant.
LEMMA SessionStepTypeInv ==
  ASSUME TypeInv, NEW t \in Sessions, SessionStep(t)
  PROVE  TypeInv'
<1>1. CASE ReadRecords(t)
  BY <1>1, ReadRecordsTypeInv
<1>2. CASE HashInput(t)
  BY <1>2, HashInputTypeInv
<1>3. CASE CheckIdentity(t)
  BY <1>3, CheckIdentityTypeInv
<1>4. CASE ClaimIdentity(t)
  BY <1>4, ClaimIdentityTypeInv
<1>5. CASE ScanSealed(t)
  BY <1>5, ScanSealedTypeInv
<1>6. CASE ScanOpen(t)
  BY <1>6, ScanOpenTypeInv
<1>7. CASE Teach(t)
  BY <1>7, TeachTypeInv
<1>8. CASE CopyPayload(t)
  BY <1>8, CopyPayloadTypeInv
<1>9. CASE CopySidecar(t)
  BY <1>9, CopySidecarTypeInv
<1>10. CASE Confirm(t)
  BY <1>10, ConfirmTypeInv
<1>11. CASE Parse(t)
  BY <1>11, ParseTypeInv
<1>12. CASE FinishInspect(t)
  BY <1>12, FinishInspectTypeInv
<1>13. CASE FinishRun(t)
  BY <1>13, FinishRunTypeInv
<1>14. CASE ScanRejected(t) \/ TeachFails(t) \/ ConfirmFails(t) \/ ParseFails(t) \/ FinishLoad(t)
  <2>1. End(t) /\ UNCHANGED <<drive, world>>
    BY <1>14 DEF ScanRejected, TeachFails, ConfirmFails, ParseFails, FinishLoad
  <2> QED BY <2>1, DriveFrame, EndingStep DEF TypeInv
<1> QED BY <1>1, <1>2, <1>3, <1>4, <1>5, <1>6, <1>7, <1>8, <1>9, <1>10, <1>11, <1>12,
           <1>13, <1>14 DEF SessionStep

\* A step of the world around the sessions leaves them as they are.
LEMMA WorldTypeInv ==
  ASSUME TypeInv, UNCHANGED session, DriveOK'
  PROVE  TypeInv'
BY DEF TypeInv, session, SessionsOK, Prepared, Total

LEMMA NextTypeInv == TypeInv /\ [Next]_vars => TypeInv'
<1> SUFFICES ASSUME TypeInv, [Next]_vars PROVE TypeInv'
  OBVIOUS
<1>1. ASSUME NEW t \in Sessions, NEW goal \in Goals, NEW c \in Configs,
             NEW limit \in Limits, Launch(t, goal, c, limit)
      PROVE  TypeInv'
  BY <1>1, LaunchTypeInv
<1>2. ASSUME NEW t \in Sessions, SessionStep(t) PROVE TypeInv'
  BY <1>2, SessionStepTypeInv
<1>3. ASSUME NEW t \in Sessions, Crash(t) PROVE TypeInv'
  <2>1. DriveOK'
    BY <1>3, ShapeAssumption DEF TypeInv, DriveOK, Crash, drive
  <2> QED BY <1>3, <2>1, EndingStep DEF Crash
<1>4. ASSUME NEW t \in Sessions, NEW c \in Codes, ReplaceCode(t, c) PROVE TypeInv'
  <2>1. DriveOK'
    BY <1>4 DEF TypeInv, DriveOK, ReplaceCode, drive
  <2> QED BY <1>4, <2>1, WorldTypeInv DEF ReplaceCode
<1>5. ASSUME NEW i \in Inputs, ReplaceInput(i) PROVE TypeInv'
  <2>1. DriveOK'
    BY <1>5 DEF TypeInv, DriveOK, ReplaceInput, drive
  <2> QED BY <1>5, <2>1, WorldTypeInv DEF ReplaceInput
<1>6. ASSUME NEW j \in Shards, DriveFault(j) PROVE TypeInv'
  <2>1. faults' \in 0 .. MaxFaults
    BY <1>6, ShapeAssumption DEF TypeInv, DriveOK, DriveFault
  <2>2. payload' \in [Shards -> Payloads \cup {None, Garbled}]
    BY <1>6 DEF TypeInv, DriveOK, DriveFault
  <2>3. sidecar' \in [Shards -> Payloads \cup {None}]
    BY <1>6 DEF TypeInv, DriveOK, DriveFault
  <2>4. DriveOK'
    BY <1>6, <2>1, <2>2, <2>3 DEF TypeInv, DriveOK, DriveFault
  <2> QED BY <1>6, <2>4, WorldTypeInv DEF DriveFault
<1>7. CASE UNCHANGED vars
  BY <1>7 DEF vars, drive, world, session, TypeInv, DriveOK, SessionsOK, Prepared, Total
<1> QED BY <1>1, <1>2, <1>3, <1>4, <1>5, <1>6, <1>7 DEF Next

\* Every state of the program is well typed, and no session ever works on a
\* shard outside its run (distillation/generation.py, all three entry points).
THEOREM TypeCorrect == Spec => []TypeOK
<1>1. Init => TypeInv
  BY InitTypeInv
<1>2. TypeInv /\ [Next]_vars => TypeInv'
  BY NextTypeInv
<1>3. TypeInv => TypeOK
  BY DEF TypeInv, TypeOK
<1> QED BY <1>1, <1>2, <1>3, PTL DEF Spec

----------------------------------------------------------------------------
(* What a load returns answers the records it read, under every            *)
(* interleaving, loss and edit: the shards parsed so far are the slices    *)
(* before the one at hand.                                                 *)

ParsedSoFar(s) ==
    /\ pc[s] \in {"idle", "read", "hash", "identify", "claim"} => out[s] = <<>>
    /\ pc[s] # "idle" /\ job[s].phase # "load" => out[s] = <<>>
    /\ pc[s] = "parse" => job[s].phase = "load"
    /\ pc[s] \in {"teach", "copy", "seal", "confirm"} => job[s].phase = "run"
    /\ pc[s] \in {"scan", "parse"} /\ job[s].phase = "load" =>
          /\ Len(out[s]) = k[s]
          /\ \A j \in 1 .. k[s] :
                out[s][j].rows = Slice(job[s].config, job[s].recs, j - 1)

RowsInv == CorpusRowsMatchSource /\ \A s \in Sessions : ParsedSoFar(s)

LEMMA ParsedFrame ==
  ASSUME NEW s \in Sessions, ParsedSoFar(s),
         pc'[s] = pc[s], job'[s] = job[s], k'[s] = k[s], out'[s] = out[s]
  PROVE  ParsedSoFar(s)'
BY DEF ParsedSoFar

LEMMA EndParsed ==
  ASSUME SessionsOK, \A s \in Sessions : ParsedSoFar(s), NEW t \in Sessions, End(t)
  PROVE  \A s \in Sessions : ParsedSoFar(s)'
<1>1. ParsedSoFar(t)'
  BY DEF SessionsOK, End, Goto, ParsedSoFar
<1>2. ASSUME NEW s \in Sessions, s # t PROVE ParsedSoFar(s)'
  BY <1>2, ParsedFrame DEF SessionsOK, End, Goto
<1> QED BY <1>1, <1>2

\* A step before the scan, or of a session that is not loading, parses nothing.
LEMMA OtherParsed ==
  ASSUME SessionsOK, \A s \in Sessions : ParsedSoFar(s), NEW t \in Sessions,
         ParsedSoFar(t)', UNCHANGED out,
         \A s \in Sessions : s # t => pc'[s] = pc[s] /\ job'[s] = job[s] /\ k'[s] = k[s]
  PROVE  \A s \in Sessions : ParsedSoFar(s)'
<1>1. ASSUME NEW s \in Sessions, s # t PROVE ParsedSoFar(s)'
  BY <1>1, ParsedFrame
<1> QED BY <1>1

LEMMA CorpusFrame ==
  ASSUME CorpusRowsMatchSource, UNCHANGED corpus
  PROVE  CorpusRowsMatchSource'
BY DEF CorpusRowsMatchSource

LEMMA SessionStepRows ==
  ASSUME TypeInv, RowsInv, NEW t \in Sessions, SessionStep(t)
  PROVE  RowsInv'
<1> SessionsOK /\ ParsedSoFar(t) /\ Prepared(t)
  BY DEF TypeInv, RowsInv
<1>1. CASE ReadRecords(t) \/ HashInput(t)
  <2>1. ParsedSoFar(t)'
    BY <1>1 DEF SessionsOK, ParsedSoFar, ReadRecords, HashInput, Goto
  <2> QED BY <1>1, <2>1, OtherParsed, CorpusFrame DEF RowsInv, SessionsOK, ReadRecords, HashInput, Goto
<1>2. CASE CheckIdentity(t)
  <2>1. CASE End(t)
    BY <1>2, <2>1, EndParsed, CorpusFrame DEF RowsInv, CheckIdentity
  <2>2. CASE ~End(t)
    <3>1. ParsedSoFar(t)'
      BY <1>2, <2>2 DEF SessionsOK, ParsedSoFar, CheckIdentity, Goto, Prepared
    <3> QED BY <1>2, <2>2, <3>1, OtherParsed, CorpusFrame
             DEF RowsInv, SessionsOK, CheckIdentity, Goto
  <2> QED BY <2>1, <2>2
<1>3. CASE ClaimIdentity(t)
  <2>1. ParsedSoFar(t)'
    BY <1>3 DEF SessionsOK, ParsedSoFar, ClaimIdentity, Goto, Prepared
  <2> QED BY <1>3, <2>1, OtherParsed, CorpusFrame DEF RowsInv, SessionsOK, ClaimIdentity, Goto
<1>4. CASE ScanSealed(t)
  <2>1. ParsedSoFar(t)'
    BY <1>4 DEF SessionsOK, ParsedSoFar, ScanSealed, Goto
  <2> QED BY <1>4, <2>1, OtherParsed, CorpusFrame DEF RowsInv, SessionsOK, ScanSealed, Goto
<1>5. CASE ScanOpen(t)
  <2>1. CASE End(t)
    BY <1>5, <2>1, EndParsed, CorpusFrame DEF RowsInv, ScanOpen
  <2>2. CASE ~End(t)
    <3>1. ParsedSoFar(t)'
      BY <1>5, <2>2 DEF SessionsOK, ParsedSoFar, ScanOpen, Goto
    <3> QED BY <1>5, <2>2, <3>1, OtherParsed, CorpusFrame DEF RowsInv, SessionsOK, ScanOpen, Goto
  <2> QED BY <2>1, <2>2
<1>6. CASE Teach(t) \/ CopyPayload(t) \/ CopySidecar(t)
  <2>1. /\ UNCHANGED <<job, k, out, corpus>> /\ pc[t] \in {"teach", "copy", "seal"}
        /\ pc'[t] \in {"copy", "seal", "confirm"}
        /\ \A s \in Sessions : s # t => pc'[s] = pc[s]
    BY <1>6 DEF SessionsOK, Teach, CopyPayload, CopySidecar, Goto
  <2>2. ParsedSoFar(t)'
    BY <2>1 DEF ParsedSoFar
  <2> QED BY <2>1, <2>2, OtherParsed, CorpusFrame DEF RowsInv
<1>7. CASE Confirm(t)
  <2>1. ParsedSoFar(t)'
    BY <1>7 DEF SessionsOK, ParsedSoFar, Confirm, Goto
  <2> QED BY <1>7, <2>1, OtherParsed, CorpusFrame DEF RowsInv, SessionsOK, Confirm, Goto
<1>8. CASE Parse(t)
  <2>1. /\ payload[k[t]] \in Payloads /\ k[t] \in Nat /\ out[t] \in Seq(Payloads)
        /\ payload[k[t]].rows = Slice(job[t].config, job[t].recs, k[t])
    BY <1>8, AtShard DEF TypeInv, DriveOK, SessionsOK, Parse, Parses
  <2>2. /\ Len(out[t]) = k[t] /\ job[t].phase = "load"
        /\ \A j \in 1 .. k[t] : out[t][j].rows = Slice(job[t].config, job[t].recs, j - 1)
    BY <1>8 DEF ParsedSoFar, Parse
  <2>3. /\ out'[t] = Append(out[t], payload[k[t]]) /\ k'[t] = k[t] + 1
        /\ pc'[t] = "scan" /\ job' = job
        /\ \A s \in Sessions : s # t => pc'[s] = pc[s] /\ k'[s] = k[s] /\ out'[s] = out[s]
    BY <1>8 DEF SessionsOK, Parse, Goto
  <2>4. /\ Len(out'[t]) = k[t] + 1 /\ out'[t][k[t] + 1] = payload[k[t]]
        /\ \A j \in 1 .. k[t] : out'[t][j] = out[t][j]
    BY <2>1, <2>2, <2>3, AppendProperties
  <2>5. ASSUME NEW j \in 1 .. k[t] + 1
        PROVE  out'[t][j].rows = Slice(job[t].config, job[t].recs, j - 1)
    <3>1. CASE j = k[t] + 1
      BY <2>1, <2>4, <3>1
    <3>2. CASE j \in 1 .. k[t]
      BY <2>2, <2>4, <3>2
    <3> QED BY <2>1, <3>1, <3>2
  <2>6. ParsedSoFar(t)'
    BY <2>1, <2>2, <2>3, <2>4, <2>5 DEF ParsedSoFar
  <2>7. ASSUME NEW s \in Sessions, s # t PROVE ParsedSoFar(s)'
    BY <2>3, <2>7, ParsedFrame DEF RowsInv
  <2> QED BY <1>8, <2>6, <2>7, CorpusFrame DEF RowsInv, Parse
<1>9. CASE FinishInspect(t)
  <2>1. CASE End(t)
    BY <1>9, <2>1, EndParsed, CorpusFrame DEF RowsInv, FinishInspect
  <2>2. CASE ~End(t)
    <3>1. /\ pc'[t] = "read" /\ out[t] = <<>> /\ UNCHANGED <<out, corpus>>
          /\ \A s \in Sessions : s # t => pc'[s] = pc[s] /\ job'[s] = job[s] /\ k'[s] = k[s]
      <4>1. pc'[t] = "read" /\ UNCHANGED <<out, corpus>>
        BY <1>9, <2>2 DEF SessionsOK, FinishInspect, Goto
      <4>2. \A s \in Sessions : s # t => pc'[s] = pc[s] /\ job'[s] = job[s] /\ k'[s] = k[s]
        BY <1>9, <2>2 DEF SessionsOK, FinishInspect, Goto
      <4>3. out[t] = <<>>
        BY <1>9 DEF ParsedSoFar, FinishInspect
      <4> QED BY <4>1, <4>2, <4>3
    <3>2. ParsedSoFar(t)'
      BY <3>1 DEF ParsedSoFar
    <3> QED BY <3>1, <3>2, OtherParsed, CorpusFrame DEF RowsInv
  <2> QED BY <2>1, <2>2
<1>10. CASE FinishLoad(t)
  <2>1. /\ corpus'.config = job[t].config /\ corpus'.recs = job[t].recs
        /\ corpus'.shards = out[t] /\ k[t] = Total(t) /\ End(t)
    BY <1>10 DEF FinishLoad
  <2>2. /\ Len(out[t]) = k[t]
        /\ \A j \in 1 .. k[t] : out[t][j].rows = Slice(job[t].config, job[t].recs, j - 1)
    BY <1>10 DEF FinishLoad, ParsedSoFar
  <2>3. CorpusRowsMatchSource'
    BY <2>1, <2>2 DEF CorpusRowsMatchSource, Total
  <2> QED BY <2>1, <2>3, EndParsed DEF RowsInv
<1>11. CASE ScanRejected(t) \/ TeachFails(t) \/ ConfirmFails(t) \/ ParseFails(t) \/ FinishRun(t)
  <2>1. End(t) /\ UNCHANGED corpus
    BY <1>11 DEF ScanRejected, TeachFails, ConfirmFails, ParseFails, FinishRun
  <2> QED BY <2>1, EndParsed, CorpusFrame DEF RowsInv
<1> QED BY <1>1, <1>2, <1>3, <1>4, <1>5, <1>6, <1>7, <1>8, <1>9, <1>10, <1>11 DEF SessionStep

LEMMA NextRows == TypeInv /\ RowsInv /\ [Next]_vars => RowsInv'
<1> SUFFICES ASSUME TypeInv, RowsInv, [Next]_vars PROVE RowsInv'
  OBVIOUS
<1> SessionsOK
  BY DEF TypeInv
<1>1. ASSUME NEW t \in Sessions, NEW goal \in Goals, NEW c \in Configs,
             NEW limit \in Limits, Launch(t, goal, c, limit)
      PROVE  RowsInv'
  <2>1. /\ pc[t] = "idle" /\ pc'[t] = "read" /\ UNCHANGED <<k, out, corpus>>
        /\ \A s \in Sessions : s # t => pc'[s] = pc[s] /\ job'[s] = job[s]
    BY <1>1 DEF SessionsOK, Launch, Goto
  <2>2. ParsedSoFar(t)'
    BY <2>1 DEF RowsInv, ParsedSoFar
  <2> QED BY <2>1, <2>2, OtherParsed, CorpusFrame DEF RowsInv
<1>2. ASSUME NEW t \in Sessions, SessionStep(t) PROVE RowsInv'
  BY <1>2, SessionStepRows
<1>3. ASSUME NEW t \in Sessions, Crash(t) PROVE RowsInv'
  BY <1>3, EndParsed, CorpusFrame DEF RowsInv, Crash
<1>4. CASE UNCHANGED <<session, corpus>>
  BY <1>4 DEF session, RowsInv, ParsedSoFar, CorpusRowsMatchSource
<1> QED BY <1>1, <1>2, <1>3, <1>4
        DEF Next, ReplaceCode, ReplaceInput, DriveFault, vars

\* Whatever load_completed_distilled_records returns has one shard for every
\* slice of the records it read, and each shard's rows answer exactly that slice:
\* for any number of concurrent sessions, crashes, Drive faults and live edits.
THEOREM LoadMatchesSource == Spec => []CorpusRowsMatchSource
<1>1. Init => TypeInv /\ RowsInv
  <2>1. Init => RowsInv
    BY DEF Init, RowsInv, ParsedSoFar, CorpusRowsMatchSource
  <2> QED BY <2>1, InitTypeInv
<1>2. TypeInv /\ RowsInv /\ [Next]_vars => (TypeInv /\ RowsInv)'
  BY NextTypeInv, NextRows
<1>3. RowsInv => CorpusRowsMatchSource
  BY DEF RowsInv
<1> QED BY <1>1, <1>2, <1>3, PTL DEF Spec

----------------------------------------------------------------------------
(* One writer.  Under SoleWriter the shard that a session generates stays  *)
(* unsealed until that session seals it.                                   *)

Working(s) ==
    /\ pc[s] # "idle" /\ job[s].phase = "run" => job[s].goal = "generate"
    /\ pc[s] \in {"teach", "copy", "seal"} => sidecar[k[s]] = None

WriterInv ==
    /\ \A s, t \in Sessions : Generating(s) /\ Generating(t) => s = t
    /\ \A s \in Sessions : Working(s)

\* A session that works on a shard is the one generating session.
LEMMA WorkerGenerates ==
  ASSUME RowsInv, WriterInv, NEW s \in Sessions,
         pc[s] \in {"teach", "copy", "seal", "confirm"}
  PROVE  Generating(s)
BY DEF RowsInv, ParsedSoFar, WriterInv, Working, Generating

\* A step of session t that seals nothing and makes no other session generate.
LEMMA WriterFrame ==
  ASSUME TypeInv, WriterInv, NEW t \in Sessions,
         \A s \in Sessions : s # t => pc'[s] = pc[s] /\ job'[s] = job[s] /\ k'[s] = k[s],
         \A j \in Shards : sidecar[j] = None => sidecar'[j] = None,
         Generating(t)' => Generating(t), Working(t)'
  PROVE  WriterInv'
<1>1. ASSUME NEW s \in Sessions, s # t PROVE Working(s)' /\ Generating(s)' = Generating(s)
  <2>1. pc'[s] = pc[s] /\ job'[s] = job[s] /\ k'[s] = k[s] /\ Working(s)
    BY <1>1 DEF WriterInv
  <2>2. pc[s] \in {"teach", "copy", "seal"} => sidecar'[k[s]] = None
    BY <2>1, AtShard DEF Working
  <2> QED BY <2>1, <2>2 DEF Working, Generating
<1>2. ASSUME NEW s \in Sessions PROVE Working(s)' /\ (Generating(s)' => Generating(s))
  BY <1>1
<1>3. \A s, u \in Sessions : Generating(s)' /\ Generating(u)' => s = u
  BY <1>2 DEF WriterInv
<1> HIDE <1>1
<1> QED BY <1>2, <1>3 DEF WriterInv

LEMMA EndWriter ==
  ASSUME TypeInv, WriterInv, NEW t \in Sessions, End(t),
         \A j \in Shards : sidecar[j] = None => sidecar'[j] = None
  PROVE  WriterInv'
<1>1. /\ pc'[t] = "idle"
      /\ \A s \in Sessions : s # t => pc'[s] = pc[s] /\ job'[s] = job[s] /\ k'[s] = k[s]
  BY DEF TypeInv, SessionsOK, End, Goto
<1> QED BY <1>1, WriterFrame DEF Working, Generating

LEMMA LaunchWriter ==
  ASSUME SoleWriter = TRUE, TypeInv, WriterInv, NEW t \in Sessions, NEW goal \in Goals,
         NEW c \in Configs, NEW limit \in Limits, Launch(t, goal, c, limit)
  PROVE  WriterInv'
<1>1. /\ pc[t] = "idle" /\ pc'[t] = "read" /\ k' = k /\ sidecar' = sidecar
      /\ job'[t].goal = goal /\ job'[t].phase # "run"
      /\ \A s \in Sessions : s # t => pc'[s] = pc[s] /\ job'[s] = job[s]
  BY DEF TypeInv, SessionsOK, Launch, Goto, Fresh, drive
<1>2. Working(t)' /\ \A s \in Sessions : s # t => Working(s)'
  BY <1>1 DEF WriterInv, Working
<1>3. \A s \in Sessions : s # t => Generating(s)' = Generating(s)
  BY <1>1 DEF Generating
<1>4. Generating(t)' => \A s \in Sessions : ~Generating(s)
  BY <1>1 DEF Generating, Launch
<1>5. \A s, u \in Sessions : Generating(s)' /\ Generating(u)' => s = u
  BY <1>3, <1>4 DEF WriterInv
<1> QED BY <1>2, <1>5 DEF WriterInv

LEMMA SessionStepWriter ==
  ASSUME TypeInv, RowsInv, WriterInv, NEW t \in Sessions, SessionStep(t)
  PROVE  WriterInv'
<1> SessionsOK /\ Working(t)
  BY DEF TypeInv, WriterInv
<1>1. CASE ReadRecords(t) \/ HashInput(t)
  <2>1. /\ sidecar' = sidecar /\ pc[t] # "idle" /\ pc'[t] \in {"hash", "identify"}
        /\ \A s \in Sessions : s # t => pc'[s] = pc[s] /\ job'[s] = job[s] /\ k'[s] = k[s]
    BY <1>1 DEF SessionsOK, ReadRecords, HashInput, Goto, drive
  <2>2. job[t] \in Jobs
    BY <2>1 DEF SessionsOK
  <2>3. job'[t].goal = job[t].goal /\ job'[t].phase = job[t].phase
    BY <1>1, <2>2 DEF SessionsOK, Jobs, ReadRecords, HashInput
  <2> QED BY <2>1, <2>3, WriterFrame DEF Working, Generating
<1>2. CASE CheckIdentity(t)
  <2>1. sidecar' = sidecar /\ pc[t] # "idle" /\ job[t] \in Jobs
    BY <1>2 DEF SessionsOK, CheckIdentity, drive
  <2>2. CASE End(t)
    BY <2>1, <2>2, EndWriter
  <2>3. CASE ~End(t)
    <3>1. job'[t].goal = job[t].goal /\ job'[t].phase = job[t].phase
      BY <1>2, <2>1, <2>3 DEF SessionsOK, Jobs, CheckIdentity
    <3>2. /\ pc'[t] \in {"claim", "scan"}
          /\ \A s \in Sessions : s # t => pc'[s] = pc[s] /\ job'[s] = job[s] /\ k'[s] = k[s]
      BY <1>2, <2>3 DEF SessionsOK, CheckIdentity, Goto
    <3> QED BY <2>1, <3>1, <3>2, WriterFrame DEF Working, Generating
  <2> QED BY <2>2, <2>3
<1>3. CASE ClaimIdentity(t) \/ ScanSealed(t) \/ Confirm(t) \/ Parse(t)
  <2>1. /\ sidecar' = sidecar /\ job' = job /\ pc[t] # "idle" /\ pc'[t] \in {"scan", "parse"}
        /\ \A s \in Sessions : s # t => pc'[s] = pc[s] /\ k'[s] = k[s]
    <3>1. CASE ClaimIdentity(t) \/ ScanSealed(t)
      BY <3>1 DEF SessionsOK, ClaimIdentity, ScanSealed, Goto, drive
    <3>2. CASE Confirm(t) \/ Parse(t)
      BY <3>2 DEF SessionsOK, Confirm, Parse, Goto, drive
    <3> QED BY <1>3, <3>1, <3>2
  <2> QED BY <2>1, WriterFrame DEF Working, Generating
<1>4. CASE ScanOpen(t)
  <2>1. sidecar' = sidecar /\ pc[t] = "scan" /\ sidecar[k[t]] = None
    BY <1>4 DEF ScanOpen, Open, drive
  <2>2. CASE End(t)
    BY <2>1, <2>2, EndWriter
  <2>3. CASE ~End(t)
    <3>1. /\ job' = job /\ pc'[t] \in {"scan", "teach"}
          /\ pc'[t] = "teach" => k'[t] = k[t]
          /\ \A s \in Sessions : s # t => pc'[s] = pc[s] /\ k'[s] = k[s]
      BY <1>4, <2>3 DEF SessionsOK, ScanOpen, Goto
    <3>2. Working(t)'
      BY <2>1, <3>1 DEF Working
    <3>3. Generating(t)' => Generating(t)
      BY <2>1, <3>1 DEF Generating
    <3> QED BY <2>1, <3>1, <3>2, <3>3, WriterFrame
  <2> QED BY <2>2, <2>3
<1>5. CASE Teach(t) \/ CopyPayload(t)
  <2>1. /\ UNCHANGED <<sidecar, job, k>> /\ pc[t] \in {"teach", "copy"}
        /\ pc'[t] \in {"copy", "seal"}
        /\ \A s \in Sessions : s # t => pc'[s] = pc[s]
    BY <1>5 DEF SessionsOK, Teach, CopyPayload, Goto, drive
  <2> QED BY <2>1, WriterFrame DEF Working, Generating
<1>6. CASE CopySidecar(t)
  <2>1. /\ UNCHANGED <<job, k>> /\ pc[t] = "seal" /\ pc'[t] = "confirm"
        /\ \A s \in Sessions : s # t => pc'[s] = pc[s]
    BY <1>6 DEF SessionsOK, CopySidecar, Goto
  <2>2. Generating(t)
    BY <2>1, WorkerGenerates
  <2>3. ASSUME NEW s \in Sessions, s # t PROVE pc[s] \notin {"teach", "copy", "seal"}
    BY <2>2, <2>3, WorkerGenerates DEF WriterInv
  <2>4. \A s \in Sessions : Working(s)' /\ Generating(s)' = Generating(s)
    BY <2>1, <2>3 DEF WriterInv, Working, Generating
  <2> HIDE <2>1
  <2> QED BY <2>4 DEF WriterInv
<1>7. CASE FinishInspect(t)
  <2>1. sidecar' = sidecar /\ pc[t] = "scan"
    BY <1>7 DEF FinishInspect
  <2>2. CASE End(t)
    BY <2>1, <2>2, EndWriter
  <2>3. CASE ~End(t)
    <3>1. job[t].goal = "generate" /\ pc'[t] = "read"
      BY <1>7, <2>3 DEF SessionsOK, FinishInspect, Goto
    <3>2. job'[t].goal = "generate"
      BY <1>7, <2>3 DEF SessionsOK, FinishInspect, Fresh
    <3>3. \A s \in Sessions : s # t => pc'[s] = pc[s] /\ job'[s] = job[s] /\ k'[s] = k[s]
      BY <1>7, <2>3 DEF SessionsOK, FinishInspect, Goto
    <3> QED BY <2>1, <3>1, <3>2, <3>3, WriterFrame DEF Working, Generating
  <2> QED BY <2>2, <2>3
<1>8. CASE ScanRejected(t) \/ TeachFails(t) \/ ConfirmFails(t) \/ ParseFails(t)
           \/ FinishRun(t) \/ FinishLoad(t)
  <2>1. End(t) /\ UNCHANGED sidecar
    BY <1>8 DEF ScanRejected, TeachFails, ConfirmFails, ParseFails, FinishRun, FinishLoad, drive
  <2> QED BY <2>1, EndWriter
<1> QED BY <1>1, <1>2, <1>3, <1>4, <1>5, <1>6, <1>7, <1>8 DEF SessionStep

LEMMA NextWriter ==
  ASSUME SoleWriter = TRUE
  PROVE  TypeInv /\ RowsInv /\ WriterInv /\ [Next]_vars => WriterInv'
<1> SUFFICES ASSUME TypeInv, RowsInv, WriterInv, [Next]_vars PROVE WriterInv'
  OBVIOUS
<1>1. ASSUME NEW t \in Sessions, NEW goal \in Goals, NEW c \in Configs,
             NEW limit \in Limits, Launch(t, goal, c, limit)
      PROVE  WriterInv'
  BY <1>1, LaunchWriter
<1>2. ASSUME NEW t \in Sessions, SessionStep(t) PROVE WriterInv'
  BY <1>2, SessionStepWriter
<1>3. ASSUME NEW t \in Sessions, Crash(t) PROVE WriterInv'
  BY <1>3, EndWriter DEF Crash, drive
<1>4. CASE UNCHANGED <<session, sidecar>>
  BY <1>4 DEF session, WriterInv, Working, Generating
<1>5. ASSUME NEW j \in Shards, DriveFault(j) PROVE WriterInv'
  <2>1. \A i \in Shards : sidecar[i] = None => sidecar'[i] = None
    BY <1>5 DEF TypeInv, DriveOK, DriveFault
  <2>2. ASSUME NEW s \in Sessions, pc[s] \in {"teach", "copy", "seal"}
        PROVE  sidecar'[k[s]] = None
    BY <2>1, <2>2, AtShard DEF WriterInv, Working
  <2>3. UNCHANGED <<pc, job, k>>
    BY <1>5 DEF DriveFault, session
  <2> QED BY <2>2, <2>3 DEF WriterInv, Working, Generating
<1> QED BY <1>1, <1>2, <1>3, <1>4, <1>5
        DEF Next, ReplaceCode, ReplaceInput, vars, drive

LEMMA InitWriter == Init => WriterInv
BY DEF Init, WriterInv, Working, Generating

\* The steps that touch what the files of the shards say, or what was loaded.
LEMMA StepKinds ==
  ASSUME [Next]_vars
  PROVE  \/ UNCHANGED <<payload, sidecar, corpus, faults>>
         \/ \E t \in Sessions : CopyPayload(t)
         \/ \E t \in Sessions : CopySidecar(t)
         \/ \E t \in Sessions : FinishLoad(t)
         \/ \E j \in Shards : DriveFault(j)
<1>1. ASSUME NEW t \in Sessions, NEW goal \in Goals, NEW c \in Configs,
             NEW limit \in Limits, Launch(t, goal, c, limit)
      PROVE  UNCHANGED <<payload, sidecar, corpus, faults>>
  BY <1>1 DEF Launch, drive, world
<1>2. ASSUME NEW t \in Sessions, SessionStep(t),
             ~CopyPayload(t), ~CopySidecar(t), ~FinishLoad(t)
      PROVE  UNCHANGED <<payload, sidecar, corpus, faults>>
  BY <1>2 DEF SessionStep, ReadRecords, HashInput, CheckIdentity, ClaimIdentity, ScanSealed,
              ScanOpen, ScanRejected, Teach, TeachFails, Confirm, ConfirmFails, Parse,
              ParseFails, FinishInspect, FinishRun, drive, world
<1>3. ASSUME NEW t \in Sessions, Crash(t)
      PROVE  UNCHANGED <<payload, sidecar, corpus, faults>>
  BY <1>3 DEF Crash, drive
<1>4. ASSUME NEW t \in Sessions, NEW c \in Codes, ReplaceCode(t, c)
      PROVE  UNCHANGED <<payload, sidecar, corpus, faults>>
  BY <1>4 DEF ReplaceCode, drive
<1>5. ASSUME NEW i \in Inputs, ReplaceInput(i)
      PROVE  UNCHANGED <<payload, sidecar, corpus, faults>>
  BY <1>5 DEF ReplaceInput, drive
<1>6. CASE UNCHANGED vars
  BY <1>6 DEF vars, drive, world
<1> QED BY <1>1, <1>2, <1>3, <1>4, <1>5, <1>6 DEF Next

\* A shard that has a sidecar is changed by the Drive alone.
LEMMA SidecarProtects ==
  ASSUME TypeInv, WriterInv, [Next]_vars, faults' = faults,
         NEW j \in Shards, sidecar[j] # None
  PROVE  payload'[j] = payload[j] /\ sidecar'[j] = sidecar[j]
<1> DriveOK
  BY DEF TypeInv
<1>1. CASE UNCHANGED <<payload, sidecar, corpus, faults>>
  BY <1>1
<1>2. ASSUME NEW t \in Sessions, CopyPayload(t)
      PROVE  payload'[j] = payload[j] /\ sidecar'[j] = sidecar[j]
  <2>1. k[t] # j
    BY <1>2 DEF WriterInv, Working, CopyPayload
  <2> QED BY <1>2, <2>1 DEF DriveOK, CopyPayload
<1>3. ASSUME NEW t \in Sessions, CopySidecar(t)
      PROVE  payload'[j] = payload[j] /\ sidecar'[j] = sidecar[j]
  <2>1. k[t] # j
    BY <1>3 DEF WriterInv, Working, CopySidecar
  <2> QED BY <1>3, <2>1 DEF DriveOK, CopySidecar
<1>4. ASSUME NEW t \in Sessions, FinishLoad(t)
      PROVE  payload'[j] = payload[j] /\ sidecar'[j] = sidecar[j]
  BY <1>4 DEF FinishLoad, drive
<1>5. ASSUME NEW i \in Shards, DriveFault(i) PROVE FALSE
  BY <1>5, ShapeAssumption DEF DriveOK, DriveFault
<1> QED BY <1>1, <1>2, <1>3, <1>4, <1>5, StepKinds

OneWriterInv == TypeInv /\ RowsInv /\ WriterInv

LEMMA InitOneWriter == Init => OneWriterInv
<1>1. Init => RowsInv
  BY DEF Init, RowsInv, ParsedSoFar, CorpusRowsMatchSource
<1> QED BY <1>1, InitTypeInv, InitWriter DEF OneWriterInv

LEMMA NextOneWriter ==
  ASSUME SoleWriter = TRUE
  PROVE  OneWriterInv /\ [Next]_vars => OneWriterInv'
BY NextTypeInv, NextRows, NextWriter DEF OneWriterInv

\* With one writer at a time, a shard whose payload contradicts its sidecar is never
\* written again by any session: whoever finds it stops, and the evidence stays until
\* an operator looks (generation.py: "a bad checksum fails closed as corruption").
THEOREM CorruptionStops ==
  ASSUME SoleWriter = TRUE
  PROVE  Spec => CorruptionIsNotOverwritten
<1>1. Init => OneWriterInv
  BY InitOneWriter
<1>2. OneWriterInv /\ [Next]_vars => OneWriterInv'
  BY NextOneWriter
<1>3. OneWriterInv /\ [Next]_vars =>
        [\A j \in Shards :
            sidecar[j] # None /\ sidecar[j] # payload[j] /\ faults' = faults
               => payload'[j] = payload[j] /\ sidecar'[j] = sidecar[j]]_vars
  BY SidecarProtects DEF OneWriterInv
<1> QED BY <1>1, <1>2, <1>3, PTL DEF Spec, CorruptionIsNotOverwritten

----------------------------------------------------------------------------
(* The refinement of ShardLedger.  What a load has parsed is, as long as   *)
(* the Drive lost nothing, what is sealed.                                 *)

Snapshot(s) ==
    faults = 0 =>
    /\ pc[s] \in {"scan", "parse"} /\ job[s].phase = "load" =>
          \A j \in 1 .. k[s] : Sealed(j - 1) /\ payload[j - 1] = out[s][j]
    /\ pc[s] = "parse" => Sealed(k[s])

SnapshotInv == \A s \in Sessions : Snapshot(s)

LEMMA FaultsGrow ==
  ASSUME TypeInv, [Next]_vars, faults' = 0
  PROVE  faults' = faults
<1>1. \A i \in Shards : ~DriveFault(i)
  BY ShapeAssumption DEF TypeInv, DriveOK, DriveFault
<1>2. \A t \in Sessions : CopyPayload(t) \/ CopySidecar(t) \/ FinishLoad(t) => faults' = faults
  BY DEF CopyPayload, CopySidecar, FinishLoad, world
<1> QED BY <1>1, <1>2, StepKinds

LEMMA StaysSealed ==
  ASSUME TypeInv, WriterInv, [Next]_vars, faults' = 0, NEW j \in Shards, Sealed(j)
  PROVE  Sealed(j)' /\ payload'[j] = payload[j]
BY FaultsGrow, SidecarProtects DEF Sealed

\* The shards up to the one at hand are shards.
LEMMA UpTo ==
  ASSUME TypeInv, NEW s \in Sessions, pc[s] \in {"scan", "parse"}, NEW j \in 1 .. k[s]
  PROVE  j - 1 \in Shards
<1>1. Prepared(s) /\ SessionsOK
  BY DEF TypeInv
<1>2. Total(s) \in 1 .. MaxShards
  BY <1>1, TotalType
<1>3. k[s] \in Nat /\ k[s] <= Total(s)
  BY <1>1, <1>2 DEF SessionsOK, Prepared
<1>4. MaxShards \in Nat
  BY ShapeAssumption
<1> QED BY <1>2, <1>3, <1>4 DEF Shards

LEMMA SnapshotFrame ==
  ASSUME TypeInv, WriterInv, [Next]_vars, NEW s \in Sessions, Snapshot(s),
         pc'[s] = pc[s], job'[s] = job[s], k'[s] = k[s], out'[s] = out[s]
  PROVE  Snapshot(s)'
<1> SUFFICES ASSUME faults' = 0
             PROVE  /\ pc[s] \in {"scan", "parse"} /\ job[s].phase = "load" =>
                          \A j \in 1 .. k[s] : Sealed(j - 1)' /\ payload'[j - 1] = out[s][j]
                    /\ pc[s] = "parse" => Sealed(k[s])'
  <2>1. k'[s] = k[s] /\ out'[s] = out[s]
    OBVIOUS
  <2> QED BY <2>1 DEF Snapshot, Sealed
<1>1. faults = 0
  BY FaultsGrow
<1>2. ASSUME pc[s] \in {"scan", "parse"}, job[s].phase = "load", NEW j \in 1 .. k[s]
      PROVE  Sealed(j - 1)' /\ payload'[j - 1] = out[s][j]
  BY <1>1, <1>2, UpTo, StaysSealed DEF Snapshot
<1>3. ASSUME pc[s] = "parse" PROVE Sealed(k[s])'
  <2>1. k[s] \in Shards /\ Sealed(k[s])
    BY <1>1, <1>3, AtShard DEF Snapshot
  <2>2. \A j \in Shards : Sealed(j) => Sealed(j)'
    BY StaysSealed
  <2> QED BY <2>1, <2>2 DEF Sealed
<1> QED BY <1>2, <1>3

\* The step of a loading session that adds to what it has parsed or is about to parse.
LEMMA ParseSnapshot ==
  ASSUME TypeInv, RowsInv, WriterInv, [Next]_vars, NEW t \in Sessions, Snapshot(t), Parse(t)
  PROVE  Snapshot(t)'
<1>1. /\ k[t] \in Shards /\ k[t] \in Nat /\ pc[t] = "parse" /\ job[t].phase = "load"
      /\ Len(out[t]) = k[t] /\ out[t] \in Seq(Payloads) /\ payload[k[t]] \in Payloads
  BY AtShard DEF TypeInv, DriveOK, SessionsOK, RowsInv, ParsedSoFar, Parse, Parses
<1>2. /\ pc'[t] = "scan" /\ job' = job /\ k'[t] = k[t] + 1 /\ payload' = payload
      /\ out'[t] = Append(out[t], payload[k[t]])
  BY DEF TypeInv, SessionsOK, Parse, Goto, drive
<1>3. /\ out'[t][k[t] + 1] = payload[k[t]]
      /\ \A j \in 1 .. k[t] : out'[t][j] = out[t][j]
  BY <1>1, <1>2, AppendProperties
<1> SUFFICES ASSUME faults' = 0, NEW j \in 1 .. k[t] + 1
             PROVE  Sealed(j - 1)' /\ payload[j - 1] = out'[t][j]
  BY <1>2 DEF Snapshot, Sealed
<1>4. faults = 0 /\ \A i \in Shards : Sealed(i) => Sealed(i)'
  BY FaultsGrow, StaysSealed
<1>5. CASE j = k[t] + 1
  BY <1>1, <1>3, <1>4, <1>5 DEF Snapshot
<1>6. CASE j \in 1 .. k[t]
  BY <1>1, <1>3, <1>4, <1>6, UpTo DEF Snapshot
<1> QED BY <1>1, <1>5, <1>6

LEMMA ScanSealedSnapshot ==
  ASSUME TypeInv, WriterInv, [Next]_vars, NEW t \in Sessions, Snapshot(t), ScanSealed(t)
  PROVE  Snapshot(t)'
<1>1. CASE job[t].phase = "load"
  <2>1. /\ k[t] \in Shards /\ pc[t] = "scan" /\ Sealed(k[t])
        /\ pc'[t] = "parse" /\ UNCHANGED <<k, job, out, payload, sidecar, faults>>
    BY <1>1, AtShard DEF TypeInv, SessionsOK, ScanSealed, Accepts, Goto, drive, world
  <2> QED BY <1>1, <2>1 DEF Snapshot, Sealed
<1>2. CASE job[t].phase # "load"
  BY <1>2 DEF Snapshot, ScanSealed
<1> QED BY <1>1, <1>2

LEMMA NextSnapshot ==
  TypeInv /\ RowsInv /\ WriterInv /\ SnapshotInv /\ [Next]_vars => SnapshotInv'
<1> SUFFICES ASSUME TypeInv, RowsInv, WriterInv, SnapshotInv, [Next]_vars,
                    NEW s \in Sessions
             PROVE  Snapshot(s)'
  BY DEF SnapshotInv
<1> SessionsOK /\ ParsedSoFar(s) /\ Prepared(s) /\ Snapshot(s)
  BY DEF TypeInv, RowsInv, SnapshotInv
\* Another session's step, or the world's.
<1>1. CASE pc'[s] = pc[s] /\ job'[s] = job[s] /\ k'[s] = k[s] /\ out'[s] = out[s]
  BY <1>1, SnapshotFrame
\* A step to a place where nothing has been parsed.
<1>2. CASE pc'[s] \notin {"scan", "parse"}
  BY <1>2 DEF Snapshot
<1>3. CASE pc'[s] = "scan" /\ (k'[s] = 0 \/ job'[s].phase # "load")
  BY <1>3 DEF Snapshot
<1>4. ASSUME NEW t \in Sessions, NEW goal \in Goals, NEW c \in Configs,
             NEW limit \in Limits, Launch(t, goal, c, limit)
      PROVE  Snapshot(s)'
  <2>1. CASE s = t
    BY <1>2, <1>4, <2>1 DEF SessionsOK, Launch, Goto
  <2>2. CASE s # t
    BY <1>1, <1>4, <2>2 DEF SessionsOK, Launch, Goto
  <2> QED BY <2>1, <2>2
<1>5. ASSUME NEW t \in Sessions, t # s, SessionStep(t) \/ Crash(t)
      PROVE  Snapshot(s)'
  <2>1. CASE End(t)
    BY <1>1, <1>5, <2>1 DEF SessionsOK, End, Goto
  <2>2. CASE ReadRecords(t) \/ HashInput(t) \/ CheckIdentity(t) \/ ClaimIdentity(t)
    BY <1>1, <1>5, <2>1, <2>2
       DEF SessionsOK, ReadRecords, HashInput, CheckIdentity, ClaimIdentity, Goto
  <2>3. CASE ScanSealed(t) \/ ScanOpen(t) \/ Teach(t) \/ CopyPayload(t) \/ CopySidecar(t)
    BY <1>1, <1>5, <2>1, <2>3
       DEF SessionsOK, ScanSealed, ScanOpen, Teach, CopyPayload, CopySidecar, Goto
  <2>4. CASE Confirm(t) \/ Parse(t) \/ FinishInspect(t)
    BY <1>1, <1>5, <2>1, <2>4 DEF SessionsOK, Confirm, Parse, FinishInspect, Goto
  <2> QED BY <1>5, <2>1, <2>2, <2>3, <2>4
          DEF SessionStep, Crash, ScanRejected, TeachFails, ConfirmFails, ParseFails,
              FinishRun, FinishLoad
<1>6. ASSUME SessionStep(s) \/ Crash(s) PROVE Snapshot(s)'
  <2>1. CASE End(s)
    BY <1>2, <2>1 DEF SessionsOK, End, Goto
  <2>2. CASE ReadRecords(s) \/ HashInput(s) \/ Teach(s) \/ CopyPayload(s) \/ CopySidecar(s)
    BY <1>2, <2>2 DEF SessionsOK, ReadRecords, HashInput, Teach, CopyPayload, CopySidecar, Goto
  <2>3. CASE CheckIdentity(s) \/ ClaimIdentity(s)
    BY <1>2, <1>3, <2>1, <2>3 DEF SessionsOK, Prepared, CheckIdentity, ClaimIdentity, Goto
  <2>4. CASE ScanSealed(s) \/ Parse(s)
    BY <2>4, ScanSealedSnapshot, ParseSnapshot
  <2>5. CASE ScanOpen(s)
    BY <1>2, <1>3, <2>1, <2>5 DEF SessionsOK, ScanOpen, Goto
  <2>6. CASE Confirm(s)
    BY <1>3, <2>6 DEF SessionsOK, ParsedSoFar, Confirm, Goto
  <2>7. CASE FinishInspect(s)
    BY <1>2, <2>1, <2>7 DEF SessionsOK, FinishInspect, Goto
  <2> QED BY <1>6, <2>1, <2>2, <2>3, <2>4, <2>5, <2>6, <2>7
          DEF SessionStep, Crash, ScanRejected, TeachFails, ConfirmFails, ParseFails,
              FinishRun, FinishLoad
<1>7. CASE UNCHANGED session
  BY <1>1, <1>7 DEF session
<1> QED BY <1>4, <1>5, <1>6, <1>7 DEF Next, ReplaceCode, ReplaceInput, DriveFault, vars

LedgerInv == OneWriterInv /\ SnapshotInv

\* The initial state is one of the abstract directory.
LEMMA InitLedger == Init => Ledger!Init
BY DEF Init, Ledger!Init, Sealed

\* A step that leaves files and corpus alone is a stutter of the abstract directory.
LEMMA StutterLedger ==
  ASSUME UNCHANGED <<payload, sidecar, corpus, faults>>
  PROVE  UNCHANGED Ledger!vars
BY DEF Ledger!vars, Sealed

\* The payload of an open shard is copied: nothing is sealed yet.
LEMMA CopyPayloadLedger ==
  ASSUME OneWriterInv, NEW t \in Sessions, CopyPayload(t)
  PROVE  UNCHANGED Ledger!vars
<1>1. /\ k[t] \in Shards /\ sidecar[k[t]] = None /\ payload \in [Shards -> Payloads \cup {None, Garbled}]
  BY AtShard DEF OneWriterInv, TypeInv, DriveOK, WriterInv, Working, CopyPayload
<1>2. UNCHANGED <<sidecar, corpus, faults>>
  BY DEF CopyPayload, world
<1>3. \A j \in Shards : j # k[t] => payload'[j] = payload[j]
  BY <1>1 DEF CopyPayload
<1>4. \A j \in Shards : Sealed(j)' <=> Sealed(j)
  BY <1>1, <1>2, <1>3 DEF Sealed
<1>5. \A j \in Shards : Sealed(j) => payload'[j] = payload[j]
  BY <1>1, <1>3 DEF Sealed
<1> QED BY <1>2, <1>4, <1>5 DEF Ledger!vars

\* The sidecar of an open shard is copied: this is the moment it is sealed.
LEMMA CopySidecarLedger ==
  ASSUME OneWriterInv, NEW t \in Sessions, CopySidecar(t)
  PROVE  \E i \in Shards : Ledger!Seal(i)
<1>1. /\ k[t] \in Shards /\ sidecar[k[t]] = None /\ sidecar \in [Shards -> Payloads \cup {None}]
  BY AtShard DEF OneWriterInv, TypeInv, DriveOK, WriterInv, Working, CopySidecar
<1>2. UNCHANGED <<payload, corpus, faults>>
  BY DEF CopySidecar, world
<1>3. \A j \in Shards : j # k[t] => sidecar'[j] = sidecar[j]
  BY <1>1 DEF CopySidecar
<1>4. \A j \in Shards : j # k[t] => (Sealed(j)' <=> Sealed(j))
  BY <1>1, <1>2, <1>3 DEF Sealed
<1>5. ~Sealed(k[t])
  BY <1>1 DEF Sealed
<1>6. PICK i \in Shards : i = k[t]
  BY <1>1
<1>7. Ledger!Seal(i)
  BY <1>1, <1>2, <1>4, <1>5, <1>6 DEF Ledger!Seal
<1> QED BY <1>7

\* A load that ends hands over a snapshot, unless the Drive lost something.
LEMMA FinishLoadLedger ==
  ASSUME OneWriterInv, SnapshotInv, NEW t \in Sessions, FinishLoad(t)
  PROVE  \E j \in Shards : Ledger!Publish(j + 1)
<1>1. /\ pc[t] = "scan" /\ job[t].phase = "load" /\ k[t] = Total(t)
      /\ corpus' = [config |-> job[t].config, input |-> job[t].input, code |-> job[t].code,
                    limit |-> job[t].limit, recs |-> job[t].recs, shards |-> out[t]]
      /\ UNCHANGED <<payload, sidecar, faults>>
  BY DEF FinishLoad, drive, world
<1>2. /\ Total(t) \in 1 .. MaxShards /\ MaxShards \in Nat /\ out[t] \in Seq(Payloads)
      /\ Len(out[t]) = k[t] /\ job[t] \in Jobs /\ job[t].input \in Inputs
  BY <1>1, TotalType, ShapeAssumption
     DEF OneWriterInv, TypeInv, RowsInv, SessionsOK, Prepared, ParsedSoFar
<1>3. corpus' \in Corpora
  BY <1>1, <1>2 DEF Corpora, Jobs
<1>4. corpus' # None /\ corpus'.shards = out[t]
  BY <1>1, <1>3, ContentsAssumption
<1>5. k[t] - 1 \in Shards /\ k[t] - 1 + 1 = k[t] /\ k[t] \in Nat
  BY <1>1, <1>2 DEF Shards
<1>6. ASSUME faults = 0
      PROVE  /\ \A j \in 0 .. k[t] - 1 : j \in Shards /\ Sealed(j)
             /\ out[t] = [i \in 1 .. k[t] |-> payload[i - 1]]
  <2>1. \A j \in 1 .. k[t] : Sealed(j - 1) /\ payload[j - 1] = out[t][j]
    BY <1>1, <1>6 DEF SnapshotInv, Snapshot
  <2>2. \A j \in 0 .. k[t] - 1 : j + 1 \in 1 .. k[t] /\ j + 1 - 1 = j /\ j \in Shards
    BY <1>1, <1>2 DEF Shards
  <2>3. \A j \in 0 .. k[t] - 1 : Sealed(j)
    BY <2>1, <2>2
  <2>4. out[t] = [i \in 1 .. k[t] |-> out[t][i]]
    BY <1>2
  <2> QED BY <2>1, <2>2, <2>3, <2>4
<1>7. Ledger!Publish(k[t] - 1 + 1)
  <2>1. ASSUME faults = 0
        PROVE  /\ \A j \in 0 .. k[t] - 1 :
                     [i \in Shards |-> IF Sealed(i) THEN payload[i] ELSE None][j] # None
               /\ out[t] = [i \in 1 .. k[t] |->
                     [n \in Shards |-> IF Sealed(n) THEN payload[n] ELSE None][i - 1]]
    <3>1. \A j \in 0 .. k[t] - 1 : j \in Shards /\ Sealed(j) /\ payload[j] # None
      BY <1>6, <2>1 DEF Sealed
    <3>2. \A i \in 1 .. k[t] : i - 1 \in 0 .. k[t] - 1
      BY <1>5
    <3>3. \A i \in 1 .. k[t] : i - 1 \in Shards /\ Sealed(i - 1)
      BY <3>1, <3>2
    <3> QED BY <1>6, <2>1, <3>1, <3>3
  <2> QED BY <1>1, <1>4, <1>5, <2>1 DEF Ledger!Publish, Sealed
<1> QED BY <1>5, <1>7

\* A fault of the Drive unseals a shard at most.
LEMMA DriveFaultLedger ==
  ASSUME OneWriterInv, NEW j \in Shards, DriveFault(j)
  PROVE  Ledger!Lose
<1>1. /\ payload \in [Shards -> Payloads \cup {None, Garbled}]
      /\ sidecar \in [Shards -> Payloads \cup {None}] /\ faults \in Nat
  BY ShapeAssumption DEF OneWriterInv, TypeInv, DriveOK
<1>2. faults' > faults /\ corpus' = corpus
  BY <1>1 DEF DriveFault
<1>3. \A i \in Shards : i # j => payload'[i] = payload[i] /\ sidecar'[i] = sidecar[i]
  BY <1>1 DEF DriveFault
<1>4. ~Sealed(j)'
  <2>1. sidecar[j] \in Payloads \cup {None}
    BY <1>1
  <2>2. CASE payload' = [payload EXCEPT ![j] = None]
    BY <1>1, <2>2 DEF Sealed
  <2>3. CASE payload' = [payload EXCEPT ![j] = Garbled] /\ sidecar' = sidecar
    BY <1>1, <2>1, <2>3, ContentsAssumption, SentinelAssumption DEF Sealed
  <2>4. CASE sidecar' = [sidecar EXCEPT ![j] = None] /\ payload' = payload
    BY <1>1, <2>4 DEF Sealed
  <2> QED BY <2>2, <2>3, <2>4 DEF DriveFault
<1>5. ASSUME NEW i \in Shards
      PROVE  (IF Sealed(i) THEN payload[i] ELSE None)' \in
                {IF Sealed(i) THEN payload[i] ELSE None, None}
  BY <1>3, <1>4, <1>5 DEF Sealed
<1> QED BY <1>2, <1>5 DEF Ledger!Lose

\* Every step of the protocol is a step of the abstract directory, or none.
LEMMA NextLedger ==
  LedgerInv /\ [Next]_vars => [Ledger!Next]_(Ledger!vars)
<1> SUFFICES ASSUME LedgerInv, [Next]_vars
             PROVE  Ledger!Next \/ UNCHANGED Ledger!vars
  OBVIOUS
<1>1. CASE UNCHANGED <<payload, sidecar, corpus, faults>>
  BY <1>1, StutterLedger
<1>2. ASSUME NEW t \in Sessions, CopyPayload(t) PROVE UNCHANGED Ledger!vars
  BY <1>2, CopyPayloadLedger DEF LedgerInv
<1>3. ASSUME NEW t \in Sessions, CopySidecar(t) PROVE Ledger!Next
  BY <1>3, CopySidecarLedger DEF LedgerInv, Ledger!Next
<1>4. ASSUME NEW t \in Sessions, FinishLoad(t) PROVE Ledger!Next
  BY <1>4, FinishLoadLedger DEF LedgerInv, Ledger!Next
<1>5. ASSUME NEW j \in Shards, DriveFault(j) PROVE Ledger!Next
  BY <1>5, DriveFaultLedger DEF LedgerInv, Ledger!Next
<1> QED BY <1>1, <1>2, <1>3, <1>4, <1>5, StepKinds

\* With one writer at a time the shard protocol implements ShardLedger: a shard once
\* sealed never changes, the moment of sealing is the copy of the sidecar, and a load
\* beside a generating session hands over what was sealed, unless the Drive lost it.
THEOREM GenerationImplementsLedger ==
  ASSUME SoleWriter = TRUE
  PROVE  Spec => LedgerSpec
<1>1. Init => LedgerInv
  BY InitOneWriter DEF LedgerInv, SnapshotInv, Snapshot, Init
<1>2. LedgerInv /\ [Next]_vars => LedgerInv'
  BY NextOneWriter, NextSnapshot DEF LedgerInv, OneWriterInv
<1> QED BY <1>1, <1>2, InitLedger, NextLedger, PTL DEF Spec, LedgerSpec, Ledger!Spec

----------------------------------------------------------------------------
(* One run.  When the first command is alone on a directory, and code and  *)
(* input are replaced between sessions only, everything in the directory   *)
(* and every session past its check is of the run the identity names.      *)

OfRun(p) ==
    /\ identity # None /\ p.config = identity.config
    /\ p.code = identity.code /\ p.input = identity.input

\* Until the identity is written, at most one command is at work.
Alone ==
    identity = None =>
        \A s, u \in Sessions : pc[s] # "idle" /\ pc[u] # "idle" => s = u

SessionBound(s) ==
    /\ pc[s] # "idle" => job[s].code = diskCode[s]
    /\ pc[s] \notin {"idle", "read"} => job[s].recs = Take(Records[inputFile], job[s].limit)
    /\ pc[s] \notin {"idle", "read", "hash"} => job[s].input = inputFile
    /\ pc[s] = "claim" => identity = None /\ job[s].claim = RunIdentity(s)
    /\ pc[s] \notin {"idle", "read", "hash", "identify", "claim"} => identity = RunIdentity(s)
    /\ pc[s] \in {"copy", "seal"} => OfRun(local[s])
    /\ \A i \in 1 .. Len(out[s]) : OfRun(out[s][i])

PayloadsBound == \A j \in Shards : payload[j] \notin {None, Garbled} => OfRun(payload[j])

BoundInv == Alone /\ PayloadsBound /\ CorpusIsBound /\ \A s \in Sessions : SessionBound(s)

\* Only the corpus itself matters to what is said of it.
LEMMA CorpusBoundFrame ==
  ASSUME CorpusIsBound, UNCHANGED corpus
  PROVE  CorpusIsBound'
BY DEF CorpusIsBound, CorpusRowsMatchSource

LEMMA SessionBoundFrame ==
  ASSUME NEW s \in Sessions, SessionBound(s),
         UNCHANGED <<identity, inputFile>>, diskCode'[s] = diskCode[s],
         pc'[s] = pc[s], job'[s] = job[s], local'[s] = local[s], out'[s] = out[s]
  PROVE  SessionBound(s)'
BY DEF SessionBound, RunIdentity, OfRun

\* A step of session t that changes neither the identity nor code, input or corpus,
\* and writes to the Drive what is of this run.
LEMMA BoundStep ==
  ASSUME BoundInv, NEW t \in Sessions, UNCHANGED <<identity, inputFile, diskCode, corpus>>,
         \A s \in Sessions : s # t =>
            pc'[s] = pc[s] /\ job'[s] = job[s] /\ local'[s] = local[s] /\ out'[s] = out[s],
         pc'[t] # "idle" => pc[t] # "idle",
         PayloadsBound', SessionBound(t)'
  PROVE  BoundInv'
<1>1. Alone'
  BY DEF BoundInv, Alone
<1>2. ASSUME NEW s \in Sessions, s # t PROVE SessionBound(s)'
  BY <1>2, SessionBoundFrame DEF BoundInv
<1> QED BY <1>1, <1>2, CorpusBoundFrame DEF BoundInv

LEMMA PayloadsBoundFrame ==
  ASSUME PayloadsBound, UNCHANGED <<identity, payload>>
  PROVE  PayloadsBound'
BY DEF PayloadsBound, OfRun

LEMMA EndBound ==
  ASSUME TypeInv, BoundInv, NEW t \in Sessions, End(t),
         UNCHANGED <<identity, payload, inputFile, diskCode>>, CorpusIsBound'
  PROVE  BoundInv'
<1> SessionsOK
  BY DEF TypeInv
<1>1. /\ pc'[t] = "idle" /\ out'[t] = <<>>
      /\ \A s \in Sessions : s # t =>
            pc'[s] = pc[s] /\ job'[s] = job[s] /\ local'[s] = local[s] /\ out'[s] = out[s]
  BY DEF SessionsOK, End, Goto
<1>2. SessionBound(t)'
  BY <1>1 DEF SessionBound
<1>3. ASSUME NEW s \in Sessions, s # t PROVE SessionBound(s)'
  BY <1>1, <1>3, SessionBoundFrame DEF BoundInv
<1>4. Alone'
  BY <1>1 DEF BoundInv, Alone
<1> QED BY <1>2, <1>3, <1>4, PayloadsBoundFrame DEF BoundInv

LEMMA EndingBound ==
  ASSUME TypeInv, BoundInv, NEW t \in Sessions, End(t),
         UNCHANGED <<identity, payload, inputFile, diskCode, corpus>>
  PROVE  BoundInv'
BY EndBound, CorpusBoundFrame DEF BoundInv

LEMMA LaunchBound ==
  ASSUME SoleWriter = TRUE, TypeInv, BoundInv, NEW t \in Sessions, NEW goal \in Goals,
         NEW c \in Configs, NEW limit \in Limits, Launch(t, goal, c, limit)
  PROVE  BoundInv'
<1>1. /\ pc[t] = "idle" /\ pc'[t] = "read" /\ job'[t].code = diskCode[t]
      /\ UNCHANGED <<identity, payload, inputFile, diskCode, local, out, corpus>>
      /\ \A s \in Sessions : s # t => pc'[s] = pc[s] /\ job'[s] = job[s]
  BY DEF TypeInv, SessionsOK, Launch, Goto, Fresh, drive, world
<1>2. identity = None => \A s \in Sessions : pc[s] = "idle"
  BY DEF Launch
<1>3. Alone'
  BY <1>1, <1>2 DEF BoundInv, Alone
<1>4. SessionBound(t)'
  BY <1>1 DEF BoundInv, SessionBound, OfRun
<1>5. ASSUME NEW s \in Sessions, s # t PROVE SessionBound(s)'
  BY <1>1, <1>5, SessionBoundFrame DEF BoundInv
<1> QED BY <1>1, <1>3, <1>4, <1>5, PayloadsBoundFrame, CorpusBoundFrame DEF BoundInv

\* The identity a session computes is one, so it is not "not there".
LEMMA RunIdentityType ==
  ASSUME TypeInv, NEW s \in Sessions, pc[s] \notin {"idle", "read", "hash"}
  PROVE  RunIdentity(s) \in Identities /\ RunIdentity(s) # None
<1>1. RunIdentity(s) \in Identities
  BY DEF TypeInv, DriveOK, SessionsOK, Prepared, Jobs, RunIdentity, Identities
<1> QED BY <1>1, ContentsAssumption

\* The first command writes the identity: nothing was there before, and no other
\* command is at work.
LEMMA ClaimBound ==
  ASSUME TypeInv, BoundInv, NEW t \in Sessions, ClaimIdentity(t)
  PROVE  BoundInv'
<1>1. /\ pc[t] = "claim" /\ pc'[t] = "scan" /\ identity' = job[t].claim
      /\ UNCHANGED <<payload, inputFile, diskCode, job, local, out, corpus>>
      /\ \A s \in Sessions : s # t => pc'[s] = pc[s]
  BY DEF TypeInv, SessionsOK, ClaimIdentity, Goto, world
<1>2. identity = None /\ job[t].claim = RunIdentity(t) /\ RunIdentity(t) # None
  BY <1>1, RunIdentityType DEF BoundInv, SessionBound
<1>3. Alone'
  BY <1>1, <1>2 DEF Alone
<1>4. \A s \in Sessions : s # t => pc[s] = "idle"
  BY <1>1, <1>2 DEF BoundInv, Alone
<1>5. \A s \in Sessions : \A i \in 1 .. Len(out[s]) : FALSE
  BY <1>2 DEF BoundInv, SessionBound, OfRun
<1>6. ASSUME NEW s \in Sessions, s # t PROVE SessionBound(s)'
  BY <1>1, <1>4, <1>5, <1>6 DEF SessionBound
<1>7. SessionBound(t)'
  BY <1>1, <1>2, <1>5 DEF BoundInv, SessionBound, RunIdentity
<1>8. PayloadsBound'
  BY <1>1, <1>2 DEF BoundInv, PayloadsBound, OfRun
<1> QED BY <1>1, <1>3, <1>6, <1>7, <1>8, CorpusBoundFrame DEF BoundInv

LEMMA FinishLoadBound ==
  ASSUME TypeInv, RowsInv, BoundInv, NEW t \in Sessions, FinishLoad(t)
  PROVE  BoundInv'
<1>1. /\ pc[t] = "scan" /\ End(t) /\ UNCHANGED <<identity, payload, inputFile, diskCode>>
      /\ corpus'.config = job[t].config /\ corpus'.recs = job[t].recs
      /\ corpus'.code = job[t].code /\ corpus'.input = job[t].input
      /\ corpus'.limit = job[t].limit /\ corpus'.shards = out[t]
  BY DEF FinishLoad, drive, world
<1>2. CorpusRowsMatchSource'
  BY SessionStepRows DEF RowsInv, SessionStep
<1>3. /\ job[t].code = diskCode[t] /\ job[t].input = inputFile /\ identity = RunIdentity(t)
      /\ job[t].recs = Take(Records[inputFile], job[t].limit)
      /\ \A i \in 1 .. Len(out[t]) : OfRun(out[t][i])
  BY <1>1 DEF BoundInv, SessionBound
<1>4. corpus'.recs = Take(Records[corpus'.input], corpus'.limit)
  BY <1>1, <1>3
<1>5. ASSUME NEW j \in 1 .. Len(corpus'.shards)
      PROVE  /\ corpus'.shards[j].config = corpus'.config
             /\ corpus'.shards[j].input = corpus'.input
             /\ corpus'.shards[j].code = corpus'.code
  BY <1>1, <1>3 DEF OfRun, RunIdentity
<1>6. CorpusIsBound'
  BY <1>2, <1>4, <1>5 DEF CorpusIsBound, Take
<1> QED BY <1>1, <1>6, EndBound

LEMMA SessionStepBound ==
  ASSUME TypeInv, RowsInv, BoundInv, NEW t \in Sessions, SessionStep(t)
  PROVE  BoundInv'
<1> SessionsOK /\ SessionBound(t) /\ PayloadsBound
  BY DEF TypeInv, BoundInv
<1> DEFINE Others == \A s \in Sessions : s # t =>
              pc'[s] = pc[s] /\ job'[s] = job[s] /\ local'[s] = local[s] /\ out'[s] = out[s]
           Still == UNCHANGED <<identity, inputFile, diskCode, corpus>>
<1>1. CASE ReadRecords(t) \/ HashInput(t)
  <2>1. /\ Still /\ UNCHANGED <<payload, local, out>> /\ pc[t] \in {"read", "hash"}
        /\ Others /\ job[t] \in Jobs
    BY <1>1 DEF SessionsOK, ReadRecords, HashInput, Goto, drive, world
  <2>2. CASE ReadRecords(t)
    <3>1. /\ pc'[t] = "hash" /\ job'[t].code = job[t].code /\ job'[t].limit = job[t].limit
          /\ job'[t].recs = Take(Records[inputFile], job[t].limit)
      BY <2>1, <2>2 DEF SessionsOK, ReadRecords, Goto, Jobs
    <3> QED BY <2>1, <3>1, BoundStep, PayloadsBoundFrame DEF SessionBound, OfRun
  <2>3. CASE HashInput(t)
    <3>1. /\ pc[t] = "hash" /\ pc'[t] = "identify" /\ job'[t].code = job[t].code
          /\ job'[t].limit = job[t].limit /\ job'[t].recs = job[t].recs
          /\ job'[t].input = inputFile
      BY <2>1, <2>3 DEF SessionsOK, HashInput, Goto, Jobs
    <3> QED BY <2>1, <3>1, BoundStep, PayloadsBoundFrame DEF SessionBound, OfRun
  <2> QED BY <1>1, <2>2, <2>3
<1>2. CASE CheckIdentity(t)
  <2>1. Still /\ UNCHANGED payload /\ pc[t] = "identify" /\ job[t] \in Jobs
    BY <1>2 DEF SessionsOK, CheckIdentity, drive, world
  <2>2. CASE End(t)
    BY <2>1, <2>2, EndingBound
  <2>3. CASE ~End(t)
    <3>1. Others /\ UNCHANGED <<local, out>>
      BY <1>2, <2>3 DEF SessionsOK, CheckIdentity, Goto
    <3>2. CASE identity = None /\ pc'[t] = "claim" /\ job' = [job EXCEPT ![t].claim = RunIdentity(t)]
      <4>1. /\ job'[t].code = job[t].code /\ job'[t].limit = job[t].limit
            /\ job'[t].recs = job[t].recs /\ job'[t].input = job[t].input
            /\ job'[t].config = job[t].config /\ job'[t].claim = RunIdentity(t)
        BY <2>1, <3>2 DEF SessionsOK, Jobs
      <4>2. SessionBound(t)'
        BY <2>1, <3>1, <3>2, <4>1 DEF SessionBound, RunIdentity, OfRun
      <4> QED BY <2>1, <3>1, <4>2, BoundStep, PayloadsBoundFrame
    <3>3. CASE identity = RunIdentity(t) /\ pc'[t] = "scan" /\ job' = job
      <4>1. SessionBound(t)'
        BY <2>1, <3>1, <3>3 DEF SessionBound, RunIdentity, OfRun
      <4> QED BY <2>1, <3>1, <4>1, BoundStep, PayloadsBoundFrame
    <3> QED BY <1>2, <2>3, <3>2, <3>3 DEF SessionsOK, CheckIdentity, Goto
  <2> QED BY <2>2, <2>3
<1>3. CASE ClaimIdentity(t)
  BY <1>3, ClaimBound
<1>4. CASE ScanSealed(t) \/ Confirm(t)
  <2>1. /\ Still /\ UNCHANGED <<payload, job, out>> /\ pc[t] \in {"scan", "confirm"}
        /\ pc'[t] \in {"scan", "parse"} /\ Others
    BY <1>4 DEF SessionsOK, ScanSealed, Confirm, Goto, drive, world
  <2>2. SessionBound(t)'
    BY <2>1 DEF SessionBound, RunIdentity, OfRun
  <2> QED BY <2>1, <2>2, BoundStep, PayloadsBoundFrame
<1>5. CASE ScanOpen(t)
  <2>1. Still /\ UNCHANGED payload /\ pc[t] = "scan"
    BY <1>5 DEF ScanOpen, drive, world
  <2>2. CASE End(t)
    BY <2>1, <2>2, EndingBound
  <2>3. CASE ~End(t)
    <3>1. Others /\ UNCHANGED <<job, local, out>> /\ pc'[t] \in {"scan", "teach"}
      BY <1>5, <2>3 DEF SessionsOK, ScanOpen, Goto
    <3>2. SessionBound(t)'
      BY <2>1, <3>1 DEF SessionBound, RunIdentity, OfRun
    <3> QED BY <2>1, <3>1, <3>2, BoundStep, PayloadsBoundFrame
  <2> QED BY <2>2, <2>3
<1>6. CASE Teach(t)
  <2>1. /\ Still /\ UNCHANGED <<payload, job, out>> /\ pc[t] = "teach" /\ pc'[t] = "copy" /\ Others
    BY <1>6 DEF SessionsOK, Teach, Goto, drive, world
  <2>2. /\ local'[t].config = job[t].config /\ local'[t].code = diskCode[t]
        /\ local'[t].input = job[t].input
    BY <1>6 DEF SessionsOK, Teach
  <2>3. identity = RunIdentity(t) /\ identity # None
    BY <2>1, RunIdentityType DEF SessionBound
  <2>4. OfRun(local[t])'
    BY <2>1, <2>2, <2>3 DEF OfRun, RunIdentity
  <2>5. SessionBound(t)'
    BY <2>1, <2>3, <2>4 DEF SessionBound, RunIdentity, OfRun
  <2> QED BY <2>1, <2>5, BoundStep, PayloadsBoundFrame
<1>7. CASE CopyPayload(t) \/ CopySidecar(t)
  <2>1. /\ Still /\ UNCHANGED <<job, local, out>> /\ pc[t] \in {"copy", "seal"}
        /\ pc'[t] \in {"seal", "confirm"} /\ Others
    BY <1>7 DEF SessionsOK, CopyPayload, CopySidecar, Goto, world
  <2>2. SessionBound(t)'
    BY <2>1 DEF SessionBound, RunIdentity, OfRun
  <2>3. \A j \in Shards : payload'[j] = payload[j] \/ payload'[j] = local[t]
    BY <1>7 DEF TypeInv, DriveOK, CopyPayload, CopySidecar
  <2>4. OfRun(local[t])
    BY <2>1 DEF SessionBound
  <2>5. PayloadsBound'
    BY <2>1, <2>3, <2>4 DEF PayloadsBound, OfRun
  <2> QED BY <2>1, <2>2, <2>5, BoundStep
<1>8. CASE Parse(t)
  <2>1. /\ Still /\ UNCHANGED <<payload, job, local>> /\ pc[t] = "parse" /\ pc'[t] = "scan"
        /\ out'[t] = Append(out[t], payload[k[t]]) /\ Others
    BY <1>8 DEF SessionsOK, Parse, Goto, drive, world
  <2>2. k[t] \in Shards /\ payload[k[t]] \in Payloads /\ payload[k[t]] \notin {None, Garbled}
    BY <1>8, AtShard DEF TypeInv, DriveOK, SessionsOK, Parse, Parses
  <2>3. OfRun(payload[k[t]]) /\ out[t] \in Seq(Payloads)
    BY <2>2 DEF PayloadsBound, SessionsOK
  <2>4. ASSUME NEW i \in 1 .. Len(out'[t]) PROVE OfRun(out'[t][i])
    <3>1. Len(out'[t]) = Len(out[t]) + 1 /\ Len(out[t]) \in Nat
      BY <2>1, <2>2, <2>3
    <3>2. CASE i = Len(out[t]) + 1
      BY <2>1, <2>2, <2>3, <3>2
    <3>3. CASE i \in 1 .. Len(out[t])
      BY <2>1, <2>2, <2>3, <3>3 DEF SessionBound
    <3> QED BY <3>1, <3>2, <3>3
  <2>5. \A i \in 1 .. Len(out'[t]) : OfRun(out[t][i])'
    BY <2>1, <2>4 DEF OfRun
  <2>6. SessionBound(t)'
    BY <2>1, <2>5 DEF SessionBound, RunIdentity
  <2> QED BY <2>1, <2>6, BoundStep, PayloadsBoundFrame
<1>9. CASE FinishInspect(t)
  <2>1. Still /\ UNCHANGED payload /\ pc[t] = "scan" /\ job[t] \in Jobs
    BY <1>9 DEF SessionsOK, FinishInspect, world
  <2>2. CASE End(t)
    BY <2>1, <2>2, EndingBound
  <2>3. CASE ~End(t)
    <3>1. Others /\ UNCHANGED <<local, out>> /\ pc'[t] = "read" /\ job'[t].code = job[t].code
      BY <1>9, <2>3 DEF SessionsOK, FinishInspect, Goto, Fresh
    <3>2. SessionBound(t)'
      BY <2>1, <3>1 DEF SessionBound, OfRun
    <3> QED BY <2>1, <3>1, <3>2, BoundStep, PayloadsBoundFrame
  <2> QED BY <2>2, <2>3
<1>10. CASE FinishLoad(t)
  BY <1>10, FinishLoadBound
<1>11. CASE ScanRejected(t) \/ TeachFails(t) \/ ConfirmFails(t) \/ ParseFails(t) \/ FinishRun(t)
  <2>1. End(t) /\ Still /\ UNCHANGED payload
    BY <1>11 DEF ScanRejected, TeachFails, ConfirmFails, ParseFails, FinishRun, drive, world
  <2> QED BY <2>1, EndingBound
<1> HIDE DEF Others, Still
<1> QED BY <1>1, <1>2, <1>3, <1>4, <1>5, <1>6, <1>7, <1>8, <1>9, <1>10, <1>11 DEF SessionStep

LEMMA NextBound ==
  ASSUME SoleWriter = TRUE, LiveEdits = FALSE
  PROVE  TypeInv /\ RowsInv /\ BoundInv /\ [Next]_vars => BoundInv'
<1> SUFFICES ASSUME TypeInv, RowsInv, BoundInv, [Next]_vars PROVE BoundInv'
  OBVIOUS
<1>1. ASSUME NEW t \in Sessions, NEW goal \in Goals, NEW c \in Configs,
             NEW limit \in Limits, Launch(t, goal, c, limit)
      PROVE  BoundInv'
  BY <1>1, LaunchBound
<1>2. ASSUME NEW t \in Sessions, SessionStep(t) PROVE BoundInv'
  BY <1>2, SessionStepBound
<1>3. ASSUME NEW t \in Sessions, Crash(t) PROVE BoundInv'
  BY <1>3, EndingBound DEF Crash, drive
<1>4. ASSUME NEW t \in Sessions, NEW c \in Codes, ReplaceCode(t, c) PROVE BoundInv'
  <2>1. /\ pc[t] = "idle" /\ UNCHANGED <<identity, payload, inputFile, corpus, session>>
        /\ \A s \in Sessions : s # t => diskCode'[s] = diskCode[s]
    BY <1>4 DEF TypeInv, DriveOK, ReplaceCode, drive
  <2>2. UNCHANGED <<pc, job, local, out>>
    BY <2>1 DEF session
  <2>3. SessionBound(t)'
    BY <2>1, <2>2 DEF BoundInv, SessionBound, OfRun
  <2>4. ASSUME NEW s \in Sessions, s # t PROVE SessionBound(s)'
    BY <2>1, <2>2, <2>4, SessionBoundFrame DEF BoundInv
  <2> QED BY <2>1, <2>2, <2>3, <2>4, PayloadsBoundFrame, CorpusBoundFrame DEF BoundInv, Alone
<1>5. ASSUME NEW i \in Inputs, ReplaceInput(i) PROVE BoundInv'
  <2>1. \A s \in Sessions : pc[s] = "idle"
    BY <1>5 DEF ReplaceInput
  <2>2. UNCHANGED <<identity, payload, corpus, pc, job, local, out>>
    BY <1>5 DEF ReplaceInput, session, drive
  <2>3. ASSUME NEW s \in Sessions PROVE SessionBound(s)'
    BY <2>1, <2>2 DEF BoundInv, SessionBound, OfRun
  <2> QED BY <2>2, <2>3, PayloadsBoundFrame, CorpusBoundFrame DEF BoundInv, Alone
<1>6. ASSUME NEW j \in Shards, DriveFault(j) PROVE BoundInv'
  <2>1. UNCHANGED <<identity, inputFile, diskCode, corpus, pc, job, local, out>>
    BY <1>6 DEF DriveFault, session
  <2>2. \A i \in Shards : payload'[i] \in {None, Garbled, payload[i]}
    BY <1>6 DEF TypeInv, DriveOK, DriveFault
  <2>3. PayloadsBound'
    BY <2>1, <2>2 DEF BoundInv, PayloadsBound, OfRun
  <2>4. ASSUME NEW s \in Sessions PROVE SessionBound(s)'
    BY <2>1, SessionBoundFrame DEF BoundInv
  <2> QED BY <2>1, <2>3, <2>4, CorpusBoundFrame DEF BoundInv, Alone
<1>7. CASE UNCHANGED vars
  <2>1. UNCHANGED <<identity, inputFile, diskCode, corpus, payload, pc, job, local, out>>
    BY <1>7 DEF vars, drive, world, session
  <2>2. ASSUME NEW s \in Sessions PROVE SessionBound(s)'
    BY <2>1, SessionBoundFrame DEF BoundInv
  <2> QED BY <2>1, <2>2, PayloadsBoundFrame, CorpusBoundFrame DEF BoundInv, Alone
<1> QED BY <1>1, <1>2, <1>3, <1>4, <1>5, <1>6, <1>7 DEF Next

LEMMA InitBound == Init => BoundInv
BY DEF Init, BoundInv, Alone, PayloadsBound, CorpusIsBound, CorpusRowsMatchSource, SessionBound

\* A loaded corpus binds to one configuration, one implementation and one version of
\* the input, and answers the records of that version, when the first command on a
\* directory was alone on it and nobody replaces code or input under a session: the
\* run identity, checked by every command, and the labels of every shard suffice.
THEOREM LoadedCorpusIsBound ==
  ASSUME SoleWriter = TRUE, LiveEdits = FALSE
  PROVE  Spec => []CorpusIsBound
<1> DEFINE Inv == TypeInv /\ RowsInv /\ BoundInv
<1>1. Init => Inv
  BY InitOneWriter, InitBound DEF OneWriterInv
<1>2. Inv /\ [Next]_vars => Inv'
  BY NextTypeInv, NextRows, NextBound
<1>3. Inv => CorpusIsBound
  BY DEF BoundInv
<1> QED BY <1>1, <1>2, <1>3, PTL DEF Spec

----------------------------------------------------------------------------
(* The student sees the task only *)

\* A set of numbers has a least one.
LEMMA Least ==
  ASSUME NEW T \in SUBSET Nat, T # {}
  PROVE  \E m \in T : \A n \in T : m <= n
<1> DEFINE Below(n) == {i \in Nat : i < n}
           D == {Below(n) : n \in T}
<1>1. ASSUME NEW n \in Nat PROVE IsFiniteSet(Below(n))
  <2>1. Below(n) \subseteq 0 .. n
    OBVIOUS
  <2>2. IsFiniteSet(0 .. n)
    BY FS_Interval
  <2> QED BY <2>1, <2>2, FS_Subset
<1>2. D \subseteq FiniteSubsetsOf(Nat) /\ D # {}
  BY <1>1 DEF FiniteSubsetsOf
<1>3. IsWellFoundedOn(StrictSubsetOrdering(Nat), FiniteSubsetsOf(Nat))
  BY FS_StrictSubsetOrderingWellFounded
<1>4. PICK X \in D : \A Y \in D : ~(<<Y, X>> \in StrictSubsetOrdering(Nat))
  BY <1>2, <1>3, WFMin
<1>5. PICK m \in T : X = Below(m)
  BY <1>4
<1>6. ASSUME NEW n \in T, ~(m <= n) PROVE FALSE
  <2>1. Below(n) \in D /\ Below(n) \subseteq Nat /\ Below(m) \subseteq Nat
    OBVIOUS
  <2>2. Below(n) \subseteq Below(m) /\ n \in Below(m) /\ n \notin Below(n)
    BY <1>6
  <2>3. <<Below(n), Below(m)>> \in StrictSubsetOrdering(Nat)
    BY <2>1, <2>2 DEF StrictSubsetOrdering
  <2> QED BY <1>4, <1>5, <2>1, <2>3
<1> QED BY <1>6

----------------------------------------------------------------------------
(* What a teacher wrote, and what is left of it *)

Vocabulary == {"O", "C", "T", "A", "B"}

\* Nothing is thought after the first closing marker.
ThinksFirst(parts) ==
    /\ parts \in Seq(Vocabulary)
    /\ \A i, j \in DOMAIN parts : parts[i] = "C" /\ i < j => parts[j] # "T"

Thoughtless(parts) == \A j \in DOMAIN parts : parts[j] \notin {"T", "source"}

\* A set of numbers has its least in it.
LEMMA MinIsLeast ==
  ASSUME NEW S \in SUBSET Nat, S # {}
  PROVE  Repair!Min(S) \in S /\ \A y \in S : Repair!Min(S) <= y
<1>1. \E x \in S : \A y \in S : x <= y
  BY Least
<1> QED BY <1>1 DEF Repair!Min

\* What is behind the first closing marker is no thinking.
LEMMA AfterIsThoughtless ==
  ASSUME NEW parts, ThinksFirst(parts), Repair!Has(parts, "C")
  PROVE  Thoughtless(Repair!After(parts))
<1> DEFINE S == {j \in DOMAIN parts : parts[j] = "C"}
<1>1. parts \in Seq(Vocabulary) /\ DOMAIN parts = 1 .. Len(parts) /\ Len(parts) \in Nat
  BY DEF ThinksFirst
<1>2. S \in SUBSET Nat /\ S # {}
  BY <1>1 DEF Repair!Has, Repair!ToSet
<1>3. PICK m \in S : m = Repair!Min(S)
  BY <1>2, MinIsLeast
<1>4. Repair!After(parts) = SubSeq(parts, m + 1, Len(parts)) /\ m \in 1 .. Len(parts)
  BY <1>1, <1>3 DEF Repair!After
<1>5. SubSeq(parts, m + 1, Len(parts)) = [i \in 1 .. Len(parts) - m |-> parts[i + m]]
  BY <1>1, <1>4
<1>6. ASSUME NEW j \in 1 .. Len(parts) - m PROVE parts[j + m] \notin {"T", "source"}
  <2>1. j + m \in DOMAIN parts /\ m < j + m /\ m \in DOMAIN parts /\ parts[m] = "C"
    BY <1>1, <1>3, <1>4
  <2>2. parts[j + m] # "T"
    BY <2>1 DEF ThinksFirst
  <2>3. parts[j + m] \in Vocabulary
    BY <1>1, <2>1
  <2> QED BY <2>2, <2>3 DEF Vocabulary
<1> QED BY <1>4, <1>5, <1>6 DEF Thoughtless

\* The opening marker put back changes nothing of it.
LEMMA NormalThinksFirst ==
  ASSUME NEW parts, ThinksFirst(parts)
  PROVE  /\ ThinksFirst(Repair!Normal(parts))
         /\ Repair!Has(parts, "C") => Repair!Has(Repair!Normal(parts), "C")
              /\ Repair!Opens(Repair!Normal(parts))
<1>1. CASE ~Repair!Opens(parts) /\ Repair!Has(parts, "C")
  <2>0. parts \in Seq(Vocabulary)
    BY DEF ThinksFirst
  <2>1. PICK n : n = <<"O">> \o parts
    OBVIOUS
  <2>2. /\ n \in Seq(Vocabulary) /\ Len(n) = Len(parts) + 1 /\ n[1] = "O"
        /\ \A i \in 1 .. Len(parts) : n[i + 1] = parts[i]
    BY <2>0, <2>1 DEF Vocabulary
  <2>3. ASSUME NEW i \in DOMAIN n, NEW j \in DOMAIN n, n[i] = "C", i < j PROVE n[j] # "T"
    <3>1. i # 1 /\ i \in 1 .. Len(n) /\ j \in 1 .. Len(n)
      BY <2>2, <2>3
    <3>2. i - 1 \in 1 .. Len(parts) /\ j - 1 \in 1 .. Len(parts)
      BY <2>0, <2>2, <2>3, <3>1
    <3>3. n[i] = parts[i - 1] /\ n[j] = parts[j - 1]
      <4>1. n[(i - 1) + 1] = parts[i - 1] /\ n[(j - 1) + 1] = parts[j - 1]
        BY <2>2, <3>2
      <4>2. (i - 1) + 1 = i /\ (j - 1) + 1 = j
        BY <3>1
      <4> QED BY <4>1, <4>2
    <3>4. i - 1 \in DOMAIN parts /\ j - 1 \in DOMAIN parts /\ i - 1 < j - 1
      BY <2>0, <2>3, <3>1, <3>2
    <3> QED BY <2>3, <3>3, <3>4 DEF ThinksFirst
  <2>4. ThinksFirst(n)
    BY <2>2, <2>3 DEF ThinksFirst
  <2>5. Repair!Has(n, "C")
    <3>1. PICK i \in 1 .. Len(parts) : parts[i] = "C"
      BY <1>1, <2>0 DEF Repair!Has, Repair!ToSet
    <3>2. i + 1 \in DOMAIN n /\ n[i + 1] = "C"
      BY <2>0, <2>2, <3>1
    <3> QED BY <3>2 DEF Repair!Has, Repair!ToSet
  <2>6. Repair!Opens(n)
    BY <2>0, <2>2 DEF Repair!Opens
  <2>7. Repair!Normal(parts) = n
    BY <1>1, <2>1 DEF Repair!Normal
  <2> QED BY <2>4, <2>5, <2>6, <2>7
<1>2. CASE Repair!Opens(parts) \/ ~Repair!Has(parts, "C")
  BY <1>2 DEF Repair!Normal
<1> QED BY <1>1, <1>2

\* The answer of a teacher that has closed its thinking.
LEMMA AnswerIsThoughtless ==
  ASSUME NEW parts, ThinksFirst(parts), Repair!Has(parts, "C")
  PROVE  Thoughtless(Repair!Answer(Repair!Normal(parts)))
<1>1. Repair!Answer(Repair!Normal(parts)) = Repair!After(Repair!Normal(parts))
  BY NormalThinksFirst DEF Repair!Answer
<1> QED BY <1>1, NormalThinksFirst, AfterIsThoughtless

----------------------------------------------------------------------------
(* The instruction, and the task without it *)

\* A record with the instruction of one of the policies.
IsInstructed(r) ==
    /\ DOMAIN r = {"task", "systems", "policy", "answer", "finish"}
    /\ \E p \in Policies, i \in DOMAIN Tasks :
         /\ r.task = i /\ r.policy = p
         /\ r.systems = Repair!Instructed(p, Repair!SourceRecord(i)).systems

\* A text without the blanks at its end is a text.
LEMMA RStripType ==
  ASSUME NEW W, NEW words \in Seq(W)
  PROVE  Repair!RStrip(words) \in Seq(W)
<1> DEFINE S == {0} \cup {j \in DOMAIN words : words[j] # Repair!Space}
           U == {m \in Nat : \A y \in S : y <= m}
<1>1. S \in SUBSET (0 .. Len(words)) /\ Len(words) \in Nat
  OBVIOUS
<1>2. Len(words) \in U
  <2> HIDE DEF S
  <2> QED BY <1>1
<1>3. PICK m \in U : \A n \in U : m <= n
  BY <1>2, Least
<1>4. m \in S
  <2>1. SUFFICES ASSUME m \notin S PROVE FALSE
    OBVIOUS
  <2>2. m # 0 /\ m \in Nat
    BY <2>1
  <2>3. m - 1 \in Nat
    BY <2>2
  <2>4. ASSUME NEW y \in S PROVE y <= m - 1
    <3> HIDE DEF S
    <3>1. y <= m /\ y # m /\ y \in Nat
      BY <1>1, <1>3, <2>1, <2>4
    <3> QED BY <2>2, <3>1
  <2>5. m - 1 \in U
    <3> HIDE DEF S
    <3> QED BY <2>3, <2>4
  <2>6. m <= m - 1
    BY <1>3, <2>5
  <2> QED BY <2>2, <2>6
<1>5. \A y \in S : m >= y
  <2> HIDE DEF S
  <2> QED BY <1>1, <1>3
<1>6. Repair!Max(S) \in S
  <2> HIDE DEF S
  <2> QED BY <1>4, <1>5 DEF Repair!Max
<1>7. PICK b \in 0 .. Len(words) : Repair!RStrip(words) = SubSeq(words, 1, b)
  <2>1. Repair!RStrip(words) = SubSeq(words, 1, Repair!Max(S))
    BY DEF Repair!RStrip
  <2> HIDE DEF S
  <2> QED BY <1>1, <1>6, <2>1
<1> QED BY <1>7

\* The task of an instructed record is what it was, but for blanks at its end.
LEMMA StrippedTask ==
  ASSUME NEW r, IsInstructed(r)
  PROVE  /\ DOMAIN Repair!Stripped(r) = DOMAIN r
         /\ Repair!Stripped(r).task = r.task /\ Repair!Stripped(r).answer = r.answer
         /\ Repair!Stripped(r).finish = r.finish
         /\ LET told == Tasks[r.task].systems IN
            Repair!Stripped(r).systems \in
              {told, IF told = <<>> THEN <<>> ELSE <<Repair!RStrip(Head(told))>>}
<1>1. PICK p \in Policies, i \in DOMAIN Tasks :
         /\ r.task = i /\ r.policy = p
         /\ r.systems = Repair!Instructed(p, Repair!SourceRecord(i)).systems
  BY DEF IsInstructed
<1>2. DOMAIN r = {"task", "systems", "policy", "answer", "finish"} /\ r.policy # None
  BY <1>1, RepairAssumption DEF IsInstructed
<1> DEFINE told == Tasks[i].systems
           order == Repair!Instruction(p, i)
<1>3. r.systems = IF told = <<>> THEN <<<<order>>>>
                  ELSE <<Repair!RStrip(Head(told)) \o <<Repair!Gap, order>>>>
  BY <1>1 DEF Repair!Instructed, Repair!SourceRecord
<1>4. Repair!Stripped(r) = [r EXCEPT !.systems = IF Len(Head(r.systems)) = 1 THEN <<>>
                       ELSE <<SubSeq(Head(r.systems), 1, Len(Head(r.systems)) - 2)>>]
  BY <1>2 DEF Repair!Stripped
<1>5. Repair!Stripped(r).systems = IF Len(Head(r.systems)) = 1 THEN <<>>
                       ELSE <<SubSeq(Head(r.systems), 1, Len(Head(r.systems)) - 2)>>
  BY <1>2, <1>4
<1>6. CASE told = <<>>
  <2> HIDE DEF order
  <2>1. Len(Head(r.systems)) = 1
    BY <1>3, <1>6
  <2> QED BY <1>1, <1>2, <1>4, <1>5, <1>6, <2>1
<1>7. CASE told # <<>>
  <2>1. Repair!RStrip(Head(told)) \in Seq(Repair!ToSet(Head(told)))
    <3>1. Head(told) \in Seq({Head(told)[j] : j \in DOMAIN Head(told)})
      BY <1>7, RepairAssumption
    <3> QED BY <3>1, RStripType DEF Repair!ToSet
  <2>2. PICK kept, W : kept = Repair!RStrip(Head(told)) /\ kept \in Seq(W)
    BY <2>1
  <2>3. Head(r.systems) = kept \o <<Repair!Gap, order>>
    BY <1>3, <1>7, <2>2
  <2> HIDE DEF order
  <2>4. Len(Head(r.systems)) = Len(kept) + 2 /\ Len(kept) \in Nat
    BY <2>2, <2>3
  <2>5. SubSeq(Head(r.systems), 1, Len(kept)) = kept
    BY <2>2, <2>3
  <2>6. Repair!Stripped(r).systems = <<kept>>
    <3>1. PICK text : text = Head(r.systems)
      OBVIOUS
    <3>2. PICK n : n = Len(text)
      OBVIOUS
    <3>3. PICK b \in Nat : b = Len(kept) /\ n = b + 2
      BY <2>4, <3>1, <3>2
    <3>4. n # 1 /\ n - 2 = b
      BY <3>3
    <3>5. Repair!Stripped(r).systems = IF n = 1 THEN <<>> ELSE <<SubSeq(text, 1, n - 2)>>
      BY <1>5, <3>1, <3>2
    <3> QED BY <2>5, <3>1, <3>3, <3>4, <3>5
  <2> QED BY <1>1, <1>2, <1>4, <1>7, <2>2, <2>6
<1> QED BY <1>6, <1>7

----------------------------------------------------------------------------
(* The inductive invariant of the repair *)

Parted == {"accepted", "train", "validation"}
SalvageStages == {"output", "output seal", "summary", "identity"}
FinalStages == Parted \cup {"manifest", "manifest seal", "finalization"}

\* A record of the teacher's: the task with its instruction, and an answer to that very
\* task of which, where it ended, no thinking is left.
TaughtRecord(r) ==
    /\ IsInstructed(r) /\ DOMAIN r.answer = {"of", "parts"} /\ r.answer.of = r.task
    /\ r.finish = "stop" => Thoughtless(r.answer.parts)

\* A record that a finalization may take, when it has no marker.
Learnable(r) ==
    r.finish = "stop" /\ ~Repair!Marked(r.answer.parts) => Repair!IsStudentRecord(r)

\* A row of a run: on the route "repair" what was thought may still be in it.
TaughtRow(row, way) ==
    /\ way = "direct" /\ row.finish = "stop" => Thoughtless(row.stored)
    /\ way = "repair" /\ ~row.thought => ThinksFirst(row.stored) /\ ~Repair!Opens(row.stored)

TaughtRun(c, way) ==
    /\ DOMAIN c.rows = DOMAIN c.input
    /\ \A i \in DOMAIN c.input :
         IsInstructed(c.input[i]) /\ TaughtRow(c.rows[i], way)
           /\ c.rows[i].of = c.input[i].task

\* An answer is the salvaged one, or was too long.
ComesFrom(r, output) ==
    \E i \in DOMAIN output :
        output[i].task = r.task /\ (output[i].answer = r.answer \/ ~Tasks[r.task].fits)

Salvaged == salvaged["output"] # None

\* What a finalization may write into a file of records.
MayBeLearned(records, way, output) ==
    \A r \in records :
        /\ Repair!IsStudentRecord(r)
        /\ way = "repair" => output # None /\ ComesFrom(r, output)

\* The salvage writes its files once, the output first: they are all of one run.
SalvageIsOne ==
    /\ DOMAIN salvaged = SalvageStages
    /\ Salvaged => \A i \in DOMAIN salvaged["output"] : TaughtRecord(salvaged["output"][i])
    /\ \A f \in SalvageStages : salvaged[f] # None => salvaged[f] = salvaged["output"]
    /\ at \in SalvageStages => \A i \in DOMAIN work : TaughtRecord(work[i])
    /\ at \in SalvageStages \ {"output"} => salvaged["output"] = work

\* What an archive may hold.
MayBeImported(a) ==
    /\ DOMAIN a.final = FinalStages
    /\ \A f \in Parted : a.final[f] # None =>
         \A r \in a.final[f] : Repair!IsStudentRecord(r) /\ ComesFrom(r, a.identity)

RepairInv ==
    /\ prepared # None => \A i \in DOMAIN prepared : IsInstructed(prepared[i])
    /\ checkpoint # None => TaughtRun(checkpoint, route)
    /\ SalvageIsOne
    /\ merged # None =>
         Salvaged /\ \A r \in Repair!ToSet(merged.records) :
                        Learnable(r) /\ ComesFrom(r, salvaged["output"])
    /\ at \in FinalStages =>
         \A f \in Parted : MayBeLearned(work[f], route, salvaged["output"])
    /\ DOMAIN final = FinalStages
    /\ \A f \in Parted : final[f] # None => MayBeLearned(final[f], route, salvaged["output"])
    /\ archive # None => MayBeImported(archive)
    /\ route \in {"direct", "repair"}
    /\ Repair!StudentSeesTheTaskOnly

LEMMA StagesAre ==
  /\ Repair!ToSet(Repair!SalvageFiles) = SalvageStages
       /\ Repair!ToSet(Repair!FinalFiles) = FinalStages
  /\ Head(Repair!SalvageFiles) = "output" /\ Head(Repair!FinalFiles) = "accepted"
<1>1. DOMAIN Repair!SalvageFiles = 1 .. 4 /\ DOMAIN Repair!FinalFiles = 1 .. 6
  BY DEF Repair!SalvageFiles, Repair!FinalFiles
<1>2. Repair!ToSet(Repair!SalvageFiles) = SalvageStages
        /\ Head(Repair!SalvageFiles) = "output"
  <2>1. /\ Repair!SalvageFiles[1] = "output" /\ Repair!SalvageFiles[2] = "output seal"
        /\ Repair!SalvageFiles[3] = "summary" /\ Repair!SalvageFiles[4] = "identity"
        /\ Head(Repair!SalvageFiles) = "output"
    BY DEF Repair!SalvageFiles
  <2>2. Repair!ToSet(Repair!SalvageFiles) = {Repair!SalvageFiles[1], Repair!SalvageFiles[2],
          Repair!SalvageFiles[3], Repair!SalvageFiles[4]}
    <3>1. 1 .. 4 = {1, 2, 3, 4}
      OBVIOUS
    <3> QED BY <1>1, <3>1 DEF Repair!ToSet
  <2> QED BY <2>1, <2>2 DEF SalvageStages
<1>3. /\ Repair!FinalFiles[1] = "accepted" /\ Repair!FinalFiles[2] = "train"
           /\ Repair!FinalFiles[3] = "validation"
      /\ Repair!FinalFiles[4] = "manifest" /\ Repair!FinalFiles[5] = "manifest seal"
      /\ Repair!FinalFiles[6] = "finalization" /\ Head(Repair!FinalFiles) = "accepted"
  BY DEF Repair!FinalFiles
<1>4. Repair!ToSet(Repair!FinalFiles) = FinalStages
  <2>1. 1 .. 6 = {1, 2, 3, 4, 5, 6}
    OBVIOUS
  <2>2. Repair!ToSet(Repair!FinalFiles) = {Repair!FinalFiles[1], Repair!FinalFiles[2],
          Repair!FinalFiles[3], Repair!FinalFiles[4],
                             Repair!FinalFiles[5], Repair!FinalFiles[6]}
    BY <1>1, <2>1 DEF Repair!ToSet
  <2> QED BY <1>3, <2>2 DEF FinalStages, Parted
<1> QED BY <1>2, <1>3, <1>4

LEMMA InitRepairInv ==
  ASSUME Repair!Init
  PROVE  RepairInv
<1>1. /\ salvaged = [f \in SalvageStages |-> None] /\ final = [f \in FinalStages |-> None]
  BY StagesAre DEF Repair!Init, Repair!Empty
<1> QED BY <1>1 DEF Repair!Init, RepairInv, SalvageIsOne, Salvaged,
                    Repair!StudentSeesTheTaskOnly, Repair!ImportIsWhole,
            SalvageStages, FinalStages, Parted

\* A step that writes none of the files after the run of the teacher.
LEMMA QuietRepair ==
  ASSUME RepairInv, UNCHANGED <<route, final, salvaged, merged, archive, imported>>,
         prepared' # None => \A i \in DOMAIN prepared' : IsInstructed(prepared'[i]),
         checkpoint' # None => TaughtRun(checkpoint', route),
         at' \in SalvageStages => /\ \A i \in DOMAIN work' : TaughtRecord(work'[i])
                                  /\ at' = "output",
         at' \in FinalStages =>
             \A f \in Parted : MayBeLearned(work'[f], route, salvaged["output"])
  PROVE  RepairInv'
<1>1. Repair!StudentSeesTheTaskOnly'
  <2>1. Repair!ImportIsWhole'
    BY DEF RepairInv, Repair!StudentSeesTheTaskOnly, Repair!ImportIsWhole
  <2> QED BY <2>1 DEF RepairInv, Repair!StudentSeesTheTaskOnly
<1>2. SalvageIsOne'
  <2> HIDE DEF TaughtRecord, SalvageStages
  <2> QED BY DEF RepairInv, SalvageIsOne, Salvaged
<1> QED BY <1>1, <1>2 DEF RepairInv, Salvaged

\* The instruction is put into every record of the input.
LEMMA PrepareInputInv ==
  ASSUME RepairInv, NEW n \in Sizes, NEW p \in Policies, Repair!Prepare(n, p)
  PROVE  RepairInv'
<1>1. PICK order \in [1 .. n -> DOMAIN Tasks] :
         prepared' = [j \in 1 .. n |-> Repair!Instructed(p, Repair!SourceRecord(order[j]))]
  BY DEF Repair!Prepare
<1>2. ASSUME NEW i \in DOMAIN Tasks
        PROVE IsInstructed(Repair!Instructed(p, Repair!SourceRecord(i)))
  <2>1. PICK r : r = Repair!Instructed(p, Repair!SourceRecord(i))
    OBVIOUS
  <2>2. /\ DOMAIN r = {"task", "systems", "policy", "answer", "finish"}
        /\ r.task = i /\ r.policy = p
    BY <2>1 DEF Repair!Instructed, Repair!SourceRecord
  <2> QED BY <2>1, <2>2 DEF IsInstructed
<1>3. \A i \in DOMAIN prepared' : IsInstructed(prepared'[i])
  BY <1>1, <1>2
<1>4. /\ at' = "input seal"
      /\ UNCHANGED <<route, checkpoint, final, salvaged, merged, archive, imported, work>>
  BY DEF Repair!Prepare, Repair!repair
<1> QED BY <1>3, <1>4, QuietRepair DEF RepairInv, SalvageStages, FinalStages, Parted

LEMMA SealInputInv ==
  ASSUME RepairInv, Repair!SealInput
  PROVE  RepairInv'
BY QuietRepair DEF RepairInv, Repair!SealInput, Repair!repair, SalvageStages, FinalStages,
                   Parted

LEMMA CrashRepairInv ==
  ASSUME RepairInv, Repair!Crash
  PROVE  RepairInv'
BY QuietRepair DEF RepairInv, Repair!Crash, Repair!repair, SalvageStages, FinalStages, Parted

\* What a run of the teacher stores of a completion.
LEMMA TaughtRowIs ==
  ASSUME NEW c \in Completions, NEW row,
         row.stored = Repair!Answer(Repair!Transported(c.parts)),
           row.thought = Repair!Opens(Repair!Transported(c.parts)),
         row.finish = c.finish, route = "direct" => Repair!Closed(c)
  PROVE  TaughtRow(row, route)
<1>1. ThinksFirst(c.parts)
  BY RepairAssumption DEF ThinksFirst, Vocabulary
<1>2. CASE route = "direct"
  <2>1. row.finish = "stop" => Thoughtless(row.stored)
    BY <1>1, <1>2, AnswerIsThoughtless DEF Repair!Transported, Repair!Closed
  <2> QED BY <1>2, <2>1 DEF TaughtRow
<1>3. CASE route = "repair"
  <2>1. ~row.thought => row.stored = c.parts /\ ~Repair!Opens(c.parts)
    BY <1>3 DEF Repair!Transported, Repair!Answer
  <2> QED BY <1>1, <1>3, <2>1 DEF TaughtRow
<1> QED BY <1>2, <1>3 DEF TaughtRow

LEMMA TeachInv ==
  ASSUME RepairInv, Repair!Teach
  PROVE  RepairInv'
<1>1. PICK written \in [DOMAIN prepared -> Completions] :
        /\ \A i \in DOMAIN prepared :
             /\ Repair!Parts(Repair!Transported(written[i].parts))
             /\ route = "direct" => Repair!Normalizes(written[i].parts)
                  /\ Repair!Closed(written[i])
        /\ checkpoint' = [input |-> prepared,
             rows |-> [i \in DOMAIN prepared |-> Repair!Row(i, written[i])]]
  BY DEF Repair!Teach
<1>2. /\ prepared # None /\ at = "idle"
      /\ UNCHANGED <<route, prepared, final, salvaged, merged, archive, imported, at, work>>
  BY DEF Repair!Teach, Repair!repair, Repair!Idle
<1>3. PICK c : c = checkpoint'
  OBVIOUS
<1>4. c.input = prepared /\ c.rows = [i \in DOMAIN prepared |-> Repair!Row(i, written[i])]
  BY <1>1, <1>3
<1>5. ASSUME NEW i \in DOMAIN prepared
      PROVE  IsInstructed(prepared[i]) /\ TaughtRow(c.rows[i], route)
               /\ c.rows[i].of = prepared[i].task
  <2>1. PICK row : row = c.rows[i]
    OBVIOUS
  <2>2. /\ row.of = prepared[i].task
             /\ row.stored = Repair!Answer(Repair!Transported(written[i].parts))
        /\ row.thought = Repair!Opens(Repair!Transported(written[i].parts))
             /\ row.finish = written[i].finish
    BY <1>4, <2>1 DEF Repair!Row
  <2>3. written[i] \in Completions /\ (route = "direct" => Repair!Closed(written[i]))
    BY <1>1
  <2>4. TaughtRow(row, route)
    BY <2>2, <2>3, TaughtRowIs
  <2> QED BY <1>2, <2>1, <2>2, <2>4 DEF RepairInv
<1>6. TaughtRun(c, route)
  BY <1>4, <1>5 DEF TaughtRun
<1> QED BY <1>2, <1>3, <1>6, QuietRepair DEF RepairInv, SalvageStages, FinalStages, Parted

\* A row becomes the record that was asked about, with what is left of the answer.
LEMMA DistilledIs ==
  ASSUME NEW i \in DOMAIN checkpoint.input, TaughtRun(checkpoint, route), NEW parts
  PROVE  LET r == Repair!Distilled(i, parts) IN
         /\ IsInstructed(r) /\ r.task = checkpoint.input[i].task
         /\ r.answer = [of |-> r.task, parts |-> parts]
              /\ r.finish = checkpoint.rows[i].finish
<1>1. /\ IsInstructed(checkpoint.input[i]) /\ checkpoint.rows[i].of = checkpoint.input[i].task
  BY DEF TaughtRun
<1>2. PICK r : r = Repair!Distilled(i, parts)
  OBVIOUS
<1>3. PICK s : s = checkpoint.input[i]
  OBVIOUS
<1>4. DOMAIN s = {"task", "systems", "policy", "answer", "finish"}
  BY <1>1, <1>3 DEF IsInstructed
<1>5. r = [s EXCEPT !.answer = [of |-> checkpoint.rows[i].of, parts |-> parts],
                    !.finish = checkpoint.rows[i].finish]
  BY <1>2, <1>3 DEF Repair!Distilled
<1>6. /\ DOMAIN r = DOMAIN s /\ r.task = s.task /\ r.systems = s.systems
           /\ r.policy = s.policy
      /\ r.answer = [of |-> checkpoint.rows[i].of, parts |-> parts]
      /\ r.finish = checkpoint.rows[i].finish
  BY <1>4, <1>5
<1>7. IsInstructed(r)
  BY <1>1, <1>3, <1>6 DEF IsInstructed
<1> QED BY <1>1, <1>2, <1>3, <1>6, <1>7

\* Of a row that can be salvaged no thinking is left, where the answer ended.
LEMMA SalvagedIs ==
  ASSUME NEW row, TaughtRow(row, "repair"), Repair!Salvageable(row), row.finish = "stop"
  PROVE  Thoughtless(Repair!SalvagedParts(row))
<1>1. Repair!Marked(row.stored) /\ ~row.thought /\ Repair!Normalizes(row.stored)
  BY DEF Repair!Salvageable, Repair!Splits
<1>2. ThinksFirst(row.stored) /\ ~Repair!Opens(row.stored)
  BY <1>1 DEF TaughtRow
<1>3. Repair!Has(row.stored, "C")
  BY <1>1, <1>2 DEF Repair!Marked, Repair!Normalizes
<1>4. Repair!SalvagedParts(row) = Repair!Answer(Repair!Normal(row.stored))
  BY <1>1 DEF Repair!SalvagedParts
<1> QED BY <1>2, <1>3, <1>4, AnswerIsThoughtless

LEMMA SalvageInv ==
  ASSUME RepairInv, Repair!Salvage
  PROVE  RepairInv'
<1>1. /\ route = "repair" /\ checkpoint # None /\ checkpoint.input = prepared
      /\ \A i \in DOMAIN prepared : Repair!Salvageable(checkpoint.rows[i])
      /\ work' = [i \in DOMAIN prepared |->
           Repair!Distilled(i, Repair!SalvagedParts(checkpoint.rows[i]))]
      /\ at' = "output"
      /\ UNCHANGED <<route, prepared, checkpoint, final, salvaged, merged, archive, imported>>
  BY StagesAre DEF Repair!Salvage, Repair!repair
<1>2. TaughtRun(checkpoint, route)
  BY <1>1 DEF RepairInv
<1>3. ASSUME NEW i \in DOMAIN prepared PROVE TaughtRecord(work'[i])
  <2>1. i \in DOMAIN checkpoint.input
    BY <1>1
  <2>2. PICK r : r = Repair!Distilled(i, Repair!SalvagedParts(checkpoint.rows[i]))
    OBVIOUS
  <2>3. /\ IsInstructed(r) /\ r.answer = [of |-> r.task,
             parts |-> Repair!SalvagedParts(checkpoint.rows[i])]
        /\ r.finish = checkpoint.rows[i].finish
    BY <1>2, <2>1, <2>2, DistilledIs
  <2>4. TaughtRow(checkpoint.rows[i], "repair") /\ Repair!Salvageable(checkpoint.rows[i])
    BY <1>1, <1>2, <2>1 DEF TaughtRun
  <2>5. r.finish = "stop" => Thoughtless(r.answer.parts)
    <3>1. PICK row : row = checkpoint.rows[i]
      OBVIOUS
    <3>2. TaughtRow(row, "repair") /\ Repair!Salvageable(row) /\ r.finish = row.finish
          /\ r.answer.parts = Repair!SalvagedParts(row)
      BY <2>3, <2>4, <3>1
    <3> QED BY <3>2, SalvagedIs
  <2>6. TaughtRecord(r)
    BY <2>3, <2>5 DEF TaughtRecord
  <2> QED BY <1>1, <2>2, <2>6
<1>4. \A i \in DOMAIN work' : TaughtRecord(work'[i])
  BY <1>1, <1>3
<1> QED BY <1>1, <1>4, QuietRepair DEF RepairInv, SalvageStages, FinalStages, Parted

\* After a file of the salvage comes a later one, or the end.
LEMMA FollowsSalvage ==
  ASSUME NEW f \in SalvageStages
  PROVE  Repair!Following(Repair!SalvageFiles, f) \in
            {"idle"} \cup (SalvageStages \ {"output"})
<1>0. /\ Repair!SalvageFiles[2] = "output seal" /\ Repair!SalvageFiles[3] = "summary"
      /\ Repair!SalvageFiles[4] = "identity"
  BY DEF Repair!SalvageFiles
<1>1. DOMAIN Repair!SalvageFiles = 1 .. 4 /\ Len(Repair!SalvageFiles) = 4
  BY DEF Repair!SalvageFiles
<1>2. \E i \in DOMAIN Repair!SalvageFiles : Repair!SalvageFiles[i] = f
  BY StagesAre DEF Repair!ToSet
<1>3. PICK j \in DOMAIN Repair!SalvageFiles : j =
             CHOOSE i \in DOMAIN Repair!SalvageFiles : Repair!SalvageFiles[i] = f
  BY <1>2
<1>4. Repair!Following(Repair!SalvageFiles, f) =
        IF j = 4 THEN "idle" ELSE Repair!SalvageFiles[j + 1]
  BY <1>1, <1>3 DEF Repair!Following
<1>5. j \in {1, 2, 3, 4}
  BY <1>1
<1>6. CASE j = 4
  BY <1>4, <1>6
<1>7. CASE j \in {1, 2, 3}
  <2>1. j # 4 /\ j + 1 \in {2, 3, 4}
    BY <1>7
  <2>2. Repair!SalvageFiles[j + 1] \in SalvageStages \ {"output"}
    BY <1>0, <2>1 DEF SalvageStages
  <2> QED BY <1>4, <2>1, <2>2
<1> QED BY <1>5, <1>6, <1>7

\* After a file of the finalization comes another, or the end.
LEMMA FollowsFinal ==
  ASSUME NEW f \in FinalStages
  PROVE  Repair!Following(Repair!FinalFiles, f) \in {"idle"} \cup FinalStages
<1>1. DOMAIN Repair!FinalFiles = 1 .. 6 /\ Len(Repair!FinalFiles) = 6
  BY DEF Repair!FinalFiles
<1>2. \E i \in DOMAIN Repair!FinalFiles : Repair!FinalFiles[i] = f
  BY StagesAre DEF Repair!ToSet
<1>3. PICK j \in DOMAIN Repair!FinalFiles : j =
             CHOOSE i \in DOMAIN Repair!FinalFiles : Repair!FinalFiles[i] = f
  BY <1>2
<1>4. Repair!Following(Repair!FinalFiles, f) =
        IF j = 6 THEN "idle" ELSE Repair!FinalFiles[j + 1]
  BY <1>1, <1>3 DEF Repair!Following
<1>5. CASE j = 6
  BY <1>4, <1>5
<1>6. CASE j # 6
  <2>1. j + 1 \in DOMAIN Repair!FinalFiles
    BY <1>1, <1>6
  <2>2. Repair!FinalFiles[j + 1] \in FinalStages
    BY <2>1, StagesAre DEF Repair!ToSet
  <2> QED BY <1>4, <1>6, <2>2
<1> QED BY <1>5, <1>6

\* The salvage may write its output once, and later files only beside it.
LEMMA WriteSalvageInv ==
  ASSUME RepairInv, Repair!WriteExactOrVerify
  PROVE  RepairInv'
<1>1. /\ at \in SalvageStages
      /\ work' = (IF at' = "idle" THEN None ELSE work)
      /\ UNCHANGED <<route, prepared, checkpoint, final, merged, archive, imported>>
  BY StagesAre DEF Repair!WriteExactOrVerify
<1>2. /\ DOMAIN salvaged = SalvageStages
      /\ Salvaged => \A i \in DOMAIN salvaged["output"] : TaughtRecord(salvaged["output"][i])
      /\ \A f \in SalvageStages : salvaged[f] # None => salvaged[f] = salvaged["output"]
      /\ \A i \in DOMAIN work : TaughtRecord(work[i])
      /\ at # "output" => salvaged["output"] = work
  BY <1>1 DEF RepairInv, SalvageIsOne
<1>3. \/ /\ salvaged' = [salvaged EXCEPT ![at] = work] /\ salvaged[at] \in {None, work}
         /\ at' = Repair!Following(Repair!SalvageFiles, at)
      \/ at' = "idle" /\ salvaged' = salvaged
  BY DEF Repair!WriteExactOrVerify
<1>4. at' \in {"idle"} \cup (SalvageStages \ {"output"})
  BY <1>1, <1>3, FollowsSalvage
<1>5. /\ DOMAIN salvaged' = SalvageStages
      /\ salvaged["output"] # None => salvaged'["output"] = salvaged["output"]
      /\ salvaged'["output"] \in {salvaged["output"], work}
      /\ at' # "idle" => salvaged'["output"] = work
      /\ \A f \in SalvageStages : salvaged'[f] # None => salvaged'[f] = salvaged'["output"]
  <2> HIDE DEF TaughtRecord
  <2>1. CASE salvaged' = salvaged /\ at' = "idle"
    BY <1>2, <2>1
  <2>2. CASE salvaged' = [salvaged EXCEPT ![at] = work] /\ salvaged[at] \in {None, work}
    <3>1. CASE at = "output"
      BY <1>1, <1>2, <2>2, <3>1 DEF SalvageStages
    <3>2. CASE at # "output"
      BY <1>1, <1>2, <2>2, <3>2 DEF SalvageStages
    <3> QED BY <3>1, <3>2
  <2> QED BY <1>3, <2>1, <2>2
<1>6. SalvageIsOne'
  <2>1. Salvaged' => \A i \in DOMAIN salvaged'["output"] :
          TaughtRecord(salvaged'["output"][i])
    BY <1>2, <1>5 DEF Salvaged
  <2>2. at' \in SalvageStages => at' # "idle"
    BY DEF SalvageStages
  <2> QED BY <1>1, <1>2, <1>4, <1>5, <2>1, <2>2 DEF SalvageIsOne
<1>7. Repair!StudentSeesTheTaskOnly'
  <2>1. Repair!ImportIsWhole'
    BY <1>1 DEF RepairInv, Repair!StudentSeesTheTaskOnly, Repair!ImportIsWhole
  <2> QED BY <1>1, <2>1 DEF RepairInv, Repair!StudentSeesTheTaskOnly
<1>8. ASSUME NEW records, MayBeLearned(records, route, salvaged["output"])
      PROVE  MayBeLearned(records, route', salvaged'["output"])
  BY <1>1, <1>5, <1>8 DEF MayBeLearned
<1>9. \A f \in Parted : final'[f] # None =>
        MayBeLearned(final'[f], route', salvaged'["output"])
  BY <1>1, <1>8 DEF RepairInv
<1>10. merged' # None =>
         Salvaged' /\ \A r \in Repair!ToSet(merged'.records) :
                        Learnable(r) /\ ComesFrom(r, salvaged'["output"])
  BY <1>1, <1>5 DEF RepairInv, Salvaged
<1>11. at' \notin FinalStages
  BY <1>4 DEF SalvageStages, FinalStages, Parted
<1> QED BY <1>1, <1>6, <1>7, <1>9, <1>10, <1>11 DEF RepairInv

\* A record of the teacher's without its instruction is the student's, where it ended and
\* has no marker.
LEMMA StrippedIsLearnable ==
  ASSUME NEW r, TaughtRecord(r), NEW s, s.task = r.task,
         s.systems = Repair!Stripped(r).systems, s.finish = r.finish, s.answer = r.answer
  PROVE  Learnable(s)
<1> SUFFICES ASSUME s.finish = "stop", ~Repair!Marked(s.answer.parts)
               PROVE Repair!IsStudentRecord(s)
  BY DEF Learnable
<1>1. Thoughtless(s.answer.parts) /\ s.answer.of = s.task /\ IsInstructed(r)
  BY DEF TaughtRecord
<1>2. \A j \in DOMAIN s.answer.parts : s.answer.parts[j] \notin {"O", "C", "T", "source"}
  BY <1>1 DEF Thoughtless, Repair!Marked, Repair!Has, Repair!ToSet
<1>3. LET told == Tasks[s.task].systems IN
        s.systems \in {told, IF told = <<>> THEN <<>> ELSE <<Repair!RStrip(Head(told))>>}
  BY <1>1, StrippedTask
<1> QED BY <1>1, <1>2, <1>3 DEF Repair!IsStudentRecord

\* An answer of the teacher to a record that was too long has no thinking in it.
LEMMA MergeInv ==
  ASSUME RepairInv, NEW written \in Rewrites, Repair!Merge(written)
  PROVE  RepairInv'
<1> DEFINE output == salvaged["output"]
           Own(i) == [Repair!Stripped(output[i]) EXCEPT !.policy = None]
           Rewritten(i) == [Own(i) EXCEPT !.answer.parts =
             Repair!Answer(Repair!Normal(written.parts)),
                                          !.finish = written.finish]
<1>1. /\ Salvaged /\ at = "idle"
      /\ UNCHANGED <<route, prepared, checkpoint, final, salvaged, archive, imported, at,
           work>>
  BY DEF Repair!Merge, Salvaged, Repair!Idle
<1>2. merged'.records = [i \in DOMAIN output |->
            IF Own(i).finish # "stop" \/ Tasks[Own(i).task].fits THEN Own(i)
            ELSE Rewritten(i)]
  BY DEF Repair!Merge
<1>3. \A i \in DOMAIN output : TaughtRecord(output[i])
  BY <1>1 DEF RepairInv, SalvageIsOne
<1>4. Thoughtless(Repair!Answer(Repair!Normal(written.parts))) \/ written.finish # "stop"
  <2>1. ThinksFirst(written.parts) /\ Repair!Closed(written)
    BY RepairAssumption DEF ThinksFirst, Vocabulary, Repair!Closed, Repair!Has, Repair!ToSet
  <2> QED BY <2>1, AnswerIsThoughtless DEF Repair!Closed
<1>5. ASSUME NEW i \in DOMAIN output
      PROVE  /\ Learnable(Own(i)) /\ ComesFrom(Own(i), output)
             /\ ~Tasks[Own(i).task].fits => Learnable(Rewritten(i))
                  /\ ComesFrom(Rewritten(i), output)
  <2>1. PICK r : r = output[i]
    OBVIOUS
  <2>2. TaughtRecord(r)
    BY <1>3, <2>1
  <2>3. PICK s : s = Own(i)
    OBVIOUS
  <2>4. /\ s.task = r.task /\ s.systems = Repair!Stripped(r).systems /\ s.finish = r.finish
        /\ s.answer = r.answer /\ DOMAIN s = {"task", "systems", "policy", "answer", "finish"}
    <3>1. PICK q : q = Repair!Stripped(r)
      OBVIOUS
    <3>2. /\ DOMAIN q = {"task", "systems", "policy", "answer", "finish"}
          /\ q.task = r.task /\ q.answer = r.answer /\ q.finish = r.finish
      BY <2>2, <3>1, StrippedTask DEF TaughtRecord, IsInstructed
    <3>3. s = [q EXCEPT !.policy = None]
      BY <2>1, <2>3, <3>1
    <3> QED BY <3>1, <3>2, <3>3
  <2>5. Learnable(s)
    BY <2>2, <2>4, StrippedIsLearnable
  <2>6. ComesFrom(s, output)
    BY <2>1, <2>4 DEF ComesFrom
  <2>7. ASSUME ~Tasks[s.task].fits
        PROVE  Learnable(Rewritten(i)) /\ ComesFrom(Rewritten(i), output)
    <3>1. PICK w : w = Rewritten(i)
      OBVIOUS
    <3>2. w = [s EXCEPT !.answer = [s.answer EXCEPT !.parts =
            Repair!Answer(Repair!Normal(written.parts))],
                        !.finish = written.finish]
      BY <2>3, <3>1
    <3>3. /\ w.task = s.task /\ w.systems = s.systems /\ w.finish = written.finish
          /\ w.answer = [s.answer EXCEPT !.parts =
               Repair!Answer(Repair!Normal(written.parts))]
      BY <2>4, <3>2
    <3>4. w.answer.of = s.answer.of
            /\ w.answer.parts = Repair!Answer(Repair!Normal(written.parts))
      BY <2>2, <2>4, <3>3 DEF TaughtRecord
    <3>5. ComesFrom(w, output)
      BY <2>1, <2>4, <2>7, <3>3 DEF ComesFrom
    <3>6. ASSUME w.finish = "stop", ~Repair!Marked(w.answer.parts)
            PROVE Repair!IsStudentRecord(w)
      <4>1. Thoughtless(w.answer.parts) /\ w.answer.of = w.task
        BY <1>4, <2>2, <2>4, <3>3, <3>4, <3>6 DEF TaughtRecord
      <4>2. \A j \in DOMAIN w.answer.parts :
              w.answer.parts[j] \notin {"O", "C", "T", "source"}
        BY <3>6, <4>1 DEF Thoughtless, Repair!Marked, Repair!Has, Repair!ToSet
      <4>3. LET told == Tasks[w.task].systems IN
              w.systems \in
                {told, IF told = <<>> THEN <<>> ELSE <<Repair!RStrip(Head(told))>>}
        <5>1. IsInstructed(r) /\ w.task = r.task /\ w.systems = Repair!Stripped(r).systems
          BY <2>2, <2>4, <3>3 DEF TaughtRecord
        <5> QED BY <5>1, StrippedTask
      <4> QED BY <3>6, <4>1, <4>2, <4>3 DEF Repair!IsStudentRecord
    <3> QED BY <3>1, <3>5, <3>6 DEF Learnable
  <2> QED BY <2>3, <2>5, <2>6, <2>7
<1>6. \A r \in Repair!ToSet(merged'.records) : Learnable(r) /\ ComesFrom(r, output)
  <2> HIDE DEF output, Own, Rewritten
  <2> QED BY <1>2, <1>5 DEF Repair!ToSet
<1>7. Repair!StudentSeesTheTaskOnly'
  <2>1. Repair!ImportIsWhole'
    BY <1>1 DEF RepairInv, Repair!StudentSeesTheTaskOnly, Repair!ImportIsWhole
  <2> QED BY <1>1, <2>1 DEF RepairInv, Repair!StudentSeesTheTaskOnly
<1>8. SalvageIsOne' /\ Salvaged'
  BY <1>1 DEF RepairInv, SalvageIsOne, Salvaged
<1> QED BY <1>1, <1>6, <1>7, <1>8 DEF RepairInv, SalvageStages, FinalStages, Parted

\* What a finalization takes ended and has no marker: it may be learned from.
LEMMA FinalizeInv ==
  ASSUME RepairInv, Repair!Finalize
  PROVE  RepairInv'
<1> DEFINE output == salvaged["output"]
<1>1. /\ Repair!Finalizable /\ \A r \in Repair!Candidates : ~Repair!Marked(r.answer.parts)
      /\ work' = [accepted |-> Repair!Prepared,
           train |-> Repair!Prepared \ {r \in Repair!Prepared : r.task \in Held},
                  validation |-> {r \in Repair!Prepared : r.task \in Held}]
      /\ at' = "accepted"
      /\ UNCHANGED <<route, prepared, checkpoint, final, salvaged, merged, archive, imported>>
  BY StagesAre DEF Repair!Finalize, Repair!repair
<1>2. ASSUME NEW r \in Repair!Candidates, r.finish = "stop"
      PROVE  Repair!IsStudentRecord(r) /\
               (route = "repair" => output # None /\ ComesFrom(r, output))
  <2>1. CASE route = "direct"
    <3>1. checkpoint # None /\ checkpoint.input = prepared
      BY <1>1, <2>1 DEF Repair!Finalizable
    <3>2. PICK i \in DOMAIN prepared :
            r = Repair!Stripped(Repair!Distilled(i, checkpoint.rows[i].stored))
      BY <2>1 DEF Repair!Candidates
    <3>3. TaughtRun(checkpoint, route)
      BY <3>1 DEF RepairInv
    <3>4. PICK d : d = Repair!Distilled(i, checkpoint.rows[i].stored)
      OBVIOUS
    <3>5. /\ IsInstructed(d) /\ d.answer = [of |-> d.task,
               parts |-> checkpoint.rows[i].stored]
          /\ d.finish = checkpoint.rows[i].finish
      BY <3>1, <3>3, <3>4, DistilledIs
    <3>6. TaughtRow(checkpoint.rows[i], "direct")
      BY <2>1, <3>1, <3>3 DEF TaughtRun
    <3>7. d.finish = "stop" => Thoughtless(d.answer.parts)
      BY <3>5, <3>6 DEF TaughtRow
    <3>8. TaughtRecord(d)
      BY <3>5, <3>7 DEF TaughtRecord
    <3>9. r = Repair!Stripped(d)
      BY <3>2, <3>4
    <3>10. r.task = d.task /\ r.finish = d.finish /\ r.answer = d.answer
      BY <3>5, <3>9, StrippedTask
    <3>11. Learnable(r)
      BY <3>8, <3>9, <3>10, StrippedIsLearnable
    <3> QED BY <1>1, <1>2, <2>1, <3>11 DEF Learnable
  <2>2. CASE route = "repair"
    <3>1. merged # None /\ r \in Repair!ToSet(merged.records)
      BY <1>1, <2>2 DEF Repair!Finalizable, Repair!Candidates
    <3>2. output # None /\ Learnable(r) /\ ComesFrom(r, output)
      BY <3>1 DEF RepairInv, Salvaged
    <3> QED BY <1>1, <1>2, <3>2 DEF Learnable
  <2> QED BY <2>1, <2>2 DEF RepairInv
<1>3. ASSUME NEW r \in Repair!Prepared PROVE r \in Repair!Candidates /\ r.finish = "stop"
  BY DEF Repair!Prepared, Repair!Prefiltered
<1>4. ASSUME NEW S \in SUBSET Repair!Prepared PROVE MayBeLearned(S, route, output)
  BY <1>2, <1>3 DEF MayBeLearned
<1>5. \A f \in Parted : work'[f] \in SUBSET Repair!Prepared
  BY <1>1 DEF Parted
<1>6. \A f \in Parted : MayBeLearned(work'[f], route, output)
  BY <1>4, <1>5
<1> QED BY <1>1, <1>6, QuietRepair DEF RepairInv, SalvageStages, FinalStages, Parted

LEMMA WriteFinalInv ==
  ASSUME RepairInv, Repair!WriteFinal
  PROVE  RepairInv'
<1>1. /\ at \in FinalStages
      /\ final' = [final EXCEPT ![at] =
                    IF at \in {"accepted", "train", "validation"} THEN work[at] ELSE work]
      /\ at' = Repair!Following(Repair!FinalFiles, at)
      /\ work' = (IF at' = "idle" THEN None ELSE work)
      /\ UNCHANGED <<route, prepared, checkpoint, salvaged, merged, archive, imported>>
  BY StagesAre DEF Repair!WriteFinal, Repair!repair
<1>2. at' \in {"idle"} \cup FinalStages
  BY <1>1, FollowsFinal
<1>3. DOMAIN final = FinalStages
        /\ \A f \in Parted : MayBeLearned(work[f], route, salvaged["output"])
  BY <1>1 DEF RepairInv
<1>4. \A f \in Parted : final'[f] # None => MayBeLearned(final'[f], route, salvaged["output"])
  <2>1. ASSUME NEW f \in Parted, final'[f] # None
        PROVE  MayBeLearned(final'[f], route, salvaged["output"])
    <3>1. CASE f = at
      BY <1>1, <1>3, <2>1, <3>1 DEF Parted
    <3>2. CASE f # at
      <4>1. final'[f] = final[f]
        BY <1>1, <1>3, <3>2 DEF FinalStages
      <4> QED BY <2>1, <4>1 DEF RepairInv
    <3> QED BY <3>1, <3>2
  <2> QED BY <2>1
<1>5. Repair!StudentSeesTheTaskOnly'
  <2>1. Repair!ImportIsWhole'
    BY <1>1 DEF RepairInv, Repair!StudentSeesTheTaskOnly, Repair!ImportIsWhole
  <2> QED BY <1>1, <1>4, <2>1 DEF RepairInv, Repair!StudentSeesTheTaskOnly, MayBeLearned,
        Parted
<1>6. SalvageIsOne'
  <2>1. at' \notin SalvageStages
    BY <1>2 DEF FinalStages, SalvageStages, Parted
  <2> QED BY <1>1, <2>1 DEF RepairInv, SalvageIsOne, Salvaged
<1>7. DOMAIN final' = FinalStages
  BY <1>1, <1>3
<1>8. at' \in FinalStages =>
        \A f \in Parted : MayBeLearned(work'[f], route', salvaged'["output"])
  <2>1. at' \in FinalStages => work' = work
    BY <1>1 DEF FinalStages, Parted
  <2> QED BY <1>1, <1>3, <2>1
<1> QED BY <1>1, <1>4, <1>5, <1>6, <1>7, <1>8 DEF RepairInv, Salvaged

LEMMA QualifyInv ==
  ASSUME RepairInv, Repair!Qualify
  PROVE  RepairInv'
BY QuietRepair DEF RepairInv, Repair!Qualify, Repair!Idle, SalvageStages, FinalStages, Parted

LEMMA PinInv ==
  ASSUME RepairInv, Repair!Pin
  PROVE  RepairInv'
BY QuietRepair DEF RepairInv, Repair!Pin, Repair!Idle, SalvageStages, FinalStages, Parted

\* A step that leaves all but the archive and the import.
LEMMA ArchivingStep ==
  ASSUME RepairInv, at = "idle",
         UNCHANGED <<route, prepared, checkpoint, final, salvaged, merged, at, work>>,
         archive' # None => MayBeImported(archive'),
         Repair!StudentSeesTheTaskOnly'
  PROVE  RepairInv'
<1>1. SalvageIsOne'
  BY DEF RepairInv, SalvageIsOne, Salvaged
<1> QED BY <1>1 DEF RepairInv, Salvaged, FinalStages, SalvageStages, Parted

LEMMA PackInv ==
  ASSUME RepairInv, Repair!Pack
  PROVE  RepairInv'
<1>1. /\ at = "idle" /\ route = "repair" /\ salvaged["identity"] # None
      /\ archive' = [final |-> final, qualification |-> qualification,
                      identity |-> salvaged["identity"]]
      /\ UNCHANGED <<route, prepared, checkpoint, final, salvaged, merged, at, work,
           imported>>
  BY DEF Repair!Pack, Repair!Idle
<1>2. salvaged["identity"] = salvaged["output"]
  BY <1>1 DEF RepairInv, SalvageIsOne, SalvageStages
<1>3. archive'.final = final /\ archive'.identity = salvaged["output"]
  BY <1>1, <1>2
<1>4. ASSUME NEW f \in Parted, archive'.final[f] # None, NEW r \in archive'.final[f]
      PROVE  Repair!IsStudentRecord(r) /\ ComesFrom(r, archive'.identity)
  BY <1>1, <1>3, <1>4 DEF RepairInv, MayBeLearned
<1>5. Repair!StudentSeesTheTaskOnly'
  <2>1. Repair!ImportIsWhole'
    BY <1>1 DEF RepairInv, Repair!StudentSeesTheTaskOnly, Repair!ImportIsWhole
  <2> QED BY <1>1, <2>1 DEF RepairInv, Repair!StudentSeesTheTaskOnly
<1>6. MayBeImported(archive')
  BY <1>3, <1>4 DEF MayBeImported, RepairInv
<1> QED BY <1>1, <1>5, <1>6, ArchivingStep

LEMMA ImportInv ==
  ASSUME RepairInv, Repair!Import
  PROVE  RepairInv'
<1>1. /\ at = "idle" /\ archive # None /\ Repair!Verified(archive)
      /\ imported' = [final |-> archive.final, identity |-> archive.identity]
      /\ UNCHANGED <<route, prepared, checkpoint, final, salvaged, merged, archive, at, work>>
  BY DEF Repair!Import, Repair!Idle
<1> DEFINE fin == archive.final
           origin == archive.identity
<1>2. imported'.final = fin /\ imported'.identity = origin
  BY <1>1
<1>3. /\ fin["train"] \cap fin["validation"] = {}
      /\ fin["accepted"] = fin["train"] \cup fin["validation"]
      /\ \A f \in DOMAIN fin : fin[f] # None
  BY <1>1 DEF Repair!Verified
<1>4. MayBeImported(archive)
  BY <1>1 DEF RepairInv
<1>5. \A f \in Parted : fin[f] # None
  BY <1>3, <1>4 DEF MayBeImported, FinalStages
<1>6. ASSUME NEW f \in Parted, NEW r \in fin[f]
      PROVE  Repair!IsStudentRecord(r) /\ ComesFrom(r, origin)
  BY <1>4, <1>5, <1>6 DEF MayBeImported
<1>7. ASSUME NEW r \in fin["accepted"]
      PROVE  \E i \in DOMAIN origin :
                /\ origin[i].task = r.task
                /\ origin[i].answer = r.answer \/ ~Tasks[r.task].fits
  <2>1. ComesFrom(r, origin)
    BY <1>6, <1>7 DEF Parted
  <2> QED BY <2>1 DEF ComesFrom
<1>8. Repair!ImportIsWhole'
  BY <1>2, <1>3, <1>7 DEF Repair!ImportIsWhole
<1>9. Repair!StudentSeesTheTaskOnly'
  <2>1. \A f \in Parted : final'[f] # None => \A r \in final'[f] : Repair!IsStudentRecord(r)
    BY <1>1 DEF RepairInv, Repair!StudentSeesTheTaskOnly, Parted
  <2>2. \A f \in Parted : \A r \in imported'.final[f] : Repair!IsStudentRecord(r)
    BY <1>2, <1>6
  <2> QED BY <1>8, <2>1, <2>2 DEF Repair!StudentSeesTheTaskOnly, Parted
<1> QED BY <1>1, <1>4, <1>9, ArchivingStep

\* A step that changes nothing.
LEMMA RepairStutter ==
  ASSUME RepairInv, UNCHANGED Repair!vars
  PROVE  RepairInv'
<1>1. UNCHANGED <<route, prepared, checkpoint, final, salvaged, merged, archive, imported,
        at, work>>
  BY DEF Repair!vars, Repair!repair
<1>2. SalvageIsOne'
  BY <1>1 DEF RepairInv, SalvageIsOne, Salvaged
<1>3. Repair!StudentSeesTheTaskOnly'
  <2>1. Repair!ImportIsWhole'
    BY <1>1 DEF RepairInv, Repair!StudentSeesTheTaskOnly, Repair!ImportIsWhole
  <2> QED BY <1>1, <2>1 DEF RepairInv, Repair!StudentSeesTheTaskOnly
<1> QED BY <1>1, <1>2, <1>3 DEF RepairInv, Salvaged

LEMMA NextRepairInv ==
  ASSUME RepairInv, [Repair!Next]_(Repair!vars)
  PROVE  RepairInv'
<1>1. CASE \E n \in Sizes, p \in Policies : Repair!Prepare(n, p)
  BY <1>1, PrepareInputInv
<1>2. CASE Repair!SealInput
  BY <1>2, SealInputInv
<1>3. CASE Repair!Teach
  BY <1>3, TeachInv
<1>4. CASE Repair!Salvage
  BY <1>4, SalvageInv
<1>5. CASE Repair!WriteExactOrVerify
  BY <1>5, WriteSalvageInv
<1>6. CASE \E c \in Rewrites : Repair!Merge(c)
  BY <1>6, MergeInv
<1>7. CASE Repair!Finalize
  BY <1>7, FinalizeInv
<1>8. CASE Repair!WriteFinal
  BY <1>8, WriteFinalInv
<1>9. CASE Repair!Qualify
  BY <1>9, QualifyInv
<1>10. CASE Repair!Pack
  BY <1>10, PackInv
<1>11. CASE Repair!Pin
  BY <1>11, PinInv
<1>12. CASE Repair!Import
  BY <1>12, ImportInv
<1>13. CASE Repair!Crash
  BY <1>13, CrashRepairInv
<1>14. CASE UNCHANGED Repair!vars
  BY <1>14, RepairStutter
<1> QED BY <1>1, <1>2, <1>3, <1>4, <1>5, <1>6, <1>7, <1>8, <1>9, <1>10, <1>11, <1>12, <1>13,
           <1>14 DEF Repair!Next

LEMMA AlwaysRepairInv ==
  Repair!Spec => []RepairInv
<1>1. Repair!Init => RepairInv
  BY InitRepairInv
<1>2. RepairInv /\ [Repair!Next]_(Repair!vars) => RepairInv'
  BY NextRepairInv
<1> QED BY <1>1, <1>2, PTL DEF Repair!Spec

\* Whatever the teacher wrote and wherever commands were cut short or run again, no file the
\* student may be trained from holds an instruction meant for the teacher, its hidden
\* thinking or an unfinished answer, and what is imported is one finalization of one salvage.
THEOREM StudentsSeeTheTaskOnly ==
  Repair!Spec => []StudentSeesTheTaskOnly
<1>1. RepairInv => StudentSeesTheTaskOnly
  BY DEF RepairInv, StudentSeesTheTaskOnly
<1> QED BY <1>1, AlwaysRepairInv, PTL

----------------------------------------------------------------------------
(* A census by contracts *)

Grading == {"bind", "reference", "candidate"}
Written == {"accepted", "train", "validation", "results", "summary", "manifest", "seal"}

\* What a census has come to after the first n records of a corpus.
GradedTo(n, given, verdicts, kept) ==
    /\ given \in FinalCorpora /\ Contracts!SourceIsFrozen(given)
    /\ verdicts = [i \in 1 .. n |-> verdicts[i]]
    /\ \A i \in 1 .. n : verdicts[i].of = given.accepted[i]
         /\ Contracts!Deserved(verdicts[i])
    /\ Contracts!ToSet(kept) =
         {verdicts[i].of : i \in {j \in 1 .. n : verdicts[j].reason = "semantic_pass"}}
    /\ kept \in Seq(Contracts!ToSet(kept))

\* The record at hand has come as far as its stage.
AtHand ==
    /\ stage \in {"reference", "candidate"} => Contracts!Bound
         /\ Contracts!IsStatic(Contracts!Contract)
    /\ stage = "candidate" =>
         Contracts!Candidate.blocks = 1
           /\ TRUE \in Contracts!Runs(Contracts!Contract.reference, Contracts!Contract)

\* The files that a census has written when it is at a file.
WrittenSoFar ==
    /\ DOMAIN filtered = Written /\ filtered["seal"] = None
    /\ stage # "accepted" => filtered["accepted"] = Contracts!ToSet(survivors)
    /\ stage \notin {"accepted", "train"} => filtered["train"] = Contracts!Kept(source.train)
    /\ stage \notin {"accepted", "train", "validation"} =>
         filtered["validation"] = Contracts!Kept(source.validation)
    /\ stage \in {"summary", "manifest", "seal"} => filtered["results"] = results
    /\ stage = "seal" =>
         /\ filtered["manifest"].results = results
              /\ filtered["manifest"].records = Contracts!ToSet(survivors)
         /\ filtered["manifest"].source = source.manifest

CensusInv ==
    /\ stage \in {"idle", "split"} \cup Grading \cup Written
    /\ stage \in Grading =>
         /\ index \in 1 .. Expected /\ GradedTo(index - 1, source, results, survivors)
         /\ filtered = None
    /\ stage = "split" => GradedTo(Expected, source, results, survivors) /\ filtered = None
    /\ stage \in Written =>
         GradedTo(Expected, source, results, survivors) /\ WrittenSoFar
    /\ AtHand
    /\ stage # "idle" => contracts # None
    /\ Contracts!CensusIsSound

LEMMA InitCensusInv ==
  ASSUME Contracts!Init
  PROVE  CensusInv
BY DEF Contracts!Init, CensusInv, AtHand, Contracts!CensusIsSound, Contracts!Sealed, Grading,
       Written

LEMMA OutFilesAre == Contracts!ToSet(Contracts!OutFiles) = Written
BY DEF Contracts!ToSet, Contracts!OutFiles, Written

\* A step outside a census.
LEMMA QuietCensus ==
  ASSUME CensusInv, UNCHANGED filtered, stage' = "idle"
  PROVE  CensusInv'
<1>1. Contracts!CensusIsSound'
  BY DEF CensusInv, Contracts!CensusIsSound, Contracts!Sealed
<1> QED BY <1>1 DEF CensusInv, AtHand, Grading, Written

LEMMA PrepareContractsInv ==
  ASSUME CensusInv, NEW given \in FinalCorpora, Contracts!Prepare(given)
  PROVE  CensusInv'
BY QuietCensus DEF Contracts!Prepare, Contracts!census

LEMMA AbortCensusInv ==
  ASSUME CensusInv, Contracts!Abort
  PROVE  CensusInv'
BY QuietCensus DEF Contracts!Abort

LEMMA GenerateContractsInv ==
  ASSUME CensusInv, Contracts!Generate
  PROVE  CensusInv'
BY QuietCensus DEF CensusInv, Contracts!Generate, Contracts!census

LEMMA BeginCensusInv ==
  ASSUME CensusInv, NEW given \in FinalCorpora, Contracts!Begin(given)
  PROVE  CensusInv'
<1>1. /\ source' = given /\ index' = 1 /\ stage' = "bind" /\ results' = <<>>
           /\ survivors' = <<>>
      /\ contracts' = contracts /\ filtered' = filtered /\ contracts # None /\ filtered = None
      /\ Contracts!SourceIsFrozen(given)
  BY DEF Contracts!Begin
<1>2. GradedTo(0, given, <<>>, <<>>)
  <2>1. Contracts!ToSet(<<>>) = {} /\ 1 .. 0 = {}
    BY DEF Contracts!ToSet
  <2>2. <<>> = [i \in 1 .. 0 |-> <<>>[i]] /\ <<>> \in Seq(Contracts!ToSet(<<>>))
    OBVIOUS
  <2> QED BY <1>1, <2>1, <2>2 DEF GradedTo
<1>3. index' - 1 = 0 /\ index' \in 1 .. Expected
  BY <1>1, CensusAssumption
<1>4. Contracts!CensusIsSound'
  BY <1>1 DEF Contracts!CensusIsSound, Contracts!Sealed
<1> QED BY <1>1, <1>2, <1>3, <1>4 DEF CensusInv, Grading, Written, AtHand

\* A record is graded: its verdict is a deserved one of the record in its place.
LEMMA RecordStep ==
  ASSUME CensusInv, stage \in Grading, NEW reason, Contracts!Record(reason), Contracts!Bound,
         reason \in {"semantic_pass", "candidate_test_failed"} =>
           /\ Contracts!IsStatic(Contracts!Contract) /\ Contracts!Candidate.blocks = 1
           /\ TRUE \in Contracts!Runs(Contracts!Contract.reference, Contracts!Contract)
           /\ (reason = "semantic_pass") \in Contracts!Runs(Contracts!Candidate.code,
                Contracts!Contract)
  PROVE  CensusInv'
<1>1. index \in 1 .. Expected /\ GradedTo(index - 1, source, results, survivors)
      /\ filtered = None /\ contracts # None
  BY DEF CensusInv, Grading
<1> DEFINE verdict == Contracts!Result(reason)
           kept == IF reason = "semantic_pass" THEN Append(survivors,
             Contracts!Candidate) ELSE survivors
<1>2. /\ results' = Append(results, verdict) /\ survivors' = kept
      /\ stage' = (IF index = Expected THEN "split" ELSE "bind") /\ index' = index + 1
      /\ source' = source /\ filtered' = filtered /\ contracts' = contracts
  BY DEF Contracts!Record
<1>3. verdict.of = source.accepted[index] /\ verdict.reason = reason
        /\ Contracts!Deserved(verdict)
  <2>1. /\ verdict.of = Contracts!Candidate /\ verdict.contract = Contracts!Contract
             /\ verdict.reason = reason
        /\ verdict.asked = contracts.input[index]
    BY DEF Contracts!Result
  <2>2. verdict.asked.candidate = Contracts!Candidate
          /\ verdict.asked.prompt = Contracts!Candidate.task
    BY <2>1 DEF Contracts!Bound, Contracts!Hidden
  <2> HIDE DEF verdict
  <2>3. Contracts!Deserved(verdict)
    BY <2>1, <2>2 DEF Contracts!Deserved
  <2> QED BY <2>1, <2>3 DEF Contracts!Candidate
<1>4. /\ source \in FinalCorpora /\ Contracts!SourceIsFrozen(source)
      /\ results = [i \in 1 .. index - 1 |-> results[i]]
      /\ \A i \in 1 .. index - 1 : results[i].of = source.accepted[i]
           /\ Contracts!Deserved(results[i])
      /\ Contracts!ToSet(survivors) =
           {results[i].of :
              i \in {j \in 1 .. index - 1 : results[j].reason = "semantic_pass"}}
      /\ survivors \in Seq(Contracts!ToSet(survivors))
  BY <1>1 DEF GradedTo
<1>5. /\ results' = [i \in 1 .. index |-> results'[i]]
      /\ \A i \in 1 .. index - 1 : results'[i] = results[i]
      /\ results'[index] = verdict
  <2> HIDE DEF verdict
  <2>1. index - 1 \in Nat /\ Len(results) = index - 1
    BY <1>1, <1>4
  <2>2. results' = [i \in 1 .. index |-> IF i = index THEN verdict ELSE results[i]]
    BY <1>1, <1>2, <1>4, <2>1
  <2> QED BY <1>1, <2>2
<1>6. Contracts!ToSet(kept) =
        {results'[i].of : i \in {j \in 1 .. index : results'[j].reason = "semantic_pass"}}
      /\ kept \in Seq(Contracts!ToSet(kept))
  <2> DEFINE Passing(s, n) == {s[i].of : i \in {j \in 1 .. n : s[j].reason = "semantic_pass"}}
  <2>1. CASE reason = "semantic_pass"
    <3>1. kept = Append(survivors, Contracts!Candidate) /\ Contracts!Candidate = verdict.of
      BY <2>1 DEF Contracts!Result
    <3>2. Contracts!ToSet(kept) = Contracts!ToSet(survivors) \cup {Contracts!Candidate}
            /\ kept \in Seq(Contracts!ToSet(kept))
      <4> HIDE DEF kept
      <4>1. kept \in Seq(Contracts!ToSet(survivors) \cup {Contracts!Candidate})
        <5>1. survivors \in Seq(Contracts!ToSet(survivors) \cup {Contracts!Candidate})
          BY <1>4
        <5> QED BY <3>1, <5>1
      <4>2. /\ DOMAIN kept = 1 .. Len(survivors) + 1 /\ Len(survivors) \in Nat
            /\ DOMAIN survivors = 1 .. Len(survivors)
                 /\ kept[Len(survivors) + 1] = Contracts!Candidate
            /\ \A i \in 1 .. Len(survivors) : kept[i] = survivors[i]
        BY <1>4, <3>1
      <4>3. Contracts!ToSet(kept) = Contracts!ToSet(survivors) \cup {Contracts!Candidate}
        <5>1. ASSUME NEW x \in Contracts!ToSet(kept)
                PROVE x \in Contracts!ToSet(survivors) \cup {Contracts!Candidate}
          BY <4>1, <5>1 DEF Contracts!ToSet
        <5>2. ASSUME NEW x \in Contracts!ToSet(survivors) PROVE x \in Contracts!ToSet(kept)
          <6>1. PICK i \in 1 .. Len(survivors) : x = survivors[i]
            BY <4>2 DEF Contracts!ToSet
          <6>2. i \in DOMAIN kept /\ kept[i] = x
            BY <4>2, <6>1
          <6> QED BY <6>2 DEF Contracts!ToSet
        <5>3. Contracts!Candidate \in Contracts!ToSet(kept)
          <6>1. Len(survivors) + 1 \in DOMAIN kept
            BY <4>2
          <6> QED BY <4>2, <6>1 DEF Contracts!ToSet
        <5> QED BY <5>1, <5>2, <5>3
      <4> QED BY <4>1, <4>3
    <3>3. Passing(results', index) = Passing(results, index - 1) \cup {verdict.of}
      <4> HIDE DEF verdict, kept
      <4> QED BY <1>1, <1>3, <1>5, <2>1
    <3> QED BY <1>4, <3>1, <3>2, <3>3
  <2>2. CASE reason # "semantic_pass"
    <3>1. Passing(results', index) = Passing(results, index - 1)
      <4> HIDE DEF verdict, kept
      <4> QED BY <1>1, <1>3, <1>5, <2>2
    <3> QED BY <1>4, <2>2, <3>1
  <2> QED BY <2>1, <2>2
<1>7. GradedTo(index, source, results', survivors')
  <2> HIDE DEF verdict, kept
  <2>1. \A i \in 1 .. index : results'[i].of = source.accepted[i]
          /\ Contracts!Deserved(results'[i])
    BY <1>1, <1>3, <1>4, <1>5
  <2> QED BY <1>2, <1>4, <1>5, <1>6, <2>1 DEF GradedTo
<1>8. Contracts!CensusIsSound'
  BY <1>1, <1>2 DEF Contracts!CensusIsSound, Contracts!Sealed
<1> HIDE DEF verdict, kept
<1>9. CASE index = Expected
  <2>1. stage' = "split" /\ GradedTo(Expected, source', results', survivors')
          /\ filtered' = None
    BY <1>1, <1>2, <1>7, <1>9
  <2> QED BY <1>1, <1>2, <1>8, <2>1 DEF CensusInv, AtHand, Grading, Written
<1>10. CASE index # Expected
  <2>1. stage' = "bind" /\ index' \in 1 .. Expected /\ index' - 1 = index
    BY <1>1, <1>2, <1>10, CensusAssumption
  <2>2. GradedTo(index' - 1, source', results', survivors')
    BY <1>2, <1>7, <2>1
  <2> QED BY <1>1, <1>2, <1>8, <2>1, <2>2 DEF CensusInv, AtHand, Grading, Written
<1> QED BY <1>9, <1>10

\* The record at hand goes on to its next check.
LEMMA GoesOn ==
  ASSUME CensusInv, stage \in Grading, stage' \in {"reference", "candidate"}, AtHand',
         UNCHANGED <<verifierInput, contracts, source, index, results, survivors, filtered,
           aborts>>
  PROVE  CensusInv'
<1>1. /\ index \in 1 .. Expected /\ GradedTo(index - 1, source, results, survivors)
      /\ filtered = None /\ contracts # None
  BY DEF CensusInv, Grading
<1>2. Contracts!CensusIsSound'
  BY <1>1 DEF Contracts!CensusIsSound, Contracts!Sealed
<1> QED BY <1>1, <1>2 DEF CensusInv, Grading, Written

LEMMA BindInv ==
  ASSUME CensusInv, Contracts!Bind
  PROVE  CensusInv'
<1>1. stage \in Grading /\ Contracts!Bound
  BY DEF Contracts!Bind, Grading
<1>2. CASE ~Contracts!Parses(Contracts!Contract) \/ ~Contracts!IsStatic(Contracts!Contract)
  BY <1>1, <1>2, RecordStep DEF Contracts!Bind
<1>3. CASE Contracts!Parses(Contracts!Contract) /\ Contracts!IsStatic(Contracts!Contract)
  <2>1. stage' = "reference"
        /\ UNCHANGED <<verifierInput, contracts, source, index, results, survivors,
             filtered, aborts>>
    BY <1>3 DEF Contracts!Bind
  <2>2. AtHand'
    BY <1>1, <1>3, <2>1 DEF AtHand, Contracts!Bound, Contracts!Contract, Contracts!Candidate,
                            Contracts!IsStatic
  <2> QED BY <1>1, <2>1, <2>2, GoesOn
<1> QED BY <1>2, <1>3

LEMMA RunReferenceInv ==
  ASSUME CensusInv, Contracts!RunReference
  PROVE  CensusInv'
<1>1. stage \in Grading /\ Contracts!Bound /\ Contracts!IsStatic(Contracts!Contract)
  BY DEF Contracts!RunReference, Grading, CensusInv, AtHand
<1>2. PICK succeeded \in Contracts!Runs(Contracts!Contract.reference, Contracts!Contract) :
         IF ~succeeded THEN Contracts!Record("reference_self_test_failed")
         ELSE IF ~Contracts!Extracts(Contracts!Candidate) THEN
           Contracts!Record("candidate_extract")
         ELSE /\ stage' = "candidate"
              /\ UNCHANGED <<verifierInput, contracts, source, index, results, survivors,
                   filtered, aborts>>
  BY DEF Contracts!RunReference
<1>3. CASE ~succeeded \/ ~Contracts!Extracts(Contracts!Candidate)
  BY <1>1, <1>2, <1>3, RecordStep
<1>4. CASE succeeded /\ Contracts!Extracts(Contracts!Candidate)
  <2>1. stage' = "candidate"
        /\ UNCHANGED <<verifierInput, contracts, source, index, results, survivors,
             filtered, aborts>>
    BY <1>2, <1>4
  <2>2. succeeded = TRUE
    BY <1>4 DEF Contracts!Runs
  <2>3. Contracts!Candidate.blocks = 1
          /\ TRUE \in Contracts!Runs(Contracts!Contract.reference, Contracts!Contract)
    BY <1>2, <1>4, <2>2 DEF Contracts!Extracts
  <2>4. AtHand'
    BY <1>1, <2>1, <2>3 DEF AtHand, Contracts!Bound, Contracts!Contract, Contracts!Candidate,
                            Contracts!IsStatic, Contracts!Runs
  <2> QED BY <1>1, <2>1, <2>4, GoesOn
<1> QED BY <1>3, <1>4

LEMMA RunCandidateInv ==
  ASSUME CensusInv, Contracts!RunCandidate
  PROVE  CensusInv'
<1>1. /\ stage \in Grading /\ Contracts!Bound /\ Contracts!IsStatic(Contracts!Contract)
           /\ Contracts!Candidate.blocks = 1
      /\ TRUE \in Contracts!Runs(Contracts!Contract.reference, Contracts!Contract)
  BY DEF Contracts!RunCandidate, Grading, CensusInv, AtHand
<1>2. PICK succeeded \in Contracts!Runs(Contracts!Candidate.code, Contracts!Contract) :
         Contracts!Record(IF succeeded THEN "semantic_pass" ELSE "candidate_test_failed")
  BY DEF Contracts!RunCandidate
<1>3. succeeded \in BOOLEAN
  BY <1>2 DEF Contracts!Runs
<1>4. CASE succeeded = TRUE
  BY <1>1, <1>2, <1>4, RecordStep
<1>5. CASE succeeded = FALSE
  BY <1>1, <1>2, <1>5, RecordStep
<1> QED BY <1>3, <1>4, <1>5

LEMMA SplitInv ==
  ASSUME CensusInv, Contracts!Split
  PROVE  CensusInv'
<1>1. /\ GradedTo(Expected, source, results, survivors) /\ contracts # None
      /\ stage' = "accepted" /\ filtered' = [f \in Written |-> None]
      /\ UNCHANGED <<contracts, source, results, survivors>>
  <2>1. stage = "split" /\ stage' = Head(Contracts!OutFiles)
          /\ filtered' = [f \in Written |-> None]
        /\ UNCHANGED <<contracts, source, results, survivors>>
    BY OutFilesAre DEF Contracts!Split
  <2>2. Head(Contracts!OutFiles) = "accepted"
    BY DEF Contracts!OutFiles
  <2> QED BY <2>1, <2>2 DEF CensusInv
<1>2. WrittenSoFar'
  BY <1>1 DEF WrittenSoFar, Written
<1>3. Contracts!CensusIsSound'
  BY <1>1 DEF Contracts!CensusIsSound, Contracts!Sealed, Written
<1> QED BY <1>1, <1>2, <1>3 DEF CensusInv, AtHand, Grading, Written

\* What is next to a file.
LEMMA NextFile ==
  ASSUME NEW f \in Written \ {"seal"}
  PROVE  Contracts!OutFiles[(CHOOSE j \in DOMAIN Contracts!OutFiles :
           Contracts!OutFiles[j] = f) + 1] =
           (IF f = "accepted" THEN "train" ELSE IF f = "train" THEN "validation"
            ELSE IF f = "validation" THEN "results" ELSE IF f = "results" THEN "summary"
            ELSE IF f = "summary" THEN "manifest" ELSE "seal")
<1>1. DOMAIN Contracts!OutFiles = 1 .. 7 /\ Contracts!OutFiles[1] = "accepted"
        /\ Contracts!OutFiles[2] = "train"
      /\ Contracts!OutFiles[3] = "validation" /\ Contracts!OutFiles[4] = "results"
           /\ Contracts!OutFiles[5] = "summary"
      /\ Contracts!OutFiles[6] = "manifest" /\ Contracts!OutFiles[7] = "seal"
  BY DEF Contracts!OutFiles
<1>2. PICK j \in DOMAIN Contracts!OutFiles : Contracts!OutFiles[j] = f
  <2>1. \E j \in 1 .. 6 : Contracts!OutFiles[j] = f
    BY <1>1 DEF Written
  <2> QED BY <1>1, <2>1
<1>3. \A i, b \in 1 .. 7 : Contracts!OutFiles[i] = Contracts!OutFiles[b] => i = b
  BY <1>1
<1>4. (CHOOSE i \in DOMAIN Contracts!OutFiles : Contracts!OutFiles[i] = f) = j
  BY <1>1, <1>2, <1>3
<1>5. j \in 1 .. 6
  BY <1>1, <1>2 DEF Written
<1> QED BY <1>1, <1>2, <1>4, <1>5

\* What is in the files when the last is written is what a sealed census promises.
LEMMA SealIsSound ==
  ASSUME CensusInv, stage = "seal", Contracts!Write
  PROVE  Contracts!CensusIsSound'
<1> SUFFICES ASSUME Contracts!Sealed' PROVE Contracts!CensusIsSound'
  BY DEF Contracts!CensusIsSound
<1>1. GradedTo(Expected, source, results, survivors) /\ WrittenSoFar
  BY DEF CensusInv, Written
<1>2. filtered' = [filtered EXCEPT !["seal"] = filtered["manifest"]]
  BY DEF Contracts!Write, Contracts!Content
<1>3. /\ filtered'["accepted"] = Contracts!ToSet(survivors)
           /\ filtered'["train"] = Contracts!Kept(source.train)
      /\ filtered'["validation"] = Contracts!Kept(source.validation)
           /\ filtered'["results"] = results
      /\ filtered'["manifest"].results = results
           /\ filtered'["manifest"].records = Contracts!ToSet(survivors)
      /\ filtered'["manifest"].source = source.manifest
           /\ filtered'["seal"] = filtered'["manifest"]
  <2>1. /\ DOMAIN filtered = Written
        /\ filtered["accepted"] = Contracts!ToSet(survivors)
             /\ filtered["train"] = Contracts!Kept(source.train)
        /\ filtered["validation"] = Contracts!Kept(source.validation)
             /\ filtered["results"] = results
        /\ filtered["manifest"].results = results
             /\ filtered["manifest"].records = Contracts!ToSet(survivors)
        /\ filtered["manifest"].source = source.manifest
    BY <1>1 DEF WrittenSoFar
  <2>2. \A f \in Written \ {"seal"} : filtered'[f] = filtered[f]
    BY <1>2, <2>1
  <2>3. filtered'["seal"] = filtered["manifest"]
    BY <1>2, <2>1 DEF Written
  <2> QED BY <2>1, <2>2, <2>3 DEF Written
<1>4. /\ source \in FinalCorpora /\ Contracts!SourceIsFrozen(source)
      /\ results = [i \in 1 .. Expected |-> results[i]]
      /\ \A i \in 1 .. Expected : results[i].of = source.accepted[i]
           /\ Contracts!Deserved(results[i])
      /\ Contracts!ToSet(survivors) =
           {results[i].of : i \in {j \in 1 .. Expected : results[j].reason = "semantic_pass"}}
  BY <1>1 DEF GradedTo
<1>5. source.manifest = Pinned /\ Len(source.accepted) = Expected
  BY <1>4 DEF Contracts!SourceIsFrozen
<1>6. DOMAIN results = 1 .. Expected
  BY <1>4
<1>7. [i \in DOMAIN results |-> results[i].of] = source.accepted
  <2>1. source.accepted \in Seq(Contracts!ToSet(source.accepted))
    BY <1>4, CensusAssumption DEF Contracts!ToSet
  <2>2. source.accepted = [i \in 1 .. Expected |-> source.accepted[i]]
    BY <1>5, <2>1
  <2> QED BY <1>4, <1>6, <2>2
<1>8. /\ Contracts!Kept(source.train) = Contracts!ToSet(survivors) \cap source.train
      /\ Contracts!Kept(source.validation) = Contracts!ToSet(survivors) \cap source.validation
  BY DEF Contracts!Kept
<1>9. Contracts!ToSet(survivors) =
         {results[i].of : i \in {j \in DOMAIN results : results[j].reason = "semantic_pass"}}
  BY <1>4, <1>6
<1>10. \A i \in DOMAIN results : Contracts!Deserved(results[i])
  BY <1>4, <1>6
<1>11. PICK o : o = filtered'
  OBVIOUS
<1>12. PICK kept : kept = Contracts!ToSet(survivors)
  OBVIOUS
<1>13. /\ o["seal"].source = Pinned /\ o["seal"] = o["manifest"]
       /\ o["manifest"].results = results /\ o["manifest"].records = kept
       /\ o["results"] = results /\ o["accepted"] = kept
            /\ o["train"] = kept \cap source.train
       /\ o["validation"] = kept \cap source.validation
  BY <1>3, <1>5, <1>8, <1>11, <1>12
<1>14. kept =
         {results[i].of : i \in {j \in DOMAIN results : results[j].reason = "semantic_pass"}}
  BY <1>9, <1>12
<1>15. Contracts!IsCensusOf(o, source)
  BY <1>5, <1>7, <1>10, <1>13, <1>14 DEF Contracts!IsCensusOf
<1>16. Contracts!IsCensusOf(filtered', source)
  BY <1>11, <1>15
<1> QED BY <1>4, <1>16 DEF Contracts!CensusIsSound

LEMMA WriteSealInv ==
  ASSUME CensusInv, stage = "seal", Contracts!Write
  PROVE  CensusInv'
<1>1. stage' = "idle"
  <2>1. Contracts!Last(Contracts!OutFiles) = "seal"
    BY DEF Contracts!Last, Contracts!OutFiles
  <2> QED BY <2>1 DEF Contracts!Write
<1> QED BY <1>1, SealIsSound DEF CensusInv, AtHand, Grading, Written

LEMMA WriteFileInv ==
  ASSUME CensusInv, stage # "seal", Contracts!Write
  PROVE  CensusInv'
<1>1. /\ stage \in Written \ {"seal"}
           /\ filtered' = [filtered EXCEPT ![stage] = Contracts!Content(stage)]
      /\ GradedTo(Expected, source, results, survivors) /\ WrittenSoFar /\ contracts # None
  BY OutFilesAre DEF Contracts!Write, CensusInv, Written
<1>2. /\ stage' = (IF stage = "accepted" THEN "train"
            ELSE IF stage = "train" THEN "validation"
            ELSE IF stage = "validation" THEN "results"
            ELSE IF stage = "results" THEN "summary"
            ELSE IF stage = "summary" THEN "manifest" ELSE "seal")
      /\ UNCHANGED <<contracts, source, results, survivors>>
  <2>1. Contracts!Last(Contracts!OutFiles) = "seal"
    BY DEF Contracts!Last, Contracts!OutFiles
  <2>2. /\ stage' = Contracts!OutFiles[(CHOOSE j \in DOMAIN Contracts!OutFiles :
             Contracts!OutFiles[j] = stage) + 1]
        /\ UNCHANGED <<contracts, source, results, survivors>>
    BY <1>1, <2>1 DEF Contracts!Write
  <2> QED BY <1>1, <2>2, NextFile
<1>3. DOMAIN filtered = Written /\ filtered["seal"] = None
  BY <1>1 DEF WrittenSoFar
<1>4. DOMAIN filtered' = Written /\ filtered'["seal"] = None
      /\ (\A f \in Written \ {stage} : filtered'[f] = filtered[f])
           /\ filtered'[stage] = Contracts!Content(stage)
  BY <1>1, <1>3 DEF Written
<1>5. WrittenSoFar'
  <2>1. CASE stage = "accepted"
    <3>1. Contracts!Content(stage) = Contracts!ToSet(survivors)
      BY <2>1 DEF Contracts!Content
    <3> QED BY <1>1, <1>2, <1>4, <2>1, <3>1 DEF WrittenSoFar, Written, Contracts!Kept
  <2>2. CASE stage = "train"
    <3>1. Contracts!Content(stage) = Contracts!Kept(source.train)
      BY <2>2 DEF Contracts!Content
    <3> QED BY <1>1, <1>2, <1>4, <2>2, <3>1 DEF WrittenSoFar, Written, Contracts!Kept
  <2>3. CASE stage = "validation"
    <3>1. Contracts!Content(stage) = Contracts!Kept(source.validation)
      BY <2>3 DEF Contracts!Content
    <3> QED BY <1>1, <1>2, <1>4, <2>3, <3>1 DEF WrittenSoFar, Written, Contracts!Kept
  <2>4. CASE stage = "results"
    <3>1. Contracts!Content(stage) = results
      BY <2>4 DEF Contracts!Content
    <3> QED BY <1>1, <1>2, <1>4, <2>4, <3>1 DEF WrittenSoFar, Written, Contracts!Kept
  <2>5. CASE stage = "summary"
    <3> QED BY <1>1, <1>2, <1>4, <2>5 DEF WrittenSoFar, Written, Contracts!Kept
  <2>6. CASE stage = "manifest"
    <3>1. /\ Contracts!Content(stage).results = filtered["results"]
               /\ Contracts!Content(stage).records = Contracts!ToSet(survivors)
          /\ Contracts!Content(stage).source = source.manifest
      BY <2>6 DEF Contracts!Content
    <3> QED BY <1>1, <1>2, <1>4, <2>6, <3>1 DEF WrittenSoFar, Written, Contracts!Kept
  <2> QED BY <1>1, <2>1, <2>2, <2>3, <2>4, <2>5, <2>6 DEF Written
<1>6. Contracts!CensusIsSound'
  BY <1>4 DEF Contracts!CensusIsSound, Contracts!Sealed
<1>7. stage' \in Written
  BY <1>2 DEF Written
<1> QED BY <1>1, <1>2, <1>5, <1>6, <1>7 DEF CensusInv, AtHand, Grading, Written

LEMMA NextCensusInv ==
  ASSUME CensusInv, [Contracts!Next]_(Contracts!vars)
  PROVE  CensusInv'
<1>1. CASE UNCHANGED Contracts!vars
  <2>1. Contracts!CensusIsSound'
    BY <1>1 DEF CensusInv, Contracts!CensusIsSound, Contracts!Sealed, Contracts!vars
  <2>2. AtHand'
    BY <1>1 DEF CensusInv, AtHand, Contracts!Bound, Contracts!Contract, Contracts!Candidate,
                Contracts!vars
  <2>3. stage \in Written => WrittenSoFar'
    BY <1>1 DEF CensusInv, WrittenSoFar, Contracts!Kept, Contracts!vars
  <2> QED BY <1>1, <2>1, <2>2, <2>3 DEF CensusInv, Contracts!vars
<1>2. CASE Contracts!Next
  BY <1>2, PrepareContractsInv, BeginCensusInv, GenerateContractsInv, BindInv,
       RunReferenceInv,
     RunCandidateInv, SplitInv, WriteSealInv, WriteFileInv, AbortCensusInv DEF Contracts!Next
<1> QED BY <1>1, <1>2

LEMMA AlwaysCensusInv ==
  Contracts!Spec => []CensusInv
<1>1. Contracts!Init => CensusInv
  BY InitCensusInv
<1>2. CensusInv /\ [Contracts!Next]_(Contracts!vars) => CensusInv'
  BY NextCensusInv
<1> QED BY <1>1, <1>2, PTL DEF Contracts!Spec

\* For any corpora, contracts and runs of code, a census that was sealed holds one deserved
\* verdict for each record of the pinned corpus, and its survivors in the part they were in.
THEOREM SealedCensusesAreSound ==
  Contracts!Spec => []CensusIsSound
<1>1. CensusInv => CensusIsSound
  BY DEF CensusInv, CensusIsSound
<1> QED BY <1>1, AlwaysCensusInv, PTL
====
