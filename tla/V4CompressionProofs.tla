---- MODULE V4CompressionProofs ----
(***************************************************************************)
(* Theorems about V4Compression, for any number of sessions, records,      *)
(* shards, configurations, source runs, crashes and faults.                *)
(***************************************************************************)
EXTENDS V4Compression, FiniteSetTheorems, SequenceTheorems, WellFoundedInduction, TLAPS

----------------------------------------------------------------------------
(* Induction over the numbers, from the well-foundedness of strict inclusion *)
(* between finite sets: T is the set of the numbers a claim holds of.        *)

LEMMA Least ==
  ASSUME NEW T \in SUBSET Nat, T # {}
  PROVE  \E m \in T : \A n \in T : m <= n
<1> DEFINE Below(n) == {i \in Nat : i < n}
           D == {Below(n) : n \in T}
<1>1. ASSUME NEW n \in Nat PROVE IsFiniteSet(Below(n))
  <2>1. Below(n) \subseteq 0 .. n
    OBVIOUS
  <2>2. IsFiniteSet(0 .. n)
    BY FS_Interval
  <2> QED BY <2>1, <2>2, FS_Subset
<1>2. D \subseteq FiniteSubsetsOf(Nat) /\ D # {}
  BY <1>1 DEF FiniteSubsetsOf
<1>3. IsWellFoundedOn(StrictSubsetOrdering(Nat), FiniteSubsetsOf(Nat))
  BY FS_StrictSubsetOrderingWellFounded
<1>4. PICK X \in D : \A Y \in D : ~(<<Y, X>> \in StrictSubsetOrdering(Nat))
  BY <1>2, <1>3, WFMin
<1>5. PICK m \in T : X = Below(m)
  BY <1>4
<1>6. ASSUME NEW n \in T, ~(m <= n) PROVE FALSE
  <2>1. Below(n) \in D /\ Below(n) \subseteq Nat /\ Below(m) \subseteq Nat
    OBVIOUS
  <2>2. Below(n) \subseteq Below(m) /\ n \in Below(m) /\ n \notin Below(n)
    BY <1>6
  <2>3. <<Below(n), Below(m)>> \in StrictSubsetOrdering(Nat)
    BY <2>1, <2>2 DEF StrictSubsetOrdering
  <2> QED BY <1>4, <1>5, <2>1, <2>3
<1> QED BY <1>6

LEMMA NatInd ==
  ASSUME NEW T, 0 \in T, \A n \in Nat : n \in T => n + 1 \in T
  PROVE  Nat \subseteq T
<1> SUFFICES ASSUME ~(Nat \subseteq T) PROVE FALSE
  OBVIOUS
<1>1. PICK m \in Nat \ T : \A n \in Nat \ T : m <= n
  BY Least
<1>2. m # 0 /\ m - 1 \in Nat /\ m - 1 \in T
  BY <1>1
<1> QED BY <1>1, <1>2

----------------------------------------------------------------------------
(* The selection *)

\* The loop of select_v4_compression_targets, as a function of the records seen.
Loop(recs, f, n) ==
    IF n = 0 THEN <<>>
    ELSE IF Selected(recs[n]) THEN Append(f[n - 1], n) ELSE f[n - 1]

UpTo(recs) == CHOOSE f : f = [n \in 0 .. Len(recs) |-> Loop(recs, f, n)]

LEMMA LoopExists ==
  ASSUME NEW recs, NEW m \in Nat
  PROVE  \E f : f = [n \in 0 .. m |-> Loop(recs, f, n)]
<1> DEFINE Def(f, n) == f = [i \in 0 .. n |-> Loop(recs, f, i)]
           T == {n \in Nat : \E f : Def(f, n)}
<1>1. 0 \in T
  <2>1. Def([i \in 0 .. 0 |-> <<>>], 0)
    BY DEF Loop
  <2> QED BY <2>1
<1>2. ASSUME NEW n \in Nat, n \in T PROVE n + 1 \in T
  <2>1. PICK f : Def(f, n)
    BY <1>2
  <2> DEFINE g == [i \in 0 .. n + 1 |-> IF i = n + 1 THEN Loop(recs, f, i) ELSE f[i]]
  <2>2. ASSUME NEW i \in 0 .. n + 1 PROVE g[i] = Loop(recs, g, i)
    <3>1. i = 0 \/ (i - 1 \in 0 .. n /\ g[i - 1] = f[i - 1])
      OBVIOUS
    <3>2. Loop(recs, g, i) = Loop(recs, f, i)
      BY <3>1 DEF Loop
    <3>3. i = n + 1 \/ (i \in 0 .. n /\ f[i] = Loop(recs, f, i))
      BY <2>1
    <3> QED BY <3>2, <3>3
  <2>3. Def(g, n + 1)
    BY <2>2
  <2> HIDE DEF g, Def
  <2> QED BY <2>3
<1>3. Nat \subseteq T
  <2> HIDE DEF T
  <2> QED BY <1>1, <1>2, NatInd
<1> QED BY <1>3

LEMMA TargetsUnfold ==
  ASSUME NEW recs, Len(recs) \in Nat
  PROVE  /\ Targets(recs) = UpTo(recs)[Len(recs)]
         /\ \A n \in 0 .. Len(recs) : UpTo(recs)[n] = Loop(recs, UpTo(recs), n)
<1>1. UpTo(recs) = [n \in 0 .. Len(recs) |-> Loop(recs, UpTo(recs), n)]
  BY LoopExists DEF UpTo
<1>2. Targets(recs) = UpTo(recs)[Len(recs)]
  BY DEF Targets, UpTo, Loop
<1> QED BY <1>1, <1>2

\* What has been selected after n records: indices up to n, each selected, none missed.
Chosen(recs, t, n) ==
    /\ t \in Seq(1 .. n) /\ Len(t) <= n
    /\ \A i \in 1 .. Len(t) : Selected(recs[t[i]])
    /\ \A i \in 1 .. n : Selected(recs[i]) => \E m \in 1 .. Len(t) : t[m] = i

LEMMA ChosenStep ==
  ASSUME NEW recs, NEW n \in Nat, NEW t, Chosen(recs, t, n)
  PROVE  Chosen(recs, IF Selected(recs[n + 1]) THEN Append(t, n + 1) ELSE t, n + 1)
<1>1. /\ t \in Seq(1 .. n) /\ Len(t) \in Nat /\ Len(t) <= n
      /\ \A i \in 1 .. Len(t) : t[i] \in 1 .. n /\ Selected(recs[t[i]])
      /\ \A i \in 1 .. n : Selected(recs[i]) => \E m \in 1 .. Len(t) : t[m] = i
  BY DEF Chosen
<1>2. t \in Seq(1 .. n + 1)
  BY <1>1
<1>3. CASE ~Selected(recs[n + 1])
  BY <1>1, <1>2, <1>3 DEF Chosen
<1>4. CASE Selected(recs[n + 1])
  <2> DEFINE u == Append(t, n + 1)
  <2>1. /\ u \in Seq(1 .. n + 1) /\ Len(u) = Len(t) + 1 /\ u[Len(t) + 1] = n + 1
        /\ \A i \in 1 .. Len(t) : u[i] = t[i]
    BY <1>1, <1>2
  <2> HIDE DEF u
  <2>2. ASSUME NEW i \in 1 .. Len(u) PROVE Selected(recs[u[i]])
    <3>1. i = Len(t) + 1 \/ i \in 1 .. Len(t)
      BY <1>1, <2>1
    <3> QED BY <1>1, <1>4, <2>1, <3>1
  <2>3. ASSUME NEW i \in 1 .. n + 1, Selected(recs[i])
        PROVE  \E m \in 1 .. Len(u) : u[m] = i
    <3>1. CASE i = n + 1
      BY <1>1, <2>1, <3>1
    <3>2. CASE i \in 1 .. n
      <4>1. PICK m \in 1 .. Len(t) : t[m] = i
        BY <1>1, <2>3, <3>2
      <4>2. u[m] = i
        BY <2>1, <4>1
      <4>3. m \in 1 .. Len(u)
        BY <1>1, <2>1
      <4> QED BY <4>2, <4>3
    <3> QED BY <3>1, <3>2
  <2>4. Chosen(recs, u, n + 1)
    BY <1>1, <2>1, <2>2, <2>3 DEF Chosen
  <2> QED BY <1>4, <2>4 DEF u
<1> QED BY <1>3, <1>4

\* The targets are indices of selected records, and every selected record is among them.
LEMMA TargetsChosen ==
  ASSUME NEW recs, Len(recs) \in Nat
  PROVE  Chosen(recs, Targets(recs), Len(recs))
<1> DEFINE f == UpTo(recs)
           T == {n \in Nat : n <= Len(recs) => Chosen(recs, f[n], n)}
<1>1. 0 \in T
  <2>1. 0 \in 0 .. Len(recs)
    OBVIOUS
  <2>2. f[0] = Loop(recs, f, 0)
    BY <2>1, TargetsUnfold
  <2>3. f[0] = <<>>
    BY <2>2 DEF Loop
  <2>4. Chosen(recs, <<>>, 0)
    BY DEF Chosen
  <2> QED BY <2>3, <2>4
<1>2. ASSUME NEW n \in Nat, n \in T PROVE n + 1 \in T
  <2> SUFFICES ASSUME n + 1 <= Len(recs) PROVE Chosen(recs, f[n + 1], n + 1)
    OBVIOUS
  <2>1. Chosen(recs, f[n], n) /\ n + 1 \in 0 .. Len(recs) /\ n + 1 - 1 = n /\ n + 1 # 0
    BY <1>2
  <2>2. f[n + 1] = IF Selected(recs[n + 1]) THEN Append(f[n], n + 1) ELSE f[n]
    BY <2>1, TargetsUnfold DEF Loop
  <2> HIDE DEF f
  <2> QED BY <2>1, <2>2, ChosenStep
<1>3. Nat \subseteq T
  <2> HIDE DEF T
  <2> QED BY <1>1, <1>2, NatInd
<1>4. Chosen(recs, f[Len(recs)], Len(recs))
  BY <1>3
<1> QED BY <1>4, TargetsUnfold

----------------------------------------------------------------------------
(* The shards of the targets *)

LEMMA NumShardsType ==
  ASSUME NEW t, Len(t) \in Nat
  PROVE  NumShards(t) \in Nat /\ NumShards(t) <= Len(t)
<1> DEFINE a == Len(t) + ShardSize - 1
           q == a \div ShardSize
<1>1. ShardSize \in Nat /\ ShardSize > 0 /\ a \in Nat
  BY BoundsAssumption
<1>2. q \in Int /\ ShardSize * q <= a /\ a < ShardSize * q + ShardSize
  <2> HIDE DEF a
  <2> QED BY <1>1
<1>3. ASSUME q < 0 PROVE FALSE
  <2>1. ShardSize * (q + 1) <= 0
    BY <1>1, <1>2, <1>3
  <2>2. ShardSize * (q + 1) = ShardSize * q + ShardSize
    BY <1>1, <1>2
  <2> HIDE DEF q
  <2> QED BY <1>1, <1>2, <2>1, <2>2
<1>4. ASSUME q > Len(t) PROVE FALSE
  <2>1. ShardSize * q >= ShardSize * (Len(t) + 1)
    BY <1>1, <1>2, <1>4
  <2>2. ShardSize * (Len(t) + 1) = ShardSize * Len(t) + ShardSize
    BY <1>1
  <2>3. ShardSize * Len(t) >= Len(t)
    BY <1>1
  <2> HIDE DEF q
  <2> QED BY <1>1, <1>2, <2>1, <2>2, <2>3
<1> HIDE DEF q
<1>5. q \in Nat /\ q <= Len(t)
  BY <1>2, <1>3, <1>4
<1> QED BY <1>5 DEF NumShards, q

\* Every position is in some shard.
LEMMA ShardOfPosition ==
  ASSUME NEW t, Len(t) \in Nat, NEW n \in 1 .. Len(t)
  PROVE  \E j \in 0 .. NumShards(t) - 1 : j * ShardSize < n /\ n <= (j + 1) * ShardSize
<1>1. ShardSize \in Nat /\ ShardSize > 0 /\ NumShards(t) \in Nat
  BY BoundsAssumption, NumShardsType
<1> DEFINE T == {j \in Nat : n <= (j + 1) * ShardSize}
<1>2. n \in T
  <2>1. (n + 1) * ShardSize >= n
    BY <1>1
  <2> QED BY <2>1
<1>3. PICK j \in T : \A i \in T : j <= i
  <2> HIDE DEF T
  <2>1. T \in SUBSET Nat
    BY DEF T
  <2> QED BY <1>2, <2>1, Least
<1>4. j * ShardSize < n
  <2>1. CASE j = 0
    BY <1>1, <2>1
  <2>2. CASE j # 0
    <3>1. j - 1 \in Nat /\ j - 1 \notin T
      BY <1>3, <2>2
    <3>2. (j - 1 + 1) * ShardSize \in Nat /\ j - 1 + 1 = j
      BY <1>1, <3>1
    <3> QED BY <1>1, <3>1, <3>2
  <2> QED BY <2>1, <2>2
<1> DEFINE a == Len(t) + ShardSize - 1
           q == a \div ShardSize
<1>5. a \in Nat /\ q \in Int /\ a < ShardSize * q + ShardSize
  BY <1>1
<1>6. ASSUME q <= j PROVE FALSE
  <2>1. ShardSize * q <= ShardSize * j
    <3> HIDE DEF q
    <3> QED BY <1>1, <1>5, <1>6
  <2>2. ShardSize * j = j * ShardSize /\ ShardSize * j \in Int /\ ShardSize * q \in Int
    BY <1>1, <1>5
  <2> HIDE DEF q
  <2> QED BY <1>1, <1>4, <1>5, <2>1, <2>2
<1>7. j \in 0 .. NumShards(t) - 1
  <2> HIDE DEF q
  <2>1. q = NumShards(t)
    BY DEF q, NumShards
  <2> QED BY <1>1, <1>6, <2>1
<1> QED BY <1>3, <1>4, <1>7

\* A shard holds targets, in positions of its own.
LEMMA SliceType ==
  ASSUME NEW S, NEW t \in Seq(S), NEW j \in Nat
  PROVE  /\ Slice(t, j) \in Seq(S)
         /\ \A i \in 1 .. Len(Slice(t, j)) : \E n \in 1 .. Len(t) : Slice(t, j)[i] = t[n]
<1> DEFINE a == j * ShardSize + 1
           b == IF (j + 1) * ShardSize < Len(t) THEN (j + 1) * ShardSize ELSE Len(t)
<1>1. /\ a \in Nat /\ a >= 1 /\ b \in Int /\ b <= Len(t) /\ Len(t) \in Nat
      /\ a \in Int
  <2>1. ShardSize \in Nat
    BY BoundsAssumption
  <2>2. j * ShardSize \in Nat /\ (j + 1) * ShardSize \in Nat
    BY <2>1
  <2> QED BY <2>2
<1>2. Slice(t, j) = SubSeq(t, a, b)
  BY DEF Slice
<1> HIDE DEF a, b
<1>3. \A i \in a .. b : i \in 1 .. Len(t) /\ t[i] \in S
  BY <1>1, ElementOfSeq
<1>4. /\ SubSeq(t, a, b) \in Seq(S)
      /\ \A i \in 1 .. Len(SubSeq(t, a, b)) : SubSeq(t, a, b)[i] = t[a + i - 1]
      /\ Len(SubSeq(t, a, b)) = IF a <= b THEN b - a + 1 ELSE 0
  BY <1>1, <1>3, SubSeqProperties
<1>5. ASSUME NEW i \in 1 .. Len(SubSeq(t, a, b))
      PROVE  a + i - 1 \in 1 .. Len(t)
  BY <1>1, <1>4
<1> QED BY <1>2, <1>4, <1>5

\* Together the shards hold every target.
LEMMA ShardsCover ==
  ASSUME NEW S, NEW t \in Seq(S), NEW n \in 1 .. Len(t)
  PROVE  \E j \in 0 .. NumShards(t) - 1 :
            \E i \in 1 .. Len(Slice(t, j)) : Slice(t, j)[i] = t[n]
<1>1. PICK j \in 0 .. NumShards(t) - 1 : j * ShardSize < n /\ n <= (j + 1) * ShardSize
  BY ShardOfPosition
<1> DEFINE a == j * ShardSize + 1
           b == IF (j + 1) * ShardSize < Len(t) THEN (j + 1) * ShardSize ELSE Len(t)
<1>2. /\ j \in Nat /\ a \in Nat /\ a >= 1 /\ b \in Int /\ b <= Len(t) /\ Len(t) \in Nat
      /\ a <= n /\ n <= b /\ a \in Int
  <2>1. ShardSize \in Nat /\ j \in Nat /\ NumShards(t) \in Nat
    BY BoundsAssumption, NumShardsType
  <2>2. j * ShardSize \in Nat /\ (j + 1) * ShardSize \in Nat
    BY <2>1
  <2> QED BY <1>1, <2>1, <2>2
<1>3. Slice(t, j) = SubSeq(t, a, b)
  BY DEF Slice
<1> HIDE DEF a, b
<1>4. \A i \in a .. b : t[i] \in S
  BY <1>2, ElementOfSeq
<1>5. /\ \A i \in 1 .. Len(SubSeq(t, a, b)) : SubSeq(t, a, b)[i] = t[a + i - 1]
      /\ Len(SubSeq(t, a, b)) = b - a + 1
  BY <1>2, <1>4, SubSeqProperties
<1>6. n - a + 1 \in 1 .. Len(SubSeq(t, a, b)) /\ a + (n - a + 1) - 1 = n
  BY <1>2, <1>5
<1> QED BY <1>3, <1>5, <1>6

----------------------------------------------------------------------------
(* Type correctness.  TypeOK is not inductive: that a shard index stays in *)
(* bounds depends on the records a session has read by the time it scans.  *)

Before == {"idle", "load", "select", "identify", "claim"}
Making == {"teach", "copy", "seal", "confirm"}
Merging == {"merge", "sum", "summary"}

Prepared(s) ==
    /\ pc[s] # "idle" => Len(job[s].recs) <= MaxRecords
    /\ pc[s] \notin {"idle", "load", "select"} => job[s].sid \in Sources
    /\ pc[s] = "claim" => job[s].claim \in Identities
    /\ pc[s] \in Before => k[s] = 0 /\ tally[s] = 0
    /\ pc[s] \in {"scan", "merge"} => k[s] <= Total(s)
    /\ pc[s] \in {"sum", "summary"} => k[s] = Total(s)
    /\ pc[s] \in Making => k[s] < Total(s)
    /\ pc[s] \in {"copy", "seal", "confirm"} => local[s] \in Payloads
    /\ job[s].phase = "run" => tally[s] = 0
    /\ pc[s] \in Making \cup {"scan"} => tally[s] <= k[s]

\* What SessionsOK says of one session.
OkAt(s) ==
    /\ pc[s] \in Places
    /\ job[s] \in Jobs \cup {NoJob}
    /\ pc[s] # "idle" => job[s] \in Jobs
    /\ k[s] \in 0 .. MaxRecords
    /\ tally[s] \in 0 .. MaxRecords
    /\ local[s] \in Payloads \cup {None}
    /\ parts[s] \in Seq(Payloads)
    /\ DOMAIN rows[s] \subseteq 1 .. MaxRecords
    /\ \A i \in DOMAIN rows[s] : rows[s][i] \in Rows

\* A step changes the memory of one session.
Only(t) ==
    /\ pc' = [pc EXCEPT ![t] = pc'[t]]
    /\ job' = [job EXCEPT ![t] = job'[t]]
    /\ k' = [k EXCEPT ![t] = k'[t]]
    /\ tally' = [tally EXCEPT ![t] = tally'[t]]
    /\ local' = [local EXCEPT ![t] = local'[t]]
    /\ parts' = [parts EXCEPT ![t] = parts'[t]]
    /\ DOMAIN rows' = Sessions /\ \A s \in Sessions \ {t} : rows'[s] = rows[s]

TypeInv == TypeOK /\ \A s \in Sessions : Prepared(s)

LEMMA OkAtSession ==
  ASSUME SessionsOK, NEW s \in Sessions
  PROVE  OkAt(s)
BY DEF SessionsOK, OkAt

LEMMA SessionUpdate ==
  ASSUME TypeInv, NEW t \in Sessions, Only(t), OkAt(t)', Prepared(t)', DriveOK'
  PROVE  TypeInv'
<1> USE DEF TypeInv, TypeOK
<1>1. pc' \in [Sessions -> Places] /\ job' \in [Sessions -> Jobs \cup {NoJob}]
  BY DEF SessionsOK, Only, OkAt
<1>2. k' \in [Sessions -> 0 .. MaxRecords] /\ tally' \in [Sessions -> 0 .. MaxRecords]
  BY DEF SessionsOK, Only, OkAt
<1>3. local' \in [Sessions -> Payloads \cup {None}] /\ parts' \in [Sessions -> Seq(Payloads)]
  BY DEF SessionsOK, Only, OkAt
<1>4. /\ DOMAIN rows' = Sessions
      /\ \A s \in Sessions \ {t} : /\ rows'[s] = rows[s] /\ pc'[s] = pc[s]
                                   /\ job'[s] = job[s] /\ k'[s] = k[s]
                                   /\ tally'[s] = tally[s] /\ local'[s] = local[s]
  BY DEF SessionsOK, Only
<1>5. SessionsOK'
  <2>1. ASSUME NEW s \in Sessions PROVE pc'[s] # "idle" => job'[s] \in Jobs
    BY <1>4 DEF SessionsOK, OkAt
  <2>2. ASSUME NEW s \in Sessions
        PROVE  /\ DOMAIN rows'[s] \subseteq 1 .. MaxRecords
               /\ \A i \in DOMAIN rows'[s] : rows'[s][i] \in Rows
    <3>1. CASE s = t
      BY <3>1 DEF OkAt
    <3>2. CASE s # t
      BY <1>4, <3>2 DEF SessionsOK
    <3> QED BY <3>1, <3>2
  <2> QED BY <1>1, <1>2, <1>3, <1>4, <2>1, <2>2 DEF SessionsOK
<1>6. ASSUME NEW s \in Sessions PROVE Prepared(s)'
  <2>1. CASE s = t
    BY <2>1
  <2>2. CASE s # t
    BY <1>4, <2>2 DEF Prepared, Total, Wanted
  <2> QED BY <2>1, <2>2
<1> QED BY <1>5, <1>6

\* The targets of a session are indices of its records; their shards fit the bound.
LEMMA TotalType ==
  ASSUME SessionsOK, NEW s \in Sessions, Prepared(s), pc[s] # "idle"
  PROVE  /\ Len(job[s].recs) \in 0 .. MaxRecords /\ job[s].recs \in Seq(SourceRecords)
         /\ Wanted(s) \in Seq(1 .. Len(job[s].recs)) /\ Len(Wanted(s)) \in Nat
         /\ Len(Wanted(s)) <= Len(job[s].recs)
         /\ Total(s) \in 0 .. MaxRecords
<1>1. job[s].recs \in Seq(SourceRecords) /\ Len(job[s].recs) \in 0 .. MaxRecords
  BY BoundsAssumption DEF SessionsOK, Prepared, Jobs
<1>2. /\ Wanted(s) \in Seq(1 .. Len(job[s].recs)) /\ Len(Wanted(s)) \in Nat
      /\ Len(Wanted(s)) <= Len(job[s].recs)
  BY <1>1, TargetsChosen DEF Wanted, Chosen
<1>3. Total(s) \in Nat /\ Total(s) <= Len(Wanted(s))
  BY <1>2, NumShardsType DEF Total
<1>4. MaxRecords \in Nat
  BY BoundsAssumption
<1> QED BY <1>1, <1>2, <1>3, <1>4

LEMMA InitTypeInv == Init => TypeInv
<1> SUFFICES ASSUME Init PROVE TypeInv
  OBVIOUS
<1>1. DriveOK
  BY BoundsAssumption DEF Init, DriveOK
<1>2. pc \in [Sessions -> Places] /\ job \in [Sessions -> Jobs \cup {NoJob}]
  BY DEF Init, Places
<1>3. k \in [Sessions -> 0 .. MaxRecords] /\ tally \in [Sessions -> 0 .. MaxRecords]
  BY BoundsAssumption DEF Init
<1>4. local \in [Sessions -> Payloads \cup {None}] /\ parts \in [Sessions -> Seq(Payloads)]
  BY DEF Init
<1>5. DOMAIN rows = Sessions /\ \A s \in Sessions : DOMAIN rows[s] = {} /\ pc[s] = "idle"
  BY DEF Init, NoRows
<1>6. SessionsOK
  BY <1>2, <1>3, <1>4, <1>5 DEF SessionsOK
<1>7. \A s \in Sessions : Prepared(s)
  BY DEF Init, Prepared, Before, Making, NoJob
<1> QED BY <1>1, <1>6, <1>7 DEF TypeInv, TypeOK

LEMMA EndOnly ==
  ASSUME SessionsOK, NEW t \in Sessions, End(t)
  PROVE  /\ Only(t) /\ pc'[t] = "idle" /\ job'[t] = NoJob /\ k'[t] = 0 /\ tally'[t] = 0
         /\ local'[t] = None /\ parts'[t] = <<>> /\ rows'[t] = NoRows
BY DEF SessionsOK, End, Goto, Only

\* A step that ends its session and leaves the Drive's files well formed.
LEMMA EndingStep ==
  ASSUME TypeInv, NEW t \in Sessions, End(t), DriveOK'
  PROVE  TypeInv'
<1>1. /\ Only(t) /\ pc'[t] = "idle" /\ job'[t] = NoJob /\ k'[t] = 0 /\ tally'[t] = 0
      /\ local'[t] = None /\ parts'[t] = <<>> /\ rows'[t] = NoRows
  BY EndOnly DEF TypeInv, TypeOK
<1>2. OkAt(t)'
  <2>1. <<>> \in Seq(Payloads) /\ DOMAIN NoRows = {} /\ MaxRecords \in Nat
    BY BoundsAssumption DEF NoRows
  <2> QED BY <1>1, <2>1 DEF OkAt, Places
<1>3. Prepared(t)'
  BY <1>1 DEF Prepared, Making
<1> QED BY <1>1, <1>2, <1>3, SessionUpdate

LEMMA DriveFrame ==
  ASSUME DriveOK, UNCHANGED <<directory, outputs, world>>
  PROVE  DriveOK'
BY DEF DriveOK, directory, outputs, world

LEMMA Here ==
  ASSUME TypeInv, NEW t \in Sessions
  PROVE  SessionsOK /\ DriveOK /\ OkAt(t) /\ Prepared(t)
BY OkAtSession DEF TypeInv, TypeOK

LEMMA LaunchTypeInv ==
  ASSUME TypeInv, NEW t \in Sessions, NEW goal \in Goals, NEW c \in Configs,
         Launch(t, goal, c)
  PROVE  TypeInv'
<1>0. SessionsOK /\ DriveOK /\ OkAt(t) /\ Prepared(t)
  BY Here
<1>1. DriveOK'
  BY <1>0, DriveFrame DEF Launch
<1> DEFINE p == IF goal = "status" THEN "inspect" ELSE "run"
           j == [goal |-> goal, phase |-> p, config |-> c, recs |-> <<>>,
                 sid |-> None, claim |-> None]
<1>2. j \in Jobs /\ Len(j.recs) = 0
  <2>1. p \in {"inspect", "run"}
    OBVIOUS
  <2> HIDE DEF p
  <2> QED BY <2>1 DEF Jobs
<1>3. job' = [job EXCEPT ![t] = j] /\ pc[t] = "idle"
  BY DEF Launch
<1> HIDE DEF j
<1>4. /\ job'[t] = j /\ pc'[t] = "load" /\ k'[t] = k[t] /\ tally'[t] = tally[t]
      /\ local'[t] = local[t] /\ parts'[t] = parts[t] /\ rows'[t] = rows[t] /\ Only(t)
  BY <1>0, <1>3 DEF Launch, Goto, Only, SessionsOK
<1>5. OkAt(t)'
  BY <1>0, <1>2, <1>4 DEF OkAt, Places
<1>6. Prepared(t)'
  BY <1>0, <1>2, <1>3, <1>4, BoundsAssumption DEF Prepared, Before, Making
<1> QED BY <1>1, <1>4, <1>5, <1>6, SessionUpdate

LEMMA LoadSourceTypeInv ==
  ASSUME TypeInv, NEW t \in Sessions, LoadSource(t)
  PROVE  TypeInv'
<1>0. SessionsOK /\ DriveOK /\ OkAt(t) /\ Prepared(t)
  BY Here
<1>1. DriveOK'
  BY <1>0, DriveFrame DEF LoadSource
<1>2. /\ pc[t] = "load" /\ job[t] \in Jobs /\ Records[source] \in Seq(SourceRecords)
      /\ Len(Records[source]) <= MaxRecords
  BY <1>0, BoundsAssumption DEF LoadSource, OkAt, DriveOK
<1>3. /\ pc'[t] = "select" /\ k'[t] = k[t] /\ tally'[t] = tally[t]
      /\ local'[t] = local[t] /\ parts'[t] = parts[t] /\ rows'[t] = rows[t] /\ Only(t)
      /\ job'[t] = [job[t] EXCEPT !.recs = Records[source]]
  BY <1>0 DEF LoadSource, Goto, Only, SessionsOK
<1>4. /\ job'[t] \in Jobs /\ job'[t].recs = Records[source]
      /\ job'[t].phase = job[t].phase
  BY <1>2, <1>3 DEF Jobs
<1>5. OkAt(t)'
  BY <1>0, <1>3, <1>4 DEF OkAt, Places
<1>6. Prepared(t)'
  BY <1>0, <1>2, <1>3, <1>4 DEF Prepared, Before, Making
<1> QED BY <1>1, <1>3, <1>5, <1>6, SessionUpdate

LEMMA SelectTypeInv ==
  ASSUME TypeInv, NEW t \in Sessions, Select(t)
  PROVE  TypeInv'
<1>0. SessionsOK /\ DriveOK /\ OkAt(t) /\ Prepared(t)
  BY Here
<1>1. DriveOK'
  BY <1>0, DriveFrame DEF Select
<1>2. pc[t] = "select" /\ job[t] \in Jobs /\ source \in Sources
  BY <1>0 DEF Select, OkAt, DriveOK
<1>3. /\ pc'[t] = "identify" /\ k'[t] = k[t] /\ tally'[t] = tally[t]
      /\ local'[t] = local[t] /\ parts'[t] = parts[t] /\ rows'[t] = rows[t] /\ Only(t)
      /\ job'[t] = [job[t] EXCEPT !.sid = source]
  BY <1>0 DEF Select, Goto, Only, SessionsOK
<1>4. /\ job'[t] \in Jobs /\ job'[t].recs = job[t].recs
      /\ job'[t].phase = job[t].phase /\ job'[t].sid = source
  BY <1>2, <1>3 DEF Jobs
<1>5. OkAt(t)'
  BY <1>0, <1>3, <1>4 DEF OkAt, Places
<1>6. Prepared(t)'
  BY <1>0, <1>2, <1>3, <1>4 DEF Prepared, Before, Making
<1> QED BY <1>1, <1>3, <1>5, <1>6, SessionUpdate

LEMMA RunIdentityType ==
  ASSUME TypeInv, NEW t \in Sessions, pc[t] = "identify"
  PROVE  RunIdentity(t) \in Identities
<1>0. SessionsOK /\ DriveOK /\ OkAt(t) /\ Prepared(t)
  BY Here
<1>1. /\ job[t].config \in Configs /\ job[t].sid \in Sources /\ diskCode[t] \in Codes
      /\ job[t].recs \in Seq(SourceRecords)
  BY <1>0 DEF DriveOK, OkAt, Prepared, Jobs
<1>2. /\ Wanted(t) \in Seq(1 .. Len(job[t].recs)) /\ Len(Wanted(t)) \in Nat
      /\ Len(job[t].recs) \in 0 .. MaxRecords
  BY <1>0, TotalType
<1>3. MaxRecords \in Nat
  BY BoundsAssumption
<1>4. ASSUME NEW i \in DOMAIN Wanted(t)
      PROVE  /\ Wanted(t)[i] \in 1 .. MaxRecords
             /\ job[t].recs[Wanted(t)[i]] \in SourceRecords
  <2>1. Wanted(t)[i] \in 1 .. Len(job[t].recs)
    BY <1>2
  <2> HIDE DEF Wanted
  <2>2. job[t].recs[Wanted(t)[i]] \in SourceRecords
    BY <1>1, <2>1
  <2> QED BY <1>2, <1>3, <2>1, <2>2
<1> DEFINE T == [index : 1 .. MaxRecords, record : SourceRecords]
           g == [i \in DOMAIN Wanted(t) |->
                  [index |-> Wanted(t)[i], record |-> job[t].recs[Wanted(t)[i]]]]
<1>5. g \in Seq(T)
  <2>1. DOMAIN Wanted(t) = 1 .. Len(Wanted(t))
    BY <1>2
  <2>2. g \in [1 .. Len(Wanted(t)) -> T]
    <3> HIDE DEF Wanted
    <3> QED BY <1>4, <2>1
  <2> HIDE DEF g, T
  <2>3. Len(Wanted(t)) \in Nat
    BY <1>2
  <2> QED BY <2>2, <2>3
<1> HIDE DEF g
<1> QED BY <1>1, <1>5 DEF RunIdentity, Identities, g

LEMMA CheckIdentityTypeInv ==
  ASSUME TypeInv, NEW t \in Sessions, CheckIdentity(t)
  PROVE  TypeInv'
<1>0. SessionsOK /\ DriveOK /\ OkAt(t) /\ Prepared(t)
  BY Here
<1>1. DriveOK'
  BY <1>0, DriveFrame DEF CheckIdentity
<1>2. pc[t] = "identify" /\ job[t] \in Jobs
  BY <1>0 DEF CheckIdentity, OkAt
<1>3. RunIdentity(t) \in Identities
  BY <1>2, RunIdentityType
<1>4. CASE End(t)
  BY <1>1, <1>4, EndingStep
<1>5. CASE /\ Goto(t, "claim")
           /\ job' = [job EXCEPT ![t].claim = RunIdentity(t)]
           /\ UNCHANGED <<k, tally, local, parts, rows>>
  <2>1. /\ pc'[t] = "claim" /\ k'[t] = k[t] /\ tally'[t] = tally[t]
        /\ local'[t] = local[t] /\ parts'[t] = parts[t] /\ rows'[t] = rows[t] /\ Only(t)
        /\ job'[t] = [job[t] EXCEPT !.claim = RunIdentity(t)]
    BY <1>0, <1>5 DEF Goto, Only, SessionsOK
  <2>2. /\ job'[t] \in Jobs /\ job'[t].recs = job[t].recs /\ job'[t].sid = job[t].sid
        /\ job'[t].phase = job[t].phase /\ job'[t].claim = RunIdentity(t)
    BY <1>2, <1>3, <2>1 DEF Jobs
  <2>3. OkAt(t)'
    BY <1>0, <2>1, <2>2 DEF OkAt, Places
  <2>4. Prepared(t)'
    BY <1>0, <1>2, <1>3, <2>1, <2>2 DEF Prepared, Before, Making
  <2> QED BY <1>1, <2>1, <2>3, <2>4, SessionUpdate
<1>6. CASE Goto(t, "scan") /\ UNCHANGED <<job, k, tally, local, parts, rows>>
  <2>1. /\ pc'[t] = "scan" /\ k'[t] = k[t] /\ tally'[t] = tally[t] /\ job'[t] = job[t]
        /\ local'[t] = local[t] /\ parts'[t] = parts[t] /\ rows'[t] = rows[t] /\ Only(t)
    BY <1>0, <1>6 DEF Goto, Only, SessionsOK
  <2>2. Total(t) \in 0 .. MaxRecords /\ Total(t)' = Total(t)
    BY <1>0, <1>2, <2>1, TotalType DEF Total, Wanted
  <2>3. OkAt(t)'
    BY <1>0, <1>2, <2>1 DEF OkAt, Places
  <2>4. Prepared(t)'
    BY <1>0, <1>2, <2>1, <2>2 DEF Prepared, Before, Making
  <2> QED BY <1>1, <2>1, <2>3, <2>4, SessionUpdate
<1> QED BY <1>4, <1>5, <1>6 DEF CheckIdentity

LEMMA ClaimIdentityTypeInv ==
  ASSUME TypeInv, NEW t \in Sessions, ClaimIdentity(t)
  PROVE  TypeInv'
<1>0. SessionsOK /\ DriveOK /\ OkAt(t) /\ Prepared(t)
  BY Here
<1>1. pc[t] = "claim" /\ job[t] \in Jobs
  BY <1>0 DEF ClaimIdentity, OkAt
<1>2. DriveOK'
  BY <1>0, <1>1 DEF ClaimIdentity, DriveOK, Prepared, outputs, world
<1>3. /\ pc'[t] = "scan" /\ k'[t] = k[t] /\ tally'[t] = tally[t] /\ job'[t] = job[t]
      /\ local'[t] = local[t] /\ parts'[t] = parts[t] /\ rows'[t] = rows[t] /\ Only(t)
  BY <1>0 DEF ClaimIdentity, Goto, Only, SessionsOK
<1>4. Total(t) \in 0 .. MaxRecords /\ Total(t)' = Total(t)
  BY <1>0, <1>1, <1>3, TotalType DEF Total, Wanted
<1>5. OkAt(t)'
  BY <1>0, <1>1, <1>3 DEF OkAt, Places
<1>6. Prepared(t)'
  BY <1>0, <1>1, <1>3, <1>4 DEF Prepared, Before, Making
<1> QED BY <1>2, <1>3, <1>5, <1>6, SessionUpdate

\* A session at a shard: the shard is one of the run's.
LEMMA AtShard ==
  ASSUME TypeInv, NEW t \in Sessions, pc[t] \in Making \cup {"scan", "merge"}
  PROVE  /\ SessionsOK /\ DriveOK /\ OkAt(t) /\ Prepared(t) /\ job[t] \in Jobs
         /\ Total(t) \in 0 .. MaxRecords /\ MaxRecords \in Nat /\ k[t] \in Nat
         /\ k[t] < Total(t) => k[t] \in Shards /\ k[t] + 1 \in 0 .. MaxRecords
         /\ pc[t] \in Making => k[t] < Total(t)
<1>0. SessionsOK /\ DriveOK /\ OkAt(t) /\ Prepared(t)
  BY Here
<1>1. pc[t] # "idle" /\ job[t] \in Jobs /\ k[t] \in Nat /\ MaxRecords \in Nat
  BY <1>0, BoundsAssumption DEF OkAt, Making
<1>2. Total(t) \in 0 .. MaxRecords
  BY <1>0, <1>1, TotalType
<1>3. pc[t] \in Making => k[t] < Total(t)
  BY <1>0 DEF Prepared
<1> QED BY <1>0, <1>1, <1>2, <1>3 DEF Shards

LEMMA ScanSealedTypeInv ==
  ASSUME TypeInv, NEW t \in Sessions, ScanSealed(t)
  PROVE  TypeInv'
<1>a. pc[t] = "scan" /\ k[t] < Total(t)
  BY DEF ScanSealed
<1>0. /\ SessionsOK /\ DriveOK /\ OkAt(t) /\ Prepared(t) /\ job[t] \in Jobs
      /\ Total(t) \in 0 .. MaxRecords /\ k[t] \in Nat /\ k[t] + 1 \in 0 .. MaxRecords
      /\ MaxRecords \in Nat
  BY <1>a, AtShard
<1>1. DriveOK'
  BY <1>0, DriveFrame DEF ScanSealed
<1>2. tally' = [tally EXCEPT ![t] = tally'[t]]
  BY <1>0 DEF ScanSealed, SessionsOK
<1>3. /\ pc'[t] = "scan" /\ k'[t] = k[t] + 1 /\ job'[t] = job[t]
      /\ local'[t] = local[t] /\ parts'[t] = parts[t] /\ rows'[t] = rows[t]
      /\ job[t].phase = "inspect" => tally'[t] = tally[t] + 1
      /\ job[t].phase # "inspect" => tally'[t] = tally[t]
  <2>1. tally'[t] = tally[t] + IF job[t].phase = "inspect" THEN 1 ELSE 0
    BY <1>0 DEF ScanSealed, SessionsOK
  <2>2. tally[t] \in Nat
    BY <1>0 DEF OkAt
  <2> QED BY <1>0, <1>a, <2>1, <2>2 DEF ScanSealed, SessionsOK
<1>4. Only(t)
  BY <1>0, <1>2 DEF ScanSealed, Only, SessionsOK
<1>5. Total(t)' = Total(t)
  BY <1>3 DEF Total, Wanted
<1>6. tally[t] \in Nat /\ tally[t] <= k[t] /\ (job[t].phase = "run" => tally[t] = 0)
  BY <1>0, <1>a DEF OkAt, Prepared
<1>7. /\ tally'[t] \in Nat /\ tally'[t] <= k[t] + 1
      /\ (job[t].phase = "run" => tally'[t] = 0)
  <2>1. CASE job[t].phase = "inspect"
    BY <1>0, <1>3, <1>6, <2>1
  <2>2. CASE job[t].phase # "inspect"
    BY <1>0, <1>3, <1>6, <2>2
  <2> QED BY <2>1, <2>2
<1>8. OkAt(t)'
  BY <1>0, <1>a, <1>3, <1>7 DEF OkAt
<1>9. Prepared(t)'
  BY <1>0, <1>a, <1>3, <1>5, <1>7 DEF Prepared, Before, Making
<1> QED BY <1>1, <1>4, <1>8, <1>9, SessionUpdate

LEMMA ScanOpenTypeInv ==
  ASSUME TypeInv, NEW t \in Sessions, ScanOpen(t)
  PROVE  TypeInv'
<1>a. pc[t] = "scan" /\ k[t] < Total(t)
  BY DEF ScanOpen
<1>0. /\ SessionsOK /\ DriveOK /\ OkAt(t) /\ Prepared(t) /\ job[t] \in Jobs
      /\ Total(t) \in 0 .. MaxRecords /\ k[t] \in Nat /\ k[t] + 1 \in 0 .. MaxRecords
      /\ MaxRecords \in Nat
  BY <1>a, AtShard
<1>1. DriveOK'
  BY <1>0, DriveFrame DEF ScanOpen
<1>2. /\ job'[t] = job[t] /\ tally'[t] = tally[t]
      /\ local'[t] = local[t] /\ parts'[t] = parts[t] /\ rows'[t] = rows[t]
  BY DEF ScanOpen
<1>3. Total(t)' = Total(t)
  BY <1>2 DEF Total, Wanted
<1>4. tally[t] \in Nat /\ tally[t] <= k[t] /\ (job[t].phase = "run" => tally[t] = 0)
  BY <1>0, <1>a DEF OkAt, Prepared
<1>5. CASE k' = [k EXCEPT ![t] = @ + 1] /\ UNCHANGED pc
  <2>1. k'[t] = k[t] + 1 /\ pc'[t] = "scan" /\ Only(t)
    BY <1>0, <1>a, <1>5 DEF ScanOpen, Only, SessionsOK
  <2>2. OkAt(t)'
    BY <1>0, <1>a, <1>2, <2>1 DEF OkAt
  <2>3. Prepared(t)'
    BY <1>0, <1>a, <1>2, <1>3, <1>4, <2>1 DEF Prepared, Before, Making
  <2> QED BY <1>1, <2>1, <2>2, <2>3, SessionUpdate
<1>6. CASE Goto(t, "teach") /\ UNCHANGED k
  <2>1. k'[t] = k[t] /\ pc'[t] = "teach" /\ Only(t)
    BY <1>0, <1>a, <1>6 DEF ScanOpen, Only, SessionsOK, Goto
  <2>2. OkAt(t)'
    BY <1>0, <1>a, <1>2, <2>1 DEF OkAt, Places
  <2>3. Prepared(t)'
    BY <1>0, <1>a, <1>2, <1>3, <1>4, <2>1 DEF Prepared, Before, Making
  <2> QED BY <1>1, <2>1, <2>2, <2>3, SessionUpdate
<1> QED BY <1>5, <1>6 DEF ScanOpen

\* The shard a session has made.
LEMMA TeachType ==
  ASSUME TypeInv, NEW t \in Sessions, pc[t] = "teach", Teach(t)
  PROVE  /\ local'[t] \in Payloads /\ local' = [local EXCEPT ![t] = local'[t]]
         /\ local'[t].config = job[t].config /\ local'[t].sid = job[t].sid
<1>0. /\ SessionsOK /\ DriveOK /\ OkAt(t) /\ Prepared(t) /\ job[t] \in Jobs
      /\ k[t] \in Nat
  BY AtShard DEF Making
<1>1. /\ job[t].config \in Configs /\ job[t].sid \in Sources /\ diskCode[t] \in Codes
      /\ job[t].recs \in Seq(SourceRecords)
  BY <1>0 DEF DriveOK, Prepared, Jobs
<1>2. /\ Wanted(t) \in Seq(1 .. Len(job[t].recs)) /\ Len(job[t].recs) \in 0 .. MaxRecords
      /\ MaxRecords \in Nat
  BY <1>0, TotalType, BoundsAssumption
<1> DEFINE mine == Slice(Wanted(t), k[t])
           made(a) == [i \in DOMAIN mine |->
                 [index |-> mine[i], record |-> job[t].recs[mine[i]], answer |-> a[i]]]
<1>3. mine \in Seq(1 .. Len(job[t].recs))
  BY <1>0, <1>2, SliceType
<1>4. PICK a \in [DOMAIN mine -> Answers] :
        local' = [local EXCEPT ![t] = [config |-> job[t].config, code |-> diskCode[t],
                                       sid |-> job[t].sid, rows |-> made(a)]]
  BY DEF Teach
<1> HIDE DEF mine
<1>5. made(a) \in Seq(Rows)
  <2>1. DOMAIN mine = 1 .. Len(mine) /\ Len(mine) \in Nat
    BY <1>3
  <2>2. ASSUME NEW i \in DOMAIN mine
        PROVE  [index |-> mine[i], record |-> job[t].recs[mine[i]], answer |-> a[i]] \in Rows
    <3>1. mine[i] \in 1 .. Len(job[t].recs)
      BY <1>3, <2>1
    <3>2. mine[i] \in 1 .. MaxRecords /\ job[t].recs[mine[i]] \in SourceRecords
      BY <1>1, <1>2, <3>1
    <3> QED BY <3>2 DEF Rows
  <2>3. made(a) \in [1 .. Len(mine) -> Rows]
    BY <2>1, <2>2
  <2> HIDE DEF made
  <2> QED BY <2>1, <2>3
<1> HIDE DEF made
<1>6. local'[t] = [config |-> job[t].config, code |-> diskCode[t],
                   sid |-> job[t].sid, rows |-> made(a)]
  BY <1>0, <1>4 DEF SessionsOK
<1>7. local' = [local EXCEPT ![t] = local'[t]]
  BY <1>4, <1>6
<1> QED BY <1>1, <1>5, <1>6, <1>7 DEF Payloads

LEMMA TeachTypeInv ==
  ASSUME TypeInv, NEW t \in Sessions, Teach(t)
  PROVE  TypeInv'
<1>a. pc[t] = "teach"
  BY DEF Teach
<1>0. /\ SessionsOK /\ DriveOK /\ OkAt(t) /\ Prepared(t) /\ job[t] \in Jobs
      /\ k[t] \in Nat /\ k[t] < Total(t)
  BY <1>a, AtShard DEF Making
<1>1. DriveOK'
  BY <1>0, DriveFrame DEF Teach
<1>2. local'[t] \in Payloads /\ local' = [local EXCEPT ![t] = local'[t]]
  BY <1>a, TeachType
<1>3. /\ pc'[t] = "copy" /\ k'[t] = k[t] /\ job'[t] = job[t] /\ tally'[t] = tally[t]
      /\ parts'[t] = parts[t] /\ rows'[t] = rows[t] /\ Only(t)
  BY <1>0, <1>2 DEF Teach, Goto, Only, SessionsOK
<1>4. Total(t)' = Total(t)
  BY <1>3 DEF Total, Wanted
<1>5. OkAt(t)'
  BY <1>0, <1>a, <1>2, <1>3 DEF OkAt, Places
<1>6. Prepared(t)'
  BY <1>0, <1>a, <1>2, <1>3, <1>4 DEF Prepared, Before, Making
<1> QED BY <1>1, <1>3, <1>5, <1>6, SessionUpdate

LEMMA CopyPayloadTypeInv ==
  ASSUME TypeInv, NEW t \in Sessions, CopyPayload(t)
  PROVE  TypeInv'
<1>a. pc[t] = "copy"
  BY DEF CopyPayload
<1>0. /\ SessionsOK /\ DriveOK /\ OkAt(t) /\ Prepared(t) /\ job[t] \in Jobs
      /\ k[t] \in Nat /\ k[t] < Total(t)
  BY <1>a, AtShard DEF Making
<1>1. local[t] \in Payloads
  BY <1>0, <1>a DEF Prepared
<1>2. DriveOK'
  BY <1>0, <1>1 DEF CopyPayload, DriveOK, outputs, world
<1>3. /\ pc'[t] = "seal" /\ k'[t] = k[t] /\ job'[t] = job[t] /\ tally'[t] = tally[t]
      /\ local'[t] = local[t] /\ parts'[t] = parts[t] /\ rows'[t] = rows[t] /\ Only(t)
  BY <1>0 DEF CopyPayload, Goto, Only, SessionsOK
<1>4. Total(t)' = Total(t)
  BY <1>3 DEF Total, Wanted
<1>5. OkAt(t)'
  BY <1>0, <1>a, <1>3 DEF OkAt, Places
<1>6. Prepared(t)'
  BY <1>0, <1>a, <1>1, <1>3, <1>4 DEF Prepared, Before, Making
<1> QED BY <1>2, <1>3, <1>5, <1>6, SessionUpdate

LEMMA CopySidecarTypeInv ==
  ASSUME TypeInv, NEW t \in Sessions, CopySidecar(t)
  PROVE  TypeInv'
<1>a. pc[t] = "seal"
  BY DEF CopySidecar
<1>0. /\ SessionsOK /\ DriveOK /\ OkAt(t) /\ Prepared(t) /\ job[t] \in Jobs
      /\ k[t] \in Nat /\ k[t] < Total(t)
  BY <1>a, AtShard DEF Making
<1>1. local[t] \in Payloads
  BY <1>0, <1>a DEF Prepared
<1>2. DriveOK'
  BY <1>0, <1>1 DEF CopySidecar, DriveOK, outputs, world
<1>3. /\ pc'[t] = "confirm" /\ k'[t] = k[t] /\ job'[t] = job[t] /\ tally'[t] = tally[t]
      /\ local'[t] = local[t] /\ parts'[t] = parts[t] /\ rows'[t] = rows[t] /\ Only(t)
  BY <1>0 DEF CopySidecar, Goto, Only, SessionsOK
<1>4. Total(t)' = Total(t)
  BY <1>3 DEF Total, Wanted
<1>5. OkAt(t)'
  BY <1>0, <1>a, <1>3 DEF OkAt, Places
<1>6. Prepared(t)'
  BY <1>0, <1>a, <1>1, <1>3, <1>4 DEF Prepared, Before, Making
<1> QED BY <1>2, <1>3, <1>5, <1>6, SessionUpdate

LEMMA ConfirmTypeInv ==
  ASSUME TypeInv, NEW t \in Sessions, Confirm(t)
  PROVE  TypeInv'
<1>a. pc[t] = "confirm"
  BY DEF Confirm
<1>0. /\ SessionsOK /\ DriveOK /\ OkAt(t) /\ Prepared(t) /\ job[t] \in Jobs
      /\ k[t] \in Nat /\ k[t] < Total(t) /\ k[t] + 1 \in 0 .. MaxRecords
      /\ Total(t) \in 0 .. MaxRecords /\ MaxRecords \in Nat
  BY <1>a, AtShard DEF Making
<1>1. DriveOK'
  BY <1>0, DriveFrame DEF Confirm
<1>2. /\ pc'[t] = "scan" /\ k'[t] = k[t] + 1 /\ job'[t] = job[t] /\ tally'[t] = tally[t]
      /\ local'[t] = None /\ parts'[t] = parts[t] /\ rows'[t] = rows[t] /\ Only(t)
  BY <1>0 DEF Confirm, Goto, Only, SessionsOK
<1>3. Total(t)' = Total(t)
  BY <1>2 DEF Total, Wanted
<1>4. OkAt(t)'
  BY <1>0, <1>a, <1>2 DEF OkAt, Places
<1>5. tally[t] <= k[t] /\ tally[t] \in Nat
  BY <1>0, <1>a DEF Prepared, OkAt, Making
<1>6. Prepared(t)'
  BY <1>0, <1>a, <1>2, <1>3, <1>5 DEF Prepared, Before, Making
<1> QED BY <1>1, <1>2, <1>4, <1>6, SessionUpdate

LEMMA FinishRunTypeInv ==
  ASSUME TypeInv, NEW t \in Sessions, FinishRun(t)
  PROVE  TypeInv'
<1>a. pc[t] = "scan" /\ job[t].phase = "run"
  BY DEF FinishRun
<1>0. SessionsOK /\ DriveOK /\ OkAt(t) /\ Prepared(t) /\ job[t] \in Jobs
  BY <1>a, AtShard
<1>1. DriveOK'
  BY <1>0, DriveFrame DEF FinishRun
<1>2. /\ pc'[t] = "select" /\ k'[t] = 0 /\ tally'[t] = tally[t]
      /\ local'[t] = local[t] /\ parts'[t] = parts[t] /\ rows'[t] = rows[t] /\ Only(t)
      /\ job'[t] = [job[t] EXCEPT !.phase = "inspect"]
  BY <1>0 DEF FinishRun, Goto, Only, SessionsOK
<1>3. /\ job'[t] \in Jobs /\ job'[t].recs = job[t].recs /\ job'[t].sid = job[t].sid
      /\ job'[t].phase = "inspect"
  BY <1>0, <1>2 DEF Jobs
<1>4. OkAt(t)'
  BY <1>0, <1>2, <1>3, BoundsAssumption DEF OkAt, Places
<1>5. Prepared(t)'
  BY <1>0, <1>a, <1>2, <1>3 DEF Prepared, Before, Making
<1> QED BY <1>1, <1>2, <1>4, <1>5, SessionUpdate

LEMMA FinishInspectTypeInv ==
  ASSUME TypeInv, NEW t \in Sessions, FinishInspect(t)
  PROVE  TypeInv'
<1>a. pc[t] = "scan"
  BY DEF FinishInspect
<1>0. /\ SessionsOK /\ DriveOK /\ OkAt(t) /\ Prepared(t) /\ job[t] \in Jobs
      /\ Total(t) \in 0 .. MaxRecords
  BY <1>a, AtShard
<1>1. DriveOK'
  BY <1>0, DriveFrame DEF FinishInspect
<1>2. CASE End(t)
  BY <1>1, <1>2, EndingStep
<1>3. CASE /\ Goto(t, "merge") /\ k' = [k EXCEPT ![t] = 0]
           /\ UNCHANGED <<job, tally, local, parts, rows>>
  <2>1. /\ pc'[t] = "merge" /\ k'[t] = 0 /\ tally'[t] = tally[t] /\ job'[t] = job[t]
        /\ local'[t] = local[t] /\ parts'[t] = parts[t] /\ rows'[t] = rows[t] /\ Only(t)
    BY <1>0, <1>3 DEF Goto, Only, SessionsOK
  <2>2. Total(t)' = Total(t)
    BY <2>1 DEF Total, Wanted
  <2>3. OkAt(t)'
    BY <1>0, <1>a, <2>1, BoundsAssumption DEF OkAt, Places
  <2>4. Prepared(t)'
    BY <1>0, <1>a, <2>1, <2>2 DEF Prepared, Before, Making
  <2> QED BY <1>1, <2>1, <2>3, <2>4, SessionUpdate
<1> QED BY <1>2, <1>3 DEF FinishInspect

\* The rows of a shard are the rows of its indices.
LEMMA RowOfType ==
  ASSUME NEW p \in Payloads
  PROVE  /\ DOMAIN p.rows = 1 .. Len(p.rows) /\ Len(p.rows) \in Nat
         /\ \A n \in DOMAIN p.rows : p.rows[n] \in Rows
         /\ Indices(p) \subseteq 1 .. MaxRecords
         /\ \A i \in Indices(p) : /\ RowOf(p, i) \in Rows /\ RowOf(p, i).index = i
                                  /\ \E n \in DOMAIN p.rows : RowOf(p, i) = p.rows[n]
<1>1. /\ p.rows \in Seq(Rows) /\ DOMAIN p.rows = 1 .. Len(p.rows) /\ Len(p.rows) \in Nat
      /\ \A n \in DOMAIN p.rows : p.rows[n] \in Rows
  BY DEF Payloads
<1>2. Indices(p) \subseteq 1 .. MaxRecords
  BY <1>1 DEF Indices, Rows
<1>3. ASSUME NEW i \in Indices(p)
      PROVE  \E n \in DOMAIN p.rows : RowOf(p, i) = p.rows[n] /\ p.rows[n].index = i
  <2>1. \E n \in DOMAIN p.rows : p.rows[n].index = i
    BY DEF Indices
  <2> QED BY <2>1 DEF RowOf
<1> QED BY <1>1, <1>2, <1>3

\* What ReadShard does to the memory of its session.
LEMMA ReadShardEffect ==
  ASSUME TypeInv, NEW t \in Sessions, ReadShard(t)
  PROVE  /\ pc[t] = "merge" /\ k[t] < Total(t) /\ k[t] \in Shards
         /\ payload[k[t]] \in Payloads /\ payload[k[t]] \notin {None, Garbled}
         /\ Only(t) /\ pc'[t] = "merge" /\ k'[t] = k[t] + 1 /\ tally'[t] = tally[t]
         /\ job'[t] = job[t] /\ local'[t] = local[t]
         /\ parts'[t] = Append(parts[t], payload[k[t]])
         /\ DOMAIN rows'[t] = DOMAIN rows[t] \cup Indices(payload[k[t]])
         /\ \A i \in DOMAIN rows[t] : rows'[t][i] = rows[t][i]
         /\ \A i \in Indices(payload[k[t]]) :
               rows'[t][i] = RowOf(payload[k[t]], i) /\ i \notin DOMAIN rows[t]
<1>1. pc[t] = "merge" /\ k[t] < Total(t)
  BY DEF ReadShard
<1>2. SessionsOK /\ DriveOK /\ k[t] \in Shards
  BY <1>1, AtShard
<1> DEFINE p == payload[k[t]]
<1>3. p \in Payloads /\ p \notin {None, Garbled} /\ Indices(p) \cap DOMAIN rows[t] = {}
  BY <1>2 DEF ReadShard, Readable, DriveOK
<1>4. parts'[t] = Append(parts[t], p) /\ parts' = [parts EXCEPT ![t] = parts'[t]]
  BY <1>2 DEF ReadShard, SessionsOK
<1>5. /\ pc'[t] = "merge" /\ k'[t] = k[t] + 1 /\ tally'[t] = tally[t]
      /\ job'[t] = job[t] /\ local'[t] = local[t]
  BY <1>1, <1>2 DEF ReadShard, SessionsOK
<1> HIDE DEF p
<1>6. /\ DOMAIN rows' = Sessions /\ \A s \in Sessions \ {t} : rows'[s] = rows[s]
      /\ rows'[t] = [i \in DOMAIN rows[t] \cup Indices(p) |->
                       IF i \in DOMAIN rows[t] THEN rows[t][i] ELSE RowOf(p, i)]
  BY <1>2 DEF ReadShard, SessionsOK, p
<1>7. Only(t)
  BY <1>2, <1>4, <1>6 DEF ReadShard, Only, SessionsOK
<1>8. /\ DOMAIN rows'[t] = DOMAIN rows[t] \cup Indices(p)
      /\ \A i \in DOMAIN rows[t] : rows'[t][i] = rows[t][i]
      /\ \A i \in Indices(p) : rows'[t][i] = RowOf(p, i) /\ i \notin DOMAIN rows[t]
  BY <1>3, <1>6
<1> QED BY <1>1, <1>2, <1>3, <1>4, <1>5, <1>7, <1>8 DEF p

LEMMA ReadShardTypeInv ==
  ASSUME TypeInv, NEW t \in Sessions, ReadShard(t)
  PROVE  TypeInv'
<1> DEFINE p == payload[k[t]]
<1>1. /\ pc[t] = "merge" /\ k[t] < Total(t)
      /\ p \in Payloads
      /\ Only(t) /\ pc'[t] = "merge" /\ k'[t] = k[t] + 1 /\ tally'[t] = tally[t]
      /\ job'[t] = job[t] /\ local'[t] = local[t] /\ parts'[t] = Append(parts[t], p)
      /\ DOMAIN rows'[t] = DOMAIN rows[t] \cup Indices(p)
      /\ \A i \in DOMAIN rows[t] : rows'[t][i] = rows[t][i]
      /\ \A i \in Indices(p) : rows'[t][i] = RowOf(p, i)
  BY ReadShardEffect
<1>0. /\ SessionsOK /\ DriveOK /\ OkAt(t) /\ Prepared(t) /\ job[t] \in Jobs
      /\ k[t] \in Nat /\ k[t] + 1 \in 0 .. MaxRecords /\ Total(t) \in 0 .. MaxRecords
  BY <1>1, AtShard
<1>2. DriveOK'
  BY <1>0, DriveFrame DEF ReadShard
<1> HIDE DEF p
<1>3. /\ DOMAIN rows'[t] \subseteq 1 .. MaxRecords
      /\ \A i \in DOMAIN rows'[t] : rows'[t][i] \in Rows
  BY <1>0, <1>1, RowOfType DEF OkAt
<1>4. parts'[t] \in Seq(Payloads)
  BY <1>0, <1>1 DEF OkAt
<1>5. OkAt(t)'
  BY <1>0, <1>1, <1>3, <1>4 DEF OkAt
<1>6. Total(t)' = Total(t)
  BY <1>1 DEF Total, Wanted
<1>7. Prepared(t)'
  BY <1>0, <1>1, <1>6 DEF Prepared, Before, Making
<1> QED BY <1>1, <1>2, <1>5, <1>7, SessionUpdate

LEMMA MergedRowsType ==
  ASSUME SessionsOK, NEW t \in Sessions, Prepared(t), pc[t] # "idle"
  PROVE  /\ MergedRows(t) \in Seq([record : SourceRecords, row : Rows \cup {None}])
         /\ DOMAIN MergedRows(t) = 1 .. Len(job[t].recs)
         /\ \A i \in 1 .. Len(job[t].recs) : MergedRows(t)[i] = MergedRow(t, i)
<1> DEFINE R == [record : SourceRecords, row : Rows \cup {None}]
<1>1. /\ job[t].recs \in Seq(SourceRecords) /\ Len(job[t].recs) \in Nat
      /\ DOMAIN job[t].recs = 1 .. Len(job[t].recs)
  BY TotalType
<1>2. ASSUME NEW i \in 1 .. Len(job[t].recs) PROVE MergedRow(t, i) \in R
  BY <1>1 DEF MergedRow, SessionsOK
<1>3. MergedRows(t) = [i \in 1 .. Len(job[t].recs) |-> MergedRow(t, i)]
  BY <1>1 DEF MergedRows
<1>4. MergedRows(t) \in [1 .. Len(job[t].recs) -> R]
  <2> HIDE DEF R
  <2> QED BY <1>2, <1>3
<1> HIDE DEF R
<1>5. MergedRows(t) \in Seq(R)
  BY <1>1, <1>4
<1> QED BY <1>3, <1>5 DEF R

LEMMA WriteMergedTypeInv ==
  ASSUME TypeInv, NEW t \in Sessions, WriteMerged(t)
  PROVE  TypeInv'
<1>a. pc[t] = "merge" /\ k[t] = Total(t)
  BY DEF WriteMerged
<1>0. SessionsOK /\ DriveOK /\ OkAt(t) /\ Prepared(t) /\ job[t] \in Jobs
  BY <1>a, AtShard
<1>1. CASE Complete(t)
  <2>1. merged' = [config |-> job[t].config, sid |-> job[t].sid, shards |-> parts[t],
                   rows |-> MergedRows(t)]
    BY <1>1 DEF WriteMerged
  <2>2. merged' \in Corpora
    BY <1>0, <1>a, <2>1, MergedRowsType DEF Corpora, Jobs, Prepared, OkAt
  <2>3. DriveOK'
    BY <1>0, <2>2 DEF WriteMerged, DriveOK, directory, world
  <2>4. /\ pc'[t] = "sum" /\ k'[t] = k[t] /\ tally'[t] = tally[t] /\ job'[t] = job[t]
        /\ local'[t] = local[t] /\ parts'[t] = parts[t] /\ rows'[t] = rows[t] /\ Only(t)
    BY <1>0, <1>1 DEF WriteMerged, Goto, Only, SessionsOK
  <2>5. Total(t)' = Total(t)
    BY <2>4 DEF Total, Wanted
  <2>6. OkAt(t)'
    BY <1>0, <1>a, <2>4 DEF OkAt, Places
  <2>7. Prepared(t)'
    BY <1>0, <1>a, <2>4, <2>5 DEF Prepared, Before, Making
  <2> QED BY <2>3, <2>4, <2>6, <2>7, SessionUpdate
<1>2. CASE ~Complete(t)
  <2>1. End(t) /\ UNCHANGED <<directory, outputs, world>>
    BY <1>2 DEF WriteMerged, outputs
  <2> QED BY <1>0, <2>1, DriveFrame, EndingStep
<1> QED BY <1>1, <1>2

LEMMA WriteSealTypeInv ==
  ASSUME TypeInv, NEW t \in Sessions, WriteSeal(t)
  PROVE  TypeInv'
<1>a. pc[t] = "sum"
  BY DEF WriteSeal
<1>0. SessionsOK /\ DriveOK /\ OkAt(t) /\ Prepared(t)
  BY Here
<1>1. DriveOK'
  BY <1>0 DEF WriteSeal, DriveOK, directory, world
<1>2. /\ pc'[t] = "summary" /\ k'[t] = k[t] /\ tally'[t] = tally[t] /\ job'[t] = job[t]
      /\ local'[t] = local[t] /\ parts'[t] = parts[t] /\ rows'[t] = rows[t] /\ Only(t)
  BY <1>0 DEF WriteSeal, Goto, Only, SessionsOK
<1>3. Total(t)' = Total(t)
  BY <1>2 DEF Total, Wanted
<1>4. OkAt(t)'
  BY <1>0, <1>a, <1>2 DEF OkAt, Places
<1>5. Prepared(t)'
  BY <1>0, <1>a, <1>2, <1>3 DEF Prepared, Before, Making
<1> QED BY <1>1, <1>2, <1>4, <1>5, SessionUpdate

LEMMA WriteSummaryTypeInv ==
  ASSUME TypeInv, NEW t \in Sessions, WriteSummary(t)
  PROVE  TypeInv'
<1>1. DriveOK'
  BY Here DEF WriteSummary, DriveOK, directory, world
<1> QED BY <1>1, EndingStep DEF WriteSummary

LEMMA SessionStepTypeInv ==
  ASSUME TypeInv, NEW t \in Sessions, SessionStep(t)
  PROVE  TypeInv'
<1>1. CASE Raise(t)
  BY <1>1, Here, DriveFrame, EndingStep DEF Raise
<1>2. CASE LoadSource(t) \/ Select(t) \/ CheckIdentity(t) \/ ClaimIdentity(t)
  BY <1>2, LoadSourceTypeInv, SelectTypeInv, CheckIdentityTypeInv, ClaimIdentityTypeInv
<1>3. CASE ScanSealed(t) \/ ScanOpen(t) \/ Teach(t) \/ CopyPayload(t)
  BY <1>3, ScanSealedTypeInv, ScanOpenTypeInv, TeachTypeInv, CopyPayloadTypeInv
<1>4. CASE CopySidecar(t) \/ Confirm(t) \/ FinishRun(t) \/ FinishInspect(t)
  BY <1>4, CopySidecarTypeInv, ConfirmTypeInv, FinishRunTypeInv, FinishInspectTypeInv
<1>5. CASE ReadShard(t) \/ WriteMerged(t) \/ WriteSeal(t) \/ WriteSummary(t)
  BY <1>5, ReadShardTypeInv, WriteMergedTypeInv, WriteSealTypeInv, WriteSummaryTypeInv
<1>6. CASE SelectFails(t) \/ ScanRejected(t) \/ TeachFails(t) \/ ConfirmFails(t)
           \/ ReadShardFails(t)
  BY <1>1, <1>6 DEF SelectFails, ScanRejected, TeachFails, ConfirmFails, ReadShardFails
<1> QED BY <1>2, <1>3, <1>4, <1>5, <1>6 DEF SessionStep

\* The Drive, the code and the source change under sessions that stay as they are.
LEMMA WorldTypeInv ==
  ASSUME TypeInv, DriveOK', UNCHANGED process
  PROVE  TypeInv'
<1>1. SessionsOK'
  BY DEF TypeInv, TypeOK, SessionsOK, process
<1>2. ASSUME NEW s \in Sessions PROVE Prepared(s)'
  BY DEF TypeInv, Prepared, process, Total, Wanted
<1> QED BY <1>1, <1>2 DEF TypeInv, TypeOK

LEMMA NextTypeInv == TypeInv /\ [Next]_vars => TypeInv'
<1> SUFFICES ASSUME TypeInv, [Next]_vars PROVE TypeInv'
  OBVIOUS
<1>0. DriveOK
  BY DEF TypeInv, TypeOK
<1>1. ASSUME NEW t \in Sessions, NEW goal \in Goals, NEW c \in Configs, Launch(t, goal, c)
      PROVE  TypeInv'
  BY <1>1, LaunchTypeInv
<1>2. ASSUME NEW t \in Sessions, SessionStep(t) PROVE TypeInv'
  BY <1>2, SessionStepTypeInv
<1>3. ASSUME NEW t \in Sessions, Crash(t) PROVE TypeInv'
  <2>1. DriveOK'
    BY <1>0, <1>3, BoundsAssumption DEF Crash, DriveOK, directory, outputs
  <2> QED BY <1>3, <2>1, EndingStep DEF Crash
<1>4. ASSUME NEW t \in Sessions, NEW c \in Codes, ReplaceCode(t, c) PROVE TypeInv'
  <2>1. DriveOK'
    BY <1>0, <1>4 DEF ReplaceCode, DriveOK, directory, outputs
  <2> QED BY <1>4, <2>1, WorldTypeInv DEF ReplaceCode
<1>5. ASSUME NEW v \in Sources, ReplaceSource(v) PROVE TypeInv'
  <2>1. DriveOK'
    BY <1>0, <1>5 DEF ReplaceSource, DriveOK, directory, outputs
  <2> QED BY <1>5, <2>1, WorldTypeInv DEF ReplaceSource
<1>6. ASSUME NEW j \in Shards, DriveFault(j) PROVE TypeInv'
  <2>1. payload' \in [Shards -> Payloads \cup {None, Garbled}]
    BY <1>0, <1>6 DEF DriveFault, DriveOK
  <2>2. sidecar' \in [Shards -> Payloads \cup {None}]
    BY <1>0, <1>6 DEF DriveFault, DriveOK
  <2>3. faults' \in 0 .. MaxFaults
    BY <1>0, <1>6, BoundsAssumption DEF DriveFault, DriveOK
  <2>4. DriveOK'
    BY <1>0, <1>6, <2>1, <2>2, <2>3 DEF DriveFault, DriveOK, outputs
  <2> QED BY <1>6, <2>4, WorldTypeInv DEF DriveFault
<1>7. CASE UNCHANGED vars
  BY <1>0, <1>7, DriveFrame, WorldTypeInv DEF vars
<1> QED BY <1>1, <1>2, <1>3, <1>4, <1>5, <1>6, <1>7 DEF Next

\* Types: a session never leaves the shards of its run, a merge never the indices of
\* its source, however sessions, crashes, edits and faults interleave.
THEOREM TypeCorrect == Spec => []TypeOK
<1>1. TypeInv => TypeOK
  BY DEF TypeInv
<1> QED BY InitTypeInv, NextTypeInv, <1>1, PTL DEF Spec

----------------------------------------------------------------------------
(* One writer.  The operator starts one compression at a time, so the      *)
(* shard that a session makes stays unsealed until that session seals it.  *)

Working(s) ==
    /\ pc[s] # "idle" /\ job[s].phase = "run" => job[s].goal = "compress"
    /\ pc[s] \in Making => job[s].phase = "run"
    /\ pc[s] \in Merging => job[s].phase = "inspect" /\ job[s].goal = "compress"
    /\ pc[s] \in {"teach", "copy", "seal"} => sidecar[k[s]] = None
    /\ pc[s] \notin Merging => parts[s] = <<>> /\ DOMAIN rows[s] = {}
    /\ pc[s] \in Merging => Len(parts[s]) = k[s]

WriterInv ==
    /\ \A s, t \in Sessions : Compressing(s) /\ Compressing(t) => s = t
    /\ \A s \in Sessions : Working(s)

\* What a step of a session does to that session, whatever else it does.
LEMMA StepOnly ==
  ASSUME TypeInv, NEW t \in Sessions, SessionStep(t) \/ Crash(t)
  PROVE  /\ Only(t) /\ pc[t] # "idle"
         /\ pc'[t] # "idle" => job'[t].goal = job[t].goal
<1>0. SessionsOK /\ DriveOK
  BY Here
<1>1. CASE End(t)
  <2>1. pc[t] # "idle"
    BY <1>1
       DEF SessionStep, Crash, LoadSource, Select, SelectFails, CheckIdentity, ClaimIdentity,
           ScanSealed, ScanOpen, ScanRejected, Teach, TeachFails, CopyPayload, CopySidecar,
           Confirm, ConfirmFails, FinishRun, FinishInspect, ReadShard, ReadShardFails,
           WriteMerged, WriteSeal, WriteSummary
  <2> QED BY <1>0, <1>1, <2>1, EndOnly
<1>2. CASE LoadSource(t) \/ Select(t) \/ FinishRun(t)
  <2>1. pc[t] # "idle" /\ job[t] \in Jobs
    BY <1>0, <1>2 DEF LoadSource, Select, FinishRun, SessionsOK
  <2>2. Only(t)
    BY <1>0, <1>2 DEF LoadSource, Select, FinishRun, Goto, Only, SessionsOK
  <2>3. job'[t].goal = job[t].goal
    BY <1>0, <1>2, <2>1 DEF LoadSource, Select, FinishRun, SessionsOK, Jobs
  <2> QED BY <2>1, <2>2, <2>3
<1>3. CASE CheckIdentity(t) /\ ~End(t)
  <2>1. pc[t] # "idle" /\ job[t] \in Jobs
    BY <1>0, <1>3 DEF CheckIdentity, SessionsOK
  <2>2. Only(t)
    BY <1>0, <1>3 DEF CheckIdentity, Goto, Only, SessionsOK
  <2>3. job'[t].goal = job[t].goal
    BY <1>0, <1>3, <2>1 DEF CheckIdentity, SessionsOK, Jobs
  <2> QED BY <2>1, <2>2, <2>3
<1>4. CASE Teach(t)
  <2>1. pc[t] = "teach" /\ job' = job
    BY <1>4 DEF Teach
  <2>2. local' = [local EXCEPT ![t] = local'[t]]
    BY <1>4, <2>1, TeachType
  <2> QED BY <1>0, <1>4, <2>1, <2>2 DEF Teach, Goto, Only, SessionsOK
<1>5. CASE ScanSealed(t)
  <2>1. tally' = [tally EXCEPT ![t] = tally'[t]]
    BY <1>0, <1>5 DEF ScanSealed, SessionsOK
  <2> QED BY <1>0, <1>5, <2>1 DEF ScanSealed, Only, SessionsOK
<1>6. CASE ReadShard(t)
  BY <1>6, ReadShardEffect
<1>7. CASE ClaimIdentity(t) \/ ScanOpen(t) \/ CopyPayload(t) \/ CopySidecar(t)
  BY <1>0, <1>7 DEF ClaimIdentity, ScanOpen, CopyPayload, CopySidecar, Goto, Only, SessionsOK
<1>8. CASE Confirm(t) \/ (FinishInspect(t) /\ ~End(t)) \/ (WriteMerged(t) /\ ~End(t))
           \/ WriteSeal(t)
  BY <1>0, <1>8 DEF Confirm, FinishInspect, WriteMerged, WriteSeal, Goto, Only, SessionsOK
<1> QED BY <1>1, <1>2, <1>3, <1>4, <1>5, <1>6, <1>7, <1>8
        DEF SessionStep, Crash, SelectFails, ScanRejected, TeachFails, ConfirmFails,
            ReadShardFails, WriteSummary, Raise

\* A step of session t that seals nothing and makes no other session compress.
LEMMA WriterFrame ==
  ASSUME TypeInv, WriterInv, NEW t \in Sessions, Only(t),
         \A j \in Shards : sidecar[j] = None => sidecar'[j] = None,
         Compressing(t)' => Compressing(t), Working(t)'
  PROVE  WriterInv'
<1>0. SessionsOK
  BY Here
<1>1. ASSUME NEW s \in Sessions, s # t PROVE Working(s)' /\ Compressing(s)' = Compressing(s)
  <2>1. /\ pc'[s] = pc[s] /\ job'[s] = job[s] /\ k'[s] = k[s] /\ Working(s)
        /\ parts'[s] = parts[s] /\ rows'[s] = rows[s]
    BY <1>0, <1>1 DEF WriterInv, Only, SessionsOK
  <2>2. pc[s] \in {"teach", "copy", "seal"} => sidecar'[k[s]] = None
    BY <2>1, AtShard DEF Working, Making
  <2> QED BY <2>1, <2>2 DEF Working, Compressing
<1>2. ASSUME NEW s \in Sessions PROVE Working(s)' /\ (Compressing(s)' => Compressing(s))
  BY <1>1
<1>3. \A s, u \in Sessions : Compressing(s)' /\ Compressing(u)' => s = u
  BY <1>2 DEF WriterInv
<1> HIDE <1>1
<1> QED BY <1>2, <1>3 DEF WriterInv

LEMMA EndWriter ==
  ASSUME TypeInv, WriterInv, NEW t \in Sessions, End(t),
         \A j \in Shards : sidecar[j] = None => sidecar'[j] = None
  PROVE  WriterInv'
<1>1. Only(t) /\ pc'[t] = "idle" /\ parts'[t] = <<>> /\ DOMAIN rows'[t] = {}
  BY Here, EndOnly DEF NoRows
<1>2. Working(t)' /\ ~Compressing(t)'
  BY <1>1 DEF Working, Compressing, Making, Merging
<1> QED BY <1>1, <1>2, WriterFrame

LEMMA LaunchWriter ==
  ASSUME TypeInv, WriterInv, NEW t \in Sessions, NEW goal \in Goals,
         NEW c \in Configs, Launch(t, goal, c)
  PROVE  WriterInv'
<1>0. SessionsOK
  BY Here
<1>1. /\ pc[t] = "idle" /\ pc'[t] = "load" /\ sidecar' = sidecar
      /\ UNCHANGED <<k, tally, local, parts, rows>>
      /\ job'[t].goal = goal /\ (job'[t].phase = "run" => goal = "compress")
      /\ \A s \in Sessions : s # t => pc'[s] = pc[s] /\ job'[s] = job[s]
  BY <1>0 DEF SessionsOK, Launch, Goto, directory, Goals
<1>2. Working(t)' /\ \A s \in Sessions : s # t => Working(s)'
  BY <1>1 DEF WriterInv, Working, Making, Merging
<1>3. \A s \in Sessions : s # t => Compressing(s)' = Compressing(s)
  BY <1>1 DEF Compressing
<1>4. Compressing(t)' => \A s \in Sessions : ~Compressing(s)
  BY <1>1 DEF Compressing, Launch
<1>5. \A s, u \in Sessions : Compressing(s)' /\ Compressing(u)' => s = u
  BY <1>3, <1>4 DEF WriterInv
<1> QED BY <1>2, <1>5 DEF WriterInv

\* A session that works on a shard is the one compressing session.
LEMMA WorkerCompresses ==
  ASSUME WriterInv, NEW s \in Sessions, pc[s] \in Making \cup Merging
  PROVE  Compressing(s)
BY DEF WriterInv, Working, Compressing, Making, Merging

LEMMA SidecarKept ==
  ASSUME NEW t \in Sessions, SessionStep(t), ~CopySidecar(t)
  PROVE  sidecar' = sidecar
BY DEF SessionStep, LoadSource, Select, SelectFails, CheckIdentity, ClaimIdentity,
       ScanSealed, ScanOpen, ScanRejected, Teach, TeachFails, CopyPayload,
       Confirm, ConfirmFails, FinishRun, FinishInspect, ReadShard, ReadShardFails,
       WriteMerged, WriteSeal, WriteSummary, directory, Raise

LEMMA SessionStepWriter ==
  ASSUME TypeInv, WriterInv, NEW t \in Sessions, SessionStep(t)
  PROVE  WriterInv'
<1>0. SessionsOK /\ Working(t) /\ pc[t] # "idle" /\ job[t] \in Jobs
  BY Here, StepOnly DEF WriterInv, SessionsOK
<1>a. Only(t) /\ (Compressing(t)' => Compressing(t))
  BY <1>0, StepOnly DEF Compressing
<1>1. CASE End(t)
  <2>1. ~CopySidecar(t)
    BY <1>0, <1>1, EndOnly DEF CopySidecar, Goto, SessionsOK
  <2>2. sidecar' = sidecar
    BY <2>1, SidecarKept
  <2> QED BY <1>1, <2>2, EndWriter
<1>2. CASE LoadSource(t) \/ Select(t) \/ FinishRun(t)
  <2>1. /\ sidecar' = sidecar /\ pc[t] \in {"load", "select", "scan"}
        /\ pc'[t] \in {"select", "identify"}
        /\ parts'[t] = parts[t] /\ rows'[t] = rows[t]
        /\ job'[t].goal = job[t].goal
        /\ job'[t].phase = "run" => job[t].phase = "run"
    BY <1>0, <1>2 DEF SessionsOK, LoadSource, Select, FinishRun, Goto, directory, Jobs
  <2>2. Working(t)'
    BY <1>0, <2>1 DEF Working, Making, Merging
  <2> QED BY <1>a, <2>1, <2>2, WriterFrame
<1>3. CASE CheckIdentity(t) /\ ~End(t)
  <2>1. /\ sidecar' = sidecar /\ pc[t] = "identify" /\ pc'[t] \in {"claim", "scan"}
        /\ parts'[t] = parts[t] /\ rows'[t] = rows[t]
    BY <1>0, <1>3 DEF SessionsOK, CheckIdentity, Goto, directory
  <2>2. job'[t].goal = job[t].goal /\ job'[t].phase = job[t].phase
    BY <1>0, <1>3 DEF SessionsOK, CheckIdentity, Jobs
  <2>3. Working(t)'
    BY <1>0, <2>1, <2>2 DEF Working, Making, Merging
  <2> QED BY <1>a, <2>1, <2>3, WriterFrame
<1>4. CASE ClaimIdentity(t) \/ ScanSealed(t) \/ Confirm(t)
  <2>1. /\ sidecar' = sidecar /\ job' = job /\ pc[t] \in {"claim", "scan", "confirm"}
        /\ pc'[t] = "scan" /\ parts' = parts /\ rows' = rows
    BY <1>0, <1>4 DEF SessionsOK, ClaimIdentity, ScanSealed, Confirm, Goto, directory
  <2>2. Working(t)'
    BY <1>0, <2>1 DEF Working, Making, Merging
  <2> QED BY <1>a, <2>1, <2>2, WriterFrame
<1>5. CASE ScanOpen(t)
  <2>1. /\ sidecar' = sidecar /\ pc[t] = "scan" /\ sidecar[k[t]] = None
        /\ job' = job /\ parts' = parts /\ rows' = rows
        /\ \/ pc'[t] = "scan"
           \/ pc'[t] = "teach" /\ k'[t] = k[t] /\ job[t].phase = "run"
    BY <1>0, <1>5 DEF SessionsOK, ScanOpen, Open, Goto, directory
  <2>2. Working(t)'
    BY <1>0, <2>1 DEF Working, Making, Merging
  <2> QED BY <1>a, <2>1, <2>2, WriterFrame
<1>6. CASE Teach(t) \/ CopyPayload(t)
  <2>1. /\ UNCHANGED <<sidecar, job, k, parts, rows>> /\ pc[t] \in {"teach", "copy"}
        /\ pc'[t] \in {"copy", "seal"}
    BY <1>0, <1>6 DEF SessionsOK, Teach, CopyPayload, Goto, directory
  <2>2. Working(t)'
    BY <1>0, <2>1 DEF Working, Making, Merging
  <2> QED BY <1>a, <2>1, <2>2, WriterFrame
<1>7. CASE CopySidecar(t)
  <2>1. /\ UNCHANGED <<job, k, parts, rows>> /\ pc[t] = "seal" /\ pc'[t] = "confirm"
        /\ \A s \in Sessions : s # t => pc'[s] = pc[s]
    BY <1>0, <1>7 DEF SessionsOK, CopySidecar, Goto
  <2>2. Compressing(t)
    BY <2>1, WorkerCompresses DEF Making
  <2>3. ASSUME NEW s \in Sessions, s # t PROVE pc[s] \notin {"teach", "copy", "seal"}
    BY <2>2, <2>3, WorkerCompresses DEF WriterInv, Making
  <2>4. \A s \in Sessions : Working(s)' /\ Compressing(s)' = Compressing(s)
    BY <2>1, <2>3 DEF WriterInv, Working, Compressing, Making, Merging
  <2> HIDE <2>1
  <2> QED BY <2>4 DEF WriterInv
<1>8. CASE FinishInspect(t) /\ ~End(t)
  <2>1. /\ sidecar' = sidecar /\ pc[t] = "scan" /\ pc'[t] = "merge" /\ k'[t] = 0
        /\ job' = job /\ parts' = parts /\ job[t].phase = "inspect"
        /\ job[t].goal = "compress"
    BY <1>0, <1>8 DEF SessionsOK, FinishInspect, Goto, directory
  <2>2. Working(t)'
    BY <1>0, <2>1 DEF Working, Making, Merging
  <2> QED BY <1>a, <2>1, <2>2, WriterFrame
<1>9. CASE ReadShard(t)
  <2>1. /\ sidecar' = sidecar /\ pc[t] = "merge" /\ pc'[t] = "merge" /\ k'[t] = k[t] + 1
        /\ job'[t] = job[t] /\ parts'[t] = Append(parts[t], payload[k[t]])
        /\ payload[k[t]] \in Payloads
    BY <1>9, ReadShardEffect DEF ReadShard, directory
  <2>2. Len(parts'[t]) = k'[t]
    <3>1. parts[t] \in Seq(Payloads) /\ Len(parts[t]) = k[t]
      BY <1>0, <2>1 DEF SessionsOK, Working, Merging
    <3> QED BY <2>1, <3>1, AppendProperties
  <2>3. Working(t)'
    BY <1>0, <2>1, <2>2 DEF Working, Making, Merging
  <2> QED BY <1>a, <2>1, <2>3, WriterFrame
<1>10. CASE (WriteMerged(t) /\ ~End(t)) \/ WriteSeal(t)
  <2>1. /\ UNCHANGED <<sidecar, job, k, parts, rows>> /\ pc[t] \in {"merge", "sum"}
        /\ pc'[t] \in {"sum", "summary"}
    BY <1>0, <1>10 DEF SessionsOK, WriteMerged, WriteSeal, Goto, directory
  <2>2. Working(t)'
    BY <1>0, <2>1 DEF Working, Making, Merging
  <2> QED BY <1>a, <2>1, <2>2, WriterFrame
<1> QED BY <1>1, <1>2, <1>3, <1>4, <1>5, <1>6, <1>7, <1>8, <1>9, <1>10
        DEF SessionStep, SelectFails, ScanRejected, TeachFails, ConfirmFails,
            ReadShardFails, WriteSummary, Raise

LEMMA NextWriter == TypeInv /\ WriterInv /\ [Next]_vars => WriterInv'
<1> SUFFICES ASSUME TypeInv, WriterInv, [Next]_vars PROVE WriterInv'
  OBVIOUS
<1>1. ASSUME NEW t \in Sessions, NEW goal \in Goals, NEW c \in Configs, Launch(t, goal, c)
      PROVE  WriterInv'
  BY <1>1, LaunchWriter
<1>2. ASSUME NEW t \in Sessions, SessionStep(t) PROVE WriterInv'
  BY <1>2, SessionStepWriter
<1>3. ASSUME NEW t \in Sessions, Crash(t) PROVE WriterInv'
  BY <1>3, EndWriter DEF Crash, directory
<1>4. CASE UNCHANGED <<process, sidecar>>
  BY <1>4 DEF process, WriterInv, Working, Compressing
<1>5. ASSUME NEW j \in Shards, DriveFault(j) PROVE WriterInv'
  <2>1. \A i \in Shards : sidecar[i] = None => sidecar'[i] = None
    BY <1>5, Here DEF TypeInv, TypeOK, DriveOK, DriveFault
  <2>2. ASSUME NEW s \in Sessions, pc[s] \in {"teach", "copy", "seal"}
        PROVE  sidecar'[k[s]] = None
    BY <2>1, <2>2, AtShard DEF WriterInv, Working, Making
  <2>3. UNCHANGED <<pc, job, k, parts, rows>>
    BY <1>5 DEF DriveFault, process
  <2>4. \A s \in Sessions : Working(s)' /\ Compressing(s)' = Compressing(s)
    BY <2>2, <2>3 DEF WriterInv, Working, Compressing
  <2> HIDE <2>2, <2>3
  <2> QED BY <2>4 DEF WriterInv
<1> QED BY <1>1, <1>2, <1>3, <1>4, <1>5
        DEF Next, ReplaceCode, ReplaceSource, vars, directory

LEMMA InitWriter == Init => WriterInv
BY DEF Init, WriterInv, Working, Compressing, Making, Merging, NoRows

----------------------------------------------------------------------------
(* The refinement of ShardLedger.  What an inspection has counted complete *)
(* and what a merge has read is, as long as the Drive lost nothing, sealed *)
(* and as it was sealed.                                                   *)

\* The steps that touch what the files of the shards say, or what was merged.
LEMMA StepKinds ==
  ASSUME [Next]_vars
  PROVE  \/ UNCHANGED <<payload, sidecar, merged, faults>>
         \/ \E t \in Sessions : CopyPayload(t)
         \/ \E t \in Sessions : CopySidecar(t)
         \/ \E t \in Sessions : WriteMerged(t)
         \/ \E j \in Shards : DriveFault(j)
<1>1. ASSUME NEW t \in Sessions, NEW goal \in Goals, NEW c \in Configs, Launch(t, goal, c)
      PROVE  UNCHANGED <<payload, sidecar, merged, faults>>
  BY <1>1 DEF Launch, directory, outputs, world
<1>2. ASSUME NEW t \in Sessions, SessionStep(t),
             ~CopyPayload(t), ~CopySidecar(t), ~WriteMerged(t)
      PROVE  UNCHANGED <<payload, sidecar, merged, faults>>
  BY <1>2 DEF SessionStep, LoadSource, Select, SelectFails, CheckIdentity, ClaimIdentity,
              ScanSealed, ScanOpen, ScanRejected, Teach, TeachFails, Confirm, ConfirmFails,
              FinishRun, FinishInspect, ReadShard, ReadShardFails, WriteSeal, WriteSummary,
              Raise, directory, outputs, world
<1>3. ASSUME NEW t \in Sessions, Crash(t)
      PROVE  UNCHANGED <<payload, sidecar, merged, faults>>
  BY <1>3 DEF Crash, directory, outputs
<1>4. ASSUME NEW t \in Sessions, NEW c \in Codes, ReplaceCode(t, c)
      PROVE  UNCHANGED <<payload, sidecar, merged, faults>>
  BY <1>4 DEF ReplaceCode, directory, outputs
<1>5. ASSUME NEW v \in Sources, ReplaceSource(v)
      PROVE  UNCHANGED <<payload, sidecar, merged, faults>>
  BY <1>5 DEF ReplaceSource, directory, outputs
<1>6. CASE UNCHANGED vars
  BY <1>6 DEF vars, directory, outputs, world
<1> QED BY <1>1, <1>2, <1>3, <1>4, <1>5, <1>6 DEF Next

\* While the Drive loses nothing, a sealed shard stays as it is.
LEMMA StaysSealed ==
  ASSUME TypeInv, WriterInv, [Next]_vars, faults' = 0
  PROVE  /\ faults = 0
         /\ \A j \in Shards : Sealed(j) => Sealed(j)' /\ payload'[j] = payload[j]
<1> DriveOK
  BY DEF TypeInv, TypeOK
<1>1. CASE UNCHANGED <<payload, sidecar, merged, faults>>
  BY <1>1 DEF Sealed
<1>2. ASSUME NEW t \in Sessions, CopyPayload(t)
      PROVE  /\ faults = 0
             /\ \A j \in Shards : Sealed(j) => Sealed(j)' /\ payload'[j] = payload[j]
  <2>1. sidecar[k[t]] = None /\ UNCHANGED <<sidecar, faults>>
    BY <1>2 DEF WriterInv, Working, CopyPayload, world
  <2>2. \A j \in Shards : j # k[t] => payload'[j] = payload[j]
    BY <1>2 DEF DriveOK, CopyPayload
  <2> QED BY <2>1, <2>2 DEF Sealed
<1>3. ASSUME NEW t \in Sessions, CopySidecar(t)
      PROVE  /\ faults = 0
             /\ \A j \in Shards : Sealed(j) => Sealed(j)' /\ payload'[j] = payload[j]
  <2>1. sidecar[k[t]] = None /\ UNCHANGED <<payload, faults>>
    BY <1>3 DEF WriterInv, Working, CopySidecar, world
  <2>2. \A j \in Shards : j # k[t] => sidecar'[j] = sidecar[j]
    BY <1>3 DEF DriveOK, CopySidecar
  <2> QED BY <2>1, <2>2 DEF Sealed
<1>4. ASSUME NEW t \in Sessions, WriteMerged(t)
      PROVE  UNCHANGED <<payload, sidecar, faults>>
  BY <1>4 DEF WriteMerged, directory, world
<1>5. ASSUME NEW i \in Shards, DriveFault(i) PROVE FALSE
  BY <1>5, BoundsAssumption DEF DriveOK, DriveFault
<1> QED BY <1>1, <1>2, <1>3, <1>4, <1>5, StepKinds DEF Sealed

Snapshot(s) ==
    faults = 0 =>
    /\ pc[s] = "scan" /\ job[s].phase = "inspect" /\ tally[s] = k[s] =>
          \A j \in 0 .. k[s] - 1 : Sealed(j)
    /\ pc[s] = "merge" => /\ \A j \in 0 .. Total(s) - 1 : Sealed(j)
                          /\ \A j \in 1 .. k[s] : parts[s][j] = payload[j - 1]

SnapshotInv == \A s \in Sessions : Snapshot(s)

\* The shards up to the one at hand are shards.
LEMMA UpToHere ==
  ASSUME TypeInv, NEW s \in Sessions, pc[s] \in {"scan", "merge"}
  PROVE  /\ k[s] \in Nat /\ Total(s) \in Nat /\ k[s] <= Total(s)
         /\ \A j \in 0 .. Total(s) - 1 : j \in Shards
         /\ \A j \in 0 .. k[s] - 1 : j \in Shards
         /\ \A j \in 1 .. k[s] : j - 1 \in Shards /\ j - 1 \in 0 .. Total(s) - 1
<1>1. /\ k[s] \in Nat /\ Total(s) \in 0 .. MaxRecords /\ MaxRecords \in Nat
      /\ k[s] <= Total(s)
  BY AtShard DEF Prepared
<1> QED BY <1>1 DEF Shards

LEMMA SnapshotFrame ==
  ASSUME TypeInv, WriterInv, [Next]_vars, NEW s \in Sessions, Snapshot(s),
         pc'[s] = pc[s], job'[s] = job[s], k'[s] = k[s], tally'[s] = tally[s],
         parts'[s] = parts[s]
  PROVE  Snapshot(s)'
<1>1. faults' = 0 =>
        /\ faults = 0
        /\ \A j \in Shards : Sealed(j) => Sealed(j)' /\ payload'[j] = payload[j]
  BY StaysSealed
<1>2. Total(s)' = Total(s)
  BY DEF Total, Wanted
<1>3. ASSUME faults' = 0, pc[s] = "scan", job[s].phase = "inspect", tally[s] = k[s],
             NEW j \in 0 .. k[s] - 1
      PROVE  Sealed(j)'
  BY <1>1, <1>3, UpToHere DEF Snapshot
<1>4. ASSUME faults' = 0, pc[s] = "merge", NEW j \in 0 .. Total(s) - 1
      PROVE  Sealed(j)'
  BY <1>1, <1>4, UpToHere DEF Snapshot
<1>5. ASSUME faults' = 0, pc[s] = "merge", NEW j \in 1 .. k[s]
      PROVE  parts[s][j] = payload'[j - 1]
  BY <1>1, <1>5, UpToHere DEF Snapshot
<1> QED BY <1>2, <1>3, <1>4, <1>5 DEF Snapshot, Sealed

LEMMA ScanSealedSnapshot ==
  ASSUME TypeInv, NEW t \in Sessions, Snapshot(t), ScanSealed(t)
  PROVE  Snapshot(t)'
<1>1. pc[t] = "scan" /\ k[t] < Total(t) /\ Sealed(k[t])
  BY DEF ScanSealed, Accepts
<1>2. /\ SessionsOK /\ k[t] \in Nat /\ tally[t] \in Nat /\ Prepared(t)
  BY <1>1, AtShard DEF OkAt
<1>3. /\ pc'[t] = "scan" /\ k'[t] = k[t] + 1 /\ job' = job
      /\ UNCHANGED <<payload, sidecar, faults>>
  BY <1>1, <1>2 DEF ScanSealed, SessionsOK, directory, world
<1>4. job[t].phase = "inspect" => tally'[t] = tally[t] + 1
  BY <1>2 DEF ScanSealed, SessionsOK
<1> SUFFICES ASSUME faults = 0, job[t].phase = "inspect", tally'[t] = k'[t],
                    NEW j \in 0 .. k[t]
             PROVE  Sealed(j)
  BY <1>2, <1>3 DEF Snapshot, Sealed
<1>5. tally[t] = k[t]
  BY <1>2, <1>3, <1>4
<1>6. j = k[t] \/ j \in 0 .. k[t] - 1
  BY <1>2
<1> QED BY <1>1, <1>5, <1>6 DEF Snapshot

LEMMA ReadShardSnapshot ==
  ASSUME TypeInv, WriterInv, NEW t \in Sessions, Snapshot(t), ReadShard(t)
  PROVE  Snapshot(t)'
<1>1. /\ pc[t] = "merge" /\ k[t] < Total(t) /\ k[t] \in Shards /\ k[t] \in Nat
      /\ payload[k[t]] \in Payloads /\ pc'[t] = "merge" /\ k'[t] = k[t] + 1
      /\ job'[t] = job[t] /\ parts'[t] = Append(parts[t], payload[k[t]])
  BY ReadShardEffect, UpToHere
<1>2. parts[t] \in Seq(Payloads) /\ Len(parts[t]) = k[t]
  BY <1>1, Here DEF WriterInv, Working, Merging, OkAt
<1>3. /\ parts'[t][k[t] + 1] = payload[k[t]]
      /\ \A j \in 1 .. k[t] : parts'[t][j] = parts[t][j]
  BY <1>1, <1>2, AppendProperties
<1>4. UNCHANGED <<payload, sidecar, faults>> /\ Total(t)' = Total(t)
  BY <1>1 DEF ReadShard, directory, world, Total, Wanted
<1> SUFFICES ASSUME faults = 0, NEW j \in 1 .. k[t] + 1
             PROVE  parts'[t][j] = payload[j - 1]
  BY <1>1, <1>4 DEF Snapshot, Sealed
<1>a. k[t] \in Nat /\ faults = 0 /\ pc[t] = "merge"
  BY <1>1
<1>b. (j = k[t] + 1 /\ j - 1 = k[t]) \/ j \in 1 .. k[t]
  BY <1>a
<1>5. CASE j = k[t] + 1 /\ j - 1 = k[t]
  BY <1>3, <1>5
<1>6. CASE j \in 1 .. k[t]
  <2>1. parts[t][j] = payload[j - 1]
    BY <1>a, <1>6 DEF Snapshot
  <2> QED BY <1>3, <1>6, <2>1
<1> QED BY <1>b, <1>5, <1>6

LEMMA FinishInspectSnapshot ==
  ASSUME TypeInv, NEW t \in Sessions, Snapshot(t), FinishInspect(t), ~End(t)
  PROVE  Snapshot(t)'
<1>1. /\ pc[t] = "scan" /\ job[t].phase = "inspect" /\ k[t] = Total(t)
      /\ UNCHANGED <<payload, sidecar, faults>>
  BY DEF FinishInspect, directory, world
<1>2. /\ tally[t] = Total(t) /\ job' = job
      /\ Goto(t, "merge") /\ k' = [k EXCEPT ![t] = 0]
  BY DEF FinishInspect
<1>3. SessionsOK
  BY Here
<1>4. pc'[t] = "merge" /\ k'[t] = 0
  BY <1>2, <1>3 DEF Goto, SessionsOK
<1>5. Total(t)' = Total(t)
  BY <1>2 DEF Total, Wanted
<1>6. faults = 0 => \A j \in 0 .. Total(t) - 1 : Sealed(j)
  BY <1>1, <1>2 DEF Snapshot
<1>7. \A j \in 0 .. Total(t) - 1 : Sealed(j)' <=> Sealed(j)
  BY <1>1 DEF Sealed
<1> QED BY <1>1, <1>4, <1>5, <1>6, <1>7 DEF Snapshot

LEMMA NextSnapshot ==
  TypeInv /\ WriterInv /\ SnapshotInv /\ [Next]_vars => SnapshotInv'
<1> SUFFICES ASSUME TypeInv, WriterInv, SnapshotInv, [Next]_vars, NEW s \in Sessions
             PROVE  Snapshot(s)'
  BY DEF SnapshotInv
<1>0. SessionsOK /\ Prepared(s) /\ OkAt(s) /\ Snapshot(s)
  BY Here DEF SnapshotInv
\* Another session's step, or the world's.
<1>1. CASE /\ pc'[s] = pc[s] /\ job'[s] = job[s] /\ k'[s] = k[s]
           /\ tally'[s] = tally[s] /\ parts'[s] = parts[s]
  BY <1>0, <1>1, SnapshotFrame
\* A step to a place where nothing has been inspected.
<1>2. CASE pc'[s] \notin {"scan", "merge"}
  BY <1>2 DEF Snapshot
<1>3. CASE pc'[s] = "scan" /\ k'[s] = 0
  BY <1>3 DEF Snapshot
<1>4. ASSUME NEW t \in Sessions, NEW goal \in Goals, NEW c \in Configs, Launch(t, goal, c)
      PROVE  Snapshot(s)'
  <2>1. CASE s = t
    BY <1>0, <1>2, <1>4, <2>1 DEF SessionsOK, Launch, Goto
  <2>2. CASE s # t
    BY <1>0, <1>1, <1>4, <2>2 DEF SessionsOK, Launch, Goto
  <2> QED BY <2>1, <2>2
<1>5. ASSUME NEW t \in Sessions, t # s, SessionStep(t) \/ Crash(t)
      PROVE  Snapshot(s)'
  <2>1. Only(t)
    BY <1>5, StepOnly
  <2> QED BY <1>0, <1>1, <1>5, <2>1 DEF Only, SessionsOK
<1>6. ASSUME SessionStep(s) \/ Crash(s) PROVE Snapshot(s)'
  <2>1. CASE End(s)
    BY <1>0, <1>2, <2>1, EndOnly
  <2>2. CASE LoadSource(s) \/ Select(s) \/ FinishRun(s)
    BY <1>0, <1>2, <2>2 DEF SessionsOK, LoadSource, Select, FinishRun, Goto
  <2>3. CASE Teach(s) \/ CopyPayload(s) \/ CopySidecar(s) \/ WriteSeal(s)
    BY <1>0, <1>2, <2>3 DEF SessionsOK, Teach, CopyPayload, CopySidecar, WriteSeal, Goto
  <2>4. CASE CheckIdentity(s) \/ ClaimIdentity(s)
    BY <1>0, <1>2, <1>3, <2>1, <2>4
       DEF SessionsOK, Prepared, Before, CheckIdentity, ClaimIdentity, Goto
  <2>5. CASE ScanSealed(s) \/ ReadShard(s)
    BY <1>0, <2>5, ScanSealedSnapshot, ReadShardSnapshot
  <2>6. CASE ScanOpen(s)
    <3>1. /\ pc[s] = "scan" /\ tally'[s] = tally[s] /\ job' = job
          /\ \/ pc'[s] = "teach"
             \/ pc'[s] = "scan" /\ k'[s] = k[s] + 1
      BY <1>0, <2>6 DEF SessionsOK, ScanOpen, Goto
    <3>2. CASE pc'[s] = "scan" /\ k'[s] = k[s] + 1
      <4>1. tally[s] \in Nat /\ k[s] \in Nat /\ tally[s] <= k[s]
        BY <1>0, <3>1 DEF OkAt, Prepared
      <4>2. tally'[s] # k'[s] /\ pc'[s] # "merge"
        BY <3>1, <3>2, <4>1
      <4> QED BY <4>2 DEF Snapshot
    <3> QED BY <1>2, <3>1, <3>2
  <2>7. CASE Confirm(s)
    <3>1. pc'[s] = "scan" /\ job' = job /\ job[s].phase = "run"
      BY <1>0, <2>7 DEF SessionsOK, Confirm, Goto, WriterInv, Working, Making
    <3> QED BY <3>1 DEF Snapshot
  <2>8. CASE FinishInspect(s) \/ WriteMerged(s)
    <3>1. CASE WriteMerged(s)
      BY <1>0, <1>2, <2>1, <3>1 DEF SessionsOK, WriteMerged, Goto
    <3>2. CASE FinishInspect(s)
      BY <1>0, <2>1, <3>2, FinishInspectSnapshot
    <3> QED BY <2>8, <3>1, <3>2
  <2> QED BY <1>6, <2>1, <2>2, <2>3, <2>4, <2>5, <2>6, <2>7, <2>8
          DEF SessionStep, Crash, SelectFails, ScanRejected, TeachFails, ConfirmFails,
              ReadShardFails, WriteSummary, Raise
<1>7. CASE UNCHANGED process
  BY <1>1, <1>7 DEF process
<1> QED BY <1>4, <1>5, <1>6, <1>7 DEF Next, ReplaceCode, ReplaceSource, DriveFault, vars

LedgerInv == TypeInv /\ WriterInv /\ SnapshotInv

LEMMA InitLedger == Init => Ledger!Init
BY DEF Init, Ledger!Init, Sealed

\* A step that leaves files and corpus alone is a stutter of the abstract directory.
LEMMA StutterLedger ==
  ASSUME UNCHANGED <<payload, sidecar, merged, faults>>
  PROVE  UNCHANGED Ledger!vars
BY DEF Ledger!vars, Sealed

\* The payload of an open shard is copied: nothing is sealed yet.
LEMMA CopyPayloadLedger ==
  ASSUME TypeInv, WriterInv, NEW t \in Sessions, CopyPayload(t)
  PROVE  UNCHANGED Ledger!vars
<1>1. /\ k[t] \in Shards /\ sidecar[k[t]] = None
      /\ payload \in [Shards -> Payloads \cup {None, Garbled}]
  BY AtShard DEF DriveOK, WriterInv, Working, CopyPayload, Making
<1>2. UNCHANGED <<sidecar, merged, faults>>
  BY DEF CopyPayload, outputs, world
<1>3. \A j \in Shards : j # k[t] => payload'[j] = payload[j]
  BY <1>1 DEF CopyPayload
<1>4. \A j \in Shards : Sealed(j)' <=> Sealed(j)
  BY <1>1, <1>2, <1>3 DEF Sealed
<1>5. \A j \in Shards : Sealed(j) => payload'[j] = payload[j]
  BY <1>1, <1>3 DEF Sealed
<1> QED BY <1>2, <1>4, <1>5 DEF Ledger!vars

\* The sidecar of an open shard is copied: this is the moment it is sealed.
LEMMA CopySidecarLedger ==
  ASSUME TypeInv, WriterInv, NEW t \in Sessions, CopySidecar(t)
  PROVE  \E i \in Shards : Ledger!Seal(i)
<1>1. /\ k[t] \in Shards /\ sidecar[k[t]] = None
      /\ sidecar \in [Shards -> Payloads \cup {None}]
  BY AtShard DEF DriveOK, WriterInv, Working, CopySidecar, Making
<1>2. UNCHANGED <<payload, merged, faults>>
  BY DEF CopySidecar, outputs, world
<1>3. \A j \in Shards : j # k[t] => sidecar'[j] = sidecar[j]
  BY <1>1 DEF CopySidecar
<1>4. \A j \in Shards : j # k[t] => (Sealed(j)' <=> Sealed(j))
  BY <1>1, <1>2, <1>3 DEF Sealed
<1>5. ~Sealed(k[t])
  BY <1>1 DEF Sealed
<1>6. PICK i \in Shards : i = k[t]
  BY <1>1
<1>7. Ledger!Seal(i)
  BY <1>1, <1>2, <1>4, <1>5, <1>6 DEF Ledger!Seal
<1> QED BY <1>7

\* A merge hands over a snapshot, unless the Drive lost something; one without
\* targets hands over nothing.
LEMMA WriteMergedLedger ==
  ASSUME TypeInv, WriterInv, SnapshotInv, NEW t \in Sessions, WriteMerged(t)
  PROVE  Ledger!Next \/ UNCHANGED Ledger!vars
<1>1. /\ pc[t] = "merge" /\ k[t] = Total(t) /\ UNCHANGED <<payload, sidecar, faults>>
  BY DEF WriteMerged, directory, world
<1>2. CASE ~Complete(t)
  BY <1>1, <1>2, StutterLedger DEF WriteMerged
<1>3. CASE Complete(t)
  <2>1. merged' = [config |-> job[t].config, sid |-> job[t].sid, shards |-> parts[t],
                   rows |-> MergedRows(t)]
    BY <1>3 DEF WriteMerged
  <2>2. /\ SessionsOK /\ Prepared(t) /\ OkAt(t) /\ job[t] \in Jobs
        /\ k[t] \in Nat /\ parts[t] \in Seq(Payloads) /\ Len(parts[t]) = k[t]
    BY <1>1, AtShard DEF OkAt, WriterInv, Working, Merging
  <2>3. merged' \in Corpora
    BY <1>1, <2>1, <2>2, MergedRowsType DEF Corpora, Jobs, Prepared
  <2>4. merged' # None /\ merged'.shards = parts[t]
    BY <2>1, <2>3, ContentsAssumption
  <2>5. /\ \A j \in 0 .. k[t] - 1 : j \in Shards
        /\ \A j \in 1 .. k[t] : j - 1 \in Shards /\ j - 1 \in 0 .. k[t] - 1
    BY <1>1, UpToHere
  <2>6. ASSUME faults = 0
        PROVE  /\ \A j \in 0 .. k[t] - 1 : Sealed(j)
               /\ parts[t] = [i \in 1 .. k[t] |-> payload[i - 1]]
    <3>1. /\ \A j \in 0 .. k[t] - 1 : Sealed(j)
          /\ \A j \in 1 .. k[t] : parts[t][j] = payload[j - 1]
      BY <1>1, <2>6 DEF SnapshotInv, Snapshot
    <3>2. parts[t] = [i \in 1 .. k[t] |-> parts[t][i]]
      BY <2>2
    <3> QED BY <3>1, <3>2
  <2>7. ASSUME faults = 0
        PROVE  /\ \A j \in 0 .. k[t] - 1 :
                     [i \in Shards |-> IF Sealed(i) THEN payload[i] ELSE None][j] # None
               /\ parts[t] = [i \in 1 .. k[t] |->
                     [n \in Shards |-> IF Sealed(n) THEN payload[n] ELSE None][i - 1]]
    <3>1. \A j \in 0 .. k[t] - 1 : j \in Shards /\ Sealed(j) /\ payload[j] # None
      BY <2>5, <2>6, <2>7 DEF Sealed
    <3>2. \A i \in 1 .. k[t] : i - 1 \in Shards /\ Sealed(i - 1)
      BY <2>5, <3>1
    <3> QED BY <2>6, <2>7, <3>1, <3>2
  <2>8. CASE k[t] = 0
    <3>1. Ledger!Publish(0)
      BY <1>1, <2>4, <2>7, <2>8 DEF Ledger!Publish, Sealed
    <3> QED BY <3>1 DEF Ledger!Next
  <2>9. CASE k[t] # 0
    <3>1. k[t] - 1 \in Shards /\ k[t] - 1 + 1 = k[t]
      BY <2>2, <2>5, <2>9
    <3>2. Ledger!Publish(k[t] - 1 + 1)
      BY <1>1, <2>4, <2>7, <3>1 DEF Ledger!Publish, Sealed
    <3> QED BY <3>1, <3>2 DEF Ledger!Next
  <2> QED BY <2>8, <2>9
<1> QED BY <1>2, <1>3

\* A fault of the Drive unseals a shard at most.
LEMMA DriveFaultLedger ==
  ASSUME TypeInv, NEW j \in Shards, DriveFault(j)
  PROVE  Ledger!Lose
<1>1. /\ payload \in [Shards -> Payloads \cup {None, Garbled}]
      /\ sidecar \in [Shards -> Payloads \cup {None}] /\ faults \in Nat
  BY BoundsAssumption DEF TypeInv, TypeOK, DriveOK
<1>2. faults' > faults /\ merged' = merged
  BY <1>1 DEF DriveFault, outputs
<1>3. \A i \in Shards : i # j => payload'[i] = payload[i] /\ sidecar'[i] = sidecar[i]
  BY <1>1 DEF DriveFault
<1>4. ~Sealed(j)'
  <2>1. sidecar[j] \in Payloads \cup {None}
    BY <1>1
  <2>2. CASE payload' = [payload EXCEPT ![j] = None]
    BY <1>1, <2>2 DEF Sealed
  <2>3. CASE payload' = [payload EXCEPT ![j] = Garbled] /\ sidecar' = sidecar
    BY <1>1, <2>1, <2>3, ContentsAssumption DEF Sealed
  <2>4. CASE sidecar' = [sidecar EXCEPT ![j] = None] /\ payload' = payload
    BY <1>1, <2>4 DEF Sealed
  <2> QED BY <2>2, <2>3, <2>4 DEF DriveFault
<1>5. ASSUME NEW i \in Shards
      PROVE  (IF Sealed(i) THEN payload[i] ELSE None)' \in
                {IF Sealed(i) THEN payload[i] ELSE None, None}
  BY <1>3, <1>4, <1>5 DEF Sealed
<1> QED BY <1>2, <1>5 DEF Ledger!Lose

\* Every step of a compression is a step of the abstract directory, or none.
LEMMA NextLedger == LedgerInv /\ [Next]_vars => [Ledger!Next]_(Ledger!vars)
<1> SUFFICES ASSUME LedgerInv, [Next]_vars
             PROVE  Ledger!Next \/ UNCHANGED Ledger!vars
  OBVIOUS
<1>1. CASE UNCHANGED <<payload, sidecar, merged, faults>>
  BY <1>1, StutterLedger
<1>2. ASSUME NEW t \in Sessions, CopyPayload(t) PROVE UNCHANGED Ledger!vars
  BY <1>2, CopyPayloadLedger DEF LedgerInv
<1>3. ASSUME NEW t \in Sessions, CopySidecar(t) PROVE Ledger!Next
  BY <1>3, CopySidecarLedger DEF LedgerInv, Ledger!Next
<1>4. ASSUME NEW t \in Sessions, WriteMerged(t) PROVE Ledger!Next \/ UNCHANGED Ledger!vars
  BY <1>4, WriteMergedLedger DEF LedgerInv
<1>5. ASSUME NEW j \in Shards, DriveFault(j) PROVE Ledger!Next
  BY <1>5, DriveFaultLedger DEF LedgerInv, Ledger!Next
<1> QED BY <1>1, <1>2, <1>3, <1>4, <1>5, StepKinds

\* A compression directory implements ShardLedger: a shard once sealed never changes,
\* the moment of sealing is the copy of the sidecar, and a merge hands over the shards
\* as they were sealed, although it reads them after the inspection that counted them.
THEOREM CompressionImplementsLedger == Spec => CompressionLedger
<1>1. Init => LedgerInv
  <2>1. Init => SnapshotInv
    BY DEF SnapshotInv, Snapshot, Init
  <2> QED BY <2>1, InitTypeInv, InitWriter DEF LedgerInv
<1>2. LedgerInv /\ [Next]_vars => LedgerInv'
  BY NextTypeInv, NextWriter, NextSnapshot DEF LedgerInv
<1> QED BY <1>1, <1>2, InitLedger, NextLedger, PTL DEF Spec, CompressionLedger, Ledger!Spec

----------------------------------------------------------------------------
(* What is merged.  When code and source are replaced between sessions     *)
(* only, the shards a merge reads without validating them are still those  *)
(* the inspection before it found to be shards of its own run: no other    *)
(* session writes, and the Drive can damage a file but not make one.       *)

\* Shard contents p are the j-th shard of the run with the arguments w.
Fits(w, p, j) ==
    /\ p.config = w.config /\ p.sid = w.sid
    /\ [i \in DOMAIN p.rows |-> p.rows[i].index] = Slice(Targets(w.recs), j)
    /\ \A i \in DOMAIN p.rows : p.rows[i].record = w.recs[p.rows[i].index]

Loaded(s) ==
    /\ pc[s] \notin {"idle", "load"} => job[s].recs = Records[source]
    /\ pc[s] \notin {"idle", "load", "select"} => job[s].sid = source

\* An inspection of a compression that has found every shard so far complete.
Inspecting(s) ==
    /\ pc[s] = "scan" /\ job[s].phase = "inspect" /\ job[s].goal = "compress"
    /\ tally[s] = k[s]

Fit(s, j) == payload[j] \notin {None, Garbled} => Fits(job[s], payload[j], j)

Checked(s) ==
    /\ Inspecting(s) => \A j \in 0 .. k[s] - 1 : Fit(s, j)
    /\ pc[s] = "merge" => \A j \in 0 .. Total(s) - 1 : Fit(s, j)

\* The rows in a merge's dictionary are those of the shards it has read.
Gathered(s) ==
    pc[s] \in Merging =>
    /\ \A j \in 1 .. k[s] : /\ Fits(job[s], parts[s][j], j - 1)
                            /\ Indices(parts[s][j]) \subseteq DOMAIN rows[s]
    /\ \A i \in DOMAIN rows[s] :
          /\ rows[s][i].index = i
          /\ \E j \in 1 .. k[s] : \E n \in DOMAIN parts[s][j].rows :
                rows[s][i] = parts[s][j].rows[n]
    /\ pc[s] # "merge" => Complete(s)

SessionBound(s) == Loaded(s) /\ Checked(s) /\ Gathered(s)

SoundInv == TypeInv /\ WriterInv /\ \A s \in Sessions : SessionBound(s)

LEMMA SourceKept ==
  ASSUME LiveEdits = FALSE, [Next]_vars, NEW s \in Sessions, pc[s] # "idle"
  PROVE  source' = source
<1>1. ASSUME NEW t \in Sessions, NEW goal \in Goals, NEW c \in Configs, Launch(t, goal, c)
      PROVE  source' = source
  BY <1>1 DEF Launch, world
<1>2. ASSUME NEW t \in Sessions, SessionStep(t) PROVE source' = source
  BY <1>2 DEF SessionStep, LoadSource, Select, SelectFails, CheckIdentity, ClaimIdentity,
              ScanSealed, ScanOpen, ScanRejected, Teach, TeachFails, CopyPayload, CopySidecar,
              Confirm, ConfirmFails, FinishRun, FinishInspect, ReadShard, ReadShardFails,
              WriteMerged, WriteSeal, WriteSummary, Raise, world
<1>3. ASSUME NEW t \in Sessions, Crash(t) PROVE source' = source
  BY <1>3 DEF Crash
<1>4. ASSUME NEW v \in Sources, ReplaceSource(v) PROVE FALSE
  BY <1>4 DEF ReplaceSource
<1> QED BY <1>1, <1>2, <1>3, <1>4 DEF Next, ReplaceCode, DriveFault, vars, world

LEMMA PayloadKept ==
  ASSUME TypeInv, WriterInv, [Next]_vars, NEW s \in Sessions, Compressing(s),
         pc[s] \notin Making
  PROVE  \A j \in Shards : payload'[j] \in {payload[j], None, Garbled}
<1>1. ASSUME NEW t \in Sessions, CopyPayload(t) PROVE FALSE
  <2>1. pc[t] = "copy" /\ Compressing(t)
    BY <1>1, WorkerCompresses DEF CopyPayload, Making
  <2> QED BY <2>1 DEF WriterInv, Making
<1>2. ASSUME NEW t \in Sessions, CopySidecar(t) \/ WriteMerged(t) PROVE payload' = payload
  BY <1>2 DEF CopySidecar, WriteMerged, directory
<1>3. ASSUME NEW i \in Shards, DriveFault(i), NEW j \in Shards
      PROVE  payload'[j] \in {payload[j], None, Garbled}
  BY <1>3 DEF TypeInv, TypeOK, DriveOK, DriveFault
<1> QED BY <1>1, <1>2, <1>3, StepKinds

LEMMA SessionBoundFrame ==
  ASSUME LiveEdits = FALSE, TypeInv, WriterInv, [Next]_vars, NEW s \in Sessions,
         SessionBound(s), pc'[s] = pc[s], job'[s] = job[s], k'[s] = k[s],
         tally'[s] = tally[s], parts'[s] = parts[s], rows'[s] = rows[s]
  PROVE  SessionBound(s)'
<1>1. Loaded(s)'
  BY SourceKept DEF SessionBound, Loaded
<1>2. Total(s)' = Total(s) /\ Wanted(s)' = Wanted(s)
  BY DEF Total, Wanted
<1>3. Gathered(s)'
  <2>1. Complete(s)' = Complete(s)
    BY <1>2 DEF Complete
  <2> QED BY <2>1 DEF SessionBound, Gathered
<1>4. ASSUME Inspecting(s) \/ pc[s] = "merge", NEW j \in Shards, Fit(s, j)
      PROVE  Fit(s, j)'
  <2>1. Compressing(s) /\ pc[s] \notin Making
    BY <1>4, WorkerCompresses DEF Inspecting, Compressing, Making, Merging
  <2>2. payload'[j] \in {payload[j], None, Garbled}
    BY <2>1, PayloadKept
  <2> QED BY <1>4, <2>2 DEF Fit
<1>5. Inspecting(s)' => \A j \in 0 .. k[s] - 1 : Fit(s, j)'
  <2>1. SUFFICES ASSUME Inspecting(s), NEW j \in 0 .. k[s] - 1 PROVE Fit(s, j)'
    BY DEF Inspecting
  <2>2. j \in Shards
    BY <2>1, UpToHere DEF Inspecting
  <2> QED BY <1>4, <2>1, <2>2 DEF SessionBound, Checked
<1>6. pc[s] = "merge" => \A j \in 0 .. Total(s) - 1 : Fit(s, j)'
  <2>1. SUFFICES ASSUME pc[s] = "merge", NEW j \in 0 .. Total(s) - 1 PROVE Fit(s, j)'
    OBVIOUS
  <2>2. j \in Shards
    BY <2>1, UpToHere
  <2> QED BY <1>4, <2>1, <2>2 DEF SessionBound, Checked
<1>7. Checked(s)'
  BY <1>2, <1>5, <1>6 DEF Checked, Inspecting, Fit
<1> QED BY <1>1, <1>3, <1>7 DEF SessionBound

\* A session that ends, or has not begun to scan again, has only its source to answer for.
LEMMA FreshBound ==
  ASSUME NEW s \in Sessions, Loaded(s)', pc'[s] \notin {"scan"} \cup Merging
  PROVE  SessionBound(s)'
BY DEF SessionBound, Checked, Inspecting, Gathered, Merging

LEMMA ScanSealedBound ==
  ASSUME TypeInv, NEW t \in Sessions, SessionBound(t), ScanSealed(t)
  PROVE  SessionBound(t)'
<1>1. /\ pc[t] = "scan" /\ k[t] < Total(t) /\ Binds(t, payload[k[t]], k[t])
  BY DEF ScanSealed, Accepts
<1>2. /\ SessionsOK /\ k[t] \in Nat /\ tally[t] \in Nat
  BY <1>1, AtShard DEF OkAt
<1>3. /\ pc'[t] = "scan" /\ k'[t] = k[t] + 1 /\ job' = job /\ payload' = payload
      /\ source' = source
  BY <1>1, <1>2 DEF ScanSealed, SessionsOK, directory, world
<1>4. job[t].phase = "inspect" => tally'[t] = tally[t] + 1
  BY <1>2 DEF ScanSealed, SessionsOK
<1>5. Fit(t, k[t])
  BY <1>1 DEF Binds, Fit, Fits, Wanted
<1>6. ASSUME Inspecting(t)', NEW j \in 0 .. k[t] PROVE Fit(t, j)
  <2>1. Inspecting(t)
    BY <1>1, <1>2, <1>3, <1>4, <1>6 DEF Inspecting
  <2>2. j = k[t] \/ j \in 0 .. k[t] - 1
    BY <1>2
  <2> QED BY <1>5, <2>1, <2>2 DEF SessionBound, Checked
<1>7. Checked(t)'
  BY <1>2, <1>3, <1>6 DEF Checked, Fit
<1>8. Loaded(t)' /\ Gathered(t)'
  BY <1>1, <1>3 DEF SessionBound, Loaded, Gathered, Merging
<1> QED BY <1>7, <1>8 DEF SessionBound

LEMMA FinishInspectBound ==
  ASSUME TypeInv, WriterInv, NEW t \in Sessions, SessionBound(t), FinishInspect(t), ~End(t)
  PROVE  SessionBound(t)'
<1>1. /\ pc[t] = "scan" /\ job[t].phase = "inspect" /\ k[t] = Total(t)
      /\ UNCHANGED <<payload, source>>
  BY DEF FinishInspect, directory, world
<1>2. /\ tally[t] = Total(t) /\ job[t].goal = "compress" /\ job' = job
      /\ Goto(t, "merge") /\ k' = [k EXCEPT ![t] = 0] /\ UNCHANGED <<parts, rows>>
  BY DEF FinishInspect
<1>3. SessionsOK
  BY Here
<1>4. pc'[t] = "merge" /\ k'[t] = 0
  BY <1>2, <1>3 DEF Goto, SessionsOK
<1>5. Total(t)' = Total(t)
  BY <1>2 DEF Total, Wanted
<1>6. \A j \in 0 .. Total(t) - 1 : Fit(t, j)
  BY <1>1, <1>2 DEF SessionBound, Checked, Inspecting
<1>7. Checked(t)'
  <2>1. \A j \in 0 .. Total(t) - 1 : Fit(t, j)'
    BY <1>1, <1>2, <1>6 DEF Fit
  <2> QED BY <1>4, <1>5, <2>1 DEF Checked, Inspecting
<1>8. DOMAIN rows'[t] = {}
  BY <1>1, <1>2 DEF WriterInv, Working, Merging
<1>9. Loaded(t)' /\ Gathered(t)'
  BY <1>1, <1>2, <1>4, <1>8 DEF SessionBound, Loaded, Gathered
<1> QED BY <1>7, <1>9 DEF SessionBound

LEMMA ReadShardBound ==
  ASSUME TypeInv, WriterInv, NEW t \in Sessions, SessionBound(t), ReadShard(t)
  PROVE  SessionBound(t)'
<1> DEFINE p == payload[k[t]]
<1>1. /\ pc[t] = "merge" /\ k[t] < Total(t) /\ k[t] \in Nat
      /\ p \in Payloads /\ p \notin {None, Garbled}
      /\ pc'[t] = "merge" /\ k'[t] = k[t] + 1 /\ tally'[t] = tally[t]
      /\ job'[t] = job[t] /\ parts'[t] = Append(parts[t], p)
      /\ DOMAIN rows'[t] = DOMAIN rows[t] \cup Indices(p)
      /\ \A i \in DOMAIN rows[t] : rows'[t][i] = rows[t][i]
      /\ \A i \in Indices(p) : rows'[t][i] = RowOf(p, i) /\ i \notin DOMAIN rows[t]
  BY ReadShardEffect, UpToHere
<1>2. parts[t] \in Seq(Payloads) /\ Len(parts[t]) = k[t]
  BY <1>1, Here DEF WriterInv, Working, Merging, OkAt
<1>3. Fits(job[t], p, k[t])
  <2>1. Total(t) \in Nat /\ k[t] \in 0 .. Total(t) - 1
    BY <1>1, UpToHere
  <2> QED BY <1>1, <2>1 DEF SessionBound, Checked, Fit
<1>4. UNCHANGED <<payload, source>> /\ Total(t)' = Total(t)
  BY <1>1 DEF ReadShard, directory, world, Total, Wanted
<1> HIDE DEF p
<1>5. /\ parts'[t][k[t] + 1] = p
      /\ \A j \in 1 .. k[t] : parts'[t][j] = parts[t][j]
  BY <1>1, <1>2, AppendProperties
<1>6. \A j \in 1 .. k[t] + 1 : (j = k[t] + 1 /\ j - 1 = k[t]) \/ j \in 1 .. k[t]
  BY <1>1
<1>g. /\ \A j \in 1 .. k[t] : /\ Fits(job[t], parts[t][j], j - 1)
                              /\ Indices(parts[t][j]) \subseteq DOMAIN rows[t]
      /\ \A i \in DOMAIN rows[t] :
            /\ rows[t][i].index = i
            /\ \E j \in 1 .. k[t] : \E n \in DOMAIN parts[t][j].rows :
                  rows[t][i] = parts[t][j].rows[n]
  BY <1>1 DEF SessionBound, Gathered, Merging
<1>7. ASSUME NEW j \in 1 .. k[t] + 1
      PROVE  /\ Fits(job[t], parts'[t][j], j - 1)
             /\ Indices(parts'[t][j]) \subseteq DOMAIN rows'[t]
  <2>1. CASE j = k[t] + 1 /\ j - 1 = k[t]
    BY <1>1, <1>3, <1>5, <2>1
  <2>2. CASE j \in 1 .. k[t]
    BY <1>1, <1>5, <1>g, <2>2
  <2> QED BY <1>6, <2>1, <2>2
<1>8. ASSUME NEW i \in DOMAIN rows'[t]
      PROVE  /\ rows'[t][i].index = i
             /\ \E j \in 1 .. k[t] + 1 : \E n \in DOMAIN parts'[t][j].rows :
                   rows'[t][i] = parts'[t][j].rows[n]
  <2>1. CASE i \in DOMAIN rows[t]
    <3>1. PICK j \in 1 .. k[t] : \E n \in DOMAIN parts[t][j].rows :
                  rows[t][i] = parts[t][j].rows[n]
      BY <1>g, <2>1
    <3>2. k[t] \in Nat
      BY <1>1
    <3>3. j \in 1 .. k[t] + 1
      BY <3>2
    <3>4. parts'[t][j] = parts[t][j]
      BY <1>5
    <3>5. rows'[t][i] = rows[t][i]
      BY <1>1, <2>1
    <3> QED BY <1>g, <2>1, <3>1, <3>3, <3>4, <3>5
  <2>2. CASE i \in Indices(p)
    <3>1. /\ RowOf(p, i).index = i
          /\ \E n \in DOMAIN p.rows : RowOf(p, i) = p.rows[n]
      BY <1>1, <2>2, RowOfType
    <3>2. rows'[t][i] = RowOf(p, i) /\ k[t] + 1 \in 1 .. k[t] + 1
      BY <1>1, <2>2
    <3> QED BY <1>5, <3>1, <3>2
  <2> QED BY <1>1, <2>1, <2>2
<1>9. Gathered(t)'
  BY <1>1, <1>7, <1>8, ZenonT(60) DEF Gathered
<1>10. Checked(t)'
  <2>1. \A j \in 0 .. Total(t) - 1 : Fit(t, j)
    BY <1>1 DEF SessionBound, Checked
  <2>2. \A j \in 0 .. Total(t) - 1 : Fit(t, j)'
    BY <1>1, <1>4, <2>1 DEF Fit
  <2> QED BY <1>1, <1>4, <2>2 DEF Checked, Inspecting
<1>11. Loaded(t)'
  BY <1>1, <1>4 DEF SessionBound, Loaded
<1> QED BY <1>9, <1>10, <1>11 DEF SessionBound

LEMMA OwnStepBound ==
  ASSUME TypeInv, WriterInv, NEW t \in Sessions, SessionBound(t), SessionStep(t) \/ Crash(t)
  PROVE  SessionBound(t)'
<1>0. SessionsOK /\ OkAt(t) /\ Prepared(t) /\ pc[t] # "idle" /\ job[t] \in Jobs
  BY Here, StepOnly DEF SessionsOK
<1>1. CASE End(t)
  <2>1. pc'[t] = "idle"
    BY <1>0, <1>1, EndOnly
  <2> QED BY <2>1, FreshBound DEF Loaded, Merging
<1>2. CASE LoadSource(t) \/ Select(t) \/ FinishRun(t)
  <2>1. CASE LoadSource(t)
    <3>1. pc'[t] = "select" /\ job'[t].recs = Records[source] /\ source' = source
      BY <1>0, <2>1 DEF SessionsOK, LoadSource, Goto, world, Jobs
    <3> QED BY <3>1, FreshBound DEF Loaded, Merging
  <2>2. CASE Select(t)
    <3>1. /\ pc[t] = "select" /\ pc'[t] = "identify" /\ job'[t].recs = job[t].recs
          /\ job'[t].sid = source /\ source' = source
      BY <1>0, <2>2 DEF SessionsOK, Select, Goto, world, Jobs
    <3>2. Loaded(t)'
      BY <3>1 DEF SessionBound, Loaded
    <3> QED BY <3>1, <3>2, FreshBound DEF Merging
  <2>3. CASE FinishRun(t)
    <3>1. /\ pc[t] = "scan" /\ pc'[t] = "select" /\ job'[t].recs = job[t].recs
          /\ source' = source
      BY <1>0, <2>3 DEF SessionsOK, FinishRun, Goto, world, Jobs
    <3>2. Loaded(t)'
      BY <3>1 DEF SessionBound, Loaded
    <3> QED BY <3>1, <3>2, FreshBound DEF Merging
  <2> QED BY <1>2, <2>1, <2>2, <2>3
<1>3. CASE Teach(t) \/ CopyPayload(t) \/ CopySidecar(t)
  <2>1. /\ pc[t] \in Making /\ pc'[t] \in Making /\ job' = job /\ source' = source
    BY <1>0, <1>3 DEF SessionsOK, Teach, CopyPayload, CopySidecar, Goto, world, Making
  <2>2. Loaded(t)'
    BY <2>1 DEF SessionBound, Loaded, Making
  <2> QED BY <2>1, <2>2, FreshBound DEF Making, Merging
<1>4. CASE (CheckIdentity(t) /\ ~End(t)) \/ ClaimIdentity(t)
  <2>1. /\ pc[t] \in {"identify", "claim"} /\ pc'[t] \in {"claim", "scan"}
        /\ source' = source /\ k'[t] = k[t] /\ k[t] = 0
    BY <1>0, <1>4 DEF SessionsOK, Prepared, Before, CheckIdentity, ClaimIdentity, Goto, world
  <2>2. job'[t].recs = job[t].recs /\ job'[t].sid = job[t].sid
    BY <1>0, <1>4 DEF SessionsOK, CheckIdentity, ClaimIdentity, Jobs
  <2>3. Loaded(t)'
    BY <2>1, <2>2 DEF SessionBound, Loaded
  <2>4. Checked(t)' /\ Gathered(t)'
    BY <2>1 DEF Checked, Gathered, Merging
  <2> QED BY <2>3, <2>4 DEF SessionBound
<1>5. CASE ScanSealed(t) \/ ReadShard(t)
  BY <1>0, <1>5, ScanSealedBound, ReadShardBound
<1>6. CASE ScanOpen(t)
  <2>1. /\ pc[t] = "scan" /\ tally'[t] = tally[t] /\ job' = job /\ source' = source
        /\ \/ pc'[t] = "teach"
           \/ pc'[t] = "scan" /\ k'[t] = k[t] + 1
    BY <1>0, <1>6 DEF SessionsOK, ScanOpen, Goto, world
  <2>2. Loaded(t)'
    BY <2>1 DEF SessionBound, Loaded
  <2>3. CASE pc'[t] = "teach"
    BY <2>2, <2>3, FreshBound DEF Merging
  <2>4. CASE pc'[t] = "scan" /\ k'[t] = k[t] + 1
    <3>1. tally[t] \in Nat /\ k[t] \in Nat /\ tally[t] <= k[t]
      BY <1>0, <2>1 DEF OkAt, Prepared
    <3>2. tally'[t] # k'[t]
      BY <2>1, <2>4, <3>1
    <3> QED BY <2>2, <2>4, <3>2 DEF SessionBound, Checked, Inspecting, Gathered, Merging
  <2> QED BY <2>1, <2>3, <2>4
<1>7. CASE Confirm(t)
  <2>1. /\ pc[t] = "confirm" /\ pc'[t] = "scan" /\ job' = job /\ job[t].phase = "run"
        /\ source' = source
    BY <1>0, <1>7 DEF SessionsOK, Confirm, Goto, WriterInv, Working, Making, world
  <2> QED BY <2>1 DEF SessionBound, Loaded, Checked, Inspecting, Gathered, Merging
<1>8. CASE FinishInspect(t) /\ ~End(t)
  BY <1>0, <1>8, FinishInspectBound
<1>9. CASE (WriteMerged(t) /\ ~End(t)) \/ WriteSeal(t)
  <2>1. /\ pc[t] \in {"merge", "sum"} /\ pc'[t] \in {"sum", "summary"}
        /\ UNCHANGED <<job, k, parts, rows, source>>
        /\ pc[t] = "merge" => Complete(t)
    BY <1>0, <1>9 DEF SessionsOK, WriteMerged, WriteSeal, Goto, world
  <2>2. Complete(t)'
    <3>1. Complete(t)
      BY <2>1 DEF SessionBound, Gathered, Merging
    <3> QED BY <2>1, <3>1 DEF Complete, Wanted
  <2>3. Gathered(t)'
    BY <2>1, <2>2 DEF SessionBound, Gathered, Merging
  <2>4. Loaded(t)' /\ Checked(t)'
    BY <2>1 DEF SessionBound, Loaded, Checked, Inspecting
  <2> QED BY <2>3, <2>4 DEF SessionBound
<1> QED BY <1>1, <1>2, <1>3, <1>4, <1>5, <1>6, <1>7, <1>8, <1>9
        DEF SessionStep, Crash, SelectFails, ScanRejected, TeachFails, ConfirmFails,
            ReadShardFails, WriteSummary, Raise

LEMMA NextSessionBound ==
  ASSUME LiveEdits = FALSE, SoundInv, [Next]_vars
  PROVE  \A s \in Sessions : SessionBound(s)'
<1> SUFFICES ASSUME NEW s \in Sessions PROVE SessionBound(s)'
  OBVIOUS
<1>0. TypeInv /\ WriterInv /\ SessionsOK /\ SessionBound(s)
  BY Here DEF SoundInv
<1>1. CASE /\ pc'[s] = pc[s] /\ job'[s] = job[s] /\ k'[s] = k[s]
           /\ tally'[s] = tally[s] /\ parts'[s] = parts[s] /\ rows'[s] = rows[s]
  BY <1>0, <1>1, SessionBoundFrame
<1>2. ASSUME NEW t \in Sessions, NEW goal \in Goals, NEW c \in Configs, Launch(t, goal, c)
      PROVE  SessionBound(s)'
  <2>1. CASE s = t
    <3>1. pc'[s] = "load"
      BY <1>0, <1>2, <2>1 DEF SessionsOK, Launch, Goto
    <3> QED BY <3>1, FreshBound DEF Loaded, Merging
  <2>2. CASE s # t
    BY <1>0, <1>1, <1>2, <2>2 DEF SessionsOK, Launch, Goto
  <2> QED BY <2>1, <2>2
<1>3. ASSUME NEW t \in Sessions, t # s, SessionStep(t) \/ Crash(t) PROVE SessionBound(s)'
  <2>1. Only(t)
    BY <1>0, <1>3, StepOnly
  <2> QED BY <1>0, <1>1, <1>3, <2>1 DEF Only, SessionsOK
<1>4. ASSUME SessionStep(s) \/ Crash(s) PROVE SessionBound(s)'
  BY <1>0, <1>4, OwnStepBound
<1>5. CASE UNCHANGED process
  BY <1>1, <1>5 DEF process
<1> QED BY <1>2, <1>3, <1>4, <1>5 DEF Next, ReplaceCode, ReplaceSource, DriveFault, vars

LEMMA FitsRows ==
  ASSUME NEW w, NEW p, NEW j, Fits(w, p, j)
  PROVE  /\ DOMAIN p.rows = DOMAIN Slice(Targets(w.recs), j)
         /\ \A n \in DOMAIN p.rows : /\ p.rows[n].index = Slice(Targets(w.recs), j)[n]
                                     /\ p.rows[n].record = w.recs[p.rows[n].index]
<1> DEFINE f == [i \in DOMAIN p.rows |-> p.rows[i].index]
<1>1. DOMAIN f = DOMAIN p.rows /\ \A n \in DOMAIN p.rows : f[n] = p.rows[n].index
  OBVIOUS
<1>2. f = Slice(Targets(w.recs), j)
  BY DEF Fits
<1> QED BY <1>1, <1>2 DEF Fits

\* A merge that has read all its shards holds the selected records' rows and no other.
LEMMA SelectedRows ==
  ASSUME TypeInv, WriterInv, NEW t \in Sessions, SessionBound(t), pc[t] \in Merging,
         k[t] = Total(t)
  PROVE  /\ \A i \in DOMAIN rows[t] :
               /\ i \in 1 .. Len(job[t].recs) /\ Selected(job[t].recs[i])
               /\ rows[t][i].index = i /\ rows[t][i].record = job[t].recs[i]
               /\ \E j \in 1 .. k[t] :
                     /\ \E n \in DOMAIN parts[t][j].rows : rows[t][i] = parts[t][j].rows[n]
                     /\ parts[t][j].config = job[t].config /\ parts[t][j].sid = job[t].sid
         /\ \A i \in 1 .. Len(job[t].recs) :
               Selected(job[t].recs[i]) => i \in DOMAIN rows[t]
<1> DEFINE recs == job[t].recs
           W == Wanted(t)
<1>1. /\ Len(recs) \in Nat /\ W \in Seq(1 .. Len(recs)) /\ Len(W) \in Nat
      /\ Total(t) \in Nat /\ pc[t] # "idle"
  BY Here, TotalType DEF Merging
<1>2. Chosen(recs, W, Len(recs)) /\ W = Targets(recs) /\ Total(t) = NumShards(W)
  BY <1>1, TargetsChosen DEF Wanted, Total
<1>3. /\ \A j \in 1 .. k[t] : /\ Fits(job[t], parts[t][j], j - 1)
                              /\ Indices(parts[t][j]) \subseteq DOMAIN rows[t]
      /\ \A i \in DOMAIN rows[t] :
            /\ rows[t][i].index = i
            /\ \E j \in 1 .. k[t] : \E n \in DOMAIN parts[t][j].rows :
                  rows[t][i] = parts[t][j].rows[n]
  BY DEF SessionBound, Gathered
<1> HIDE DEF W
<1>4. ASSUME NEW i \in DOMAIN rows[t]
      PROVE  /\ i \in 1 .. Len(recs) /\ Selected(recs[i])
             /\ rows[t][i].index = i /\ rows[t][i].record = recs[i]
             /\ \E j \in 1 .. k[t] :
                   /\ \E n \in DOMAIN parts[t][j].rows : rows[t][i] = parts[t][j].rows[n]
                   /\ parts[t][j].config = job[t].config /\ parts[t][j].sid = job[t].sid
  <2>1. PICK j \in 1 .. k[t] : \E n \in DOMAIN parts[t][j].rows :
                  rows[t][i] = parts[t][j].rows[n]
    BY <1>3
  <2>2. PICK n \in DOMAIN parts[t][j].rows : rows[t][i] = parts[t][j].rows[n]
    BY <2>1
  <2>3. Fits(job[t], parts[t][j], j - 1) /\ rows[t][i].index = i
    BY <1>3
  <2>4. /\ DOMAIN parts[t][j].rows = DOMAIN Slice(W, j - 1)
        /\ i = Slice(W, j - 1)[n] /\ rows[t][i].record = recs[i]
    BY <1>2, <2>2, <2>3, FitsRows
  <2>5. j - 1 \in Nat
    BY <1>1
  <2>6. /\ Slice(W, j - 1) \in Seq(1 .. Len(recs))
        /\ \A m \in 1 .. Len(Slice(W, j - 1)) :
              \E l \in 1 .. Len(W) : Slice(W, j - 1)[m] = W[l]
    BY <1>1, <2>5, SliceType
  <2>7. n \in 1 .. Len(Slice(W, j - 1))
    BY <2>4, <2>6
  <2>8. PICK l \in 1 .. Len(W) : i = W[l]
    BY <2>4, <2>6, <2>7
  <2>9. i \in 1 .. Len(recs) /\ Selected(recs[i])
    BY <1>1, <1>2, <2>8 DEF Chosen
  <2>10. parts[t][j].config = job[t].config /\ parts[t][j].sid = job[t].sid
    BY <2>3 DEF Fits
  <2> QED BY <2>2, <2>3, <2>4, <2>9, <2>10
<1>5. ASSUME NEW i \in 1 .. Len(recs), Selected(recs[i])
      PROVE  i \in DOMAIN rows[t]
  <2>1. PICK l \in 1 .. Len(W) : W[l] = i
    BY <1>2, <1>5 DEF Chosen
  <2>2. PICK j \in 0 .. NumShards(W) - 1 :
              \E n \in 1 .. Len(Slice(W, j)) : Slice(W, j)[n] = W[l]
    BY <1>1, ShardsCover
  <2>3. PICK n \in 1 .. Len(Slice(W, j)) : Slice(W, j)[n] = i
    BY <2>1, <2>2
  <2>4. j \in Nat /\ j + 1 \in 1 .. k[t] /\ j + 1 - 1 = j
    BY <1>1, <1>2
  <2>5. Slice(W, j) \in Seq(1 .. Len(recs))
    BY <1>1, <2>4, SliceType
  <2>6. Fits(job[t], parts[t][j + 1], j) /\ Indices(parts[t][j + 1]) \subseteq DOMAIN rows[t]
    BY <1>3, <2>4
  <2>7. n \in DOMAIN parts[t][j + 1].rows /\ parts[t][j + 1].rows[n].index = i
    BY <1>2, <2>3, <2>5, <2>6, FitsRows, SMTT(30)
  <2> QED BY <2>6, <2>7 DEF Indices
<1> QED BY <1>4, <1>5

\* What MergedIsBound says of a merged corpus.
Bound(c) ==
    /\ [i \in DOMAIN c.rows |-> c.rows[i].record] = Records[c.sid]
    /\ \A i \in DOMAIN c.rows :
          LET m == c.rows[i] IN
          IF Selected(m.record)
          THEN /\ m.row # None /\ m.row.index = i /\ m.row.record = m.record
               /\ \E j \in DOMAIN c.shards :
                     /\ \E n \in DOMAIN c.shards[j].rows : m.row = c.shards[j].rows[n]
                     /\ c.shards[j].config = c.config
                     /\ c.shards[j].sid = c.sid
          ELSE m.row = None

LEMMA WriteMergedIsBound ==
  ASSUME TypeInv, WriterInv, NEW t \in Sessions, SessionBound(t), WriteMerged(t),
         merged' # merged
  PROVE  Bound(merged')
<1>1. /\ pc[t] = "merge" /\ k[t] = Total(t)
      /\ merged' = [config |-> job[t].config, sid |-> job[t].sid, shards |-> parts[t],
                    rows |-> MergedRows(t)]
  BY DEF WriteMerged
<1> DEFINE recs == job[t].recs
<1>2. /\ SessionsOK /\ OkAt(t) /\ Prepared(t) /\ pc[t] \in Merging /\ pc[t] # "idle"
  BY <1>1, Here DEF Merging
<1>3. /\ DOMAIN MergedRows(t) = 1 .. Len(recs)
      /\ \A i \in 1 .. Len(recs) : MergedRows(t)[i] = MergedRow(t, i)
  BY <1>2, MergedRowsType
<1>4. recs \in Seq(SourceRecords) /\ recs = Records[source] /\ job[t].sid = source
  BY <1>1, <1>2, TotalType DEF SessionBound, Loaded
<1>5. parts[t] \in Seq(Payloads) /\ Len(parts[t]) = k[t] /\ DOMAIN parts[t] = 1 .. k[t]
  BY <1>2 DEF WriterInv, Working, OkAt
<1>6. [i \in DOMAIN MergedRows(t) |-> MergedRows(t)[i].record] = Records[job[t].sid]
  <2>1. ASSUME NEW i \in 1 .. Len(recs) PROVE MergedRows(t)[i].record = recs[i]
    <3>1. MergedRow(t, i).record = recs[i]
      BY DEF MergedRow
    <3>2. MergedRows(t)[i] = MergedRow(t, i)
      BY <1>3
    <3> QED BY <3>1, <3>2
  <2>2. recs = [i \in 1 .. Len(recs) |-> recs[i]]
    BY <1>4
  <2> DEFINE n == Len(recs)
  <2>3. DOMAIN MergedRows(t) = 1 .. n
    BY <1>3
  <2>4. Records[job[t].sid] = recs
    BY <1>4
  <2> HIDE DEF n, recs
  <2>5. [i \in 1 .. n |-> MergedRows(t)[i].record] = [i \in 1 .. n |-> recs[i]]
    BY <2>1 DEF n
  <2> QED BY <2>2, <2>3, <2>4, <2>5 DEF n
<1>7. ASSUME NEW i \in 1 .. Len(recs)
      PROVE  LET m == MergedRow(t, i) IN
             IF Selected(m.record)
             THEN /\ m.row # None /\ m.row.index = i /\ m.row.record = m.record
                  /\ \E j \in DOMAIN parts[t] :
                        /\ \E n \in DOMAIN parts[t][j].rows : m.row = parts[t][j].rows[n]
                        /\ parts[t][j].config = job[t].config
                        /\ parts[t][j].sid = job[t].sid
             ELSE m.row = None
  <2>1. CASE i \in DOMAIN rows[t]
    <3>1. /\ MergedRow(t, i).record = recs[i] /\ MergedRow(t, i).row = rows[t][i]
      BY <2>1 DEF MergedRow
    <3>2. rows[t][i] # None
      BY <1>2, <2>1, ContentsAssumption DEF OkAt
    <3>3. /\ Selected(recs[i]) /\ rows[t][i].index = i /\ rows[t][i].record = recs[i]
          /\ \E j \in 1 .. k[t] :
                     /\ \E n \in DOMAIN parts[t][j].rows : rows[t][i] = parts[t][j].rows[n]
                     /\ parts[t][j].config = job[t].config /\ parts[t][j].sid = job[t].sid
      BY <1>1, <1>2, <2>1, SelectedRows
    <3> QED BY <1>5, <3>1, <3>2, <3>3
  <2>2. CASE i \notin DOMAIN rows[t]
    <3>1. MergedRow(t, i).record = recs[i] /\ MergedRow(t, i).row = None
      BY <2>2 DEF MergedRow
    <3>2. ~Selected(recs[i])
      BY <1>1, <1>2, <2>2, SelectedRows
    <3> QED BY <3>1, <3>2
  <2> QED BY <2>1, <2>2
<1> DEFINE R == MergedRows(t)
<1>8. \A i \in DOMAIN R : R[i] = MergedRow(t, i)
  BY <1>3
<1> HIDE DEF R
<1>9. /\ merged'.rows = R /\ merged'.shards = parts[t] /\ merged'.config = job[t].config
      /\ merged'.sid = job[t].sid
  BY <1>1 DEF R
<1> QED BY <1>3, <1>6, <1>7, <1>8, <1>9 DEF Bound, R

----------------------------------------------------------------------------
(* What is published about a merge: counters that add up. *)

\* What MergedIsBound says of a summary.
Balanced(u) ==
    /\ u.finalAccepted = u.sourceAccepted + u.rescued
    /\ u.finalStop = u.sourceStop - u.targets + u.compressionStop
    /\ u.rescued = u.compressedAccepted
    /\ u.rescued <= u.compressionStop
    /\ u.compressionStop <= u.targets

LEMMA SplitCount ==
  ASSUME NEW D, IsFiniteSet(D), NEW X \in SUBSET D, NEW W
  PROVE  /\ Cardinality(X) \in Nat /\ Cardinality(X \ W) \in Nat
         /\ Cardinality(X \cap W) \in Nat
         /\ Cardinality(X) = Cardinality(X \ W) + Cardinality(X \cap W)
<1>1. IsFiniteSet(X) /\ IsFiniteSet(X \ W) /\ IsFiniteSet(X \cap W)
  BY FS_Subset
<1>2. X = (X \ W) \cup (X \cap W) /\ (X \ W) \cap (X \cap W) = {}
  OBVIOUS
<1>3. /\ Cardinality(X) \in Nat /\ Cardinality(X \ W) \in Nat
      /\ Cardinality(X \cap W) \in Nat
  BY <1>1, FS_CardinalityType
<1>4. Cardinality((X \ W) \cup (X \cap W)) =
        Cardinality(X \ W) + Cardinality(X \cap W) - Cardinality((X \ W) \cap (X \cap W))
  BY <1>1, FS_Union
<1>5. Cardinality((X \ W) \cap (X \cap W)) = 0
  BY <1>2, FS_EmptySet
<1> QED BY <1>2, <1>3, <1>4, <1>5

LEMMA SummaryBalances ==
  ASSUME NEW c, IsFiniteSet(DOMAIN c), NEW W \in SUBSET DOMAIN c,
         \A i \in DOMAIN c : c[i].row # None <=> i \in W,
         \A i \in W : Selected(c[i].record)
  PROVE  Balanced(Summarise(c, Cardinality(W)))
<1> DEFINE D == DOMAIN c
           Stop == {i \in D : c[i].record \in Stopped}
           Acc == {i \in D : c[i].record \in Stopped /\ c[i].record \notin Long}
           CStop == {i \in D : c[i].row # None /\ FinalStop(c[i])}
           CAcc == {i \in D : c[i].row # None /\ FinalStop(c[i]) /\ FinalFits(c[i])}
           Resc == {i \in D : c[i].row # None /\ FinalStop(c[i]) /\ FinalFits(c[i])
                              /\ c[i].record \in Long}
           FStop == {i \in D : FinalStop(c[i])}
           FAcc == {i \in D : FinalStop(c[i]) /\ FinalFits(c[i])}
           u == Summarise(c, Cardinality(W))
<1>1. /\ u.targets = Cardinality(W) /\ u.sourceStop = Cardinality(Stop)
      /\ u.sourceAccepted = Cardinality(Acc) /\ u.compressionStop = Cardinality(CStop)
      /\ u.compressedAccepted = Cardinality(CAcc) /\ u.rescued = Cardinality(Resc)
      /\ u.finalStop = Cardinality(FStop) /\ u.finalAccepted = Cardinality(FAcc)
  BY DEF Summarise, Count
<1>2. \A i \in D : /\ i \in W => c[i].record \in Stopped /\ c[i].record \in Long
                   /\ i \notin W => (FinalStop(c[i]) <=> c[i].record \in Stopped)
                   /\ i \notin W => (FinalFits(c[i]) <=> c[i].record \notin Long)
  BY DEF Selected, FinalStop, FinalFits
<1> HIDE DEF u
<1>3. Stop \cap W = W /\ FStop \ W = Stop \ W /\ FStop \cap W = CStop
  BY <1>2
<1>4. Acc \cap W = {} /\ FAcc \ W = Acc \ W /\ FAcc \cap W = Resc
  BY <1>2
<1>5. Resc = CAcc /\ Resc \subseteq CStop /\ CStop \subseteq W
  BY <1>2
<1>6. /\ IsFiniteSet(D) /\ Stop \in SUBSET D /\ FStop \in SUBSET D /\ Acc \in SUBSET D
      /\ FAcc \in SUBSET D /\ CStop \in SUBSET D
  OBVIOUS
<1> HIDE DEF D, Stop, Acc, CStop, CAcc, Resc, FStop, FAcc
<1>7. /\ Cardinality(Stop) = Cardinality(Stop \ W) + Cardinality(W)
      /\ Cardinality(FStop) = Cardinality(Stop \ W) + Cardinality(CStop)
      /\ Cardinality(Stop \ W) \in Nat /\ Cardinality(W) \in Nat /\ Cardinality(CStop) \in Nat
  BY <1>3, <1>6, SplitCount
<1>8. /\ Cardinality(Acc) = Cardinality(Acc \ W) + Cardinality({})
      /\ Cardinality(FAcc) = Cardinality(Acc \ W) + Cardinality(Resc)
      /\ Cardinality(Acc \ W) \in Nat /\ Cardinality(Resc) \in Nat
  BY <1>4, <1>6, SplitCount
<1>9. Cardinality({}) = 0
  BY FS_EmptySet
<1>10. Cardinality(Resc) <= Cardinality(CStop) /\ Cardinality(CStop) <= Cardinality(W)
  <2>1. IsFiniteSet(CStop) /\ IsFiniteSet(W)
    BY <1>6, FS_Subset DEF D
  <2> QED BY <1>5, <2>1, FS_Subset
<1>11. /\ Cardinality(FAcc) = Cardinality(Acc) + Cardinality(Resc)
       /\ Cardinality(FStop) = Cardinality(Stop) - Cardinality(W) + Cardinality(CStop)
  BY <1>7, <1>8, <1>9
<1>12. Balanced(u)
  BY <1>1, <1>5, <1>10, <1>11 DEF Balanced
<1> QED BY <1>12 DEF u

LEMMA WriteSummaryBalances ==
  ASSUME TypeInv, WriterInv, NEW t \in Sessions, SessionBound(t), WriteSummary(t)
  PROVE  Balanced(summary')
<1>1. pc[t] = "summary" /\ summary' = Summarise(MergedRows(t), Len(Wanted(t)))
  BY DEF WriteSummary
<1>2. /\ SessionsOK /\ OkAt(t) /\ Prepared(t) /\ pc[t] \in Merging /\ pc[t] # "idle"
      /\ k[t] = Total(t)
  BY <1>1, Here DEF Merging, Prepared
<1> DEFINE c == MergedRows(t)
           n == Len(job[t].recs)
<1>3. DOMAIN c = 1 .. n /\ n \in Nat /\ \A i \in 1 .. n : c[i] = MergedRow(t, i)
  <2>1. n \in Nat
    BY <1>2, TotalType, BoundsAssumption
  <2> QED BY <1>2, <2>1, MergedRowsType
<1>4. Len(Wanted(t)) = Cardinality(DOMAIN rows[t])
  BY <1>1, <1>2 DEF SessionBound, Gathered, Complete
<1>5. /\ DOMAIN rows[t] \subseteq 1 .. n
      /\ \A i \in DOMAIN rows[t] : Selected(job[t].recs[i]) /\ rows[t][i] # None
  BY <1>2, SelectedRows, ContentsAssumption DEF OkAt
<1>6. IsFiniteSet(1 .. n)
  BY <1>3, FS_Interval
<1>7. ASSUME NEW i \in 1 .. n
      PROVE  /\ MergedRow(t, i).record = job[t].recs[i]
             /\ MergedRow(t, i).row # None <=> i \in DOMAIN rows[t]
  BY <1>5 DEF MergedRow
<1> HIDE DEF c
<1>8. Balanced(Summarise(c, Cardinality(DOMAIN rows[t])))
  BY <1>3, <1>5, <1>6, <1>7, SummaryBalances
<1> QED BY <1>1, <1>4, <1>8 DEF c

\* Only a merge writes the corpus and its summary.
LEMMA OutputKinds ==
  ASSUME [Next]_vars
  PROVE  /\ merged' = merged \/ \E t \in Sessions : WriteMerged(t)
         /\ summary' = summary \/ \E t \in Sessions : WriteSummary(t)
<1>1. ASSUME NEW t \in Sessions, NEW goal \in Goals, NEW c \in Configs, Launch(t, goal, c)
      PROVE  UNCHANGED <<merged, summary>>
  BY <1>1 DEF Launch, outputs
<1>2. ASSUME NEW t \in Sessions, SessionStep(t), ~WriteMerged(t), ~WriteSummary(t)
      PROVE  UNCHANGED <<merged, summary>>
  BY <1>2 DEF SessionStep, LoadSource, Select, SelectFails, CheckIdentity, ClaimIdentity,
              ScanSealed, ScanOpen, ScanRejected, Teach, TeachFails, CopyPayload, CopySidecar,
              Confirm, ConfirmFails, FinishRun, FinishInspect, ReadShard, ReadShardFails,
              WriteSeal, Raise, outputs
<1>3. ASSUME NEW t \in Sessions, Crash(t) PROVE UNCHANGED <<merged, summary>>
  BY <1>3 DEF Crash, outputs
<1>4. ASSUME NEW t \in Sessions, WriteMerged(t) PROVE summary' = summary
  BY <1>4 DEF WriteMerged
<1>5. ASSUME NEW t \in Sessions, WriteSummary(t) PROVE merged' = merged
  BY <1>5 DEF WriteSummary
<1> QED BY <1>1, <1>2, <1>3, <1>4, <1>5
        DEF Next, ReplaceCode, ReplaceSource, DriveFault, vars, outputs

MergedInv == SoundInv /\ MergedIsBound

LEMMA MergedParts ==
  MergedIsBound <=> /\ merged # None => Bound(merged)
                    /\ summary # None => Balanced(summary)
BY DEF MergedIsBound, Bound, Balanced

LEMMA NextMerged ==
  ASSUME LiveEdits = FALSE
  PROVE  MergedInv /\ [Next]_vars => MergedInv'
<1> SUFFICES ASSUME MergedInv, [Next]_vars PROVE MergedInv'
  OBVIOUS
<1>0. TypeInv /\ WriterInv /\ SoundInv /\ \A s \in Sessions : SessionBound(s)
  BY DEF MergedInv, SoundInv
<1>1. SoundInv'
  BY <1>0, NextTypeInv, NextWriter, NextSessionBound DEF SoundInv
<1>2. merged' # None => Bound(merged')
  <2>1. CASE merged' = merged
    BY <2>1, MergedParts DEF MergedInv
  <2>2. CASE merged' # merged
    <3>1. PICK t \in Sessions : WriteMerged(t)
      BY <2>2, OutputKinds
    <3> QED BY <1>0, <2>2, <3>1, WriteMergedIsBound
  <2> QED BY <2>1, <2>2
<1>3. summary' # None => Balanced(summary')
  <2>1. CASE summary' = summary
    BY <2>1, MergedParts DEF MergedInv
  <2>2. CASE summary' # summary
    <3>1. PICK t \in Sessions : WriteSummary(t)
      BY <2>2, OutputKinds
    <3> QED BY <1>0, <3>1, WriteSummaryBalances
  <2> QED BY <2>1, <2>2
<1>4. MergedIsBound'
  BY <1>2, <1>3 DEF MergedIsBound, Bound, Balanced
<1> QED BY <1>1, <1>4 DEF MergedInv

\* When code and source are replaced between sessions only, every merged corpus is
\* bound to the run it names, record by record, and the published accounting adds up:
\* reading the shards again without validating them loses nothing.
THEOREM MergeIsBound ==
  ASSUME LiveEdits = FALSE
  PROVE  Spec => []MergedIsBound
<1>1. Init => MergedInv
  <2>1. Init => \A s \in Sessions : SessionBound(s)
    BY DEF Init, SessionBound, Loaded, Checked, Inspecting, Gathered, Merging
  <2>2. Init => MergedIsBound
    BY DEF Init, MergedIsBound
  <2> QED BY <2>1, <2>2, InitTypeInv, InitWriter DEF MergedInv, SoundInv
<1>2. MergedInv /\ [Next]_vars => MergedInv'
  BY NextMerged
<1>3. MergedInv => MergedIsBound
  BY DEF MergedInv
<1> QED BY <1>1, <1>2, <1>3, PTL DEF Spec
====
