---- MODULE AdapterPromotionProofs ----
(***************************************************************************)
(* Theorems about AdapterPromotion, for any number of runs, adapters and   *)
(* files, and any number of edits, faults and killed promotions.           *)
(***************************************************************************)
EXTENDS AdapterPromotion, TLAPS

----------------------------------------------------------------------------
(* The repository is a sequence of commits that only grows *)

Contents == Runs \cup {None, Foreign, Damaged}

CommitRecords ==
    [tree : [Names -> Contents], by : Runs \cup {Foreign}, parent : Nat, blind : BOOLEAN]

HubInv ==
    /\ history \in Seq(CommitRecords)
    /\ \A i \in 1 .. Len(history) : history[i].parent < i
    /\ edits \in 0 .. MaxEdits

DiskInv ==
    /\ archive \in [Runs -> (SUBSET Names) \cup {None}]
    /\ checkpoints \in [Runs -> {"whole", "partial", "gone"}]
    /\ report \in [Runs -> [revision : Nat, deleted : BOOLEAN] \cup {None}]

MemoryInv ==
    /\ pc \in [Runs -> Places]
    /\ listed \in [Runs -> SUBSET Names]
    /\ parent \in [Runs -> Nat]
    /\ revision \in [Runs -> Nat]

CountersInv == faults \in 0 .. MaxFaults /\ crashes \in 0 .. MaxCrashes

\* The next commit is made on top of the last one.
Appends(c) == c.parent = Len(history) /\ history' = Append(history, c)
HistoryStep == history' = history \/ \E c \in CommitRecords : Appends(c)

\* No commit that was made ever changes.
Extends_ ==
    /\ Len(history) \in Nat /\ Len(history') \in Nat
    /\ Len(history) <= Len(history')
    /\ \A i \in 1 .. Len(history) : i \in 1 .. Len(history') /\ history'[i] = history[i]

LEMMA AppendFacts ==
  ASSUME NEW h \in Seq(CommitRecords), NEW c \in CommitRecords
  PROVE  /\ Append(h, c) \in Seq(CommitRecords)
         /\ Len(Append(h, c)) = Len(h) + 1
         /\ \A i \in 1 .. Len(h) : Append(h, c)[i] = h[i]
         /\ Append(h, c)[Len(h) + 1] = c
OBVIOUS

LEMMA HistoryStepExtends ==
  ASSUME history \in Seq(CommitRecords), HistoryStep
  PROVE  Extends_ /\ history' \in Seq(CommitRecords)
<1>1. CASE history' = history
  BY <1>1 DEF Extends_
<1>2. CASE \E c \in CommitRecords : Appends(c)
  <2>1. PICK c \in CommitRecords : Appends(c)
    BY <1>2
  <2>2. history' = Append(history, c)
    BY <2>1 DEF Appends
  <2> QED BY <2>2, AppendFacts DEF Extends_
<1> QED BY <1>1, <1>2 DEF HistoryStep

----------------------------------------------------------------------------
(* What a promotion knows at each point *)

\* The manifest at commit i names the adapter of run r.
Mine(i, r) ==
    /\ history[i].tree[Manifest] \in Runs
    /\ AdapterOf[history[i].tree[Manifest]] = AdapterOf[r]

Commit_(i) == i \in 1 .. Len(history)

RunInv(r) ==
    /\ pc[r] = "info" => Commit_(1)
    /\ pc[r] \in {"inspect", "commit"} => Commit_(parent[r])
    /\ pc[r] = "commit" /\ listed[r] # {} => Mine(parent[r], r)
    /\ pc[r] = "verify" => Commit_(revision[r])
    /\ pc[r] \in {"clean", "cleaning", "report"} =>
         Commit_(revision[r]) /\ Holds(revision[r], r)
    /\ pc[r] = "report" /\ r \in MayDelete => checkpoints[r] = "gone"
    /\ checkpoints[r] # "whole" => \E i \in 1 .. Len(history) : Holds(i, r)
    /\ report[r] # None =>
         /\ pc[r] = "idle"
         /\ Commit_(report[r].revision) /\ Holds(report[r].revision, r)
         /\ report[r].deleted => checkpoints[r] = "gone"
    /\ parent[r] <= Len(history) /\ revision[r] <= Len(history)

KeepsAdapter(i) ==
    history[i].by \in Runs /\ ~history[i].blind => Commit_(history[i].parent)
                                                   /\ Mine(history[i].parent, history[i].by)

Inv ==
    /\ HubInv /\ DiskInv /\ MemoryInv /\ CountersInv
    /\ \A r \in Runs : RunInv(r)
    /\ \A i \in 1 .. Len(history) : KeepsAdapter(i)

\* A commit that holds an archive, or names an adapter, does so for ever.
LEMMA CommitsStay ==
  ASSUME Extends_, NEW i \in 1 .. Len(history), NEW r \in Runs
  PROVE  /\ Commit_(i)'
         /\ Holds(i, r) => Holds(i, r)'
         /\ Mine(i, r) => Mine(i, r)'
BY DEF Extends_, Commit_, Holds, Mine

\* What a promotion knows stays true while others act.
LEMMA RunFrame ==
  ASSUME Extends_, NEW r \in Runs, RunInv(r), parent[r] \in Nat, revision[r] \in Nat,
         pc'[r] = pc[r], listed'[r] = listed[r], parent'[r] = parent[r],
         revision'[r] = revision[r], checkpoints'[r] = checkpoints[r], report'[r] = report[r]
  PROVE  RunInv(r)'
<1>1. \A i : Commit_(i) => Commit_(i)' /\ (Holds(i, r) => Holds(i, r)')
                           /\ (Mine(i, r) => Mine(i, r)')
  BY CommitsStay DEF Commit_
<1>2. (\E i \in 1 .. Len(history) : Holds(i, r)) =>
        (\E i \in 1 .. Len(history) : Holds(i, r))'
  BY <1>1 DEF Commit_
<1>3. parent'[r] <= Len(history') /\ revision'[r] <= Len(history')
  BY DEF RunInv, Extends_
<1> QED BY <1>1, <1>2, <1>3 DEF RunInv

\* A promotion that ends has nothing left to be true but its files.
LEMMA RunEnds ==
  ASSUME Extends_, MemoryInv, NEW r \in Runs, RunInv(r), End(r),
         checkpoints'[r] = checkpoints[r], report'[r] = report[r]
  PROVE  RunInv(r)'
<1>1. pc'[r] = "idle" /\ parent'[r] = 0 /\ revision'[r] = 0
  BY DEF End, Goto, MemoryInv
<1>2. \A i : Commit_(i) => Commit_(i)' /\ (Holds(i, r) => Holds(i, r)')
  BY CommitsStay DEF Commit_
<1>3. (\E i \in 1 .. Len(history) : Holds(i, r)) =>
        (\E i \in 1 .. Len(history) : Holds(i, r))'
  BY <1>2 DEF Commit_
<1>4. Len(history') \in Nat
  BY DEF Extends_
<1> QED BY <1>1, <1>2, <1>3, <1>4 DEF RunInv

----------------------------------------------------------------------------
(* What a step must show *)

\* Nothing of the other promotions changes.
Alone(t) ==
    \A r \in Runs \ {t} :
        /\ pc'[r] = pc[r] /\ listed'[r] = listed[r]
        /\ parent'[r] = parent[r] /\ revision'[r] = revision[r]
        /\ checkpoints'[r] = checkpoints[r] /\ report'[r] = report[r]

\* A commit by a promotion that had listed files lies on its own adapter.
Rightful(c) == c.by \in Runs /\ ~c.blind => Commit_(c.parent) /\ Mine(c.parent, c.by)

HubStep ==
    \/ history' = history
    \/ \E c \in CommitRecords : Appends(c) /\ Rightful(c)

LEMMA HubStepInv ==
  ASSUME Inv, HubStep
  PROVE  /\ Extends_
         /\ history' \in Seq(CommitRecords)
         /\ \A i \in 1 .. Len(history') : history'[i].parent < i
         /\ \A i \in 1 .. Len(history') : KeepsAdapter(i)'
<1>1. HistoryStep
  BY DEF HubStep, HistoryStep
<1>2. Extends_ /\ history' \in Seq(CommitRecords)
  BY <1>1, HistoryStepExtends DEF Inv, HubInv
<1>3. \A i \in 1 .. Len(history) : history[i].parent < i /\ KeepsAdapter(i)
  BY DEF Inv, HubInv
<1>4. \A i \in 1 .. Len(history) : history'[i].parent < i /\ KeepsAdapter(i)'
  <2>1. SUFFICES ASSUME NEW i \in 1 .. Len(history)
                 PROVE  history'[i].parent < i /\ KeepsAdapter(i)'
    OBVIOUS
  <2>2. history'[i] = history[i] /\ history[i].parent < i /\ KeepsAdapter(i)
    BY <1>2, <1>3 DEF Extends_
  <2>3. ASSUME history[i].by \in Runs, ~history[i].blind
        PROVE  Commit_(history[i].parent)' /\ Mine(history[i].parent, history[i].by)'
    BY <1>2, <2>2, <2>3 DEF KeepsAdapter, Extends_, Commit_, Mine
  <2> QED BY <2>2, <2>3 DEF KeepsAdapter, Commit_, Mine
<1>5. CASE history' = history
  BY <1>2, <1>4, <1>5
<1>6. ASSUME NEW c \in CommitRecords, Appends(c), Rightful(c)
      PROVE  \A i \in 1 .. Len(history') : history'[i].parent < i /\ KeepsAdapter(i)'
  <2>1. /\ Len(history') = Len(history) + 1 /\ history'[Len(history) + 1] = c
        /\ c.parent = Len(history) /\ Len(history) \in Nat
    BY <1>6, AppendFacts DEF Appends, Inv, HubInv
  <2>2. \A i \in 1 .. Len(history') : i \in 1 .. Len(history) \/ i = Len(history) + 1
    BY <2>1
  <2>3. ASSUME c.by \in Runs, ~c.blind
        PROVE  Commit_(c.parent)' /\ Mine(c.parent, c.by)'
    BY <1>2, <1>6, <2>3 DEF Rightful, Extends_, Commit_, Mine
  <2>4. ASSUME NEW i, i = Len(history) + 1
        PROVE  history'[i].parent < i /\ KeepsAdapter(i)'
    <3>1. history'[i] = c /\ c.parent < i
      BY <2>1, <2>4
    <3> QED BY <2>3, <3>1 DEF KeepsAdapter, Commit_, Mine
  <2> QED BY <1>4, <2>2, <2>4
<1> QED BY <1>2, <1>5, <1>6 DEF HubStep

LEMMA StepInv ==
  ASSUME Inv, HubStep, edits' \in 0 .. MaxEdits, DiskInv', MemoryInv', CountersInv',
         NEW t \in Runs, Alone(t), RunInv(t)'
  PROVE  Inv'
<1>1. Extends_ /\ HubInv' /\ (\A i \in 1 .. Len(history) : KeepsAdapter(i))'
  BY HubStepInv DEF HubInv
<1>2. ASSUME NEW r \in Runs \ {t} PROVE RunInv(r)'
  <2>1. RunInv(r) /\ parent[r] \in Nat /\ revision[r] \in Nat
    BY DEF Inv, MemoryInv
  <2> QED BY <1>1, <2>1, RunFrame DEF Alone
<1> QED BY <1>1, <1>2 DEF Inv

\* A command that exits or is killed, having changed no file of its own.
LEMMA EndingStep ==
  ASSUME Inv, HubStep, edits' \in 0 .. MaxEdits, UNCHANGED disk, CountersInv',
         NEW t \in Runs, End(t)
  PROVE  Inv'
<1>1. Extends_
  BY HubStepInv
<1>2. MemoryInv /\ DiskInv /\ RunInv(t)
  BY DEF Inv
<1>3. DiskInv' /\ checkpoints' = checkpoints /\ report' = report
  BY <1>2 DEF DiskInv, disk
<1>4. MemoryInv' /\ Alone(t)
  BY <1>2, <1>3 DEF MemoryInv, End, Goto, Places, Alone
<1>5. RunInv(t)'
  BY <1>1, <1>2, <1>3, RunEnds
<1> QED BY <1>3, <1>4, <1>5, StepInv

LEMMA InitInv == Init => Inv
<1> SUFFICES ASSUME Init PROVE Inv
  OBVIOUS
<1>1. InitialCommit \in CommitRecords /\ InitialCommit.parent = 0 /\ InitialCommit.by = Foreign
  BY DEF InitialCommit, EmptyTree, CommitRecords, Contents
<1>2. /\ history \in Seq(CommitRecords) /\ Len(history) \in 0 .. 1
      /\ \A i \in 1 .. Len(history) : i = 1 /\ history[i] = InitialCommit
  <2>1. CASE history = <<>>
    BY <2>1
  <2>2. CASE history = <<InitialCommit>>
    BY <1>1, <2>2
  <2> QED BY <2>1, <2>2 DEF Init
<1>3. HubInv
  BY <1>1, <1>2, PromotionAssumption DEF Init, HubInv
<1>4. DiskInv /\ CountersInv
  BY PromotionAssumption DEF Init, DiskInv, CountersInv
<1>5. MemoryInv
  <2>1. "idle" \in Places
    BY DEF Places
  <2>2. pc \in [Runs -> Places] /\ parent \in [Runs -> Nat] /\ revision \in [Runs -> Nat]
    BY <2>1 DEF Init
  <2>3. listed \in [Runs -> SUBSET Names]
    BY DEF Init
  <2> QED BY <2>2, <2>3 DEF MemoryInv
<1>7. ASSUME NEW r \in Runs PROVE RunInv(r)
  <2>1. /\ pc[r] = "idle" /\ checkpoints[r] = "whole" /\ report[r] = None
        /\ parent[r] = 0 /\ revision[r] = 0
    BY DEF Init
  <2> QED BY <1>2, <2>1 DEF RunInv
<1>6. \A i \in 1 .. Len(history) : KeepsAdapter(i)
  BY <1>1, <1>2, PromotionAssumption DEF KeepsAdapter
<1> QED BY <1>3, <1>4, <1>5, <1>6, <1>7 DEF Inv

----------------------------------------------------------------------------
(* One lemma per action *)

\* A step that moves promotion t to a place where it need not know more.
LEMMA GotoStep ==
  ASSUME Inv, HubStep, edits' \in 0 .. MaxEdits, DiskInv', UNCHANGED <<checkpoints, report>>,
         CountersInv', NEW t \in Runs, pc[t] # "idle",
         NEW label \in {"validate", "archive", "repo", "list"}, Goto(t, label),
         UNCHANGED <<listed, parent, revision>>
  PROVE  Inv'
<1>1. Extends_ /\ MemoryInv /\ RunInv(t)
  BY HubStepInv DEF Inv
<1>2. label \in Places
  BY DEF Places
<1>3. MemoryInv' /\ Alone(t) /\ pc'[t] = label
  BY <1>1, <1>2 DEF MemoryInv, Goto, Alone
<1>4. RunInv(t)'
  <2>1. \A i : Commit_(i) => Commit_(i)' /\ (Holds(i, t) => Holds(i, t)')
    BY <1>1, CommitsStay DEF Commit_
  <2>2. (\E i \in 1 .. Len(history) : Holds(i, t)) =>
          (\E i \in 1 .. Len(history) : Holds(i, t))'
    BY <2>1 DEF Commit_
  <2>3. parent'[t] <= Len(history') /\ revision'[t] <= Len(history')
    BY <1>1 DEF RunInv, Extends_, MemoryInv
  <2> QED BY <1>1, <1>3, <2>1, <2>2, <2>3 DEF RunInv
<1> QED BY <1>3, <1>4, StepInv

LEMMA PromoteInv ==
  ASSUME Inv, NEW t \in Runs, Promote(t)
  PROVE  Inv'
<1>1. HubStep /\ edits' \in 0 .. MaxEdits /\ CountersInv' /\ DiskInv'
  BY DEF Promote, HubStep, hub, disk, Inv, HubInv, CountersInv, DiskInv
<1>2. MemoryInv /\ RunInv(t) /\ pc[t] = "idle" /\ report[t] = None
  BY DEF Inv, Promote
<1>3. "validate" \in Places
  BY DEF Places
<1>4. MemoryInv' /\ Alone(t) /\ pc'[t] = "validate"
  BY <1>2, <1>3 DEF MemoryInv, Promote, Goto, Alone, disk
<1>5. history' = history /\ checkpoints' = checkpoints /\ report' = report
      /\ parent' = parent /\ revision' = revision
  BY DEF Promote, hub, disk
<1>6. RunInv(t)'
  BY <1>2, <1>4, <1>5 DEF RunInv, Commit_, Holds
<1> QED BY <1>1, <1>4, <1>6, StepInv

LEMMA ValidateInv ==
  ASSUME Inv, NEW t \in Runs, Validate(t)
  PROVE  Inv'
<1>1. HubStep /\ edits' \in 0 .. MaxEdits /\ CountersInv' /\ DiskInv' /\ UNCHANGED disk
  BY DEF Validate, HubStep, hub, disk, Inv, HubInv, CountersInv, DiskInv
<1>2. CASE Goto(t, "archive") /\ UNCHANGED <<listed, parent, revision>>
  BY <1>1, <1>2, GotoStep DEF Validate, disk
<1>3. CASE End(t)
  BY <1>1, <1>3, EndingStep
<1> QED BY <1>2, <1>3 DEF Validate

LEMMA BuildArchiveInv ==
  ASSUME Inv, NEW t \in Runs, BuildArchive(t)
  PROVE  Inv'
<1>1. HubStep /\ edits' \in 0 .. MaxEdits /\ CountersInv' /\ UNCHANGED <<checkpoints, report>>
  BY DEF BuildArchive, HubStep, hub, Inv, HubInv, CountersInv
<1>2. DiskInv'
  BY <1>1 DEF BuildArchive, Inv, DiskInv
<1>3. CASE Goto(t, "repo") /\ UNCHANGED <<listed, parent, revision>>
  BY <1>1, <1>2, <1>3, GotoStep DEF BuildArchive
<1>4. CASE End(t) /\ UNCHANGED archive
  BY <1>1, <1>4, EndingStep DEF disk
<1> QED BY <1>3, <1>4 DEF BuildArchive

LEMMA InitialCommitFacts ==
  /\ InitialCommit \in CommitRecords /\ InitialCommit.parent = 0
  /\ ~(InitialCommit.by \in Runs)
BY PromotionAssumption DEF InitialCommit, EmptyTree, CommitRecords, Contents

LEMMA EnsureRepoInv ==
  ASSUME Inv, NEW t \in Runs, EnsureRepo(t)
  PROVE  Inv'
<1>1. edits' \in 0 .. MaxEdits /\ CountersInv' /\ DiskInv' /\ UNCHANGED disk
  BY DEF EnsureRepo, disk, Inv, HubInv, CountersInv, DiskInv
<1>2. HubStep
  <2>1. CASE history' = history
    BY <2>1 DEF HubStep
  <2>2. CASE history = <<>> /\ history' = <<InitialCommit>>
    <3>1. Appends(InitialCommit) /\ Rightful(InitialCommit)
      BY <2>2, InitialCommitFacts DEF Appends, Rightful
    <3> QED BY <3>1, InitialCommitFacts DEF HubStep
  <2> QED BY <2>1, <2>2 DEF EnsureRepo
<1> QED BY <1>1, <1>2, GotoStep DEF EnsureRepo, disk

LEMMA ListFilesInv ==
  ASSUME Inv, NEW t \in Runs, ListFiles(t)
  PROVE  Inv'
<1>1. HubStep /\ edits' \in 0 .. MaxEdits /\ CountersInv' /\ DiskInv' /\ UNCHANGED disk
  BY DEF ListFiles, HubStep, hub, disk, Inv, HubInv, CountersInv, DiskInv
<1>2. CASE history # <<>> /\ Goto(t, "info") /\ UNCHANGED <<parent, revision>>
           /\ listed' = [listed EXCEPT ![t] = Present(Head_.tree)]
  <2>1. MemoryInv /\ RunInv(t) /\ pc[t] = "list" /\ history' = history
        /\ checkpoints' = checkpoints /\ report' = report
    BY DEF Inv, ListFiles, hub, disk
  <2>2. "info" \in Places /\ Present(Head_.tree) \in SUBSET Names
    BY DEF Places, Present
  <2>3. MemoryInv' /\ Alone(t) /\ pc'[t] = "info"
    BY <1>2, <2>1, <2>2 DEF MemoryInv, Goto, Alone
  <2>4. 1 \in 1 .. Len(history)
    BY <1>2 DEF Inv, HubInv
  <2>5. RunInv(t)'
    BY <1>2, <2>1, <2>3, <2>4 DEF RunInv, Commit_, Holds
  <2> QED BY <1>1, <2>3, <2>5, StepInv
<1>3. CASE End(t)
  BY <1>1, <1>3, EndingStep
<1> QED BY <1>2, <1>3 DEF ListFiles

LEMMA ReadInfoInv ==
  ASSUME Inv, NEW t \in Runs, ReadInfo(t)
  PROVE  Inv'
<1>1. HubStep /\ edits' \in 0 .. MaxEdits /\ CountersInv' /\ DiskInv'
  BY DEF ReadInfo, HubStep, hub, disk, Inv, HubInv, CountersInv, DiskInv
<1>2. MemoryInv /\ RunInv(t) /\ pc[t] = "info" /\ history' = history
      /\ checkpoints' = checkpoints /\ report' = report
  BY DEF Inv, ReadInfo, hub, disk
<1>3. "inspect" \in Places /\ Len(history) \in 1 .. Len(history)
  BY <1>2 DEF Places, RunInv, Commit_, Inv, HubInv
<1>4. MemoryInv' /\ Alone(t) /\ pc'[t] = "inspect" /\ parent'[t] = Len(history)
  BY <1>2, <1>3 DEF MemoryInv, ReadInfo, Goto, Alone
<1>5. RunInv(t)'
  BY <1>2, <1>3, <1>4 DEF RunInv, Commit_, Holds, ReadInfo
<1> QED BY <1>1, <1>4, <1>5, StepInv

LEMMA InspectInv ==
  ASSUME Inv, NEW t \in Runs, Inspect(t)
  PROVE  Inv'
<1>1. HubStep /\ edits' \in 0 .. MaxEdits /\ CountersInv' /\ DiskInv' /\ UNCHANGED disk
  BY DEF Inspect, HubStep, hub, disk, Inv, HubInv, CountersInv, DiskInv
<1>2. CASE Acceptable(t) /\ Goto(t, "commit") /\ UNCHANGED <<listed, parent, revision>>
  <2>1. MemoryInv /\ RunInv(t) /\ pc[t] = "inspect" /\ history' = history
        /\ checkpoints' = checkpoints /\ report' = report
    BY DEF Inv, Inspect, hub, disk
  <2>2. "commit" \in Places /\ (listed[t] # {} => Mine(parent[t], t))
    BY <1>2 DEF Places, Acceptable, Mine
  <2>3. MemoryInv' /\ Alone(t) /\ pc'[t] = "commit"
    BY <1>2, <2>1, <2>2 DEF MemoryInv, Goto, Alone
  <2>4. RunInv(t)'
    BY <1>2, <2>1, <2>2, <2>3 DEF RunInv, Commit_, Holds, Mine
  <2> QED BY <1>1, <2>3, <2>4, StepInv
<1>3. CASE End(t)
  BY <1>1, <1>3, EndingStep
<1> QED BY <1>2, <1>3 DEF Inspect

\* An upload that the Hub accepts is a commit on top of the inspected one.
LEMMA ApplyCommitStep ==
  ASSUME Inv, NEW t \in Runs, pc[t] = "commit", ApplyCommit(t)
  PROVE  HubStep /\ Len(history) \in 1 .. Len(history)
<1>1. MemoryInv /\ RunInv(t) /\ history \in Seq(CommitRecords)
  BY DEF Inv, HubInv
<1>2. Len(history) = parent[t] /\ Len(history) \in 1 .. Len(history)
  BY <1>1 DEF ApplyCommit, RunInv, Commit_
<1> DEFINE c == [tree |-> Uploaded(t), by |-> t, parent |-> parent[t], blind |-> listed[t] = {}]
<1>3. Head_ \in CommitRecords
  BY <1>1, <1>2 DEF Head_
<1>4. Uploaded(t) \in [Names -> Contents]
  BY <1>3 DEF Uploaded, Contents, CommitRecords
<1>5. c \in CommitRecords
  BY <1>1, <1>2, <1>4 DEF CommitRecords
<1>6. Rightful(c)
  BY <1>1 DEF Rightful, RunInv
<1>7. history' = history \/ Appends(c)
  BY <1>2 DEF ApplyCommit, Appends
<1> QED BY <1>2, <1>5, <1>6, <1>7 DEF HubStep

LEMMA CommitInv ==
  ASSUME Inv, NEW t \in Runs, Commit(t)
  PROVE  Inv'
<1>1. HubStep /\ Len(history) \in 1 .. Len(history)
  BY ApplyCommitStep DEF Commit
<1>2. edits' \in 0 .. MaxEdits /\ CountersInv' /\ DiskInv'
  BY DEF Commit, disk, Inv, HubInv, CountersInv, DiskInv
<1>3. Extends_ /\ MemoryInv /\ RunInv(t) /\ pc[t] = "commit"
      /\ checkpoints' = checkpoints /\ report' = report
  BY <1>1, HubStepInv DEF Inv, Commit, disk
<1>4. "verify" \in Places /\ Len(history') \in 1 .. Len(history')
  BY <1>1, <1>3 DEF Places, Extends_
<1>5. MemoryInv' /\ Alone(t) /\ pc'[t] = "verify" /\ revision'[t] = Len(history')
      /\ parent'[t] = parent[t]
  BY <1>3, <1>4 DEF MemoryInv, Commit, Goto, Alone
<1>6. RunInv(t)'
  <2>1. (\E i \in 1 .. Len(history) : Holds(i, t)) =>
          (\E i \in 1 .. Len(history) : Holds(i, t))'
    BY <1>3, CommitsStay DEF Commit_
  <2>2. parent'[t] <= Len(history')
    BY <1>3, <1>5 DEF RunInv, Extends_, MemoryInv
  <2> QED BY <1>3, <1>4, <1>5, <2>1, <2>2 DEF RunInv, Commit_
<1> QED BY <1>1, <1>2, <1>5, <1>6, StepInv

LEMMA CommitRefusedInv ==
  ASSUME Inv, NEW t \in Runs, CommitRefused(t)
  PROVE  Inv'
<1>1. HubStep /\ edits' \in 0 .. MaxEdits /\ CountersInv'
  BY DEF CommitRefused, HubStep, hub, Inv, HubInv, CountersInv
<1> QED BY <1>1, EndingStep DEF CommitRefused

LEMMA CommitUnansweredInv ==
  ASSUME Inv, NEW t \in Runs, CommitUnanswered(t)
  PROVE  Inv'
<1>1. HubStep
  BY ApplyCommitStep DEF CommitUnanswered, HubStep
<1>2. edits' \in 0 .. MaxEdits /\ CountersInv'
  BY PromotionAssumption DEF CommitUnanswered, Inv, HubInv, CountersInv
<1> QED BY <1>1, <1>2, EndingStep DEF CommitUnanswered

LEMMA VerifyInv ==
  ASSUME Inv, NEW t \in Runs, Verify(t)
  PROVE  Inv'
<1>1. HubStep /\ edits' \in 0 .. MaxEdits /\ CountersInv' /\ DiskInv' /\ UNCHANGED disk
  BY DEF Verify, HubStep, hub, disk, Inv, HubInv, CountersInv, DiskInv
<1>2. CASE Holds(revision[t], t) /\ Goto(t, IF t \in MayDelete THEN "clean" ELSE "report")
           /\ UNCHANGED <<listed, parent, revision>>
  <2>1. MemoryInv /\ RunInv(t) /\ pc[t] = "verify" /\ history' = history
        /\ checkpoints' = checkpoints /\ report' = report
    BY DEF Inv, Verify, hub, disk
  <2>2. "clean" \in Places /\ "report" \in Places
    BY DEF Places
  <2>3. MemoryInv' /\ Alone(t) /\ pc'[t] = IF t \in MayDelete THEN "clean" ELSE "report"
    BY <1>2, <2>1, <2>2 DEF MemoryInv, Goto, Alone
  <2>4. RunInv(t)'
    BY <1>2, <2>1, <2>3 DEF RunInv, Commit_, Holds
  <2> QED BY <1>1, <2>3, <2>4, StepInv
<1>3. CASE End(t)
  BY <1>1, <1>3, EndingStep
<1> QED BY <1>2, <1>3 DEF Verify

LEMMA DownloadFailsInv ==
  ASSUME Inv, NEW t \in Runs, DownloadFails(t)
  PROVE  Inv'
<1>1. HubStep /\ edits' \in 0 .. MaxEdits /\ CountersInv'
  BY PromotionAssumption DEF DownloadFails, HubStep, hub, Inv, HubInv, CountersInv
<1> QED BY <1>1, EndingStep DEF DownloadFails

LEMMA StartCleanupInv ==
  ASSUME Inv, NEW t \in Runs, StartCleanup(t)
  PROVE  Inv'
<1>1. HubStep /\ edits' \in 0 .. MaxEdits /\ CountersInv' /\ history' = history
  BY DEF StartCleanup, HubStep, hub, Inv, HubInv, CountersInv
<1>2. MemoryInv /\ DiskInv /\ RunInv(t) /\ pc[t] = "clean"
  BY DEF Inv, StartCleanup
<1>3. DiskInv' /\ checkpoints'[t] = "partial" /\ report' = report
  BY <1>2 DEF DiskInv, StartCleanup
<1>4. "cleaning" \in Places
  BY DEF Places
<1>5. MemoryInv' /\ Alone(t) /\ pc'[t] = "cleaning" /\ UNCHANGED <<parent, revision>>
  BY <1>2, <1>4 DEF MemoryInv, DiskInv, StartCleanup, Goto, Alone
<1>6. Commit_(revision[t]) /\ Holds(revision[t], t) /\ report[t] = None
  BY <1>2 DEF RunInv
<1>7. RunInv(t)'
  BY <1>1, <1>2, <1>3, <1>5, <1>6 DEF RunInv, Commit_, Holds
<1> QED BY <1>1, <1>3, <1>5, <1>7, StepInv

LEMMA FinishCleanupInv ==
  ASSUME Inv, NEW t \in Runs, FinishCleanup(t)
  PROVE  Inv'
<1>1. HubStep /\ edits' \in 0 .. MaxEdits /\ CountersInv' /\ history' = history
  BY DEF FinishCleanup, HubStep, hub, Inv, HubInv, CountersInv
<1>2. MemoryInv /\ DiskInv /\ RunInv(t) /\ pc[t] = "cleaning"
  BY DEF Inv, FinishCleanup
<1>3. DiskInv' /\ checkpoints'[t] = "gone" /\ report' = report
  BY <1>2 DEF DiskInv, FinishCleanup
<1>4. "report" \in Places
  BY DEF Places
<1>5. MemoryInv' /\ Alone(t) /\ pc'[t] = "report" /\ UNCHANGED <<parent, revision>>
  BY <1>2, <1>4 DEF MemoryInv, DiskInv, FinishCleanup, Goto, Alone
<1>6. Commit_(revision[t]) /\ Holds(revision[t], t) /\ report[t] = None
  BY <1>2 DEF RunInv
<1>7. RunInv(t)'
  BY <1>1, <1>2, <1>3, <1>5, <1>6 DEF RunInv, Commit_, Holds
<1> QED BY <1>1, <1>3, <1>5, <1>7, StepInv

LEMMA WriteReportInv ==
  ASSUME Inv, NEW t \in Runs, WriteReport(t)
  PROVE  Inv'
<1> DEFINE rep == [revision |-> revision[t], deleted |-> t \in MayDelete]
<1>1. HubStep /\ edits' \in 0 .. MaxEdits /\ CountersInv' /\ history' = history
  BY DEF WriteReport, HubStep, hub, Inv, HubInv, CountersInv
<1>2. MemoryInv /\ DiskInv /\ RunInv(t) /\ pc[t] = "report" /\ End(t)
  BY DEF Inv, WriteReport
<1>3. rep \in [revision : Nat, deleted : BOOLEAN]
  BY <1>2 DEF MemoryInv
<1>4. report' = [report EXCEPT ![t] = rep] /\ checkpoints' = checkpoints /\ archive' = archive
  BY DEF WriteReport
<1>5. DiskInv' /\ report'[t] = rep
  BY <1>2, <1>3, <1>4 DEF DiskInv
<1>6. /\ MemoryInv' /\ Alone(t)
      /\ pc'[t] = "idle" /\ parent'[t] = 0 /\ revision'[t] = 0
  BY <1>2, <1>4 DEF MemoryInv, DiskInv, End, Goto, Places, Alone
<1>7. /\ Commit_(rep.revision) /\ Holds(rep.revision, t)
      /\ rep.deleted => checkpoints[t] = "gone"
      /\ Len(history) \in Nat
  <2>1. /\ Commit_(revision[t]) /\ Holds(revision[t], t)
        /\ t \in MayDelete => checkpoints[t] = "gone"
        /\ Len(history) \in Nat
    BY <1>2 DEF RunInv, Inv, HubInv
  <2>2. rep.revision = revision[t] /\ rep.deleted = (t \in MayDelete)
    OBVIOUS
  <2> QED BY <2>1, <2>2, Zenon
<1> HIDE DEF rep
<1>8. RunInv(t)'
  BY <1>1, <1>2, <1>4, <1>5, <1>6, <1>7 DEF RunInv, Commit_, Holds
<1> QED BY <1>1, <1>5, <1>6, <1>8, StepInv

LEMMA CrashInv ==
  ASSUME Inv, NEW t \in Runs, Crash(t)
  PROVE  Inv'
<1>1. HubStep /\ edits' \in 0 .. MaxEdits /\ CountersInv'
  BY PromotionAssumption DEF Crash, HubStep, hub, Inv, HubInv, CountersInv
<1> QED BY <1>1, EndingStep DEF Crash

LEMMA DamageArchiveInv ==
  ASSUME Inv, NEW t \in Runs, DamageArchive(t)
  PROVE  Inv'
<1>1. HubStep /\ edits' \in 0 .. MaxEdits /\ CountersInv' /\ history' = history
  BY PromotionAssumption DEF DamageArchive, HubStep, hub, Inv, HubInv, CountersInv
<1>2. MemoryInv /\ DiskInv /\ RunInv(t) /\ archive[t] # None
  BY DEF Inv, DamageArchive
<1>3. PICK n \in Managed[t] : archive' = [archive EXCEPT ![t] = @ \cup {n}]
  BY DEF DamageArchive
<1>4. archive[t] \cup {n} \in SUBSET Names
  BY <1>2, PromotionAssumption DEF DiskInv
<1>5. DiskInv' /\ MemoryInv' /\ Alone(t)
  BY <1>2, <1>3, <1>4 DEF DiskInv, MemoryInv, DamageArchive, memory, Alone
<1>6. RunInv(t)'
  BY <1>1, <1>2 DEF RunInv, Commit_, Holds, Mine, DamageArchive, memory
<1> QED BY <1>1, <1>5, <1>6, StepInv

\* A commit by somebody else.
LEMMA OthersEditInv ==
  ASSUME Inv, OthersEdit
  PROVE  Inv'
<1>1. PICK n \in Names :
        history' = Append(history, [tree |-> [Head_.tree EXCEPT ![n] = Foreign],
                                    by |-> Foreign, parent |-> Len(history), blind |-> FALSE])
  BY DEF OthersEdit
<1> DEFINE c == [tree |-> [Head_.tree EXCEPT ![n] = Foreign], by |-> Foreign,
                 parent |-> Len(history), blind |-> FALSE]
<1>2. history \in Seq(CommitRecords) /\ Len(history) \in 1 .. Len(history)
  BY DEF OthersEdit, Inv, HubInv
<1>3. Head_ \in CommitRecords
  BY <1>2 DEF Head_
<1>4. [Head_.tree EXCEPT ![n] = Foreign] \in [Names -> Contents]
  BY <1>3 DEF Contents, CommitRecords
<1>5. c \in CommitRecords /\ Appends(c) /\ Rightful(c)
  BY <1>1, <1>2, <1>4, PromotionAssumption DEF CommitRecords, Appends, Rightful
<1>6. HubStep
  BY <1>5 DEF HubStep
<1>7. edits' \in 0 .. MaxEdits /\ CountersInv' /\ DiskInv' /\ MemoryInv'
  BY PromotionAssumption
  DEF OthersEdit, Inv, HubInv, CountersInv, DiskInv, MemoryInv, disk, memory
<1>8. Extends_ /\ HubInv' /\ (\A i \in 1 .. Len(history) : KeepsAdapter(i))'
  BY <1>6, <1>7, HubStepInv DEF HubInv
<1>9. ASSUME NEW r \in Runs PROVE RunInv(r)'
  <2>1. RunInv(r) /\ parent[r] \in Nat /\ revision[r] \in Nat
    BY DEF Inv, MemoryInv
  <2> QED BY <1>8, <2>1, RunFrame DEF OthersEdit, disk, memory
<1> QED BY <1>7, <1>8, <1>9 DEF Inv

LEMMA NextInv == Inv /\ [Next]_vars => Inv'
<1> SUFFICES ASSUME Inv, [Next]_vars PROVE Inv'
  OBVIOUS
<1>1. ASSUME NEW t \in Runs, Step(t) PROVE Inv'
  BY <1>1, ValidateInv, BuildArchiveInv, EnsureRepoInv, ListFilesInv, ReadInfoInv, InspectInv,
     CommitInv, CommitRefusedInv, VerifyInv, StartCleanupInv, FinishCleanupInv, WriteReportInv
  DEF Step
<1>2. CASE UNCHANGED vars
  BY <1>2 DEF vars, hub, disk, memory, Inv, HubInv, DiskInv, MemoryInv, CountersInv,
              RunInv, Commit_, Holds, Mine, KeepsAdapter
<1> QED BY <1>1, <1>2, PromoteInv, CommitUnansweredInv, DownloadFailsInv, CrashInv,
           DamageArchiveInv, OthersEditInv DEF Next

LEMMA Invariance == Spec => []Inv
BY InitInv, NextInv, PTL DEF Spec

----------------------------------------------------------------------------
(* The theorems *)

\* Every variable has its type; in particular a parent or a revision that a promotion
\* remembers is a commit that exists.
THEOREM TypeCorrect == Spec => []TypeOK
<1>1. Inv => TypeOK
  <2> SUFFICES ASSUME Inv PROVE TypeOK
    OBVIOUS
  <2>1. \A i \in 1 .. Len(history) :
          /\ history[i].tree \in [Names -> Runs \cup {None, Foreign, Damaged}]
          /\ history[i].by \in Runs \cup {Foreign}
          /\ history[i].parent \in 0 .. i - 1
    <3>1. \A i \in 1 .. Len(history) : history[i] \in CommitRecords /\ history[i].parent < i
      BY DEF Inv, HubInv
    <3> QED BY <3>1 DEF CommitRecords, Contents
  <2>2. report \in [Runs -> [revision : 1 .. Len(history), deleted : BOOLEAN] \cup {None}]
    <3>1. ASSUME NEW r \in Runs, report[r] # None
          PROVE  report[r] \in [revision : 1 .. Len(history), deleted : BOOLEAN]
      BY <3>1 DEF Inv, DiskInv, RunInv, Commit_
    <3> QED BY <3>1 DEF Inv, DiskInv
  <2>3. parent \in [Runs -> 0 .. Len(history)] /\ revision \in [Runs -> 0 .. Len(history)]
    BY DEF Inv, MemoryInv, RunInv, HubInv
  <2> QED BY <2>1, <2>2, <2>3 DEF TypeOK, Inv, HubInv, DiskInv, MemoryInv, CountersInv
<1> QED BY <1>1, Invariance, PTL

\* However many promotions race, die, are damaged or are edited over: while any checkpoint of
\* a run is missing, some commit holds its whole archive undamaged.
THEOREM NoCheckpointIsLost == Spec => []CheckpointsOutliveVerification
<1>1. Inv => CheckpointsOutliveVerification
  BY DEF Inv, RunInv, CheckpointsOutliveVerification
<1> QED BY <1>1, Invariance, PTL

\* A success report names a commit that holds what was promoted.
THEOREM ReportsAreTrue == Spec => []ReportIsTrue
<1>1. Inv => ReportIsTrue
  BY DEF Inv, RunInv, ReportIsTrue
<1> QED BY <1>1, Invariance, PTL

\* A promotion that saw files commits only on top of its own adapter.
THEOREM AdaptersAreKept == Spec => []ListedRepoKeepsItsAdapter
<1>1. Inv => ListedRepoKeepsItsAdapter
  BY DEF Inv, KeepsAdapter, Mine, ListedRepoKeepsItsAdapter
<1> QED BY <1>1, Invariance, PTL
====
