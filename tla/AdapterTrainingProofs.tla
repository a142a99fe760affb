---- MODULE AdapterTrainingProofs ----
(***************************************************************************)
(* Theorems about TrainedAdapters, for any number of finalizations,        *)
(* sessions, training configurations, directories, corpora, libraries and  *)
(* revisions of the base.                                                  *)
(***************************************************************************)
EXTENDS TrainedAdapters, FiniteSetTheorems, SequenceTheorems, WellFoundedInduction, TLAPS

----------------------------------------------------------------------------
(* The inductive invariant *)

Holding == {"copy", "load", "train", "save", "report"}
Resolved == {"output", "verify", "claim"} \cup Holding
BeforeLoad == {"idle", "outer", "plan", "output", "verify", "claim", "copy", "load"}

Shape ==
    /\ pc = [s \in Sessions |-> pc[s]] /\ DOMAIN job = Sessions /\ DOMAIN outputs = Dirs
    /\ \A s \in Sessions : DOMAIN job[s] = {"do", "named", "plan", "data"}
    /\ \A d \in Dirs : DOMAIN outputs[d] =
         {"owner", "kind", "preflight", "copy", "run", "adapter", "manifest", "report"}

\* A session that has made its directory is still its owner, and what was in the plan
\* when the directory was made is there still.
Owns(s) ==
    /\ pc[s] \notin {"idle", "done"} => job[s].do \in Jobs
    /\ pc[s] \in Holding =>
         /\ outputs[Dir(s)].owner = s
         /\ outputs[Dir(s)].kind = Kind(s)
         /\ outputs[Dir(s)].preflight = job[s].plan
    /\ pc[s] \in {"load", "train", "save", "report"} => outputs[Dir(s)].run = s

\* What makes a session count as one that will read the dataset again.
WillRead(s) ==
    /\ pc[s] \in Resolved => job[s].plan # None
    /\ pc[s] \in BeforeLoad => job[s].data = None
    /\ pc[s] = "plan" /\ Kind(s) = "full" => job[s].named # None

\* The dataset of a manifest, cut to what a kind of training takes of it.
DataOf(kind, data, plan) ==
    /\ IsPrefix(data.train, plan.train)
    /\ IsPrefix(data.validation, plan.validation)
    /\ kind # "smoke" => data = [train |-> plan.train, validation |-> plan.validation]

\* While no file was written under a session, all that it read agrees.
Agrees(s) ==
    /\ pc[s] \in Resolved /\ Kind(s) = "trajectory" => job[s].plan = Frozen
    /\ s \notin stale =>
         /\ pc[s] = "plan" /\ Kind(s) = "full" => job[s].named = files.manifest
         /\ pc[s] \in Resolved /\ Kind(s) = "full" => job[s].named = job[s].plan
         /\ pc[s] \in {"output", "verify", "claim", "copy"} => job[s].plan = files.manifest
         /\ pc[s] \in {"claim", "copy", "load"} =>
              /\ Loadable(files.train) /\ Contents(files.train) = job[s].plan.train
              /\ Loadable(files.validation)
              /\ Contents(files.validation) = job[s].plan.validation
         /\ pc[s] \in {"load", "train", "save", "report"} => outputs[Dir(s)].copy = job[s].plan
         /\ pc[s] \in {"train", "save", "report"} => DataOf(Kind(s), job[s].data, job[s].plan)

SessionInv(s) == Owns(s) /\ WillRead(s) /\ Agrees(s)

\* The artifacts of a directory are of its owner, who writes its report last.
Artifacts(out) ==
    /\ out.owner # None => out.owner \in Sessions
    /\ out.run \in {None, out.owner}
    /\ \A a \in {out.adapter, out.manifest, out.report} : a # None => a.by = out.owner
    /\ out.manifest # None => out.manifest.dataset = out.preflight
    /\ out.report # None => pc[out.owner] = "done" /\ out.owner # None
    /\ out.owner = None => out.adapter = None

Trained(out) ==
    out.adapter # None /\ out.owner \notin stale =>
        /\ DataOf(out.kind, out.adapter.of, out.preflight)
        /\ out.copy = out.preflight
        /\ out.kind = "trajectory" => out.preflight = Frozen

Reported(out) ==
    out.report # None =>
        /\ out.report.over = IF out.kind = "full"
                             THEN <<out.adapter, out.copy, out.run, out.manifest>>
                             ELSE <<out.adapter>>
        /\ out.kind \in {"candidate", "trajectory"} => out.adapter.saved = Snapshots
        /\ out.owner \notin stale =>
              /\ out.kind = "full" =>
                    /\ out.report.dataset = out.manifest.dataset
                    /\ out.adapter.of = [train |-> out.report.dataset.train,
                                         validation |-> out.report.dataset.validation]
              /\ out.kind = "trajectory" => out.report.dataset = out.copy

DirInv(d) == Artifacts(outputs[d]) /\ Trained(outputs[d]) /\ Reported(outputs[d])

TrainingInv ==
    /\ Shape
    /\ \A s \in Sessions : SessionInv(s)
    /\ \A d \in Dirs : DirInv(d)

----------------------------------------------------------------------------
(* Frames *)

LEMMA InitTrainingInv == Init => TrainingInv
<1> SUFFICES ASSUME Init PROVE TrainingInv
  OBVIOUS
<1>1. Shape
  BY DEF Init, Shape, NoJob, NoOutput
<1>2. \A s \in Sessions : SessionInv(s)
  BY DEF Init, SessionInv, Owns, WillRead, Agrees, Holding, Resolved, BeforeLoad, NoJob
<1>3. \A d \in Dirs : DirInv(d)
  BY DEF Init, DirInv, Artifacts, Trained, Reported, NoOutput
<1> QED BY <1>1, <1>2, <1>3 DEF TrainingInv

\* A session keeps its part of the invariant when nothing it refers to changes.
LEMMA SessionFrame ==
  ASSUME NEW t \in Sessions, SessionInv(t), pc'[t] = pc[t], job'[t] = job[t],
         pc[t] \in Holding => outputs'[Dir(t)] = outputs[Dir(t)],
         files' = files, stale' = stale
  PROVE  SessionInv(t)'
<1>1. Owns(t)'
  BY DEF SessionInv, Owns, Holding, Dir, Kind
<1>2. WillRead(t)'
  BY DEF SessionInv, WillRead, Kind
<1>3. Agrees(t)'
  BY DEF SessionInv, Agrees, Holding, Dir, Kind
<1> QED BY <1>1, <1>2, <1>3 DEF SessionInv

\* So does a directory, as long as a session that is done stays so.
LEMMA DirFrame ==
  ASSUME NEW d \in Dirs, DirInv(d), outputs'[d] = outputs[d], stale \subseteq stale',
         \A s \in Sessions : pc[s] = "done" => pc'[s] = "done"
  PROVE  DirInv(d)'
<1>1. Artifacts(outputs[d])'
  BY DEF DirInv, Artifacts
<1>2. Trained(outputs[d])'
  BY DEF DirInv, Trained
<1>3. Reported(outputs[d])'
  BY DEF DirInv, Reported
<1> QED BY <1>1, <1>2, <1>3 DEF DirInv

\* Two sessions that hold directories hold different ones.
LEMMA Apart ==
  ASSUME TrainingInv, NEW s \in Sessions, NEW t \in Sessions, s # t,
         pc[s] \in Holding, pc[t] \in Holding
  PROVE  Dir(s) # Dir(t)
BY DEF TrainingInv, SessionInv, Owns

LEMMA DirInDirs ==
  ASSUME TrainingInv, NEW s \in Sessions, pc[s] \notin {"idle", "done"}
  PROVE  Dir(s) \in Dirs /\ Kind(s) \in Kinds
BY TrainingAssumption DEF TrainingInv, SessionInv, Owns, Dir, Kind

\* A step of one session that writes no artifact.
LEMMA QuietStep ==
  ASSUME TrainingInv, NEW s \in Sessions, pc[s] # "done",
         NEW label, pc' = [pc EXCEPT ![s] = label],
         DOMAIN job' = Sessions, DOMAIN job'[s] = {"do", "named", "plan", "data"},
         \A t \in Sessions \ {s} : job'[t] = job[t],
         UNCHANGED <<files, outputs, stale>>,
         SessionInv(s)'
  PROVE  TrainingInv'
<1>1. \A t \in Sessions : t # s => pc'[t] = pc[t]
  BY DEF TrainingInv, Shape
<1>2. Shape'
  BY DEF TrainingInv, Shape
<1>3. ASSUME NEW t \in Sessions PROVE SessionInv(t)'
  <2>1. CASE t = s
    BY <2>1
  <2>2. CASE t # s
    BY <2>2, <1>1, SessionFrame DEF TrainingInv
  <2> QED BY <2>1, <2>2
<1>4. ASSUME NEW d \in Dirs PROVE DirInv(d)'
  BY <1>1, DirFrame DEF TrainingInv
<1> QED BY <1>2, <1>3, <1>4 DEF TrainingInv

\* A step of one session that writes to the directory that is, or becomes, its own.
LEMMA WritingStep ==
  ASSUME TrainingInv, NEW s \in Sessions, pc[s] \notin {"idle", "done"},
         pc[s] \in Holding \/ outputs[Dir(s)].owner = None,
         NEW label, pc' = [pc EXCEPT ![s] = label],
         DOMAIN job' = Sessions, DOMAIN job'[s] = {"do", "named", "plan", "data"},
         \A t \in Sessions \ {s} : job'[t] = job[t],
         DOMAIN outputs' = Dirs, \A d \in Dirs \ {Dir(s)} : outputs'[d] = outputs[d],
         DOMAIN outputs'[Dir(s)] =
           {"owner", "kind", "preflight", "copy", "run", "adapter", "manifest", "report"},
         UNCHANGED <<files, stale>>,
         SessionInv(s)', NEW mine \in Dirs, mine = Dir(s), DirInv(mine)'
  PROVE  TrainingInv'
<1>1. \A t \in Sessions : t # s => pc'[t] = pc[t]
  BY DEF TrainingInv, Shape
<1>2. Shape'
  BY DirInDirs DEF TrainingInv, Shape
<1>3. ASSUME NEW t \in Sessions PROVE SessionInv(t)'
  <2>1. CASE t = s
    BY <2>1
  <2>2. CASE t # s
    <3>1. ASSUME pc[t] \in Holding PROVE outputs'[Dir(t)] = outputs[Dir(t)]
      <4>1. Dir(t) \in Dirs
        BY <3>1, DirInDirs DEF Holding
      <4>2. Dir(t) # Dir(s)
        BY <2>2, <3>1, Apart, TrainingAssumption DEF TrainingInv, SessionInv, Owns
      <4> QED BY <4>1, <4>2
    <3> QED BY <2>2, <1>1, <3>1, SessionFrame DEF TrainingInv
  <2> QED BY <2>1, <2>2
<1>4. ASSUME NEW d \in Dirs PROVE DirInv(d)'
  <2>1. CASE d = mine
    BY <2>1
  <2>2. CASE d # mine
    BY <2>2, <1>1, DirFrame DEF TrainingInv
  <2> QED BY <2>1, <2>2
<1> QED BY <1>2, <1>3, <1>4 DEF TrainingInv

----------------------------------------------------------------------------
(* The steps of finalizations *)

LEMMA UnchangedInv ==
  ASSUME TrainingInv, UNCHANGED <<files, pc, job, outputs, stale>>
  PROVE  TrainingInv'
<1>1. Shape'
  BY DEF TrainingInv, Shape
<1>2. \A s \in Sessions : SessionInv(s)'
  BY SessionFrame DEF TrainingInv
<1>3. \A d \in Dirs : DirInv(d)'
  BY DirFrame DEF TrainingInv
<1> QED BY <1>1, <1>2, <1>3 DEF TrainingInv

\* A written file makes stale every session that reads the dataset again, and the others
\* refer to the files no more.
LEMMA WriteFileInv ==
  ASSUME TrainingInv, NEW f \in Finalizers, WriteFile(f)
  PROVE  TrainingInv'
<1>1. /\ UNCHANGED <<pc, job, outputs>> /\ stale \subseteq stale'
      /\ \A s \in Sessions : Reading(s) => s \in stale'
  BY DEF WriteFile, session
<1>2. Shape'
  BY <1>1 DEF TrainingInv, Shape
<1>3. ASSUME NEW s \in Sessions PROVE SessionInv(s)'
  <2>1. SessionInv(s)
    BY DEF TrainingInv
  <2>2. Owns(s)' /\ WillRead(s)'
    BY <1>1, <2>1 DEF SessionInv, Owns, WillRead, Dir, Kind
  <2>3. pc[s] \in {"output", "verify", "claim", "copy", "load"} => s \in stale'
    BY <1>1, <2>1 DEF SessionInv, WillRead, Reading, Resolved, BeforeLoad, Holding
  <2>4. pc[s] = "plan" /\ Kind(s) = "full" => s \in stale'
    BY <1>1, <2>1 DEF SessionInv, WillRead, Reading, BeforeLoad
  <2>5. Agrees(s)'
    BY <1>1, <2>1, <2>3, <2>4 DEF SessionInv, Agrees, Dir, Kind
  <2> QED BY <2>2, <2>5 DEF SessionInv
<1>4. ASSUME NEW d \in Dirs PROVE DirInv(d)'
  BY <1>1, DirFrame DEF TrainingInv
<1> QED BY <1>2, <1>3, <1>4 DEF TrainingInv

----------------------------------------------------------------------------
(* The steps of a session that write no artifact *)

LEMMA LaunchInv ==
  ASSUME TrainingInv, NEW s \in Sessions, NEW j \in Jobs, Launch(s, j)
  PROVE  TrainingInv'
<1> DEFINE label == IF j.kind = "full" THEN "outer" ELSE "plan"
<1>1. /\ pc[s] = "idle" /\ pc' = [pc EXCEPT ![s] = label]
      /\ job' = [job EXCEPT ![s].do = j] /\ UNCHANGED <<files, outputs, stale>>
  BY DEF Launch, Goto, dataset
<1>2. /\ DOMAIN job' = Sessions /\ DOMAIN job'[s] = {"do", "named", "plan", "data"}
      /\ \A t \in Sessions \ {s} : job'[t] = job[t]
      /\ job'[s].do = j /\ job'[s].data = job[s].data /\ pc'[s] = label
  BY <1>1 DEF TrainingInv, Shape
<1>3. SessionInv(s)'
  BY <1>1, <1>2 DEF TrainingInv, SessionInv, Owns, WillRead, Agrees, Kind, Dir,
     Holding, Resolved, BeforeLoad
<1> QED BY <1>1, <1>2, <1>3, QuietStep

LEMMA ResolveOuterInv ==
  ASSUME TrainingInv, NEW s \in Sessions, ResolveOuter(s)
  PROVE  TrainingInv'
<1>1. /\ pc[s] = "outer" /\ files.manifest # None /\ pc' = [pc EXCEPT ![s] = "plan"]
      /\ job' = [job EXCEPT ![s].named = files.manifest] /\ UNCHANGED <<files, outputs, stale>>
  BY DEF ResolveOuter, Goto, dataset
<1>2. /\ DOMAIN job' = Sessions /\ DOMAIN job'[s] = {"do", "named", "plan", "data"}
      /\ \A t \in Sessions \ {s} : job'[t] = job[t]
      /\ job'[s].do = job[s].do /\ job'[s].data = job[s].data
      /\ job'[s].named = files.manifest /\ pc'[s] = "plan"
  BY <1>1 DEF TrainingInv, Shape
<1>3. SessionInv(s)'
  BY <1>1, <1>2 DEF TrainingInv, SessionInv, Owns, WillRead, Agrees, Kind, Dir,
     Holding, Resolved, BeforeLoad
<1> QED BY <1>1, <1>2, <1>3, QuietStep

LEMMA ResolvePlanInv ==
  ASSUME TrainingInv, NEW s \in Sessions, ResolvePlan(s)
  PROVE  TrainingInv'
<1>1. /\ pc[s] = "plan" /\ files.manifest # None /\ pc' = [pc EXCEPT ![s] = "output"]
      /\ Kind(s) = "trajectory" => files.manifest = Frozen
      /\ job' = [job EXCEPT ![s].plan = files.manifest] /\ UNCHANGED <<files, outputs, stale>>
  BY DEF ResolvePlan, LocalCorpus, Goto, dataset
<1>2. /\ DOMAIN job' = Sessions /\ DOMAIN job'[s] = {"do", "named", "plan", "data"}
      /\ \A t \in Sessions \ {s} : job'[t] = job[t]
      /\ job'[s].do = job[s].do /\ job'[s].data = job[s].data
      /\ job'[s].named = job[s].named /\ job'[s].plan = files.manifest /\ pc'[s] = "output"
  BY <1>1 DEF TrainingInv, Shape
<1>3. SessionInv(s)'
  BY <1>1, <1>2 DEF TrainingInv, SessionInv, Owns, WillRead, Agrees, Kind, Dir,
     Holding, Resolved, BeforeLoad
<1> QED BY <1>1, <1>2, <1>3, QuietStep

LEMMA CheckOutputInv ==
  ASSUME TrainingInv, NEW s \in Sessions, CheckOutput(s)
  PROVE  TrainingInv'
<1>1. /\ pc[s] = "output" /\ pc' = [pc EXCEPT ![s] = "verify"]
      /\ job' = job /\ UNCHANGED <<files, outputs, stale>>
  BY DEF CheckOutput, Goto, dataset
<1>2. /\ DOMAIN job' = Sessions /\ DOMAIN job'[s] = {"do", "named", "plan", "data"}
      /\ pc'[s] = "verify"
  BY <1>1 DEF TrainingInv, Shape
<1>3. SessionInv(s)'
  BY <1>1, <1>2 DEF TrainingInv, SessionInv, Owns, WillRead, Agrees, Kind, Dir,
     Holding, Resolved, BeforeLoad
<1> QED BY <1>1, <1>2, <1>3, QuietStep

LEMMA VerifyDatasetInv ==
  ASSUME TrainingInv, NEW s \in Sessions, VerifyDataset(s)
  PROVE  TrainingInv'
<1>1. /\ pc[s] = "verify" /\ pc' = [pc EXCEPT ![s] = "claim"]
      /\ job' = job /\ UNCHANGED <<files, outputs, stale>>
      /\ Loadable(files.train) /\ Contents(files.train) = job[s].plan.train
      /\ Loadable(files.validation) /\ Contents(files.validation) = job[s].plan.validation
  BY DEF VerifyDataset, Verified, Goto, dataset
<1>2. /\ DOMAIN job' = Sessions /\ DOMAIN job'[s] = {"do", "named", "plan", "data"}
      /\ pc'[s] = "claim"
  BY <1>1 DEF TrainingInv, Shape
<1>3. SessionInv(s)'
  BY <1>1, <1>2 DEF TrainingInv, SessionInv, Owns, WillRead, Agrees, Kind, Dir,
     Holding, Resolved, BeforeLoad
<1> QED BY <1>1, <1>2, <1>3, QuietStep

----------------------------------------------------------------------------
(* What a session loads *)

LEMMA ContentsType ==
  ASSUME NEW recs \in Seq(Records)
  PROVE  /\ Contents(recs) \in Seq(Prompts \X Answers)
         /\ Len(Contents(recs)) = Len(recs)
         /\ \A i \in 1 .. Len(recs) : Contents(recs)[i] = Content(recs[i])
<1>1. \A i \in 1 .. Len(recs) : recs[i] \in Records
  OBVIOUS
<1>2. \A i \in 1 .. Len(recs) : Content(recs[i]) \in Prompts \X Answers
  BY <1>1 DEF Content, Records
<1>3. Contents(recs) = [i \in 1 .. Len(recs) |-> Content(recs[i])]
  BY DEF Contents
<1>4. Contents(recs) \in [1 .. Len(recs) -> Prompts \X Answers] /\ Len(recs) \in Nat
  BY <1>2, <1>3
<1> QED BY <1>3, <1>4

LEMMA LoadedPrefix ==
  ASSUME NEW recs \in Seq(Records), NEW n \in 1 .. Len(recs)
  PROVE  IsPrefix(Contents(SubSeq(recs, 1, n)), Contents(recs))
<1> DEFINE part == SubSeq(recs, 1, n)
<1>1. /\ part \in Seq(Records) /\ Len(part) = n
      /\ \A i \in 1 .. n : part[i] = recs[i]
  BY SubSeqProperties
<1>a. part = SubSeq(recs, 1, n)
  OBVIOUS
<1> HIDE DEF part
<1>2. /\ Contents(part) \in Seq(Prompts \X Answers) /\ Len(Contents(part)) = n
      /\ \A i \in 1 .. n : Contents(part)[i] = Contents(recs)[i]
      /\ Contents(recs) \in Seq(Prompts \X Answers) /\ n <= Len(Contents(recs))
  <2>1. /\ Contents(part) \in Seq(Prompts \X Answers) /\ Len(Contents(part)) = Len(part)
        /\ \A i \in 1 .. Len(part) : Contents(part)[i] = Content(part[i])
    BY <1>1, ContentsType
  <2>2. /\ Contents(recs) \in Seq(Prompts \X Answers) /\ Len(Contents(recs)) = Len(recs)
        /\ \A i \in 1 .. Len(recs) : Contents(recs)[i] = Content(recs[i])
    BY ContentsType
  <2>3. Len(recs) \in Nat /\ 1 .. n \subseteq 1 .. Len(recs)
    OBVIOUS
  <2> QED BY <1>1, <2>1, <2>2, <2>3
<1>3. SubSeq(Contents(part), 1, n) = SubSeq(Contents(recs), 1, n)
  BY <1>2
<1> QED BY <1>a, <1>2, <1>3 DEF IsPrefix

LEMMA WholePrefix ==
  ASSUME NEW recs \in Seq(Records)
  PROVE  IsPrefix(Contents(recs), Contents(recs))
<1>1. Len(Contents(recs)) \in Nat
  BY ContentsType
<1> QED BY <1>1 DEF IsPrefix

LEMMA LoadInv ==
  ASSUME TrainingInv, NEW s \in Sessions, Load(s)
  PROVE  TrainingInv'
<1> DEFINE data == [train |-> Contents(Bounded(s, files.train)),
                    validation |-> Contents(Bounded(s, files.validation))]
<1>1. /\ pc[s] = "load" /\ pc' = [pc EXCEPT ![s] = "train"]
      /\ job' = [job EXCEPT ![s].data = data] /\ UNCHANGED <<files, outputs, stale>>
      /\ Loadable(files.train) /\ Loadable(files.validation)
      /\ Kind(s) = "smoke" => /\ Len(files.train) >= job[s].do.limit
                              /\ Len(files.validation) >= job[s].do.limit
  BY DEF Load, Goto, dataset
<1>2. /\ DOMAIN job' = Sessions /\ DOMAIN job'[s] = {"do", "named", "plan", "data"}
      /\ \A t \in Sessions \ {s} : job'[t] = job[t]
      /\ job'[s].do = job[s].do /\ job'[s].data = data
      /\ job'[s].named = job[s].named /\ job'[s].plan = job[s].plan /\ pc'[s] = "train"
  BY <1>1 DEF TrainingInv, Shape
<1>3. SessionInv(s) /\ job[s].do.limit \in Nat \ {0}
  BY <1>1, TrainingAssumption DEF TrainingInv, SessionInv, Owns
<1>4. ASSUME s \notin stale PROVE DataOf(Kind(s), data, job[s].plan)
  <2>1. /\ Contents(files.train) = job[s].plan.train
        /\ Contents(files.validation) = job[s].plan.validation
    BY <1>1, <1>3, <1>4 DEF SessionInv, Agrees
  <2>2. CASE Kind(s) = "smoke"
    <3>1. /\ IsPrefix(Contents(SubSeq(files.train, 1, job[s].do.limit)), Contents(files.train))
          /\ IsPrefix(Contents(SubSeq(files.validation, 1, job[s].do.limit)),
                      Contents(files.validation))
      BY <1>1, <1>3, <2>2, LoadedPrefix DEF Loadable
    <3> QED BY <2>1, <2>2, <3>1 DEF DataOf, Bounded
  <2>3. CASE Kind(s) # "smoke"
    <3>1. /\ IsPrefix(Contents(files.train), Contents(files.train))
          /\ IsPrefix(Contents(files.validation), Contents(files.validation))
      BY <1>1, WholePrefix DEF Loadable
    <3> QED BY <2>1, <2>3, <3>1 DEF DataOf, Bounded
  <2> QED BY <2>2, <2>3
<1> HIDE DEF data
<1>5. Kind(s)' = Kind(s) /\ Dir(s)' = Dir(s)
  BY <1>2 DEF Kind, Dir
<1>6. SessionInv(s)'
  <2>1. Owns(s)'
    BY <1>1, <1>2, <1>3, <1>5 DEF SessionInv, Owns, Holding
  <2>2. WillRead(s)'
    BY <1>1, <1>2, <1>3 DEF SessionInv, WillRead, Resolved, BeforeLoad, Holding
  <2>3. Agrees(s)'
    BY <1>1, <1>2, <1>3, <1>4, <1>5 DEF SessionInv, Agrees, Resolved, Holding
  <2> QED BY <2>1, <2>2, <2>3 DEF SessionInv
<1> QED BY <1>1, <1>2, <1>6, QuietStep

----------------------------------------------------------------------------
(* The steps of a session that write to its directory *)

LEMMA ClaimOutputInv ==
  ASSUME TrainingInv, NEW s \in Sessions, ClaimOutput(s)
  PROVE  TrainingInv'
<1> DEFINE fresh == [NoOutput EXCEPT !.owner = s, !.kind = Kind(s), !.preflight = job[s].plan]
<1>1. /\ pc[s] = "claim" /\ pc' = [pc EXCEPT ![s] = "copy"] /\ outputs[Dir(s)].owner = None
      /\ job' = job /\ UNCHANGED <<files, stale>>
      /\ outputs' = [outputs EXCEPT ![Dir(s)] = fresh]
  BY DEF ClaimOutput, Claimable, Goto, dataset
<1>2. PICK mine \in Dirs : mine = Dir(s)
  BY <1>1, DirInDirs
<1>3. /\ DOMAIN fresh =
            {"owner", "kind", "preflight", "copy", "run", "adapter", "manifest", "report"}
      /\ fresh.owner = s /\ fresh.kind = Kind(s) /\ fresh.preflight = job[s].plan
      /\ fresh.run = None /\ fresh.adapter = None /\ fresh.manifest = None
      /\ fresh.report = None
  BY DEF NoOutput
<1> HIDE DEF fresh
<1>4. /\ pc'[s] = "copy" /\ outputs'[mine] = fresh /\ DOMAIN outputs' = Dirs
      /\ \A d \in Dirs \ {mine} : outputs'[d] = outputs[d]
      /\ DOMAIN job' = Sessions /\ DOMAIN job'[s] = {"do", "named", "plan", "data"}
  BY <1>1, <1>2 DEF TrainingInv, Shape
<1>5. Kind(s)' = Kind(s) /\ Dir(s)' = mine
  BY <1>1, <1>2 DEF Kind, Dir
<1>6. SessionInv(s)'
  BY <1>1, <1>3, <1>4, <1>5 DEF TrainingInv, SessionInv, Owns, WillRead, Agrees,
     Holding, Resolved, BeforeLoad
<1>7. DirInv(mine)'
  BY <1>3, <1>4, TrainingAssumption DEF DirInv, Artifacts, Trained, Reported
<1> QED BY <1>1, <1>2, <1>3, <1>4, <1>6, <1>7, WritingStep

\* What a session that holds its directory knows of it, and which of its fields a later
\* step sets.
LEMMA HeldDir ==
  ASSUME TrainingInv, NEW s \in Sessions, pc[s] \in Holding
  PROVE  /\ Dir(s) \in Dirs /\ Kind(s) \in Kinds /\ s # None
         /\ outputs[Dir(s)].owner = s /\ outputs[Dir(s)].kind = Kind(s)
         /\ outputs[Dir(s)].preflight = job[s].plan
         /\ outputs[Dir(s)].report = None
         /\ SessionInv(s) /\ DirInv(Dir(s))
<1>1. Dir(s) \in Dirs /\ Kind(s) \in Kinds /\ s # None
  BY DirInDirs, TrainingAssumption DEF Holding
<1>2. SessionInv(s) /\ DirInv(Dir(s))
  BY <1>1 DEF TrainingInv
<1>3. /\ outputs[Dir(s)].owner = s /\ outputs[Dir(s)].kind = Kind(s)
      /\ outputs[Dir(s)].preflight = job[s].plan
  BY <1>2 DEF SessionInv, Owns
<1>4. outputs[Dir(s)].report = None
  BY <1>2, <1>3 DEF DirInv, Artifacts, Holding
<1> QED BY <1>1, <1>2, <1>3, <1>4

LEMMA CopyManifestInv ==
  ASSUME TrainingInv, NEW s \in Sessions, CopyManifest(s)
  PROVE  TrainingInv'
<1>1. /\ pc[s] = "copy" /\ pc' = [pc EXCEPT ![s] = "load"]
      /\ job' = job /\ UNCHANGED <<files, stale>>
      /\ outputs' = [outputs EXCEPT ![Dir(s)].copy = files.manifest, ![Dir(s)].run = s]
  BY DEF CopyManifest, Goto, dataset
<1>2. PICK mine \in Dirs : mine = Dir(s)
  BY <1>1, DirInDirs
<1>3. /\ outputs[mine].owner = s /\ outputs[mine].kind = Kind(s)
      /\ outputs[mine].preflight = job[s].plan /\ outputs[mine].report = None
      /\ SessionInv(s) /\ DirInv(mine) /\ s # None
  BY <1>1, <1>2, HeldDir DEF Holding
<1>4. /\ pc'[s] = "load" /\ DOMAIN outputs' = Dirs
      /\ \A d \in Dirs \ {mine} : outputs'[d] = outputs[d]
      /\ DOMAIN job' = Sessions /\ DOMAIN job'[s] = {"do", "named", "plan", "data"}
  BY <1>1, <1>2 DEF TrainingInv, Shape
<1>5. /\ DOMAIN outputs'[mine] =
            {"owner", "kind", "preflight", "copy", "run", "adapter", "manifest", "report"}
      /\ outputs'[mine].owner = s /\ outputs'[mine].kind = Kind(s)
      /\ outputs'[mine].preflight = job[s].plan /\ outputs'[mine].report = None
      /\ outputs'[mine].copy = files.manifest /\ outputs'[mine].run = s
      /\ outputs'[mine].adapter = outputs[mine].adapter
      /\ outputs'[mine].manifest = outputs[mine].manifest
  BY <1>1, <1>2, <1>3 DEF TrainingInv, Shape
<1>6. Kind(s)' = Kind(s) /\ Dir(s)' = mine
  BY <1>1, <1>2 DEF Kind, Dir
<1>7. SessionInv(s)'
  BY <1>1, <1>3, <1>4, <1>5, <1>6 DEF SessionInv, Owns, WillRead, Agrees,
     Holding, Resolved, BeforeLoad
<1>8. DirInv(mine)'
  <2>1. Artifacts(outputs[mine])'
    BY <1>3, <1>5 DEF DirInv, Artifacts
  <2>2. Trained(outputs[mine])'
    BY <1>1, <1>3, <1>5 DEF DirInv, Trained, SessionInv, Agrees
  <2>3. Reported(outputs[mine])'
    BY <1>5 DEF Reported
  <2> QED BY <2>1, <2>2, <2>3 DEF DirInv
<1> QED BY <1>1, <1>2, <1>4, <1>5, <1>7, <1>8, WritingStep DEF Holding

\* Train, and a snapshot of SaveSnapshot.
LEMMA AdapterStep ==
  ASSUME TrainingInv, NEW s \in Sessions, pc[s] = "train",
         NEW label \in {"train", "save", "report"}, pc' = [pc EXCEPT ![s] = label],
         NEW count, job' = job, UNCHANGED <<files, stale>>,
         outputs' = [outputs EXCEPT ![Dir(s)].adapter =
                        [by |-> s, of |-> job[s].data, saved |-> count]]
  PROVE  TrainingInv'
<1>2. PICK mine \in Dirs : mine = Dir(s)
  BY DirInDirs
<1>3. /\ outputs[mine].owner = s /\ outputs[mine].kind = Kind(s)
      /\ outputs[mine].preflight = job[s].plan /\ outputs[mine].report = None
      /\ SessionInv(s) /\ DirInv(mine) /\ s # None
  BY <1>2, HeldDir DEF Holding
<1>4. /\ pc'[s] = label /\ DOMAIN outputs' = Dirs
      /\ \A d \in Dirs \ {mine} : outputs'[d] = outputs[d]
      /\ DOMAIN job' = Sessions /\ DOMAIN job'[s] = {"do", "named", "plan", "data"}
  BY <1>2 DEF TrainingInv, Shape
<1>5. /\ DOMAIN outputs'[mine] =
            {"owner", "kind", "preflight", "copy", "run", "adapter", "manifest", "report"}
      /\ outputs'[mine].owner = s /\ outputs'[mine].kind = Kind(s)
      /\ outputs'[mine].preflight = job[s].plan /\ outputs'[mine].report = None
      /\ outputs'[mine].copy = outputs[mine].copy /\ outputs'[mine].run = outputs[mine].run
      /\ outputs'[mine].adapter.by = s /\ outputs'[mine].adapter.of = job[s].data
      /\ outputs'[mine].manifest = outputs[mine].manifest
  BY <1>2, <1>3 DEF TrainingInv, Shape
<1>6. Kind(s)' = Kind(s) /\ Dir(s)' = mine
  BY <1>2 DEF Kind, Dir
<1>7. SessionInv(s)'
  BY <1>2, <1>3, <1>4, <1>5, <1>6 DEF SessionInv, Owns, WillRead, Agrees,
     Holding, Resolved, BeforeLoad
<1>8. DirInv(mine)'
  <2>1. Artifacts(outputs[mine])'
    BY <1>3, <1>5 DEF DirInv, Artifacts
  <2>2. Trained(outputs[mine])'
    BY <1>2, <1>3, <1>5 DEF Trained, SessionInv, Agrees, Resolved, Holding
  <2>3. Reported(outputs[mine])'
    BY <1>5 DEF Reported
  <2> QED BY <2>1, <2>2, <2>3 DEF DirInv
<1> QED BY <1>2, <1>4, <1>5, <1>7, <1>8, WritingStep DEF Holding

LEMMA TrainInv ==
  ASSUME TrainingInv, NEW s \in Sessions, Train(s)
  PROVE  TrainingInv'
BY AdapterStep DEF Train, Goto, dataset

LEMMA SaveSnapshotInv ==
  ASSUME TrainingInv, NEW s \in Sessions, SaveSnapshot(s)
  PROVE  TrainingInv'
<1> DEFINE out == outputs[Dir(s)]
           saved == IF out.adapter = None THEN 0 ELSE out.adapter.saved
           label == IF saved + 1 = Snapshots THEN "report" ELSE "train"
<1>1. /\ pc[s] = "train" /\ job' = job /\ UNCHANGED <<files, stale>>
      /\ outputs' = [outputs EXCEPT ![Dir(s)].adapter =
                        [by |-> s, of |-> job[s].data, saved |-> saved + 1]]
      /\ IF saved + 1 = Snapshots THEN pc' = [pc EXCEPT ![s] = "report"] ELSE pc' = pc
  BY DEF SaveSnapshot, Goto, dataset
<1> HIDE DEF saved
<1>2. pc' = [pc EXCEPT ![s] = label]
  BY <1>1 DEF TrainingInv, Shape
<1>3. label \in {"train", "save", "report"}
  OBVIOUS
<1> HIDE DEF label
<1> QED BY <1>1, <1>2, <1>3, AdapterStep

LEMMA WriteAdapterManifestInv ==
  ASSUME TrainingInv, NEW s \in Sessions, WriteAdapterManifest(s)
  PROVE  TrainingInv'
<1>1. /\ pc[s] = "save" /\ pc' = [pc EXCEPT ![s] = "report"]
      /\ job' = job /\ UNCHANGED <<files, stale>>
      /\ outputs' = [outputs EXCEPT ![Dir(s)].manifest = [by |-> s, dataset |-> job[s].plan]]
  BY DEF WriteAdapterManifest, Goto, dataset
<1>2. PICK mine \in Dirs : mine = Dir(s)
  BY <1>1, DirInDirs
<1>3. /\ outputs[mine].owner = s /\ outputs[mine].kind = Kind(s)
      /\ outputs[mine].preflight = job[s].plan /\ outputs[mine].report = None
      /\ SessionInv(s) /\ DirInv(mine) /\ s # None
  BY <1>1, <1>2, HeldDir DEF Holding
<1>4. /\ pc'[s] = "report" /\ DOMAIN outputs' = Dirs
      /\ \A d \in Dirs \ {mine} : outputs'[d] = outputs[d]
      /\ DOMAIN job' = Sessions /\ DOMAIN job'[s] = {"do", "named", "plan", "data"}
  BY <1>1, <1>2 DEF TrainingInv, Shape
<1>5. /\ DOMAIN outputs'[mine] =
            {"owner", "kind", "preflight", "copy", "run", "adapter", "manifest", "report"}
      /\ outputs'[mine].owner = s /\ outputs'[mine].kind = Kind(s)
      /\ outputs'[mine].preflight = job[s].plan /\ outputs'[mine].report = None
      /\ outputs'[mine].copy = outputs[mine].copy /\ outputs'[mine].run = outputs[mine].run
      /\ outputs'[mine].adapter = outputs[mine].adapter
      /\ outputs'[mine].manifest.by = s /\ outputs'[mine].manifest.dataset = job[s].plan
  BY <1>1, <1>2, <1>3 DEF TrainingInv, Shape
<1>6. Kind(s)' = Kind(s) /\ Dir(s)' = mine
  BY <1>1, <1>2 DEF Kind, Dir
<1>7. SessionInv(s)'
  BY <1>1, <1>2, <1>3, <1>4, <1>5, <1>6 DEF SessionInv, Owns, WillRead, Agrees,
     Holding, Resolved, BeforeLoad
<1>8. DirInv(mine)'
  <2>1. Artifacts(outputs[mine])'
    BY <1>3, <1>5 DEF DirInv, Artifacts
  <2>2. Trained(outputs[mine])'
    BY <1>1, <1>3, <1>5 DEF DirInv, Trained
  <2>3. Reported(outputs[mine])'
    BY <1>5 DEF Reported
  <2> QED BY <2>1, <2>2, <2>3 DEF DirInv
<1> QED BY <1>1, <1>2, <1>4, <1>5, <1>7, <1>8, WritingStep DEF Holding

LEMMA WriteReportInv ==
  ASSUME TrainingInv, NEW s \in Sessions, WriteReport(s)
  PROVE  TrainingInv'
<1> DEFINE out == outputs[Dir(s)]
           report == CASE Kind(s) = "full" -> FullReport(s, out)
                       [] Kind(s) = "smoke" -> SmokeReport(s, out)
                       [] Kind(s) = "candidate" -> CandidateReport(s, out)
                       [] Kind(s) = "trajectory" -> TrajectoryReport(s, out)
<1>1. /\ pc[s] = "report" /\ pc' = [pc EXCEPT ![s] = "done"] /\ Persisted(s, out)
      /\ job' = [job EXCEPT ![s] = NoJob] /\ UNCHANGED <<files, stale>>
      /\ outputs' = [outputs EXCEPT ![Dir(s)].report = report]
  BY DEF WriteReport, Goto, dataset
<1>2. PICK mine \in Dirs : mine = Dir(s)
  BY <1>1, DirInDirs
<1>3. /\ outputs[mine].owner = s /\ outputs[mine].kind = Kind(s)
      /\ outputs[mine].preflight = job[s].plan
      /\ SessionInv(s) /\ DirInv(mine) /\ s # None /\ Kind(s) \in Kinds
  BY <1>1, <1>2, HeldDir DEF Holding
<1>a. /\ report.by = s
      /\ report.over = IF Kind(s) = "full"
                       THEN <<out.adapter, out.copy, out.run, out.manifest>>
                       ELSE <<out.adapter>>
      /\ Kind(s) = "full" => report.dataset = job[s].named
      /\ Kind(s) = "trajectory" => report.dataset = Frozen
  BY <1>3 DEF Kinds, FullReport, SmokeReport, CandidateReport, TrajectoryReport
<1> HIDE DEF report
<1>4. /\ pc'[s] = "done" /\ DOMAIN outputs' = Dirs
      /\ \A d \in Dirs \ {mine} : outputs'[d] = outputs[d]
      /\ DOMAIN job' = Sessions /\ DOMAIN job'[s] = {"do", "named", "plan", "data"}
      /\ \A t \in Sessions \ {s} : job'[t] = job[t]
  BY <1>1, <1>2 DEF TrainingInv, Shape, NoJob
<1>5. /\ DOMAIN outputs'[mine] =
            {"owner", "kind", "preflight", "copy", "run", "adapter", "manifest", "report"}
      /\ outputs'[mine].owner = s /\ outputs'[mine].kind = Kind(s)
      /\ outputs'[mine].preflight = job[s].plan /\ outputs'[mine].report = report
      /\ outputs'[mine].copy = outputs[mine].copy /\ outputs'[mine].run = outputs[mine].run
      /\ outputs'[mine].adapter = outputs[mine].adapter
      /\ outputs'[mine].manifest = outputs[mine].manifest
  BY <1>1, <1>2, <1>3 DEF TrainingInv, Shape
<1>6. SessionInv(s)'
  BY <1>4 DEF SessionInv, Owns, WillRead, Agrees, Holding, Resolved, BeforeLoad
<1>7. DirInv(mine)'
  <2>1. Artifacts(outputs[mine])'
    BY <1>3, <1>4, <1>5, <1>a DEF DirInv, Artifacts
  <2>2. Trained(outputs[mine])'
    BY <1>1, <1>3, <1>5 DEF DirInv, Trained
  <2>3. Reported(outputs[mine])'
    <3>1. report.over = IF Kind(s) = "full"
                        THEN <<outputs[mine].adapter, outputs[mine].copy,
                               outputs[mine].run, outputs[mine].manifest>>
                        ELSE <<outputs[mine].adapter>>
      BY <1>2, <1>a
    <3>2. Kind(s) \in {"candidate", "trajectory"} => outputs[mine].adapter.saved = Snapshots
      BY <1>1, <1>2 DEF Persisted, Snapshotting
    <3>3. outputs[mine].adapter # None
          /\ (Kind(s) = "full" => outputs[mine].manifest # None)
      BY <1>1, <1>2 DEF Persisted
    <3>4. ASSUME s \notin stale, Kind(s) = "full"
          PROVE  /\ report.dataset = outputs[mine].manifest.dataset
                 /\ outputs[mine].adapter.of = [train |-> report.dataset.train,
                                                validation |-> report.dataset.validation]
      <4>1. report.dataset = job[s].plan
        BY <1>1, <1>3, <1>a, <3>4 DEF SessionInv, Agrees, Resolved, Holding
      <4>2. outputs[mine].manifest.dataset = job[s].plan
        BY <1>3, <3>3, <3>4 DEF DirInv, Artifacts
      <4>3. outputs[mine].adapter.of = [train |-> job[s].plan.train,
                                        validation |-> job[s].plan.validation]
        BY <1>3, <3>3, <3>4 DEF DirInv, Trained, DataOf
      <4> QED BY <4>1, <4>2, <4>3
    <3>5. s \notin stale /\ Kind(s) = "trajectory" => report.dataset = outputs[mine].copy
      BY <1>3, <1>a, <3>3 DEF DirInv, Trained
    <3> QED BY <1>1, <1>5, <3>1, <3>2, <3>4, <3>5 DEF Reported
  <2> QED BY <2>1, <2>2, <2>3 DEF DirInv
<1> HIDE DEF out
<1> QED BY <1>1, <1>2, <1>4, <1>5, <1>6, <1>7, WritingStep DEF Holding

----------------------------------------------------------------------------
(* The theorems *)

LEMMA NextTrainingInv ==
  ASSUME TrainingInv, [Next]_vars
  PROVE  TrainingInv'
<1>1. ASSUME NEW f \in Finalizers, NEW recs \in Corpora, NEW c \in Configs,
             StartFinalization(f, recs, c)
      PROVE  TrainingInv'
  BY <1>1, UnchangedInv DEF StartFinalization, session
<1>2. ASSUME NEW f \in Finalizers, StopFinalization(f)
      PROVE  TrainingInv'
  BY <1>2, UnchangedInv DEF StopFinalization, session
<1>3. CASE UNCHANGED vars
  BY <1>3, UnchangedInv DEF vars, dataset, session
<1> QED BY <1>1, <1>2, <1>3, WriteFileInv, LaunchInv, ResolveOuterInv, ResolvePlanInv,
    CheckOutputInv, VerifyDatasetInv, ClaimOutputInv, CopyManifestInv, LoadInv, TrainInv,
    SaveSnapshotInv, WriteAdapterManifestInv, WriteReportInv DEF Next

LEMMA AlwaysTrainingInv == Spec => []TrainingInv
BY InitTrainingInv, NextTrainingInv, PTL DEF Spec

\* However many trainings race for a directory and wherever they stop: whatever is in it
\* was written by the one process that made it.
THEOREM OneRunPerDirectory == Spec => []DirectoryIsOneRun
<1>1. TrainingInv => DirectoryIsOneRun
  BY DEF TrainingInv, DirInv, Artifacts, DirectoryIsOneRun
<1> QED BY <1>1, AlwaysTrainingInv, PTL

\* Whatever finalizations leave behind and in whatever order their files are replaced: an
\* adapter was trained on, and validated with, what the manifest in its directory names,
\* unless a file was replaced while its training was reading.
THEOREM TrainedOnItsDataset == Spec => []TrainedAsNamed
<1>1. ASSUME TrainingInv PROVE TrainedAsNamed
  <2>1. ASSUME NEW d \in Dirs, outputs[d].adapter # None, outputs[d].owner \notin stale
        PROVE  /\ DataOf(outputs[d].kind, outputs[d].adapter.of, outputs[d].preflight)
               /\ outputs[d].copy = outputs[d].preflight
               /\ outputs[d].kind = "trajectory" => outputs[d].preflight = Frozen
    BY <1>1, <2>1 DEF TrainingInv, DirInv, Trained
  <2>2. \A kind, data, plan : DataOf(kind, data, plan) =>
            /\ IsPrefix(data.train, plan.train) /\ IsPrefix(data.validation, plan.validation)
            /\ kind # "smoke" => data.train = plan.train
    BY DEF DataOf
  <2> QED BY <2>1, <2>2 DEF TrainedAsNamed
<1> QED BY <1>1, AlwaysTrainingInv, PTL

\* A report covers the artifacts as they are ever after, and names the dataset of the
\* adapter manifest though it took it from a plan of its own.
THEOREM ReportsAreTrue == Spec => []ReportIsTrue
<1>1. TrainingInv => ReportIsTrue
  BY DEF TrainingInv, DirInv, Reported, ReportIsTrue
<1> QED BY <1>1, AlwaysTrainingInv, PTL

----------------------------------------------------------------------------
(* Induction over the numbers, from the well-foundedness of strict inclusion *)
(* between finite sets: T is the set of the numbers a claim holds of.        *)

\* A set of numbers has a least one.
LEMMA Least ==
  ASSUME NEW T \in SUBSET Nat, T # {}
  PROVE  \E m \in T : \A n \in T : m <= n
<1> DEFINE Below(n) == {i \in Nat : i < n}
           D == {Below(n) : n \in T}
<1>1. ASSUME NEW n \in Nat PROVE IsFiniteSet(Below(n))
  <2>1. Below(n) \subseteq 0 .. n
    OBVIOUS
  <2>2. IsFiniteSet(0 .. n)
    BY FS_Interval
  <2> QED BY <2>1, <2>2, FS_Subset
<1>2. D \subseteq FiniteSubsetsOf(Nat) /\ D # {}
  BY <1>1 DEF FiniteSubsetsOf
<1>3. IsWellFoundedOn(StrictSubsetOrdering(Nat), FiniteSubsetsOf(Nat))
  BY FS_StrictSubsetOrderingWellFounded
<1>4. PICK X \in D : \A Y \in D : ~(<<Y, X>> \in StrictSubsetOrdering(Nat))
  BY <1>2, <1>3, WFMin
<1>5. PICK m \in T : X = Below(m)
  BY <1>4
<1>6. ASSUME NEW n \in T, ~(m <= n) PROVE FALSE
  <2>1. Below(n) \in D /\ Below(n) \subseteq Nat /\ Below(m) \subseteq Nat
    OBVIOUS
  <2>2. Below(n) \subseteq Below(m) /\ n \in Below(m) /\ n \notin Below(n)
    BY <1>6
  <2>3. <<Below(n), Below(m)>> \in StrictSubsetOrdering(Nat)
    BY <2>1, <2>2 DEF StrictSubsetOrdering
  <2> QED BY <1>4, <1>5, <2>1, <2>3
<1> QED BY <1>6

\* What holds of 0, and of n + 1 when of n, holds of every number.
LEMMA NatInd ==
  ASSUME NEW T, 0 \in T, \A n \in Nat : n \in T => n + 1 \in T
  PROVE  Nat \subseteq T
<1> SUFFICES ASSUME ~(Nat \subseteq T) PROVE FALSE
  OBVIOUS
<1>1. PICK m \in Nat \ T : \A n \in Nat \ T : m <= n
  BY Least
<1>2. m # 0 /\ m - 1 \in Nat /\ m - 1 \in T
  BY <1>1
<1> QED BY <1>1, <1>2

\* The same up to a bound.
LEMMA UpToInd ==
  ASSUME NEW m \in Nat, NEW T, 0 \in T, \A n \in 1 .. m : n - 1 \in T => n \in T
  PROVE  0 .. m \subseteq T
<1> DEFINE U == {n \in Nat : n <= m => n \in T}
<1>1. 0 \in U
  OBVIOUS
<1>2. ASSUME NEW n \in Nat, n \in U PROVE n + 1 \in U
  <2>1. n + 1 <= m => n + 1 \in 1 .. m /\ (n + 1) - 1 \in T
    BY <1>2
  <2> QED BY <2>1
<1>3. Nat \subseteq U
  <2> HIDE DEF U
  <2> QED BY <1>1, <1>2, NatInd
<1> QED BY <1>3

\* What a loop over 1 .. m has after each turn, in V, when it begins with b.
Loops(f, m, V, b, turn) ==
    /\ f \in [0 .. m -> V] /\ f[0] = b
    /\ \A n \in 1 .. m : f[n] = turn[<<n, f[n - 1]>>]

\* A loop is a function: the one that a recursive definition chooses exists.
LEMMA Recursion ==
  ASSUME NEW m \in Nat, NEW V, NEW b \in V, NEW turn \in [(1 .. m) \X V -> V]
  PROVE  \E f : Loops(f, m, V, b, turn)
<1> DEFINE Def(f, n) == Loops(f, n, V, b, turn)
           T == {n \in 0 .. m : \E f : Def(f, n)}
<1>1. 0 \in T
  <2> DEFINE g == [i \in 0 .. 0 |-> b]
  <2>1. g \in [0 .. 0 -> V] /\ g[0] = b /\ 1 .. 0 = {}
    OBVIOUS
  <2>2. Def(g, 0)
    BY <2>1 DEF Loops
  <2> HIDE DEF g, Def
  <2> QED BY <2>2
<1>2. ASSUME NEW n \in 1 .. m, n - 1 \in T PROVE n \in T
  <2>0. PICK f : Def(f, n - 1)
    BY <1>2
  <2>1. /\ f \in [0 .. n - 1 -> V] /\ f[0] = b
        /\ \A i \in 1 .. n - 1 : f[i] = turn[<<i, f[i - 1]>>]
    BY <2>0 DEF Loops
  <2> DEFINE g == [i \in 0 .. n |-> IF i = n THEN turn[<<n, f[n - 1]>>] ELSE f[i]]
  <2>2. turn[<<n, f[n - 1]>>] \in V
    <3>1. f[n - 1] \in V
      BY <2>1
    <3> QED BY <3>1
  <2>3. g \in [0 .. n -> V] /\ g[0] = b
    BY <2>1, <2>2
  <2>4. ASSUME NEW i \in 1 .. n PROVE g[i] = turn[<<i, g[i - 1]>>]
    <3>1. g[i - 1] = f[i - 1]
      OBVIOUS
    <3>2. i = n => g[i] = turn[<<i, f[i - 1]>>]
      OBVIOUS
    <3>3. i # n => i \in 1 .. n - 1 /\ g[i] = f[i] /\ f[i] = turn[<<i, f[i - 1]>>]
      BY <2>1
    <3> HIDE DEF g
    <3> QED BY <3>1, <3>2, <3>3
  <2>5. Def(g, n)
    BY <2>3, <2>4 DEF Loops
  <2> HIDE DEF g, Def
  <2> QED BY <2>5
<1>3. 0 .. m \subseteq T
  <2> HIDE DEF T
  <2> QED BY <1>1, <1>2, UpToInd
<1>4. PICK f : Def(f, m)
  BY <1>3
<1> QED BY <1>4

----------------------------------------------------------------------------
(* Sequences *)

\* What Append does to the elements of a sequence, and to their being apart.
LEMMA AppendRange ==
  ASSUME NEW T, NEW sq \in Seq(T), NEW x \in T
  PROVE  /\ Append(sq, x) \in Seq(T) /\ Range(Append(sq, x)) = Range(sq) \cup {x}
         /\ IsInjective(sq) /\ x \notin Range(sq) => IsInjective(Append(sq, x))
<1> DEFINE a == Append(sq, x)
<1>1. /\ a \in Seq(T) /\ DOMAIN a = 1 .. Len(sq) + 1 /\ DOMAIN sq = 1 .. Len(sq)
      /\ Len(sq) \in Nat /\ a[Len(sq) + 1] = x /\ \A i \in 1 .. Len(sq) : a[i] = sq[i]
  OBVIOUS
<1> HIDE DEF a
<1>2. Range(a) = Range(sq) \cup {x}
  <2>1. ASSUME NEW y \in Range(a) PROVE y \in Range(sq) \cup {x}
    BY <1>1 DEF Range
  <2>2. ASSUME NEW y \in Range(sq) PROVE y \in Range(a)
    BY <1>1 DEF Range
  <2>3. x \in Range(a)
    BY <1>1 DEF Range
  <2> QED BY <2>1, <2>2, <2>3
<1>3. ASSUME IsInjective(sq), x \notin Range(sq) PROVE IsInjective(a)
  <2>1. \A i \in 1 .. Len(sq) : a[i] # x
    BY <1>1, <1>3 DEF Range
  <2> QED BY <1>1, <1>3, <2>1 DEF IsInjective
<1> QED BY <1>1, <1>2, <1>3 DEF a

\* What concatenation does to them.
LEMMA ConcatRange ==
  ASSUME NEW T, NEW s \in Seq(T), NEW t \in Seq(T)
  PROVE  /\ s \o t \in Seq(T) /\ Range(s \o t) = Range(s) \cup Range(t)
         /\ IsInjective(s) /\ IsInjective(t) /\ Range(s) \cap Range(t) = {}
              => IsInjective(s \o t)
<1> DEFINE a == s \o t
<1>1. /\ a \in Seq(T) /\ DOMAIN a = 1 .. Len(s) + Len(t) /\ DOMAIN s = 1 .. Len(s)
      /\ DOMAIN t = 1 .. Len(t) /\ Len(s) \in Nat /\ Len(t) \in Nat
      /\ \A i \in 1 .. Len(s) : a[i] = s[i]
      /\ \A i \in Len(s) + 1 .. Len(s) + Len(t) : i - Len(s) \in 1 .. Len(t) /\ a[i] = t[i - Len(s)]
  OBVIOUS
<1>2. \A i \in 1 .. Len(t) : i + Len(s) \in DOMAIN a /\ a[i + Len(s)] = t[i]
  BY <1>1
<1> HIDE DEF a
<1>3. Range(a) = Range(s) \cup Range(t)
  <2>1. ASSUME NEW y \in Range(a) PROVE y \in Range(s) \cup Range(t)
    <3>1. PICK i \in DOMAIN a : a[i] = y
      BY DEF Range
    <3>2. i \in 1 .. Len(s) \/ i \in Len(s) + 1 .. Len(s) + Len(t)
      BY <1>1
    <3> QED BY <1>1, <3>1, <3>2 DEF Range
  <2>2. ASSUME NEW y \in Range(s) PROVE y \in Range(a)
    BY <1>1 DEF Range
  <2>3. ASSUME NEW y \in Range(t) PROVE y \in Range(a)
    BY <1>1, <1>2 DEF Range
  <2> QED BY <2>1, <2>2, <2>3
<1>4. ASSUME IsInjective(s), IsInjective(t), Range(s) \cap Range(t) = {},
             NEW i \in DOMAIN a, NEW j \in DOMAIN a, a[i] = a[j]
      PROVE  i = j
  <2>1. \A n \in DOMAIN s, m \in DOMAIN t : s[n] # t[m]
    BY <1>4 DEF Range
  <2>2. CASE i \in 1 .. Len(s) /\ j \in 1 .. Len(s)
    BY <1>1, <1>4, <2>2 DEF IsInjective
  <2>3. CASE i \in 1 .. Len(s) /\ j \in Len(s) + 1 .. Len(s) + Len(t)
    BY <1>1, <1>4, <2>1, <2>3
  <2>4. CASE j \in 1 .. Len(s) /\ i \in Len(s) + 1 .. Len(s) + Len(t)
    BY <1>1, <1>4, <2>1, <2>4
  <2>5. CASE i \in Len(s) + 1 .. Len(s) + Len(t) /\ j \in Len(s) + 1 .. Len(s) + Len(t)
    <3>1. t[i - Len(s)] = t[j - Len(s)]
      BY <1>1, <1>4, <2>5
    <3>2. i - Len(s) = j - Len(s)
      BY <1>1, <1>4, <2>5, <3>1 DEF IsInjective
    <3> QED BY <1>1, <2>5, <3>2
  <2> QED BY <1>1, <2>2, <2>3, <2>4, <2>5
<1>5. IsInjective(s) /\ IsInjective(t) /\ Range(s) \cap Range(t) = {} => IsInjective(a)
  BY <1>4 DEF IsInjective
<1> QED BY <1>1, <1>3, <1>5 DEF a

\* A sequence without repetition is as long as its range.
LEMMA InjectiveLength ==
  ASSUME NEW T, NEW sq \in Seq(T)
  PROVE  /\ IsFiniteSet(Range(sq)) /\ Cardinality(Range(sq)) <= Len(sq)
         /\ IsInjective(sq) => Cardinality(Range(sq)) = Len(sq)
<1>1. /\ DOMAIN sq = 1 .. Len(sq) /\ Len(sq) \in Nat /\ sq \in [1 .. Len(sq) -> Range(sq)]
      /\ \A y \in Range(sq) : \E i \in 1 .. Len(sq) : sq[i] = y
  BY DEF Range
<1>2. IsFiniteSet(1 .. Len(sq)) /\ Cardinality(1 .. Len(sq)) = Len(sq)
  <2>1. Len(sq) \in Nat /\ 1 \in Int /\ Len(sq) \in Int
    OBVIOUS
  <2>2. /\ IsFiniteSet(1 .. Len(sq))
        /\ Cardinality(1 .. Len(sq)) = IF 1 > Len(sq) THEN 0 ELSE Len(sq) - 1 + 1
    BY <2>1, FS_Interval
  <2> QED BY <2>1, <2>2
<1>3. sq \in Surjection(1 .. Len(sq), Range(sq))
  BY <1>1 DEF Surjection
<1>4. IsInjective(sq) => sq \in Injection(1 .. Len(sq), Range(sq))
  BY <1>1 DEF Injection, IsInjective
<1>5. /\ IsFiniteSet(Range(sq)) /\ Cardinality(Range(sq)) <= Cardinality(1 .. Len(sq))
      /\ sq \in Injection(1 .. Len(sq), Range(sq)) =>
           Cardinality(Range(sq)) = Cardinality(1 .. Len(sq))
  BY <1>2, <1>3, FS_Surjection
<1> QED BY <1>2, <1>4, <1>5

----------------------------------------------------------------------------
(* The loops of the stages *)

OnlyUpTo(f, T, sq, S) ==
    /\ f \in [0 .. Len(sq) -> Seq(T)] /\ f[0] = <<>> /\ Only(sq, S) = f[Len(sq)]
    /\ \A n \in 1 .. Len(sq) :
         f[n] = IF sq[n] \in S THEN Append(f[n - 1], sq[n]) ELSE f[n - 1]

LEMMA OnlyLoop ==
  ASSUME NEW T, NEW sq \in Seq(T), NEW S
  PROVE  \E f : OnlyUpTo(f, T, sq, S)
<1> DEFINE L == Len(sq)
           Next1(f, n) == IF sq[n] \in S THEN Append(f[n - 1], sq[n]) ELSE f[n - 1]
           Turn(f, n) == IF n = 0 THEN <<>> ELSE Next1(f, n)
           F == CHOOSE f : f = [n \in 0 .. L |-> Turn(f, n)]
           V == Seq(T)
           turn == [p \in (1 .. L) \X V |->
                      IF sq[p[1]] \in S THEN Append(p[2], sq[p[1]]) ELSE p[2]]
<1>1. L \in Nat /\ <<>> \in V /\ \A n \in 1 .. L : sq[n] \in T
  OBVIOUS
<1>2. turn \in [(1 .. L) \X V -> V]
  BY <1>1
<1>3. \E f : f = [n \in 0 .. L |-> Turn(f, n)]
  <2>0. \A n \in 1 .. L, v \in V :
          turn[<<n, v>>] = IF sq[n] \in S THEN Append(v, sq[n]) ELSE v
    OBVIOUS
  <2>9. L \in Nat /\ <<>> \in V /\ turn \in [(1 .. L) \X V -> V]
    BY <1>1, <1>2
  <2> HIDE DEF turn, V, L, F, Turn, Next1
  <2>8. PICK f : Loops(f, L, V, <<>>, turn)
    BY <2>9, Recursion
  <2>1. /\ f \in [0 .. L -> V] /\ f[0] = <<>>
        /\ \A n \in 1 .. L : f[n] = turn[<<n, f[n - 1]>>]
    BY <2>8 DEF Loops
  <2> USE DEF Turn, Next1
  <2>2. ASSUME NEW n \in 0 .. L PROVE f[n] = Turn(f, n)
    <3>1. CASE n = 0
      BY <2>1, <3>1
    <3>2. CASE n # 0
      <4>1. n \in 1 .. L /\ f[n - 1] \in V
        BY <1>1, <2>1, <3>2
      <4>2. f[n] = turn[<<n, f[n - 1]>>]
        BY <2>1, <4>1
      <4> QED BY <2>0, <3>2, <4>1, <4>2
    <3> QED BY <3>1, <3>2
  <2> HIDE DEF Turn
  <2>3. f = [n \in 0 .. L |-> Turn(f, n)]
    BY <2>1, <2>2
  <2> QED BY <2>3
<1>4. F = [n \in 0 .. L |-> Turn(F, n)]
  <2> HIDE DEF Turn
  <2> QED BY <1>3
<1>5. Only(sq, S) = F[L]
  BY DEF Only
<1> HIDE DEF F
<1>6. F[0] = <<>> /\ \A n \in 1 .. L : F[n] = Next1(F, n)
  <2>1. \A n \in 0 .. L : F[n] = Turn(F, n)
    <3> HIDE DEF Turn
    <3> QED BY <1>4
  <2> QED BY <1>1, <2>1
<1>7. F \in [0 .. L -> V]
  <2> DEFINE K == {n \in 0 .. L : F[n] \in V}
  <2>1. 0 \in K
    <3>1. 0 \in 0 .. L /\ F[0] \in V
      <4> HIDE DEF V, L, Next1
      <4> QED BY <1>1, <1>6
    <3> QED BY <3>1
  <2>2. ASSUME NEW n \in 1 .. L, n - 1 \in K PROVE n \in K
    <3>1. F[n - 1] \in V /\ sq[n] \in T /\ n \in 0 .. L
      BY <1>1, <2>2
    <3>2. Next1(F, n) \in V
      BY <3>1
    <3> QED BY <1>6, <3>1, <3>2
  <2>3. 0 .. L \subseteq K
    <3> HIDE DEF K, L
    <3> QED BY <1>1, <2>1, <2>2, UpToInd
  <2>4. \A n \in 0 .. L : F[n] \in V
    BY <2>3
  <2>5. F = [n \in 0 .. L |-> F[n]]
    <3> HIDE DEF Turn
    <3> QED BY <1>4
  <2> HIDE DEF V, L
  <2> QED BY <2>4, <2>5
<1>8. OnlyUpTo(F, T, sq, S)
  BY <1>5, <1>6, <1>7 DEF OnlyUpTo
<1> QED BY <1>8

\* A stage keeps exactly what it accepts, and repeats nothing.
LEMMA OnlyProperties ==
  ASSUME NEW T, NEW sq \in Seq(T), NEW S
  PROVE  /\ Only(sq, S) \in Seq(T) /\ Range(Only(sq, S)) = Range(sq) \cap S
         /\ IsInjective(sq) => IsInjective(Only(sq, S))
<1> DEFINE Upto(n) == {sq[i] : i \in 1 .. n}
<1>0. PICK f : OnlyUpTo(f, T, sq, S)
  BY OnlyLoop
<1>1. /\ f \in [0 .. Len(sq) -> Seq(T)] /\ f[0] = <<>> /\ Only(sq, S) = f[Len(sq)]
      /\ \A n \in 1 .. Len(sq) :
           f[n] = IF sq[n] \in S THEN Append(f[n - 1], sq[n]) ELSE f[n - 1]
  BY <1>0 DEF OnlyUpTo
<1>2. Len(sq) \in Nat /\ DOMAIN sq = 1 .. Len(sq) /\ \A n \in 1 .. Len(sq) : sq[n] \in T
  OBVIOUS
<1> DEFINE K == {n \in 0 .. Len(sq) :
                    /\ Range(f[n]) = Upto(n) \cap S
                    /\ IsInjective(sq) => IsInjective(f[n])}
<1>3. 0 \in K
  <2>1. Range(<<>>) = {} /\ IsInjective(<<>>) /\ Upto(0) = {}
    BY DEF Range, IsInjective
  <2> QED BY <1>1, <1>2, <2>1
<1>4. ASSUME NEW n \in 1 .. Len(sq), n - 1 \in K PROVE n \in K
  <2>0. n \in 0 .. Len(sq) /\ n - 1 \in 0 .. Len(sq) /\ sq[n] \in T
    BY <1>2
  <2>9. f[n - 1] \in Seq(T)
    BY <1>1, <2>0
  <2>8. /\ Range(f[n - 1]) = Upto(n - 1) \cap S
        /\ IsInjective(sq) => IsInjective(f[n - 1])
    BY <1>4
  <2>1. /\ n \in 0 .. Len(sq) /\ f[n - 1] \in Seq(T) /\ sq[n] \in T
        /\ Range(f[n - 1]) = Upto(n - 1) \cap S
        /\ IsInjective(sq) => IsInjective(f[n - 1])
    BY <2>0, <2>8, <2>9
  <2>2. Upto(n) = Upto(n - 1) \cup {sq[n]}
    <3>1. 1 .. n = (1 .. n - 1) \cup {n}
      BY <1>2
    <3> QED BY <3>1
  <2>3. IsInjective(sq) => sq[n] \notin Upto(n - 1)
    <3> SUFFICES ASSUME IsInjective(sq), NEW i \in 1 .. n - 1, sq[i] = sq[n] PROVE FALSE
      OBVIOUS
    <3>1. i \in DOMAIN sq /\ n \in DOMAIN sq /\ i # n
      BY <1>2
    <3> QED BY <3>1 DEF IsInjective
  <2>4. f[n] = IF sq[n] \in S THEN Append(f[n - 1], sq[n]) ELSE f[n - 1]
    BY <1>1
  <2>5. /\ Range(Append(f[n - 1], sq[n])) = Range(f[n - 1]) \cup {sq[n]}
        /\ IsInjective(f[n - 1]) /\ sq[n] \notin Range(f[n - 1]) =>
             IsInjective(Append(f[n - 1], sq[n]))
    BY <2>1, AppendRange
  <2> HIDE DEF Upto
  <2>6. CASE sq[n] \in S
    BY <2>1, <2>2, <2>3, <2>4, <2>5, <2>6
  <2>7. CASE sq[n] \notin S
    BY <2>1, <2>2, <2>4, <2>7
  <2> QED BY <2>6, <2>7
<1>5. Len(sq) \in K
  <2>1. 0 .. Len(sq) \subseteq K
    <3> HIDE DEF K
    <3> QED BY <1>2, <1>3, <1>4, UpToInd
  <2> QED BY <1>2, <2>1, SMTT(30)
<1>6. Upto(Len(sq)) = Range(sq) /\ f[Len(sq)] \in Seq(T)
  BY <1>1, <1>2 DEF Range
<1> QED BY <1>1, <1>5, <1>6

\* A turn of the loop takes one record or none.
LEMMA OnlyGrows ==
  ASSUME NEW T, NEW sq \in Seq(T), NEW S, NEW f, OnlyUpTo(f, T, sq, S),
         NEW n \in 1 .. Len(sq)
  PROVE  /\ Len(f[n - 1]) \in Nat
         /\ sq[n] \in S => Len(f[n]) = Len(f[n - 1]) + 1
         /\ sq[n] \notin S => Len(f[n]) = Len(f[n - 1])
<1>1. n - 1 \in 0 .. Len(sq) /\ sq[n] \in T
  OBVIOUS
<1>2. f[n - 1] \in Seq(T)
  BY <1>1 DEF OnlyUpTo
<1>3. f[n] = IF sq[n] \in S THEN Append(f[n - 1], sq[n]) ELSE f[n - 1]
  BY DEF OnlyUpTo
<1>4. Len(Append(f[n - 1], sq[n])) = Len(f[n - 1]) + 1 /\ Len(f[n - 1]) \in Nat
  BY <1>1, <1>2
<1> QED BY <1>3, <1>4

\* Two stages that have no record in common keep as many as one that keeps both.
LEMMA OnlyAdds ==
  ASSUME NEW T, NEW sq \in Seq(T), NEW S, NEW R, S \cap R = {}
  PROVE  Len(Only(sq, S \cup R)) = Len(Only(sq, S)) + Len(Only(sq, R))
<1>1. PICK f : OnlyUpTo(f, T, sq, S)
  BY OnlyLoop
<1>2. PICK g : OnlyUpTo(g, T, sq, R)
  BY OnlyLoop
<1>3. PICK h : OnlyUpTo(h, T, sq, S \cup R)
  BY OnlyLoop
<1> DEFINE K == {n \in 0 .. Len(sq) : Len(h[n]) = Len(f[n]) + Len(g[n])}
<1>4. Len(sq) \in Nat
  OBVIOUS
<1>5. 0 \in K
  BY <1>1, <1>2, <1>3, <1>4 DEF OnlyUpTo
<1>6. ASSUME NEW n \in 1 .. Len(sq), n - 1 \in K PROVE n \in K
  <2> DEFINE F(m) == Len(f[m])
             G(m) == Len(g[m])
             H(m) == Len(h[m])
  <2>1. n \in 0 .. Len(sq) /\ ~(sq[n] \in S /\ sq[n] \in R)
    BY <1>4
  <2>2. /\ F(n - 1) \in Nat
        /\ sq[n] \in S => F(n) = F(n - 1) + 1
        /\ sq[n] \notin S => F(n) = F(n - 1)
    BY <1>1, OnlyGrows
  <2>3. /\ G(n - 1) \in Nat
        /\ sq[n] \in R => G(n) = G(n - 1) + 1
        /\ sq[n] \notin R => G(n) = G(n - 1)
    BY <1>2, OnlyGrows
  <2>4. /\ sq[n] \in S \cup R => H(n) = H(n - 1) + 1
        /\ sq[n] \notin S \cup R => H(n) = H(n - 1)
    BY <1>3, OnlyGrows
  <2>5. H(n - 1) = F(n - 1) + G(n - 1)
    BY <1>6
  <2>6. H(n) = F(n) + G(n)
    <3> HIDE DEF F, G, H, K
    <3>1. CASE sq[n] \in S
      <4>1. F(n) = F(n - 1) + 1 /\ G(n) = G(n - 1) /\ H(n) = H(n - 1) + 1
        BY <2>1, <2>2, <2>3, <2>4, <3>1
      <4> QED BY <2>2, <2>3, <2>5, <4>1
    <3>2. CASE sq[n] \in R
      <4>1. F(n) = F(n - 1) /\ G(n) = G(n - 1) + 1 /\ H(n) = H(n - 1) + 1
        BY <2>1, <2>2, <2>3, <2>4, <3>2
      <4> QED BY <2>2, <2>3, <2>5, <4>1
    <3>3. CASE sq[n] \notin S \cup R
      BY <2>2, <2>3, <2>4, <2>5, <3>3
    <3> QED BY <3>1, <3>2, <3>3
  <2> QED BY <2>1, <2>6
<1>7. 0 .. Len(sq) \subseteq K
  <2> HIDE DEF K
  <2> QED BY <1>4, <1>5, <1>6, UpToInd
<1>8. Len(sq) \in K
  <2> HIDE DEF K
  <2> QED BY <1>4, <1>7
<1>9. Len(h[Len(sq)]) = Len(f[Len(sq)]) + Len(g[Len(sq)])
  BY <1>8
<1> QED BY <1>1, <1>2, <1>3, <1>9 DEF OnlyUpTo

\* A stage that rejects nothing is as long as what it was given.
LEMMA OnlyAll ==
  ASSUME NEW T, NEW sq \in Seq(T), NEW S, Range(sq) \subseteq S
  PROVE  Len(Only(sq, S)) = Len(sq)
<1>1. PICK f : OnlyUpTo(f, T, sq, S)
  BY OnlyLoop
<1> DEFINE K == {n \in 0 .. Len(sq) : Len(f[n]) = n}
<1>2. Len(sq) \in Nat
  OBVIOUS
<1>3. 0 \in K
  BY <1>1, <1>2 DEF OnlyUpTo
<1>4. ASSUME NEW n \in 1 .. Len(sq), n - 1 \in K PROVE n \in K
  <2>1. n \in 0 .. Len(sq) /\ n - 1 \in 0 .. Len(sq) /\ sq[n] \in S
    BY DEF Range
  <2>2. f[n - 1] \in Seq(T) /\ f[n] = Append(f[n - 1], sq[n])
    BY <1>1, <2>1 DEF OnlyUpTo
  <2>3. Len(f[n]) = Len(f[n - 1]) + 1
    BY <2>2
  <2> QED BY <1>4, <2>1, <2>3
<1>5. 0 .. Len(sq) \subseteq K
  <2> HIDE DEF K
  <2> QED BY <1>2, <1>3, <1>4, UpToInd
<1>6. Len(sq) \in K
  <2> HIDE DEF K
  <2> QED BY <1>2, <1>5
<1> QED BY <1>1, <1>6 DEF OnlyUpTo

\* What a stage rejects and what it accepts add up to what it was given.
LEMMA StageAddsUp ==
  ASSUME NEW T, NEW sq \in Seq(T), NEW S, NEW R, S \cap R = {}, S \cup R = Range(sq)
  PROVE  /\ Len(sq) = Len(Only(sq, S)) + Len(Only(sq, R))
         /\ Len(Only(sq, S)) \in Nat /\ Len(Only(sq, R)) \in Nat
<1>1. Len(Only(sq, S \cup R)) = Len(sq)
  BY OnlyAll
<1>2. Only(sq, S) \in Seq(T) /\ Only(sq, R) \in Seq(T)
  BY OnlyProperties
<1> QED BY <1>1, <1>2, OnlyAdds

----------------------------------------------------------------------------
(* Flattening *)

FlattenUpTo(f, T, seqs) ==
    /\ f \in [0 .. Len(seqs) -> Seq(T)] /\ f[0] = <<>> /\ FlattenSeq(seqs) = f[Len(seqs)]
    /\ \A n \in 1 .. Len(seqs) : f[n] = f[n - 1] \o seqs[n]

LEMMA FlattenLoop ==
  ASSUME NEW T, NEW seqs \in Seq(Seq(T)), seqs # <<>>
  PROVE  \E f : FlattenUpTo(f, T, seqs)
<1> DEFINE L == Len(seqs)
           V == Seq(T)
           Turn(f, n) == IF n = 1 THEN seqs[n] ELSE f[n - 1] \o seqs[n]
           F == CHOOSE f : f = [n \in 1 .. L |-> Turn(f, n)]
           turn == [p \in (1 .. L) \X V |-> p[2] \o seqs[p[1]]]
           G == [n \in 0 .. L |-> IF n = 0 THEN <<>> ELSE F[n]]
<1>1. L \in Nat /\ L # 0 /\ <<>> \in V /\ \A n \in 1 .. L : seqs[n] \in V
  OBVIOUS
<1>0. \A v \in V : <<>> \o v = v
  OBVIOUS
<1>2. turn \in [(1 .. L) \X V -> V]
  <2>1. \A v \in V, w \in V : v \o w \in V
    OBVIOUS
  <2>2. ASSUME NEW p \in (1 .. L) \X V PROVE p[2] \o seqs[p[1]] \in V
    <3>1. p[1] \in 1 .. L /\ p[2] \in V
      OBVIOUS
    <3>2. seqs[p[1]] \in V
      BY <1>1, <3>1
    <3> HIDE DEF V, L
    <3> QED BY <2>1, <3>1, <3>2
  <2> HIDE DEF V, L
  <2> QED BY <2>2
<1>9. \A n \in 1 .. L, v \in V : turn[<<n, v>>] = v \o seqs[n]
  OBVIOUS
<1>3. \E f : f = [n \in 1 .. L |-> Turn(f, n)]
  <2>9. L \in Nat /\ <<>> \in V /\ turn \in [(1 .. L) \X V -> V]
    BY <1>1, <1>2
  <2> HIDE DEF turn, V, L, F, Turn
  <2>8. PICK g : Loops(g, L, V, <<>>, turn)
    BY <2>9, Recursion
  <2>1. /\ g \in [0 .. L -> V] /\ g[0] = <<>>
        /\ \A n \in 1 .. L : g[n] = turn[<<n, g[n - 1]>>]
    BY <2>8 DEF Loops
  <2> DEFINE f == [n \in 1 .. L |-> g[n]]
  <2>2. ASSUME NEW n \in 1 .. L PROVE g[n] = Turn(f, n)
    <3>1. n - 1 \in 0 .. L
      BY <1>1
    <3>2. g[n - 1] \in V
      BY <2>1, <3>1
    <3>3. g[n] = g[n - 1] \o seqs[n]
      BY <1>9, <2>1, <3>2
    <3>4. CASE n = 1
      <4>3. n - 1 = 0
        BY <3>4
      <4>1. g[n] = <<>> \o seqs[n]
        BY <2>1, <3>3, <4>3
      <4>2. g[n] = seqs[n]
        BY <1>0, <1>1, <4>1
      <4> QED BY <3>4, <4>2 DEF Turn
    <3>5. CASE n # 1
      <4>1. n - 1 \in 1 .. L
        BY <1>1, <3>5
      <4>2. f[n - 1] = g[n - 1]
        BY <4>1
      <4> HIDE DEF f
      <4> QED BY <3>3, <3>5, <4>2 DEF Turn
    <3> QED BY <3>4, <3>5
  <2>3. f = [n \in 1 .. L |-> Turn(f, n)]
    BY <2>2
  <2> QED BY <2>3
<1>4. F = [n \in 1 .. L |-> Turn(F, n)]
  <2> HIDE DEF Turn
  <2> QED BY <1>3
<1>5. FlattenSeq(seqs) = F[L]
  BY <1>1 DEF FlattenSeq
<1> HIDE DEF F
<1>6. G[0] = <<>> /\ \A n \in 1 .. L : G[n] = F[n]
  BY <1>1
<1>7. ASSUME NEW n \in 1 .. L, G[n - 1] \in V PROVE G[n] = G[n - 1] \o seqs[n]
  <2>1. G[n] = Turn(F, n)
    <3> HIDE DEF Turn, G
    <3> QED BY <1>4, <1>6
  <2>2. CASE n = 1
    <3>1. G[n - 1] = <<>> /\ G[n] = seqs[n]
      <4> HIDE DEF G
      <4> QED BY <1>6, <2>1, <2>2
    <3> HIDE DEF G, V, L
    <3> QED BY <1>0, <1>1, <3>1
  <2>3. CASE n # 1
    <3>1. n - 1 \in 1 .. L
      BY <1>1, <2>3
    <3> HIDE DEF G
    <3> QED BY <1>6, <2>1, <2>3, <3>1
  <2> QED BY <2>2, <2>3
<1> HIDE DEF Turn, G
<1>8. ASSUME NEW n \in 0 .. L PROVE G[n] \in V
  <2> DEFINE K == {i \in 0 .. L : G[i] \in V}
  <2>1. 0 \in K
    <3>1. 0 \in 0 .. L /\ G[0] \in V
      <4> HIDE DEF V, L
      <4> QED BY <1>1, <1>6
    <3> QED BY <3>1
  <2>2. ASSUME NEW i \in 1 .. L, i - 1 \in K PROVE i \in K
    <3>1. G[i - 1] \in V /\ seqs[i] \in V /\ i \in 0 .. L
      BY <1>1, <2>2
    <3>2. \A v \in V, w \in V : v \o w \in V
      OBVIOUS
    <3>3. G[i] \in V
      <4> HIDE DEF V, L
      <4> QED BY <1>7, <3>1, <3>2
    <3> QED BY <3>1, <3>3
  <2>3. 0 .. L \subseteq K
    <3> HIDE DEF K, L
    <3> QED BY <1>1, <2>1, <2>2, UpToInd
  <2> QED BY <2>3
<1>10. G \in [0 .. L -> V]
  <2>1. G = [n \in 0 .. L |-> G[n]]
    BY DEF G
  <2> HIDE DEF V, L
  <2> QED BY <1>8, <2>1
<1>11. \A n \in 1 .. L : G[n] = G[n - 1] \o seqs[n]
  <2>1. ASSUME NEW n \in 1 .. L PROVE n - 1 \in 0 .. L
    BY <1>1
  <2> HIDE DEF V, L
  <2> QED BY <1>7, <1>8, <2>1
<1>12. FlattenSeq(seqs) = G[L]
  <2>1. L \in 1 .. L
    BY <1>1
  <2> HIDE DEF L
  <2> QED BY <1>5, <1>6, <2>1
<1>13. FlattenUpTo(G, T, seqs)
  BY <1>6, <1>10, <1>11, <1>12 DEF FlattenUpTo
<1> QED BY <1>13

\* A flattened sequence has the elements of its parts, and repeats nothing of parts
\* that share nothing.
LEMMA FlattenProperties ==
  ASSUME NEW T, NEW seqs \in Seq(Seq(T))
  PROVE  /\ FlattenSeq(seqs) \in Seq(T)
         /\ Range(FlattenSeq(seqs)) = UNION {Range(seqs[i]) : i \in 1 .. Len(seqs)}
         /\ /\ \A i \in 1 .. Len(seqs) : IsInjective(seqs[i])
            /\ \A i, j \in 1 .. Len(seqs) : i # j => Range(seqs[i]) \cap Range(seqs[j]) = {}
            => IsInjective(FlattenSeq(seqs))
<1> DEFINE Upto(n) == UNION {Range(seqs[i]) : i \in 1 .. n}
           Sundered ==
               /\ \A i \in 1 .. Len(seqs) : IsInjective(seqs[i])
               /\ \A i, j \in 1 .. Len(seqs) :
                         i # j => Range(seqs[i]) \cap Range(seqs[j]) = {}
<1>a. Range(<<>>) = {} /\ IsInjective(<<>>) /\ Upto(0) = {} /\ <<>> \in Seq(T)
  BY DEF Range, IsInjective
<1>1. CASE seqs = <<>>
  <2>1. FlattenSeq(seqs) = <<>> /\ Len(seqs) = 0
    BY <1>1 DEF FlattenSeq
  <2> QED BY <1>a, <2>1
<1>2. CASE seqs # <<>>
  <2>0. PICK f : FlattenUpTo(f, T, seqs)
    BY <1>2, FlattenLoop
  <2>1. /\ f \in [0 .. Len(seqs) -> Seq(T)] /\ f[0] = <<>>
        /\ FlattenSeq(seqs) = f[Len(seqs)]
        /\ \A n \in 1 .. Len(seqs) : f[n] = f[n - 1] \o seqs[n]
    BY <2>0 DEF FlattenUpTo
  <2>2. Len(seqs) \in Nat /\ \A n \in 1 .. Len(seqs) : seqs[n] \in Seq(T)
    OBVIOUS
  <2> DEFINE K == {n \in 0 .. Len(seqs) :
                      Range(f[n]) = Upto(n) /\ (Sundered => IsInjective(f[n]))}
  <2>3. 0 \in K
    <3>1. 0 \in 0 .. Len(seqs)
      BY <2>2
    <3> HIDE DEF Upto, Sundered
    <3> QED BY <1>a, <2>1, <3>1
  <2>4. ASSUME NEW n \in 1 .. Len(seqs), n - 1 \in K PROVE n \in K
    <3>1. n \in 0 .. Len(seqs) /\ n - 1 \in 0 .. Len(seqs)
      BY <2>2
    <3>2. f[n - 1] \in Seq(T) /\ seqs[n] \in Seq(T) /\ f[n] = f[n - 1] \o seqs[n]
      BY <2>1, <2>2, <3>1
    <3>3. Range(f[n - 1]) = Upto(n - 1) /\ (Sundered => IsInjective(f[n - 1]))
      <4> HIDE DEF Sundered
      <4> QED BY <2>4
    <3>4. Upto(n) = Upto(n - 1) \cup Range(seqs[n])
      <4>1. 1 .. n = (1 .. n - 1) \cup {n}
        BY <2>2
      <4> QED BY <4>1
    <3>5. Sundered => IsInjective(seqs[n]) /\ Upto(n - 1) \cap Range(seqs[n]) = {}
      <4>1. ASSUME Sundered, NEW i \in 1 .. n - 1 PROVE Range(seqs[i]) \cap Range(seqs[n]) = {}
        <5>1. i \in 1 .. Len(seqs) /\ i # n
          BY <2>2
        <5> QED BY <4>1, <5>1
      <4>2. Sundered => Upto(n - 1) \cap Range(seqs[n]) = {}
        BY <4>1
      <4> QED BY <4>2
    <3> HIDE DEF Upto, Sundered
    <3>6. /\ Range(f[n]) = Range(f[n - 1]) \cup Range(seqs[n])
          /\ IsInjective(f[n - 1]) /\ IsInjective(seqs[n])
             /\ Range(f[n - 1]) \cap Range(seqs[n]) = {} => IsInjective(f[n])
      BY <3>2, ConcatRange
    <3> QED BY <3>1, <3>3, <3>4, <3>5, <3>6
  <2>5. Len(seqs) \in K
    <3>1. 0 .. Len(seqs) \subseteq K
      <4> HIDE DEF K
      <4> QED BY <2>2, <2>3, <2>4, UpToInd
    <3>2. Len(seqs) \in 0 .. Len(seqs)
      BY <2>2
    <3> HIDE DEF K
    <3> QED BY <3>1, <3>2
  <2>6. f[Len(seqs)] \in Seq(T)
    BY <2>1, <2>2
  <2>7. Range(f[Len(seqs)]) = Upto(Len(seqs)) /\ (Sundered => IsInjective(f[Len(seqs)]))
    <3> HIDE DEF Sundered, Upto
    <3> QED BY <2>5
  <2> QED BY <2>1, <2>6, <2>7
<1> QED BY <1>1, <1>2

----------------------------------------------------------------------------
(* The number of groups to validate with *)

\* A number that belongs to each element is least for one.
LEMMA LeastOf ==
  ASSUME NEW S, S # {}, NEW f \in [S -> Nat]
  PROVE  \E g \in S : \A h \in S : f[g] <= f[h]
<1> DEFINE T == {f[g] : g \in S}
<1>1. T \in SUBSET Nat /\ T # {}
  OBVIOUS
<1>2. PICK n \in T : \A i \in T : n <= i
  <2> HIDE DEF T
  <2> QED BY <1>1, Least
<1>3. PICK g \in S : n = f[g]
  BY <1>2
<1>4. \A h \in S : f[h] \in T
  OBVIOUS
<1> QED BY <1>2, <1>3, <1>4

LEMMA LessAt ==
  ASSUME NEW a \in Nat, NEW b \in Nat, NEW k \in Nat, NEW l \in Nat,
         NEW A \in Nat, NEW B \in Nat, NEW C \in Nat, NEW D \in Nat,
         \/ a < A
         \/ a = A /\ b < B
         \/ a = A /\ b = B /\ k < C
         \/ a = A /\ b = B /\ k = C /\ l < D
  PROVE  Less(<<a, b, k, l>>, <<A, B, C, D>>)
<1> DEFINE x == <<a, b, k, l>>
           y == <<A, B, C, D>>
<1>1. /\ DOMAIN x = 1 .. 4
      /\ x[1] = a /\ x[2] = b /\ x[3] = k /\ x[4] = l
      /\ y[1] = A /\ y[2] = B /\ y[3] = C /\ y[4] = D
  OBVIOUS
<1> HIDE DEF x, y
<1>2. CASE a < A
  <2>1. 1 \in DOMAIN x /\ x[1] < y[1] /\ \A m \in 1 .. 1 - 1 : x[m] = y[m]
    BY <1>1, <1>2
  <2> QED BY <2>1 DEF Less, x, y
<1>3. CASE a = A /\ b < B
  <2>1. 2 \in DOMAIN x /\ x[2] < y[2] /\ \A m \in 1 .. 2 - 1 : x[m] = y[m]
    BY <1>1, <1>3
  <2> QED BY <2>1 DEF Less, x, y
<1>4. CASE a = A /\ b = B /\ k < C
  <2>1. \A m \in 1 .. 3 - 1 : m = 1 \/ m = 2
    OBVIOUS
  <2>2. 3 \in DOMAIN x /\ x[3] < y[3] /\ \A m \in 1 .. 3 - 1 : x[m] = y[m]
    BY <1>1, <1>4, <2>1
  <2> QED BY <2>2 DEF Less, x, y
<1>5. CASE a = A /\ b = B /\ k = C /\ l < D
  <2>1. \A m \in 1 .. 4 - 1 : m = 1 \/ m = 2 \/ m = 3
    OBVIOUS
  <2>2. 4 \in DOMAIN x /\ x[4] < y[4] /\ \A m \in 1 .. 4 - 1 : x[m] = y[m]
    BY <1>1, <1>5, <2>1
  <2> QED BY <2>2 DEF Less, x, y
<1> QED BY <1>2, <1>3, <1>4, <1>5

\* Of four numbers in turn, likewise, by the order of _choose_validation_group_count.
LEMMA LexLeast ==
  ASSUME NEW S, S # {}, NEW a \in [S -> Nat], NEW b \in [S -> Nat], NEW k \in [S -> Nat],
         NEW l \in [S -> Nat]
  PROVE  \E g \in S : \A h \in S : l[h] # l[g] =>
           Less(<<a[g], b[g], k[g], l[g]>>, <<a[h], b[h], k[h], l[h]>>)
<1> DEFINE A == {g \in S : \A h \in S : a[g] <= a[h]}
           B == {g \in A : \A h \in A : b[g] <= b[h]}
           C == {g \in B : \A h \in B : k[g] <= k[h]}
<1>0. ASSUME NEW R, R # {}, R \subseteq S, NEW f \in [S -> Nat]
      PROVE  \E g \in R : \A h \in R : f[g] <= f[h]
  <2> DEFINE r == [g \in R |-> f[g]]
  <2>1. r \in [R -> Nat] /\ \A g \in R : r[g] = f[g]
    BY <1>0
  <2> HIDE DEF r
  <2>2. PICK g \in R : \A h \in R : r[g] <= r[h]
    BY <1>0, <2>1, LeastOf
  <2> QED BY <2>1, <2>2
<1>1. A # {} /\ A \subseteq S
  BY <1>0
<1>2. B # {} /\ B \subseteq A
  <2>1. \E g \in A : \A h \in A : b[g] <= b[h]
    <3> HIDE DEF A
    <3> QED BY <1>0, <1>1
  <2> QED BY <2>1
<1>3. C # {} /\ C \subseteq B
  <2>1. \E g \in B : \A h \in B : k[g] <= k[h]
    <3> HIDE DEF A, B
    <3> QED BY <1>0, <1>1, <1>2
  <2> QED BY <2>1
<1>4. PICK g \in C : \A h \in C : l[g] <= l[h]
  <2> HIDE DEF A, B, C
  <2> QED BY <1>0, <1>1, <1>2, <1>3
<1>5. ASSUME NEW h \in S, l[h] # l[g]
      PROVE  Less(<<a[g], b[g], k[g], l[g]>>, <<a[h], b[h], k[h], l[h]>>)
  <2>1. g \in A /\ g \in B /\ g \in C /\ g \in S
    BY <1>1, <1>2, <1>3, <1>4
  <2>2. /\ a[g] \in Nat /\ b[g] \in Nat /\ k[g] \in Nat /\ l[g] \in Nat
        /\ a[h] \in Nat /\ b[h] \in Nat /\ k[h] \in Nat /\ l[h] \in Nat
    BY <2>1
  <2>3. a[g] <= a[h]
    BY <2>1
  <2>4. a[g] = a[h] => h \in A
    <3>1. ASSUME a[g] = a[h] PROVE \A i \in S : a[h] <= a[i]
      BY <2>1, <3>1
    <3> QED BY <3>1
  <2>5. h \in A => b[g] <= b[h]
    BY <2>1
  <2>6. h \in A /\ b[g] = b[h] => h \in B
    <3>1. ASSUME h \in A, b[g] = b[h] PROVE \A i \in A : b[h] <= b[i]
      BY <2>1, <3>1
    <3> QED BY <3>1
  <2>7. h \in B => k[g] <= k[h]
    BY <2>1
  <2>8. h \in B /\ k[g] = k[h] => h \in C
    <3>1. ASSUME h \in B, k[g] = k[h] PROVE \A i \in B : k[h] <= k[i]
      BY <2>1, <3>1
    <3> QED BY <3>1
  <2>9. h \in C => l[g] <= l[h]
    BY <1>4
  <2> HIDE DEF A, B, C
  <2>10. \/ a[g] < a[h]
         \/ a[g] = a[h] /\ b[g] < b[h]
         \/ a[g] = a[h] /\ b[g] = b[h] /\ k[g] < k[h]
         \/ a[g] = a[h] /\ b[g] = b[h] /\ k[g] = k[h] /\ l[g] < l[h]
    BY <1>5, <2>2, <2>3, <2>4, <2>5, <2>6, <2>7, <2>8, <2>9
  <2> QED BY <2>2, <2>10, LessAt
<1>6. g \in S
  BY <1>1, <1>2, <1>3, <1>4
<1> HIDE DEF A, B, C
<1> QED BY <1>5, <1>6

\* With two groups or more, one at least validates and one at least trains.
LEMMA ValidationGroupsInRange ==
  ASSUME NEW sizes \in Seq(Nat), Len(sizes) >= 2, NEW target \in Int
  PROVE  ValidationGroups(sizes, target) \in 1 .. Len(sizes) - 1
<1> DEFINE L == Len(sizes)
           Turn(f, n) == IF n = 0 THEN 0 ELSE f[n - 1] + sizes[n]
           F == CHOOSE f : f = [n \in 0 .. L |-> Turn(f, n)]
           turn == [p \in (1 .. L) \X Nat |-> p[2] + sizes[p[1]]]
           Distance(g) == IF F[g] > target THEN F[g] - target ELSE target - F[g]
           Over(g) == IF F[g] > target THEN 1 ELSE 0
           Counts == 1 .. L - 1
<1>1. L \in Nat /\ L >= 2 /\ 0 \in Nat /\ \A n \in 1 .. L : sizes[n] \in Nat
  OBVIOUS
<1>2. turn \in [(1 .. L) \X Nat -> Nat] /\ \A n \in 1 .. L, v \in Nat : turn[<<n, v>>] = v + sizes[n]
  <2>1. ASSUME NEW p \in (1 .. L) \X Nat PROVE p[2] + sizes[p[1]] \in Nat
    <3>1. p[1] \in 1 .. L /\ p[2] \in Nat
      OBVIOUS
    <3> QED BY <1>1, <3>1
  <2>2. \A n \in 1 .. L, v \in Nat : turn[<<n, v>>] = v + sizes[n]
    OBVIOUS
  <2> HIDE DEF L
  <2> QED BY <2>1, <2>2
<1>3. \E f : f = [n \in 0 .. L |-> Turn(f, n)]
  <2> HIDE DEF turn, L, F, Turn
  <2>8. PICK f : Loops(f, L, Nat, 0, turn)
    BY <1>1, <1>2, Recursion
  <2>1. /\ f \in [0 .. L -> Nat] /\ f[0] = 0
        /\ \A n \in 1 .. L : f[n] = turn[<<n, f[n - 1]>>]
    BY <2>8 DEF Loops
  <2>2. ASSUME NEW n \in 0 .. L PROVE f[n] = Turn(f, n)
    <3>1. CASE n = 0
      BY <2>1, <3>1 DEF Turn
    <3>2. CASE n # 0
      <4>1. n \in 1 .. L /\ n - 1 \in 0 .. L
        BY <1>1, <3>2
      <4>3. f[n - 1] \in Nat
        BY <2>1, <4>1
      <4>2. f[n] = turn[<<n, f[n - 1]>>]
        BY <2>1, <4>1
      <4> QED BY <1>2, <3>2, <4>1, <4>2, <4>3 DEF Turn
    <3> QED BY <3>1, <3>2
  <2>3. f = [n \in 0 .. L |-> Turn(f, n)]
    BY <2>1, <2>2
  <2> QED BY <2>3
<1>4. F = [n \in 0 .. L |-> Turn(F, n)]
  <2> HIDE DEF Turn
  <2> QED BY <1>3
<1>5. ValidationGroups(sizes, target) =
        CHOOSE g \in Counts : \A h \in Counts \ {g} :
           Less(<<Distance(g), Over(g), F[g], g>>, <<Distance(h), Over(h), F[h], h>>)
  BY DEF ValidationGroups
<1> HIDE DEF F
<1>6. F[0] = 0 /\ \A n \in 1 .. L : F[n] = F[n - 1] + sizes[n]
  <2>1. \A n \in 0 .. L : F[n] = Turn(F, n)
    <3> HIDE DEF Turn
    <3> QED BY <1>4
  <2>2. \A n \in 1 .. L : n \in 0 .. L /\ n # 0
    BY <1>1
  <2>3. 0 \in 0 .. L
    BY <1>1
  <2> QED BY <2>1, <2>2, <2>3
<1>7. \A n \in 0 .. L : F[n] \in Nat
  <2> DEFINE K == {n \in 0 .. L : F[n] \in Nat}
  <2>1. 0 \in K
    BY <1>1, <1>6
  <2>2. ASSUME NEW n \in 1 .. L, n - 1 \in K PROVE n \in K
    <3>1. F[n - 1] \in Nat /\ sizes[n] \in Nat /\ n \in 0 .. L
      BY <1>1, <2>2
    <3> QED BY <1>6, <3>1
  <2>3. 0 .. L \subseteq K
    <3> HIDE DEF K, L
    <3> QED BY <1>1, <2>1, <2>2, UpToInd
  <2> QED BY <2>3
<1>8. Counts # {} /\ \A g \in Counts : g \in Nat /\ F[g] \in Nat
  <2>1. 1 \in Counts /\ \A g \in Counts : g \in Nat /\ g \in 0 .. L
    BY <1>1
  <2> HIDE DEF Counts, L
  <2> QED BY <1>7, <2>1
<1> DEFINE a == [g \in Counts |-> Distance(g)]
           b == [g \in Counts |-> Over(g)]
           k == [g \in Counts |-> F[g]]
           l == [g \in Counts |-> g]
<1>9. /\ a \in [Counts -> Nat] /\ b \in [Counts -> Nat] /\ k \in [Counts -> Nat]
      /\ l \in [Counts -> Nat]
  <2>1. ASSUME NEW g \in Counts PROVE Distance(g) \in Nat /\ Over(g) \in Nat
    <3>1. F[g] \in Nat
      BY <1>8
    <3> HIDE DEF Counts
    <3> QED BY <3>1
  <2> HIDE DEF Counts, Distance, Over
  <2> QED BY <1>8, <2>1
<1>10. \A g \in Counts : a[g] = Distance(g) /\ b[g] = Over(g) /\ k[g] = F[g] /\ l[g] = g
  OBVIOUS
<1> HIDE DEF a, b, k, l, Counts, Distance, Over
<1>11. PICK g \in Counts : \A h \in Counts : l[h] # l[g] =>
           Less(<<a[g], b[g], k[g], l[g]>>, <<a[h], b[h], k[h], l[h]>>)
  BY <1>8, <1>9, LexLeast
<1>12. \A h \in Counts \ {g} :
           Less(<<Distance(g), Over(g), F[g], g>>, <<Distance(h), Over(h), F[h], h>>)
  BY <1>10, <1>11
<1>13. ValidationGroups(sizes, target) \in Counts
  BY <1>5, <1>12
<1> QED BY <1>13 DEF Counts

LEMMA TargetType ==
  ASSUME NEW n \in Nat, NEW num \in Nat, NEW den \in Nat, 0 < den
  PROVE  Max({1, Min({n - 1, Round(n * num, den)})}) \in Int
<1>2. n * num \in Nat
  OBVIOUS
<1>3. ASSUME NEW x \in Nat PROVE Round(x, den) \in Int
  <2>1. x \div den \in Int /\ x % den \in Int
    OBVIOUS
  <2>2. (x \div den) % 2 \in Int
    BY <2>1
  <2> QED BY <2>1, <2>2 DEF Round
<1>4. ASSUME NEW x \in Int, NEW y \in Int
      PROVE  Min({x, y}) \in Int /\ Max({x, y}) \in Int
  <2>1. \E z \in {x, y} : \A w \in {x, y} : z =< w
    OBVIOUS
  <2>2. \E z \in {x, y} : \A w \in {x, y} : z >= w
    OBVIOUS
  <2>3. Min({x, y}) \in {x, y}
    BY <2>1 DEF Min
  <2>4. Max({x, y}) \in {x, y}
    BY <2>2 DEF Max
  <2> QED BY <2>3, <2>4
<1>5. Round(n * num, den) \in Int
  BY <1>2, <1>3
<1>6. Min({n - 1, Round(n * num, den)}) \in Int
  BY <1>4, <1>5
<1>7. ASSUME NEW x \in Int PROVE Max({1, x}) \in Int
  <2>1. 1 \in Int
    OBVIOUS
  <2> QED BY <1>4, <2>1
<1> QED BY <1>6, <1>7

----------------------------------------------------------------------------
(* The stages *)

\* deduplicate_exact_records leaves each content once, and loses none when no key has two.
LEMMA UniqueProperties ==
  ASSUME NEW T, NEW recs \in Seq(T)
  PROVE  /\ Unique(recs) \in Seq(T) /\ Range(Unique(recs)) \subseteq Range(recs)
         /\ \A i, j \in DOMAIN Unique(recs) :
              Content(Unique(recs)[i]) = Content(Unique(recs)[j]) => i = j
         /\ ~Conflicting(recs) =>
              {Content(r) : r \in Range(Unique(recs))} = {Content(r) : r \in Range(recs)}
<1> DEFINE D == DOMAIN recs
           Duplicate(i) ==
             \E j \in 1 .. i - 1 : \/ Content(recs[j]) = Content(recs[i])
                                   \/ recs[i].key # None /\ recs[j].key = recs[i].key
           Index == [i \in D |-> i]
           S == {i \in D : ~Duplicate(i)}
           Kept == Only(Index, S)
           U == [n \in DOMAIN Kept |-> recs[Kept[n]]]
<1>1. Unique(recs) = U
  BY DEF Unique, Repeats
<1>2. D = 1 .. Len(recs) /\ Len(recs) \in Nat /\ \A i \in D : recs[i] \in T
  OBVIOUS
<1>3. Index \in Seq(D) /\ Range(Index) = D /\ IsInjective(Index)
  BY <1>2 DEF Range, IsInjective
<1>4. Kept \in Seq(D) /\ Range(Kept) = S /\ IsInjective(Kept)
  <2> HIDE DEF Index, S, D
  <2>1. /\ Kept \in Seq(D) /\ Range(Kept) = D \cap S /\ IsInjective(Kept)
    BY <1>3, OnlyProperties
  <2>2. D \cap S = S
    BY DEF S
  <2> QED BY <2>1, <2>2
<1> HIDE DEF Kept
<1>5. \A n \in DOMAIN Kept : Kept[n] \in S /\ Kept[n] \in D
  <2>1. S \subseteq D
    OBVIOUS
  <2> HIDE DEF S, D
  <2> QED BY <1>4, <2>1 DEF Range
<1>6. \A i \in S : \E n \in DOMAIN Kept : Kept[n] = i
  <2> HIDE DEF S
  <2> QED BY <1>4 DEF Range
<1>7. DOMAIN Kept = 1 .. Len(Kept) /\ Len(Kept) \in Nat
  <2> HIDE DEF D
  <2> QED BY <1>4
<1>8. U \in Seq(T) /\ DOMAIN U = DOMAIN Kept
  <2>1. \A n \in 1 .. Len(Kept) : recs[Kept[n]] \in T
    <3> HIDE DEF S, D
    <3> QED BY <1>2, <1>5, <1>7
  <2>2. U = [n \in 1 .. Len(Kept) |-> recs[Kept[n]]]
    BY <1>7
  <2> HIDE DEF U
  <2> QED BY <1>7, <2>1, <2>2
<1>9. Range(U) = {recs[i] : i \in S}
  <2>1. Range(U) = {recs[Kept[n]] : n \in DOMAIN Kept}
    BY DEF Range
  <2> HIDE DEF S, D, U
  <2> QED BY <1>5, <1>6, <2>1
<1>10. Range(U) \subseteq Range(recs)
  <2> HIDE DEF U
  <2> QED BY <1>9 DEF Range
<1>11. ASSUME NEW i \in D, NEW j \in S, i < j PROVE Content(recs[i]) # Content(recs[j])
  <2>1. i \in 1 .. j - 1
    BY <1>2, <1>11
  <2>2. ~Duplicate(j)
    OBVIOUS
  <2> QED BY <2>1, <2>2
<1>12. ASSUME NEW n \in DOMAIN U, NEW m \in DOMAIN U, Content(U[n]) = Content(U[m])
       PROVE  n = m
  <2>1. /\ n \in DOMAIN Kept /\ m \in DOMAIN Kept
        /\ Content(recs[Kept[n]]) = Content(recs[Kept[m]])
    BY <1>12
  <2>2. Kept[n] \in S /\ Kept[n] \in D /\ Kept[m] \in S /\ Kept[m] \in D
    BY <1>5, <2>1
  <2>3. Kept[n] = Kept[m]
    <3>1. Kept[n] \in Nat /\ Kept[m] \in Nat
      BY <1>2, <2>2
    <3>2. ~(Kept[n] < Kept[m]) /\ ~(Kept[m] < Kept[n])
      <4> HIDE DEF S, D, Duplicate
      <4> QED BY <1>11, <2>1, <2>2
    <3> QED BY <3>1, <3>2
  <2> HIDE DEF S, D, U
  <2> QED BY <1>4, <2>1, <2>3 DEF IsInjective
<1>13. ASSUME ~Conflicting(recs), NEW i \in D
       PROVE  \E n \in S : Content(recs[n]) = Content(recs[i])
  <2> DEFINE Same == {n \in D : Content(recs[n]) = Content(recs[i])}
  <2>1. Same \in SUBSET Nat /\ Same # {}
    BY <1>2
  <2>2. PICK n \in Same : \A m \in Same : n <= m
    <3> HIDE DEF Same
    <3> QED BY <2>1, Least
  <2>3. ASSUME NEW m \in 1 .. n - 1, \/ Content(recs[m]) = Content(recs[n])
                                     \/ recs[n].key # None /\ recs[m].key = recs[n].key
        PROVE  FALSE
    <3>1. m \in D /\ m < n /\ n \in D
      BY <1>2, <2>2
    <3>2. Content(recs[m]) = Content(recs[n])
      BY <1>13, <2>3, <3>1 DEF Conflicting
    <3>3. m \in Same
      BY <2>2, <3>1, <3>2
    <3> QED BY <1>2, <2>2, <3>1, <3>3
  <2>4. n \in D /\ Content(recs[n]) = Content(recs[i])
    BY <2>2
  <2>5. n \in S
    BY <2>3, <2>4
  <2> QED BY <2>4, <2>5
<1>14. ASSUME ~Conflicting(recs)
       PROVE  {Content(r) : r \in Range(U)} = {Content(r) : r \in Range(recs)}
  <2>1. Range(recs) = {recs[i] : i \in D}
    BY DEF Range
  <2>2. \A r \in Range(recs) : \E q \in Range(U) : Content(q) = Content(r)
    <3> HIDE DEF S, U, D
    <3> QED BY <1>9, <1>13, <1>14, <2>1
  <2> HIDE DEF U
  <2> QED BY <1>10, <2>2
<1> HIDE DEF U
<1> QED BY <1>1, <1>8, <1>10, <1>12, <1>14

\* The prompts of a corpus are finitely many.
LEMMA LinkedFinite ==
  ASSUME NEW T, NEW recs \in Seq(T)
  PROVE  Linked(recs) = {r.prompt : r \in Range(recs)} /\ IsFiniteSet(Linked(recs))
<1>1. DOMAIN recs = 1 .. Len(recs) /\ \A i \in DOMAIN recs : recs[i] \in T
  OBVIOUS
<1>2. Linked(recs) = {r.prompt : r \in Range(recs)}
  BY DEF Linked, Range
<1>3. IsFiniteSet(Linked(recs))
  <2> DEFINE ps == [i \in 1 .. Len(recs) |-> recs[i].prompt]
  <2>1. ps \in Seq(Linked(recs)) /\ Range(ps) = Linked(recs)
    BY <1>1 DEF Linked, Range
  <2> HIDE DEF ps
  <2>2. IsFiniteSet(Range(ps))
    BY <2>1, InjectiveLength
  <2> QED BY <2>1, <2>2
<1> QED BY <1>2, <1>3

\* The group of a prompt is all of its records.
LEMMA GroupProperties ==
  ASSUME NEW T, NEW recs \in Seq(T), NEW p
  PROVE  /\ Group(recs, p) \in Seq(T)
         /\ Range(Group(recs, p)) = {r \in Range(recs) : r.prompt = p}
         /\ IsInjective(recs) => IsInjective(Group(recs, p))
<1> DEFINE S == {r \in Range(recs) : r.prompt = p}
<1>1. Range(recs) \cap S = S /\ Group(recs, p) = Only(recs, S)
  BY DEF Group
<1> HIDE DEF S
<1>2. /\ Only(recs, S) \in Seq(T) /\ Range(Only(recs, S)) = Range(recs) \cap S
      /\ IsInjective(recs) => IsInjective(Only(recs, S))
  BY OnlyProperties
<1>3. Group(recs, p) \in Seq(T) /\ Range(Group(recs, p)) = S
      /\ (IsInjective(recs) => IsInjective(Group(recs, p)))
  BY <1>1, <1>2
<1> QED BY <1>3 DEF S

\* A run of the groups: what is in it, and nothing twice.
IsPart(part, T, seqs, m, n) ==
    /\ part \in Seq(T) /\ IsInjective(part)
    /\ Range(part) = UNION {Range(seqs[i]) : i \in m .. n}

LEMMA PartProperties ==
  ASSUME NEW T, NEW seqs \in Seq(Seq(T)), NEW m \in Nat, NEW n \in Nat, 1 <= m, m <= n,
         n <= Len(seqs),
         \A i \in 1 .. Len(seqs) : IsInjective(seqs[i]),
         \A i, j \in 1 .. Len(seqs) : i # j => Range(seqs[i]) \cap Range(seqs[j]) = {}
  PROVE  IsPart(FlattenSeq(SubSeq(seqs, m, n)), T, seqs, m, n)
<1> DEFINE sub == SubSeq(seqs, m, n)
<1>1. /\ sub \in Seq(Seq(T)) /\ Len(sub) = n - m + 1
      /\ \A i \in 1 .. Len(sub) : sub[i] = seqs[i + m - 1]
  <2>1. sub = [i \in 1 .. n - m + 1 |-> seqs[i + m - 1]]
    OBVIOUS
  <2>2. \A i \in 1 .. n - m + 1 : i + m - 1 \in 1 .. Len(seqs)
    OBVIOUS
  <2>3. n - m + 1 \in Nat /\ \A i \in 1 .. n - m + 1 : seqs[i + m - 1] \in Seq(T)
    BY <2>2
  <2> HIDE DEF sub
  <2>4. sub \in Seq(Seq(T))
    BY <2>1, <2>3
  <2>5. Len(sub) = n - m + 1
    BY <2>1, <2>3
  <2> QED BY <2>1, <2>4, <2>5
<1>2. \A i \in 1 .. Len(sub) : i + m - 1 \in m .. n /\ i + m - 1 \in 1 .. Len(seqs)
  <2> HIDE DEF sub
  <2> QED BY <1>1
<1>3. \A i \in m .. n : i - m + 1 \in 1 .. Len(sub) /\ sub[i - m + 1] = seqs[i]
  <2> HIDE DEF sub
  <2>1. ASSUME NEW i \in m .. n PROVE i - m + 1 \in 1 .. Len(sub) /\ (i - m + 1) + m - 1 = i
    <3>1. PICK l : l = Len(sub)
      OBVIOUS
    <3>2. l = n - m + 1
      BY <1>1, <3>1
    <3>3. i - m + 1 \in 1 .. l /\ (i - m + 1) + m - 1 = i
      BY <3>2
    <3> QED BY <3>1, <3>3
  <2> QED BY <1>1, <2>1
<1> HIDE DEF sub
<1>4. \A i \in 1 .. Len(sub) : IsInjective(sub[i])
  BY <1>1, <1>2
<1>5. \A i, j \in 1 .. Len(sub) : i # j => Range(sub[i]) \cap Range(sub[j]) = {}
  <2> SUFFICES ASSUME NEW i \in 1 .. Len(sub), NEW j \in 1 .. Len(sub), i # j
               PROVE  Range(sub[i]) \cap Range(sub[j]) = {}
    OBVIOUS
  <2>1. i + m - 1 # j + m - 1
    BY <1>1
  <2> QED BY <1>1, <1>2, <2>1
<1>6. UNION {Range(sub[i]) : i \in 1 .. Len(sub)} = UNION {Range(seqs[i]) : i \in m .. n}
  <2>1. {Range(sub[i]) : i \in 1 .. Len(sub)} = {Range(seqs[i]) : i \in m .. n}
    <3>1. ASSUME NEW i \in 1 .. Len(sub)
          PROVE  \E j \in m .. n : Range(sub[i]) = Range(seqs[j])
      BY <1>1, <1>2
    <3>2. ASSUME NEW j \in m .. n
          PROVE  \E i \in 1 .. Len(sub) : Range(sub[i]) = Range(seqs[j])
      BY <1>3
    <3> QED BY <3>1, <3>2
  <2> QED BY <2>1
<1>7. /\ FlattenSeq(sub) \in Seq(T) /\ IsInjective(FlattenSeq(sub))
      /\ Range(FlattenSeq(sub)) = UNION {Range(sub[i]) : i \in 1 .. Len(sub)}
  BY <1>1, <1>4, <1>5, FlattenProperties
<1> QED BY <1>6, <1>7 DEF sub, IsPart

\* Two non-empty halves of the records that no prompt is in both of.
Separates(T, train, validation, recs) ==
    /\ train \in Seq(T) /\ IsInjective(train) /\ Range(train) # {}
    /\ validation \in Seq(T) /\ IsInjective(validation) /\ Range(validation) # {}
    /\ Range(train) \cup Range(validation) = Range(recs)
    /\ \A r \in Range(train), q \in Range(validation) : r.prompt # q.prompt

\* split_deduplicated_records, of the prompts in some order.
SplitIn(recs, order, target) ==
    LET groups == [n \in DOMAIN order |-> Group(recs, order[n])]
        count == ValidationGroups([n \in DOMAIN groups |-> Len(groups[n])], target)
    IN [train |-> FlattenSeq(SubSeq(groups, count + 1, Len(groups))),
        validation |-> FlattenSeq(SubSeq(groups, 1, count))]

\* It separates.
LEMMA SplitProperties ==
  ASSUME NEW T, NEW recs \in Seq(T), IsInjective(recs), Cardinality(Linked(recs)) >= 2,
         NEW order, IsPermutation(order, Linked(recs)), NEW target \in Int
  PROVE  Separates(T, SplitIn(recs, order, target).train,
                   SplitIn(recs, order, target).validation, recs)
<1> DEFINE groups == [n \in DOMAIN order |-> Group(recs, order[n])]
           sizes == [n \in DOMAIN groups |-> Len(groups[n])]
           count == ValidationGroups(sizes, target)
           train == FlattenSeq(SubSeq(groups, count + 1, Len(groups)))
           validation == FlattenSeq(SubSeq(groups, 1, count))
<1>1. SplitIn(recs, order, target) = [train |-> train, validation |-> validation]
  BY DEF SplitIn
<1>2. /\ order \in Seq(Linked(recs)) /\ Range(order) = Linked(recs) /\ IsInjective(order)
  BY DEF IsPermutation
<1>3. Len(order) \in Nat /\ Len(order) >= 2 /\ DOMAIN order = 1 .. Len(order)
  <2>1. Cardinality(Range(order)) = Len(order)
    BY <1>2, InjectiveLength
  <2> QED BY <1>2, <2>1
<1>4. \A n \in DOMAIN order :
        /\ groups[n] \in Seq(T) /\ IsInjective(groups[n])
        /\ Range(groups[n]) = {r \in Range(recs) : r.prompt = order[n]}
  <2>1. \A n \in DOMAIN order : groups[n] = Group(recs, order[n])
    OBVIOUS
  <2> HIDE DEF groups
  <2> QED BY <2>1, GroupProperties
<1>5. groups \in Seq(Seq(T)) /\ Len(groups) = Len(order) /\ DOMAIN groups = DOMAIN order
  <2>1. groups = [n \in 1 .. Len(order) |-> groups[n]]
    BY <1>3
  <2> HIDE DEF groups
  <2>2. groups \in Seq(Seq(T))
    BY <1>3, <1>4, <2>1
  <2>3. Len(groups) = Len(order)
    BY <1>3, <2>1
  <2> QED BY <1>3, <2>1, <2>2, <2>3
<1> HIDE DEF groups
<1>6. sizes \in Seq(Nat) /\ Len(sizes) = Len(order)
  <2>1. \A n \in 1 .. Len(order) : Len(groups[n]) \in Nat
    <3>1. \A n \in 1 .. Len(order) : groups[n] \in Seq(T)
      BY <1>3, <1>4
    <3>2. \A sq \in Seq(T) : Len(sq) \in Nat
      OBVIOUS
    <3> QED BY <3>1, <3>2
  <2>2. sizes = [n \in 1 .. Len(order) |-> Len(groups[n])]
    BY <1>3, <1>5
  <2> HIDE DEF sizes
  <2>3. sizes \in Seq(Nat)
    BY <1>3, <2>1, <2>2
  <2> QED BY <1>3, <2>2, <2>3
<1> HIDE DEF sizes
<1>8. count \in 1 .. Len(order) - 1
  BY <1>3, <1>6, ValidationGroupsInRange
<1> HIDE DEF count
<1>9. \A i, j \in 1 .. Len(groups) : i # j => Range(groups[i]) \cap Range(groups[j]) = {}
  <2> SUFFICES ASSUME NEW i \in 1 .. Len(groups), NEW j \in 1 .. Len(groups), i # j
               PROVE  Range(groups[i]) \cap Range(groups[j]) = {}
    OBVIOUS
  <2>1. order[i] # order[j]
    BY <1>2, <1>3, <1>5 DEF IsInjective
  <2> QED BY <1>3, <1>4, <1>5, <2>1
<1>10. \A i \in 1 .. Len(groups) : IsInjective(groups[i])
  BY <1>3, <1>4, <1>5
<1>11. /\ 1 \in Nat /\ count \in Nat /\ count + 1 \in Nat /\ Len(groups) \in Nat
       /\ 1 <= 1 /\ 1 <= count /\ count <= Len(groups)
       /\ 1 <= count + 1 /\ count + 1 <= Len(groups) /\ Len(groups) <= Len(groups)
  BY <1>3, <1>5, <1>8
<1>12. /\ validation \in Seq(T) /\ IsInjective(validation)
       /\ Range(validation) = UNION {Range(groups[i]) : i \in 1 .. count}
  <2>1. IsPart(validation, T, groups, 1, count)
    BY <1>5, <1>9, <1>10, <1>11, PartProperties
  <2> HIDE DEF validation
  <2> QED BY <2>1 DEF IsPart
<1>13. /\ train \in Seq(T) /\ IsInjective(train)
       /\ Range(train) = UNION {Range(groups[i]) : i \in count + 1 .. Len(groups)}
  <2>1. IsPart(train, T, groups, count + 1, Len(groups))
    BY <1>5, <1>9, <1>10, <1>11, PartProperties
  <2> HIDE DEF train
  <2> QED BY <2>1 DEF IsPart
<1> HIDE DEF train, validation
<1>14. /\ 1 .. Len(groups) = (1 .. count) \cup (count + 1 .. Len(groups))
       /\ (1 .. count) \cap (count + 1 .. Len(groups)) = {}
       /\ 1 \in 1 .. count /\ Len(groups) \in count + 1 .. Len(groups)
       /\ DOMAIN order = 1 .. Len(groups)
  BY <1>3, <1>5, <1>11
<1>15. \A i \in DOMAIN order : Range(groups[i]) # {}
  <2> SUFFICES ASSUME NEW i \in DOMAIN order PROVE Range(groups[i]) # {}
    OBVIOUS
  <2>1. order[i] \in Linked(recs)
    BY <1>2 DEF Range
  <2>2. PICK r \in Range(recs) : r.prompt = order[i]
    BY <2>1, LinkedFinite
  <2> QED BY <1>4, <2>2
<1>16. Range(train) # {} /\ Range(validation) # {}
  <2>1. 1 \in DOMAIN order /\ Len(groups) \in DOMAIN order
    BY <1>14
  <2>2. PICK r : r \in Range(groups[1])
    BY <1>15, <2>1
  <2>3. PICK q : q \in Range(groups[Len(groups)])
    BY <1>15, <2>1
  <2>4. r \in Range(validation)
    BY <1>12, <1>14, <2>2
  <2>5. q \in Range(train)
    BY <1>13, <1>14, <2>3
  <2> QED BY <2>4, <2>5
<1>17. Range(train) \cup Range(validation) = Range(recs)
  <2>1. \A r \in Range(train) \cup Range(validation) : r \in Range(recs)
    BY <1>4, <1>12, <1>13, <1>14
  <2>2. ASSUME NEW r \in Range(recs) PROVE r \in Range(train) \cup Range(validation)
    <3>1. r.prompt \in Range(order)
      BY <1>2, LinkedFinite
    <3>2. PICK i \in DOMAIN order : order[i] = r.prompt
      BY <3>1 DEF Range
    <3>3. r \in Range(groups[i]) /\ (i \in 1 .. count \/ i \in count + 1 .. Len(groups))
      BY <1>4, <1>14, <3>2
    <3> QED BY <1>12, <1>13, <3>3
  <2> QED BY <2>1, <2>2
<1>18. ASSUME NEW r \in Range(train), NEW q \in Range(validation) PROVE r.prompt # q.prompt
  <2>1. PICK i \in count + 1 .. Len(groups) : r \in Range(groups[i])
    BY <1>13
  <2>2. PICK j \in 1 .. count : q \in Range(groups[j])
    BY <1>12
  <2>3. i \in DOMAIN order /\ j \in DOMAIN order /\ i # j
    BY <1>14, <2>1, <2>2
  <2>4. r.prompt = order[i] /\ q.prompt = order[j]
    BY <1>4, <2>1, <2>2, <2>3
  <2> QED BY <1>2, <2>3, <2>4 DEF IsInjective
<1>19. Separates(T, train, validation, recs)
  BY <1>12, <1>13, <1>16, <1>17, <1>18 DEF Separates
<1>20. /\ SplitIn(recs, order, target).train = train
       /\ SplitIn(recs, order, target).validation = validation
  BY <1>1
<1> QED BY <1>19, <1>20

----------------------------------------------------------------------------
(* The manifest *)

\* The contents of records, one for each.
LEMMA ContentsOf ==
  ASSUME NEW recs \in Seq(Records)
  PROVE  /\ Contents(recs) \in Seq(Prompts \X Answers) /\ Len(Contents(recs)) = Len(recs)
         /\ Range(Contents(recs)) = {Content(r) : r \in Range(recs)}
<1>1. /\ DOMAIN recs = 1 .. Len(recs) /\ Len(recs) \in Nat
      /\ \A i \in DOMAIN recs : recs[i] \in Records
  OBVIOUS
<1>2. Contents(recs) = [i \in 1 .. Len(recs) |-> Content(recs[i])]
  BY <1>1 DEF Contents
<1>3. \A i \in 1 .. Len(recs) : Content(recs[i]) \in Prompts \X Answers
  BY <1>1 DEF Content, Records
<1>4. Contents(recs) \in Seq(Prompts \X Answers) /\ Len(Contents(recs)) = Len(recs)
  BY <1>1, <1>2, <1>3
<1>5. Range(Contents(recs)) = {Content(r) : r \in Range(recs)}
  BY <1>1, <1>2 DEF Range
<1> QED BY <1>4, <1>5

\* Where no two records of a source have one content, a part of it has none either.
LEMMA ContentsInjective ==
  ASSUME NEW recs \in Seq(Records), NEW part \in Seq(Records), IsInjective(part),
         Range(part) \subseteq Range(recs),
         \A i, j \in DOMAIN recs : Content(recs[i]) = Content(recs[j]) => i = j
  PROVE  IsInjective(Contents(part))
<1>1. /\ DOMAIN Contents(part) = DOMAIN part
      /\ \A i \in DOMAIN part : Contents(part)[i] = Content(part[i])
  BY DEF Contents
<1>2. ASSUME NEW i \in DOMAIN part, NEW j \in DOMAIN part, Content(part[i]) = Content(part[j])
      PROVE  i = j
  <2>1. part[i] \in Range(recs) /\ part[j] \in Range(recs)
    BY DEF Range
  <2>2. PICK n \in DOMAIN recs : recs[n] = part[i]
    BY <2>1 DEF Range
  <2>3. PICK m \in DOMAIN recs : recs[m] = part[j]
    BY <2>1 DEF Range
  <2>4. n = m
    BY <1>2, <2>2, <2>3
  <2> QED BY <2>2, <2>3, <2>4 DEF IsInjective
<1> QED BY <1>1, <1>2 DEF IsInjective

\* What two contents without a common element hold, counted.
LEMMA LengthsAdd ==
  ASSUME NEW T, NEW s \in Seq(T), NEW t \in Seq(T), NEW u \in Seq(T),
         IsInjective(s \o t), IsInjective(u), Range(s) \cup Range(t) = Range(u)
  PROVE  Len(s) + Len(t) = Len(u)
<1>0. s \o t \in Seq(T) /\ Range(s \o t) = Range(s) \cup Range(t)
  BY ConcatRange
<1>1. s \o t \in Seq(T) /\ Range(s \o t) = Range(u)
  BY <1>0
<1>2. Len(s \o t) = Len(s) + Len(t)
  OBVIOUS
<1>3. Len(s \o t) = Cardinality(Range(s \o t)) /\ Len(u) = Cardinality(Range(u))
  BY <1>1, InjectiveLength
<1> QED BY <1>1, <1>2, <1>3

\* What SplitIsSound says of one manifest, with the count of its summary.
SoundManifest(m, count) ==
    /\ {c[1] : c \in Range(m.train)} \cap {c[1] : c \in Range(m.validation)} = {}
    /\ IsInjective(m.train \o m.validation)
    /\ Range(m.train) \cup Range(m.validation) =
         {Content(m.input[i]) : i \in {n \in DOMAIN m.input :
             m.input[n].answer \notin Malformed \cup Long}}
    /\ Range(m.train) # {} /\ Range(m.validation) # {}
    /\ (Range(m.train) \cup Range(m.validation)) \cap Contaminated = {}
    /\ Len(m.train) + Len(m.validation) = count

\* run_dataset_pipeline, when no check on the way raises.
LEMMA ManifestIsSound ==
  ASSUME NEW pre \in Seq(Records), NEW c \in Configs, Accepted(pre)
  PROVE  SoundManifest(Manifest(pre, c), Len(Survivors(pre)))
<1> DEFINE long == LengthAccepted(ContentAccepted(pre))
           U == Survivors(pre)
           train == Split(U, c).train
           validation == Split(U, c).validation
           m == Manifest(pre, c)
<1>1. U = Unique(long)
  BY DEF Survivors
<1>2. ~Conflicting(long) /\ Clean(U) /\ Cardinality(Linked(U)) >= 2
  BY <1>1 DEF Accepted
<1>3. /\ long \in Seq(Records)
      /\ Range(long) = {r \in Range(pre) : r.answer \notin Malformed \cup Long}
  <2> DEFINE S == {r \in Range(pre) : r.answer \notin Malformed}
             some == ContentAccepted(pre)
  <2>1. some \in Seq(Records) /\ Range(some) = S
    <3>1. Range(pre) \cap S = S /\ some = Only(pre, S)
      BY DEF ContentAccepted
    <3> HIDE DEF some, S
    <3>2. Only(pre, S) \in Seq(Records) /\ Range(Only(pre, S)) = Range(pre) \cap S
      BY OnlyProperties
    <3> QED BY <3>1, <3>2
  <2> DEFINE R == {r \in Range(some) : r.answer \notin Long}
  <2>2. long = Only(some, R) /\ Range(some) \cap R = R
    BY DEF LengthAccepted
  <2> HIDE DEF long, some, R
  <2>3. Only(some, R) \in Seq(Records) /\ Range(Only(some, R)) = Range(some) \cap R
    BY <2>1, OnlyProperties
  <2>4. Range(long) = R /\ long \in Seq(Records)
    BY <2>2, <2>3
  <2>5. R = {r \in Range(pre) : r.answer \notin Malformed \cup Long}
    BY <2>1 DEF R
  <2> QED BY <2>4, <2>5
<1> HIDE DEF long
<1>4. /\ U \in Seq(Records)
      /\ \A i, j \in DOMAIN U : Content(U[i]) = Content(U[j]) => i = j
      /\ {Content(r) : r \in Range(U)} = {Content(r) : r \in Range(long)}
  BY <1>1, <1>2, <1>3, UniqueProperties, SMTT(30)
<1>5. IsInjective(U)
  <2> HIDE DEF U
  <2> QED BY <1>4 DEF IsInjective
<1>6. Separates(Records, train, validation, U)
  <2> DEFINE order == Shuffle[Seed[c]][Linked(U)]
             target == Target(Len(U))
  <2>1. Split(U, c) = SplitIn(U, order, target)
    BY DEF Split, SplitIn
  <2> HIDE DEF U
  <2>2. Linked(U) \in SUBSET Prompts /\ IsFiniteSet(Linked(U))
    <3>1. \A r \in Records : r.prompt \in Prompts
      BY DEF Records
    <3>2. \A i \in DOMAIN U : U[i].prompt \in Prompts
      BY <1>4, <3>1
    <3>3. IsFiniteSet(Linked(U))
      BY <1>4, LinkedFinite
    <3> QED BY <3>2, <3>3 DEF Linked
  <2>3. IsPermutation(order, Linked(U))
    BY <2>2, PipelineAssumption
  <2>4. target \in Int
    <3>1. Len(U) \in Nat /\ Num \in Nat /\ Den \in Nat /\ 0 < Den
      BY <1>4, PipelineAssumption
    <3> QED BY <3>1, TargetType DEF Target
  <2> HIDE DEF order, target
  <2> QED BY <1>2, <1>4, <1>5, <2>1, <2>3, <2>4, SplitProperties
<1>7. /\ m.input = pre /\ m.train = Contents(train) /\ m.validation = Contents(validation)
  BY DEF Manifest
<1> HIDE DEF U, train, validation, m
<1>8. /\ train \in Seq(Records) /\ IsInjective(train) /\ Range(train) # {}
      /\ validation \in Seq(Records) /\ IsInjective(validation) /\ Range(validation) # {}
      /\ Range(train) \cup Range(validation) = Range(U)
      /\ \A r \in Range(train), q \in Range(validation) : r.prompt # q.prompt
  BY <1>6 DEF Separates
<1>9. /\ m.train \in Seq(Prompts \X Answers) /\ m.validation \in Seq(Prompts \X Answers)
      /\ Range(m.train) = {Content(r) : r \in Range(train)}
      /\ Range(m.validation) = {Content(r) : r \in Range(validation)}
  BY <1>7, <1>8, ContentsOf
<1>10. IsInjective(m.train) /\ IsInjective(m.validation)
  BY <1>4, <1>7, <1>8, ContentsInjective
<1>11. \A x \in Range(m.train), y \in Range(m.validation) : x[1] # y[1]
  <2> SUFFICES ASSUME NEW x \in Range(m.train), NEW y \in Range(m.validation)
               PROVE  x[1] # y[1]
    OBVIOUS
  <2>1. PICK r \in Range(train) : x = Content(r)
    BY <1>9
  <2>2. PICK q \in Range(validation) : y = Content(q)
    BY <1>9
  <2>3. x[1] = r.prompt /\ y[1] = q.prompt
    BY <2>1, <2>2 DEF Content
  <2> QED BY <1>8, <2>3
<1>12. {x[1] : x \in Range(m.train)} \cap {x[1] : x \in Range(m.validation)} = {}
  BY <1>11
<1>13. IsInjective(m.train \o m.validation)
  <2>1. Range(m.train) \cap Range(m.validation) = {}
    BY <1>11
  <2> QED BY <1>9, <1>10, <2>1, ConcatRange
<1>14. Range(m.train) \cup Range(m.validation) = {Content(r) : r \in Range(U)}
  BY <1>8, <1>9
<1>15. Range(m.train) \cup Range(m.validation) =
         {Content(m.input[i]) : i \in {n \in DOMAIN m.input :
             m.input[n].answer \notin Malformed \cup Long}}
  <2>1. {Content(r) : r \in Range(long)} =
          {Content(pre[i]) : i \in {n \in DOMAIN pre : pre[n].answer \notin Malformed \cup Long}}
    <3>1. ASSUME NEW r \in Range(long)
          PROVE  \E i \in {n \in DOMAIN pre : pre[n].answer \notin Malformed \cup Long} :
                   Content(r) = Content(pre[i])
      <4>1. PICK i \in DOMAIN pre : pre[i] = r
        BY <1>3 DEF Range
      <4>2. pre[i].answer \notin Malformed \cup Long
        BY <1>3, <4>1
      <4> QED BY <4>1, <4>2
    <3>2. ASSUME NEW i \in DOMAIN pre, pre[i].answer \notin Malformed \cup Long
          PROVE  pre[i] \in Range(long)
      BY <1>3, <3>2 DEF Range
    <3> QED BY <3>1, <3>2
  <2> QED BY <1>4, <1>7, <1>14, <2>1
<1>16. Range(m.train) # {} /\ Range(m.validation) # {}
  BY <1>8, <1>9
<1>17. (Range(m.train) \cup Range(m.validation)) \cap Contaminated = {}
  <2> SUFFICES ASSUME NEW r \in Range(U), Content(r) \in Contaminated PROVE FALSE
    BY <1>14
  <2>1. PICK i \in DOMAIN U : U[i] = r
    BY DEF Range
  <2>2. r.prompt \notin ProtectedPrompts /\ r.answer \notin ProtectedAnswers
    BY <1>2, <2>1 DEF Clean
  <2> QED BY <2>2 DEF Contaminated, Content
<1>18. Len(m.train) + Len(m.validation) = Len(U)
  <2>1. /\ Contents(U) \in Seq(Prompts \X Answers) /\ Len(Contents(U)) = Len(U)
        /\ Range(Contents(U)) = {Content(r) : r \in Range(U)}
    BY <1>4, ContentsOf
  <2>2. IsInjective(Contents(U))
    BY <1>4, <1>5, ContentsInjective
  <2> QED BY <1>9, <1>13, <1>14, <2>1, <2>2, LengthsAdd, ZenonT(60)
<1>19. SoundManifest(m, Len(U))
  BY <1>12, <1>13, <1>15, <1>16, <1>17, <1>18 DEF SoundManifest
<1> QED BY <1>19 DEF m, U

----------------------------------------------------------------------------
(* Only sound manifests are made *)

\* Of the records that a stage is given, those it rejects are the ones it does not accept.
LEMMA PrefilterAddsUp ==
  ASSUME NEW recs \in Seq(Records)
  PROVE  /\ Len(recs) = Len(FinishRejected(recs)) + Len(QualityRejected(recs))
                           + Len(Prefiltered(recs))
         /\ Prefiltered(recs) \in Seq(Records)
<1> DEFINE A == {r \in Range(recs) : r.finish # "stop"}
           Q == {r \in Range(recs) : r.finish = "stop" /\ r.answer \in LowQuality}
           P == {r \in Range(recs) : r.finish = "stop" /\ r.answer \notin LowQuality}
<1>1. A \cap (Q \cup P) = {} /\ A \cup (Q \cup P) = Range(recs) /\ Q \cap P = {}
  OBVIOUS
<1>2. /\ FinishRejected(recs) = Only(recs, A) /\ QualityRejected(recs) = Only(recs, Q)
      /\ Prefiltered(recs) = Only(recs, P)
  BY DEF FinishRejected, QualityRejected, Prefiltered
<1> HIDE DEF A, Q, P
<1>3. /\ Len(recs) = Len(Only(recs, A)) + Len(Only(recs, Q \cup P))
      /\ Len(Only(recs, A)) \in Nat
  BY <1>1, StageAddsUp
<1>4. Len(Only(recs, Q \cup P)) = Len(Only(recs, Q)) + Len(Only(recs, P))
  BY <1>1, OnlyAdds
<1>5. Only(recs, Q) \in Seq(Records) /\ Only(recs, P) \in Seq(Records)
  BY OnlyProperties
<1>6. Len(Only(recs, Q)) \in Nat /\ Len(Only(recs, P)) \in Nat
  BY <1>5
<1> QED BY <1>2, <1>3, <1>4, <1>5, <1>6

LEMMA ContentAddsUp ==
  ASSUME NEW recs \in Seq(Records)
  PROVE  /\ Len(recs) = Len(ContentRejected(recs)) + Len(ContentAccepted(recs))
         /\ Len(ContentRejected(recs)) \in Nat /\ ContentAccepted(recs) \in Seq(Records)
<1> DEFINE R == {r \in Range(recs) : r.answer \in Malformed}
           A == {r \in Range(recs) : r.answer \notin Malformed}
<1>1. R \cap A = {} /\ R \cup A = Range(recs)
  OBVIOUS
<1>2. ContentRejected(recs) = Only(recs, R) /\ ContentAccepted(recs) = Only(recs, A)
  BY DEF ContentRejected, ContentAccepted
<1> HIDE DEF R, A
<1> QED BY <1>1, <1>2, StageAddsUp, OnlyProperties

LEMMA LengthAddsUp ==
  ASSUME NEW recs \in Seq(Records)
  PROVE  /\ Len(recs) = Len(LengthRejected(recs)) + Len(LengthAccepted(recs))
         /\ Len(LengthRejected(recs)) \in Nat /\ LengthAccepted(recs) \in Seq(Records)
<1> DEFINE R == {r \in Range(recs) : r.answer \in Long}
           A == {r \in Range(recs) : r.answer \notin Long}
<1>1. R \cap A = {} /\ R \cup A = Range(recs)
  OBVIOUS
<1>2. LengthRejected(recs) = Only(recs, R) /\ LengthAccepted(recs) = Only(recs, A)
  BY DEF LengthRejected, LengthAccepted
<1> HIDE DEF R, A
<1> QED BY <1>1, <1>2, StageAddsUp, OnlyProperties

LEMMA DuplicatesAddUp ==
  ASSUME NEW recs \in Seq(Records)
  PROVE  /\ Len(recs) = Len(Duplicates(recs)) + Len(Unique(recs))
         /\ Len(Duplicates(recs)) \in Nat /\ Len(Unique(recs)) \in Nat
<1> DEFINE D == DOMAIN recs
           Index == [i \in D |-> i]
           R == {i \in D : Repeats(recs, i)}
           S == {i \in D : ~Repeats(recs, i)}
           Kept == Only(Index, S)
<1>1. /\ Duplicates(recs) = Only(Index, R)
      /\ Unique(recs) = [n \in DOMAIN Kept |-> recs[Kept[n]]]
  BY DEF Duplicates, Unique
<1>2. Index \in Seq(D) /\ Range(Index) = D /\ Len(Index) = Len(recs)
  <2>1. D = 1 .. Len(recs) /\ Len(recs) \in Nat
    OBVIOUS
  <2> QED BY <2>1 DEF Range
<1>3. R \cap S = {} /\ R \cup S = D
  OBVIOUS
<1> HIDE DEF D, Index, R, S
<1>4. /\ Len(Index) = Len(Only(Index, R)) + Len(Kept)
      /\ Len(Only(Index, R)) \in Nat /\ Len(Kept) \in Nat
  BY <1>2, <1>3, StageAddsUp
<1>5. Kept \in Seq(D)
  BY <1>2, OnlyProperties
<1> HIDE DEF Kept
<1>6. Len([n \in DOMAIN Kept |-> recs[Kept[n]]]) = Len(Kept)
  <2>1. DOMAIN Kept = 1 .. Len(Kept) /\ Len(Kept) \in Nat
    BY <1>5
  <2> QED BY <2>1
<1> QED BY <1>1, <1>2, <1>4, <1>6

\* _summary counts every record once.
LEMMA SummaryBalances ==
  ASSUME NEW recs \in Seq(Records)
  PROVE  Balanced(Summary(recs))
<1> DEFINE pre == Prefiltered(recs)
           content == ContentAccepted(pre)
           long == LengthAccepted(content)
<1>1. /\ Len(recs) = Len(FinishRejected(recs)) + Len(QualityRejected(recs)) + Len(pre)
      /\ pre \in Seq(Records)
  BY PrefilterAddsUp
<1>2. Survivors(pre) = Unique(long)
  BY DEF Survivors
<1>3. /\ Summary(recs).generated = Len(recs) /\ Summary(recs).prefiltered = Len(pre)
      /\ Summary(recs).finishRejected = Len(FinishRejected(recs))
      /\ Summary(recs).qualityRejected = Len(QualityRejected(recs))
      /\ Summary(recs).contentRejected = Len(ContentRejected(pre))
      /\ Summary(recs).lengthRejected = Len(LengthRejected(content))
      /\ Summary(recs).duplicates = Len(Duplicates(long))
      /\ Summary(recs).unique = Len(Unique(long))
  BY <1>2 DEF Summary
<1> HIDE DEF pre
<1>4. /\ Len(pre) = Len(ContentRejected(pre)) + Len(content)
      /\ Len(ContentRejected(pre)) \in Nat /\ content \in Seq(Records)
  BY <1>1, ContentAddsUp
<1> HIDE DEF content
<1>5. /\ Len(content) = Len(LengthRejected(content)) + Len(long)
      /\ Len(LengthRejected(content)) \in Nat /\ long \in Seq(Records)
  BY <1>4, LengthAddsUp
<1> HIDE DEF long
<1>6. /\ Len(long) = Len(Duplicates(long)) + Len(Unique(long))
      /\ Len(Duplicates(long)) \in Nat /\ Len(Unique(long)) \in Nat
  BY <1>5, DuplicatesAddUp
<1>7. Len(pre) = Len(ContentRejected(pre)) + Len(LengthRejected(content))
                   + Len(Duplicates(long)) + Len(Unique(long))
  BY <1>4, <1>5, <1>6
<1> QED BY <1>1, <1>3, <1>7 DEF Balanced

\* What SplitIsSound says of what one finalization has made.
SoundlyMade(x) ==
    /\ SoundManifest(x.manifest, x.summary.unique)
    /\ Len(x.manifest.input) = x.summary.prefiltered
    /\ Balanced(x.summary)

MadeInv ==
    /\ made = [f \in Finalizers |-> made[f]]
    /\ \A f \in Finalizers : made[f] # None => SoundlyMade(made[f])

\* What a finalization that does not raise has made.
LEMMA PreparedIsSound ==
  ASSUME NEW recs \in Corpora, NEW c \in Configs, Finalizable(recs)
  PROVE  SoundlyMade(Prepared(recs, c))
<1> DEFINE pre == Prefiltered(recs)
<1>1. recs \in Seq(Records)
  BY TrainingAssumption
<1>2. pre \in Seq(Records)
  BY <1>1, OnlyProperties DEF Prefiltered
<1>3. Accepted(pre)
  BY DEF Finalizable
<1>4. /\ Prepared(recs, c).manifest = Manifest(pre, c)
      /\ Prepared(recs, c).summary = Summary(recs)
      /\ Summary(recs).unique = Len(Survivors(pre))
      /\ Summary(recs).prefiltered = Len(pre)
  <2>1. Prepared(recs, c).manifest = Manifest(pre, c)
    BY DEF Prepared
  <2>2. Prepared(recs, c).summary = Summary(recs)
    BY DEF Prepared
  <2>3. Summary(recs).unique = Len(Survivors(pre)) /\ Summary(recs).prefiltered = Len(pre)
    BY DEF Summary
  <2> QED BY <2>1, <2>2, <2>3
<1> HIDE DEF pre
<1>5. SoundManifest(Manifest(pre, c), Len(Survivors(pre)))
  BY <1>2, <1>3, ManifestIsSound
<1>6. Manifest(pre, c).input = pre
  BY DEF Manifest
<1>7. Balanced(Summary(recs))
  BY <1>1, SummaryBalances
<1> QED BY <1>4, <1>5, <1>6, <1>7 DEF SoundlyMade

LEMMA MadeStep ==
  ASSUME MadeInv, [Next]_vars
  PROVE  MadeInv'
<1>1. CASE UNCHANGED made
  BY <1>1 DEF MadeInv
<1>2. ASSUME NEW f \in Finalizers, NEW recs \in Corpora, NEW c \in Configs,
             StartFinalization(f, recs, c)
      PROVE  MadeInv'
  <2>1. made' = [made EXCEPT ![f] = Prepared(recs, c)] /\ Finalizable(recs)
    BY <1>2 DEF StartFinalization
  <2>2. SoundlyMade(Prepared(recs, c))
    BY <2>1, PreparedIsSound
  <2> QED BY <2>1, <2>2 DEF MadeInv
<1>3. ASSUME NEW f \in Finalizers, NEW x, made' = [made EXCEPT ![f] = x], x \in {None, made[f]}
      PROVE  MadeInv'
  BY <1>3 DEF MadeInv
<1>4. ASSUME NEW f \in Finalizers, WriteFile(f) PROVE MadeInv'
  BY <1>3, <1>4 DEF WriteFile
<1>5. ASSUME NEW f \in Finalizers, StopFinalization(f) PROVE MadeInv'
  BY <1>3, <1>5 DEF StopFinalization
<1>6. ASSUME NEW s \in Sessions,
             \/ \E j \in Jobs : Launch(s, j)
             \/ ResolveOuter(s) \/ ResolvePlan(s) \/ CheckOutput(s) \/ VerifyDataset(s)
             \/ ClaimOutput(s) \/ CopyManifest(s) \/ Load(s)
             \/ Train(s) \/ SaveSnapshot(s) \/ WriteAdapterManifest(s) \/ WriteReport(s)
      PROVE  UNCHANGED made
  BY <1>6 DEF Launch, ResolveOuter, ResolvePlan, CheckOutput, VerifyDataset, ClaimOutput,
              CopyManifest, Load, Train, SaveSnapshot, WriteAdapterManifest, WriteReport, dataset
<1>7. CASE UNCHANGED vars
  BY <1>1, <1>7 DEF vars, dataset
<1> QED BY <1>1, <1>2, <1>4, <1>5, <1>6, <1>7 DEF Next

\* Every dataset that a finalization writes is split by whole prompts, holds each distinct
\* usable record once and nothing of a benchmark, and has records on both sides; and its
\* summary counts every generated record once, as rejected at one stage or as kept: of any
\* corpus, configuration, shuffle and fraction.
THEOREM SplitsAreSound == Spec => []SplitIsSound
<1>1. Init => MadeInv
  BY DEF Init, MadeInv
<1>2. MadeInv /\ [Next]_vars => MadeInv'
  BY MadeStep
<1>3. MadeInv => SplitIsSound
  BY DEF MadeInv, SoundlyMade, SplitIsSound, SoundManifest
<1> QED BY <1>1, <1>2, <1>3, PTL DEF Spec

----------------------------------------------------------------------------
(* The sum of the sizes of modules is a fold, a function that the library  *)
(* chooses by its equation; it exists for the finite subsets of a set.     *)

SumTurn(g, s) == IF s = {} THEN 0 ELSE LET x == CHOOSE y \in s : TRUE IN x.size + g[s \ {x}]

SumsOver(g, D) ==
    /\ g \in [D -> Nat]
    /\ \A s \in D : g[s] = SumTurn(g, s)

\* One more element in the sets: the function over those with fewer is extended.
LEMMA SumsExist ==
  ASSUME NEW S, IsFiniteSet(S), \A m \in S : m.size \in Nat
  PROVE  \E g : SumsOver(g, SUBSET S)
<1> DEFINE D(n) == {s \in SUBSET S : Cardinality(s) <= n}
           T == {n \in Nat : \E g : SumsOver(g, D(n))}
<1>0. ASSUME NEW s \in SUBSET S PROVE IsFiniteSet(s) /\ Cardinality(s) \in Nat
  BY FS_Subset, FS_CardinalityType
<1>1. 0 \in T
  <2> DEFINE g == [s \in D(0) |-> 0]
  <2>1. ASSUME NEW s \in D(0) PROVE s = {}
    <3>1. Cardinality(s) = 0 /\ IsFiniteSet(s)
      BY <1>0
    <3> QED BY <3>1, FS_EmptySet
  <2>2. g \in [D(0) -> Nat]
    OBVIOUS
  <2>3. ASSUME NEW s \in D(0) PROVE g[s] = SumTurn(g, s)
    BY <2>1 DEF SumTurn
  <2>4. SumsOver(g, D(0))
    <3> HIDE DEF g, D
    <3> QED BY <2>2, <2>3 DEF SumsOver
  <2> HIDE DEF g, D
  <2> QED BY <2>4
<1>2. ASSUME NEW n \in Nat, n \in T PROVE n + 1 \in T
  <2>1. PICK f : SumsOver(f, D(n))
    BY <1>2
  <2> DEFINE Others(s) == s \ {CHOOSE y \in s : TRUE}
             Chosen(s) == CHOOSE y \in s : TRUE
             g == [s \in D(n + 1) |-> IF s \in D(n) THEN f[s] ELSE Chosen(s).size + f[Others(s)]]
  <2>2. ASSUME NEW s \in D(n + 1), s # {}
        PROVE  Chosen(s) \in s /\ Chosen(s).size \in Nat /\ Others(s) \in D(n)
    <3>1. Chosen(s) \in s
      BY <2>2
    <3>2. IsFiniteSet(s) /\ Cardinality(s) \in Nat /\ Cardinality(s) <= n + 1
      BY <1>0
    <3>3. Cardinality(Others(s)) = Cardinality(s) - 1
      BY <3>1, <3>2, FS_RemoveElement
    <3>4. Others(s) \in SUBSET S
      OBVIOUS
    <3>5. Cardinality(Others(s)) <= n
      BY <3>2, <3>3
    <3> QED BY <3>1, <3>4, <3>5
  <2>3. ASSUME NEW s \in D(n), s # {} PROVE s \in D(n + 1)
    <3>1. Cardinality(s) \in Nat /\ Cardinality(s) <= n
      BY <1>0
    <3> QED BY <3>1
  <2>4. ASSUME NEW s \in D(n + 1), s \notin D(n) PROVE s # {}
    BY <2>4, FS_EmptySet
  <2>5. f \in [D(n) -> Nat] /\ \A s \in D(n) : f[s] = SumTurn(f, s)
    BY <2>1 DEF SumsOver
  <2>6. {} \in D(n)
    BY FS_EmptySet
  <2>7. ASSUME NEW s \in D(n + 1) PROVE g[s] \in Nat
    <3>1. CASE s \in D(n)
      <4>1. g[s] = f[s]
        BY <3>1
      <4> HIDE DEF g, D
      <4> QED BY <3>1, <4>1, <2>5
    <3>2. CASE s \notin D(n)
      <4>1. g[s] = Chosen(s).size + f[Others(s)]
        BY <3>2
      <4>2. Chosen(s).size \in Nat /\ f[Others(s)] \in Nat
        <5>1. s # {}
          BY <3>2, <2>4
        <5>2. Chosen(s).size \in Nat /\ Others(s) \in D(n)
          BY <5>1, <2>2
        <5> HIDE DEF Chosen, Others, D, g
        <5> QED BY <5>2, <2>5
      <4> HIDE DEF g, D, Chosen, Others
      <4> QED BY <4>1, <4>2
    <3> QED BY <3>1, <3>2
  <2>8. ASSUME NEW s \in D(n) PROVE g[s] = f[s]
    <3>1. s \in D(n + 1)
      <4>1. Cardinality(s) \in Nat /\ Cardinality(s) <= n
        BY <1>0
      <4> QED BY <4>1
    <3> QED BY <3>1
  <2>9. ASSUME NEW s \in D(n + 1) PROVE g[s] = SumTurn(g, s)
    <3>1. CASE s = {}
      <4>1. g[s] = f[s] /\ f[s] = SumTurn(f, s)
        BY <3>1, <2>6, <2>8, <2>5
      <4> HIDE DEF g
      <4> QED BY <3>1, <4>1 DEF SumTurn
    <3>2. CASE s # {}
      <4>1. Others(s) \in D(n)
        BY <3>2, <2>2
      <4>2. g[Others(s)] = f[Others(s)]
        BY <4>1, <2>8
      <4>3. SumTurn(g, s) = Chosen(s).size + g[Others(s)]
        <5> HIDE DEF g
        <5> QED BY <3>2 DEF SumTurn
      <4>4. CASE s \in D(n)
        <5>1. f[s] = SumTurn(f, s) /\ g[s] = f[s]
          BY <4>4, <2>5, <2>8
        <5>2. SumTurn(f, s) = Chosen(s).size + f[Others(s)]
          BY <3>2 DEF SumTurn
        <5> HIDE DEF g, Chosen, Others
        <5> QED BY <5>1, <5>2, <4>2, <4>3
      <4>5. CASE s \notin D(n)
        <5>1. g[s] = Chosen(s).size + f[Others(s)]
          BY <4>5
        <5> HIDE DEF g, Chosen, Others
        <5> QED BY <5>1, <4>2, <4>3
      <4> QED BY <4>4, <4>5
    <3> QED BY <3>1, <3>2
  <2>10. SumsOver(g, D(n + 1))
    <3>1. g \in [D(n + 1) -> Nat]
      <4>1. g = [s \in D(n + 1) |-> g[s]]
        OBVIOUS
      <4> HIDE DEF g, D
      <4> QED BY <4>1, <2>7
    <3> HIDE DEF g, D
    <3> QED BY <3>1, <2>9 DEF SumsOver
  <2> HIDE DEF g, D
  <2> QED BY <2>10
<1>3. Nat \subseteq T
  <2> HIDE DEF T
  <2> QED BY <1>1, <1>2, NatInd
<1>4. PICK g : SumsOver(g, D(Cardinality(S)))
  <2>1. Cardinality(S) \in Nat
    BY FS_CardinalityType
  <2> QED BY <2>1, <1>3
<1>5. D(Cardinality(S)) = SUBSET S
  <2>1. ASSUME NEW s \in SUBSET S PROVE Cardinality(s) <= Cardinality(S)
    BY FS_Subset
  <2> QED BY <2>1
<1> HIDE DEF D
<1> QED BY <1>4, <1>5

\* The sum of natural sizes is a natural number.
LEMMA SumIsNat ==
  ASSUME NEW S, IsFiniteSet(S), \A m \in S : m.size \in Nat
  PROVE  Adapter!MapThenSumSet(LAMBDA m : m.size, S) \in Nat
<1> DEFINE W == CHOOSE g : g = [s \in SUBSET S |-> SumTurn(g, s)]
<1>1. Adapter!MapThenSumSet(LAMBDA m : m.size, S) = W[S]
  BY DEF Adapter!MapThenSumSet, Adapter!MapThenFoldSet, SumTurn
<1>2. PICK g : SumsOver(g, SUBSET S)
  BY SumsExist
<1>3. g = [s \in SUBSET S |-> SumTurn(g, s)]
  BY <1>2 DEF SumsOver
<1>4. W = [s \in SUBSET S |-> SumTurn(W, s)]
  BY <1>3
<1>5. W[S] \in Nat
  <2> DEFINE D(n) == {s \in SUBSET S : Cardinality(s) <= n}
             T == {n \in Nat : \A s \in D(n) : W[s] \in Nat}
  <2>0. ASSUME NEW s \in SUBSET S PROVE IsFiniteSet(s) /\ Cardinality(s) \in Nat
    BY FS_Subset, FS_CardinalityType
  <2>e. ASSUME NEW s \in SUBSET S PROVE W[s] = SumTurn(W, s)
    <3> HIDE DEF W
    <3> QED BY <1>4
  <2> HIDE DEF W
  <2>1. 0 \in T
    <3>1. ASSUME NEW s \in D(0) PROVE W[s] \in Nat
      <4>1. Cardinality(s) = 0 /\ IsFiniteSet(s)
        BY <2>0
      <4>2. s = {}
        BY <4>1, FS_EmptySet
      <4>3. W[s] = SumTurn(W, s)
        BY <2>e
      <4> QED BY <4>2, <4>3 DEF SumTurn
    <3> QED BY <3>1
  <2>2. ASSUME NEW n \in Nat, n \in T PROVE n + 1 \in T
    <3>1. ASSUME NEW s \in D(n + 1) PROVE W[s] \in Nat
      <4>0. W[s] = SumTurn(W, s)
        BY <2>e
      <4>1. CASE s = {}
        BY <4>0, <4>1 DEF SumTurn
      <4>2. CASE s # {}
        <5>1. PICK x \in s : x = CHOOSE y \in s : TRUE
          BY <4>2
        <5>2. Cardinality(s \ {x}) = Cardinality(s) - 1
          BY <2>0, FS_RemoveElement
        <5>3. s \ {x} \in D(n)
          BY <2>0, <5>2
        <5>4. W[s \ {x}] \in Nat /\ x.size \in Nat
          BY <2>2, <5>3
        <5>5. W[s] = x.size + W[s \ {x}]
          BY <4>0, <4>2, <5>1 DEF SumTurn
        <5> QED BY <5>4, <5>5
      <4> QED BY <4>1, <4>2
    <3> QED BY <3>1
  <2>3. Nat \subseteq T
    <3> HIDE DEF T
    <3> QED BY <2>1, <2>2, NatInd
  <2>4. Cardinality(S) \in Nat /\ S \in SUBSET S
    BY FS_CardinalityType
  <2> QED BY <2>3, <2>4
<1> QED BY <1>1, <1>5

\* The parameters that one adapter adds are its rank times those of rank one.
LEMMA AddedByRank ==
  ASSUME NEW X, NEW Y, IsFiniteSet(X), IsFiniteSet(Y), NEW rank \in Nat \ {0},
         \A m \in X \cup Y : m.size \in Nat, Adapter!Added(X, rank) = Adapter!Added(Y, rank)
  PROVE  Adapter!Added(X, 1) = Adapter!Added(Y, 1)
<1>1. PICK x \in Nat : x = Adapter!MapThenSumSet(LAMBDA m : m.size, X)
  BY SumIsNat
<1>2. PICK y \in Nat : y = Adapter!MapThenSumSet(LAMBDA m : m.size, Y)
  BY SumIsNat
<1>3. /\ Adapter!Added(X, rank) = rank * x /\ Adapter!Added(Y, rank) = rank * y
      /\ Adapter!Added(X, 1) = 1 * x /\ Adapter!Added(Y, 1) = 1 * y
  BY <1>1, <1>2 DEF Adapter!Added
<1>4. rank * x = rank * y
  BY <1>3
<1>5. x = y
  BY <1>4
<1> QED BY <1>3, <1>5

----------------------------------------------------------------------------
(* The adapters that were trained and the one declared compatible *)

\* What a training leaves is about the modules of a tree of its base.
TrainedAsDeclared(t) ==
    /\ t.job \in LoraJobs
    /\ IsFiniteSet(t.modules) /\ \A m \in t.modules : m.size \in Nat
    /\ t.job.bias = "none" => t.count = Adapter!Added(t.modules, t.job.rank)

\* The four rounds of a run so far, of the base by itself and with what was attached.
AdaptedIs == model.drift \cup Effect[artifacts["weights"].job.config]
Disabled == {"restore", "again", "report"}
EnabledOnce == {"disable", "disabled"} \cup Disabled

RoundsSoFar ==
    /\ DOMAIN inference = {"at", "base", "enabled", "disabled", "again", "by"}
    /\ inference.by =
         [round \in {"base", "enabled", "disabled", "again"} |-> inference.by[round]]
    /\ inference.base = {} /\ inference.by.base = FALSE
    /\ inference.at # "attach" =>
         DOMAIN model = {"enabled", "active", "merged", "drift", "trainable"}
    /\ inference.at \in EnabledOnce =>
         inference.enabled = AdaptedIs /\ inference.by.enabled = TRUE
    /\ inference.at \in Disabled =>
         inference.disabled = model.drift /\ inference.by.disabled = FALSE
    /\ inference.at = "report" => inference.again = AdaptedIs /\ inference.by.again = TRUE

LifecycleInv ==
    /\ library \in Libraries
    /\ \A t \in trained : TrainedAsDeclared(t)
    /\ artifacts # None =>
         /\ DOMAIN artifacts = Adapter!Files
         /\ \A f \in Adapter!Files : artifacts[f].job \in LoraJobs
    /\ inference # None => artifacts # None /\ Adapter!ArtifactsAgree /\ RoundsSoFar
    /\ Adapter!LandsWhereTrained /\ Adapter!ReportIsOfTheAdapter

LEMMA InitLifecycleInv ==
  ASSUME Adapter!Init
  PROVE  LifecycleInv
BY DEF Adapter!Init, LifecycleInv, Adapter!LandsWhereTrained, Adapter!ReportIsOfTheAdapter

\* What PEFT wraps in a base is finite, and has sizes.
LEMMA InspectedModules ==
  ASSUME LifecycleInv, NEW r \in Revisions, NEW S \in SUBSET Adapter!Inspect(r)
  PROVE  IsFiniteSet(S) /\ \A m \in S : m.size \in Nat
<1>1. IsFiniteSet(Adapter!Inspect(r)) /\ \A m \in Adapter!Inspect(r) : m.size \in Nat
  BY AdaptersAssumption DEF Adapter!Inspect, LifecycleInv
<1> QED BY <1>1, FS_Subset

\* A step that leaves the run and the report alone.
LEMMA QuietLifecycle ==
  ASSUME LifecycleInv, library' \in Libraries,
         \A t \in trained' : TrainedAsDeclared(t),
         artifacts' # None => /\ DOMAIN artifacts' = Adapter!Files
                              /\ \A f \in Adapter!Files : artifacts'[f].job \in LoraJobs,
         Adapter!LandsWhereTrained', UNCHANGED <<inference, model, accepted>>,
         UNCHANGED artifacts \/ inference = None
  PROVE  LifecycleInv'
<1>1. Adapter!ReportIsOfTheAdapter'
  BY DEF LifecycleInv, Adapter!ReportIsOfTheAdapter
<1>2. inference' # None => artifacts' # None /\ Adapter!ArtifactsAgree' /\ RoundsSoFar'
  <2>1. SUFFICES ASSUME inference # None, UNCHANGED artifacts
                 PROVE  artifacts' # None /\ Adapter!ArtifactsAgree' /\ RoundsSoFar'
    OBVIOUS
  <2>2. artifacts # None /\ Adapter!ArtifactsAgree /\ RoundsSoFar
    BY <2>1 DEF LifecycleInv
  <2>3. Adapter!ArtifactsAgree'
    BY <2>1, <2>2 DEF Adapter!ArtifactsAgree, Adapter!IdentitiesAgree,
                      Adapter!ConfigurationAgrees, Adapter!WeightsAreReported
  <2>4. RoundsSoFar'
    BY <2>1, <2>2 DEF RoundsSoFar, AdaptedIs
  <2> QED BY <2>1, <2>2, <2>3, <2>4
<1> QED BY <1>1, <1>2 DEF LifecycleInv

LEMMA UpgradeInv ==
  ASSUME LifecycleInv, Adapter!Upgrade
  PROVE  LifecycleInv'
<1>1. Adapter!LandsWhereTrained'
  BY DEF LifecycleInv, Adapter!LandsWhereTrained, Adapter!Upgrade
<1> QED BY <1>1, QuietLifecycle DEF LifecycleInv, Adapter!Upgrade

LEMMA TrainAdapterInv ==
  ASSUME LifecycleInv, NEW j \in LoraJobs, Adapter!Train(j)
  PROVE  LifecycleInv'
<1>1. Adapter!LandsWhereTrained'
  BY DEF LifecycleInv, Adapter!LandsWhereTrained, Adapter!Train
<1> DEFINE new == [job |-> j, modules |-> Adapter!Attached(j),
                   count |-> Adapter!TrainableCount(j),
                   template |-> Adapter!EffectiveTemplate(j)]
<1>2. TrainedAsDeclared(new)
  <2>1. j.revision \in Revisions /\ j.rank \in Nat
    BY AdaptersAssumption
  <2>2. Adapter!Attached(j) \in SUBSET Adapter!Inspect(j.revision)
    BY DEF Adapter!Attached, Adapter!Wrapped
  <2>3. IsFiniteSet(Adapter!Attached(j)) /\ \A m \in Adapter!Attached(j) : m.size \in Nat
    BY <2>1, <2>2, InspectedModules
  <2>4. PICK n \in Nat : n = Adapter!MapThenSumSet(LAMBDA m : m.size, Adapter!Attached(j))
    BY <2>3, SumIsNat
  <2>5. Adapter!Added(Adapter!Attached(j), j.rank) = j.rank * n
    BY <2>4 DEF Adapter!Added
  <2>6. j.bias = "none" => Adapter!TrainableCount(j) = Adapter!Added(Adapter!Attached(j), j.rank)
    BY <2>1, <2>5 DEF Adapter!TrainableCount
  <2> QED BY <2>3, <2>6 DEF TrainedAsDeclared
<1>3. trained' = trained \cup {new}
  BY DEF Adapter!Train
<1>4. \A t \in trained' : TrainedAsDeclared(t)
  <2> HIDE DEF new
  <2> QED BY <1>2, <1>3 DEF LifecycleInv
<1> QED BY <1>1, <1>4, QuietLifecycle DEF LifecycleInv, Adapter!Train

\* What the compatibility check compares is what the property asks for.
LEMMA RequireInv ==
  ASSUME LifecycleInv, NEW r \in Revisions, NEW t \in trained, Adapter!Require(t, r)
  PROVE  LifecycleInv'
<1> DEFINE target == Adapter!Inspect(r)
           there == {m \in target : \E n \in t.modules : Adapter!Name(n) = Adapter!Name(m)}
<1>1. there = Adapter!Named(target, {Adapter!Name(m) : m \in t.modules})
  BY DEF Adapter!Named
<1>2. Adapter!Compatible(t, r, target) /\ compatible' = [of |-> t, revision |-> r, target |-> target]
  BY DEF Adapter!Require
<1>3. TrainedAsDeclared(t)
  BY DEF LifecycleInv
<1>4. IsFiniteSet(there) /\ \A m \in there : m.size \in Nat
  <2>1. there \in SUBSET Adapter!Inspect(r)
    OBVIOUS
  <2> HIDE DEF there
  <2> QED BY <2>1, InspectedModules
<1>5. ASSUME NEW m \in t.modules PROVE \E n \in there : Adapter!Name(n) = Adapter!Name(m)
  <2>1. Adapter!Name(m) \in {Adapter!Name(n) : n \in target}
    BY <1>2 DEF Adapter!Compatible
  <2> QED BY <2>1
<1>6. ASSUME t.job.family = "language", NEW m \in there PROVE m.root = "language_model"
  <2>1. m \in Adapter!Selected(target)
    <3> HIDE DEF there, target
    <3> QED BY <1>1, <1>2, <1>6 DEF Adapter!Compatible, Adapter!InScope
  <2>2. Adapter!Category(m) \in {"self_attn", "mlp", "linear_attn"}
    BY <2>1 DEF Adapter!Selected, Adapter!BlockLeaves
  <2>3. Adapter!Component(m) = "text_backbone"
    <3>1. Adapter!Component(m) # "text_backbone" => Adapter!Category(m) = Adapter!Component(m)
      BY DEF Adapter!Category
    <3>2. Adapter!Component(m) \in {"multimodal_projector", "vision_encoder", "text_backbone", "other"}
      BY DEF Adapter!Component
    <3> QED BY <2>2, <3>1, <3>2
  <2>4. m.root \in {"language_model", "lm_head"}
    BY <2>3 DEF Adapter!Component
  <2>5. m.root # "lm_head"
    BY <2>2, <2>3 DEF Adapter!Category
  <2> QED BY <2>4, <2>5
<1>7. ASSUME t.job.bias = "none" PROVE Adapter!Added(there, 1) = Adapter!Added(t.modules, 1)
  <2>1. t.count = Adapter!Added(there, t.job.rank) /\ t.count = Adapter!Added(t.modules, t.job.rank)
    BY <1>1, <1>2, <1>3, <1>7 DEF Adapter!Compatible, TrainedAsDeclared
  <2>2. /\ t.job.rank \in Nat \ {0}
        /\ IsFiniteSet(t.modules) /\ \A m \in t.modules : m.size \in Nat
    BY <1>3, AdaptersAssumption DEF TrainedAsDeclared
  <2> HIDE DEF there
  <2> QED BY <1>4, <2>1, <2>2, AddedByRank
<1>8. Adapter!LandsWhereTrained'
  <2>1. t.job.revision = r /\ t.template = Templates[r]
    BY <1>2 DEF Adapter!Compatible
  <2>2. compatible'.of = t /\ compatible'.revision = r /\ compatible'.target = target
    BY <1>2
  <2>3. there = {m \in compatible'.target :
                   \E n \in compatible'.of.modules : Adapter!Name(n) = Adapter!Name(m)}
    BY <2>2
  <2> HIDE DEF there, target
  <2> QED BY <1>5, <1>6, <1>7, <2>1, <2>2, <2>3 DEF Adapter!LandsWhereTrained
<1> QED BY <1>8, QuietLifecycle DEF LifecycleInv, Adapter!Require

LEMMA ExtractInv ==
  ASSUME LifecycleInv, NEW t \in trained, Adapter!Extract(t)
  PROVE  LifecycleInv'
<1>1. Adapter!LandsWhereTrained'
  BY DEF LifecycleInv, Adapter!LandsWhereTrained, Adapter!Extract
<1>2. /\ DOMAIN artifacts' = Adapter!Files
      /\ \A f \in Adapter!Files : artifacts'[f].job \in LoraJobs
  BY DEF Adapter!Extract, LifecycleInv, TrainedAsDeclared
<1> QED BY <1>1, <1>2, QuietLifecycle DEF LifecycleInv, Adapter!Extract

LEMMA CopyInInv ==
  ASSUME LifecycleInv, NEW f \in Adapter!Files, NEW t \in trained, Adapter!CopyIn(f, t)
  PROVE  LifecycleInv'
<1>1. Adapter!LandsWhereTrained'
  BY DEF LifecycleInv, Adapter!LandsWhereTrained, Adapter!CopyIn
<1>2. /\ DOMAIN artifacts' = Adapter!Files
      /\ \A g \in Adapter!Files : artifacts'[g].job \in LoraJobs
  <2>1. t.job \in LoraJobs /\ artifacts # None
    BY DEF LifecycleInv, TrainedAsDeclared, Adapter!CopyIn
  <2> QED BY <2>1 DEF Adapter!CopyIn, LifecycleInv
<1> QED BY <1>1, <1>2, QuietLifecycle DEF LifecycleInv, Adapter!CopyIn

----------------------------------------------------------------------------
(* The steps of P7-007 *)

\* A step of the run leaves everything else alone.
LEMMA RoundStep ==
  ASSUME LifecycleInv, UNCHANGED <<library, trained, compatible, artifacts, accepted>>,
         artifacts # None /\ Adapter!ArtifactsAgree, inference' # None => RoundsSoFar'
  PROVE  LifecycleInv'
<1>1. Adapter!ReportIsOfTheAdapter' /\ Adapter!LandsWhereTrained'
  BY DEF LifecycleInv, Adapter!ReportIsOfTheAdapter, Adapter!LandsWhereTrained
<1>2. Adapter!ArtifactsAgree'
  BY DEF Adapter!ArtifactsAgree, Adapter!IdentitiesAgree, Adapter!ConfigurationAgrees,
         Adapter!WeightsAreReported
<1> QED BY <1>1, <1>2 DEF LifecycleInv

LEMMA OpenInv ==
  ASSUME LifecycleInv, Adapter!Open
  PROVE  LifecycleInv'
<1>1. RoundsSoFar'
  BY DEF Adapter!Open, RoundsSoFar, EnabledOnce, Disabled
<1> QED BY <1>1, RoundStep DEF Adapter!Open

LEMMA AttachInv ==
  ASSUME LifecycleInv, Adapter!Attach
  PROVE  LifecycleInv'
<1>1. RoundsSoFar /\ artifacts # None /\ Adapter!ArtifactsAgree
  BY DEF LifecycleInv, Adapter!Attach
<1>2. /\ inference.at = "attach" /\ inference' = [inference EXCEPT !.at = "enabled"]
      /\ \E enabled, active, merged \in BOOLEAN, drift \in Drifts :
           model' = [enabled |-> enabled, active |-> active, merged |-> merged, drift |-> drift,
                     trainable |-> FALSE]
  BY DEF Adapter!Attach
<1>3. DOMAIN model' = {"enabled", "active", "merged", "drift", "trainable"}
  BY <1>2
<1>4. RoundsSoFar'
  BY <1>1, <1>2, <1>3 DEF RoundsSoFar, EnabledOnce, Disabled
<1> QED BY <1>1, <1>4, RoundStep DEF Adapter!Attach

LEMMA AdaptedInv ==
  ASSUME LifecycleInv, Adapter!Adapted
  PROVE  LifecycleInv'
<1>1. RoundsSoFar /\ artifacts # None /\ Adapter!ArtifactsAgree
  BY DEF LifecycleInv, Adapter!Adapted
<1>2. Adapter!Applies = TRUE /\ Adapter!Generated = AdaptedIs
  BY DEF Adapter!Adapted, Adapter!IsEnabled, Adapter!Applies, Adapter!Generated, AdaptedIs
<1>3. /\ inference.at = "enabled"
      /\ inference' = [inference EXCEPT !.at = "disable", !.enabled = AdaptedIs,
                                        !.by.enabled = TRUE]
      /\ model' = model /\ AdaptedIs' = AdaptedIs
  BY <1>2 DEF Adapter!Adapted, AdaptedIs
<1>4. RoundsSoFar'
  BY <1>1, <1>3 DEF RoundsSoFar, EnabledOnce, Disabled
<1> QED BY <1>1, <1>4, RoundStep DEF Adapter!Adapted

LEMMA DisableInv ==
  ASSUME LifecycleInv, Adapter!Disable
  PROVE  LifecycleInv'
<1>1. RoundsSoFar /\ artifacts # None /\ Adapter!ArtifactsAgree
  BY DEF LifecycleInv, Adapter!Disable
<1>2. inference.at = "disable" /\ inference' = [inference EXCEPT !.at = "disabled"] /\ artifacts' = artifacts
  BY DEF Adapter!Disable
<1>3. DOMAIN model' = DOMAIN model /\ model'.drift = model.drift
  BY <1>1, <1>2 DEF Adapter!Disable, RoundsSoFar
<1>4. AdaptedIs' = AdaptedIs
  BY <1>2, <1>3 DEF AdaptedIs
<1>5. RoundsSoFar'
  BY <1>1, <1>2, <1>3, <1>4 DEF RoundsSoFar, EnabledOnce, Disabled
<1> QED BY <1>1, <1>5, RoundStep DEF Adapter!Disable

LEMMA BareInv ==
  ASSUME LifecycleInv, Adapter!Bare
  PROVE  LifecycleInv'
<1>1. RoundsSoFar /\ artifacts # None /\ Adapter!ArtifactsAgree
  BY DEF LifecycleInv, Adapter!Bare
<1>2. Adapter!Applies = FALSE /\ Adapter!Generated = model.drift
  BY DEF Adapter!Bare, Adapter!IsDisabled, Adapter!Applies, Adapter!Generated
<1>3. /\ inference.at = "disabled"
      /\ inference' = [inference EXCEPT !.at = "restore", !.disabled = model.drift,
                                        !.by.disabled = FALSE]
      /\ model' = model /\ AdaptedIs' = AdaptedIs
  BY <1>2 DEF Adapter!Bare, AdaptedIs
<1>4. RoundsSoFar'
  BY <1>1, <1>3 DEF RoundsSoFar, EnabledOnce, Disabled
<1> QED BY <1>1, <1>4, RoundStep DEF Adapter!Bare

LEMMA RestoreInv ==
  ASSUME LifecycleInv, Adapter!Restore
  PROVE  LifecycleInv'
<1>1. RoundsSoFar /\ artifacts # None /\ Adapter!ArtifactsAgree
  BY DEF LifecycleInv, Adapter!Restore
<1>2. inference.at = "restore" /\ inference' = [inference EXCEPT !.at = "again"] /\ artifacts' = artifacts
  BY DEF Adapter!Restore
<1>3. DOMAIN model' = DOMAIN model /\ model'.drift = model.drift
  BY <1>1, <1>2 DEF Adapter!Restore, RoundsSoFar
<1>4. AdaptedIs' = AdaptedIs
  BY <1>2, <1>3 DEF AdaptedIs
<1>5. RoundsSoFar'
  BY <1>1, <1>2, <1>3, <1>4 DEF RoundsSoFar, EnabledOnce, Disabled
<1> QED BY <1>1, <1>5, RoundStep DEF Adapter!Restore

LEMMA AdaptedAgainInv ==
  ASSUME LifecycleInv, Adapter!AdaptedAgain
  PROVE  LifecycleInv'
<1>1. RoundsSoFar /\ artifacts # None /\ Adapter!ArtifactsAgree
  BY DEF LifecycleInv, Adapter!AdaptedAgain
<1>2. Adapter!Applies = TRUE /\ Adapter!Generated = AdaptedIs
  BY DEF Adapter!AdaptedAgain, Adapter!IsEnabled, Adapter!Applies, Adapter!Generated, AdaptedIs
<1>3. /\ inference.at = "again"
      /\ inference' = [inference EXCEPT !.at = "report", !.again = AdaptedIs, !.by.again = TRUE]
      /\ model' = model /\ AdaptedIs' = AdaptedIs
  BY <1>2 DEF Adapter!AdaptedAgain, AdaptedIs
<1>4. RoundsSoFar'
  BY <1>1, <1>3 DEF RoundsSoFar, EnabledOnce, Disabled
<1> QED BY <1>1, <1>4, RoundStep DEF Adapter!AdaptedAgain

\* Recovery leaves no room for a drift, and the hashes none for other weights.
LEMMA ReportInv ==
  ASSUME LifecycleInv, Adapter!Report
  PROVE  LifecycleInv'
<1>1. /\ RoundsSoFar /\ artifacts # None /\ Adapter!ArtifactsAgree
      /\ \A f \in Adapter!Files : artifacts[f].job \in LoraJobs
  BY DEF LifecycleInv, Adapter!Report
<1>2. inference.at = "report" /\ Adapter!Recovered /\ inference' = None
  BY DEF Adapter!Report
<1>3. accepted' =
        [weights |-> artifacts["weights"].job, manifest |-> artifacts["manifest"].job,
          base |-> inference.base, enabled |-> inference.enabled, disabled |-> inference.disabled,
          again |-> inference.again, by |-> inference.by]
  BY DEF Adapter!Report
<1>4. /\ artifacts["weights"].job.config = artifacts["manifest"].job.config
      /\ artifacts["weights"].job.adapter = Expected
      /\ artifacts["weights"].job.revision = Canonical
  <2>1. /\ artifacts["report"] = artifacts["weights"]
        /\ artifacts["manifest"].job.adapter = Expected /\ artifacts["manifest"].job.revision = Canonical
        /\ artifacts["report"].job.adapter = artifacts["manifest"].job.adapter
        /\ artifacts["report"].job.config = artifacts["manifest"].job.config
    BY <1>1 DEF Adapter!ArtifactsAgree, Adapter!IdentitiesAgree, Adapter!WeightsAreReported
  <2>2. artifacts["weights"].job \in LoraJobs /\ artifacts["manifest"].job \in LoraJobs
    BY <1>1 DEF Adapter!Files
  <2> QED BY <2>1, <2>2, AdaptersAssumption
<1>5. /\ inference.base = {} /\ inference.disabled = {} /\ inference.again = inference.enabled
      /\ inference.enabled = Effect[artifacts["manifest"].job.config]
  <2>1. /\ inference.base = {} /\ inference.disabled = model.drift /\ inference.enabled = AdaptedIs
    BY <1>1, <1>2 DEF RoundsSoFar, EnabledOnce, Disabled
  <2>2. inference.base = inference.disabled /\ inference.enabled = inference.again
    BY <1>2 DEF Adapter!Recovered
  <2>3. AdaptedIs = model.drift \cup Effect[artifacts["manifest"].job.config]
    BY <1>4 DEF AdaptedIs
  <2>4. model.drift = {}
    BY <2>1, <2>2
  <2> QED BY <2>1, <2>2, <2>3, <2>4
<1>6. inference.by = [base |-> FALSE, enabled |-> TRUE, disabled |-> FALSE, again |-> TRUE]
  <2>1. /\ inference.by =
             [round \in {"base", "enabled", "disabled", "again"} |-> inference.by[round]]
        /\ inference.by.base = FALSE /\ inference.by.enabled = TRUE
        /\ inference.by.disabled = FALSE /\ inference.by.again = TRUE
    BY <1>1, <1>2 DEF RoundsSoFar, EnabledOnce, Disabled
  <2> QED BY <2>1
<1>7. Adapter!ReportIsOfTheAdapter'
  BY <1>3, <1>4, <1>5, <1>6 DEF Adapter!ReportIsOfTheAdapter
<1>8. Adapter!LandsWhereTrained'
  BY DEF LifecycleInv, Adapter!LandsWhereTrained, Adapter!Report
<1> QED BY <1>2, <1>7, <1>8 DEF LifecycleInv, Adapter!Report

LEMMA AbortInv ==
  ASSUME LifecycleInv, Adapter!Abort
  PROVE  LifecycleInv'
<1>1. Adapter!LandsWhereTrained' /\ Adapter!ReportIsOfTheAdapter'
  BY DEF LifecycleInv, Adapter!LandsWhereTrained, Adapter!ReportIsOfTheAdapter, Adapter!Abort
<1> QED BY <1>1 DEF LifecycleInv, Adapter!Abort

LEMMA NextLifecycleInv ==
  ASSUME LifecycleInv, [Adapter!Next]_(Adapter!vars)
  PROVE  LifecycleInv'
<1>1. CASE UNCHANGED Adapter!vars
  <2>1. Adapter!LandsWhereTrained'
    BY <1>1 DEF LifecycleInv, Adapter!LandsWhereTrained, Adapter!vars
  <2> QED BY <1>1, <2>1, QuietLifecycle DEF LifecycleInv, Adapter!vars
<1>2. CASE Adapter!Next
  BY <1>2, UpgradeInv, TrainAdapterInv, RequireInv, ExtractInv, CopyInInv, OpenInv, AttachInv,
     AdaptedInv, DisableInv, BareInv, RestoreInv, AdaptedAgainInv, ReportInv, AbortInv
     DEF Adapter!Next
<1> QED BY <1>1, <1>2

LEMMA AlwaysLifecycleInv ==
  Adapter!Spec => []LifecycleInv
<1>1. Adapter!Init => LifecycleInv
  BY InitLifecycleInv
<1>2. LifecycleInv /\ [Adapter!Next]_(Adapter!vars) => LifecycleInv'
  BY NextLifecycleInv
<1> QED BY <1>1, <1>2, PTL DEF Adapter!Spec

\* An adapter that is declared compatible with a base finds its modules there, whatever
\* libraries and revisions there are: the check of adapters/compatibility.py.
THEOREM AdaptersLandWhereTrained == Adapter!Spec => []LandsWhereTrained
<1>1. LifecycleInv => LandsWhereTrained
  BY DEF LifecycleInv, LandsWhereTrained
<1> QED BY <1>1, AlwaysLifecycleInv, PTL

\* An accepted P7-007 report is about the base and the adapter it names, whatever state PEFT
\* leaves its model in: the checks of runtime/adapter_validation.py.
THEOREM ReportsAreOfTheAdapter == Adapter!Spec => []ReportIsOfTheAdapter
<1>1. LifecycleInv => ReportIsOfTheAdapter
  BY DEF LifecycleInv, ReportIsOfTheAdapter
<1> QED BY <1>1, AlwaysLifecycleInv, PTL

----------------------------------------------------------------------------
(* The quotas of the sources add up: their sum is the number of the places *)
(* they have, a place being a source and the position of one of its        *)
(* records.                                                                *)

PlacesOf(S, f) == {p \in S \X (Nat \ {0}) : p[2] <= f[p[1]]}

\* The places of one more source.
LEMMA PlacesGrow ==
  ASSUME NEW S, NEW s, s \notin S, NEW f, NEW g, g[s] \in Nat,
         \A x \in S : g[x] = f[x], IsFiniteSet(PlacesOf(S, f))
  PROVE  /\ IsFiniteSet(PlacesOf(S \cup {s}, g))
         /\ Cardinality(PlacesOf(S \cup {s}, g)) = Cardinality(PlacesOf(S, f)) + g[s]
<1> DEFINE n == g[s]
           X == {<<s, i>> : i \in 1 .. n}
           Y == PlacesOf(S, f)
           map == [i \in 1 .. n |-> <<s, i>>]
<1>1. PlacesOf(S \cup {s}, g) = X \cup Y
  <2>1. ASSUME NEW p \in PlacesOf(S \cup {s}, g) PROVE p \in X \cup Y
    <3>1. PICK x \in S \cup {s}, i \in Nat \ {0} : p = <<x, i>> /\ i <= g[x]
      BY DEF PlacesOf
    <3>2. CASE x = s
      BY <3>1, <3>2
    <3>3. CASE x # s
      <4>1. x \in S /\ i <= f[x]
        BY <3>1, <3>3
      <4>2. p[1] = x /\ p[2] = i /\ p \in S \X (Nat \ {0})
        BY <3>1, <4>1
      <4>3. p \in Y
        BY <4>1, <4>2 DEF PlacesOf
      <4> QED BY <4>3
    <3> QED BY <3>2, <3>3
  <2>2. ASSUME NEW p \in X PROVE p \in PlacesOf(S \cup {s}, g)
    BY DEF PlacesOf
  <2>3. ASSUME NEW p \in Y PROVE p \in PlacesOf(S \cup {s}, g)
    BY DEF PlacesOf
  <2> HIDE DEF X, Y
  <2> QED BY <2>1, <2>2, <2>3
<1>2. X \cap Y = {}
  BY DEF PlacesOf
<1>3. IsFiniteSet(1 .. n) /\ Cardinality(1 .. n) = n
  <2>1. /\ IsFiniteSet(1 .. n)
        /\ Cardinality(1 .. n) = IF 1 > n THEN 0 ELSE n - 1 + 1
    BY FS_Interval, SMTT(30)
  <2> QED BY <2>1
<1>4. map \in Bijection(1 .. n, X)
  <2>1. map \in [1 .. n -> X]
    OBVIOUS
  <2>2. \A i, j \in 1 .. n : map[i] = map[j] => i = j
    OBVIOUS
  <2>3. \A x \in X : \E i \in 1 .. n : map[i] = x
    OBVIOUS
  <2> HIDE DEF map, X
  <2>4. map \in Injection(1 .. n, X)
    BY <2>1, <2>2 DEF Injection, IsInjective
  <2>5. map \in Surjection(1 .. n, X)
    BY <2>1, <2>3 DEF Surjection
  <2> QED BY <2>4, <2>5 DEF Bijection
<1> HIDE DEF X, Y, map
<1>5. IsFiniteSet(X) /\ Cardinality(X) = n
  BY <1>3, <1>4, FS_Bijection DEF ExistsBijection
<1>6. IsFiniteSet(Y) /\ Cardinality(Y) \in Nat
  BY FS_CardinalityType DEF Y
<1>7. /\ IsFiniteSet(X \cup Y)
      /\ Cardinality(X \cup Y) = Cardinality(X) + Cardinality(Y) - Cardinality(X \cap Y)
  BY <1>5, <1>6, FS_Union
<1>8. Cardinality(X \cap Y) = 0
  BY <1>2, FS_EmptySet
<1>9. Cardinality(X \cup Y) = Cardinality(Y) + n
  BY <1>5, <1>6, <1>7, <1>8
<1> QED BY <1>1, <1>7, <1>9 DEF Y

\* No quotas have no places.
LEMMA NoPlaces ==
  ASSUME NEW f
  PROVE  PlacesOf({}, f) = {} /\ IsFiniteSet(PlacesOf({}, f)) /\ Cardinality(PlacesOf({}, f)) = 0
<1>1. PlacesOf({}, f) = {}
  BY DEF PlacesOf
<1> QED BY <1>1, FS_EmptySet

GoalTurn(g, S) ==
    IF S = {} THEN 0 ELSE LET x == CHOOSE y \in S : TRUE IN Goal[x] + g[S \ {x}]

\* Finitely many quotas have finitely many places.
LEMMA PlacesFinite ==
  ASSUME NEW S, IsFiniteSet(S), NEW f, \A s \in S : f[s] \in Nat
  PROVE  IsFiniteSet(PlacesOf(S, f))
<1> DEFINE T == {n \in Nat : \A s \in SUBSET S : Cardinality(s) = n => IsFiniteSet(PlacesOf(s, f))}
<1>0. ASSUME NEW s \in SUBSET S PROVE IsFiniteSet(s) /\ Cardinality(s) \in Nat
  BY FS_Subset, FS_CardinalityType
<1>1. 0 \in T
  <2> SUFFICES ASSUME NEW s \in SUBSET S, Cardinality(s) = 0 PROVE IsFiniteSet(PlacesOf(s, f))
    OBVIOUS
  <2>1. s = {}
    BY <1>0, FS_EmptySet
  <2> QED BY <2>1, NoPlaces
<1>2. ASSUME NEW n \in Nat, n \in T PROVE n + 1 \in T
  <2> SUFFICES ASSUME NEW s \in SUBSET S, Cardinality(s) = n + 1
               PROVE  IsFiniteSet(PlacesOf(s, f))
    OBVIOUS
  <2>1. s # {}
    BY FS_EmptySet
  <2>2. PICK x \in s : TRUE
    BY <2>1
  <2>3. PICK r : r = s \ {x}
    OBVIOUS
  <2>4. Cardinality(r) = n
    <3>1. Cardinality(s \ {x}) = Cardinality(s) - 1
      BY <1>0, FS_RemoveElement
    <3> QED BY <3>1, <2>3
  <2>5. IsFiniteSet(PlacesOf(r, f))
    BY <1>2, <2>3, <2>4
  <2>6. IsFiniteSet(PlacesOf(r \cup {x}, f))
    BY <2>3, <2>5, PlacesGrow
  <2> QED BY <2>3, <2>6
<1>3. Nat \subseteq T
  <2> HIDE DEF T
  <2> QED BY <1>1, <1>2, NatInd
<1> QED BY <1>0, <1>3

\* The sum of the quotas of a sequence of sources is the number of their places.
LEMMA GoalsAddUp ==
  ASSUME NEW S, IsFiniteSet(S), \A s \in S : Goal[s] \in Nat
  PROVE  Composition!Sum(Goal, S) = Cardinality(PlacesOf(S, Goal))
<1> DEFINE W == CHOOSE f : f = [s \in SUBSET S |-> GoalTurn(f, s)]
           g == [s \in SUBSET S |-> Cardinality(PlacesOf(s, Goal))]
<1>1. Composition!Sum(Goal, S) = W[S]
  BY DEF Composition!Sum, Composition!MapThenSumSet, Composition!MapThenFoldSet, GoalTurn
<1>2. ASSUME NEW s \in SUBSET S PROVE IsFiniteSet(s) /\ Cardinality(s) \in Nat
  BY FS_Subset, FS_CardinalityType
<1>3. ASSUME NEW s \in SUBSET S, NEW x \in s
      PROVE  g[s] = Goal[x] + g[s \ {x}]
  <2>1. PICK r : r = s \ {x}
    OBVIOUS
  <2>2. r \in SUBSET S /\ x \notin r /\ s = r \cup {x} /\ Goal[x] \in Nat
    BY <2>1
  <2>3. IsFiniteSet(r) /\ \A y \in r : Goal[y] \in Nat
    BY <1>2, <2>2
  <2>4. IsFiniteSet(PlacesOf(r, Goal))
    BY <2>3, PlacesFinite
  <2>5. Cardinality(PlacesOf(r \cup {x}, Goal)) = Cardinality(PlacesOf(r, Goal)) + Goal[x]
    BY <2>2, <2>4, PlacesGrow
  <2>6. Cardinality(PlacesOf(r, Goal)) \in Nat
    BY <2>4, FS_CardinalityType
  <2>7. g[s] = Cardinality(PlacesOf(s, Goal)) /\ g[r] = Cardinality(PlacesOf(r, Goal))
    BY <2>2
  <2> HIDE DEF g
  <2>8. g[s] = g[r] + Goal[x] /\ g[r] \in Nat /\ Goal[x] \in Nat
    BY <2>2, <2>5, <2>6, <2>7
  <2>9. g[s] = Goal[x] + g[r]
    BY <2>8
  <2> QED BY <2>1, <2>9
<1>4. g[{}] = 0
  BY NoPlaces
<1>5. ASSUME NEW s \in SUBSET S PROVE g[s] = GoalTurn(g, s)
  <2> HIDE DEF g
  <2>1. CASE s = {}
    BY <1>4, <2>1 DEF GoalTurn
  <2>2. CASE s # {}
    <3>1. PICK x \in s : x = CHOOSE y \in s : TRUE
      BY <2>2
    <3>2. GoalTurn(g, s) = Goal[x] + g[s \ {x}]
      BY <2>2, <3>1 DEF GoalTurn
    <3> QED BY <1>3, <3>2
  <2> QED BY <2>1, <2>2
<1>6. g = [s \in SUBSET S |-> GoalTurn(g, s)]
  <2>1. g = [s \in SUBSET S |-> g[s]]
    OBVIOUS
  <2> HIDE DEF g
  <2> QED BY <1>5, <2>1
<1>7. W = [s \in SUBSET S |-> GoalTurn(W, s)]
  <2> HIDE DEF g
  <2> QED BY <1>6
<1>8. W[S] = g[S]
  <2> DEFINE T == {n \in Nat : \A s \in SUBSET S : Cardinality(s) = n => W[s] = g[s]}
  <2>e. ASSUME NEW s \in SUBSET S PROVE W[s] = GoalTurn(W, s)
    <3> HIDE DEF W
    <3> QED BY <1>7
  <2> HIDE DEF W, g
  <2>1. 0 \in T
    <3>1. ASSUME NEW s \in SUBSET S, Cardinality(s) = 0 PROVE W[s] = g[s]
      <4>2. s = {}
        BY <1>2, <3>1, FS_EmptySet
      <4>3. W[s] = GoalTurn(W, s)
        BY <2>e
      <4> QED BY <1>4, <4>2, <4>3 DEF GoalTurn
    <3> QED BY <3>1
  <2>2. ASSUME NEW n \in Nat, n \in T PROVE n + 1 \in T
    <3>1. ASSUME NEW s \in SUBSET S, Cardinality(s) = n + 1 PROVE W[s] = g[s]
      <4>0. W[s] = GoalTurn(W, s)
        BY <2>e
      <4>1. s # {}
        BY <3>1, FS_EmptySet
      <4>2. PICK x \in s : x = CHOOSE y \in s : TRUE
        BY <4>1
      <4>3. Cardinality(s \ {x}) = Cardinality(s) - 1
        BY <1>2, FS_RemoveElement
      <4>4. s \ {x} \in SUBSET S /\ Cardinality(s \ {x}) = n
        BY <3>1, <4>3
      <4>5. W[s \ {x}] = g[s \ {x}]
        BY <2>2, <4>4
      <4>6. W[s] = Goal[x] + W[s \ {x}]
        BY <4>0, <4>1, <4>2 DEF GoalTurn
      <4> QED BY <1>3, <4>5, <4>6
    <3> QED BY <3>1
  <2>3. Nat \subseteq T
    <3> HIDE DEF T
    <3> QED BY <2>1, <2>2, NatInd
  <2>4. Cardinality(S) \in Nat /\ S \in SUBSET S
    BY FS_CardinalityType
  <2> QED BY <2>3, <2>4
<1> QED BY <1>1, <1>8

----------------------------------------------------------------------------
(* One source of the composition *)

RowsOf(w, s) == w.rows[w.of[s]]
RecordsOf(w) == {Composition!Record(w.of[s], row) : s \in Range(Sources), row \in P0Rows}
YieldOf(w, s) == {Composition!Record(w.of[s], row) : row \in {x \in Range(RowsOf(w, s)) : x.python}}
ContentsIn(recs) == {Content(r) : r \in Range(recs)}

Fields == {"failed", "shortfall", "taken", "rejected", "scanned", "contents", "seen", "by", "stats"}

\* What no turn over a stream touches.
Untouched(x, st) ==
    /\ DOMAIN x = Fields
    /\ x.by = st.by /\ x.shortfall = st.shortfall /\ x.stats = st.stats

\* What a turn may come to: the row is passed over, or the stream raises, or the record
\* is refused, repeats another, or is taken.
PassedOver(x, st, row, req) ==
    /\ x.failed = st.failed /\ x.taken = st.taken /\ x.contents = st.contents /\ x.seen = st.seen
    /\ st.failed \/ Len(st.taken) >= req \/ ~row.python

Raised(x, st) ==
    x.failed = TRUE /\ x.taken = st.taken /\ x.contents = st.contents /\ x.seen = st.seen

Refused(x, st, r, c) ==
    /\ x.failed = st.failed /\ x.taken = st.taken /\ x.contents = st.contents /\ x.seen = st.seen
    /\ Composition!Stage(r, c) # "none"

Repeated(x, st, r) ==
    /\ x.failed = st.failed /\ x.taken = st.taken /\ x.contents = st.contents
    /\ x.seen = st.seen \cup {<<r.key, Content(r)>>}
    /\ Content(r) \in st.contents

Taken(x, st, r, c, req) ==
    /\ x.failed = st.failed /\ x.taken = Append(st.taken, r)
    /\ x.contents = st.contents \cup {Content(r)}
    /\ x.seen = st.seen \cup {<<r.key, Content(r)>>}
    /\ Composition!Stage(r, c) = "none" /\ ~(Len(st.taken) >= req)

\* The contents that the pipeline compares are those of the model.
LEMMA SameContent ==
  ASSUME NEW r
  PROVE  Composition!Content(r) = Content(r)
BY DEF Composition!Content, Content

\* One turn of the loop over the rows of a source leaves a record that is not taken as it
\* is, and takes one that is new and valid.
LEMMA OneTurn ==
  ASSUME NEW st, DOMAIN st = Fields, \A z \in st.seen : z[2] \in st.contents,
         NEW d, NEW row, NEW c, NEW req,
         NEW r, r = Composition!Record(d, row),
         NEW x, x = Composition!Consume(st, d, row, c, req)
  PROVE  /\ Untouched(x, st)
         /\ \/ PassedOver(x, st, row, req)
            \/ Raised(x, st)
            \/ Refused(x, st, r, c)
            \/ Repeated(x, st, r)
            \/ Taken(x, st, r, c, req)
<1>1. CASE st.failed \/ Len(st.taken) >= req \/ ~Composition!Selected(row)
  <2>1. x = st
    BY <1>1 DEF Composition!Consume
  <2> QED BY <1>1, <2>1 DEF Untouched, PassedOver, Composition!Selected
<1>2. CASE ~(st.failed \/ Len(st.taken) >= req \/ ~Composition!Selected(row))
  <2>1. CASE Composition!Broken(row)
    <3>1. x = [st EXCEPT !.failed = TRUE]
      BY <1>2, <2>1 DEF Composition!Consume
    <3>2. Untouched(x, st) /\ Raised(x, st)
      BY <3>1 DEF Untouched, Raised, Fields
    <3> QED BY <3>2
  <2>2. CASE ~Composition!Broken(row)
    <3>1. x = Composition!Classify(st, r, c)
      BY <1>2, <2>2 DEF Composition!Consume
    <3>2. CASE Composition!Stage(r, c) # "none"
      <4>1. x = Composition!Count(st, Composition!Stage(r, c))
        BY <3>1, <3>2 DEF Composition!Classify
      <4>2. Untouched(x, st) /\ Refused(x, st, r, c)
        BY <3>2, <4>1 DEF Composition!Count, Untouched, Refused, Fields
      <4> QED BY <4>2
    <3>3. CASE Composition!Stage(r, c) = "none" /\ Composition!Conflicts(st, r)
      <4>1. x = [st EXCEPT !.failed = TRUE]
        BY <3>1, <3>3 DEF Composition!Classify
      <4>2. Untouched(x, st) /\ Raised(x, st)
        BY <4>1 DEF Untouched, Raised, Fields
      <4> QED BY <4>2
    <3>4. CASE Composition!Stage(r, c) = "none" /\ ~Composition!Conflicts(st, r)
      <4>1. x = IF Composition!Repeats(st, r) THEN Composition!Repeat(st, r)
                ELSE Composition!Accept(st, r)
        BY <3>1, <3>4 DEF Composition!Classify
      <4>2. CASE Composition!Repeats(st, r)
        <5>1. x = [Composition!Count(st, "duplicate") EXCEPT !.seen = @ \cup {<<r.key, Content(r)>>}]
          BY <4>1, <4>2, SameContent DEF Composition!Repeat
        <5>2. Content(r) \in st.contents
          BY <3>4, <4>2, SameContent DEF Composition!Repeats, Composition!Conflicts
        <5>3. Untouched(x, st) /\ Repeated(x, st, r)
          BY <5>1, <5>2 DEF Composition!Count, Untouched, Repeated, Fields
        <5> QED BY <5>3
      <4>3. CASE ~Composition!Repeats(st, r)
        <5>1. x = [st EXCEPT !.taken = Append(@, r), !.scanned = @ + 1,
                             !.contents = @ \cup {Content(r)},
                             !.seen = @ \cup {<<r.key, Content(r)>>}]
          BY <4>1, <4>3, SameContent DEF Composition!Accept
        <5>2. Untouched(x, st) /\ Taken(x, st, r, c, req)
          BY <1>2, <3>4, <5>1 DEF Untouched, Taken, Fields
        <5> QED BY <5>2
      <4> QED BY <4>2, <4>3
    <3> QED BY <3>2, <3>3, <3>4
  <2> QED BY <2>1, <2>2
<1> QED BY <1>1, <1>2

Requested(st, s) == Goal[s] + IF s = world.fill THEN st.shortfall ELSE 0
Begun(st) == [st EXCEPT !.taken = <<>>, !.rejected = Composition!Fresh, !.scanned = 0]
Ended(end, s, requested) ==
    [end EXCEPT !.shortfall = IF s = world.fill THEN requested - Len(end.taken)
                              ELSE @ + (requested - Len(end.taken)),
                !.by[s] = end.taken,
                !.stats[s] = [scanned |-> end.scanned, rejected |-> end.rejected,
                              accepted |-> Len(end.taken), requested |-> requested]]

\* What the loop over rows has after each of them.
Streams(f, m, st, d, rows, c, requested) ==
    /\ f = [n \in 0 .. m |-> f[n]] /\ f[0] = st
    /\ \A n \in 1 .. m : f[n] = Composition!Consume(f[n - 1], d, rows[n], c, requested)

\* The recursive function of a source's loop has a value at each of its rows.
LEMMA StreamsExist ==
  ASSUME NEW m \in Nat, NEW st, NEW d, NEW rows, NEW c, NEW req
  PROVE  \E f : Streams(f, m, st, d, rows, c, req)
<1> DEFINE Def(f, n) == Streams(f, n, st, d, rows, c, req)
           Next1(v, n) == Composition!Consume(v, d, rows[n], c, req)
           T == {n \in 0 .. m : \E f : Def(f, n)}
<1>1. 0 \in T
  <2> DEFINE g == [i \in 0 .. 0 |-> st]
  <2>1. g = [i \in 0 .. 0 |-> g[i]] /\ g[0] = st /\ 1 .. 0 = {}
    OBVIOUS
  <2> HIDE DEF g
  <2>2. Def(g, 0)
    BY <2>1 DEF Streams
  <2> HIDE DEF Def
  <2> QED BY <2>2
<1>2. ASSUME NEW n \in 1 .. m, n - 1 \in T PROVE n \in T
  <2>0. PICK f : Def(f, n - 1)
    BY <1>2
  <2> HIDE DEF Next1
  <2>1. /\ f[0] = st
        /\ \A i \in 1 .. n - 1 : f[i] = Next1(f[i - 1], i)
    BY <2>0 DEF Streams, Next1
  <2> DEFINE g == [i \in 0 .. n |-> IF i = n THEN Next1(f[n - 1], n) ELSE f[i]]
  <2>3. g = [i \in 0 .. n |-> g[i]] /\ g[0] = st
    BY <2>1
  <2>4. ASSUME NEW i \in 1 .. n PROVE g[i] = Next1(g[i - 1], i)
    <3>1. g[i - 1] = f[i - 1]
      OBVIOUS
    <3>2. i = n => g[i] = Next1(f[i - 1], i)
      OBVIOUS
    <3>3. i # n => i \in 1 .. n - 1 /\ g[i] = f[i] /\ f[i] = Next1(f[i - 1], i)
      BY <2>1
    <3> HIDE DEF g
    <3> QED BY <3>1, <3>2, <3>3
  <2> HIDE DEF g
  <2>5. Def(g, n)
    BY <2>3, <2>4 DEF Streams, Next1
  <2> HIDE DEF Def
  <2>6. n \in 0 .. m
    OBVIOUS
  <2> QED BY <2>5, <2>6
<1>3. 0 .. m \subseteq T
  <2> HIDE DEF T
  <2> QED BY <1>1, <1>2, UpToInd
<1>4. m \in T
  <2> HIDE DEF T
  <2> QED BY <1>3
<1>5. PICK f : Def(f, m)
  BY <1>4
<1> QED BY <1>5

\* What the composition does with a source is the end of that loop.
LEMMA ComposeStreams ==
  ASSUME NEW st, NEW s, NEW c, Len(RowsOf(world, s)) \in Nat
  PROVE  \E f : /\ Streams(f, Len(RowsOf(world, s)), Begun(st), world.of[s], RowsOf(world, s), c,
                           Requested(st, s))
                /\ Composition!Compose(st, s, c) =
                     Ended(f[Len(RowsOf(world, s))], s, Requested(st, s))
<1> DEFINE rows == RowsOf(world, s)
           L == Len(rows)
           d == world.of[s]
           req == Requested(st, s)
           Turn(f, n) == IF n = 0 THEN Begun(st)
                         ELSE Composition!Consume(f[n - 1], d, rows[n], c, req)
           F == CHOOSE f : f = [n \in 0 .. L |-> Turn(f, n)]
<1>1. Composition!Compose(st, s, c) = Ended(F[L], s, req)
  BY DEF Composition!Compose, Ended, Begun, Requested, RowsOf
<1>2. PICK g : Streams(g, L, Begun(st), d, rows, c, req)
  BY StreamsExist
<1>3. g = [n \in 0 .. L |-> Turn(g, n)]
  <2>1. g = [n \in 0 .. L |-> g[n]] /\ g[0] = Begun(st)
        /\ \A n \in 1 .. L : g[n] = Composition!Consume(g[n - 1], d, rows[n], c, req)
    BY <1>2 DEF Streams
  <2>2. ASSUME NEW n \in 0 .. L PROVE g[n] = Turn(g, n)
    <3>1. CASE n = 0
      BY <2>1, <3>1
    <3>2. CASE n # 0
      <4>1. n \in 1 .. L
        BY <3>2
      <4> QED BY <2>1, <3>2, <4>1
    <3> QED BY <3>1, <3>2
  <2> HIDE DEF Turn
  <2> QED BY <2>1, <2>2
<1>4. F = [n \in 0 .. L |-> Turn(F, n)]
  <2> HIDE DEF Turn, L
  <2> QED BY <1>3
<1> HIDE DEF F
<1>5. F = [n \in 0 .. L |-> F[n]] /\ \A n \in 0 .. L : F[n] = Turn(F, n)
  <2> HIDE DEF Turn, L
  <2> QED BY <1>4
<1>6. Streams(F, L, Begun(st), d, rows, c, req)
  <2>1. F[0] = Begun(st)
    <3>1. 0 \in 0 .. L
      OBVIOUS
    <3> QED BY <1>5, <3>1
  <2>2. ASSUME NEW n \in 1 .. L
        PROVE  F[n] = Composition!Consume(F[n - 1], d, rows[n], c, req)
    <3>1. n \in 0 .. L /\ n # 0
      OBVIOUS
    <3> QED BY <1>5, <3>1
  <2> HIDE DEF L, rows, d, req
  <2> QED BY <1>5, <2>1, <2>2 DEF Streams
<1> QED BY <1>1, <1>6

\* The row is one that may be taken, and its content.
Takeable(w, s, c, i) ==
    /\ RowsOf(w, s)[i].python
    /\ Composition!Stage(Composition!Record(w.of[s], RowsOf(w, s)[i]), c) = "none"
ContentOf(w, s, i) == Content(Composition!Record(w.of[s], RowsOf(w, s)[i]))

\* What holds after n rows of a source, begun with st: unless it raised or has enough,
\* what could have been taken so far is known.
Streamed(x, n, w, s, c, st, req) ==
    /\ Untouched(x, st)
    /\ x.taken \in Seq(RecordsOf(w)) /\ Len(x.taken) <= req
    /\ x.contents = st.contents \cup ContentsIn(x.taken)
    /\ \A z \in x.seen : z[2] \in x.contents
    /\ \A r \in Range(x.taken) : Composition!Stage(r, c) = "none"
    /\ ~x.failed => ~st.failed
    /\ ~x.failed /\ Len(x.taken) < req =>
         \A i \in 1 .. n : Takeable(w, s, c, i) => ContentOf(w, s, i) \in x.contents

\* The loop invariant of a source survives one row.
LEMMA StreamStep ==
  ASSUME NEW w, NEW s \in Range(Sources), RowsOf(w, s) \in Seq(P0Rows), NEW c,
         NEW st, NEW req \in Nat, NEW n \in 1 .. Len(RowsOf(w, s)),
         NEW y, Streamed(y, n - 1, w, s, c, st, req),
         NEW x, x = Composition!Consume(y, w.of[s], RowsOf(w, s)[n], c, req)
  PROVE  Streamed(x, n, w, s, c, st, req)
<1> DEFINE row == RowsOf(w, s)[n]
           r == Composition!Record(w.of[s], row)
           Known(v, m) == ~v.failed /\ Len(v.taken) < req =>
             \A i \in 1 .. m : Takeable(w, s, c, i) => ContentOf(w, s, i) \in v.contents
<1>1. /\ DOMAIN y = Fields /\ Untouched(y, st)
      /\ y.taken \in Seq(RecordsOf(w)) /\ Len(y.taken) <= req /\ Len(y.taken) \in Nat
      /\ y.contents = st.contents \cup ContentsIn(y.taken)
      /\ \A z \in y.seen : z[2] \in y.contents
      /\ \A q \in Range(y.taken) : Composition!Stage(q, c) = "none"
      /\ ~y.failed => ~st.failed
      /\ Known(y, n - 1)
  BY DEF Streamed, Untouched
<1>2. row \in P0Rows /\ r \in RecordsOf(w)
  BY DEF RecordsOf
<1>3. PICK q : q = r
  OBVIOUS
<1>4. /\ Untouched(x, y)
      /\ \/ PassedOver(x, y, row, req) \/ Raised(x, y) \/ Refused(x, y, q, c)
         \/ Repeated(x, y, q) \/ Taken(x, y, q, c, req)
  <2> HIDE DEF row
  <2> QED BY <1>1, <1>3, OneTurn DEF row
<1>5. Takeable(w, s, c, n) <=> row.python /\ Composition!Stage(q, c) = "none"
  BY <1>3 DEF Takeable
<1>6. ContentOf(w, s, n) = Content(q)
  BY <1>3 DEF ContentOf
<1>7. Untouched(x, st)
  BY <1>1, <1>4 DEF Untouched
<1> HIDE DEF row, r
<1>8. ASSUME Known(y, n - 1), y.contents \subseteq x.contents,
             ~x.failed => ~y.failed,
             Len(x.taken) < req => Len(y.taken) < req,
             ~x.failed /\ Len(x.taken) < req /\ Takeable(w, s, c, n) => Content(q) \in x.contents
      PROVE  Known(x, n)
  <2> SUFFICES ASSUME ~x.failed, Len(x.taken) < req, NEW i \in 1 .. n, Takeable(w, s, c, i)
               PROVE  ContentOf(w, s, i) \in x.contents
    OBVIOUS
  <2>1. CASE i = n
    BY <1>6, <1>8, <2>1
  <2>2. CASE i # n
    <3>1. i \in 1 .. n - 1
      BY <2>2
    <3> QED BY <1>8, <3>1
  <2> QED BY <2>1, <2>2
<1> HIDE DEF Known
<1>9. ASSUME x.failed = y.failed \/ x.failed = TRUE, x.taken = y.taken, x.contents = y.contents,
             \A z \in x.seen : z[2] \in x.contents, Known(x, n)
      PROVE  Streamed(x, n, w, s, c, st, req)
  BY <1>1, <1>7, <1>9 DEF Streamed, Known
<1>10. CASE PassedOver(x, y, row, req)
  <2>1. /\ x.failed = y.failed /\ x.taken = y.taken /\ x.contents = y.contents /\ x.seen = y.seen
        /\ y.failed \/ Len(y.taken) >= req \/ ~row.python
    BY <1>10 DEF PassedOver
  <2>2. Known(x, n)
    BY <1>1, <1>5, <1>8, <2>1
  <2> QED BY <1>1, <1>9, <2>1, <2>2
<1>11. CASE Raised(x, y)
  <2>1. x.failed = TRUE /\ x.taken = y.taken /\ x.contents = y.contents /\ x.seen = y.seen
    BY <1>11 DEF Raised
  <2>2. Known(x, n)
    BY <2>1 DEF Known
  <2> QED BY <1>1, <1>9, <2>1, <2>2
<1>12. CASE Refused(x, y, q, c)
  <2>1. /\ x.failed = y.failed /\ x.taken = y.taken /\ x.contents = y.contents /\ x.seen = y.seen
        /\ Composition!Stage(q, c) # "none"
    BY <1>12 DEF Refused
  <2>2. Known(x, n)
    BY <1>1, <1>5, <1>8, <2>1
  <2> QED BY <1>1, <1>9, <2>1, <2>2
<1>13. CASE Repeated(x, y, q)
  <2>1. /\ x.failed = y.failed /\ x.taken = y.taken /\ x.contents = y.contents
        /\ x.seen = y.seen \cup {<<q.key, Content(q)>>} /\ Content(q) \in y.contents
    BY <1>13 DEF Repeated
  <2>2. Known(x, n)
    BY <1>1, <1>8, <2>1
  <2>3. \A z \in x.seen : z[2] \in x.contents
    BY <1>1, <2>1
  <2> QED BY <1>9, <2>1, <2>2, <2>3
<1>14. CASE Taken(x, y, q, c, req)
  <2>1. /\ x.failed = y.failed /\ x.taken = Append(y.taken, q)
        /\ x.contents = y.contents \cup {Content(q)}
        /\ x.seen = y.seen \cup {<<q.key, Content(q)>>}
        /\ Composition!Stage(q, c) = "none" /\ ~(Len(y.taken) >= req)
    BY <1>14 DEF Taken
  <2>2. /\ x.taken \in Seq(RecordsOf(w)) /\ Len(x.taken) = Len(y.taken) + 1
        /\ Range(x.taken) = Range(y.taken) \cup {q}
    BY <1>1, <1>2, <1>3, <2>1, AppendRange
  <2>3. Known(x, n)
    BY <1>1, <1>8, <2>1, <2>2
  <2>4. \A z \in x.seen : z[2] \in x.contents
    BY <1>1, <2>1
  <2>5. x.contents = st.contents \cup ContentsIn(x.taken)
    BY <1>1, <2>1, <2>2 DEF ContentsIn
  <2>6. \A p \in Range(x.taken) : Composition!Stage(p, c) = "none"
    BY <1>1, <2>1, <2>2
  <2>7. Len(x.taken) <= req
    BY <1>1, <2>1, <2>2
  <2>8. ~x.failed => ~st.failed
    BY <1>1, <2>1
  <2> QED BY <1>7, <2>2, <2>3, <2>4, <2>5, <2>6, <2>7, <2>8 DEF Streamed, Known
<1> QED BY <1>4, <1>10, <1>11, <1>12, <1>13, <1>14

\* What holds after the last row.
LEMMA StreamEnds ==
  ASSUME NEW w, NEW s \in Range(Sources), RowsOf(w, s) \in Seq(P0Rows), NEW c,
         NEW st, DOMAIN st = Fields, \A z \in st.seen : z[2] \in st.contents, st.taken = <<>>,
         NEW req \in Nat,
         NEW f, Streams(f, Len(RowsOf(w, s)), st, w.of[s], RowsOf(w, s), c, req)
  PROVE  Streamed(f[Len(RowsOf(w, s))], Len(RowsOf(w, s)), w, s, c, st, req)
<1> DEFINE m == Len(RowsOf(w, s))
           T == {n \in 0 .. m : Streamed(f[n], n, w, s, c, st, req)}
<1>0. m \in Nat
  OBVIOUS
<1> HIDE DEF m
<1>1. f[0] = st /\ \A n \in 1 .. m : f[n] = Composition!Consume(f[n - 1], w.of[s], RowsOf(w, s)[n], c, req)
  BY DEF Streams, m
<1>2. 0 \in T
  <2>1. Range(st.taken) = {} /\ Len(st.taken) = 0 /\ st.taken \in Seq(RecordsOf(w))
    BY DEF Range
  <2>2. ContentsIn(st.taken) = {}
    BY <2>1 DEF ContentsIn
  <2>3. Streamed(st, 0, w, s, c, st, req)
    BY <2>1, <2>2 DEF Streamed, Untouched
  <2> QED BY <1>0, <1>1, <2>3
<1>3. ASSUME NEW n \in 1 .. m, n - 1 \in T PROVE n \in T
  <2>1. Streamed(f[n - 1], n - 1, w, s, c, st, req)
    BY <1>3
  <2>2. f[n] = Composition!Consume(f[n - 1], w.of[s], RowsOf(w, s)[n], c, req)
    BY <1>1
  <2>3. n \in 1 .. Len(RowsOf(w, s))
    BY DEF m
  <2>4. Streamed(f[n], n, w, s, c, st, req)
    BY <2>1, <2>2, <2>3, StreamStep
  <2> QED BY <1>0, <2>4
<1>4. 0 .. m \subseteq T
  <2> HIDE DEF T
  <2> QED BY <1>0, <1>2, <1>3, UpToInd
<1>5. m \in T
  <2> HIDE DEF T
  <2> QED BY <1>0, <1>4
<1>6. Streamed(f[m], m, w, s, c, st, req)
  BY <1>5
<1> QED BY <1>6 DEF m

----------------------------------------------------------------------------
(* All sources of a composition *)

Lengths(b) == [s \in Range(Sources) |-> Len(b.by[s])]

\* A source that was looked at: it has what its counter says, no more than its quota if
\* it does not fill, and where it has less, nothing is left that is not known.
Drained(b, s, w, c) ==
    /\ b.stats[s].accepted = Len(b.by[s])
    /\ s # w.fill => Len(b.by[s]) <= Goal[s]
    /\ \A r \in Range(b.by[s]) : Composition!Stage(r, c) = "none"
    /\ ~b.failed /\ Len(b.by[s]) < Goal[s] =>
         \A r \in YieldOf(w, s) : Composition!Stage(r, c) = "none" => Content(r) \in b.contents

\* What holds after the sources in P: what they have and what they fell short of is what
\* was asked of them.
Composed(b, P, w, c) ==
    /\ DOMAIN b = Fields /\ DOMAIN b.by = Range(Sources) /\ DOMAIN b.stats = Range(Sources)
    /\ \A s \in Range(Sources) : b.by[s] \in Seq(RecordsOf(w))
    /\ b.contents = UNION {ContentsIn(b.by[s]) : s \in P}
    /\ \A z \in b.seen : z[2] \in b.contents
    /\ b.shortfall \in Nat
    /\ b.shortfall + Cardinality(PlacesOf(P, Lengths(b))) = Cardinality(PlacesOf(P, Goal))
    /\ \A s \in P : Drained(b, s, w, c)

\* The same as an equation, for what a source has and for its quota.
LEMMA CountGrows ==
  ASSUME NEW P, NEW s, s \notin P, NEW old, NEW new,
         \A q \in P : new[q] = old[q], new[s] \in Nat, IsFiniteSet(PlacesOf(P, old))
  PROVE  Cardinality(PlacesOf(P \cup {s}, new)) = Cardinality(PlacesOf(P, old)) + new[s]
BY PlacesGrow

\* One more source adds its quota to the places.
LEMMA GoalsGrow ==
  ASSUME NEW P, NEW s, s \notin P, Goal[s] \in Nat, IsFiniteSet(PlacesOf(P, Goal))
  PROVE  Cardinality(PlacesOf(P \cup {s}, Goal)) = Cardinality(PlacesOf(P, Goal)) + Goal[s]
BY PlacesGrow

\* The loop invariant of the sources survives one source: what it fell short of is carried
\* to the fill.
LEMMA ComposeStep ==
  ASSUME NEW P \in SUBSET Range(Sources), NEW s \in Range(Sources) \ P, NEW c,
         IsFiniteSet(P), RowsOf(world, s) \in Seq(P0Rows), Goal[s] \in Nat,
         \A q \in Range(Sources) : Goal[q] \in Nat,
         NEW b, Composed(b, P, world, c),
         NEW x, x = Composition!Compose(b, s, c)
  PROVE  Composed(x, P \cup {s}, world, c)
<1> DEFINE m == Len(RowsOf(world, s))
           req == Requested(b, s)
           st == Begun(b)
<1>1. /\ DOMAIN b = Fields /\ DOMAIN b.by = Range(Sources) /\ DOMAIN b.stats = Range(Sources)
      /\ \A q \in Range(Sources) : b.by[q] \in Seq(RecordsOf(world))
      /\ b.contents = UNION {ContentsIn(b.by[q]) : q \in P}
      /\ \A z \in b.seen : z[2] \in b.contents
      /\ b.shortfall \in Nat
      /\ b.shortfall + Cardinality(PlacesOf(P, Lengths(b))) = Cardinality(PlacesOf(P, Goal))
      /\ \A q \in P : Drained(b, q, world, c)
  BY DEF Composed
<1>2. req \in Nat /\ req >= Goal[s] /\ (s # world.fill => req = Goal[s])
  BY <1>1 DEF Requested
<1>3. /\ DOMAIN st = Fields /\ st.taken = <<>> /\ st.contents = b.contents /\ st.seen = b.seen
      /\ st.failed = b.failed /\ st.by = b.by /\ st.stats = b.stats
      /\ st.shortfall = b.shortfall
  BY <1>1 DEF Begun, Fields
<1>4. PICK f : /\ Streams(f, m, st, world.of[s], RowsOf(world, s), c, req)
               /\ Composition!Compose(b, s, c) = Ended(f[m], s, req)
  <2>1. m \in Nat
    OBVIOUS
  <2> QED BY <2>1, ComposeStreams
<1>5. PICK e : e = f[m]
  OBVIOUS
<1>6. Streamed(e, m, world, s, c, st, req)
  <2> HIDE DEF st, req
  <2> QED BY <1>1, <1>2, <1>3, <1>4, <1>5, StreamEnds
<1>7. x = Ended(e, s, req)
  BY <1>4, <1>5
<1> HIDE DEF st, req
<1>8. /\ DOMAIN e = Fields /\ e.by = b.by /\ e.shortfall = b.shortfall /\ e.stats = b.stats
      /\ e.taken \in Seq(RecordsOf(world)) /\ Len(e.taken) <= req /\ Len(e.taken) \in Nat
      /\ e.contents = b.contents \cup ContentsIn(e.taken)
      /\ \A z \in e.seen : z[2] \in e.contents
      /\ \A r \in Range(e.taken) : Composition!Stage(r, c) = "none"
      /\ ~e.failed => ~b.failed
      /\ ~e.failed /\ Len(e.taken) < req =>
           \A i \in 1 .. m : Takeable(world, s, c, i) => ContentOf(world, s, i) \in e.contents
  BY <1>3, <1>6 DEF Streamed, Untouched
<1>9. /\ DOMAIN x = Fields /\ x.failed = e.failed /\ x.contents = e.contents /\ x.seen = e.seen
      /\ x.by = [b.by EXCEPT ![s] = e.taken]
      /\ x.shortfall = IF s = world.fill THEN req - Len(e.taken)
                       ELSE b.shortfall + (req - Len(e.taken))
      /\ DOMAIN x.stats = Range(Sources)
      /\ x.stats[s].accepted = Len(e.taken)
      /\ \A q \in Range(Sources) \ {s} : x.stats[q] = b.stats[q]
  BY <1>1, <1>7, <1>8 DEF Ended, Fields
<1>10. /\ DOMAIN x.by = Range(Sources) /\ x.by[s] = e.taken
       /\ \A q \in Range(Sources) \ {s} : x.by[q] = b.by[q]
  BY <1>1, <1>9
<1>11. \A q \in Range(Sources) : x.by[q] \in Seq(RecordsOf(world))
  BY <1>1, <1>8, <1>10
<1>12. x.contents = UNION {ContentsIn(x.by[q]) : q \in P \cup {s}}
  <2>1. \A q \in P : q # s /\ x.by[q] = b.by[q]
    BY <1>10
  <2>2. UNION {ContentsIn(x.by[q]) : q \in P \cup {s}}
          = (UNION {ContentsIn(b.by[q]) : q \in P}) \cup ContentsIn(e.taken)
    <3>1. \A q \in P : ContentsIn(x.by[q]) = ContentsIn(b.by[q])
      BY <2>1
    <3>2. ContentsIn(x.by[s]) = ContentsIn(e.taken)
      BY <1>10
    <3> QED BY <3>1, <3>2
  <2> QED BY <1>1, <1>8, <1>9, <2>2
<1>13. \A z \in x.seen : z[2] \in x.contents
  BY <1>8, <1>9
<1>14. /\ x.shortfall \in Nat
       /\ x.shortfall + Len(e.taken) = b.shortfall + Goal[s]
  <2>1. b.shortfall \in Nat /\ Len(e.taken) \in Nat /\ Len(e.taken) <= req
    BY <1>1, <1>8
  <2>2. CASE s = world.fill
    <3>1. req = Goal[s] + b.shortfall /\ x.shortfall = req - Len(e.taken)
      BY <1>9, <2>2 DEF Requested, req
    <3> QED BY <1>2, <2>1, <3>1
  <2>3. CASE s # world.fill
    <3>1. req = Goal[s] /\ x.shortfall = b.shortfall + (req - Len(e.taken))
      BY <1>2, <1>9, <2>3
    <3> QED BY <1>2, <2>1, <3>1
  <2> QED BY <2>2, <2>3
<1>15. x.shortfall + Cardinality(PlacesOf(P \cup {s}, Lengths(x))) = Cardinality(PlacesOf(P \cup {s}, Goal))
  <2>1. ASSUME NEW q \in P PROVE Lengths(x)[q] = Lengths(b)[q] /\ Lengths(b)[q] \in Nat
    <3>1. q \in Range(Sources) /\ q # s
      OBVIOUS
    <3>2. x.by[q] = b.by[q] /\ b.by[q] \in Seq(RecordsOf(world))
      BY <1>1, <1>10, <3>1
    <3>3. Lengths(x)[q] = Len(x.by[q]) /\ Lengths(b)[q] = Len(b.by[q])
      BY <3>1 DEF Lengths
    <3> QED BY <3>2, <3>3
  <2>2. PICK v \in Nat : v = Len(e.taken)
    BY <1>8
  <2>3. PICK u \in Nat : u = Goal[s]
    OBVIOUS
  <2>4. PICK old : old = Lengths(b)
    OBVIOUS
  <2>5. PICK new : new = Lengths(x)
    OBVIOUS
  <2>6. PICK before \in Nat : before = b.shortfall
    BY <1>1
  <2>7. PICK after \in Nat : after = x.shortfall
    BY <1>14
  <2>8. new[s] = v
    BY <1>10, <2>2, <2>5 DEF Lengths
  <2>9. \A q \in P : new[q] = old[q]
    BY <2>1, <2>4, <2>5
  <2>10. s \notin P
    OBVIOUS
  <2>11. IsFiniteSet(PlacesOf(P, old))
    <3>1. \A q \in P : old[q] \in Nat
      BY <2>1, <2>4
    <3> QED BY <3>1, PlacesFinite
  <2>12. IsFiniteSet(PlacesOf(P, Goal))
    <3>1. \A q \in P : Goal[q] \in Nat
      OBVIOUS
    <3> QED BY <3>1, PlacesFinite
  <2>13. after + v = before + u
    BY <1>14, <2>2, <2>3, <2>6, <2>7
  <2>14. PICK k : k = Cardinality(PlacesOf(P, old))
    OBVIOUS
  <2>15. PICK g : g = Cardinality(PlacesOf(P, Goal))
    OBVIOUS
  <2>16. k \in Nat /\ g \in Nat /\ before + k = g
    BY <1>1, <2>4, <2>6, <2>11, <2>12, <2>14, <2>15, FS_CardinalityType
  <2>17. Cardinality(PlacesOf(P \cup {s}, new)) = k + v
    <3>1. new[s] \in Nat
      BY <2>8
    <3>2. Cardinality(PlacesOf(P \cup {s}, new)) = Cardinality(PlacesOf(P, old)) + new[s]
      BY <2>9, <2>10, <2>11, <3>1, CountGrows
    <3> QED BY <2>8, <2>14, <3>2
  <2>18. Cardinality(PlacesOf(P \cup {s}, Goal)) = g + u
    <3>1. Cardinality(PlacesOf(P \cup {s}, Goal)) = Cardinality(PlacesOf(P, Goal)) + Goal[s]
      BY <2>10, <2>12, GoalsGrow
    <3> QED BY <2>3, <2>15, <3>1
  <2>19. after + (k + v) = g + u
    BY <2>13, <2>16
  <2> QED BY <2>5, <2>7, <2>17, <2>18, <2>19
<1>16. ASSUME NEW q \in P \cup {s} PROVE Drained(x, q, world, c)
  <2>1. CASE q = s
    <3>1. x.stats[s].accepted = Len(x.by[s])
      BY <1>9, <1>10
    <3>2. s # world.fill => Len(x.by[s]) <= Goal[s]
      BY <1>2, <1>8, <1>10
    <3>3. \A r \in Range(x.by[s]) : Composition!Stage(r, c) = "none"
      BY <1>8, <1>10
    <3>4. ASSUME ~x.failed, Len(x.by[s]) < Goal[s], NEW r \in YieldOf(world, s),
                 Composition!Stage(r, c) = "none"
          PROVE  Content(r) \in x.contents
      <4>1. PICK row \in Range(RowsOf(world, s)) :
              row.python /\ r = Composition!Record(world.of[s], row)
        BY <3>4 DEF YieldOf
      <4>2. PICK i \in 1 .. m : row = RowsOf(world, s)[i]
        BY <4>1 DEF Range
      <4>3. Takeable(world, s, c, i)
        BY <3>4, <4>1, <4>2 DEF Takeable
      <4>4. Content(r) = ContentOf(world, s, i)
        BY <4>1, <4>2 DEF ContentOf
      <4>5. ~e.failed /\ Len(e.taken) < req
        BY <1>2, <1>8, <1>9, <1>10, <3>4
      <4> QED BY <1>8, <1>9, <4>3, <4>4, <4>5
    <3> QED BY <2>1, <3>1, <3>2, <3>3, <3>4 DEF Drained
  <2>2. CASE q # s
    <3>1. /\ q \in P /\ x.by[q] = b.by[q] /\ x.stats[q] = b.stats[q] /\ Drained(b, q, world, c)
          /\ b.contents \subseteq x.contents
      BY <1>1, <1>8, <1>9, <1>10, <2>2
    <3> QED BY <1>8, <1>9, <3>1 DEF Drained
  <2> QED BY <2>1, <2>2
<1> QED BY <1>9, <1>10, <1>11, <1>12, <1>13, <1>14, <1>15, <1>16 DEF Composed

\* What the loop over sources has after each of them.
Builds(f, m, order, c) ==
    /\ f = [n \in 0 .. m |-> f[n]] /\ f[0] = Composition!Empty
    /\ \A n \in 1 .. m : f[n] = Composition!Compose(f[n - 1], order[n], c)

\* The recursive function of the loop over the sources has a value at each of them.
LEMMA BuildsExist ==
  ASSUME NEW m \in Nat, NEW order, NEW c
  PROVE  \E f : Builds(f, m, order, c)
<1> DEFINE Def(f, n) == Builds(f, n, order, c)
           Next1(v, n) == Composition!Compose(v, order[n], c)
           T == {n \in 0 .. m : \E f : Def(f, n)}
<1>1. 0 \in T
  <2> DEFINE g == [i \in 0 .. 0 |-> Composition!Empty]
  <2>1. g = [i \in 0 .. 0 |-> g[i]] /\ g[0] = Composition!Empty /\ 1 .. 0 = {}
    OBVIOUS
  <2> HIDE DEF g
  <2>2. Def(g, 0)
    BY <2>1 DEF Builds
  <2> HIDE DEF Def
  <2> QED BY <2>2
<1>2. ASSUME NEW n \in 1 .. m, n - 1 \in T PROVE n \in T
  <2>0. PICK f : Def(f, n - 1)
    BY <1>2
  <2> HIDE DEF Next1
  <2>1. /\ f[0] = Composition!Empty
        /\ \A i \in 1 .. n - 1 : f[i] = Next1(f[i - 1], i)
    BY <2>0 DEF Builds, Next1
  <2> DEFINE g == [i \in 0 .. n |-> IF i = n THEN Next1(f[n - 1], n) ELSE f[i]]
  <2>3. g = [i \in 0 .. n |-> g[i]] /\ g[0] = Composition!Empty
    BY <2>1
  <2>4. ASSUME NEW i \in 1 .. n PROVE g[i] = Next1(g[i - 1], i)
    <3>1. g[i - 1] = f[i - 1]
      OBVIOUS
    <3>2. i = n => g[i] = Next1(f[i - 1], i)
      OBVIOUS
    <3>3. i # n => i \in 1 .. n - 1 /\ g[i] = f[i] /\ f[i] = Next1(f[i - 1], i)
      BY <2>1
    <3> HIDE DEF g
    <3> QED BY <3>1, <3>2, <3>3
  <2> HIDE DEF g
  <2>5. Def(g, n)
    BY <2>3, <2>4 DEF Builds, Next1
  <2> HIDE DEF Def
  <2>6. n \in 0 .. m
    OBVIOUS
  <2> QED BY <2>5, <2>6
<1>3. 0 .. m \subseteq T
  <2> HIDE DEF T
  <2> QED BY <1>1, <1>2, UpToInd
<1>4. m \in T
  <2> HIDE DEF T
  <2> QED BY <1>3
<1>5. PICK f : Def(f, m)
  BY <1>4
<1> QED BY <1>5

\* The build of a composition is the end of that loop.
LEMMA BuildLoops ==
  ASSUME NEW c, Len(Composition!ProcessingOrder) \in Nat
  PROVE  \E f : /\ Builds(f, Len(Composition!ProcessingOrder), Composition!ProcessingOrder, c)
                /\ Composition!Build(c) = f[Len(Composition!ProcessingOrder)]
<1> DEFINE order == Composition!ProcessingOrder
           L == Len(order)
           Turn(f, n) == IF n = 0 THEN Composition!Empty
                         ELSE Composition!Compose(f[n - 1], order[n], c)
           F == CHOOSE f : f = [n \in 0 .. L |-> Turn(f, n)]
<1>1. Composition!Build(c) = F[L]
  BY DEF Composition!Build
<1>2. PICK g : Builds(g, L, order, c)
  BY BuildsExist
<1>3. g = [n \in 0 .. L |-> Turn(g, n)]
  <2>1. g = [n \in 0 .. L |-> g[n]] /\ g[0] = Composition!Empty
        /\ \A n \in 1 .. L : g[n] = Composition!Compose(g[n - 1], order[n], c)
    BY <1>2 DEF Builds
  <2>2. ASSUME NEW n \in 0 .. L PROVE g[n] = Turn(g, n)
    <3>1. CASE n = 0
      BY <2>1, <3>1
    <3>2. CASE n # 0
      <4>1. n \in 1 .. L
        BY <3>2
      <4> QED BY <2>1, <3>2, <4>1
    <3> QED BY <3>1, <3>2
  <2> HIDE DEF Turn, L
  <2> QED BY <2>1, <2>2
<1>4. F = [n \in 0 .. L |-> Turn(F, n)]
  <2> HIDE DEF Turn, L
  <2> QED BY <1>3
<1> HIDE DEF F
<1>5. F = [n \in 0 .. L |-> F[n]] /\ \A n \in 0 .. L : F[n] = Turn(F, n)
  <2> HIDE DEF Turn, L
  <2> QED BY <1>4
<1>6. Builds(F, L, order, c)
  <2>1. F[0] = Composition!Empty
    <3>1. 0 \in 0 .. L
      OBVIOUS
    <3> QED BY <1>5, <3>1
  <2>2. ASSUME NEW n \in 1 .. L
        PROVE  F[n] = Composition!Compose(F[n - 1], order[n], c)
    <3>1. n \in 0 .. L /\ n # 0
      OBVIOUS
    <3> QED BY <1>5, <3>1
  <2> HIDE DEF L, order
  <2> QED BY <1>5, <2>1, <2>2 DEF Builds
<1> QED BY <1>1, <1>6

----------------------------------------------------------------------------
(* The operators of the shared pipeline, as the composition instantiates   *)
(* them, are those of this module.                                         *)

\* The composition's own operators are those that the lemmas are about.
LEMMA SameRange ==
  ASSUME NEW f
  PROVE  Composition!Range(f) = Range(f)
BY DEF Composition!Range, Range

LEMMA SameOnly ==
  ASSUME NEW sq, NEW S
  PROVE  Composition!Pipeline!Only(sq, S) = Only(sq, S)
BY DEF Composition!Pipeline!Only, Only

LEMMA SameFlatten ==
  ASSUME NEW sq
  PROVE  Composition!FlattenSeq(sq) = FlattenSeq(sq)
BY DEF Composition!FlattenSeq, FlattenSeq

\* The order of processing has every source, once.
LEMMA OrderProperties ==
  /\ Composition!ProcessingOrder \in Seq(Range(Sources))
  /\ Range(Composition!ProcessingOrder) = Range(Sources)
  /\ IsInjective(Composition!ProcessingOrder)
<1> DEFINE others == Only(Sources, Range(Sources) \ {world.fill})
           last == Only(Sources, {world.fill})
<1>1. Composition!ProcessingOrder = others \o last
  BY SameOnly, SameRange DEF Composition!ProcessingOrder, Composition!Configured
<1>2. Sources \in Seq(Range(Sources)) /\ IsInjective(Sources)
  BY CompositionAssumption
<1>3. /\ others \in Seq(Range(Sources)) /\ Range(others) = Range(Sources) \cap (Range(Sources) \ {world.fill})
      /\ IsInjective(others)
  BY <1>2, OnlyProperties
<1>4. /\ last \in Seq(Range(Sources)) /\ Range(last) = Range(Sources) \cap {world.fill}
      /\ IsInjective(last)
  BY <1>2, OnlyProperties
<1> HIDE DEF others, last
<1>5. Range(others) \cap Range(last) = {} /\ Range(others) \cup Range(last) = Range(Sources)
  BY <1>3, <1>4
<1>6. /\ others \o last \in Seq(Range(Sources)) /\ Range(others \o last) = Range(others) \cup Range(last)
      /\ IsInjective(others \o last)
  BY <1>3, <1>4, <1>5, ConcatRange
<1> QED BY <1>1, <1>5, <1>6

\* Before the first source there is nothing.
LEMMA NothingComposed ==
  ASSUME NEW w, NEW c
  PROVE  Composed(Composition!Empty, {}, w, c)
<1> DEFINE b == Composition!Empty
<1>1. /\ DOMAIN b = Fields /\ b.contents = {} /\ b.seen = {} /\ b.shortfall = 0
      /\ DOMAIN b.by = Range(Sources) /\ DOMAIN b.stats = Range(Sources)
      /\ \A s \in Range(Sources) : b.by[s] = <<>>
  BY SameRange DEF Composition!Empty, Composition!Configured, Fields
<1> HIDE DEF b
<1>2. \A s \in Range(Sources) : b.by[s] \in Seq(RecordsOf(w))
  <2>1. <<>> \in Seq(RecordsOf(w))
    OBVIOUS
  <2> QED BY <1>1, <2>1
<1>3. Cardinality(PlacesOf({}, Lengths(b))) = 0 /\ Cardinality(PlacesOf({}, Goal)) = 0
  BY NoPlaces
<1>4. b.shortfall + Cardinality(PlacesOf({}, Lengths(b))) = Cardinality(PlacesOf({}, Goal))
  BY <1>1, <1>3
<1>5. Composed(b, {}, w, c)
  BY <1>1, <1>2, <1>4 DEF Composed
<1> QED BY <1>5 DEF b

\* There are finitely many sources.
LEMMA SourcesFinite == IsFiniteSet(Range(Sources))
<1>1. Sources \in Seq(Range(Sources))
  BY CompositionAssumption
<1> QED BY <1>1, InjectiveLength

\* A build that did not fail has drained every source.
LEMMA BuildComposes ==
  ASSUME world \in Worlds, NEW c
  PROVE  Composed(Composition!Build(c), Range(Sources), world, c)
<1> DEFINE order == Composition!ProcessingOrder
           m == Len(order)
           Seen(n) == {order[i] : i \in 1 .. n}
<1>1. /\ order \in Seq(Range(Sources)) /\ Range(order) = Range(Sources) /\ IsInjective(order)
  BY OrderProperties
<1> HIDE DEF order
<1>2. m \in Nat /\ DOMAIN order = 1 .. m
  BY <1>1
<1>3. PICK f : Builds(f, m, order, c) /\ Composition!Build(c) = f[m]
  BY <1>2, BuildLoops DEF order
<1> HIDE DEF m
<1>4. f[0] = Composition!Empty /\ \A n \in 1 .. m : f[n] = Composition!Compose(f[n - 1], order[n], c)
  BY <1>3 DEF Builds
<1> DEFINE T == {n \in 0 .. m : Composed(f[n], Seen(n), world, c)}
<1>5. 0 \in T
  <2>1. Seen(0) = {}
    OBVIOUS
  <2>2. Composed(f[0], {}, world, c)
    BY <1>4, NothingComposed
  <2> QED BY <1>2, <2>1, <2>2
<1>6. ASSUME NEW n \in 1 .. m, n - 1 \in T PROVE n \in T
  <2>1. PICK P : P = Seen(n - 1)
    OBVIOUS
  <2>2. PICK s : s = order[n]
    OBVIOUS
  <2>3. s \in Range(Sources) /\ P \in SUBSET Range(Sources)
    <3>1. \A i \in 1 .. m : order[i] \in Range(Sources)
      BY <1>1, <1>2
    <3>2. \A i \in 1 .. n - 1 : i \in 1 .. m
      BY <1>2
    <3> QED BY <2>1, <2>2, <3>1, <3>2
  <2>4. s \notin P
    <3> SUFFICES ASSUME NEW i \in 1 .. n - 1, order[i] = order[n] PROVE FALSE
      BY <2>1, <2>2
    <3>1. i \in DOMAIN order /\ n \in DOMAIN order /\ i # n
      BY <1>2
    <3> QED BY <1>1, <3>1 DEF IsInjective
  <2>5. Seen(n) = P \cup {s}
    <3>1. 1 .. n = (1 .. n - 1) \cup {n}
      BY <1>2
    <3> QED BY <2>1, <2>2, <3>1
  <2>6. IsFiniteSet(P)
    BY <2>3, SourcesFinite, FS_Subset
  <2>7. RowsOf(world, s) \in Seq(P0Rows) /\ Goal[s] \in Nat /\ \A q \in Range(Sources) : Goal[q] \in Nat
    BY <2>3, CompositionAssumption DEF RowsOf
  <2>8. Composed(f[n - 1], P, world, c)
    BY <1>6, <2>1
  <2>9. f[n] = Composition!Compose(f[n - 1], s, c)
    BY <1>4, <2>2
  <2>10. s \in Range(Sources) \ P
    BY <2>3, <2>4
  <2> HIDE DEF T, Seen
  <2>11. Composed(f[n], P \cup {s}, world, c)
    BY <2>3, <2>10, <2>6, <2>7, <2>8, <2>9, ComposeStep
  <2>12. Composed(f[n], Seen(n), world, c)
    BY <2>5, <2>11
  <2>13. n \in 0 .. m
    BY <1>2
  <2> QED BY <2>12, <2>13 DEF T
<1>7. m \in T
  <2> HIDE DEF T
  <2>1. 0 .. m \subseteq T
    BY <1>2, <1>5, <1>6, UpToInd
  <2> QED BY <1>2, <2>1
<1>8. Seen(m) = Range(Sources)
  BY <1>1, <1>2 DEF Range
<1> QED BY <1>3, <1>7, <1>8

----------------------------------------------------------------------------
(* What a build leaves in memory *)

\* Of the records of the corpus each passed the validators of c; and each source gave what
\* it was asked for, or all that it has.
Chosen(w, recs, given, c) ==
    /\ \A r \in Range(recs) : Composition!Stage(r, c) = "none"
    /\ \A s \in Range(Sources) :
         /\ s # w.fill => given[s] <= Goal[s]
         /\ given[s] < Goal[s] =>
              \A r \in YieldOf(w, s) : Composition!Stage(r, c) = "none" => Content(r) \in ContentsIn(recs)

SoundResult(w, res) ==
    /\ res.accepted \in Seq(RecordsOf(w))
    /\ Cardinality(Range(res.accepted)) <= Composition!Total
    /\ \E c \in Commits :
         Chosen(w, res.accepted, [s \in Range(Sources) |-> res.stats[s].accepted], c)

\* The size that the configuration asks for is the number of places of the sources.
LEMMA TotalIsPlaces ==
  Composition!Total = Cardinality(PlacesOf(Range(Sources), Goal))
<1>1. \A s \in Range(Sources) : Goal[s] \in Nat
  BY CompositionAssumption
<1>2. Composition!Sum(Goal, Range(Sources)) = Cardinality(PlacesOf(Range(Sources), Goal))
  BY <1>1, SourcesFinite, GoalsAddUp
<1> QED BY <1>2, SameRange DEF Composition!Total, Composition!Configured

\* A build that did not fail is a sound result of the streams of the checkout.
LEMMA ResultIsSound ==
  ASSUME world \in Worlds, NEW c \in Commits, ~Composition!Build(c).failed
  PROVE  SoundResult(world, Composition!Result(c))
<1> DEFINE b == Composition!Build(c)
           seqs == [n \in DOMAIN Sources |-> b.by[Sources[n]]]
           acc == FlattenSeq(seqs)
           stats == b.stats
<1>1. Composed(b, Range(Sources), world, c)
  BY BuildComposes
<1>2. /\ \A s \in Range(Sources) : b.by[s] \in Seq(RecordsOf(world))
      /\ b.contents = UNION {ContentsIn(b.by[s]) : s \in Range(Sources)}
      /\ b.shortfall \in Nat
      /\ b.shortfall + Cardinality(PlacesOf(Range(Sources), Lengths(b))) =
           Cardinality(PlacesOf(Range(Sources), Goal))
      /\ \A s \in Range(Sources) : Drained(b, s, world, c)
  BY <1>1 DEF Composed
<1>3. Composition!Result(c).accepted = acc /\ Composition!Result(c).stats = stats
  BY SameFlatten DEF Composition!Result
<1>4. ~b.failed
  OBVIOUS
<1> HIDE DEF b
<1>5. /\ Sources \in Seq(Range(Sources)) /\ DOMAIN Sources = 1 .. Len(Sources) /\ Len(Sources) \in Nat
      /\ \A n \in 1 .. Len(Sources) : Sources[n] \in Range(Sources)
      /\ \A s \in Range(Sources) : \E n \in 1 .. Len(Sources) : Sources[n] = s
  BY CompositionAssumption DEF Range
<1>6. /\ seqs \in Seq(Seq(RecordsOf(world))) /\ Len(seqs) = Len(Sources)
      /\ \A n \in 1 .. Len(Sources) : seqs[n] = b.by[Sources[n]]
  <2>1. \A n \in 1 .. Len(Sources) : b.by[Sources[n]] \in Seq(RecordsOf(world))
    BY <1>2, <1>5
  <2> QED BY <1>5, <2>1
<1> HIDE DEF seqs
<1>7. /\ acc \in Seq(RecordsOf(world))
      /\ Range(acc) = UNION {Range(seqs[n]) : n \in 1 .. Len(seqs)}
  BY <1>6, FlattenProperties
<1> HIDE DEF acc
<1>8. /\ \A r \in Range(acc) : \E s \in Range(Sources) : r \in Range(b.by[s])
      /\ \A s \in Range(Sources) : Range(b.by[s]) \subseteq Range(acc)
  <2>1. ASSUME NEW r \in Range(acc) PROVE \E s \in Range(Sources) : r \in Range(b.by[s])
    <3>1. PICK n \in 1 .. Len(seqs) : r \in Range(seqs[n])
      BY <1>7
    <3> QED BY <1>5, <1>6, <3>1
  <2>2. ASSUME NEW s \in Range(Sources), NEW r \in Range(b.by[s]) PROVE r \in Range(acc)
    <3>1. PICK n \in 1 .. Len(Sources) : Sources[n] = s
      BY <1>5
    <3>2. r \in Range(seqs[n]) /\ n \in 1 .. Len(seqs)
      BY <1>6, <3>1
    <3> QED BY <1>7, <3>2
  <2> QED BY <2>1, <2>2
<1>9. b.contents \subseteq ContentsIn(acc)
  <2> SUFFICES ASSUME NEW z \in b.contents PROVE z \in ContentsIn(acc)
    OBVIOUS
  <2>1. PICK s \in Range(Sources) : z \in ContentsIn(b.by[s])
    BY <1>2
  <2>2. PICK r \in Range(b.by[s]) : z = Content(r)
    BY <2>1 DEF ContentsIn
  <2> QED BY <1>8, <2>2 DEF ContentsIn
<1>10. Cardinality(Range(acc)) <= Composition!Total
  <2> DEFINE L == PlacesOf(Range(Sources), Lengths(b))
             map == [p \in L |-> b.by[p[1]][p[2]]]
  <2>1. IsFiniteSet(L) /\ IsFiniteSet(PlacesOf(Range(Sources), Goal))
    <3>1. \A s \in Range(Sources) : Lengths(b)[s] \in Nat
      BY <1>2 DEF Lengths
    <3>2. \A s \in Range(Sources) : Goal[s] \in Nat
      BY CompositionAssumption
    <3> QED BY <3>1, <3>2, SourcesFinite, PlacesFinite
  <2>2. ASSUME NEW p \in L PROVE map[p] \in Range(acc)
    <3>1. PICK s \in Range(Sources), i \in Nat \ {0} : p = <<s, i>> /\ p[1] = s /\ p[2] = i /\ i <= Lengths(b)[s]
      BY DEF PlacesOf
    <3>2. Lengths(b)[s] = Len(b.by[s]) /\ b.by[s] \in Seq(RecordsOf(world))
      BY <1>2 DEF Lengths
    <3>3. i \in DOMAIN b.by[s]
      BY <3>1, <3>2
    <3>4. map[p] = b.by[s][i]
      BY <3>1
    <3>5. b.by[s][i] \in Range(b.by[s])
      BY <3>3 DEF Range
    <3> QED BY <1>8, <3>4, <3>5
  <2>3. ASSUME NEW r \in Range(acc) PROVE \E p \in L : map[p] = r
    <3>1. PICK s \in Range(Sources) : r \in Range(b.by[s])
      BY <1>8
    <3>2. PICK i \in DOMAIN b.by[s] : b.by[s][i] = r
      BY <3>1 DEF Range
    <3>3. Lengths(b)[s] = Len(b.by[s]) /\ b.by[s] \in Seq(RecordsOf(world))
      BY <1>2 DEF Lengths
    <3>4. <<s, i>> \in L
      BY <3>2, <3>3 DEF PlacesOf
    <3>5. map[<<s, i>>] = r
      BY <3>2, <3>4
    <3> QED BY <3>4, <3>5
  <2>4. map \in Surjection(L, Range(acc))
    <3>1. map \in [L -> Range(acc)]
      BY <2>2
    <3> HIDE DEF map, L
    <3> QED BY <2>3, <3>1 DEF Surjection
  <2> HIDE DEF map, L
  <2>5. IsFiniteSet(Range(acc)) /\ Cardinality(Range(acc)) <= Cardinality(L)
    BY <2>1, <2>4, FS_Surjection
  <2>6. Cardinality(L) \in Nat /\ Cardinality(Range(acc)) \in Nat
        /\ Cardinality(PlacesOf(Range(Sources), Goal)) \in Nat
    BY <2>1, <2>5, FS_CardinalityType
  <2>7. Cardinality(L) <= Cardinality(PlacesOf(Range(Sources), Goal))
    BY <1>2, <2>6 DEF L
  <2> QED BY <2>5, <2>6, <2>7, TotalIsPlaces
<1>11. Chosen(world, acc, [s \in Range(Sources) |-> stats[s].accepted], c)
  <2> DEFINE given == [s \in Range(Sources) |-> stats[s].accepted]
  <2>1. ASSUME NEW r \in Range(acc) PROVE Composition!Stage(r, c) = "none"
    <3>1. PICK s \in Range(Sources) : r \in Range(b.by[s])
      BY <1>8
    <3>2. Drained(b, s, world, c)
      BY <1>2
    <3> QED BY <3>1, <3>2 DEF Drained
  <2>2. ASSUME NEW s \in Range(Sources)
        PROVE  /\ s # world.fill => given[s] <= Goal[s]
               /\ given[s] < Goal[s] =>
                    \A r \in YieldOf(world, s) :
                      Composition!Stage(r, c) = "none" => Content(r) \in ContentsIn(acc)
    <3>1. Drained(b, s, world, c)
      BY <1>2
    <3>2. given[s] = stats[s].accepted
      OBVIOUS
    <3> HIDE DEF given
    <3> QED BY <1>4, <1>9, <3>1, <3>2 DEF Drained
  <2> HIDE DEF given
  <2>3. Chosen(world, acc, given, c)
    BY <2>1, <2>2 DEF Chosen
  <2> QED BY <2>3 DEF given
<1> QED BY <1>3, <1>7, <1>10, <1>11 DEF SoundResult

LEMMA SameUnique ==
  ASSUME NEW recs
  PROVE  Composition!Pipeline!Unique(recs) = Unique(recs)
BY SameOnly DEF Composition!Pipeline!Unique, Unique, Composition!Pipeline!Repeats, Repeats,
                Composition!Pipeline!Content, Content

LEMMA SameGroups ==
  ASSUME NEW sizes, NEW n
  PROVE  Composition!Pipeline!ValidationGroups(sizes, n) = ValidationGroups(sizes, n)
BY DEF Composition!Pipeline!ValidationGroups, ValidationGroups, Composition!Pipeline!Less, Less

LEMMA SameLinked ==
  ASSUME NEW recs
  PROVE  Composition!Pipeline!Linked(recs) = Linked(recs)
BY DEF Composition!Pipeline!Linked, Linked

LEMMA SameCardinality ==
  ASSUME NEW S
  PROVE  Composition!Cardinality(S) = Cardinality(S)
BY DEF Composition!Cardinality, Cardinality

LEMMA SameGroup ==
  ASSUME NEW recs, NEW p
  PROVE  Composition!Pipeline!Group(recs, p) = Group(recs, p)
BY SameOnly DEF Composition!Pipeline!Group, Group, Composition!Pipeline!Range, Range

LEMMA SameParts ==
  ASSUME NEW sq
  PROVE  Composition!Pipeline!FlattenSeq(sq) = FlattenSeq(sq)
BY DEF Composition!Pipeline!FlattenSeq, FlattenSeq

P0Target(n) == Max({1, Min({n - 1, Round(n * P0Num, P0Den)})})

LEMMA SameTarget ==
  ASSUME NEW n
  PROVE  Composition!Pipeline!Target(n) = P0Target(n)
BY DEF Composition!Pipeline!Target, P0Target, Composition!Pipeline!Max, Max, Composition!Pipeline!Min, Min, Composition!Pipeline!Round, Round

LEMMA SameSplit ==
  ASSUME NEW recs
  PROVE  Composition!Pipeline!Split(recs, "p0") =
           SplitIn(recs, P0Order[Linked(recs)], P0Target(Len(recs)))
<1> DEFINE order == P0Order[Linked(recs)]
           groups == [n \in DOMAIN order |-> Group(recs, order[n])]
           groups0 == [n \in DOMAIN order |-> Composition!Pipeline!Group(recs, order[n])]
           sizes == [n \in DOMAIN groups |-> Len(groups[n])]
           count == ValidationGroups(sizes, P0Target(Len(recs)))
           count0 == Composition!Pipeline!ValidationGroups(
                       [n \in DOMAIN groups0 |-> Len(groups0[n])],
                       Composition!Pipeline!Target(Len(recs)))
<1>1. Composition!Pipeline!Split(recs, "p0") =
        [train |-> Composition!Pipeline!FlattenSeq(SubSeq(groups0, count0 + 1, Len(groups0))),
         validation |-> Composition!Pipeline!FlattenSeq(SubSeq(groups0, 1, count0))]
  BY SameLinked DEF Composition!Pipeline!Split
<1>2. groups0 = groups
  BY SameGroup
<1>3. count0 = count
  <2>1. [n \in DOMAIN groups0 |-> Len(groups0[n])] = sizes
    BY <1>2
  <2> HIDE DEF groups0, sizes
  <2> QED BY <2>1, SameTarget, SameGroups
<1>4. SplitIn(recs, order, P0Target(Len(recs))) =
        [train |-> FlattenSeq(SubSeq(groups, count + 1, Len(groups))),
         validation |-> FlattenSeq(SubSeq(groups, 1, count))]
  BY DEF SplitIn
<1> HIDE DEF groups0, groups, count, count0
<1> QED BY <1>1, <1>2, <1>3, <1>4, SameParts

----------------------------------------------------------------------------
(* What a freeze describes *)

\* The records of a source.
GivenIn(w, recs, s) == Len(Only(recs, {r \in Range(recs) : r.source = w.of[s]}))

SoundComposition(w, m) ==
    /\ m.accepted \in Seq(RecordsOf(w))
    /\ Separates(RecordsOf(w), m.train, m.validation, m.accepted)
    /\ \A i, j \in DOMAIN m.accepted : Content(m.accepted[i]) = Content(m.accepted[j]) => i = j
    /\ Len(m.accepted) = Composition!Total
    /\ \E c \in Commits :
         Chosen(w, m.accepted, [s \in Range(Sources) |-> GivenIn(w, m.accepted, s)], c)

LEMMA SameGiven ==
  ASSUME NEW recs, NEW s
  PROVE  Len(Composition!From(recs, s)) = GivenIn(world, recs, s)
BY SameOnly, SameRange DEF Composition!From, GivenIn

\* A corpus with no shortfall has as many records as are asked for.
LEMMA NoShortfall ==
  ASSUME NEW a \in Nat, NEW n \in Nat, Composition!Max({0, a - n}) = 0
  PROVE  a <= n
<1>1. \E z \in {0, a - n} : \A y \in {0, a - n} : z >= y
  <2>1. CASE a - n >= 0
    BY <2>1
  <2>2. CASE a - n < 0
    BY <2>2
  <2> QED BY <2>1, <2>2
<1>2. \A y \in {0, a - n} : Composition!Max({0, a - n}) >= y
  BY <1>1 DEF Composition!Max
<1>3. 0 >= a - n
  BY <1>2
<1> QED BY <1>3

\* The size of the composition is a number.
LEMMA TotalIsNat == Composition!Total \in Nat
<1>1. \A s \in Range(Sources) : Goal[s] \in Nat
  BY CompositionAssumption
<1>2. IsFiniteSet(PlacesOf(Range(Sources), Goal))
  BY <1>1, SourcesFinite, PlacesFinite
<1> QED BY <1>2, TotalIsPlaces, FS_CardinalityType

\* A freeze describes a sound composition.
LEMMA FrozenIsSound ==
  ASSUME world \in Worlds, NEW res, SoundResult(world, res), Composition!Freezable(res)
  PROVE  SoundComposition(world, Composition!Manifest(res))
<1> DEFINE acc == res.accepted
           T == RecordsOf(world)
           order == P0Order[Linked(acc)]
           target == P0Target(Len(acc))
           split == SplitIn(acc, order, target)
           m == Composition!Manifest(res)
<1>1. /\ m.accepted = acc /\ m.train = split.train /\ m.validation = split.validation
  BY SameSplit DEF Composition!Manifest
<1>2. /\ acc \in Seq(T) /\ Cardinality(Range(acc)) <= Composition!Total
      /\ \E c \in Commits : Chosen(world, acc, [s \in Range(Sources) |-> res.stats[s].accepted], c)
  BY DEF SoundResult
<1>3. /\ Composition!Max({0, Composition!Total - Len(acc)}) = 0
      /\ Unique(acc) = acc
      /\ \A s \in Range(Sources) : GivenIn(world, acc, s) = res.stats[s].accepted
      /\ Cardinality(Linked(acc)) >= 2
  BY SameUnique, SameGiven, SameRange, SameLinked, SameCardinality
  DEF Composition!Freezable, Composition!Shortfall, Composition!Configured
<1> HIDE DEF acc, m, T
<1>4. \A i, j \in DOMAIN acc : Content(acc[i]) = Content(acc[j]) => i = j
  <2>1. \A i, j \in DOMAIN Unique(acc) : Content(Unique(acc)[i]) = Content(Unique(acc)[j]) => i = j
    BY <1>2, UniqueProperties
  <2> QED BY <1>3, <2>1
<1>5. IsInjective(acc)
  BY <1>4 DEF IsInjective
<1>6. Len(acc) = Composition!Total
  <2>1. Cardinality(Range(acc)) = Len(acc)
    BY <1>2, <1>5, InjectiveLength
  <2>2. Len(acc) \in Nat
    BY <1>2
  <2>3. Composition!Total <= Len(acc)
    BY <1>3, <2>2, TotalIsNat, NoShortfall
  <2> QED BY <1>2, <2>1, <2>2, <2>3, TotalIsNat
<1>7. Separates(T, split.train, split.validation, acc)
  <2>1. Linked(acc) \in SUBSET P0Prompts /\ IsFiniteSet(Linked(acc))
    <3>1. \A r \in T : r.prompt \in P0Prompts
      BY DEF T, RecordsOf, P0Rows, Composition!Record
    <3>2. \A i \in DOMAIN acc : acc[i].prompt \in P0Prompts
      BY <1>2, <3>1
    <3>3. IsFiniteSet(Linked(acc))
      BY <1>2, LinkedFinite
    <3> QED BY <3>2, <3>3 DEF Linked
  <2>2. IsPermutation(order, Linked(acc))
    BY <2>1, CompositionAssumption
  <2>3. target \in Int
    <3>1. Len(acc) \in Nat /\ P0Num \in Nat /\ P0Den \in Nat /\ 0 < P0Den
      BY <1>2, CompositionAssumption
    <3> QED BY <3>1, TargetType DEF P0Target
  <2> HIDE DEF order, target
  <2> QED BY <1>2, <1>3, <1>5, <2>2, <2>3, SplitProperties
<1>8. \E c \in Commits : Chosen(world, acc, [s \in Range(Sources) |-> GivenIn(world, acc, s)], c)
  <2>1. [s \in Range(Sources) |-> GivenIn(world, acc, s)] =
          [s \in Range(Sources) |-> res.stats[s].accepted]
    BY <1>3
  <2> QED BY <1>2, <2>1
<1>9. Separates(RecordsOf(world), m.train, m.validation, m.accepted)
  <2> HIDE DEF split
  <2> QED BY <1>1, <1>7 DEF T
<1>10. m.accepted \in Seq(RecordsOf(world))
  BY <1>1, <1>2 DEF T
<1>11. SoundComposition(world, m)
  <2>1. m.accepted = acc
    BY <1>1
  <2> HIDE DEF split
  <2> QED BY <1>4, <1>6, <1>8, <1>9, <1>10, <2>1 DEF SoundComposition
<1> QED BY <1>11 DEF m

----------------------------------------------------------------------------
(* What a training reads *)

\* The contents of records, in their order, are a sequence over the contents of the rows.
LEMMA ContentsOfRecords ==
  ASSUME NEW T, NEW recs \in Seq(T)
  PROVE  LET cs == [i \in DOMAIN recs |-> Content(recs[i])]
         IN  /\ cs \in Seq({Content(r) : r \in T}) /\ Len(cs) = Len(recs)
             /\ Range(cs) = ContentsIn(recs)
<1> DEFINE cs == [i \in DOMAIN recs |-> Content(recs[i])]
<1>1. DOMAIN recs = 1 .. Len(recs) /\ Len(recs) \in Nat /\ \A i \in 1 .. Len(recs) : recs[i] \in T
  OBVIOUS
<1>2. cs \in Seq({Content(r) : r \in T}) /\ Len(cs) = Len(recs)
  BY <1>1
<1>3. Range(cs) = ContentsIn(recs)
  <2>1. ASSUME NEW z \in Range(cs) PROVE z \in ContentsIn(recs)
    <3>1. PICK i \in DOMAIN recs : z = Content(recs[i])
      BY DEF Range
    <3> QED BY <3>1 DEF ContentsIn, Range
  <2>2. ASSUME NEW z \in ContentsIn(recs) PROVE z \in Range(cs)
    <3>1. PICK r \in Range(recs) : z = Content(r)
      BY DEF ContentsIn
    <3>2. PICK i \in DOMAIN recs : r = recs[i]
      BY <3>1 DEF Range
    <3> QED BY <3>1, <3>2 DEF Range
  <2> QED BY <2>1, <2>2
<1> QED BY <1>2, <1>3

\* Files of the same contents as the splits of a sound composition.
LEMMA FilesOfSplits ==
  ASSUME NEW T, NEW recs \in Seq(T), NEW U, NEW file \in Seq(U),
         [i \in DOMAIN file |-> Content(file[i])] = [i \in DOMAIN recs |-> Content(recs[i])]
  PROVE  /\ Len(file) = Len(recs) /\ ContentsIn(file) = ContentsIn(recs)
         /\ \A r \in Range(file) : \E q \in Range(recs) : Content(r) = Content(q)
<1>1. Len(file) = Len(recs) /\ ContentsIn(file) = ContentsIn(recs)
  <2>1. Len([i \in DOMAIN file |-> Content(file[i])]) = Len(file)
        /\ Range([i \in DOMAIN file |-> Content(file[i])]) = ContentsIn(file)
    BY ContentsOfRecords
  <2>2. Len([i \in DOMAIN recs |-> Content(recs[i])]) = Len(recs)
        /\ Range([i \in DOMAIN recs |-> Content(recs[i])]) = ContentsIn(recs)
    BY ContentsOfRecords
  <2> QED BY <2>1, <2>2
<1>2. ASSUME NEW r \in Range(file) PROVE \E q \in Range(recs) : Content(r) = Content(q)
  <2>1. Content(r) \in ContentsIn(recs)
    BY <1>1 DEF ContentsIn
  <2> QED BY <2>1 DEF ContentsIn
<1> QED BY <1>1, <1>2

\* The splits of a sound composition hold it whole.
LEMMA SplitsAreWhole ==
  ASSUME NEW w, NEW m, SoundComposition(w, m)
  PROVE  /\ Len(m.train) + Len(m.validation) = Composition!Total
         /\ ContentsIn(m.train) \cup ContentsIn(m.validation) = ContentsIn(m.accepted)
         /\ Cardinality(ContentsIn(m.accepted)) = Composition!Total
         /\ Len(m.train) > 0 /\ Len(m.validation) > 0
<1> DEFINE T == RecordsOf(w)
           acc == m.accepted
           cs == [i \in DOMAIN acc |-> Content(acc[i])]
<1>1. /\ acc \in Seq(T) /\ Len(acc) = Composition!Total
      /\ \A i, j \in DOMAIN acc : Content(acc[i]) = Content(acc[j]) => i = j
  BY DEF SoundComposition
<1>2. /\ m.train \in Seq(T) /\ IsInjective(m.train) /\ Range(m.train) # {}
      /\ m.validation \in Seq(T) /\ IsInjective(m.validation) /\ Range(m.validation) # {}
      /\ Range(m.train) \cup Range(m.validation) = Range(acc)
      /\ \A r \in Range(m.train), q \in Range(m.validation) : r.prompt # q.prompt
  BY DEF SoundComposition, Separates
<1> HIDE DEF T, acc
<1>3. IsInjective(acc)
  BY <1>1 DEF IsInjective
<1>4. IsInjective(m.train \o m.validation)
  <2>1. Range(m.train) \cap Range(m.validation) = {}
    BY <1>2
  <2> QED BY <1>2, <2>1, ConcatRange
<1>5. Len(m.train) + Len(m.validation) = Len(acc)
  BY <1>1, <1>2, <1>3, <1>4, LengthsAdd
<1>6. ContentsIn(m.train) \cup ContentsIn(m.validation) = ContentsIn(acc)
  <2>1. \A z : z \in ContentsIn(acc) <=> z \in ContentsIn(m.train) \/ z \in ContentsIn(m.validation)
    BY <1>2 DEF ContentsIn
  <2> QED BY <2>1
<1>7. Cardinality(ContentsIn(acc)) = Len(acc)
  <2>1. cs \in Seq({Content(r) : r \in T}) /\ Len(cs) = Len(acc) /\ Range(cs) = ContentsIn(acc)
    BY <1>1, ContentsOfRecords
  <2>2. DOMAIN cs = DOMAIN acc /\ \A i \in DOMAIN acc : cs[i] = Content(acc[i])
    OBVIOUS
  <2> HIDE DEF cs
  <2>3. IsInjective(cs)
    BY <1>1, <2>2 DEF IsInjective
  <2> QED BY <2>1, <2>3, InjectiveLength
<1>8. Len(m.train) > 0 /\ Len(m.validation) > 0
  BY <1>2 DEF Range
<1> QED BY <1>1, <1>5, <1>6, <1>7, <1>8 DEF acc

----------------------------------------------------------------------------
(* The inductive invariant of the composition *)

Splits == {"train", "validation"}

\* A file on its way to the disk, or there: of a split only the form is known, for what a
\* training asks of it is asked again; a manifest is of a sound composition.
SoundFile(w, f) ==
    /\ f[1] \in Splits => f[2] \in Seq(RecordsOf(w))
    /\ f[1] = "manifest" => SoundComposition(w, f[2])

CompositionInv ==
    /\ world \in Worlds /\ checkout \in Commits
    /\ DOMAIN builder = Builders
    /\ \A b \in Builders :
         /\ DOMAIN builder[b] = {"mode", "result", "writes"}
         /\ builder[b].mode = "freeze" => SoundResult(world, builder[b].result)
         /\ \E F : builder[b].writes \in Seq(F) /\ \A f \in F : SoundFile(world, f)
    /\ DOMAIN corpus = Composition!Names
    /\ \A n \in Composition!Names : corpus[n] # None => SoundFile(world, <<n, corpus[n]>>)

\* The invariant holds before the first build.
LEMMA InitCompositionInv ==
  ASSUME Composition!Init
  PROVE  CompositionInv
<1>1. /\ world \in Worlds /\ checkout \in Commits
      /\ corpus = [n \in Composition!Names |-> None]
      /\ builder = [b \in Builders |-> Composition!Idle]
  BY DEF Composition!Init
<1>2. /\ DOMAIN Composition!Idle = {"mode", "result", "writes"}
      /\ Composition!Idle.mode = "none" /\ Composition!Idle.writes = <<>>
  BY DEF Composition!Idle
<1>3. \E F : <<>> \in Seq(F) /\ \A f \in F : SoundFile(world, f)
  <2>1. PICK F : F = {}
    OBVIOUS
  <2>2. <<>> \in Seq(F) /\ \A f \in F : SoundFile(world, f)
    BY <2>1
  <2> QED BY <2>2
<1> QED BY <1>1, <1>2, <1>3 DEF CompositionInv

\* A builder that does not touch the others, nor the files.
LEMMA BuilderStep ==
  ASSUME CompositionInv, NEW b \in Builders, NEW j, builder' = [builder EXCEPT ![b] = j],
         DOMAIN j = {"mode", "result", "writes"},
         j.mode = "freeze" => SoundResult(world, j.result),
         NEW F, j.writes \in Seq(F), \A f \in F : SoundFile(world, f),
         world' = world, checkout' = checkout, corpus' = corpus
  PROVE  CompositionInv'
<1>1. DOMAIN builder' = Builders /\ builder'[b] = j /\ \A a \in Builders \ {b} : builder'[a] = builder[a]
  BY DEF CompositionInv
<1>2. ASSUME NEW a \in Builders
      PROVE  /\ DOMAIN builder'[a] = {"mode", "result", "writes"}
             /\ builder'[a].mode = "freeze" => SoundResult(world, builder'[a].result)
             /\ \E G : builder'[a].writes \in Seq(G) /\ \A f \in G : SoundFile(world, f)
  <2>1. CASE a = b
    BY <1>1, <2>1
  <2>2. CASE a # b
    BY <1>1, <2>2 DEF CompositionInv
  <2> QED BY <2>1, <2>2
<1> QED BY <1>1, <1>2 DEF CompositionInv

\* A preparation writes the records of its result.
LEMMA FilesArePrepared ==
  ASSUME NEW w, NEW res
  PROVE  /\ Composition!PreparedFiles(res) \in Seq(Range(Composition!PreparedFiles(res)))
         /\ \A f \in Range(Composition!PreparedFiles(res)) : SoundFile(w, f)
<1>1. Composition!PreparedFiles(res) = <<<<"accepted", res.accepted>>, <<"composition", res.stats>>>>
  BY DEF Composition!PreparedFiles, Composition!File
<1>2. Range(Composition!PreparedFiles(res)) = {<<"accepted", res.accepted>>, <<"composition", res.stats>>}
  BY <1>1 DEF Range
<1>3. SoundFile(w, <<"accepted", res.accepted>>) /\ SoundFile(w, <<"composition", res.stats>>)
  BY DEF SoundFile, Splits
<1> QED BY <1>1, <1>2, <1>3

\* A freeze writes its manifest and the splits that the manifest describes.
LEMMA FilesAreFrozen ==
  ASSUME NEW w, NEW res, NEW m, SoundComposition(w, m)
  PROVE  \E F : Composition!FrozenFiles(res, m) \in Seq(F) /\ \A f \in F : SoundFile(w, f)
<1> DEFINE P == Range(Composition!PreparedFiles(res))
           splits == <<<<"train", m.train>>, <<"validation", m.validation>>,
                       <<"manifest", m>>, <<"sidecar", m>>>>
           S == {<<"train", m.train>>, <<"validation", m.validation>>,
                 <<"manifest", m>>, <<"sidecar", m>>}
<1>1. Composition!FrozenFiles(res, m) = Composition!PreparedFiles(res) \o splits
  BY DEF Composition!FrozenFiles, Composition!File
<1>2. m.train \in Seq(RecordsOf(w)) /\ m.validation \in Seq(RecordsOf(w))
  BY DEF SoundComposition, Separates
<1>3. splits \in Seq(S)
  OBVIOUS
<1>4. \A f \in S : SoundFile(w, f)
  BY <1>2 DEF SoundFile, Splits
<1>5. Composition!PreparedFiles(res) \in Seq(P) /\ \A f \in P : SoundFile(w, f)
  BY FilesArePrepared
<1> HIDE DEF P, S, splits
<1>6. Composition!PreparedFiles(res) \in Seq(P \cup S) /\ splits \in Seq(P \cup S)
  BY <1>3, <1>5
<1>7. Composition!PreparedFiles(res) \o splits \in Seq(P \cup S)
  BY <1>6
<1>8. \A f \in P \cup S : SoundFile(w, f)
  BY <1>4, <1>5
<1>9. PICK F : F = P \cup S
  OBVIOUS
<1>10. Composition!FrozenFiles(res, m) \in Seq(F) /\ \A f \in F : SoundFile(w, f)
  BY <1>1, <1>7, <1>8, <1>9
<1> QED BY <1>10

\* A builder starts with a sound result.
LEMMA StartInv ==
  ASSUME CompositionInv, NEW b \in Builders, NEW mode \in {"prepare", "freeze"},
         Composition!Start(b, mode)
  PROVE  CompositionInv'
<1> DEFINE res == Composition!Result(checkout)
           orders == IF mode = "prepare" THEN Composition!PreparedFiles(res) ELSE <<>>
           j == [mode |-> mode, result |-> res, writes |-> orders]
<1>1. /\ ~Composition!Build(checkout).failed
      /\ builder' = [builder EXCEPT ![b] = j]
      /\ world' = world /\ checkout' = checkout /\ corpus' = corpus
  BY DEF Composition!Start
<1>2. SoundResult(world, res)
  BY <1>1, ResultIsSound DEF CompositionInv
<1> HIDE DEF res
<1>3. PICK F : orders \in Seq(F) /\ \A f \in F : SoundFile(world, f)
  <2>1. CASE mode = "prepare"
    BY <2>1, FilesArePrepared
  <2>2. CASE mode # "prepare"
    <3>1. PICK F : F = {}
      OBVIOUS
    <3>2. orders \in Seq(F) /\ \A f \in F : SoundFile(world, f)
      BY <2>2, <3>1
    <3> QED BY <3>2
  <2> QED BY <2>1, <2>2
<1>4. DOMAIN j = {"mode", "result", "writes"} /\ j.result = res /\ j.writes = orders
  OBVIOUS
<1> HIDE DEF orders, j
<1> QED BY <1>1, <1>2, <1>3, <1>4, BuilderStep

\* A freeze goes on with the files of a sound composition.
LEMMA DescribeInv ==
  ASSUME CompositionInv, NEW b \in Builders, Composition!Describe(b)
  PROVE  CompositionInv'
<1> DEFINE m == Composition!Manifest(builder[b].result)
           orders == Composition!FrozenFiles(builder[b].result, m)
           j == [builder[b] EXCEPT !.writes = orders]
<1>1. /\ builder[b].mode = "freeze" /\ Composition!Freezable(builder[b].result)
      /\ builder' = [builder EXCEPT ![b].writes = orders]
      /\ world' = world /\ checkout' = checkout /\ corpus' = corpus
  BY DEF Composition!Describe
<1>2. DOMAIN builder[b] = {"mode", "result", "writes"} /\ SoundResult(world, builder[b].result)
  BY <1>1 DEF CompositionInv
<1>3. SoundComposition(world, m)
  BY <1>1, <1>2, FrozenIsSound DEF CompositionInv
<1> HIDE DEF m
<1>4. PICK F : orders \in Seq(F) /\ \A f \in F : SoundFile(world, f)
  BY <1>3, FilesAreFrozen
<1> HIDE DEF orders
<1>5. /\ builder' = [builder EXCEPT ![b] = j] /\ DOMAIN j = {"mode", "result", "writes"}
      /\ j.result = builder[b].result /\ j.writes = orders
  BY <1>1, <1>2
<1> HIDE DEF j
<1> QED BY <1>1, <1>2, <1>4, <1>5, BuilderStep

\* A builder that stops, or crashes, leaves what it has written.
LEMMA StopInv ==
  ASSUME CompositionInv, NEW b \in Builders, Composition!Stop(b)
  PROVE  CompositionInv'
<1>1. /\ builder' = [builder EXCEPT ![b] = Composition!Idle]
      /\ world' = world /\ checkout' = checkout /\ corpus' = corpus
  BY DEF Composition!Stop
<1>2. /\ DOMAIN Composition!Idle = {"mode", "result", "writes"}
      /\ Composition!Idle.mode = "none" /\ Composition!Idle.writes = <<>>
  BY DEF Composition!Idle
<1>3. PICK F : F = {}
  OBVIOUS
<1>4. Composition!Idle.writes \in Seq(F) /\ \A f \in F : SoundFile(world, f)
  BY <1>2, <1>3
<1>5. Composition!Idle.mode # "freeze"
  BY <1>2
<1> QED BY <1>1, <1>2, <1>4, <1>5, BuilderStep

\* A write: the file on the disk is one that was sound on its way there.
LEMMA WriteInv ==
  ASSUME CompositionInv, NEW b \in Builders, Composition!Write(b)
  PROVE  CompositionInv'
<1> DEFINE next == Head(builder[b].writes)
           j == IF Len(builder[b].writes) = 1 THEN Composition!Idle
                ELSE [builder[b] EXCEPT !.writes = Tail(@)]
<1>1. /\ builder[b].writes # <<>> /\ corpus' = [corpus EXCEPT ![next[1]] = next[2]]
      /\ world' = world /\ checkout' = checkout
  BY DEF Composition!Write
<1>2. PICK F : builder[b].writes \in Seq(F) /\ \A f \in F : SoundFile(world, f)
  BY DEF CompositionInv
<1>3. next \in F /\ Tail(builder[b].writes) \in Seq(F)
  BY <1>1, <1>2
<1>4. /\ DOMAIN builder[b] = {"mode", "result", "writes"}
      /\ builder[b].mode = "freeze" => SoundResult(world, builder[b].result)
  BY DEF CompositionInv
<1>5. /\ DOMAIN j = {"mode", "result", "writes"}
      /\ j.mode = "freeze" => SoundResult(world, j.result)
      /\ j.writes \in Seq(F)
  <2>1. CASE Len(builder[b].writes) = 1
    <3>1. /\ DOMAIN Composition!Idle = {"mode", "result", "writes"}
          /\ Composition!Idle.mode = "none" /\ Composition!Idle.writes = <<>>
      BY DEF Composition!Idle
    <3>2. j = Composition!Idle
      BY <2>1
    <3>3. <<>> \in Seq(F)
      OBVIOUS
    <3> HIDE DEF j
    <3> QED BY <3>1, <3>2, <3>3
  <2>2. CASE Len(builder[b].writes) # 1
    <3>1. j = [builder[b] EXCEPT !.writes = Tail(@)]
      BY <2>2
    <3>2. /\ DOMAIN j = {"mode", "result", "writes"} /\ j.mode = builder[b].mode
          /\ j.result = builder[b].result /\ j.writes = Tail(builder[b].writes)
      BY <1>4, <3>1
    <3> HIDE DEF j
    <3> QED BY <1>3, <1>4, <3>2
  <2> QED BY <2>1, <2>2
<1> HIDE DEF j
<1>6. SoundFile(world, next)
  BY <1>2, <1>3
<1> HIDE DEF next
<1>7. /\ DOMAIN builder' = Builders /\ builder'[b] = j
      /\ \A a \in Builders \ {b} : builder'[a] = builder[a]
  <2>1. DOMAIN builder = Builders
    BY DEF CompositionInv
  <2>2. DOMAIN builder' = Builders /\ \A a \in Builders \ {b} : builder'[a] = builder[a]
    BY <2>1 DEF Composition!Write
  <2>3. CASE Len(builder[b].writes) = 1
    BY <2>1, <2>2, <2>3 DEF Composition!Write, j
  <2>4. CASE Len(builder[b].writes) # 1
    <3>1. builder'[b] = [builder[b] EXCEPT !.writes = Tail(builder[b].writes)]
      BY <2>1, <2>4 DEF Composition!Write
    <3>2. j = [builder[b] EXCEPT !.writes = Tail(builder[b].writes)]
      BY <2>4 DEF j
    <3> QED BY <2>2, <3>1, <3>2
  <2> QED BY <2>3, <2>4
<1>8. ASSUME NEW a \in Builders
      PROVE  /\ DOMAIN builder'[a] = {"mode", "result", "writes"}
             /\ builder'[a].mode = "freeze" => SoundResult(world, builder'[a].result)
             /\ \E G : builder'[a].writes \in Seq(G) /\ \A f \in G : SoundFile(world, f)
  <2>1. CASE a = b
    BY <1>2, <1>5, <1>7, <2>1
  <2>2. CASE a # b
    BY <1>7, <2>2 DEF CompositionInv
  <2> QED BY <2>1, <2>2
<1>9. DOMAIN corpus' = Composition!Names
  BY <1>1 DEF CompositionInv
<1>10. ASSUME NEW n \in Composition!Names, corpus'[n] # None
       PROVE  SoundFile(world, <<n, corpus'[n]>>)
  <2>1. DOMAIN corpus = Composition!Names
    BY DEF CompositionInv
  <2>2. CASE n = next[1]
    <3>1. corpus'[n] = next[2]
      BY <1>1, <2>1, <2>2
    <3> QED BY <1>6, <2>2, <3>1 DEF SoundFile
  <2>3. CASE n # next[1]
    <3>1. corpus'[n] = corpus[n]
      BY <1>1, <2>1, <2>3
    <3> QED BY <1>10, <3>1 DEF CompositionInv
  <2> QED BY <2>2, <2>3
<1>11. world' \in Worlds /\ checkout' \in Commits
  BY <1>1 DEF CompositionInv
<1> QED BY <1>1, <1>7, <1>8, <1>9, <1>10, <1>11 DEF CompositionInv

\* Every step keeps the invariant.
LEMMA NextCompositionInv ==
  ASSUME CompositionInv, [Composition!Next]_(Composition!vars)
  PROVE  CompositionInv'
<1>1. ASSUME NEW c \in Commits, Composition!Checkout(c) PROVE CompositionInv'
  BY <1>1 DEF Composition!Checkout, CompositionInv
<1>2. CASE UNCHANGED Composition!vars
  BY <1>2 DEF Composition!vars, CompositionInv
<1>3. CASE Composition!Next
  BY <1>1, <1>3, StartInv, DescribeInv, WriteInv, StopInv DEF Composition!Next
<1> QED BY <1>2, <1>3

\* Hence the invariant holds throughout.
LEMMA AlwaysCompositionInv == Composition!Spec => []CompositionInv
BY InitCompositionInv, NextCompositionInv, PTL DEF Composition!Spec

\* What a training is willing to read has the contents of the splits that its manifest
\* describes.
LEMMA UsableIsWhole ==
  ASSUME CompositionInv, Composition!Usable
  PROVE  /\ SoundComposition(world, corpus.manifest)
         /\ corpus.train \in Seq(RecordsOf(world)) /\ corpus.validation \in Seq(RecordsOf(world))
         /\ [i \in DOMAIN corpus.train |-> Content(corpus.train[i])]
              = [i \in DOMAIN corpus.manifest.train |-> Content(corpus.manifest.train[i])]
         /\ [i \in DOMAIN corpus.validation |-> Content(corpus.validation[i])]
              = [i \in DOMAIN corpus.manifest.validation |-> Content(corpus.manifest.validation[i])]
<1>1. /\ corpus.manifest # None /\ corpus.train # None /\ corpus.validation # None
      /\ [i \in DOMAIN corpus.train |-> Content(corpus.train[i])]
           = [i \in DOMAIN corpus.manifest.train |-> Content(corpus.manifest.train[i])]
      /\ [i \in DOMAIN corpus.validation |-> Content(corpus.validation[i])]
           = [i \in DOMAIN corpus.manifest.validation |-> Content(corpus.manifest.validation[i])]
  BY DEF Composition!Usable, Composition!Content, Content
<1>2. "manifest" \in Composition!Names /\ "train" \in Composition!Names /\ "validation" \in Composition!Names
  BY DEF Composition!Names
<1>3. /\ SoundFile(world, <<"manifest", corpus["manifest"]>>)
      /\ SoundFile(world, <<"train", corpus["train"]>>)
      /\ SoundFile(world, <<"validation", corpus["validation"]>>)
  BY <1>1, <1>2 DEF CompositionInv
<1>4. /\ SoundComposition(world, corpus["manifest"])
      /\ corpus["train"] \in Seq(RecordsOf(world)) /\ corpus["validation"] \in Seq(RecordsOf(world))
  BY <1>3 DEF SoundFile, Splits
<1> QED BY <1>1, <1>4

\* Hence the whole of a composition.
LEMMA WholeIsExact ==
  ASSUME NEW m, SoundComposition(world, m),
         NEW train \in Seq(RecordsOf(world)), NEW validation \in Seq(RecordsOf(world)),
         [i \in DOMAIN train |-> Content(train[i])] = [i \in DOMAIN m.train |-> Content(m.train[i])],
         [i \in DOMAIN validation |-> Content(validation[i])]
           = [i \in DOMAIN m.validation |-> Content(m.validation[i])]
  PROVE  /\ Len(train \o validation) = Composition!Total
         /\ ContentsIn(train \o validation) = ContentsIn(m.accepted)
         /\ Cardinality(ContentsIn(train \o validation)) = Composition!Total
         /\ {r.prompt : r \in Range(train)} \cap {r.prompt : r \in Range(validation)} = {}
         /\ train # <<>> /\ validation # <<>>
         /\ \A s \in Range(Sources) \ {world.fill} : GivenIn(world, m.accepted, s) <= Goal[s]
         /\ \E c \in Commits :
              /\ \A r \in Range(train \o validation) : Composition!Stage(r, c) = "none"
              /\ \A s \in Range(Sources) : GivenIn(world, m.accepted, s) < Goal[s] =>
                   \A r \in YieldOf(world, s) :
                     Composition!Stage(r, c) = "none" => Content(r) \in ContentsIn(m.accepted)
<1> DEFINE T == RecordsOf(world)
           kept == train \o validation
<1>1. /\ m.train \in Seq(T) /\ m.validation \in Seq(T)
      /\ \A r \in Range(m.train), q \in Range(m.validation) : r.prompt # q.prompt
  BY DEF SoundComposition, Separates
<1>2. /\ Len(m.train) + Len(m.validation) = Composition!Total
      /\ ContentsIn(m.train) \cup ContentsIn(m.validation) = ContentsIn(m.accepted)
      /\ Cardinality(ContentsIn(m.accepted)) = Composition!Total
      /\ Len(m.train) > 0 /\ Len(m.validation) > 0
  BY SplitsAreWhole
<1>3. /\ Len(train) = Len(m.train) /\ ContentsIn(train) = ContentsIn(m.train)
      /\ \A r \in Range(train) : \E q \in Range(m.train) : Content(r) = Content(q)
  BY <1>1, FilesOfSplits
<1>4. /\ Len(validation) = Len(m.validation) /\ ContentsIn(validation) = ContentsIn(m.validation)
      /\ \A r \in Range(validation) : \E q \in Range(m.validation) : Content(r) = Content(q)
  BY <1>1, FilesOfSplits
<1>5. Range(kept) = Range(train) \cup Range(validation)
  BY ConcatRange
<1>6. Len(kept) = Composition!Total
  <2>1. Len(kept) = Len(train) + Len(validation)
    OBVIOUS
  <2> QED BY <1>2, <1>3, <1>4, <2>1
<1> HIDE DEF kept
<1>7. ContentsIn(kept) = ContentsIn(m.accepted)
  <2>1. ContentsIn(kept) = ContentsIn(train) \cup ContentsIn(validation)
    BY <1>5 DEF ContentsIn
  <2> QED BY <1>2, <1>3, <1>4, <2>1
<1>8. \A r, q : Content(r) = Content(q) => r.prompt = q.prompt /\ r.answer = q.answer
  BY DEF Content
<1>9. {r.prompt : r \in Range(train)} \cap {r.prompt : r \in Range(validation)} = {}
  <2> SUFFICES ASSUME NEW r \in Range(train), NEW q \in Range(validation), r.prompt = q.prompt
               PROVE  FALSE
    OBVIOUS
  <2>1. PICK a \in Range(m.train) : Content(r) = Content(a)
    BY <1>3
  <2>2. PICK b \in Range(m.validation) : Content(q) = Content(b)
    BY <1>4
  <2>3. a.prompt = b.prompt
    BY <1>8, <2>1, <2>2
  <2> QED BY <1>1, <2>3
<1>10. train # <<>> /\ validation # <<>>
  <2>1. Len(train) > 0 /\ Len(validation) > 0
    BY <1>2, <1>3, <1>4
  <2> QED BY <2>1
<1>11. PICK c \in Commits :
         Chosen(world, m.accepted, [s \in Range(Sources) |-> GivenIn(world, m.accepted, s)], c)
  BY DEF SoundComposition
<1>12. /\ \A r \in Range(m.accepted) : Composition!Stage(r, c) = "none"
       /\ \A s \in Range(Sources) :
            /\ s # world.fill => GivenIn(world, m.accepted, s) <= Goal[s]
            /\ GivenIn(world, m.accepted, s) < Goal[s] =>
                 \A r \in YieldOf(world, s) :
                   Composition!Stage(r, c) = "none" => Content(r) \in ContentsIn(m.accepted)
  BY <1>11 DEF Chosen
<1>13. ASSUME NEW r \in Range(kept) PROVE Composition!Stage(r, c) = "none"
  <2>1. Content(r) \in ContentsIn(m.accepted)
    <3>1. Content(r) \in ContentsIn(kept)
      BY DEF ContentsIn
    <3> QED BY <1>7, <3>1
  <2>2. PICK q \in Range(m.accepted) : Content(r) = Content(q)
    BY <2>1 DEF ContentsIn
  <2>3. r.answer = q.answer
    BY <1>8, <2>2
  <2>4. Composition!Stage(q, c) = "none"
    BY <1>12
  <2> QED BY <2>3, <2>4 DEF Composition!Stage
<1> QED BY <1>2, <1>6, <1>7, <1>9, <1>10, <1>12, <1>13 DEF kept

\* What a training would read of the P0 corpus is the whole of one composition: of any
\* streams, quotas, validators, shuffle and fraction, however many builds, freezes, crashes
\* and checkouts there were.
THEOREM CorpusIsWhole == Composition!Spec => []CorpusIsExact
<1>1. ASSUME CompositionInv PROVE CorpusIsExact
  <2> SUFFICES ASSUME Composition!Usable PROVE Composition!CorpusIsExact
    BY DEF CorpusIsExact, Composition!CorpusIsExact
  <2>1. PICK m, train, validation : m = corpus.manifest /\ train = corpus.train /\ validation = corpus.validation
    OBVIOUS
  <2> DEFINE kept == train \o validation
  <2>2. /\ SoundComposition(world, m)
        /\ train \in Seq(RecordsOf(world)) /\ validation \in Seq(RecordsOf(world))
        /\ [i \in DOMAIN train |-> Content(train[i])] = [i \in DOMAIN m.train |-> Content(m.train[i])]
        /\ [i \in DOMAIN validation |-> Content(validation[i])]
             = [i \in DOMAIN m.validation |-> Content(m.validation[i])]
    BY <1>1, <2>1, UsableIsWhole
  <2>3. /\ Len(kept) = Composition!Total
        /\ ContentsIn(kept) = ContentsIn(m.accepted)
        /\ Cardinality(ContentsIn(kept)) = Composition!Total
        /\ {r.prompt : r \in Range(train)} \cap {r.prompt : r \in Range(validation)} = {}
        /\ train # <<>> /\ validation # <<>>
        /\ \A s \in Range(Sources) \ {world.fill} : GivenIn(world, m.accepted, s) <= Goal[s]
        /\ \E c \in Commits :
             /\ \A r \in Range(kept) : Composition!Stage(r, c) = "none"
             /\ \A s \in Range(Sources) : GivenIn(world, m.accepted, s) < Goal[s] =>
                  \A r \in YieldOf(world, s) :
                    Composition!Stage(r, c) = "none" => Content(r) \in ContentsIn(m.accepted)
    BY <2>2, WholeIsExact, ZenonT(60)
  <2>4. \A recs : {Composition!Content(r) : r \in Composition!Range(recs)} = ContentsIn(recs)
    BY SameRange, SameContent DEF ContentsIn
  <2>5. \A s : Composition!Yield(s) = YieldOf(world, s)
    BY SameRange DEF Composition!Yield, Composition!Selected, YieldOf, RowsOf
  <2>6. \A s : Len(Composition!From(m.accepted, s)) = GivenIn(world, m.accepted, s)
    BY SameGiven
  <2> QED BY <2>1, <2>3, <2>4, <2>5, <2>6, SameRange, SameContent, SameCardinality, ZenonT(60)
      DEF Composition!CorpusIsExact, Composition!Configured
<1> QED BY <1>1, AlwaysCompositionInv, PTL
====
