---- MODULE AdapterPromotion ----
(***************************************************************************)
(* huggingface_promotion.py: a finished training run is archived locally,  *)
(* committed to a Hugging Face repository, downloaded again at the exact   *)
(* commit and compared, and only then may its checkpoints be deleted and   *)
(* the success report be written.  Several runs may be promoted to one     *)
(* repository at once, other people edit it, and a promotion may die at    *)
(* any point and be started again.                                         *)
(*                                                                         *)
(* A file's contents are the run it was archived from.  The Hub is         *)
(* external: create_commit refuses a parent that is not the head, changes  *)
(* nothing when every file is already there, and a commit never changes.   *)
(***************************************************************************)
EXTENDS Integers, Sequences

CONSTANTS
    Runs,         \* finished training runs, one output directory each
    Adapters,     \* adapter identities
    AdapterOf,    \* [Runs -> Adapters]
    Names,        \* file names that may be in the repository
    Manifest,     \* archive-manifest.json
    Managed,      \* [Runs -> the names its archive holds]: _archive_source_files
    MayCreate,    \* runs promoted with --create-private-repo
    MayDelete,    \* runs promoted with --delete-checkpoints-after-verify
    MaxEdits,     \* bound: commits by others
    MaxFaults,    \* bound: damaged archive files, failed uploads and downloads
    MaxCrashes,   \* bound: promotions killed
    None, Foreign, Damaged

ASSUME PromotionAssumption ==
    /\ Manifest \in Names
    /\ AdapterOf \in [Runs -> Adapters]
    /\ Managed \in [Runs -> SUBSET Names]
    /\ \A r \in Runs : Manifest \in Managed[r]
    /\ MayCreate \subseteq Runs /\ MayDelete \subseteq Runs
    /\ MaxEdits \in Nat /\ MaxFaults \in Nat /\ MaxCrashes \in Nat
    /\ None \notin Runs /\ Foreign \notin Runs /\ Damaged \notin Runs

VARIABLES
    history,      \* the repository's commits, or <<>> while it does not exist
    archive,      \* per run: None, or the files of its archive that are damaged
    checkpoints,  \* per run: "whole", "partial" while being removed, or "gone"
    report,       \* per run: None, or what huggingface-promotion.json says
    pc,           \* where the promotion of each run is
    listed,       \* the names list_repo_files returned to it
    parent,       \* the commit model_info returned to it
    revision,     \* the commit create_commit returned to it
    edits, faults, crashes

hub == <<history, edits>>
disk == <<archive, checkpoints, report>>
memory == <<pc, listed, parent, revision>>
vars == <<hub, disk, memory, faults, crashes>>

EmptyTree == [n \in Names |-> None]

\* What create_repo leaves behind, with nothing but .gitattributes in it.
InitialCommit == [tree |-> EmptyTree, by |-> Foreign, parent |-> 0, blind |-> FALSE]

Init ==
    /\ history \in {<<>>, <<InitialCommit>>}
    /\ archive = [r \in Runs |-> None]
    /\ checkpoints = [r \in Runs |-> "whole"]
    /\ report = [r \in Runs |-> None]
    /\ pc = [r \in Runs |-> "idle"]
    /\ listed = [r \in Runs |-> {}]
    /\ parent = [r \in Runs |-> 0]
    /\ revision = [r \in Runs |-> 0]
    /\ edits = 0 /\ faults = 0 /\ crashes = 0

Head_ == history[Len(history)]
Present(tree) == {n \in Names : tree[n] # None}

\* Commit i of the repository holds the whole archive of run r, undamaged.
Holds(i, r) == \A n \in Managed[r] : history[i].tree[n] = r

Goto(r, label) == pc' = [pc EXCEPT ![r] = label]

\* The command exits, or is killed; it may be started again.
End(r) ==
    /\ Goto(r, "idle")
    /\ listed' = [listed EXCEPT ![r] = {}]
    /\ parent' = [parent EXCEPT ![r] = 0]
    /\ revision' = [revision EXCEPT ![r] = 0]

\* The command is started; the operator stops once there is a report.
Promote(r) ==
    /\ pc[r] = "idle" /\ report[r] = None
    /\ Goto(r, "validate")
    /\ UNCHANGED <<hub, disk, listed, parent, revision, faults, crashes>>

\* _validate_training_output: the final checkpoint directory must not be empty.
\* One that was being deleted may have lost it or not.
Validate(r) ==
    /\ pc[r] = "validate"
    /\ \/ checkpoints[r] \in {"whole", "partial"} /\ Goto(r, "archive")
          /\ UNCHANGED <<listed, parent, revision>>
       \/ checkpoints[r] \in {"partial", "gone"} /\ End(r)
    /\ UNCHANGED <<hub, disk, faults, crashes>>

\* Mutant of BuildArchive: an archive that exists is an error.
BuildArchiveOnce(r) ==
    /\ pc[r] = "archive"
    /\ \/ /\ archive[r] = None
          /\ archive' = [archive EXCEPT ![r] = {}]
          /\ Goto(r, "repo")
          /\ UNCHANGED <<listed, parent, revision>>
       \/ /\ archive[r] # None
          /\ End(r)
          /\ UNCHANGED archive
    /\ UNCHANGED <<hub, checkpoints, report, faults, crashes>>

\* _build_local_archive: staged and renamed, or an existing one compared.
BuildArchive(r) ==
    /\ pc[r] = "archive"
    /\ \/ /\ archive[r] \in {None, {}}
          /\ archive' = [archive EXCEPT ![r] = {}]
          /\ Goto(r, "repo")
          /\ UNCHANGED <<listed, parent, revision>>
       \/ /\ archive[r] \notin {None, {}}
          /\ End(r)
          /\ UNCHANGED archive
    /\ UNCHANGED <<hub, checkpoints, report, faults, crashes>>

\* prepare_repo, first request: create_repo(exist_ok=True), when asked for.
EnsureRepo(r) ==
    /\ pc[r] = "repo"
    /\ history' = IF r \in MayCreate /\ history = <<>> THEN <<InitialCommit>> ELSE history
    /\ Goto(r, "list")
    /\ UNCHANGED <<edits, disk, listed, parent, revision, faults, crashes>>

\* Second request: list_repo_files.
ListFiles(r) ==
    /\ pc[r] = "list"
    /\ \/ /\ history # <<>>
          /\ listed' = [listed EXCEPT ![r] = Present(Head_.tree)]
          /\ Goto(r, "info")
          /\ UNCHANGED <<parent, revision>>
       \/ history = <<>> /\ End(r)
    /\ UNCHANGED <<hub, disk, faults, crashes>>

\* Third request: model_info, whose sha becomes the parent commit.
ReadInfo(r) ==
    /\ pc[r] = "info"
    /\ parent' = [parent EXCEPT ![r] = Len(history)]
    /\ Goto(r, "inspect")
    /\ UNCHANGED <<hub, disk, listed, revision, faults, crashes>>

\* Mutant of Acceptable: the adapter of the published manifest is not compared.
AcceptableAnyAdapter(r) ==
    /\ archive[r] # None /\ Manifest \notin archive[r]
    /\ listed[r] \subseteq Managed[r]
    /\ listed[r] # {} =>
          /\ Manifest \in listed[r]
          /\ history[parent[r]].tree[Manifest] \in Runs

\* The rest of prepare_repo: no unmanaged file was listed, and unless nothing
\* was, the manifest at the parent commit names the same adapter.
Acceptable(r) ==
    /\ archive[r] # None /\ Manifest \notin archive[r]
    /\ listed[r] \subseteq Managed[r]
    /\ listed[r] # {} =>
          /\ Manifest \in listed[r]
          /\ history[parent[r]].tree[Manifest] \in Runs
          /\ AdapterOf[history[parent[r]].tree[Manifest]] = AdapterOf[r]

Inspect(r) ==
    /\ pc[r] = "inspect"
    /\ \/ Acceptable(r) /\ Goto(r, "commit") /\ UNCHANGED <<listed, parent, revision>>
       \/ ~Acceptable(r) /\ End(r)
    /\ UNCHANGED <<hub, disk, faults, crashes>>

\* The head with the archive's files added, as they are on the disk now.
Uploaded(r) ==
    [n \in Names |-> IF n \notin Managed[r] THEN Head_.tree[n]
                     ELSE IF n \in archive[r] THEN Damaged ELSE r]

ApplyCommit(r) ==
    /\ Len(history) = parent[r]
    /\ history' = IF Uploaded(r) = Head_.tree THEN history
                  ELSE Append(history, [tree |-> Uploaded(r), by |-> r, parent |-> parent[r],
                                        blind |-> listed[r] = {}])

Commit(r) ==
    /\ pc[r] = "commit"
    /\ ApplyCommit(r)
    /\ revision' = [revision EXCEPT ![r] = Len(history')]
    /\ Goto(r, "verify")
    /\ UNCHANGED <<edits, disk, listed, parent, faults, crashes>>

\* The Hub refuses: the head is no longer the parent that was read.
CommitRefused(r) ==
    /\ pc[r] = "commit" /\ Len(history) # parent[r]
    /\ End(r)
    /\ UNCHANGED <<hub, disk, faults, crashes>>

\* The request fails on the way there, or its answer on the way back.
CommitUnanswered(r) ==
    /\ pc[r] = "commit" /\ faults < MaxFaults
    /\ ApplyCommit(r) \/ UNCHANGED history
    /\ faults' = faults + 1
    /\ End(r)
    /\ UNCHANGED <<edits, disk, crashes>>

\* Mutants of Verify: the archive as it is on the disk now is compared, not the
\* digests of when it was built; and the report is written before the clean-up.
VerifyAgainstDisk(r) ==
    /\ pc[r] = "verify"
    /\ \/ /\ \A n \in Managed[r] :
                history[revision[r]].tree[n] = IF n \in archive[r] THEN Damaged ELSE r
          /\ Goto(r, IF r \in MayDelete THEN "clean" ELSE "report")
          /\ UNCHANGED <<listed, parent, revision>>
       \/ /\ \E n \in Managed[r] :
                history[revision[r]].tree[n] # IF n \in archive[r] THEN Damaged ELSE r
          /\ End(r)
    /\ UNCHANGED <<hub, disk, faults, crashes>>

VerifyThenReport(r) ==
    /\ pc[r] = "verify"
    /\ \/ /\ Holds(revision[r], r)
          /\ Goto(r, "report")
          /\ UNCHANGED <<listed, parent, revision>>
       \/ ~Holds(revision[r], r) /\ End(r)
    /\ UNCHANGED <<hub, disk, faults, crashes>>

\* _verify_remote_commit: every file downloaded at that commit and compared with
\* the digests taken when the archive was built.
Verify(r) ==
    /\ pc[r] = "verify"
    /\ \/ /\ Holds(revision[r], r)
          /\ Goto(r, IF r \in MayDelete THEN "clean" ELSE "report")
          /\ UNCHANGED <<listed, parent, revision>>
       \/ ~Holds(revision[r], r) /\ End(r)
    /\ UNCHANGED <<hub, disk, faults, crashes>>

DownloadFails(r) ==
    /\ pc[r] = "verify" /\ faults < MaxFaults
    /\ faults' = faults + 1
    /\ End(r)
    /\ UNCHANGED <<hub, disk, crashes>>

\* shutil.rmtree(checkpoint_root), which takes a while.
StartCleanup(r) ==
    /\ pc[r] = "clean"
    /\ checkpoints' = [checkpoints EXCEPT ![r] = "partial"]
    /\ Goto(r, "cleaning")
    /\ UNCHANGED <<hub, archive, report, listed, parent, revision, faults, crashes>>

FinishCleanup(r) ==
    /\ pc[r] = "cleaning"
    /\ checkpoints' = [checkpoints EXCEPT ![r] = "gone"]
    /\ Goto(r, "report")
    /\ UNCHANGED <<hub, archive, report, listed, parent, revision, faults, crashes>>

WriteReport(r) ==
    /\ pc[r] = "report"
    /\ report' = [report EXCEPT ![r] =
                    [revision |-> revision[r], deleted |-> r \in MayDelete]]
    /\ End(r)
    /\ UNCHANGED <<hub, archive, checkpoints, faults, crashes>>

Step(r) ==
    \/ Validate(r) \/ BuildArchive(r) \/ EnsureRepo(r) \/ ListFiles(r) \/ ReadInfo(r)
    \/ Inspect(r) \/ Commit(r) \/ CommitRefused(r) \/ Verify(r)
    \/ StartCleanup(r) \/ FinishCleanup(r) \/ WriteReport(r)

\* It is killed, or a request that changes nothing fails.
Crash(r) ==
    /\ pc[r] # "idle" /\ crashes < MaxCrashes
    /\ crashes' = crashes + 1
    /\ End(r)
    /\ UNCHANGED <<hub, disk, faults>>

\* A file of the local archive is damaged while it lies there.
DamageArchive(r) ==
    /\ faults < MaxFaults /\ archive[r] # None
    /\ \E n \in Managed[r] \ archive[r] :
          archive' = [archive EXCEPT ![r] = @ \cup {n}]
    /\ faults' = faults + 1
    /\ UNCHANGED <<hub, checkpoints, report, memory, crashes>>

\* Somebody else commits a file to the repository.
OthersEdit ==
    /\ history # <<>> /\ edits < MaxEdits
    /\ \E n \in Names :
         history' = Append(history, [tree |-> [Head_.tree EXCEPT ![n] = Foreign],
                                     by |-> Foreign, parent |-> Len(history), blind |-> FALSE])
    /\ edits' = edits + 1
    /\ UNCHANGED <<disk, memory, faults, crashes>>

Next ==
    \/ \E r \in Runs : \/ Promote(r) \/ Step(r) \/ CommitUnanswered(r) \/ DownloadFails(r)
                       \/ Crash(r) \/ DamageArchive(r)
    \/ OthersEdit

Spec == Init /\ [][Next]_vars

\* A promotion that runs goes on, and one that failed is started again.
Fairness == \A r \in Runs : WF_vars(Step(r)) /\ WF_vars(Promote(r))
FairSpec == Spec /\ Fairness

----------------------------------------------------------------------------
(* Properties *)

Places ==
    {"idle", "validate", "archive", "repo", "list", "info", "inspect", "commit", "verify",
     "clean", "cleaning", "report"}

\* The type invariant: parents and revisions are commits that exist.
TypeOK ==
    /\ \A i \in 1 .. Len(history) :
         /\ history[i].tree \in [Names -> Runs \cup {None, Foreign, Damaged}]
         /\ history[i].by \in Runs \cup {Foreign}
         /\ history[i].parent \in 0 .. i - 1
    /\ archive \in [Runs -> (SUBSET Names) \cup {None}]
    /\ checkpoints \in [Runs -> {"whole", "partial", "gone"}]
    /\ report \in [Runs -> [revision : 1 .. Len(history), deleted : BOOLEAN] \cup {None}]
    /\ pc \in [Runs -> Places]
    /\ listed \in [Runs -> SUBSET Names]
    /\ parent \in [Runs -> 0 .. Len(history)]
    /\ revision \in [Runs -> 0 .. Len(history)]
    /\ edits \in 0 .. MaxEdits /\ faults \in 0 .. MaxFaults /\ crashes \in 0 .. MaxCrashes

\* "Checkpoint deletion ... occurs only after the exact-commit Hub verification
\* succeeds": while any of a run's checkpoints is missing, some commit of the
\* repository holds its whole archive undamaged, though uploads are unanswered,
\* the archive rots, others commit on top and the command is restarted.
CheckpointsOutliveVerification ==
    \A r \in Runs : checkpoints[r] # "whole" => \E i \in 1 .. Len(history) : Holds(i, r)

\* The success report names a commit that holds what was promoted, and says that
\* the checkpoints were deleted only when they are.
ReportIsTrue ==
    \A r \in Runs : report[r] # None =>
        /\ Holds(report[r].revision, r)
        /\ report[r].deleted => checkpoints[r] = "gone"

\* A promotion that saw any file in the repository never replaces another
\* adapter's archive: its commit lands on a commit whose manifest names its own
\* adapter.  (prepare_repo reads the manifest at the parent itself.)
ListedRepoKeepsItsAdapter ==
    \A i \in 1 .. Len(history) :
        history[i].by \in Runs /\ ~history[i].blind =>
            LET below == history[history[i].parent].tree[Manifest]
            IN  below \in Runs /\ AdapterOf[below] = AdapterOf[history[i].by]

\* docs/HUGGINGFACE_PROMOTION.md, "Existing repositories": reused "only if it
\* contains no unmanaged files and ... that manifest identifies the same adapter
\* ID ... a concurrent repository update causes promotion to fail rather than
\* silently overwriting it".
NeverOverwritesSilently ==
    \A i \in 1 .. Len(history) :
        history[i].by \in Runs =>
            LET below == history[history[i].parent].tree
            IN  /\ Present(below) \subseteq Managed[history[i].by]
                /\ below[Manifest] \in Runs =>
                     AdapterOf[below[Manifest]] = AdapterOf[history[i].by]

\* What stops a promotion for good: its checkpoints are missing though there is no
\* report, its archive is damaged, or the repository is not there or not its own.
Stuck(r) ==
    \/ checkpoints[r] # "whole"
    \/ archive[r] \notin {None, {}}
    \/ history = <<>> /\ r \notin MayCreate
    \/ history # <<>> /\ Present(Head_.tree) # {} /\
         ~(/\ Present(Head_.tree) \subseteq Managed[r]
           /\ Head_.tree[Manifest] \in Runs
           /\ AdapterOf[Head_.tree[Manifest]] = AdapterOf[r])

\* A promotion that is started again until it succeeds ends with its report, whoever wins
\* the races for the head and wherever it was killed, unless it is stuck for good.
EventuallyReported == \A r \in Runs : <>(report[r] # None) \/ <>[]Stuck(r)
====
