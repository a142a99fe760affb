---- MODULE StudentCorpus ----
(***************************************************************************)
(* What stands between the teacher and the student: sessions that share a  *)
(* shard directory, the repair of a corpus that held thinking, and the     *)
(* filter by executable contracts.  They share no state in the model, each *)
(* starting from finished work of the one before: the parameters and the   *)
(* variables of the last two are declared here, under names that the first *)
(* leaves free.                                                            *)
(***************************************************************************)
EXTENDS TeacherGeneration

CONSTANTS
    Tasks,         \* sequence of tasks: [group, systems, tokens, fits]
    Sizes,         \* values of --count
    Policies,      \* instructions for the teacher
    Completions,   \* what the teacher may write: [parts, finish]
    Rewrites,      \* what it may write for an answer that was too long
    Held,          \* tasks the split holds back for validation
    Window, Reserve, Ceiling,  \* the student's window, its reserve, the longest answer
    MinStop, MinFit,           \* the gates of a study, in percent
    MaxRuns,       \* bound: runs of the teacher in a repair
    FinalCorpora,  \* finalized corpora a census may be given
    Pinned,        \* the manifest a census is for
    Expected,      \* the records of its corpus
    MinAssertions, \* that name the entry point, in a contract
    Responses      \* contracts the teacher may write

VARIABLES
    route, prepared, seal, checkpoint, salvaged, merged, final, qualification, archive,
    pinned, imported, at, work, runs, kills,
    verifierInput, contracts, source, index, stage, results, survivors, filtered, aborts

\* Thinking is what a completion holds before its first closing marker, or all of it where
\* there is none; a rewritten answer that ended has one, which nothing checks.
ASSUME RepairAssumption ==
    /\ None \notin Policies
    /\ \A i \in DOMAIN Tasks :
         LET told == Tasks[i].systems IN
         told # <<>> => Head(told) \in Seq({Head(told)[j] : j \in DOMAIN Head(told)})
    /\ \A c \in Completions \cup Rewrites :
         /\ c.parts \in Seq({"O", "C", "T", "A", "B"})
         /\ \A i, j \in DOMAIN c.parts : c.parts[i] = "C" /\ i < j => c.parts[j] # "T"
    /\ \A c \in Rewrites : c.finish = "stop" => \E i \in DOMAIN c.parts : c.parts[i] = "C"

\* The records of a corpus are in an order.
ASSUME CensusAssumption ==
    /\ Expected \in Nat \ {0}
    /\ \A finalized \in FinalCorpora :
         LET records == finalized.accepted IN
         records \in Seq({records[i] : i \in DOMAIN records})

Repair == INSTANCE TeacherCorpus WITH input <- prepared, crashes <- kills

Contracts == INSTANCE SemanticContracts WITH
    Corpora <- FinalCorpora, input <- verifierInput, out <- filtered, crashes <- aborts

----------------------------------------------------------------------------
(* Properties *)

\* No file the student may be trained from holds an instruction meant for the teacher, its
\* hidden thinking or an answer it did not finish, and the imported corpus is whole,
\* whichever of the commands were cut short or run again.
StudentSeesTheTaskOnly == Repair!StudentSeesTheTaskOnly

\* A sealed census is a census of the pinned corpus: no answer moves between training and
\* validation, none is dropped without a verdict.
CensusIsSound == Contracts!CensusIsSound
====
