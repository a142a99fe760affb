---- MODULE TrainedAdapters ----
(***************************************************************************)
(* The training of adapters, the composition of the corpus that P0 is      *)
(* trained on, and the way of a trained adapter from the modules of its    *)
(* base to P7-007.  They share no state in the model: the parameters and   *)
(* the variables of the other two are declared here, under names that the  *)
(* first leaves free.                                                      *)
(***************************************************************************)
EXTENDS AdapterTraining

CONSTANTS
    Libraries,     \* versions of the installed model library
    Revisions,     \* revisions of the base
    Linears,       \* [Revisions -> [Libraries -> the Linear modules]]
    Templates,     \* [Revisions -> the chat template of their tokenizer]
    LoraJobs,      \* training configurations, as a manifest records them
    FrozenTargets, \* the target profile the code has the hash of
    TargetFiles,   \* contents the profile file may have
    Canonical,     \* the revision P7-007 loads
    Expected,      \* the adapter P7-007 is for
    Effect,        \* [configs -> the prompts their adapter answers unlike the base]
    Drifts,        \* the prompts a base altered by the attachment may answer otherwise
    MaxUpgrades, MaxReplaced

\* The hash of a configuration is of its base too; a rank is positive; a model has finitely
\* many modules.
ASSUME AdaptersAssumption ==
    /\ \A j \in LoraJobs : j.revision \in Revisions /\ j.rank \in Nat \ {0}
    /\ \A i, j \in LoraJobs : i.config = j.config => i.revision = j.revision
    /\ \A r \in Revisions, l \in Libraries :
         IsFiniteSet(Linears[r][l]) /\ \A m \in Linears[r][l] : m.size \in Nat

VARIABLES
    library, profile, trained, compatible, artifacts, inference, model, accepted,
    upgrades, replaced

Adapter == INSTANCE AdapterLifecycle WITH
    Runtimes <- Libraries, Tree <- Linears, Template <- Templates, Jobs <- LoraJobs,
    Frozen <- FrozenTargets, Profiles <- TargetFiles, run <- inference,
    runtime <- library, files <- artifacts

----------------------------------------------------------------------------

CONSTANTS
    P0Prompts, P0Answers, RowIds, Sources, Goal, Worlds, P0Malformed, P0Long, Commits, Invalid,
    P0Order, P0Num, P0Den, Builders, MaxBuilds, MaxCheckouts

VARIABLES
    world, checkout, corpus, builder, builds, checkouts

Composition == INSTANCE PythonCorpus WITH
    Prompts <- P0Prompts, Answers <- P0Answers, Ids <- RowIds, Malformed <- P0Malformed,
    Long <- P0Long, Order <- P0Order, Num <- P0Num, Den <- P0Den, head <- checkout,
    files <- corpus, job <- builder

P0Rows == [python : BOOLEAN, whole : BOOLEAN, id : RowIds, prompt : P0Prompts,
           answer : P0Answers]

\* No source is configured twice and none asks for less than nothing
\* (PythonP0CorpusConfig); the shuffle permutes; every source streams rows.
ASSUME CompositionAssumption ==
    /\ Sources \in Seq(Range(Sources)) /\ IsInjective(Sources)
    /\ \A s \in Range(Sources) : Goal[s] \in Nat
    /\ P0Num \in Nat /\ P0Den \in Nat /\ 0 < P0Num /\ P0Num < P0Den
    /\ \A P \in SUBSET P0Prompts : IsFiniteSet(P) => IsPermutation(P0Order[P], P)
    /\ \A w \in Worlds, s \in Range(Sources) : w.rows[w.of[s]] \in Seq(P0Rows)

----------------------------------------------------------------------------
(* Properties *)

\* An adapter declared compatible with a base finds there every module it was trained in,
\* with as many parameters, under its template, and none outside the language blocks where
\* it is of the language family.
LandsWhereTrained == Adapter!LandsWhereTrained

\* An accepted P7-007 report holds answers of the base, the adapter, the base and the
\* adapter again, the adapter being the one its manifest describes.
ReportIsOfTheAdapter == Adapter!ReportIsOfTheAdapter

\* What a training would read of the P0 corpus is the whole of one composition, whatever
\* freezes, crashes and checkouts came before: as many records as are configured, none twice,
\* none refused by the validators of the one checkout, no prompt in both splits, no quota
\* exceeded but by the source that fills, and none missed while its stream had more.
CorpusIsExact == Composition!CorpusIsExact
====
