---- MODULE MCAdapterTraining ----
(* A small instance for TLC of the training of adapters, of the composition of the P0    *)
(* corpus, and of the way of a trained adapter from the modules of its base to P7-007: a  *)
(* behaviour is one of the three.                                                         *)
EXTENDS TrainedAdapters

VARIABLE half

----------------------------------------------------------------------------
(* Training *)

MCSeed == [c \in Configs |-> IF c = "c1" THEN 1 ELSE 2]

\* Two shuffles: by name, and the reverse.
MCShuffle ==
    LET ByName(P) == SelectSeq(<<"p", "q", "r", "he">>, LAMBDA x : x \in P)
    IN [n \in {1, 2} |-> [P \in SUBSET Prompts |->
            IF n = 1 THEN ByName(P) ELSE Reverse(ByName(P))]]

Rec(k, p, a) == [key |-> k, prompt |-> p, answer |-> a, finish |-> "stop"]
Cut(r) == [r EXCEPT !.finish = "length"]

\* Duplicates by content and by key, two answers to one prompt, rejected records,
\* an answer that was cut off, two contents under one key, a benchmark prompt.
MCCorpora == {
    <<Rec("k1", "p", "x"), Rec("k2", "q", "x"), Rec("k1", "p", "x"), Rec("k3", "p", "y")>>,
    <<Rec(None, "p", "x"), Rec("k2", "r", "long"), Rec(None, "p", "x"), Rec(None, "r", "bad"),
      Rec("k3", "r", "y"), Cut(Rec("k4", "q", "x")), Cut(Rec(None, "q", "poor"))>>,
    <<Rec("k1", "p", "x"), Rec("k1", "p", "y"), Rec("k2", "q", "x")>>,
    <<Rec("k1", "p", "x"), Rec("k2", "he", "y"), Rec("k3", "q", "x")>>,
    <<Rec("k1", "p", "x"), Rec("k2", "q", "open"), Rec("k3", "q", "poor")>>,
    <<Rec("k1", "p", "x"), Rec("k2", "q", "poor")>>}

MCFrozen ==
    Manifest(<<Rec("k1", "p", "x"), Rec("k2", "q", "x"), Rec("k1", "p", "x"), Rec("k3", "p", "y")>>, "c1")

MCJobs == {
    [kind |-> "full", seed |-> 1, dir |-> "d1", limit |-> 1],
    [kind |-> "smoke", seed |-> 1, dir |-> "d2", limit |-> 1],
    [kind |-> "candidate", seed |-> 2, dir |-> "d1", limit |-> 1],
    [kind |-> "trajectory", seed |-> 1, dir |-> "d2", limit |-> 1]}

MCSymmetry == Permutations(Sessions)

----------------------------------------------------------------------------
(* The adapter *)

Linear(root, block, leaf, size) == [root |-> root, block |-> block, leaf |-> leaf, size |-> size]

\* The newer library names a layer of the projector like one of the language blocks.
MCLinears == [rev \in {"r1", "r2"} |-> [lib \in {"old", "new"} |->
    {Linear("language_model", "self_attn", "q_proj", 2),
     Linear("language_model", "mlp", "gate_proj", IF rev = "r1" THEN 3 ELSE 4),
     Linear("lm_head", "", "lm_head", 5), Linear("visual", "attn", "qkv", 2),
     Linear("visual.merger", "", IF lib = "old" THEN "fc1" ELSE "gate_proj", 1)}]]

Job(config, name, rank, bias, full) ==
    [config |-> config, adapter |-> name, revision |-> "r1", rank |-> rank, bias |-> bias,
     leaves |-> {"q_proj", "gate_proj"}, full |-> full, patched |-> config = "rank",
     family |-> IF name = "python" THEN "language" ELSE "domain"]
MCLoraJobs == {Job("p0", "python", 1, "none", TRUE), Job("rank", "python", 1, "none", TRUE),
               Job("other", "common", 2, "lora_only", FALSE)}
Profile(rev, leaves) == [revision |-> rev, leaves |-> leaves]
MCFrozenProfile == Profile("r1", {"q_proj", "gate_proj"})
MCProfiles == {MCFrozenProfile, Profile("r2", {"q_proj", "gate_proj"})}
MCTemplates == [r \in {"r1", "r2"} |-> "chat"]
MCDrifts == {{}, {"hello"}}
MCEffect == [c \in {"p0", "rank", "other"} |-> IF c = "rank" THEN {} ELSE {"hello"}]

adapters == <<library, profile, trained, compatible, artifacts, inference, model, accepted,
              upgrades, replaced>>

----------------------------------------------------------------------------
(* The P0 corpus *)

Row(id, prompt, answer) ==
    [python |-> TRUE, whole |-> TRUE, id |-> id, prompt |-> prompt, answer |-> answer]
Torn(row) == [row EXCEPT !.whole = FALSE]
Foreign == [Row(9, "p", "x") EXCEPT !.python = FALSE]

\* More than any quota, an answer that one checkout refuses, and a torn row at the end.
MCOlmo == <<Row(1, "p", "x"), Foreign, Row(2, "q", "x"), Row(3, "q", "odd"), Row(4, "r", "y"),
            Row(5, "p", "y"), Torn(Row(6, "p", "z"))>>

\* Repeats of the other source and of itself; too few; one row with two contents; enough.
MCMagicoder == {
    <<Row(1, "p", "x"), Row(1, "p", "x"), Row(2, "r", "bad"), Row(3, "r", "long")>>,
    <<Row(1, "s", "odd"), Row(2, "r", "odd"), Row(3, "s", "y")>>,
    <<Row(1, "s", "x"), Row(1, "s", "y")>>,
    <<Row(1, "s", "x"), Row(2, "s", "y"), Torn(Row(3, "s", "z"))>>}

MCSources == <<"primary", "secondary">>
MCWorlds == {
    [rows |-> [d \in {"olmo", "magicoder"} |-> IF d = "olmo" THEN MCOlmo ELSE rows],
     of |-> [s \in Range(MCSources) |-> IF s = "primary" \/ same THEN "olmo" ELSE "magicoder"],
     fill |-> fill] :
    rows \in MCMagicoder, same \in BOOLEAN, fill \in {"primary", "none"}}

MCWorld == CHOOSE w \in MCWorlds : TRUE
MCGoal == [s \in Range(MCSources) |-> 2]
MCInvalid == [c \in {"sha1", "sha2"} |-> IF c = "sha1" THEN {"odd"} ELSE {}]
MCOrder == [P \in SUBSET {"p", "q", "r", "s"} |->
              SelectSeq(<<"q", "r", "s", "p">>, LAMBDA p : p \in P)]

compositions == <<world, checkout, corpus, builder, builds, checkouts>>

----------------------------------------------------------------------------

MCInit ==
    /\ half \in {"training", "adapter", "composition"}
    /\ Init /\ Adapter!Init /\ Composition!Init
    /\ half # "adapter" => library = "old" /\ profile = MCFrozenProfile
    /\ half # "composition" => world = MCWorld /\ checkout = "sha1"

MCNext ==
    \/ half = "training" /\ Next /\ UNCHANGED <<half, adapters, compositions>>
    \/ half = "adapter" /\ Adapter!Next /\ UNCHANGED <<half, vars, compositions>>
    \/ half = "composition" /\ Composition!Next /\ UNCHANGED <<half, vars, adapters>>

MCSpec == MCInit /\ [][MCNext]_<<half, vars, adapters, compositions>>
====
