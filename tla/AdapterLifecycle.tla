---- MODULE AdapterLifecycle ----
(***************************************************************************)
(* From the module tree of the base to an accepted adapter: the modules a  *)
(* language LoRA may touch are discovered, their leaf names frozen in a    *)
(* profile; a training attaches by those names and declares what it found  *)
(* attached; the declaration is compared with the base of a later host;    *)
(* and P7-007 loads the adapter once, switches it off and on, and accepts  *)
(* it by what the base and the adapter then answer.                        *)
(*                                                                         *)
(* PEFT, Transformers and the upstream checkpoint are external.  A tree    *)
(* depends on the revision and on the library that builds it; PEFT wraps   *)
(* whatever ends in one of the names, and each of its switches is checked, *)
(* not trusted.  The output directory is not written while it is validated.*)
(***************************************************************************)
EXTENDS Naturals, FiniteSets, FiniteSetsExt

CONSTANTS
    Runtimes,    \* versions of the installed model library
    Revisions,   \* revisions of the base
    Tree,        \* [Revisions -> [Runtimes -> the Linear modules]]: records of root,
                 \* block, leaf and size
    Template,    \* [Revisions -> the chat template of their tokenizer]
    Jobs,        \* training configurations: records of config, adapter, family,
                 \* revision, leaves, rank, bias, full, patched
    Frozen,      \* the profile the code has the hash of: revision, leaves
    Profiles,    \* contents the profile file may have
    Canonical,   \* configs/base: the revision P7-007 loads
    Expected,    \* the adapter P7-007 is for
    Effect,      \* [configs -> the prompts their adapter answers unlike the base]
    Drifts,      \* the prompts a base altered by the attachment may answer otherwise
    MaxUpgrades, MaxReplaced, \* bounds: library changes, files copied in by hand
    None

VARIABLES
    runtime, profile,
    trained,     \* the adapters trained so far
    compatible,  \* what require_adapter_compatible accepted last, and on what
    files,       \* the output directory: each file by the training it comes from
    run,         \* the P7-007 run in progress, or None
    model,       \* its PEFT model, or None
    accepted,    \* the report file, or None
    upgrades, replaced

vars == <<runtime, profile, trained, compatible, files, run, model, accepted,
          upgrades, replaced>>

----------------------------------------------------------------------------
(* Discovery *)

\* _component_for_path.
Component(m) ==
    CASE m.root = "visual.merger" -> "multimodal_projector"
      [] m.root = "visual" -> "vision_encoder"
      [] m.root \in {"language_model", "lm_head"} -> "text_backbone"
      [] OTHER -> "other"

\* build_inspection_report: the Linear modules of a loaded base.
Inspect(revision) == Tree[revision][runtime]

Leaves(modules) == {m.leaf : m \in modules}

\* The leaf names of the three blocks, in their order in the source.
BlockLeaves == [block \in {"self_attn", "mlp", "linear_attn"} |->
    CASE block = "self_attn" -> {"q_proj", "k_proj", "v_proj", "o_proj"}
      [] block = "mlp" -> {"gate_proj", "up_proj", "down_proj"}
      [] block = "linear_attn" -> {"in_proj_qkv", "in_proj_z", "in_proj_a", "in_proj_b",
                                   "out_proj"}]

\* _classify_module; the three blocks stand for full_attention, mlp and gated_deltanet.
Category(m) ==
    IF Component(m) # "text_backbone" THEN Component(m)
    ELSE IF m.root = "lm_head" THEN "language_output"
    ELSE IF m.block \in DOMAIN BlockLeaves /\ m.leaf \in BlockLeaves[m.block] THEN m.block
    ELSE "unclassified_text"

Selected(modules) == {m \in modules : Category(m) \in DOMAIN BlockLeaves}

\* _validate_canonical_module_roots; the Linear modules stand for their roots.
RootsAreThere(modules) ==
    {"language_model", "visual", "visual.merger", "lm_head"} \subseteq {m.root : m \in modules}

\* build_inspection_report and discover_peft_targets, which refuses what it cannot place.
Discoverable(modules) ==
    RootsAreThere(modules) /\ \A m \in modules : Category(m) # "unclassified_text"

\* LoRA adds to a module its two low-rank factors.
Added(modules, rank) == rank * MapThenSumSet(LAMBDA m : m.size, modules)

----------------------------------------------------------------------------
(* Training *)

\* PEFT: every Linear whose name ends in one of the leaves.
Wrapped(modules, leaves) == {m \in modules : m.leaf \in leaves}

\* load_frozen_selective_lora_target_profile: whoever edits the file is found out.
ProfileIsFrozen == profile = Frozen

\* verify_frozen_lora_targets.
PreflightAccepts(j) ==
    ProfileIsFrozen /\ j.revision = profile.revision /\ j.leaves = profile.leaves

\* _adapter_target_modules.
Attached(j) == Wrapped(Inspect(j.revision), j.leaves)

\* _trainable_parameter_count: where biases are trained there are more than the factors.
TrainableCount(j) == Added(Attached(j), j.rank) + (IF j.bias = "none" THEN 0 ELSE 1)

\* _effective_chat_template: TRL may have another for training on the assistant's turns.
EffectiveTemplate(j) == IF j.patched THEN "training" ELSE Template[j.revision]

\* A training ends with the manifest of what it finds attached; a wrapped module that is
\* missing everywhere leaves nothing to train.
Train(j) ==
    /\ \A t \in trained : t.job # j
    /\ run = None /\ PreflightAccepts(j) /\ Attached(j) # {}
    /\ trained' = trained \cup
        {[job |-> j, modules |-> Attached(j), count |-> TrainableCount(j),
          template |-> EffectiveTemplate(j)]}
    /\ UNCHANGED <<runtime, profile, compatible, files, run, model, accepted,
                   upgrades, replaced>>

Upgrade ==
    /\ upgrades < MaxUpgrades /\ run = None
    /\ \E r \in Runtimes \ {runtime} : runtime' = r
    /\ upgrades' = upgrades + 1
    /\ UNCHANGED <<profile, trained, compatible, files, run, model, accepted, replaced>>

----------------------------------------------------------------------------
(* Compatibility *)

\* Modules are compared by name; a size is not part of it.
Name(m) == [root |-> m.root, block |-> m.block, leaf |-> m.leaf]
Named(modules, names) == {m \in modules : Name(m) \in names}

\* Mutant of InScope: a module that is there may be trained.
InScopeAnywhere(t, target) == TRUE

\* "lora_target_scope_mismatch"
InScope(t, target) ==
    t.job.family = "language" =>
        \A m \in Named(target, {Name(n) : n \in t.modules}) : m \in Selected(target)

\* validate_adapter_compatibility without issues: identity, template, modules and, where
\* the bias allows to tell, the number of parameters.
Compatible(t, revision, target) ==
    /\ t.job.revision = revision /\ t.template = Template[revision]
    /\ {Name(m) : m \in t.modules} \subseteq {Name(m) : m \in target}
    /\ InScope(t, target)
    /\ t.job.bias = "none" =>
        t.count = Added(Named(target, {Name(m) : m \in t.modules}), t.job.rank)

\* build_compatibility_target, from an inspection and a discovery of one base, and
\* require_adapter_compatible.
Require(t, revision) ==
    LET target == Inspect(revision) IN
    /\ run = None /\ Discoverable(target) /\ Compatible(t, revision, target)
    /\ compatible' = [of |-> t, revision |-> revision, target |-> target]
    /\ UNCHANGED <<runtime, profile, trained, files, run, model, accepted, upgrades,
                   replaced>>

----------------------------------------------------------------------------
(* P7-007 *)

Files == {"weights", "config", "template", "manifest", "report", "training", "run"}

\* The archive of a finished training is extracted.
Extract(t) ==
    /\ run = None
    /\ files' = [f \in Files |-> t]
    /\ UNCHANGED <<runtime, profile, trained, compatible, run, model, accepted,
                   upgrades, replaced>>

\* One file is copied over from another output.
CopyIn(f, t) ==
    /\ run = None /\ files # None /\ files[f] # t
    /\ replaced < MaxReplaced
    /\ files' = [files EXCEPT ![f] = t]
    /\ replaced' = replaced + 1
    /\ UNCHANGED <<runtime, profile, trained, compatible, run, model, accepted, upgrades>>

\* Mutant of WeightsAreReported: the size is compared, not the hash.
WeightsAreSized == files["report"].modules = files["weights"].modules

\* What PEFT's adapter_config.json says.
PeftConfig(j) == <<j.rank, j.bias, j.leaves>>

\* _persisted_artifact: size and hash of the weights and of the PEFT configuration are
\* those of the report; two trainings may well write the same configuration.
WeightsAreReported ==
    files["report"] = files["weights"] /\
    PeftConfig(files["report"].job) = PeftConfig(files["config"].job)

\* The manifest, the training report, the training configuration and the run manifest name
\* one adapter, one configuration and the canonical base; only the two manifests name the run.
IdentitiesAgree ==
    /\ files["manifest"].job.adapter = Expected
    /\ files["manifest"].job.revision = Canonical
    /\ files["report"].job.adapter = files["manifest"].job.adapter
    /\ files["report"].job.full
    /\ files["report"].job.config = files["manifest"].job.config
    /\ files["training"].job.config = files["manifest"].job.config
    /\ files["training"].job.revision = Canonical
    /\ Template[files["template"].job.revision] = Template[files["training"].job.revision]
    /\ files["run"].job = files["manifest"].job

\* The PEFT configuration has the manifest's rank, bias and leaf names.
ConfigurationAgrees ==
    PeftConfig(files["config"].job) = <<files["manifest"].job.rank,
        files["manifest"].job.bias, Leaves(files["manifest"].modules)>>

\* validate_adapter_artifacts.
ArtifactsAgree == IdentitiesAgree /\ ConfigurationAgrees /\ WeightsAreReported

\* What answers the smoke prompts: those that come out otherwise than from the base.
Applies == model.merged \/ (model.enabled /\ model.active)
Generated == model.drift \cup (IF Applies THEN Effect[files["weights"].job.config] ELSE {})

\* run_adapter_inference_validation until the base has answered.
Open ==
    /\ run = None /\ files # None /\ ArtifactsAgree
    /\ Template[files["training"].job.revision] = Template[Canonical]
    /\ run' = [at |-> "attach", base |-> {}, enabled |-> {}, disabled |-> {}, again |-> {},
               by |-> [base |-> FALSE, enabled |-> FALSE, disabled |-> FALSE, again |-> FALSE]]
    /\ UNCHANGED <<runtime, profile, trained, compatible, files, model, accepted,
                   upgrades, replaced>>

\* PeftModel.from_pretrained, in whatever state it leaves the model, and
\* _freeze_inference_parameters; the base must be the object that was loaded.
Attach ==
    /\ run # None /\ run.at = "attach"
    /\ Wrapped(Inspect(Canonical), files["config"].job.leaves) # {}
    /\ \E enabled, active, merged \in BOOLEAN, drift \in Drifts :
         model' = [enabled |-> enabled, active |-> active, merged |-> merged, drift |-> drift,
                   trainable |-> FALSE]
    /\ run' = [run EXCEPT !.at = "enabled"]
    /\ UNCHANGED <<runtime, profile, trained, compatible, files, accepted, upgrades,
                   replaced>>

\* _require_enabled_status.
IsEnabled == model.enabled /\ model.active /\ ~model.merged /\ ~model.trainable

\* The adapted answers.
Adapted ==
    /\ run # None /\ run.at = "enabled" /\ IsEnabled
    /\ run' = [run EXCEPT !.at = "disable", !.enabled = Generated, !.by.enabled = Applies]
    /\ UNCHANGED <<runtime, profile, trained, compatible, files, model, accepted,
                   upgrades, replaced>>

\* with disable_adapter(): PEFT may disable, merge or do nothing.
Disable ==
    /\ run # None /\ run.at = "disable"
    /\ \E enabled, merged, trainable \in BOOLEAN :
         model' = [model EXCEPT !.enabled = enabled, !.merged = merged, !.trainable = trainable]
    /\ run' = [run EXCEPT !.at = "disabled"]
    /\ UNCHANGED <<runtime, profile, trained, compatible, files, accepted, upgrades,
                   replaced>>

\* Mutant of IsDisabled: only what could still be trained is looked at.
IsDisabledIfFrozen == ~model.trainable

\* _require_disabled_status.
IsDisabled == ~model.enabled /\ ~model.merged /\ ~model.trainable

\* The answers without the adapter.
Bare ==
    /\ run # None /\ run.at = "disabled" /\ IsDisabled
    /\ run' = [run EXCEPT !.at = "restore", !.disabled = Generated, !.by.disabled = Applies]
    /\ UNCHANGED <<runtime, profile, trained, compatible, files, model, accepted,
                   upgrades, replaced>>

\* The end of the context, which PEFT 0.20 leaves with inference_mode=False,
\* restore_inference_only_adapter, and the freezing; any switch may have stuck.
Restore ==
    /\ run # None /\ run.at = "restore"
    /\ \E enabled, active, merged \in BOOLEAN :
         model' = [model EXCEPT !.enabled = enabled, !.active = active, !.merged = merged,
                                !.trainable = FALSE]
    /\ run' = [run EXCEPT !.at = "again"]
    /\ UNCHANGED <<runtime, profile, trained, compatible, files, accepted, upgrades,
                   replaced>>

\* The adapted answers again.
AdaptedAgain ==
    /\ run # None /\ run.at = "again" /\ IsEnabled
    /\ run' = [run EXCEPT !.at = "report", !.again = Generated, !.by.again = Applies]
    /\ UNCHANGED <<runtime, profile, trained, compatible, files, model, accepted,
                   upgrades, replaced>>

\* validate_generation_recovery for each prompt.
Recovered == run.base = run.disabled /\ run.enabled = run.again

\* The report; an adapter that changes no smoke prompt is accepted like any other.
Report ==
    /\ run # None /\ run.at = "report" /\ Recovered
    /\ accepted' =
        [weights |-> files["weights"].job, manifest |-> files["manifest"].job,
          base |-> run.base, enabled |-> run.enabled, disabled |-> run.disabled,
          again |-> run.again, by |-> run.by]
    /\ run' = None /\ model' = None
    /\ UNCHANGED <<runtime, profile, trained, compatible, files, upgrades, replaced>>

\* A check raises, or the process dies: nothing is reported.
Abort ==
    /\ run # None
    /\ run' = None /\ model' = None
    /\ UNCHANGED <<runtime, profile, trained, compatible, files, accepted, upgrades,
                   replaced>>

Init ==
    /\ runtime \in Runtimes /\ profile \in Profiles
    /\ trained = {} /\ compatible = None /\ files = None
    /\ run = None /\ model = None /\ accepted = None /\ upgrades = 0 /\ replaced = 0

Next ==
    \/ Upgrade
    \/ \E j \in Jobs : Train(j)
    \/ \E r \in Revisions, t \in trained : Require(t, r)
    \/ \E t \in trained : Extract(t) \/ \E f \in Files : CopyIn(f, t)
    \/ Open \/ Attach \/ Adapted \/ Disable \/ Bare \/ Restore \/ AdaptedAgain
    \/ Report \/ Abort

Spec == Init /\ [][Next]_vars

----------------------------------------------------------------------------
(* Properties *)

\* An adapter declared compatible with a base finds there every module it was trained in,
\* with as many parameters in all, under the template it was trained with; a language
\* adapter trains no module of the vision tower, the projector or the output layer,
\* although PEFT matches by the last part of a name, whatever library built either tree.
LandsWhereTrained == compatible # None =>
    LET c == compatible
        there == {m \in c.target : \E n \in c.of.modules : Name(n) = Name(m)} IN
    /\ c.of.job.revision = c.revision /\ c.of.template = Template[c.revision]
    /\ \A m \in c.of.modules : \E n \in there : Name(n) = Name(m)
    /\ c.of.job.family = "language" => \A m \in there : m.root = "language_model"
    /\ c.of.job.bias = "none" => Added(there, 1) = Added(c.of.modules, 1)

\* An accepted P7-007 report is about what it names: the four rounds of answers are of the
\* untouched base, the adapter, the base and the adapter again, the weights were trained
\* under the configuration and for the adapter of the manifest, on the canonical base;
\* although an adapter need not change any of the prompts it is tried on.
ReportIsOfTheAdapter == accepted # None => LET r == accepted IN
    /\ r.by = [base |-> FALSE, enabled |-> TRUE, disabled |-> FALSE, again |-> TRUE]
    /\ r.base = {} /\ r.disabled = {}
    /\ r.enabled = Effect[r.manifest.config] /\ r.again = r.enabled
    /\ r.weights.config = r.manifest.config /\ r.weights.adapter = Expected
    /\ r.weights.revision = Canonical
====
