---- MODULE LossPreflight ----
(***************************************************************************)
(* training/loss_masking.py (P2-006), training/preflight_loss.py and the   *)
(* gates of training/preflight.py around it: which tokens of a chat are    *)
(* trained on, proved on a probe before the model is loaded.               *)
(*                                                                         *)
(* A conversation is a sequence of roles.  Rendered by a chat template it  *)
(* is a sequence of tokens, each with the turn it is of and the parts of   *)
(* that turn it spells; the rendering itself is external.                  *)
(***************************************************************************)
EXTENDS Integers, Sequences, FiniteSets, SequencesExt, FiniteSetsExt

CONSTANTS
    Templates,     \* [marked, thinks, joins], see below
    Conversations, \* sequences of "system", "user", "assistant"
    Probe,         \* canonical_probe_messages
    Plans,         \* [mode, template, targets, revision, bf16, quantized]
    Hosts,         \* [cuda, bf16, bitsandbytes]
    Profile,       \* the frozen target profile: [targets, revision]
    None

Roles == {"system", "user", "assistant"}
Parts == {"header", "think", "content", "stop"}

\* No conversation is empty, the probe ends with an answer, and markers that enclose the
\* end of an answer enclose its content.
MaskAssumption ==
    /\ Conversations \subseteq Seq(Roles) \ {<<>>}
    /\ Probe \in Seq(Roles) \ {<<>>} /\ Last(Probe) = "assistant"
    /\ Templates \subseteq
         [marked : SUBSET Parts, thinks : {"never", "prompt", "always"}, joins : BOOLEAN]
    /\ \A template \in Templates : "stop" \in template.marked => "content" \in template.marked

VARIABLES
    tokenizer,  \* [checkpoint, training]: its chat template, and TRL's for training, or None
    report,     \* the P2-006 report on a conversation, or None
    evidence    \* the evidence of a preflight, or None

vars == <<tokenizer, report, evidence>>

----------------------------------------------------------------------------
(* The rendering *)

Turn(template, conversation, n) ==
    LET role == conversation[n]
        Token(parts) == [turn |-> n, role |-> role, parts |-> parts]
        thinks == role = "assistant" /\ template.thinks = "always"
        body == (IF thinks THEN <<{"think"}>> ELSE <<>>) \o <<{"content"}, {"stop"}>>
        parts == IF role = "assistant" /\ template.joins
                 THEN <<{"header"} \cup Head(body)>> \o Tail(body)
                 ELSE <<{"header"}>> \o body
    IN  [i \in DOMAIN parts |-> Token(parts[i])]

Rendered(template, conversation) ==
    FlattenSeq([n \in DOMAIN conversation |-> Turn(template, conversation, n)])

\* With add_generation_prompt: what opens the answer, and nothing of it to be joined with.
Prompt(template, conversation) ==
    LET Opening(part) ==
          [turn |-> Len(conversation) + 1, role |-> "assistant", parts |-> {part}]
    IN  Rendered(template, conversation) \o <<Opening("header")>>
          \o (IF template.thinks = "never" THEN <<>> ELSE <<Opening("think")>>)

----------------------------------------------------------------------------
(* The loss mask *)

\* The generation markers of a template enclose parts of every answer.
HasMarkers(template) == template.marked # {}

AssistantMask(template, tokens) ==
    [i \in DOMAIN tokens |->
        tokens[i].role = "assistant" /\ tokens[i].parts \cap template.marked # {}]

StopTrained(template) == "stop" \in template.marked

Count(mask) == Cardinality({i \in DOMAIN mask : mask[i]})

Example(strategy, tokens, mask) == [strategy |-> strategy, tokens |-> tokens, mask |-> mask]

\* Mutant of Stable: the prompt may be any shorter sequence.
StableByLength(prompt, completed) == Len(prompt) < Len(completed)

\* The prompt is a proper prefix of the completed conversation.
Stable(prompt, completed) ==
    Len(prompt) < Len(completed) /\ SubSeq(completed, 1, Len(prompt)) = prompt

\* completion_only_fallback, or None where it raises.
Fallback(template, conversation) ==
    LET completed == Rendered(template, conversation)
        prompt == Prompt(template, Front(conversation))
    IN  IF /\ Len(conversation) >= 2 /\ Last(conversation) = "assistant"
           /\ Stable(prompt, completed)
        THEN Example("completion_only_fallback", completed,
                     [i \in DOMAIN completed |-> i > Len(prompt)])
        ELSE None

Effective(t) == IF t.training = None THEN t.checkpoint ELSE t.training

\* Mutant of Provable: an answer may be trained without its end.
ProvableWithoutStop(template, mask) == HasMarkers(template) /\ Count(mask) > 0

Provable(template, mask) ==
    HasMarkers(template) /\ Count(mask) > 0 /\ StopTrained(template)

\* _loss_spans: half open, from 0.
Spans(mask) ==
    {s \in (0 .. Len(mask)) \X (0 .. Len(mask)) :
        /\ s[1] < s[2] /\ \A i \in s[1] + 1 .. s[2] : mask[i]
        /\ s[1] > 0 => ~mask[s[1]]
        /\ s[2] < Len(mask) => ~mask[s[2] + 1]}

\* build_chat_loss_mask_report: the training template where it proves a mask.
MaskReport(t, conversation) ==
    LET template == Effective(t)
        tokens == Rendered(template, conversation)
        mask == AssistantMask(template, tokens)
        example == IF Provable(template, mask) THEN Example("trl_assistant_only", tokens, mask)
                   ELSE Fallback(t.checkpoint, conversation)
    IN  IF example = None THEN None
        ELSE [of |-> conversation, example |-> example, spans |-> Spans(example.mask),
              loss |-> Count(example.mask),
              ignored |-> Len(example.tokens) - Count(example.mask)]

----------------------------------------------------------------------------
(* The preflight *)

\* verify_training_loss_mask: the strategy it proves on the probe, or None.
LossEvidence(plan, t) ==
    LET made == MaskReport(t, Probe) IN
    CASE plan.template # t.checkpoint -> None
      [] plan.template = t.checkpoint /\ plan.mode = "assistant_only" ->
         IF made # None /\ made.example.strategy = "trl_assistant_only"
         THEN made.example ELSE None
      [] OTHER -> Fallback(t.checkpoint, Probe)

\* verify_frozen_lora_targets
TargetsFrozen(plan) == plan.targets = Profile.targets /\ plan.revision = Profile.revision

\* verify_training_hardware
Executable(plan, host) ==
    host.cuda /\ (plan.bf16 => host.bf16) /\ (plan.quantized => host.bitsandbytes)

\* training_rows: how a record is given to the trainer, or None where it raises.
TrainingRow(plan, conversation) ==
    IF plan.mode = "assistant_only" THEN [prompt |-> <<>>, rest |-> conversation]
    ELSE IF Len(conversation) >= 2 /\ Last(conversation) = "assistant"
         THEN [prompt |-> Front(conversation), rest |-> <<"assistant">>]
         ELSE None

\* The mask that the trainer applies to a row: by the markers of its template, or all
\* that follows the rendering of the prompt.
TrainerMask(plan, t, conversation) ==
    LET row == TrainingRow(plan, conversation) IN
    IF plan.mode = "assistant_only"
    THEN LET tokens == Rendered(Effective(t), row.rest)
         IN Example("trainer", tokens, AssistantMask(Effective(t), tokens))
    ELSE LET tokens == Rendered(t.checkpoint, conversation)
         IN Example("trainer", tokens,
                    [i \in DOMAIN tokens |-> i > Len(Prompt(t.checkpoint, row.prompt))])

Init ==
    /\ tokenizer \in [checkpoint : Templates, training : Templates \cup {None}]
    /\ report = None /\ evidence = None

\* validate_loss_masking_main, and any other caller.
Report(conversation) ==
    /\ report = None /\ MaskReport(tokenizer, conversation) # None
    /\ report' = MaskReport(tokenizer, conversation)
    /\ UNCHANGED <<tokenizer, evidence>>

\* run_training_preflight; the output directory and the data set are in AdapterTraining.
Preflight(plan, host) ==
    /\ evidence = None
    /\ TargetsFrozen(plan) /\ Executable(plan, host)
    /\ LossEvidence(plan, tokenizer) # None
    /\ evidence' = [plan |-> plan, host |-> host, example |-> LossEvidence(plan, tokenizer)]
    /\ UNCHANGED <<tokenizer, report>>

Next ==
    \/ \E c \in Conversations : Report(c)
    \/ \E p \in Plans, h \in Hosts : Preflight(p, h)

Spec == Init /\ [][Next]_vars

----------------------------------------------------------------------------
(* Properties *)

OfAnswers(example) ==
    \A i \in DOMAIN example.tokens :
        example.mask[i] => example.tokens[i].role = "assistant"

\* All of the n-th turn that its reader generates: its content and the token that ends it.
Covers(example, n) ==
    \A i \in DOMAIN example.tokens :
        example.tokens[i].turn = n /\ example.tokens[i].parts \cap {"content", "stop"} # {}
        => example.mask[i]

\* Whichever template proves it: a report selects tokens of answers only, all of the
\* last answer to its end, in spans that lie apart; and a preflight that accepts the
\* probe speaks for every conversation that the trainer may be given: no token of a
\* prompt is trained, and of what is trained no answer lacks its end.
LossIsOnTheAnswers ==
    /\ report # None =>
         LET example == report.example IN
         /\ OfAnswers(example)
         /\ report.of # <<>> /\ Last(report.of) = "assistant" => Covers(example, Len(report.of))
         /\ \A i \in DOMAIN example.mask :
              example.mask[i] <=> \E s \in report.spans : s[1] < i /\ i <= s[2]
         /\ \A s, r \in report.spans : s # r => s[2] < r[1] \/ r[2] < s[1]
         /\ report.loss = MapThenSumSet(LAMBDA s : s[2] - s[1], report.spans)
    /\ evidence # None =>
         /\ OfAnswers(evidence.example) /\ Covers(evidence.example, Len(Probe))
         /\ \A c \in Conversations : TrainingRow(evidence.plan, c) # None =>
              LET example == TrainerMask(evidence.plan, tokenizer, c) IN
              /\ OfAnswers(example)
              /\ \A n \in DOMAIN c :
                   /\ c[n] = "assistant"
                   /\ evidence.plan.mode = "assistant_only" \/ n = Len(c)
                   => Covers(example, n)
====
