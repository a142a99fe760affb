---- MODULE Curricula ----
(***************************************************************************)
(* The parts of src/tiny_qwen_coder/pvrl side by side: the environments of *)
(* a curriculum and how they are admitted, the conversation of a policy    *)
(* with one of them and what of it is trained on, and the tools that the   *)
(* policy is given in it; and, of src/tiny_qwen_coder/training, the loss   *)
(* mask of a chat.  They share no state; a property that needs more than   *)
(* one of them is stated here.                                             *)
(***************************************************************************)
EXTENDS EnvironmentAdmission

CONSTANTS Tokens, Initials, Emissions, Deltas, MaxTurns, MaxDamages

VARIABLES ledger, file, said, kept, damages

Conversation == INSTANCE TrajectoryAlignment

ASSUME ConversationAssumption == Conversation!TokenAssumption

CONSTANTS
    Width, Contracts, Offers, Outputs, Exits, Unclean, Blank,
    Graded      \* the names that a policy may not touch: what the grader keeps

VARIABLES contract, call, result

Tools == INSTANCE ToolContract WITH Reserved <- Graded

ASSUME ToolsAssumption == Tools!ToolAssumption

CONSTANTS Templates, Conversations, Probe, Plans, Hosts, Profile

VARIABLES tokenizer, maskReport, maskEvidence

Masks == INSTANCE LossPreflight WITH report <- maskReport, evidence <- maskEvidence

ASSUME MasksAssumption == Masks!MaskAssumption

----------------------------------------------------------------------------
(* Properties *)

\* The trajectory holds what happened, however it was built, saved, damaged, restored and
\* rendered anew: the tokens of the conversation, as they were exchanged; and the calls in
\* it, with their results, as they are when they are written and read again.
ExchangeSurvives == Conversation!ExchangeIsKept /\ Tools!CallsSurvive

\* A token is trained on only where the policy, or the answer, is what is learnt: in an
\* aligned trajectory and in a chat whose loss mask a report or a preflight has proved.
TrainingSignalIsSound == Conversation!LossIsOnThePolicy /\ Masks!LossIsOnTheAnswers
====
