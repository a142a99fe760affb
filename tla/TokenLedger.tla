---- MODULE TokenLedger ----
(***************************************************************************)
(* pvrl/token_ledger.py: the exact token IDs of one conversation between a *)
(* policy and its environment.  Each prompt holds all tokens before it, so *)
(* history is stored over and over and never rendered again.  The ledger   *)
(* can be saved as JSON and restored, in another process, from a file that *)
(* may have been damaged.                                                  *)
(*                                                                         *)
(* The session's identity, the kinds of segments and who appended a prompt *)
(* are left out: nothing is decided by them.  "said" is what was really    *)
(* exchanged, token by token, known to no guard.                           *)
(***************************************************************************)
EXTENDS Integers, Sequences

CONSTANTS
    Tokens,       \* token IDs
    Initials,     \* prompts a conversation may begin with
    Emissions,    \* what the policy may emit
    Deltas,       \* what the environment may append
    MaxTurns,     \* bound: outputs in a conversation
    MaxDamages,   \* bound: fields damaged in a file
    None

TokenAssumption ==
    /\ Initials \cup Emissions \cup Deltas \subseteq Seq(Tokens) \ {<<>>}
    /\ MaxTurns \in Nat /\ MaxDamages \in Nat

VARIABLES
    ledger,    \* the ledger in memory, or None
    file,      \* the saved snapshot, or None
    said,      \* the tokens exchanged in the conversation of the ledger, and by whom
    kept,      \* what had been said when the file was saved
    damages

vars == <<ledger, file, said, kept, damages>>

Init == ledger = None /\ file = None /\ said = <<>> /\ kept = <<>> /\ damages = 0

----------------------------------------------------------------------------
(* Records *)

Complete(l) == Len(l.outputs) = Len(l.prompts)

\* The property "state".
State(l) == IF Complete(l) THEN "awaiting_prompt_append" ELSE "awaiting_output"

LastPrompt(l) == l.prompts[Len(l.prompts)].ids
LastOutput(l) == l.outputs[Len(l.outputs)].ids

\* Everything that the next prompt must begin with.
History(l) == IF Complete(l) THEN LastPrompt(l) \o LastOutput(l) ELSE LastPrompt(l)

\* _segments: half-open spans that cover every token exactly once, in order.
Covers(ids, segments) ==
    /\ Len(segments) > 0
    /\ segments[1].start = 0 /\ segments[Len(segments)].end = Len(ids)
    /\ \A i \in DOMAIN segments : segments[i].start < segments[i].end
    /\ \A i \in 1 .. Len(segments) - 1 : segments[i + 1].start = segments[i].end

\* Labellings a caller may give with n tokens, right or wrong: one or two segments.
Labellings(n) ==
    LET Spans == [start : 0 .. n, end : 0 .. n]
    IN  {<<a>> : a \in Spans} \cup {<<a, b>> : a \in Spans, b \in Spans}

\* A prompt is the one before it, its answer, and what was appended.
Follows(l, i) ==
    l.prompts[i].ids = l.prompts[i - 1].ids \o l.outputs[i - 1].ids \o l.prompts[i].added

\* _chain
Chain(l) ==
    /\ Len(l.prompts) > 0 /\ Len(l.outputs) \in {Len(l.prompts) - 1, Len(l.prompts)}
    /\ l.prompts[1].ids = l.prompts[1].added
    /\ \A i \in 2 .. Len(l.prompts) : Follows(l, i)
    /\ l.state = State(l)

\* token_ledger_snapshot_from_json accepts the file.
Loads(l) ==
    /\ \A i \in DOMAIN l.prompts : l.prompts[i].ids # <<>> /\ l.prompts[i].added # <<>>
    /\ \A i \in DOMAIN l.outputs : Covers(l.outputs[i].ids, l.outputs[i].segments)
    /\ Chain(l)

----------------------------------------------------------------------------
(* The ledger *)

Tagged(ids, by) == [i \in 1 .. Len(ids) |-> [id |-> ids[i], by |-> by]]

Prompt(ids, added) == [ids |-> ids, added |-> added]

\* __init__: another conversation begins.
Open(initial) ==
    /\ ledger = None
    /\ ledger' = [prompts |-> <<Prompt(initial, initial)>>, outputs |-> <<>>]
    /\ said' = Tagged(initial, "environment")
    /\ UNCHANGED <<file, kept, damages>>

\* record_assistant_output; the bound is on the model.
RecordOutput(ids, segments) ==
    /\ ledger # None /\ ~Complete(ledger) /\ Len(ledger.outputs) < MaxTurns
    /\ Covers(ids, segments)
    /\ ledger' = [ledger EXCEPT !.outputs = Append(@, [ids |-> ids, segments |-> segments])]
    /\ said' = said \o Tagged(ids, "policy")
    /\ UNCHANGED <<file, kept, damages>>

\* Mutant of Extended: the answer is left out of the next prompt.
ExtendedPrompt(delta) ==
    [ledger EXCEPT !.prompts = Append(@, Prompt(LastPrompt(ledger) \o delta, delta))]

Extended(delta) ==
    [ledger EXCEPT !.prompts = Append(@, Prompt(History(ledger) \o delta, delta))]

\* append_prompt_delta
AppendPrompt(delta) ==
    /\ ledger # None /\ Complete(ledger) /\ Len(ledger.outputs) < MaxTurns
    /\ ledger' = Extended(delta)
    /\ said' = said \o Tagged(delta, "environment")
    /\ UNCHANGED <<file, kept, damages>>

\* Mutant of Continues: the history is compared by its length alone.
ContinuesByLength(candidate) == Len(candidate) > Len(History(ledger))

\* The prompt the environment is going to use begins with the exact history.
Continues(candidate) ==
    /\ Len(candidate) > Len(History(ledger))
    /\ SubSeq(candidate, 1, Len(History(ledger))) = History(ledger)

\* What an environment that renders the conversation again may come up with: the
\* history as it was, with one token rendered otherwise, or with one lost.
Renderings ==
    LET h == History(ledger)
    IN  {h} \cup {[h EXCEPT ![i] = x] : i \in DOMAIN h, x \in Tokens}
            \cup {SubSeq(h, 1, Len(h) - 1)}

\* adopt_verified_next_prompt: the tail of an external prompt is appended.
AdoptPrompt(rendering, delta) ==
    /\ ledger # None /\ Complete(ledger) /\ Len(ledger.outputs) < MaxTurns
    /\ rendering \in Renderings
    /\ LET candidate == rendering \o delta
       IN  /\ Continues(candidate)
           /\ ledger' = Extended(SubSeq(candidate, Len(History(ledger)) + 1, Len(candidate)))
           /\ said' = [i \in 1 .. Len(candidate) |->
                         [id |-> candidate[i],
                          by |-> IF i <= Len(said) THEN said[i].by ELSE "environment"]]
    /\ UNCHANGED <<file, kept, damages>>

\* snapshot() and token_ledger_snapshot_json, written somewhere by the caller.
Save ==
    /\ ledger # None
    /\ file' = [prompts |-> ledger.prompts, outputs |-> ledger.outputs, state |-> State(ledger)]
    /\ kept' = said
    /\ UNCHANGED <<ledger, said, damages>>

\* from_snapshot: the records of the file, as they are.
Restore ==
    /\ ledger = None /\ file # None /\ Loads(file)
    /\ ledger' = [prompts |-> file.prompts, outputs |-> file.outputs]
    /\ said' = kept
    /\ UNCHANGED <<file, kept, damages>>

\* The process that held the ledger ends.
Lose ==
    /\ ledger # None
    /\ ledger' = None /\ said' = <<>>
    /\ UNCHANGED <<file, kept, damages>>

\* One token of the file is another, one is lost at the end of a list, a segment begins or
\* ends elsewhere, or the state is the other one.
Damage ==
    /\ file # None /\ damages < MaxDamages
    /\ damages' = damages + 1
    /\ \/ \E i \in DOMAIN file.prompts, field \in {"ids", "added"}, x \in Tokens :
            \E j \in DOMAIN file.prompts[i][field] :
              file' = [file EXCEPT !.prompts[i][field][j] = x]
       \/ \E i \in DOMAIN file.prompts, field \in {"ids", "added"} :
            file' = [file EXCEPT !.prompts[i][field] = SubSeq(@, 1, Len(@) - 1)]
       \/ \E i \in DOMAIN file.outputs, x \in Tokens : \E j \in DOMAIN file.outputs[i].ids :
            file' = [file EXCEPT !.outputs[i].ids[j] = x]
       \/ \E i \in DOMAIN file.outputs :
            file' = [file EXCEPT !.outputs[i].ids = SubSeq(@, 1, Len(@) - 1)]
       \/ \E i \in DOMAIN file.outputs, bound \in {"start", "end"}, n \in 0 .. 3 :
            \E j \in DOMAIN file.outputs[i].segments :
              file' = [file EXCEPT !.outputs[i].segments[j][bound] = n]
       \/ file' = [file EXCEPT !.state = IF @ = "awaiting_output" THEN "awaiting_prompt_append"
                                         ELSE "awaiting_output"]
    /\ UNCHANGED <<ledger, said, kept>>

Next ==
    \/ \E initial \in Initials : Open(initial)
    \/ \E ids \in Emissions : \E segments \in Labellings(Len(ids)) : RecordOutput(ids, segments)
    \/ \E delta \in Deltas : AppendPrompt(delta)
    \/ ledger # None /\ \E rendering \in Renderings, delta \in Deltas :
         AdoptPrompt(rendering, delta)
    \/ Save \/ Restore \/ Lose \/ Damage

Spec == Init /\ [][Next]_vars

----------------------------------------------------------------------------
(* Properties *)

\* The ledger holds what was exchanged, token by token, however it was built, saved,
\* restored and continued, and whatever the environment rendered anew; a damaged file that
\* is accepted has at most one output of the policy wrong and every prompt token right.
ExchangeIsKept ==
    ledger # None /\ damages <= 1 =>
        /\ Len(History(ledger)) = Len(said)
        /\ \A i \in 1 .. Len(said) :
             \/ History(ledger)[i] = said[i].id
             \/ damages > 0 /\ said[i].by = "policy"
====
