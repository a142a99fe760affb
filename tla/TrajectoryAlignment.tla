---- MODULE TrajectoryAlignment ----
(***************************************************************************)
(* pvrl/trajectory_alignment.py: what a completed conversation is trained  *)
(* on.  The input tokens, the loss mask and the spans of every turn and    *)
(* segment are derived from the token ledger, and only these are accepted. *)
(* Offsets are those of the code: from 0, spans half open.                 *)
(***************************************************************************)
EXTENDS TokenLedger, SequencesExt

Trainable(l) == Complete(l) /\ Len(l.outputs) > 0

InputStart(l, t) == Len(l.prompts[t].ids)
InputEnd(l, t) == InputStart(l, t) + Len(l.outputs[t].ids)

\* action_cursor at turn t
ActionStart(l, t) ==
    LET start[n \in 1 .. Len(l.outputs)] ==
          IF n = 1 THEN 0 ELSE start[n - 1] + Len(l.outputs[n - 1].ids)
    IN  start[t]

Turn(l, t) ==
    [inputStart |-> InputStart(l, t), inputEnd |-> InputEnd(l, t),
     actionStart |-> ActionStart(l, t),
     actionEnd |-> ActionStart(l, t) + Len(l.outputs[t].ids)]

Segments(l, t) ==
    LET segs == l.outputs[t].segments
    IN  [s \in DOMAIN segs |->
          [inputStart |-> InputStart(l, t) + segs[s].start,
           inputEnd |-> InputStart(l, t) + segs[s].end,
           actionStart |-> ActionStart(l, t) + segs[s].start,
           actionEnd |-> ActionStart(l, t) + segs[s].end]]

\* Mutant of Marked: the slice is one token longer.
MarkedPastEnd(l, i) ==
    \E t \in DOMAIN l.outputs : InputStart(l, t) < i /\ i <= InputEnd(l, t) + 1

\* The loss mask at the i-th input token.
Marked(l, i) == \E t \in DOMAIN l.outputs : InputStart(l, t) < i /\ i <= InputEnd(l, t)

\* _derive_alignment
Alignment(l) ==
    [input |-> History(l),
     actions |-> FlattenSeq([t \in DOMAIN l.outputs |-> l.outputs[t].ids]),
     mask |-> [i \in 1 .. Len(History(l)) |-> Marked(l, i)],
     turns |-> [t \in DOMAIN l.outputs |-> Turn(l, t)],
     segments |-> FlattenSeq([t \in DOMAIN l.outputs |-> Segments(l, t)])]

\* The tokens that the mask selects.
Selected(a) ==
    FlattenSeq([i \in DOMAIN a.input |-> IF a.mask[i] THEN <<a.input[i]>> ELSE <<>>])

\* The outputs lie where the turns say, and the mask recovers the actions.
Aligned(l) ==
    LET a == Alignment(l)
    IN  /\ \A t \in DOMAIN l.outputs :
             SubSeq(a.input, InputStart(l, t) + 1, InputEnd(l, t)) = l.outputs[t].ids
        /\ Selected(a) = a.actions

\* _validate_audit_spans: from the counts, the spans and the hash of the mask alone.
Consecutive(spans, count) ==
    /\ Len(spans) > 0
    /\ spans[1].actionStart = 0 /\ spans[Len(spans)].actionEnd = count
    /\ \A i \in 1 .. Len(spans) - 1 : spans[i + 1].actionStart = spans[i].actionEnd

AuditAccepts(a) ==
    /\ Consecutive(a.turns, Len(a.actions)) /\ Consecutive(a.segments, Len(a.actions))
    /\ \A i \in DOMAIN a.turns :
         a.turns[i].inputEnd <= Len(a.input) /\ a.turns[i].actionEnd <= Len(a.actions)
    /\ a.mask = [i \in 1 .. Len(a.input) |->
                   \E t \in DOMAIN a.turns :
                     a.turns[t].inputStart < i /\ i <= a.turns[t].inputEnd]

----------------------------------------------------------------------------
(* Properties *)

\* "Unmask only policy-generated assistant/action tokens": whatever was restored, adopted
\* or repaired, the loss falls on the very tokens that the policy emitted, once each and in
\* their order, and on nothing that came from the environment; turns and segments both cut
\* these tokens into consecutive spans over the same places of the input, and the audit that
\* keeps only the spans accepts them.
LossIsOnThePolicy ==
    ledger # None /\ Trainable(ledger) =>
        LET a == Alignment(ledger)
        IN  /\ Aligned(ledger) /\ AuditAccepts(a)
            /\ damages <= 1 => \A i \in 1 .. Len(said) : a.mask[i] <=> said[i].by = "policy"
            /\ \A spans \in {a.turns, a.segments} : \A i \in DOMAIN spans :
                 /\ spans[i].actionStart < spans[i].actionEnd
                 /\ SubSeq(a.input, spans[i].inputStart + 1, spans[i].inputEnd) =
                      SubSeq(a.actions, spans[i].actionStart + 1, spans[i].actionEnd)
====
