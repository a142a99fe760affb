---- MODULE CandidateScoringProofs ----
(***************************************************************************)
(* Theorems about ExecutionHarness, for pipes, reads and limits of any     *)
(* size, any number of background processes and any number of faults; and  *)
(* about SuiteEvaluation, for suites, tests, baselines and gains of any    *)
(* size, whatever a candidate does to the process and the lines of its     *)
(* runner.                                                                 *)
(***************************************************************************)
EXTENDS CandidateScoring, FiniteSetTheorems, SequenceTheorems, TLAPS

----------------------------------------------------------------------------
(* The harness: the inductive invariant *)

Shape ==
    /\ proc \in [Procs -> {"none", "running", "dead"}]
    /\ holds \in [Procs -> SUBSET Streams]
    /\ reader \in [Streams -> {"none", "reading", "done", "failed"}]
    /\ pipe \in [Streams -> Nat] /\ written \in [Streams -> Nat]
    /\ chunk \in [Streams -> Nat] /\ data \in [Streams -> Nat]
    /\ truncated \in [Streams -> BOOLEAN] /\ timedOut \in BOOLEAN

\* What the thread of a stream has put into its buffer, or dropped.
Drained(s) == written[s] - pipe[s] - chunk[s]

\* Every byte written is in the pipe, in the read in progress, or was drained; and what
\* was drained is in the buffer as far as there is room.
Counted ==
    \A s \in Streams : /\ Drained(s) \in Nat
                       /\ data[s] = Min2(Drained(s), Limit)
                       /\ truncated[s] <=> Drained(s) > Limit

\* Only a running process holds a stream.
Holders == \A p \in Procs : holds[p] # {} => Running(p)

\* A thread that is done has seen the end, which is final.
Drainers ==
    \A s \in Streams : reader[s] = "done" => chunk[s] = 0 /\ AtEof(s)

\* A result is given at the end only, when both threads are done and the leader is over:
\* it has ended, or was killed with its group.
Control ==
    /\ pc \notin {"launch", "ended"} => \A s \in Streams : reader[s] # "none"
    /\ pc = "launch" => proc[Leader] = "none" /\ \A s \in Streams : reader[s] = "none"
    /\ pc = "collect" => \A s \in Streams : reader[s] # "reading"
    /\ Leader \in grouped
    /\ pc \in {"join", "collect"} => ~Running(Leader)
    /\ Returns => /\ pc = "ended" /\ ~Running(Leader)
                  /\ \A s \in Streams : reader[s] = "done"

HarnessInv == Shape /\ Counted /\ Holders /\ Drainers /\ Control /\ AccountIsTrue

LEMMA InitHarnessInv ==
  ASSUME Init
  PROVE  HarnessInv
<1>1. Shape
  BY DEF Init, Shape, Zero
<1>2. Counted
  BY HarnessAssumption DEF Init, Zero, Counted, Drained, Min2
<1>3. Holders /\ Drainers /\ Control
  BY DEF Init, Holders, Drainers, Control, Running, Returns, Procs
<1>4. AccountIsTrue
  BY DEF Init, AccountIsTrue, Returns
<1> QED BY <1>1, <1>2, <1>3, <1>4 DEF HarnessInv

\* Where a thread is done nothing can be written.
LEMMA DoneIsOver ==
  ASSUME HarnessInv, NEW s \in Streams, reader[s] = "done"
  PROVE  /\ \A p \in Procs : s \notin holds[p]
         /\ pipe[s] = 0 /\ chunk[s] = 0 /\ Drained(s) = written[s]
BY DEF HarnessInv, Shape, Drainers, AtEof, Drained

\* A result stays true: of what it speaks, nothing changes any more.
LEMMA ResultStays ==
  ASSUME HarnessInv, UNCHANGED <<outcome, timedOut, code>>,
         Returns => written' = written /\ ~Running(Leader)'
  PROVE  AccountIsTrue'
BY DEF HarnessInv, AccountIsTrue, Returns

----------------------------------------------------------------------------
(* The processes *)

LEMMA WriteInv ==
  ASSUME HarnessInv, NEW p \in Procs, NEW s \in Streams, Write(p, s)
  PROVE  HarnessInv'
<1>1. /\ s \in holds[p]
      /\ pipe' = [pipe EXCEPT ![s] = pipe[s] + 1]
      /\ written' = [written EXCEPT ![s] = written[s] + 1]
      /\ UNCHANGED <<harness, system, readers, faults>>
  BY DEF Write
<1>2. Shape'
  BY <1>1 DEF HarnessInv, Shape, harness, system, readers
<1>3. /\ pipe'[s] = pipe[s] + 1 /\ written'[s] = written[s] + 1
      /\ \A r \in Streams \ {s} : pipe'[r] = pipe[r] /\ written'[r] = written[r]
  BY <1>1 DEF HarnessInv, Shape
<1>4. \A r \in Streams : Drained(r)' = Drained(r)
  BY <1>1, <1>3 DEF HarnessInv, Shape, Drained, readers
<1>5. Counted'
  BY <1>1, <1>4 DEF HarnessInv, Counted, readers
<1>6. reader[s] # "done"
  BY <1>1, DoneIsOver
<1>7. Drainers'
  BY <1>1, <1>3, <1>6 DEF HarnessInv, Drainers, AtEof, readers, system
<1>8. Holders' /\ Control'
  BY <1>1 DEF HarnessInv, Holders, Control, Running, Returns, readers, system, harness
<1>9. AccountIsTrue'
  BY <1>1, <1>6, ResultStays DEF HarnessInv, Control, system, harness
<1> QED BY <1>2, <1>5, <1>7, <1>8, <1>9 DEF HarnessInv

\* A step of the processes that writes nothing: no stream is taken that nobody held.
LEMMA ProcessStep ==
  ASSUME HarnessInv, UNCHANGED <<timedOut, outcome, pipe, written, readers, faults>>,
         Shape', Holders', Control',
         Returns => UNCHANGED code /\ ~Running(Leader)',
         \A s \in Streams : (\A p \in Procs : s \notin holds[p]) =>
                             \A p \in Procs : s \notin holds'[p]
  PROVE  HarnessInv'
<1>1. Counted'
  BY DEF HarnessInv, Counted, Drained, readers
<1>2. Drainers'
  BY DEF HarnessInv, Drainers, AtEof, readers
<1>3. AccountIsTrue'
  BY DEF HarnessInv, AccountIsTrue, Returns
<1> QED BY <1>1, <1>2, <1>3 DEF HarnessInv

LEMMA ForkInv ==
  ASSUME HarnessInv, NEW c \in Children, Fork(c)
  PROVE  HarnessInv'
<1>1. /\ Running(Leader) /\ proc[c] = "none" /\ proc' = [proc EXCEPT ![c] = "running"]
      /\ grouped \subseteq grouped'
      /\ UNCHANGED <<harness, code, container, pipe, written, readers, faults>>
  BY DEF Fork
<1>2. PICK open \in SUBSET (ChildStreams \cap holds[Leader]) :
        holds' = [holds EXCEPT ![c] = open]
  BY DEF Fork
<1>3. c \in Procs /\ Leader \in Procs /\ c # Leader /\ open \in SUBSET Streams
  BY HarnessAssumption DEF Procs, Streams
<1>4. Shape'
  BY <1>1, <1>2, <1>3 DEF HarnessInv, Shape, harness, readers
<1>5. Holders'
  BY <1>1, <1>2, <1>3 DEF HarnessInv, Shape, Holders, Running
<1>6. Control'
  BY <1>1, <1>3 DEF HarnessInv, Shape, Control, Running, Returns, harness, readers
<1>7. ~Returns
  BY <1>1 DEF HarnessInv, Control
<1>8. ASSUME NEW s \in Streams, \A p \in Procs : s \notin holds[p], NEW p \in Procs
      PROVE  s \notin holds'[p]
  BY <1>2, <1>3, <1>8 DEF HarnessInv, Shape
<1> QED BY <1>1, <1>4, <1>5, <1>6, <1>7, <1>8, ProcessStep DEF harness

LEMMA CloseInv ==
  ASSUME HarnessInv, NEW p \in Procs, NEW s \in Streams, Close(p, s)
  PROVE  HarnessInv'
<1>1. /\ holds' = [holds EXCEPT ![p] = holds[p] \ {s}]
      /\ UNCHANGED <<harness, proc, grouped, code, pipe, written, readers, faults>>
  BY DEF Close
<1>2. /\ holds' \in [Procs -> SUBSET Streams]
      /\ \A q \in Procs : holds'[q] \subseteq holds[q]
  BY <1>1 DEF HarnessInv, Shape
<1>3. Shape'
  BY <1>1, <1>2 DEF HarnessInv, Shape, harness, readers
<1>4. Holders'
  BY <1>1, <1>2 DEF HarnessInv, Holders, Running
<1>5. Control'
  BY <1>1 DEF HarnessInv, Control, Running, Returns, harness, readers
<1>6. Returns => ~Running(Leader)'
  BY <1>1 DEF HarnessInv, Control, Running
<1> QED BY <1>1, <1>2, <1>3, <1>4, <1>5, <1>6, ProcessStep DEF harness

\* Processes die, at the end of their own or by the harness.
LEMMA DeathShape ==
  ASSUME HarnessInv, NEW dead \in SUBSET Procs, \A p \in dead : Running(p), Dead(dead)
  PROVE  /\ proc' \in [Procs -> {"none", "running", "dead"}]
         /\ holds' \in [Procs -> SUBSET Streams]
         /\ Holders'
         /\ \A p \in Procs : holds'[p] \subseteq holds[p]
         /\ Running(Leader)' => Running(Leader)
         /\ proc[Leader] = "none" => proc'[Leader] = "none"
<1>1. \A p \in Procs : /\ proc'[p] = IF p \in dead THEN "dead" ELSE proc[p]
                       /\ holds'[p] = IF p \in dead THEN {} ELSE holds[p]
  BY DEF Dead
<1>2. proc' \in [Procs -> {"none", "running", "dead"}] /\ holds' \in [Procs -> SUBSET Streams]
  BY DEF Dead, HarnessInv, Shape
<1>3. Leader \in Procs
  BY DEF Procs
<1> QED BY <1>1, <1>2, <1>3 DEF HarnessInv, Holders, Running

LEMMA ExitInv ==
  ASSUME HarnessInv, NEW p \in Procs, Exit(p)
  PROVE  HarnessInv'
<1>1. /\ Running(p) /\ Dead({p}) /\ (p # Leader => UNCHANGED code)
      /\ UNCHANGED <<harness, grouped, pipe, written, readers, faults>>
  BY DEF Exit
<1>2. /\ proc' \in [Procs -> {"none", "running", "dead"}]
      /\ holds' \in [Procs -> SUBSET Streams] /\ Holders'
      /\ \A q \in Procs : holds'[q] \subseteq holds[q]
      /\ Running(Leader)' => Running(Leader)
      /\ proc[Leader] = "none" => proc'[Leader] = "none"
  BY <1>1, DeathShape
<1>3. Shape'
  BY <1>1, <1>2 DEF HarnessInv, Shape, harness, readers
<1>4. Control'
  BY <1>1, <1>2 DEF HarnessInv, Control, Returns, harness, readers
<1>5. Returns => ~Running(Leader)
  BY DEF HarnessInv, Control
<1> QED BY <1>1, <1>2, <1>3, <1>4, <1>5, ProcessStep DEF harness

----------------------------------------------------------------------------
(* The threads *)

\* A thread moves what is in its hands; the others, and the processes, stay.
LEMMA ReaderMoves ==
  ASSUME HarnessInv, NEW s \in Streams, reader[s] = "reading",
         UNCHANGED <<harness, system, written, faults>>,
         reader' \in [Streams -> {"none", "reading", "done", "failed"}],
         reader'[s] # "none", \A r \in Streams \ {s} : reader'[r] = reader[r],
         \A r \in Streams \ {s} : /\ pipe'[r] = pipe[r] /\ chunk'[r] = chunk[r]
                                  /\ data'[r] = data[r] /\ truncated'[r] = truncated[r],
         pc = "collect" => reader'[s] # "reading",
         reader'[s] = "done" => chunk'[s] = 0 /\ AtEof(s)',
         pipe' \in [Streams -> Nat], chunk' \in [Streams -> Nat], data' \in [Streams -> Nat],
         truncated' \in [Streams -> BOOLEAN],
         Drained(s)' \in Nat, data'[s] = Min2(Drained(s)', Limit),
         truncated'[s] <=> Drained(s)' > Limit
  PROVE  HarnessInv'
<1>1. Shape'
  BY DEF HarnessInv, Shape, harness, system
<1>2. \A r \in Streams \ {s} : Drained(r)' = Drained(r)
  BY DEF Drained
<1>3. Counted'
  BY <1>2 DEF HarnessInv, Counted
<1>4. Holders'
  BY DEF HarnessInv, Holders, Running, system
<1>5. Drainers'
  BY DEF HarnessInv, Drainers, AtEof, system
<1>6. ~Returns
  BY DEF HarnessInv, Control
<1>7. Control'
  BY <1>6 DEF HarnessInv, Control, Running, Returns, harness, system
<1>8. AccountIsTrue'
  BY <1>6 DEF AccountIsTrue, Returns, harness
<1> QED BY <1>1, <1>3, <1>4, <1>5, <1>7, <1>8 DEF HarnessInv

LEMMA FillInv ==
  ASSUME HarnessInv, NEW s \in Streams, Fill(s)
  PROVE  HarnessInv'
<1>1. /\ reader[s] = "reading" /\ pipe[s] > 0
      /\ pipe' = [pipe EXCEPT ![s] = pipe[s] - 1]
      /\ chunk' = [chunk EXCEPT ![s] = chunk[s] + 1]
      /\ UNCHANGED <<harness, system, written, reader, data, truncated, faults>>
  BY DEF Fill
<1>2. /\ pipe' \in [Streams -> Nat] /\ chunk' \in [Streams -> Nat]
      /\ pipe'[s] = pipe[s] - 1 /\ chunk'[s] = chunk[s] + 1
      /\ \A r \in Streams \ {s} : pipe'[r] = pipe[r] /\ chunk'[r] = chunk[r]
  BY <1>1 DEF HarnessInv, Shape
<1>3. Drained(s)' = Drained(s)
  BY <1>1, <1>2 DEF HarnessInv, Shape, Drained
<1>4. pc # "collect"
  BY <1>1 DEF HarnessInv, Control
<1>5. /\ Drained(s)' \in Nat /\ data'[s] = Min2(Drained(s)', Limit)
      /\ truncated'[s] <=> Drained(s)' > Limit
  BY <1>1, <1>3 DEF HarnessInv, Counted
<1>6. /\ reader' \in [Streams -> {"none", "reading", "done", "failed"}]
      /\ data' \in [Streams -> Nat] /\ truncated' \in [Streams -> BOOLEAN]
  BY <1>1 DEF HarnessInv, Shape
<1> QED BY <1>1, <1>2, <1>4, <1>5, <1>6, ReaderMoves

\* The buffer takes of the chunk what there is room for; the flag says whether that was all.
LEMMA DeliverInv ==
  ASSUME HarnessInv, NEW s \in Streams, Deliver(s)
  PROVE  HarnessInv'
<1> DEFINE remaining == Limit - data[s]
           full == chunk[s] > remaining
<1>1. /\ reader[s] = "reading"
      /\ data' = [data EXCEPT ![s] = data[s] + Min2(chunk[s], remaining)]
      /\ truncated' = [truncated EXCEPT ![s] = truncated[s] \/ full]
      /\ chunk' = [chunk EXCEPT ![s] = 0]
      /\ UNCHANGED <<harness, system, pipe, written, reader, faults>>
  BY DEF Deliver
<1>2. /\ written[s] \in Nat /\ pipe[s] \in Nat /\ chunk[s] \in Nat /\ data[s] \in Nat
      /\ Limit \in Nat /\ Drained(s) \in Nat /\ data[s] = Min2(Drained(s), Limit)
  BY HarnessAssumption DEF HarnessInv, Shape, Counted
<1>3. data[s] + Min2(chunk[s], remaining) \in Nat
  BY <1>2 DEF Min2
<1>4. /\ data' \in [Streams -> Nat] /\ chunk' \in [Streams -> Nat]
      /\ data'[s] = data[s] + Min2(chunk[s], remaining) /\ chunk'[s] = 0
      /\ \A r \in Streams \ {s} : data'[r] = data[r] /\ chunk'[r] = chunk[r]
  BY <1>1, <1>3 DEF HarnessInv, Shape
<1>5. /\ Drained(s)' = Drained(s) + chunk[s]
  BY <1>1, <1>2, <1>4 DEF Drained
<1>6. Drained(s)' \in Nat /\ data'[s] = Min2(Drained(s)', Limit)
  BY <1>2, <1>4, <1>5 DEF Min2
<1>7. (Drained(s) > Limit \/ full) <=> Drained(s)' > Limit
  BY <1>2, <1>5 DEF Min2
<1>8. truncated[s] <=> Drained(s) > Limit
  BY DEF HarnessInv, Counted
<1> HIDE DEF full
<1>9. /\ truncated'[s] <=> (truncated[s] \/ full)
      /\ \A r \in Streams \ {s} : truncated'[r] = truncated[r]
  BY <1>1, Zenon DEF HarnessInv, Shape
<1>10. truncated' \in [Streams -> BOOLEAN]
  BY <1>1, Zenon DEF HarnessInv, Shape
<1>11. truncated'[s] <=> Drained(s)' > Limit
  BY <1>7, <1>8, <1>9, Zenon
<1>12. pc # "collect" /\ reader' \in [Streams -> {"none", "reading", "done", "failed"}]
  BY <1>1 DEF HarnessInv, Shape, Control
<1>13. pipe' \in [Streams -> Nat]
  BY <1>1 DEF HarnessInv, Shape
<1> QED BY <1>1, <1>4, <1>6, <1>9, <1>10, <1>11, <1>12, <1>13, ReaderMoves

\* The thread ends at the end of its stream, or by a read that raises.
LEMMA ReaderEndsInv ==
  ASSUME HarnessInv, NEW s \in Streams, ReaderEnds(s) \/ ReaderFails(s)
  PROVE  HarnessInv'
<1>1. /\ reader[s] = "reading"
      /\ UNCHANGED <<harness, system, pipe, written, chunk, data, truncated>>
      /\ \/ reader' = [reader EXCEPT ![s] = "done"] /\ chunk[s] = 0 /\ AtEof(s)
         \/ reader' = [reader EXCEPT ![s] = "failed"]
  BY DEF ReaderEnds, ReaderFails
<1>2. /\ reader' \in [Streams -> {"none", "reading", "done", "failed"}]
      /\ \A r \in Streams \ {s} : reader'[r] = reader[r]
      /\ \/ reader'[s] = "done" /\ chunk[s] = 0 /\ AtEof(s)
         \/ reader'[s] = "failed"
  BY <1>1 DEF HarnessInv, Shape
<1>3. Shape' /\ Counted' /\ Holders'
  BY <1>1, <1>2 DEF HarnessInv, Shape, Counted, Drained, Holders, Running, harness, system
<1>4. Drainers'
  BY <1>1, <1>2 DEF HarnessInv, Drainers, AtEof, system
<1>5. ~Returns
  BY <1>1 DEF HarnessInv, Control
<1>6. Control'
  BY <1>1, <1>2, <1>5 DEF HarnessInv, Control, Running, Returns, harness, system
<1>7. AccountIsTrue'
  BY <1>1, <1>5 DEF AccountIsTrue, Returns, harness
<1> QED BY <1>3, <1>4, <1>6, <1>7 DEF HarnessInv

----------------------------------------------------------------------------
(* run() *)

LEMMA LaunchInv ==
  ASSUME HarnessInv, Launch
  PROVE  HarnessInv'
<1>1. /\ pc = "launch" /\ ~Returns
      /\ UNCHANGED <<timedOut, grouped, code, pipe, written, chunk, data, truncated, faults>>
  BY DEF Launch, HarnessInv, Control
<1>2. CASE /\ pc' = "wait" /\ proc' = [proc EXCEPT ![Leader] = "running"]
           /\ holds' = [holds EXCEPT ![Leader] = Streams]
           /\ reader' = [s \in Streams |-> "reading"] /\ UNCHANGED outcome
  <2>1. Leader \in Procs
    BY DEF Procs
  <2>2. Shape'
    BY <1>1, <1>2, <2>1 DEF HarnessInv, Shape
  <2>3. Holders'
    BY <1>2, <2>1 DEF HarnessInv, Shape, Holders, Running
  <2>4. Counted' /\ Drainers'
    BY <1>1, <1>2 DEF HarnessInv, Counted, Drained, Drainers
  <2>5. Control' /\ AccountIsTrue'
    BY <1>1, <1>2 DEF HarnessInv, Control, AccountIsTrue, Returns
  <2> QED BY <2>2, <2>3, <2>4, <2>5 DEF HarnessInv
<1>3. CASE pc' = "ended" /\ outcome' = Raised /\ UNCHANGED <<proc, holds, reader, container>>
  <2>1. Shape' /\ Counted' /\ Holders' /\ Drainers'
    BY <1>1, <1>3 DEF HarnessInv, Shape, Counted, Drained, Holders, Running, Drainers, AtEof
  <2>2. Control' /\ AccountIsTrue'
    BY <1>1, <1>3 DEF HarnessInv, Control, AccountIsTrue, Returns
  <2> QED BY <2>1, <2>2 DEF HarnessInv
<1> QED BY <1>2, <1>3 DEF Launch

\* A step of run() between launch and end that leaves processes and threads alone.
LEMMA ControlMoves ==
  ASSUME HarnessInv, UNCHANGED <<outcome, proc, grouped, holds, pipe, written, readers>>,
         pc' \in {"join", "collect"} => ~Running(Leader),
         pc \notin {"launch", "ended"}, pc' \notin {"launch", "ended"},
         timedOut' \in BOOLEAN,
         pc' = "collect" => \A s \in Streams : reader[s] # "reading"
  PROVE  HarnessInv'
<1>1. ~Returns /\ ~Returns'
  BY DEF HarnessInv, Control, Returns
<1>2. Shape' /\ Counted' /\ Holders' /\ Drainers'
  BY DEF HarnessInv, Shape, Counted, Drained, Holders, Running, Drainers, AtEof, readers
<1>3. Control' /\ AccountIsTrue'
  BY <1>1 DEF HarnessInv, Control, AccountIsTrue, Running, readers
<1> QED BY <1>2, <1>3 DEF HarnessInv

LEMMA WaitInv ==
  ASSUME HarnessInv,
         WaitReturns \/ WaitTimesOut \/ RemoveContainer \/ JoinReaders \/ JoinTimesOut
  PROVE  HarnessInv'
<1>1. timedOut \in BOOLEAN /\ (pc = "join" => ~Running(Leader))
  BY DEF HarnessInv, Shape, Control
<1> QED BY <1>1, ControlMoves
        DEF WaitReturns, WaitTimesOut, RemoveContainer, JoinReaders, JoinTimesOut, system

LEMMA KillGroupInv ==
  ASSUME HarnessInv, KillGroup
  PROVE  HarnessInv'
<1>1. /\ pc = "kill" /\ pc' = "join"
      /\ UNCHANGED <<timedOut, outcome, grouped, pipe, written, readers, faults>>
  BY DEF KillGroup
<1>2. CASE Running(Leader)
  <2> DEFINE dead == {p \in grouped : Running(p)} \cap Procs
  <2>1. Dead({p \in grouped : Running(p)})
    BY <1>2 DEF KillGroup
  <2>2. Dead(dead)
    BY <2>1 DEF Dead
  <2>3. /\ proc' \in [Procs -> {"none", "running", "dead"}]
        /\ holds' \in [Procs -> SUBSET Streams] /\ Holders'
        /\ \A p \in Procs : holds'[p] \subseteq holds[p]
    BY <2>2, DeathShape
  <2>4. ~Returns
    BY <1>1 DEF HarnessInv, Control
  <2>5. Shape'
    BY <1>1, <2>3 DEF HarnessInv, Shape, readers
  <2>6. ~Running(Leader)'
    BY <1>2, <2>2 DEF HarnessInv, Control, Dead, Running, Procs
  <2>7. Control'
    BY <1>1, <2>4, <2>6 DEF HarnessInv, Control, Returns, readers
  <2> QED BY <1>1, <2>3, <2>4, <2>5, <2>7, ProcessStep
<1>3. CASE ~Running(Leader)
  <2>1. UNCHANGED <<proc, holds>> /\ timedOut' \in BOOLEAN
    BY <1>1, <1>3 DEF KillGroup, HarnessInv, Shape
  <2> QED BY <1>1, <1>3, <2>1, ControlMoves
<1> QED BY <1>2, <1>3

\* A stream is closed under its thread, which fails then.
LEMMA CloseStreamInv ==
  ASSUME HarnessInv, NEW s \in Streams, NEW label, NEW next,
         label \notin {"launch", "ended", "collect"}, next \notin {"launch", "join", "collect"},
         CloseStream(label, s, next)
  PROVE  HarnessInv'
<1>1. /\ pc = label /\ pc' = next
      /\ reader' = [reader EXCEPT ![s] = IF reader[s] = "reading" THEN "failed" ELSE reader[s]]
      /\ outcome' = IF next = "ended" THEN Raised ELSE outcome
      /\ UNCHANGED <<timedOut, system, pipe, written, chunk, data, truncated>>
  BY DEF CloseStream
<1>2. ~Returns /\ ~Returns'
  BY <1>1 DEF HarnessInv, Control, Returns
<1>3. /\ reader' \in [Streams -> {"none", "reading", "done", "failed"}]
      /\ \A r \in Streams : reader'[r] \in {"none", "done"} => reader'[r] = reader[r]
  BY <1>1 DEF HarnessInv, Shape
<1>4. Shape' /\ Counted' /\ Holders'
  BY <1>1, <1>3 DEF HarnessInv, Shape, Counted, Drained, Holders, Running, system
<1>5. Drainers'
  BY <1>1, <1>3 DEF HarnessInv, Drainers, AtEof, system
<1>6. Control' /\ AccountIsTrue'
  BY <1>1, <1>2, <1>3 DEF HarnessInv, Control, Running, AccountIsTrue, system
<1> QED BY <1>4, <1>5, <1>6 DEF HarnessInv

\* A result is built only when both threads have drained their stream to its end.
LEMMA FinishInv ==
  ASSUME HarnessInv, Finish
  PROVE  HarnessInv'
<1>1. /\ pc = "collect" /\ pc' = "ended"
      /\ UNCHANGED <<timedOut, system, pipe, written, readers>>
  BY DEF Finish
<1>2. Shape' /\ Counted' /\ Holders' /\ Drainers'
  BY <1>1 DEF HarnessInv, Shape, Counted, Drained, Holders, Running, Drainers, AtEof,
              readers, system
<1>3. CASE outcome' = Raised
  BY <1>1, <1>2, <1>3 DEF HarnessInv, Control, AccountIsTrue, Returns, system
<1>4. CASE /\ \A s \in Streams : reader[s] # "failed"
           /\ outcome' = [status |-> IF timedOut THEN "timed_out"
                                     ELSE IF code = 0 THEN "succeeded" ELSE "failed",
                          exit |-> IF timedOut THEN None ELSE code,
                          size |-> data, cut |-> truncated]
  <2>1. \A s \in Streams : reader[s] = "done"
    BY <1>1, <1>4 DEF HarnessInv, Shape, Control
  <2>2. /\ ~Running(Leader)
        /\ \A s \in Streams : Drained(s) = written[s]
    BY <1>1, <2>1, DoneIsOver DEF HarnessInv, Control
  <2>3. Control'
    BY <1>1, <2>1, <2>2 DEF HarnessInv, Control, Running, readers, system
  <2>4. /\ outcome'.size = data /\ outcome'.cut = truncated
        /\ (outcome'.status = "timed_out") <=> timedOut
        /\ outcome'.status = "succeeded" => code = 0
        /\ outcome'.status = "failed" => code # 0
    BY <1>4
  <2>5. \A s \in Streams : data[s] = Min2(written[s], Limit)
    BY <2>2 DEF HarnessInv, Counted
  <2>6. \A s \in Streams : truncated[s] <=> written[s] > Limit
    BY <2>2, Zenon DEF HarnessInv, Counted
  <2>7. /\ ~Running(Leader)' /\ UNCHANGED <<code, written, timedOut>>
    BY <1>1, <2>2 DEF Running, system
  <2>8. \A s \in Streams : Min2(written[s], Limit)' = Min2(written[s], Limit)
    BY <2>7 DEF Min2
  <2>9. AccountIsTrue'
    BY <2>4, <2>5, <2>6, <2>7, <2>8 DEF AccountIsTrue
  <2> QED BY <1>2, <2>3, <2>9 DEF HarnessInv
<1> QED BY <1>3, <1>4 DEF Finish

----------------------------------------------------------------------------
LEMMA NextHarnessInv ==
  ASSUME HarnessInv, [Next]_vars
  PROVE  HarnessInv'
<1>1. CASE HarnessStep
  BY <1>1, LaunchInv, WaitInv, KillGroupInv, CloseStreamInv, FinishInv
     DEF HarnessStep, Streams
<1>2. CASE \E s \in Streams : ReaderStep(s) \/ ReaderFails(s)
  BY <1>2, FillInv, DeliverInv, ReaderEndsInv DEF ReaderStep
<1>3. CASE \E p \in Procs : Exit(p) \/ \E s \in Streams : Write(p, s) \/ Close(p, s)
  BY <1>3, ExitInv, WriteInv, CloseInv
<1>4. CASE \E c \in Children : Fork(c)
  BY <1>4, ForkInv
<1>5. CASE ContainerStarts \/ ContainerEnds \/ UNCHANGED vars
  <2>1. UNCHANGED <<harness, proc, grouped, holds, code, pipe, written, readers>>
    BY <1>5 DEF ContainerStarts, ContainerEnds, vars, system
  <2>2. Shape' /\ Counted' /\ Holders' /\ Drainers' /\ Control'
    BY <2>1 DEF HarnessInv, Shape, Counted, Drained, Holders, Running, Drainers, AtEof,
                Control, Returns, harness, readers
  <2>3. AccountIsTrue'
    BY <2>1 DEF HarnessInv, AccountIsTrue, Returns, Running, Min2, harness
  <2> QED BY <2>2, <2>3 DEF HarnessInv
<1> QED BY <1>1, <1>2, <1>3, <1>4, <1>5 DEF Next

\* Once a run has got past its wait and the removal, a container that is up is one whose
\* removal failed, and a process that ended by itself has left none.
ContainerInv ==
    /\ container \in {"none", "absent", "running", "late", "gone"} /\ kind \in {"oci", "direct"}
    /\ kind = "direct" => container = "none"
    /\ pc = "launch" => container = "none"
    /\ pc \in {"launch", "wait"} => ~timedOut
    /\ pc = "wait" => container # "late"
    /\ pc = "wait" /\ ~Running(Leader) => container \in {"none", "gone"}
    /\ pc \in {"remove", "kill"} => timedOut
    /\ pc \notin {"launch", "wait", "remove"} =>
         /\ container = "running" => cleanup
         /\ ~timedOut => container \in {"none", "gone"}
    /\ Returns => pc = "ended" /\ ~cleanup

\* The engine and the processes on their own.
LEMMA EngineKeepsContainerInv ==
  ASSUME HarnessInv, ContainerInv,
         \/ ContainerStarts \/ ContainerEnds
         \/ \E p \in Procs : Exit(p) \/ \E s \in Streams : Write(p, s) \/ Close(p, s)
         \/ \E c \in Children : Fork(c)
  PROVE  ContainerInv'
<1>1. Leader \in Procs /\ DOMAIN proc = Procs
  BY DEF Procs, HarnessInv, Shape
<1>2. CASE ContainerStarts \/ ContainerEnds
  BY <1>2 DEF ContainerStarts, ContainerEnds, ContainerInv, Returns, Running, harness
<1>3. ASSUME NEW p \in Procs, Exit(p) PROVE ContainerInv'
  <2>1. /\ UNCHANGED harness
        /\ p # Leader => proc'[Leader] = proc[Leader] /\ container' = container
        /\ p = Leader => /\ container \notin {"running", "late"}
                         /\ container' = IF container = "absent" THEN "gone" ELSE container
    BY <1>1, <1>3 DEF Exit, Dead
  <2>2. CASE p = Leader
    BY <2>1, <2>2 DEF ContainerInv, Returns, harness
  <2>3. CASE p # Leader
    BY <2>1, <2>3 DEF ContainerInv, Returns, Running, harness
  <2> QED BY <2>2, <2>3
<1>4. CASE \E p \in Procs, s \in Streams : Write(p, s) \/ Close(p, s)
  BY <1>4 DEF Write, Close, ContainerInv, Returns, Running, harness, system
<1>5. ASSUME NEW c \in Children, Fork(c) PROVE ContainerInv'
  <2>1. UNCHANGED <<harness, container>> /\ Running(Leader) /\ proc'[Leader] = proc[Leader]
    BY <1>1, <1>5 DEF Fork, Running
  <2> QED BY <2>1 DEF ContainerInv, Returns, Running, harness
<1> QED BY <1>2, <1>3, <1>4, <1>5

LEMMA RunKeepsContainerInv ==
  ASSUME HarnessInv, ContainerInv, HarnessStep
  PROVE  ContainerInv'
<1>1. CASE Launch
  <2>1. CASE pc' = "wait"
    <3>1. proc' = [proc EXCEPT ![Leader] = "running"] /\ UNCHANGED <<kind, timedOut, cleanup>>
      BY <1>1, <2>1 DEF Launch
    <3>2. Running(Leader)'
      BY <3>1 DEF Procs, HarnessInv, Shape, Running
    <3>3. ~Returns' /\ ~timedOut
      BY <1>1, <2>1 DEF Launch, ContainerInv, Returns
    <3>4. container' = IF kind = "direct" THEN "none" ELSE "absent"
      BY <1>1, <2>1 DEF Launch
    <3> QED BY <2>1, <3>1, <3>2, <3>3, <3>4 DEF ContainerInv
  <2>2. CASE pc' = "ended"
    BY <1>1, <2>2 DEF Launch, ContainerInv, Returns
  <2> QED BY <1>1, <2>1, <2>2 DEF Launch
<1>2. CASE WaitReturns
  BY <1>2 DEF WaitReturns, ContainerInv, Returns, Running, system
<1>3. CASE WaitTimesOut
  BY <1>3 DEF WaitTimesOut, ContainerInv, Returns, Running, system
<1>4. CASE RemoveContainer
  BY <1>4 DEF RemoveContainer, ContainerInv, Returns, Running
<1>5. CASE KillGroup
  BY <1>5 DEF KillGroup, ContainerInv, Returns
<1>6. CASE JoinReaders \/ JoinTimesOut
  BY <1>6 DEF JoinReaders, JoinTimesOut, ContainerInv, Returns, system
<1>7. CASE \/ CloseStream("closeStdout", "stdout", "closeStderr")
           \/ CloseStream("closeStderr", "stderr", "ended")
  BY <1>7 DEF CloseStream, ContainerInv, Returns, system
<1>8. CASE Finish
  BY <1>8 DEF Finish, ContainerInv, Returns, system
<1> QED BY <1>1, <1>2, <1>3, <1>4, <1>5, <1>6, <1>7, <1>8 DEF HarnessStep

LEMMA NextContainerInv ==
  ASSUME HarnessInv, ContainerInv, [Next]_vars
  PROVE  ContainerInv'
<1>1. CASE \E s \in Streams : ReaderStep(s) \/ ReaderFails(s)
  BY <1>1 DEF ReaderStep, Fill, Deliver, ReaderEnds, ReaderFails, ContainerInv, Returns, Running,
              harness, system
<1>2. CASE UNCHANGED vars
  BY <1>2 DEF ContainerInv, Returns, Running, vars, harness, system
<1> QED BY <1>1, <1>2, RunKeepsContainerInv, EngineKeepsContainerInv DEF Next

\* Whatever the candidate, its children, the container and the clock do, and whichever
\* read raises: a result holds every byte that was ever written, up to the limit, says
\* exactly when some are missing, is about a process that is over, and leaves no container
\* but one that came up after its removal.
THEOREM ResultsAreTrue == Spec => []ResultIsTrue
<1>1. Init => HarnessInv /\ ContainerInv
  BY InitHarnessInv, HarnessAssumption DEF Init, ContainerInv, Returns
<1>2. HarnessInv /\ ContainerInv /\ [Next]_vars => (HarnessInv /\ ContainerInv)'
  BY NextHarnessInv, NextContainerInv
<1>3. HarnessInv /\ ContainerInv => ResultIsTrue
  BY DEF HarnessInv, ContainerInv, ResultIsTrue, ContainerIsOver
<1> QED BY <1>1, <1>2, <1>3, PTL DEF Spec

----------------------------------------------------------------------------
(* The runners of the suites *)

Names == {"humaneval", "mbpp", "holdout"}

LEMMA SuiteNames ==
  /\ S!Suites \in Seq(Names) /\ Len(S!Suites) = 3
  /\ S!Suites[1] = "humaneval" /\ S!Suites[2] = "mbpp" /\ S!Suites[3] = "holdout"
BY DEF S!Suites, Names

\* The steps of a runner that come before its tests.
Prelude(s) == CASE s = "humaneval" -> 4 [] s = "mbpp" -> 5 [] s = "holdout" -> 6

StepNames == {"parse", "compile", "benchmark", "check", "candidate", "setup", "fixture",
              "collect", "test"}

\* A runner ends with one step for each test.
LEMMA ThenTests ==
  ASSUME NEW a \in Seq(StepNames), NEW n \in Nat
  PROVE  LET c == a \o [i \in 1 .. n |-> "test"]
         IN /\ c \in Seq(StepNames) /\ Len(c) = Len(a) + n
            /\ \A i \in 1 .. Len(a) : c[i] = a[i]
            /\ \A i \in Len(a) + 1 .. Len(c) : c[i] = "test"
<1> DEFINE b == [i \in 1 .. n |-> "test"]
<1>1. b \in Seq(StepNames) /\ Len(b) = n
  <2>1. \A i \in 1 .. n : "test" \in StepNames
    BY DEF StepNames
  <2> QED BY <2>1
<1>2. \A i \in 1 .. n : b[i] = "test"
  OBVIOUS
<1> HIDE DEF b
<1>3. /\ a \o b \in Seq(StepNames) /\ Len(a \o b) = Len(a) + n
      /\ \A i \in 1 .. Len(a) + n : (a \o b)[i] = IF i <= Len(a) THEN a[i] ELSE b[i - Len(a)]
  BY <1>1, ConcatProperties
<1>4. \A i \in Len(a) + 1 .. Len(a) + n : i - Len(a) \in 1 .. n /\ ~(i <= Len(a))
  BY LenProperties
<1>5. \A i \in 1 .. Len(a) : i \in 1 .. Len(a) + n /\ i <= Len(a)
  BY LenProperties
<1>6. \A i \in Len(a) + 1 .. Len(a) + n : i \in 1 .. Len(a) + n
  BY LenProperties
<1>7. \A i \in Len(a) + 1 .. Len(a) + n : (a \o b)[i] = "test"
  BY <1>2, <1>3, <1>4, <1>6
<1>8. \A i \in 1 .. Len(a) : (a \o b)[i] = a[i]
  BY <1>3, <1>5
<1> QED BY <1>3, <1>7, <1>8 DEF b

\* A step that is announced is one of the first two, or a test.
RunnerStep(s, i) ==
    /\ S!Steps(s)[i] \in StepNames
    /\ S!Steps(s)[i] = "candidate" => s # "humaneval"
    /\ S!Steps(s)[i] = "test" => i > Prelude(s)
    /\ S!Announced(S!Steps(s)[i]) => i \in {1, 2} \/ S!Steps(s)[i] = "test"

LEMMA RunnerSteps ==
  ASSUME NEW s \in Names
  PROVE  /\ Len(S!Steps(s)) = Prelude(s) + (IF s = "humaneval" THEN 0 ELSE Tests)
         /\ Prelude(s) \in Nat /\ 4 <= Prelude(s)
         /\ S!Steps(s)[1] = "parse" /\ S!Steps(s)[2] = "compile"
         /\ \A i \in 1 .. Len(S!Steps(s)) : RunnerStep(s, i)
         /\ \A i \in Prelude(s) + 1 .. Len(S!Steps(s)) : S!Steps(s)[i] = "test"
<1>0. Tests \in Nat
  BY SuiteAssumption
<1>1. CASE s = "humaneval"
  <2>1. S!Steps(s) = <<"parse", "compile", "benchmark", "check">> /\ Prelude(s) = 4
    BY <1>1 DEF S!Steps, Prelude
  <2>2. \A i \in 1 .. 4 : RunnerStep(s, i)
    BY <1>1, <2>1 DEF RunnerStep, S!Announced, StepNames
  <2>3. Len(S!Steps(s)) = 4 /\ 5 .. 4 = {}
    BY <2>1
  <2>4. S!Steps(s)[1] = "parse" /\ S!Steps(s)[2] = "compile"
    BY <2>1
  <2>5. Prelude(s) + (IF s = "humaneval" THEN 0 ELSE Tests) = 4
    BY <1>1, <2>1
  <2> QED BY <2>1, <2>2, <2>3, <2>4, <2>5
<1>2. CASE s = "mbpp"
  <2>1. PICK a : a = <<"parse", "compile", "benchmark", "candidate", "setup">>
    OBVIOUS
  <2>2. a \in Seq(StepNames) /\ Len(a) = 5
    BY <2>1 DEF StepNames
  <2>3. \A i \in 1 .. 5 : a[i] \in {"parse", "compile", "benchmark", "candidate", "setup"}
                        /\ (a[i] \in {"parse", "compile"} => i \in {1, 2})
    BY <2>1
  <2>4. a[1] = "parse" /\ a[2] = "compile"
    BY <2>1
  <2>5. S!Steps(s) = a \o [i \in 1 .. Tests |-> "test"] /\ Prelude(s) = 5
    BY <1>2, <2>1 DEF S!Steps, Prelude
  <2>6. /\ Len(S!Steps(s)) = 5 + Tests
        /\ \A i \in 1 .. 5 : S!Steps(s)[i] = a[i]
        /\ \A i \in 6 .. 5 + Tests : S!Steps(s)[i] = "test"
    <3> DEFINE c == a \o [i \in 1 .. Tests |-> "test"]
    <3>1. /\ Len(c) = Len(a) + Tests
          /\ \A i \in 1 .. Len(a) : c[i] = a[i]
          /\ \A i \in Len(a) + 1 .. Len(c) : c[i] = "test"
      BY <1>0, <2>2, ThenTests
    <3>2. S!Steps(s) = c
      BY <2>5
    <3> HIDE DEF c
    <3> QED BY <1>0, <2>2, <3>1, <3>2
  <2>7. \A i \in 1 .. 5 + Tests : i \in 1 .. 5 \/ i \in 6 .. 5 + Tests
    BY <1>0
  <2>8. ASSUME NEW i \in 1 .. 5 PROVE RunnerStep(s, i)
    BY <1>2, <2>3, <2>6 DEF RunnerStep, S!Announced, StepNames
  <2>9. ASSUME NEW i \in 6 .. 5 + Tests PROVE RunnerStep(s, i)
    BY <1>0, <2>5, <2>6 DEF RunnerStep, StepNames
  <2>10. \A i \in 1 .. Len(S!Steps(s)) : RunnerStep(s, i)
    BY <1>0, <2>6, <2>7, <2>8, <2>9
  <2>11. S!Steps(s)[1] = "parse" /\ S!Steps(s)[2] = "compile"
    BY <2>4, <2>6
  <2>12. Prelude(s) + (IF s = "humaneval" THEN 0 ELSE Tests) = 5 + Tests
    BY <1>2, <2>5
  <2>13. \A i \in Prelude(s) + 1 .. Len(S!Steps(s)) : S!Steps(s)[i] = "test"
    BY <1>0, <2>5, <2>6
  <2>14. Len(S!Steps(s)) = Prelude(s) + (IF s = "humaneval" THEN 0 ELSE Tests)
    BY <2>6, <2>12
  <2>15. Prelude(s) \in Nat /\ 4 <= Prelude(s)
    BY <2>5
  <2> QED BY <2>15, <2>14, <2>13, <2>10, <2>11
<1>3. CASE s = "holdout"
  <2>1. PICK a : a = <<"parse", "compile", "benchmark", "fixture", "candidate", "collect">>
    OBVIOUS
  <2>2. a \in Seq(StepNames) /\ Len(a) = 6
    BY <2>1 DEF StepNames
  <2>3. \A i \in 1 .. 6 :
           /\ a[i] \in {"parse", "compile", "benchmark", "fixture", "candidate", "collect"}
           /\ a[i] \in {"parse", "compile"} => i \in {1, 2}
    BY <2>1
  <2>4. a[1] = "parse" /\ a[2] = "compile"
    BY <2>1
  <2>5. S!Steps(s) = a \o [i \in 1 .. Tests |-> "test"] /\ Prelude(s) = 6
    BY <1>3, <2>1 DEF S!Steps, Prelude
  <2>6. /\ Len(S!Steps(s)) = 6 + Tests
        /\ \A i \in 1 .. 6 : S!Steps(s)[i] = a[i]
        /\ \A i \in 7 .. 6 + Tests : S!Steps(s)[i] = "test"
    <3> DEFINE c == a \o [i \in 1 .. Tests |-> "test"]
    <3>1. /\ Len(c) = Len(a) + Tests
          /\ \A i \in 1 .. Len(a) : c[i] = a[i]
          /\ \A i \in Len(a) + 1 .. Len(c) : c[i] = "test"
      BY <1>0, <2>2, ThenTests
    <3>2. S!Steps(s) = c
      BY <2>5
    <3> HIDE DEF c
    <3> QED BY <1>0, <2>2, <3>1, <3>2
  <2>7. \A i \in 1 .. 6 + Tests : i \in 1 .. 6 \/ i \in 7 .. 6 + Tests
    BY <1>0
  <2>8. ASSUME NEW i \in 1 .. 6 PROVE RunnerStep(s, i)
    BY <1>3, <2>3, <2>6 DEF RunnerStep, S!Announced, StepNames
  <2>9. ASSUME NEW i \in 7 .. 6 + Tests PROVE RunnerStep(s, i)
    BY <1>0, <2>5, <2>6 DEF RunnerStep, StepNames
  <2>10. \A i \in 1 .. Len(S!Steps(s)) : RunnerStep(s, i)
    BY <1>0, <2>6, <2>7, <2>8, <2>9
  <2>11. S!Steps(s)[1] = "parse" /\ S!Steps(s)[2] = "compile"
    BY <2>4, <2>6
  <2>12. Prelude(s) + (IF s = "humaneval" THEN 0 ELSE Tests) = 6 + Tests
    BY <1>3, <2>5
  <2>13. \A i \in Prelude(s) + 1 .. Len(S!Steps(s)) : S!Steps(s)[i] = "test"
    BY <1>0, <2>5, <2>6
  <2>14. Len(S!Steps(s)) = Prelude(s) + (IF s = "humaneval" THEN 0 ELSE Tests)
    BY <2>6, <2>12
  <2>15. Prelude(s) \in Nat /\ 4 <= Prelude(s)
    BY <2>5
  <2> QED BY <2>15, <2>14, <2>13, <2>10, <2>11
<1> QED BY <1>1, <1>2, <1>3 DEF Names

\* The step that raises is blamed by the code the runner exits with.
LEMMA ExitIsBlamed ==
  ASSUME NEW s \in Names, NEW i \in 1 .. Len(S!Steps(s)), NEW lines
  PROVE  S!Category(s, S!Captured("failed", S!Exit(S!Steps(s)[i]), lines))
           = S!Blames(s, S!Steps(s)[i])
<1>1. RunnerStep(s, i)
  BY RunnerSteps
<1>0. PICK r : r = S!Captured("failed", S!Exit(S!Steps(s)[i]), lines)
  OBVIOUS
<1> SUFFICES S!Category(s, r) = S!Blames(s, S!Steps(s)[i])
  BY <1>0
<1>2. r.status = "failed" /\ r.code = S!Exit(S!Steps(s)[i])
  BY <1>0 DEF S!Captured
<1>3. ~S!ReportsPass(s, r) /\ r.status # "succeeded" /\ r.status # "timed_out"
  BY <1>2 DEF S!ReportsPass
<1>4. S!Category(s, r) = CASE r.code = 10 -> "parse" [] r.code = 11 -> "compile"
                         [] r.code = 12 -> "test" [] r.code = 20 -> "harness"
                         [] OTHER -> IF S!NothingRan(r) /\ ~(s # "humaneval" /\ r.code = 13)
                                     THEN "harness" ELSE "runtime"
  BY <1>3 DEF S!Category
<1>5. CASE S!Steps(s)[i] = "parse"
  BY <1>2, <1>4, <1>5 DEF S!Exit, S!Blames
<1>6. CASE S!Steps(s)[i] = "compile"
  BY <1>2, <1>4, <1>6 DEF S!Exit, S!Blames
<1>7. CASE S!Steps(s)[i] = "candidate"
  <2>1. r.code = 13 /\ s # "humaneval"
    BY <1>1, <1>2, <1>7 DEF S!Exit, RunnerStep
  <2>2. S!Category(s, r) = "runtime"
    BY <1>4, <2>1
  <2> QED BY <1>7, <2>2 DEF S!Blames
<1>8. CASE S!Steps(s)[i] \in {"check", "setup", "test"}
  BY <1>2, <1>4, <1>8 DEF S!Exit, S!Blames
<1>9. CASE S!Steps(s)[i] \in {"benchmark", "fixture", "collect"}
  BY <1>2, <1>4, <1>9 DEF S!Exit, S!Blames
<1> QED BY <1>1, <1>5, <1>6, <1>7, <1>8, <1>9 DEF RunnerStep, StepNames

\* The size of a set is that of SuiteEvaluation.
LEMMA SameSize ==
  ASSUME NEW X
  PROVE  S!Cardinality(X) = Cardinality(X)
BY DEF S!Cardinality, Cardinality

\* How many tests a runner has done before its step n, and of how many a line is among
\* the lines captured.
Before(s, n) == {i \in 1 .. n - 1 : i <= Len(S!Steps(s)) /\ S!Steps(s)[i] = "test"}

LEMMA TestsCounted ==
  ASSUME NEW s \in Names, NEW n \in 1 .. Len(S!Steps(s)) + 1,
         NEW lines \in SUBSET (1 .. Len(S!Steps(s)) + 1), NEW r, r.lines = lines,
         \A i \in lines : i <= Len(S!Steps(s)) => i < n
  PROVE  /\ Cardinality(Before(s, n)) \in Nat /\ S!TestsShown(s, r) \in Nat
         /\ S!TestsShown(s, r) <= Cardinality(Before(s, n))
         /\ (\A i \in 1 .. n - 1 : S!Steps(s)[i] = "test" => i \in lines)
               => S!TestsShown(s, r) = Cardinality(Before(s, n))
         /\ n = Len(S!Steps(s)) + 1 /\ s # "humaneval" => Cardinality(Before(s, n)) = Tests
<1> DEFINE L == {i \in lines : i <= Len(S!Steps(s)) /\ S!Steps(s)[i] = "test"}
           B == Before(s, n)
<1>0. /\ Tests \in Nat /\ Prelude(s) \in Nat
      /\ Len(S!Steps(s)) = Prelude(s) + (IF s = "humaneval" THEN 0 ELSE Tests)
      /\ \A i \in 1 .. Len(S!Steps(s)) : RunnerStep(s, i)
      /\ \A i \in Prelude(s) + 1 .. Len(S!Steps(s)) : S!Steps(s)[i] = "test"
  BY RunnerSteps, SuiteAssumption
<1>1. Len(S!Steps(s)) \in Nat
  BY <1>0
<1>2. S!TestsShown(s, r) = Cardinality(L)
  BY SameSize DEF S!TestsShown
<1>3. ASSUME NEW i \in L PROVE i \in B
  <2>1. /\ i \in 1 .. Len(S!Steps(s)) + 1 /\ i <= Len(S!Steps(s)) /\ i < n
        /\ S!Steps(s)[i] = "test"
    OBVIOUS
  <2>2. i \in 1 .. n - 1
    BY <1>1, <2>1
  <2> QED BY <2>1, <2>2 DEF Before
<1>4. IsFiniteSet(B) /\ Cardinality(B) \in Nat
  <2>1. B \subseteq 1 .. n - 1
    BY DEF Before
  <2>2. IsFiniteSet(1 .. n - 1)
    <3>1. 1 \in Int /\ n - 1 \in Int
      BY <1>1
    <3> QED BY <3>1, FS_Interval
  <2> QED BY <2>1, <2>2, FS_Subset, FS_CardinalityType
<1>5. Cardinality(L) \in Nat /\ Cardinality(L) <= Cardinality(B)
  BY <1>3, <1>4, FS_Subset, FS_CardinalityType
<1>6. (\A i \in 1 .. n - 1 : S!Steps(s)[i] = "test" => i \in lines) => L = B
  BY <1>3 DEF Before
<1>7. ASSUME n = Len(S!Steps(s)) + 1, s # "humaneval" PROVE Cardinality(B) = Tests
  <2>1. Len(S!Steps(s)) = Prelude(s) + Tests
    BY <1>0, <1>7
  <2>2. ASSUME NEW i \in B PROVE i \in Prelude(s) + 1 .. Prelude(s) + Tests
    <3>1. i \in 1 .. Len(S!Steps(s)) /\ S!Steps(s)[i] = "test"
      BY <1>1, <1>7 DEF Before
    <3>2. i > Prelude(s)
      BY <1>0, <3>1 DEF RunnerStep
    <3> QED BY <1>0, <2>1, <3>1, <3>2
  <2>3. ASSUME NEW i \in Prelude(s) + 1 .. Prelude(s) + Tests PROVE i \in B
    <3>1. i \in 1 .. n - 1 /\ i <= Len(S!Steps(s))
      BY <1>0, <1>7, <2>1
    <3>2. S!Steps(s)[i] = "test"
      BY <1>0, <2>1
    <3> QED BY <3>1, <3>2 DEF Before
  <2>4. B = Prelude(s) + 1 .. Prelude(s) + Tests
    BY <2>2, <2>3
  <2>5. Cardinality(Prelude(s) + 1 .. Prelude(s) + Tests) = Tests
    <3>1. Prelude(s) + 1 \in Int /\ Prelude(s) + Tests \in Int
      BY <1>0
    <3>2. Cardinality(Prelude(s) + 1 .. Prelude(s) + Tests) =
             IF Prelude(s) + 1 > Prelude(s) + Tests THEN 0
             ELSE (Prelude(s) + Tests) - (Prelude(s) + 1) + 1
      BY <3>1, FS_Interval
    <3> QED BY <1>0, <3>2
  <2> QED BY <2>4, <2>5
<1> HIDE DEF L, B
<1>8. Cardinality(Before(s, n)) = Cardinality(B)
  BY DEF B
<1> QED BY <1>2, <1>4, <1>5, <1>6, <1>7, <1>8

----------------------------------------------------------------------------
(* The suites: the inductive invariant *)

Columns == {"none", "timeout", "harness", "other"}

ScoresShape ==
    /\ done \in Seq(Names) /\ Len(done) <= 3
    /\ \A i \in 1 .. Len(done) : done[i] = S!Suites[i]
    /\ DOMAIN tally \subseteq Names /\ tally \in [DOMAIN tally -> [Columns -> Nat]]
    /\ \A i \in 1 .. Len(done) : done[i] \in DOMAIN tally
    /\ earned \in [Names -> Nat] /\ broken \in [Names -> Nat]
    /\ at \in Nat
    /\ queue # <<>> => Len(done) < 3 /\ S!Suite \in DOMAIN tally

\* A runner is at one of its steps, or beyond the last; what it has shown, it has done.
Runs ==
    /\ at = 0 => shown = {}
    /\ at > 0 => /\ queue # <<>> /\ at <= S!LastStep + 1
                 /\ shown \subseteq {i \in 1 .. at - 1 : S!Announced(S!Steps(S!Suite)[i])}

Counts ==
    \A s \in Names :
        IF s \in DOMAIN tally
        THEN tally[s]["none"] <= earned[s] /\ broken[s] <= tally[s]["harness"]
        ELSE broken[s] = 0

Promoted ==
    state = "promote" =>
        /\ Len(done) = 3
        /\ \A s \in DOMAIN earned : earned[s] >= BasePasses[s]
        /\ 100 * (S!Together(earned) - S!Together(BasePasses)) >= Gain * S!Together(S!Totals)
        /\ Cardinality(BaseRight \ right) <= MaxRegressions

\* What VerdictIsTrue says of a verdict.
Truthful(v, f) ==
    /\ v.category = "none" => f.how = "passed"
    /\ f.how = "passed" /\ ~f.hidden => v.category = "none"
    /\ f.how = "raised" => v.category = S!Blames(f.suite, f.step)
    /\ S!Spoilt(f) => v.category = "harness"
    /\ f.suite # "humaneval" /\ f.how # "harness" =>
        /\ v.tests <= f.tests
        /\ ~f.hidden => v.tests = f.tests

SuiteInv == ScoresShape /\ Runs /\ Counts /\ Promoted /\ S!VerdictIsTrue

LEMMA SuiteFacts ==
  ASSUME ScoresShape, Len(done) < 3
  PROVE  S!Suite \in Names /\ S!LastStep = Len(S!Steps(S!Suite)) /\ S!LastStep \in Nat
<1>1. S!Suite \in Names
  <2>1. Len(done) \in Nat
    BY LenProperties DEF ScoresShape
  <2>2. Len(done) + 1 \in 1 .. 3
    BY <2>1
  <2> QED BY <2>2, SuiteNames, ElementOfSeq DEF S!Suite
<1> QED BY <1>1, RunnerSteps, SuiteAssumption DEF S!LastStep

\* A verdict is put down once, for the suite at hand.
LEMMA JudgeKeeps ==
  ASSUME SuiteInv, NEW v, NEW f, queue # <<>>, S!Judge(v, f), Truthful(v, f)
  PROVE  SuiteInv'
<1>1. S!Suite \in Names /\ S!Suite \in DOMAIN tally /\ S!Suite' = S!Suite /\ Len(done) < 3
  BY SuiteFacts DEF SuiteInv, ScoresShape, S!Judge, S!Suite
<1>2. PICK c : c = S!Column(v.category)
  OBVIOUS
<1>3. c \in Columns /\ (c = "none" <=> v.category = "none")
      /\ (c = "harness" <=> v.category = "harness")
  BY <1>2 DEF S!Column, S!NoTally, Columns
<1>4. /\ tally' = [tally EXCEPT ![S!Suite] = [tally[S!Suite] EXCEPT ![c] = tally[S!Suite][c] + 1]]
      /\ earned' = [earned EXCEPT ![S!Suite] = @ + IF f.how = "passed" THEN 1 ELSE 0]
      /\ broken' = [broken EXCEPT ![S!Suite] = @ + IF S!Spoilt(f) THEN 1 ELSE 0]
  BY <1>2 DEF S!Judge
<1>5. tally[S!Suite] \in [Columns -> Nat]
  BY <1>1 DEF SuiteInv, ScoresShape
<1>6. /\ DOMAIN tally' = DOMAIN tally /\ tally' \in [DOMAIN tally -> [Columns -> Nat]]
      /\ \A s \in DOMAIN tally \ {S!Suite} : tally'[s] = tally[s]
      /\ tally'[S!Suite]["none"] = tally[S!Suite]["none"] + IF c = "none" THEN 1 ELSE 0
      /\ tally'[S!Suite]["harness"] = tally[S!Suite]["harness"] + IF c = "harness" THEN 1 ELSE 0
  <2>1. PICK t : t = [tally[S!Suite] EXCEPT ![c] = @ + 1]
    OBVIOUS
  <2>2. t \in [Columns -> Nat]
    BY <1>3, <1>5, <2>1
  <2>3. /\ t["none"] = tally[S!Suite]["none"] + IF c = "none" THEN 1 ELSE 0
        /\ t["harness"] = tally[S!Suite]["harness"] + IF c = "harness" THEN 1 ELSE 0
    BY <1>3, <1>5, <2>1 DEF Columns
  <2>4. tally \in [DOMAIN tally -> [Columns -> Nat]]
    BY DEF SuiteInv, ScoresShape
  <2>5. tally' = [tally EXCEPT ![S!Suite] = t]
    BY <1>4, <2>1
  <2> QED BY <1>1, <2>2, <2>3, <2>4, <2>5
<1>7. /\ earned' \in [Names -> Nat] /\ broken' \in [Names -> Nat]
      /\ \A s \in Names \ {S!Suite} : earned'[s] = earned[s] /\ broken'[s] = broken[s]
      /\ earned'[S!Suite] = earned[S!Suite] + IF f.how = "passed" THEN 1 ELSE 0
      /\ broken'[S!Suite] = broken[S!Suite] + IF S!Spoilt(f) THEN 1 ELSE 0
  BY <1>1, <1>4 DEF SuiteInv, ScoresShape
<1>8. ScoresShape'
  BY <1>1, <1>6, <1>7 DEF S!Judge, SuiteInv, ScoresShape
<1>9. Runs'
  BY DEF S!Judge, Runs
<1>10. Counts'
  <2>1. /\ tally'[S!Suite]["none"] <= earned'[S!Suite]
        /\ broken'[S!Suite] <= tally'[S!Suite]["harness"]
    <3>1. /\ tally[S!Suite]["none"] \in Nat /\ tally[S!Suite]["harness"] \in Nat
          /\ earned[S!Suite] \in Nat /\ broken[S!Suite] \in Nat
      BY <1>1, <1>5 DEF Columns, SuiteInv, ScoresShape
    <3>2. /\ tally[S!Suite]["none"] <= earned[S!Suite]
          /\ broken[S!Suite] <= tally[S!Suite]["harness"]
      BY <1>1 DEF SuiteInv, Counts
    <3>3. (c = "none" => f.how = "passed") /\ (S!Spoilt(f) => c = "harness")
      BY <1>3 DEF Truthful
    <3> QED BY <1>6, <1>7, <3>1, <3>2, <3>3
  <2> QED BY <1>1, <1>6, <1>7, <2>1 DEF SuiteInv, Counts
<1>11. Promoted'
  <2>1. Len(done) # 3
    BY <1>1, SMTT(30)
  <2>2. state # "promote"
    BY <2>1 DEF SuiteInv, Promoted
  <2>3. state' # "promote"
    BY <2>2 DEF S!Judge
  <2> QED BY <2>3 DEF Promoted
<1>12. S!VerdictIsTrue'
  BY DEF S!Judge, S!VerdictIsTrue, Truthful, S!Spoilt, S!Blames, S!Exit
<1> QED BY <1>8, <1>9, <1>10, <1>11, <1>12 DEF SuiteInv

----------------------------------------------------------------------------
(* The ends of a run *)

LEMMA Here ==
  ASSUME SuiteInv, at > 0
  PROVE  /\ queue # <<>> /\ Len(done) < 3 /\ S!Suite \in Names
         /\ S!LastStep = Len(S!Steps(S!Suite)) /\ S!LastStep \in Nat
         /\ at \in 1 .. S!LastStep + 1
         /\ shown \subseteq {i \in 1 .. at - 1 : S!Announced(S!Steps(S!Suite)[i])}
<1>1. queue # <<>> /\ Len(done) < 3
  BY DEF SuiteInv, ScoresShape, Runs
<1>2. S!Suite \in Names /\ S!LastStep = Len(S!Steps(S!Suite)) /\ S!LastStep \in Nat
  BY <1>1, SuiteFacts DEF SuiteInv
<1> QED BY <1>1, <1>2 DEF SuiteInv, ScoresShape, Runs

\* The tests whose lines were captured are tests that were done, and all of them unless a
\* line was hidden.
LEMMA TestsTold ==
  ASSUME SuiteInv, at > 0, NEW r,
         r.lines = shown \/ (at = S!LastStep + 1 /\ r.lines = shown \cup {at})
  PROVE  /\ S!TestsShown(S!Suite, r) \in Nat /\ S!TestsDone \in Nat
         /\ S!TestsShown(S!Suite, r) <= S!TestsDone
         /\ ~S!Hidden => S!TestsShown(S!Suite, r) = S!TestsDone
         /\ at = S!LastStep + 1 /\ S!Suite # "humaneval" => S!TestsDone = Tests
<1>0. /\ S!Suite \in Names /\ S!LastStep = Len(S!Steps(S!Suite)) /\ S!LastStep \in Nat
      /\ at \in 1 .. S!LastStep + 1
      /\ shown \subseteq {i \in 1 .. at - 1 : S!Announced(S!Steps(S!Suite)[i])}
  BY Here
<1>1. r.lines \in SUBSET (1 .. S!LastStep + 1)
  <2>1. \A i \in 1 .. at - 1 : i \in 1 .. S!LastStep + 1
    BY <1>0
  <2> QED BY <1>0, <2>1
<1>2. ASSUME NEW i \in r.lines, i <= S!LastStep PROVE i < at
  <2>1. i \in shown
    BY <1>0, <1>2
  <2>2. i \in 1 .. at - 1
    BY <1>0, <2>1
  <2> QED BY <1>0, <2>2
<1>3. S!TestsDone = Cardinality(Before(S!Suite, at))
  BY <1>0, SameSize DEF S!TestsDone, Before
<1>4. /\ Cardinality(Before(S!Suite, at)) \in Nat /\ S!TestsShown(S!Suite, r) \in Nat
      /\ S!TestsShown(S!Suite, r) <= Cardinality(Before(S!Suite, at))
      /\ (\A i \in 1 .. at - 1 : S!Steps(S!Suite)[i] = "test" => i \in r.lines)
            => S!TestsShown(S!Suite, r) = Cardinality(Before(S!Suite, at))
      /\ at = S!LastStep + 1 /\ S!Suite # "humaneval"
            => Cardinality(Before(S!Suite, at)) = Tests
  <2>1. PICK s, n, lines : s = S!Suite /\ n = at /\ lines = r.lines
    OBVIOUS
  <2>2. /\ s \in Names /\ n \in 1 .. Len(S!Steps(s)) + 1
        /\ lines \in SUBSET (1 .. Len(S!Steps(s)) + 1)
        /\ \A i \in lines : i <= Len(S!Steps(s)) => i < n
    BY <1>0, <1>1, <1>2, <2>1
  <2>3. /\ Cardinality(Before(s, n)) \in Nat /\ S!TestsShown(s, r) \in Nat
        /\ S!TestsShown(s, r) <= Cardinality(Before(s, n))
        /\ (\A i \in 1 .. n - 1 : S!Steps(s)[i] = "test" => i \in lines)
               => S!TestsShown(s, r) = Cardinality(Before(s, n))
        /\ n = Len(S!Steps(s)) + 1 /\ s # "humaneval" => Cardinality(Before(s, n)) = Tests
    BY <2>1, <2>2, TestsCounted
  <2> QED BY <1>0, <2>1, <2>3
<1>5. ASSUME ~S!Hidden, NEW i \in 1 .. at - 1, S!Steps(S!Suite)[i] = "test" PROVE i \in r.lines
  BY <1>5 DEF S!Hidden, S!Announced
<1> QED BY <1>3, <1>4, <1>5

\* A run that did not come to its end, whatever was captured of it.
LEMMA FailureIsTold ==
  ASSUME SuiteInv, at > 0, NEW r,
         r.lines = shown \/ (at = S!LastStep + 1 /\ r.lines = shown \cup {at}),
         NEW how, how # "passed", NEW step, NEW hidden \in BOOLEAN, S!Hidden => hidden,
         S!Category(S!Suite, r) # "none",
         how = "raised" => S!Category(S!Suite, r) = S!Blames(S!Suite, step),
         S!Spoilt(S!Fate(how, step, S!TestsDone, hidden)) => S!Category(S!Suite, r) = "harness"
  PROVE  Truthful(S!Verdict(S!Suite, r), S!Fate(how, step, S!TestsDone, hidden))
<1>1. PICK f : f = S!Fate(how, step, S!TestsDone, hidden)
  OBVIOUS
<1>2. /\ f.how = how /\ f.step = step /\ f.tests = S!TestsDone /\ f.hidden = hidden
      /\ f.suite = S!Suite
  BY <1>1 DEF S!Fate
<1>3. PICK v : v = S!Verdict(S!Suite, r)
  OBVIOUS
<1>4. /\ v.category = S!Category(S!Suite, r)
      /\ S!Suite # "humaneval" => v.tests = S!TestsShown(S!Suite, r)
  BY <1>3 DEF S!Verdict
<1>5. /\ S!TestsShown(S!Suite, r) <= S!TestsDone
      /\ ~S!Hidden => S!TestsShown(S!Suite, r) = S!TestsDone
  BY TestsTold
<1>6. S!Spoilt(f) => v.category = "harness"
  BY <1>1, <1>4
<1>7. Truthful(v, f)
  BY <1>2, <1>4, <1>5, <1>6 DEF Truthful
<1> QED BY <1>1, <1>3, <1>7

LEMMA ConcludeKeeps ==
  ASSUME SuiteInv, at > 0, NEW r, NEW tidy, NEW f,
         S!Conclude(r, tidy, f), Truthful(S!Verdict(S!Suite, r), f)
  PROVE  SuiteInv'
<1>1. CASE S!Judge(S!Verdict(S!Suite, r), f)
  BY <1>1, Here, JudgeKeeps
<1>2. CASE /\ state' = "aborted"
           /\ UNCHANGED <<queue, done, at, intact, shown, blind, last, fate, tally, earned,
                          broken, right>>
  BY <1>2 DEF SuiteInv, ScoresShape, Runs, Counts, Promoted, S!VerdictIsTrue, S!Suite,
              S!LastStep
<1> QED BY <1>1, <1>2 DEF S!Conclude

----------------------------------------------------------------------------
(* The suites: one lemma per step *)

LEMMA GenerationFailedKeeps ==
  ASSUME SuiteInv, S!GenerationFailed
  PROVE  SuiteInv'
<1>1. PICK v, f : v = S!Unrun("generation") /\ f = S!Fate("unanswered", "none", 0, FALSE)
  OBVIOUS
<1>2. Truthful(v, f)
  BY <1>1 DEF Truthful, S!Unrun, S!Fate, S!Spoilt
<1>3. S!Judge(v, f) /\ queue # <<>>
  BY <1>1 DEF S!GenerationFailed, S!Idle
<1> QED BY <1>2, <1>3, JudgeKeeps

LEMMA HarnessRaisesKeeps ==
  ASSUME SuiteInv, S!HarnessRaises
  PROVE  SuiteInv'
<1>1. PICK v, f : v = S!Unrun("harness") /\ f = S!Fate("harness", "none", 0, FALSE)
  OBVIOUS
<1>2. Truthful(v, f)
  BY <1>1 DEF Truthful, S!Unrun, S!Fate
<1>3. S!Judge(v, f) /\ queue # <<>>
  BY <1>1, Here DEF S!HarnessRaises, S!Running
<1> QED BY <1>2, <1>3, JudgeKeeps

LEMMA NeverStartsKeeps ==
  ASSUME SuiteInv, S!NeverStarts
  PROVE  SuiteInv'
<1>0. at = 1 /\ shown = {} /\ ~S!Hidden
  BY Here DEF S!NeverStarts, S!Hidden
<1>1. PICK r : r = S!Captured("failed", S!OtherCode, {})
  OBVIOUS
<1>2. r.status = "failed" /\ r.code = 1 /\ r.lines = {}
  BY <1>1 DEF S!Captured, S!OtherCode
<1>3. S!Category(S!Suite, r) = "harness"
  BY <1>2 DEF S!Category, S!ReportsPass, S!NothingRan, S!ParseStatus, S!CompileStatus
<1>4. S!Conclude(r, TRUE, S!Fate("unstarted", "none", 0, FALSE))
  BY <1>1 DEF S!NeverStarts
<1>5. S!TestsDone = 0
  <2>1. {i \in 1 .. at - 1 : i <= S!LastStep /\ S!Steps(S!Suite)[i] = "test"} = {}
    BY <1>0
  <2> QED BY <2>1, FS_EmptySet, SameSize DEF S!TestsDone
<1>6. Truthful(S!Verdict(S!Suite, r), S!Fate("unstarted", "none", S!TestsDone, FALSE))
  <2>1. at > 0 /\ r.lines = shown
    BY <1>0, <1>2
  <2>2. S!Category(S!Suite, r) # "none" /\ "unstarted" # "passed" /\ "unstarted" # "raised"
    BY <1>3
  <2> QED BY <1>0, <1>3, <2>1, <2>2, FailureIsTold
<1>7. Truthful(S!Verdict(S!Suite, r), S!Fate("unstarted", "none", 0, FALSE))
  BY <1>5, <1>6
<1>8. at > 0
  BY <1>0
<1> QED BY <1>4, <1>7, <1>8, ConcludeKeeps

LEMMA StepRaisesKeeps ==
  ASSUME SuiteInv, S!StepRaises
  PROVE  SuiteInv'
<1>0. at > 0 /\ at <= S!LastStep
  BY DEF S!StepRaises, S!Running, SuiteInv, ScoresShape
<1>1. PICK tidy \in BOOLEAN :
        S!Conclude(S!Captured("failed", S!Exit(S!Step), shown), tidy,
                 S!Fate("raised", S!Step, S!TestsDone, S!Hidden))
  BY DEF S!StepRaises
<1>2. PICK r : r = S!Captured("failed", S!Exit(S!Step), shown)
  OBVIOUS
<1>3. r.status = "failed" /\ r.code = S!Exit(S!Step) /\ r.lines = shown
  BY <1>2 DEF S!Captured
<1>4. S!Category(S!Suite, r) = S!Blames(S!Suite, S!Step)
  <2>1. S!Suite \in Names /\ at \in 1 .. Len(S!Steps(S!Suite)) /\ S!Step = S!Steps(S!Suite)[at]
    BY <1>0, Here DEF S!Step
  <2> QED BY <1>2, <2>1, ExitIsBlamed
<1>5. S!Category(S!Suite, r) # "none"
  BY <1>4 DEF S!Blames
<1>6. S!Spoilt(S!Fate("raised", S!Step, S!TestsDone, S!Hidden))
        => S!Category(S!Suite, r) = "harness"
  <2>1. S!Step \in StepNames
    BY <1>0, Here, RunnerSteps DEF RunnerStep, S!Step
  <2>2. S!Exit(S!Step) = 20 => S!Step \in {"benchmark", "fixture", "collect"}
    BY <2>1 DEF S!Exit, StepNames
  <2>3. S!Spoilt(S!Fate("raised", S!Step, S!TestsDone, S!Hidden)) => S!Exit(S!Step) = 20
    BY DEF S!Spoilt, S!Fate
  <2> QED BY <1>4, <2>2, <2>3 DEF S!Blames
<1>7. S!Hidden \in BOOLEAN
  BY DEF S!Hidden
<1>8. Truthful(S!Verdict(S!Suite, r), S!Fate("raised", S!Step, S!TestsDone, S!Hidden))
  BY <1>0, <1>3, <1>4, <1>5, <1>6, <1>7, FailureIsTold
<1> QED BY <1>0, <1>1, <1>2, <1>8, ConcludeKeeps

LEMMA DiesKeeps ==
  ASSUME SuiteInv, S!Dies
  PROVE  SuiteInv'
<1>0. at > 0 /\ at <= S!LastStep
  BY DEF S!Dies, S!Running
<1>1. PICK status \in {0, S!OtherCode} :
        S!Conclude(S!Captured(IF status = 0 THEN "succeeded" ELSE "failed", status, shown),
                   TRUE, S!Fate("died", S!Step, S!TestsDone, S!Hidden))
  BY DEF S!Dies
<1>2. PICK r : r = S!Captured(IF status = 0 THEN "succeeded" ELSE "failed", status, shown)
  OBVIOUS
<1>3. r.lines = shown /\ r.status \in {"succeeded", "failed"}
  BY <1>2 DEF S!Captured
<1>4. S!Category(S!Suite, r) # "none"
  <2>1. Len(S!Steps(S!Suite)) + 1 \notin shown
    <3>1. /\ S!LastStep = Len(S!Steps(S!Suite)) /\ S!LastStep \in Nat
          /\ at \in 1 .. S!LastStep + 1
          /\ shown \subseteq 1 .. at - 1
      BY <1>0, Here
    <3>2. S!LastStep + 1 \notin 1 .. at - 1
      BY <1>0, <3>1
    <3> QED BY <3>1, <3>2
  <2>2. ~S!ReportsPass(S!Suite, r)
    BY <1>3, <2>1 DEF S!ReportsPass
  <2> QED BY <2>2 DEF S!Category
<1>5. S!Hidden \in BOOLEAN
  BY DEF S!Hidden
<1>6. ~S!Spoilt(S!Fate("died", S!Step, S!TestsDone, S!Hidden))
  BY DEF S!Spoilt, S!Fate
<1>7. Truthful(S!Verdict(S!Suite, r), S!Fate("died", S!Step, S!TestsDone, S!Hidden))
  BY <1>0, <1>3, <1>4, <1>5, <1>6, FailureIsTold
<1> QED BY <1>0, <1>1, <1>2, <1>7, ConcludeKeeps

LEMMA HangsKeeps ==
  ASSUME SuiteInv, S!Hangs
  PROVE  SuiteInv'
<1>0. at > 0 /\ at <= S!LastStep
  BY DEF S!Hangs, S!Running
<1>1. PICK r : r = S!Captured("timed_out", 0, shown)
  OBVIOUS
<1>2. r.lines = shown /\ r.status = "timed_out"
  BY <1>1 DEF S!Captured
<1>3. S!Category(S!Suite, r) # "none"
  BY <1>2 DEF S!Category, S!ReportsPass
<1>4. S!Hidden \in BOOLEAN
  BY DEF S!Hidden
<1>5. ~S!Spoilt(S!Fate("hung", S!Step, S!TestsDone, S!Hidden))
  BY DEF S!Spoilt, S!Fate
<1>6. Truthful(S!Verdict(S!Suite, r), S!Fate("hung", S!Step, S!TestsDone, S!Hidden))
  BY <1>0, <1>2, <1>3, <1>4, <1>5, FailureIsTold
<1>7. S!Conclude(r, TRUE, S!Fate("hung", S!Step, S!TestsDone, S!Hidden))
  BY <1>1 DEF S!Hangs
<1> QED BY <1>0, <1>6, <1>7, ConcludeKeeps

\* A program that came to its end passes, unless it hid a line of the runner.
LEMMA PassIsTold ==
  ASSUME SuiteInv, at = S!LastStep + 1, at > 0, NEW r,
         r.status = "succeeded", r.code = 0,
         r.lines = IF blind = "no" THEN shown \cup {at} ELSE shown
  PROVE  Truthful(S!Verdict(S!Suite, r),
                  S!Fate("passed", "none", S!TestsDone, S!Hidden \/ blind # "no"))
<1>0. /\ S!Suite \in Names /\ S!LastStep = Len(S!Steps(S!Suite)) /\ S!LastStep \in Nat
      /\ shown \subseteq {i \in 1 .. at - 1 : S!Announced(S!Steps(S!Suite)[i])}
  BY Here
<1>1. /\ S!TestsShown(S!Suite, r) <= S!TestsDone
      /\ ~S!Hidden => S!TestsShown(S!Suite, r) = S!TestsDone
      /\ S!Suite # "humaneval" => S!TestsDone = Tests
  BY TestsTold
<1>2. ASSUME ~S!Hidden, blind = "no" PROVE S!Category(S!Suite, r) = "none"
  <2>1. S!ReportsPass(S!Suite, r)
    BY <1>0, <1>2 DEF S!ReportsPass
  <2>2. 1 \in shown /\ 2 \in shown
    <3>1. /\ Prelude(S!Suite) \in Nat /\ 4 <= Prelude(S!Suite) /\ Tests \in Nat
          /\ Len(S!Steps(S!Suite))
               = Prelude(S!Suite) + (IF S!Suite = "humaneval" THEN 0 ELSE Tests)
          /\ S!Steps(S!Suite)[1] = "parse" /\ S!Steps(S!Suite)[2] = "compile"
      BY <1>0, RunnerSteps, SuiteAssumption
    <3>2. 1 \in 1 .. at - 1 /\ 2 \in 1 .. at - 1
      BY <1>0, <3>1
    <3> QED BY <1>2, <3>1, <3>2 DEF S!Hidden, S!Announced
  <2>3. S!ParseStatus(r) = "passed" /\ S!CompileStatus(r) = "passed"
    BY <1>2, <2>2 DEF S!ParseStatus, S!CompileStatus
  <2>4. S!Suite # "humaneval" => S!AllShown(S!Suite, r)
    BY <1>1, <1>2, <2>3 DEF S!AllShown
  <2> QED BY <2>1, <2>4 DEF S!Category
<1>3. PICK f : f = S!Fate("passed", "none", S!TestsDone, S!Hidden \/ blind # "no")
  OBVIOUS
<1>4. /\ f.how = "passed" /\ f.tests = S!TestsDone /\ f.suite = S!Suite
      /\ f.hidden = (S!Hidden \/ blind # "no")
  BY <1>3 DEF S!Fate
<1>5. PICK v : v = S!Verdict(S!Suite, r)
  OBVIOUS
<1>6. /\ v.category = S!Category(S!Suite, r)
      /\ S!Suite # "humaneval" => v.tests = S!TestsShown(S!Suite, r)
  BY <1>5 DEF S!Verdict
<1>7. ~S!Spoilt(f)
  BY <1>4 DEF S!Spoilt
<1>8. ~f.hidden => ~S!Hidden /\ blind = "no"
  BY <1>4
<1>9. Truthful(v, f)
  BY <1>1, <1>2, <1>4, <1>6, <1>7, <1>8 DEF Truthful
<1> QED BY <1>3, <1>5, <1>9

LEMMA EndsKeeps ==
  ASSUME SuiteInv, S!Ends
  PROVE  SuiteInv'
<1>0. at > 0 /\ at = S!LastStep + 1
  BY DEF S!Ends, S!Running
<1>1. PICK lines : lines = IF blind = "no" THEN shown \cup {at} ELSE shown
  OBVIOUS
<1>2. PICK hidden : hidden = (S!Hidden \/ blind # "no")
  OBVIOUS
<1>3. hidden \in BOOLEAN /\ (S!Hidden => hidden)
  BY <1>2
<1>4. CASE S!Conclude(S!Captured("succeeded", 0, lines), TRUE,
                    S!Fate("passed", "none", S!TestsDone, hidden))
  <2>1. PICK r : r = S!Captured("succeeded", 0, lines)
    OBVIOUS
  <2>2. r.status = "succeeded" /\ r.code = 0 /\ r.lines = lines
    BY <2>1 DEF S!Captured
  <2>3. Truthful(S!Verdict(S!Suite, r), S!Fate("passed", "none", S!TestsDone, hidden))
    BY <1>0, <1>1, <1>2, <2>2, PassIsTold
  <2> QED BY <1>0, <1>4, <2>1, <2>3, ConcludeKeeps
<1>5. ASSUME NEW how \in {"hung", "died"}, NEW r, r.lines = lines,
             r.status \in {"timed_out", "failed"},
             S!Conclude(r, TRUE, S!Fate(how, "none", S!TestsDone, hidden))
      PROVE  SuiteInv'
  <2>1. S!Category(S!Suite, r) # "none"
    BY <1>5 DEF S!Category, S!ReportsPass
  <2>2. ~S!Spoilt(S!Fate(how, "none", S!TestsDone, hidden))
    BY <1>5 DEF S!Spoilt, S!Fate
  <2>3. r.lines = shown \/ r.lines = shown \cup {at}
    BY <1>1, <1>5
  <2>4. how # "passed" /\ how # "raised"
    OBVIOUS
  <2>5. Truthful(S!Verdict(S!Suite, r), S!Fate(how, "none", S!TestsDone, hidden))
    BY <1>0, <1>3, <2>1, <2>2, <2>3, <2>4, FailureIsTold
  <2> QED BY <1>0, <1>5, <2>5, ConcludeKeeps
<1>6. CASE S!Conclude(S!Captured("timed_out", 0, lines), TRUE,
                    S!Fate("hung", "none", S!TestsDone, hidden))
  <2>1. PICK r : r = S!Captured("timed_out", 0, lines)
    OBVIOUS
  <2>2. r.lines = lines /\ r.status = "timed_out"
    BY <2>1 DEF S!Captured
  <2> QED BY <1>5, <1>6, <2>1, <2>2
<1>7. CASE S!Conclude(S!Captured("failed", S!OtherCode, lines), TRUE,
                    S!Fate("died", "none", S!TestsDone, hidden))
  <2>1. PICK r : r = S!Captured("failed", S!OtherCode, lines)
    OBVIOUS
  <2>2. r.lines = lines /\ r.status = "failed"
    BY <2>1 DEF S!Captured
  <2> QED BY <1>5, <1>7, <2>1, <2>2
<1> QED BY <1>1, <1>2, <1>4, <1>6, <1>7 DEF S!Ends

LEMMA LaunchKeeps ==
  ASSUME SuiteInv, S!Launch
  PROVE  SuiteInv'
<1>1. /\ queue # <<>> /\ at = 0 /\ at' = 1 /\ fate' = None
      /\ UNCHANGED <<queue, done, shown, blind, tally, earned, broken, state, right>>
  BY DEF S!Launch, S!Idle
<1>2. S!LastStep' = S!LastStep /\ S!Suite' = S!Suite /\ S!LastStep \in Nat
  BY <1>1, SuiteFacts DEF S!LastStep, S!Suite, SuiteInv, ScoresShape
<1>3. shown' = {}
  BY <1>1 DEF SuiteInv, Runs
<1>4. ScoresShape' /\ Counts' /\ Promoted' /\ S!VerdictIsTrue'
  BY <1>1, <1>2 DEF SuiteInv, ScoresShape, Counts, Promoted, S!VerdictIsTrue
<1>5. Runs'
  BY <1>1, <1>2, <1>3 DEF Runs
<1> QED BY <1>4, <1>5 DEF SuiteInv

LEMMA StepDoneKeeps ==
  ASSUME SuiteInv, S!StepDone
  PROVE  SuiteInv'
<1>1. /\ at > 0 /\ at <= S!LastStep /\ at' = at + 1
      /\ shown' = IF S!Announced(S!Step) /\ blind = "no" THEN shown \cup {at} ELSE shown
      /\ UNCHANGED <<queue, done, intact, last, fate, tally, earned, broken, state, right>>
  BY DEF S!StepDone, S!Running, S!Announce
<1>2. S!LastStep' = S!LastStep /\ S!Suite' = S!Suite
  BY <1>1 DEF S!LastStep, S!Suite
<1>3. /\ queue # <<>> /\ S!LastStep \in Nat /\ at \in 1 .. S!LastStep + 1
      /\ shown \subseteq {i \in 1 .. at - 1 : S!Announced(S!Steps(S!Suite)[i])}
  BY <1>1, Here
<1>4. ScoresShape' /\ Counts' /\ Promoted' /\ S!VerdictIsTrue'
  BY <1>1, <1>2, <1>3 DEF SuiteInv, ScoresShape, Counts, Promoted, S!VerdictIsTrue
<1>5. \A i \in 1 .. at - 1 : i \in 1 .. at' - 1
  BY <1>1, <1>3
<1>6. at \in 1 .. at' - 1 /\ (S!Announced(S!Step) => S!Announced(S!Steps(S!Suite)[at]))
  BY <1>1, <1>3 DEF S!Step
<1>7. shown' \subseteq {i \in 1 .. at' - 1 : S!Announced(S!Steps(S!Suite)[i])}
  BY <1>1, <1>3, <1>5, <1>6
<1>8. at' # 0 /\ at' <= S!LastStep + 1
  BY <1>1, <1>3
<1>9. Runs'
  BY <1>1, <1>2, <1>3, <1>7, <1>8 DEF Runs
<1> QED BY <1>4, <1>9 DEF SuiteInv

LEMMA WritesKeeps ==
  ASSUME SuiteInv, S!WritesOnStderr
  PROVE  SuiteInv'
BY DEF S!WritesOnStderr, SuiteInv, ScoresShape, Runs, Counts, Promoted, S!VerdictIsTrue,
       S!Suite, S!LastStep

LEMMA OpenKeeps ==
  ASSUME SuiteInv, S!Open
  PROVE  SuiteInv'
<1>0. /\ state = "open" /\ Len(done) < 3 /\ queue = <<>> /\ S!Suite \notin DOMAIN tally
      /\ UNCHANGED <<done, at, intact, shown, blind, last, fate, earned, broken, right>>
  BY DEF S!Open
<1>1. S!Suite \in Names /\ S!Suite' = S!Suite
  BY <1>0, SuiteFacts DEF SuiteInv, S!Suite
<1>2. at = 0
  BY <1>0 DEF SuiteInv, ScoresShape, Runs
<1>3. S!VerdictIsTrue' /\ Runs'
  BY <1>0, <1>2 DEF SuiteInv, S!VerdictIsTrue, Runs
<1>4. CASE /\ tally' = [s \in DOMAIN tally \cup {S!Suite} |->
                          IF s = S!Suite THEN S!NoTally ELSE tally[s]]
           /\ UNCHANGED state
  <2>1. S!NoTally \in [Columns -> Nat] /\ S!NoTally["none"] = 0 /\ S!NoTally["harness"] = 0
    BY DEF S!NoTally, Columns
  <2>2. /\ DOMAIN tally' = DOMAIN tally \cup {S!Suite} /\ tally'[S!Suite] = S!NoTally
        /\ \A s \in DOMAIN tally : tally'[s] = tally[s]
    BY <1>0, <1>4
  <2>3. tally' \in [DOMAIN tally' -> [Columns -> Nat]]
    <3>1. \A s \in DOMAIN tally \cup {S!Suite} :
             (IF s = S!Suite THEN S!NoTally ELSE tally[s]) \in [Columns -> Nat]
      BY <2>1 DEF SuiteInv, ScoresShape
    <3> QED BY <1>4, <3>1
  <2>4. ScoresShape'
    BY <1>0, <1>1, <2>2, <2>3 DEF SuiteInv, ScoresShape
  <2>5. Counts'
    <3>1. broken[S!Suite] = 0 /\ earned[S!Suite] \in Nat
      BY <1>0, <1>1 DEF SuiteInv, Counts, ScoresShape
    <3> QED BY <1>0, <1>1, <2>1, <2>2, <3>1 DEF SuiteInv, Counts
  <2>6. Promoted'
    BY <1>0, <1>4 DEF Promoted
  <2> QED BY <1>3, <2>4, <2>5, <2>6 DEF SuiteInv
<1>5. CASE state' = "refused" /\ UNCHANGED <<queue, tally>>
  <2>1. ScoresShape' /\ Counts' /\ Promoted'
    BY <1>0, <1>1, <1>5 DEF SuiteInv, ScoresShape, Counts, Promoted
  <2> QED BY <1>3, <2>1 DEF SuiteInv
<1> QED BY <1>4, <1>5 DEF S!Open

LEMMA CloseSuiteKeeps ==
  ASSUME SuiteInv, S!CloseSuite
  PROVE  SuiteInv'
<1>0. /\ state = "open" /\ at = 0 /\ queue = <<>> /\ Len(done) < 3 /\ S!Suite \in DOMAIN tally
      /\ done' = Append(done, S!Suite) /\ fate' = None
      /\ UNCHANGED <<queue, at, intact, shown, blind, tally, earned, broken, state, right>>
  BY DEF S!CloseSuite
<1>1. S!Suite \in Names /\ done \in Seq(Names)
  BY <1>0, SuiteFacts DEF SuiteInv, ScoresShape
<1>2. /\ done' \in Seq(Names) /\ Len(done') = Len(done) + 1 /\ Len(done) \in Nat
      /\ \A i \in 1 .. Len(done) : done'[i] = done[i]
      /\ done'[Len(done) + 1] = S!Suite
  BY <1>0, <1>1
<1>3. \A i \in 1 .. Len(done') : i \in 1 .. Len(done) \/ i = Len(done) + 1
  BY <1>2
<1>4. \A i \in 1 .. Len(done') : done'[i] = S!Suites[i] /\ done'[i] \in DOMAIN tally
  BY <1>0, <1>2, <1>3 DEF SuiteInv, ScoresShape, S!Suite
<1>5. ScoresShape'
  <2>1. Len(done') <= 3
    BY <1>0, <1>2
  <2> QED BY <1>0, <1>2, <1>4, <2>1 DEF SuiteInv, ScoresShape
<1>6. Runs' /\ Counts' /\ Promoted' /\ S!VerdictIsTrue'
  BY <1>0 DEF SuiteInv, Runs, Counts, Promoted, S!VerdictIsTrue
<1> QED BY <1>5, <1>6 DEF SuiteInv

\* The least number of passes is the gain rounded up.
LEMMA GainRoundedUp ==
  ASSUME NEW p \in Int, NEW b \in Int, NEW x \in Int, p >= b + ((x + 99) \div 100)
  PROVE  100 * (p - b) >= x
OBVIOUS

LEMMA DecideKeeps ==
  ASSUME SuiteInv, S!Decide
  PROVE  SuiteInv'
<1>0. /\ state = "open" /\ Len(done) = 3
      /\ UNCHANGED <<queue, done, at, intact, shown, blind, last, fate, tally, earned, broken>>
  BY DEF S!Decide
<1>1. ScoresShape' /\ Runs' /\ Counts' /\ S!VerdictIsTrue'
  BY <1>0 DEF SuiteInv, ScoresShape, Runs, Counts, S!VerdictIsTrue, S!Suite, S!LastStep
<1>2. ASSUME state' = "promote"
      PROVE  /\ \A s \in DOMAIN earned : earned[s] >= BasePasses[s]
             /\ 100 * (S!Together(earned) - S!Together(BasePasses))
                  >= Gain * S!Together(S!Totals)
             /\ Cardinality(BaseRight \ right') <= MaxRegressions
  <2>1. PICK evidence \in [{"cross_language", "contamination", "load"} -> BOOLEAN] :
           S!Failing(right', evidence) = {}
    BY <1>2 DEF S!Decide
  <2>2. DOMAIN tally = Names
    <3>1. 1 \in 1 .. Len(done) /\ 2 \in 1 .. Len(done) /\ 3 \in 1 .. Len(done)
      BY <1>0
    <3>2. "humaneval" \in DOMAIN tally /\ "mbpp" \in DOMAIN tally /\ "holdout" \in DOMAIN tally
      BY <3>1, SuiteNames DEF SuiteInv, ScoresShape
    <3> QED BY <3>2 DEF Names, SuiteInv, ScoresShape
  <2>3. \A s \in Names : S!Passed(s) \in Nat /\ earned[s] \in Nat /\ S!Passed(s) <= earned[s]
    BY <2>2 DEF SuiteInv, ScoresShape, Counts, S!Passed, Columns
  <2>4. \A s \in Names : BasePasses[s] \in Nat /\ S!Totals[s] \in Nat
    BY FS_CardinalityType, SameSize, SuiteAssumption DEF S!Totals, Names
  <2>5. S!Together([s \in DOMAIN tally |-> S!Passed(s)]) >= S!MinimumCombined
    <3>1. SUFFICES ASSUME ~(S!Together([s \in DOMAIN tally |-> S!Passed(s)])
                              >= S!MinimumCombined)
                   PROVE  "combined" \in S!Failing(right', evidence)
      BY <2>1
    <3> DEFINE G == {"combined", "humaneval", "mbpp", "holdout", "general"} \cup DOMAIN evidence
               met(g) == CASE g = "combined" -> S!Together([s \in DOMAIN tally |-> S!Passed(s)])
                                                 >= S!MinimumCombined
                           [] g \in DOMAIN tally -> S!Passed(g) >= BasePasses[g]
                           [] g = "general" ->
                                 /\ S!Cardinality(right') >= MinGeneral
                                 /\ S!Cardinality(BaseRight \ right') <= MaxRegressions
                           [] OTHER -> evidence[g]
    <3>2. S!Failing(right', evidence) = {g \in G : ~met(g)}
      BY DEF S!Failing
    <3>3. "combined" \in G
      OBVIOUS
    <3>4. ~met("combined")
      <4>1. "combined" \notin DOMAIN tally
        BY <2>2 DEF Names
      <4> QED BY <3>1, <4>1
    <3> HIDE DEF G, met
    <3> QED BY <3>2, <3>3, <3>4
  <2>6. \A s \in Names : S!Passed(s) >= BasePasses[s]
    BY <2>1, <2>2 DEF S!Failing, Names
  <2>7. Cardinality(BaseRight \ right') <= MaxRegressions
    BY <2>1, <2>2, SameSize DEF S!Failing, Names
  <2>8. \A s \in DOMAIN earned : earned[s] >= BasePasses[s]
    BY <2>3, <2>4, <2>6 DEF SuiteInv, ScoresShape
  <2>9. 100 * (S!Together(earned) - S!Together(BasePasses)) >= Gain * S!Together(S!Totals)
    <3>1. "humaneval" \in Names /\ "mbpp" \in Names /\ "holdout" \in Names
      BY DEF Names
    <3>2. S!Together([s \in DOMAIN tally |-> S!Passed(s)])
             = S!Passed("humaneval") + S!Passed("mbpp") + S!Passed("holdout")
      BY <2>2, <3>1 DEF S!Together
    <3>3. PICK p, e, b, t : /\ p = S!Together([s \in DOMAIN tally |-> S!Passed(s)])
                            /\ e = S!Together(earned) /\ b = S!Together(BasePasses)
                            /\ t = S!Together(S!Totals)
      OBVIOUS
    <3>4. p \in Int /\ e \in Int /\ p <= e
      BY <2>3, <3>1, <3>2, <3>3 DEF S!Together
    <3>5. b \in Int /\ t \in Int
      BY <2>4, <3>1, <3>3 DEF S!Together
    <3>6. PICK x : x = Gain * t
      OBVIOUS
    <3>7. x \in Int
      BY <3>5, <3>6, SuiteAssumption
    <3>8. p >= b + ((x + 99) \div 100)
      BY <2>5, <3>3, <3>6 DEF S!MinimumCombined
    <3>9. 100 * (p - b) >= x
      BY <3>4, <3>5, <3>7, <3>8, GainRoundedUp
    <3>10. 100 * (e - b) >= x
      BY <3>4, <3>5, <3>7, <3>9
    <3> QED BY <3>3, <3>6, <3>10
  <2> QED BY <2>7, <2>8, <2>9
<1>3. Promoted'
  BY <1>0, <1>2 DEF Promoted, S!Together, S!Totals
<1> QED BY <1>1, <1>3 DEF SuiteInv

LEMMA InitSuite ==
  ASSUME S!Init
  PROVE  SuiteInv
<1>1. done = <<>> /\ queue = <<>> /\ at = 0 /\ shown = {} /\ fate = None /\ state = "open"
  BY DEF S!Init
<1>2. tally = [i \in {} |-> S!NoTally] /\ DOMAIN tally = {}
  BY DEF S!Init
<1>3. {S!Suites[i] : i \in 1 .. 3} = Names
  BY SuiteNames DEF Names
<1>4. earned = [s \in Names |-> 0] /\ broken = [s \in Names |-> 0]
  BY <1>3 DEF S!Init
<1>5. ScoresShape
  BY <1>1, <1>2, <1>4 DEF ScoresShape
<1> QED BY <1>1, <1>2, <1>4, <1>5 DEF SuiteInv, Runs, Counts, Promoted, S!VerdictIsTrue

LEMMA NextSuite ==
  SuiteInv /\ [S!Next]_(S!vars) => SuiteInv'
<1>1. CASE UNCHANGED S!vars
  BY <1>1 DEF S!vars, SuiteInv, ScoresShape, Runs, Counts, Promoted, S!VerdictIsTrue, S!Suite,
              S!LastStep
<1> QED
  BY <1>1, OpenKeeps, GenerationFailedKeeps, LaunchKeeps, HarnessRaisesKeeps, NeverStartsKeeps,
     StepDoneKeeps, WritesKeeps, StepRaisesKeeps, DiesKeeps, HangsKeeps, EndsKeeps,
     CloseSuiteKeeps, DecideKeeps DEF S!Next

LEMMA InvIsEarned ==
  ASSUME SuiteInv
  PROVE  S!PromotionIsEarned
<1>1. ASSUME NEW i \in DOMAIN done, S!Score(done[i]) # None
      PROVE  broken[done[i]] = 0 /\ S!Score(done[i]) <= earned[done[i]]
  <2>0. i \in 1 .. Len(done)
    BY LenProperties DEF SuiteInv, ScoresShape
  <2>1. done[i] \in DOMAIN tally /\ done[i] \in Names
    BY <2>0, ElementOfSeq DEF SuiteInv, ScoresShape
  <2>2. ~(tally[done[i]]["harness"] > 0) /\ S!Score(done[i]) = tally[done[i]]["none"]
    BY <1>1 DEF S!Score, S!Passed
  <2>3. /\ tally[done[i]]["harness"] \in Nat /\ tally[done[i]]["none"] \in Nat
        /\ broken[done[i]] \in Nat
    BY <2>1 DEF SuiteInv, ScoresShape, Columns
  <2>4. /\ tally[done[i]]["none"] <= earned[done[i]]
        /\ broken[done[i]] <= tally[done[i]]["harness"]
    BY <2>1 DEF SuiteInv, Counts
  <2> QED BY <2>2, <2>3, <2>4
<1> QED BY <1>1, SameSize DEF SuiteInv, Promoted, S!PromotionIsEarned

\* Whatever the steps of a candidate do, and whatever it hides of the lines of its runner,
\* a pass is given to a program that came to the end and to every such program that hid
\* nothing, what raised is blamed, a run that the harness or the benchmark spoilt counts
\* as a harness error, and no test is counted that did not pass (the evaluate_completion
\* of the three evaluators, of suites of any size and any number of tests).
THEOREM VerdictsAreTrue == S!Spec => []VerdictIsTrue
<1>1. SuiteInv => VerdictIsTrue
  BY DEF SuiteInv, VerdictIsTrue
<1> QED BY InitSuite, NextSuite, <1>1, PTL DEF S!Spec

\* A score counts programs that really passed and is of a suite without a run the harness
\* spoilt; and what is promoted really passed at least what the base passed in every
\* suite, together the gain asked for, rounded up, and lost no more cases of the general
\* suite than allowed (the aggregates; evaluate_python_adapter_promotion), for every
\* baseline, every gain and every size of the suites.
THEOREM PromotionsAreEarned == S!Spec => []PromotionIsEarned
<1>1. SuiteInv => PromotionIsEarned
  BY InvIsEarned DEF PromotionIsEarned
<1> QED BY InitSuite, NextSuite, <1>1, PTL DEF S!Spec

----------------------------------------------------------------------------
(* The comparison: the inductive invariant *)

\* The answers of a whole generation at a commit.
Row(sha, n) == [task |-> Tasks[n], by |-> Tree[sha].evaluated]
Complete(sha) == [n \in 1 .. Len(Tasks) |-> Row(sha, n)]

\* A stage binds a whole generation at the commit that it names.
Binds(stage) == stage \notin {None, Damaged} => stage.artifacts[1] = Complete(stage.sha)

\* The answers on the Drive are those of the commit, as far as they go.
Begun(sha, answers) ==
    answers # None => /\ answers \in Seq({Row(sha, n) : n \in 1 .. Len(Tasks)})
                      /\ Len(answers) <= Len(Tasks)
                      /\ \A n \in 1 .. Len(answers) : answers[n] = Row(sha, n)

Generated ==
    /\ DOMAIN drive = Commits
    /\ \A sha \in Commits : /\ DOMAIN drive[sha] = T!Files
                            /\ Begun(sha, drive[sha]["answers"])
                            /\ Binds(drive[sha]["stage"])
    /\ session # None =>
        /\ session.sha \in Commits
        /\ session.at \in {"stage", "handoff"} =>
              drive[session.sha]["answers"] = Complete(session.sha)

Bound(dir) == DOMAIN dir = T!Files /\ Binds(dir["stage"])

\* What is scored is a whole generation by the teacher, and what is compared are its passes.
Judged ==
    scoring # None =>
        /\ scoring.at = "score" => Bound(destination)
        /\ scoring.at = "compare" =>
              /\ T!SupportReady(scoring.sha) /\ T!ProtocolReady(scoring.sha)
              /\ scoring.of = Complete(scoring.sha)
              /\ scoring.solved = skill \cap T!Id

TeacherInv == Generated /\ Bound(copied) /\ Judged /\ T!DecisionIsAboutTheTeacher

\* Answers of the teacher that are complete are passed where it solves the task.
LEMMA SolvedOfComplete ==
  ASSUME T!SupportReady(scoring.sha)
  PROVE  T!Solved(Complete(scoring.sha)) = skill \cap T!Id
<1>1. PICK sha : sha = scoring.sha
  OBVIOUS
<1>2. Tree[sha].evaluated = Tree[sha].distilled
  BY <1>1 DEF T!SupportReady
<1>3. DOMAIN Complete(sha) = 1 .. Len(Tasks) /\ DOMAIN Tasks = 1 .. Len(Tasks)
  BY LenProperties, TeacherAssumption DEF Complete
<1>4. \A n \in 1 .. Len(Tasks) : Complete(sha)[n].task = Tasks[n]
                                 /\ Complete(sha)[n].by = Tree[sha].distilled
  BY <1>2 DEF Complete, Row
<1>5. PICK c : c = Complete(sha)
  OBVIOUS
<1>6. T!Solved(c) = {c[n].task : n \in {n \in DOMAIN c :
                       c[n].by = Tree[sha].distilled => c[n].task \in skill}}
  BY <1>1 DEF T!Solved
<1>7. {n \in DOMAIN c : c[n].by = Tree[sha].distilled => c[n].task \in skill}
         = {n \in 1 .. Len(Tasks) : Tasks[n] \in skill}
  BY <1>3, <1>4, <1>5
<1>8. T!Solved(c) = {c[n].task : n \in {n \in 1 .. Len(Tasks) : Tasks[n] \in skill}}
  BY <1>6, <1>7
<1>9. \A x : x \in T!Solved(c) <=> \E n \in 1 .. Len(Tasks) : Tasks[n] \in skill /\ x = Tasks[n]
  BY <1>4, <1>5, <1>8
<1>10. \A x : x \in T!Id <=> \E n \in 1 .. Len(Tasks) : x = Tasks[n]
  BY <1>3 DEF T!Id
<1>11. T!Solved(c) = skill \cap T!Id
  BY <1>9, <1>10
<1> QED BY <1>1, <1>5, <1>11

\* The gate looks at the tasks of the protocol and at nothing else.
LEMMA GateLooksAtTasks ==
  ASSUME NEW base, NEW solved, NEW gate, solved = skill \cap T!Id
  PROVE  /\ T!MeetsGate(base, solved, gate) <=> T!MeetsGate(base, skill, gate)
         /\ T!Passed(solved, T!Public) = T!Passed(skill, T!Public)
<1>1. T!Public \subseteq T!Id /\ \A s : T!Of(s) \subseteq T!Id
  BY DEF T!Public, T!Of
<1>2. \A X \in SUBSET T!Id : T!Passed(solved, X) = T!Passed(skill, X)
  <2>1. \A X \in SUBSET T!Id : solved \cap X = skill \cap X
    OBVIOUS
  <2> QED BY <2>1 DEF T!Passed
<1>3. \A X \in SUBSET T!Id : T!Net(base, solved, X) = T!Net(base, skill, X)
  BY <1>2 DEF T!Net
<1>4. T!Significant(base, solved, gate) <=> T!Significant(base, skill, gate)
  <2> DEFINE rare(changed, gained) ==
               LET tail == {gains \in SUBSET changed : T!Cardinality(gains) >= gained}
               IN /\ changed # {}
                  /\ T!Cardinality(tail) * gate.alphaDen
                       <= gate.alphaNum * 2 ^ T!Cardinality(changed)
             differ(t) == ((t \ base) \cup (base \ t)) \cap T!Public
  <2>1. \A t : T!Significant(base, t, gate)
                <=> rare(differ(t), T!Improvements(base, t, T!Public))
    BY DEF T!Significant
  <2>2. differ(solved) = differ(skill)
    BY <1>1
  <2>3. T!Improvements(base, solved, T!Public) = T!Improvements(base, skill, T!Public)
    <3>1. (solved \ base) \cap T!Public = (skill \ base) \cap T!Public
      BY <1>1
    <3> QED BY <3>1 DEF T!Improvements
  <2> HIDE DEF rare, differ
  <2> QED BY <2>1, <2>2, <2>3
<1>5. T!Passed(solved, T!Public) = T!Passed(skill, T!Public)
  BY <1>1, <1>2
<1>6. /\ T!Net(base, solved, T!Public) = T!Net(base, skill, T!Public)
      /\ \A s : T!Net(base, solved, T!Of(s)) = T!Net(base, skill, T!Of(s))
  BY <1>1, <1>3
<1>7. T!MeetsGate(base, solved, gate) <=> T!MeetsGate(base, skill, gate)
  BY <1>4, <1>5, <1>6 DEF T!MeetsGate
<1> QED BY <1>5, <1>7

LEMMA TasksAreFinite ==
  ASSUME NEW solved, NEW X \in SUBSET T!Id
  PROVE  T!Passed(solved, X) \in Nat
<1>1. IsFiniteSet(T!Id)
  <2>1. DOMAIN Tasks = 1 .. Len(Tasks) /\ Len(Tasks) \in Nat
    BY LenProperties, TeacherAssumption
  <2>2. Tasks \in Seq(T!Id) /\ \A t \in T!Id : \E n \in 1 .. Len(Tasks) : Tasks[n] = t
    BY <2>1, TeacherAssumption DEF T!Id
  <2> QED BY <2>2 DEF IsFiniteSet
<1>2. IsFiniteSet(solved \cap X)
  BY <1>1, FS_Subset
<1>3. T!Passed(solved, X) = Cardinality(solved \cap X)
  BY DEF T!Passed, T!Cardinality, Cardinality
<1> QED BY <1>2, <1>3, FS_CardinalityType

----------------------------------------------------------------------------
(* The comparison: one lemma per step *)

\* Where nothing of the generation moves.
LEMMA GeneratedStays ==
  ASSUME Generated, UNCHANGED <<drive, session>>
  PROVE  Generated'
BY DEF Generated


LEMMA DecisionStays ==
  ASSUME T!DecisionIsAboutTheTeacher, UNCHANGED <<report, skill>>
  PROVE  T!DecisionIsAboutTheTeacher'
BY DEF T!DecisionIsAboutTheTeacher, T!Passed, T!Net, T!MeetsGate, T!Significant, T!Improvements

LEMMA JudgedStays ==
  ASSUME Judged, UNCHANGED <<scoring, destination, skill>>
  PROVE  Judged'
BY DEF Judged, Bound

\* A directory of a commit is written by the one session.
LEMMA WriteKeeps ==
  ASSUME Generated, session # None, NEW f \in T!Files, NEW content, T!Write(f, content),
         f = "answers" => Begun(session.sha, content),
         f = "stage" => Binds(content)
  PROVE  /\ DOMAIN drive' = Commits
         /\ \A sha \in Commits : /\ DOMAIN drive'[sha] = T!Files
                                 /\ Begun(sha, drive'[sha]["answers"])
                                 /\ Binds(drive'[sha]["stage"])
         /\ f # "answers" => drive'[session.sha]["answers"] = drive[session.sha]["answers"]
<1>1. PICK c : c = session.sha
  OBVIOUS
<1>2. c \in Commits
  BY <1>1 DEF Generated
<1>3. drive' = [drive EXCEPT ![c] = [drive[c] EXCEPT ![f] = content]]
  BY <1>1 DEF T!Write
<1>4. DOMAIN drive = Commits /\ \A sha \in Commits : DOMAIN drive[sha] = T!Files
  BY DEF Generated
<1>5. /\ DOMAIN drive' = Commits
      /\ \A sha \in Commits : sha # c => drive'[sha] = drive[sha]
      /\ drive'[c] = [drive[c] EXCEPT ![f] = content]
  BY <1>2, <1>3, <1>4
<1>6. /\ DOMAIN drive'[c] = T!Files /\ drive'[c][f] = content
      /\ \A g \in T!Files : g # f => drive'[c][g] = drive[c][g]
  BY <1>2, <1>4, <1>5
<1>7. "answers" \in T!Files /\ "stage" \in T!Files
  BY DEF T!Files
<1>8. Begun(c, drive'[c]["answers"]) /\ Binds(drive'[c]["stage"])
  BY <1>1, <1>2, <1>6, <1>7 DEF Generated
<1>9. \A sha \in Commits : /\ DOMAIN drive'[sha] = T!Files
                           /\ Begun(sha, drive'[sha]["answers"])
                           /\ Binds(drive'[sha]["stage"])
  BY <1>4, <1>5, <1>6, <1>8 DEF Generated
<1> QED BY <1>1, <1>5, <1>6, <1>7, <1>9

LEMMA StartSessionKeeps ==
  ASSUME TeacherInv, NEW sha \in Commits, T!StartSession(sha)
  PROVE  TeacherInv'
<1>1. /\ session' = [sha |-> sha, at |-> "answer"]
      /\ UNCHANGED <<drive, skill, copied, destination, scoring, report>>
  BY DEF T!StartSession, T!transport, T!scorer
<1>2. session'.sha = sha /\ session'.at = "answer"
  BY <1>1
<1>3. Generated'
  BY <1>1, <1>2 DEF TeacherInv, Generated
<1> QED BY <1>1, <1>3, JudgedStays, DecisionStays DEF TeacherInv, Bound

LEMMA AnswerKeeps ==
  ASSUME TeacherInv, T!Answer
  PROVE  TeacherInv'
<1>0. /\ session # None /\ session.at = "answer"
      /\ UNCHANGED <<session, skill, copied, destination, scoring, report>>
  BY DEF T!Answer, T!transport, T!scorer
<1>1. PICK c, a : c = session.sha /\ a = T!Answered
  OBVIOUS
<1>2. Len(a) < Len(Tasks)
  BY <1>1 DEF T!Answer
<1>3. PICK b : b = Append(a, [task |-> Tasks[Len(a) + 1], by |-> Tree[c].evaluated])
  OBVIOUS
<1>4. T!Write("answers", b)
  BY <1>1, <1>3 DEF T!Answer
<1>5. Begun(c, b)
  <2> DEFINE R == {Row(c, n) : n \in 1 .. Len(Tasks)}
  <2>1. /\ a \in Seq(R) /\ Len(a) <= Len(Tasks)
        /\ \A n \in 1 .. Len(a) : a[n] = Row(c, n)
    <3>1. CASE drive[c]["answers"] = None
      <4>1. a = <<>>
        BY <1>1, <3>1 DEF T!Answered
      <4>2. Len(Tasks) \in Nat
        BY LenProperties, TeacherAssumption
      <4> QED BY <4>1, <4>2
    <3>2. CASE drive[c]["answers"] # None
      <4>1. a = drive[c]["answers"]
        BY <1>1, <3>2 DEF T!Answered
      <4>2. Begun(c, a)
        BY <1>0, <1>1, <4>1 DEF TeacherInv, Generated
      <4> QED BY <3>2, <4>1, <4>2 DEF Begun
    <3> QED BY <3>1, <3>2
  <2>2. Len(a) \in Nat /\ Len(Tasks) \in Nat
    BY <2>1, LenProperties, TeacherAssumption
  <2>3. Len(a) + 1 \in 1 .. Len(Tasks)
    BY <1>2, <2>2
  <2>4. b = Append(a, Row(c, Len(a) + 1)) /\ Row(c, Len(a) + 1) \in R
    BY <1>3, <2>3 DEF Row
  <2> HIDE DEF R
  <2>5. /\ b \in Seq(R) /\ Len(b) = Len(a) + 1
        /\ \A n \in 1 .. Len(a) : b[n] = a[n]
        /\ b[Len(a) + 1] = Row(c, Len(a) + 1)
    BY <2>1, <2>2, <2>4, AppendProperties
  <2>6. \A n \in 1 .. Len(b) : n \in 1 .. Len(a) \/ n = Len(a) + 1
    BY <2>2, <2>5
  <2>7. ASSUME NEW n \in 1 .. Len(b) PROVE b[n] = Row(c, n)
    <3>1. CASE n \in 1 .. Len(a)
      <4>1. b[n] = a[n] /\ a[n] = Row(c, n)
        BY <2>1, <2>5, <3>1
      <4> QED BY <4>1
    <3>2. CASE n = Len(a) + 1
      BY <2>5, <3>2
    <3> QED BY <2>6, <3>1, <3>2
  <2>8. Len(b) <= Len(Tasks)
    BY <1>2, <2>2, <2>5
  <2> QED BY <2>5, <2>7, <2>8 DEF Begun, R
<1>6. Generated'
  <2>1. "answers" \in T!Files
    BY DEF T!Files
  <2>2. Generated
    BY DEF TeacherInv
  <2>3. /\ DOMAIN drive' = Commits
        /\ \A sha \in Commits : /\ DOMAIN drive'[sha] = T!Files
                                /\ Begun(sha, drive'[sha]["answers"])
                                /\ Binds(drive'[sha]["stage"])
    BY <1>0, <1>1, <1>4, <1>5, <2>1, <2>2, WriteKeeps
  <2> QED BY <1>0, <2>2, <2>3 DEF Generated
<1> QED BY <1>0, <1>6, JudgedStays, DecisionStays DEF TeacherInv, Bound

\* Answers that are as many as the tasks are complete.
LEMMA AllAnswered ==
  ASSUME Generated, session # None, Len(T!Answered) = Len(Tasks)
  PROVE  drive[session.sha]["answers"] = Complete(session.sha)
<1>1. PICK c, a : c = session.sha /\ a = drive[c]["answers"]
  OBVIOUS
<1>2. Len(Tasks) \in Nat /\ Len(Tasks) # 0
  BY LenProperties, EmptySeq, TeacherAssumption
<1>3. a # None /\ T!Answered = a
  BY <1>1, <1>2 DEF T!Answered
<1>4. Begun(c, a)
  BY <1>1 DEF Generated
<1>5. /\ a \in Seq({Row(c, n) : n \in 1 .. Len(Tasks)}) /\ Len(a) = Len(Tasks)
      /\ \A n \in 1 .. Len(Tasks) : a[n] = Row(c, n)
  BY <1>3, <1>4 DEF Begun
<1>6. a = [n \in 1 .. Len(Tasks) |-> Row(c, n)]
  BY <1>5, LenProperties
<1> QED BY <1>1, <1>6 DEF Complete

LEMMA WriteMetadataKeeps ==
  ASSUME TeacherInv, T!WriteMetadata
  PROVE  TeacherInv'
<1>0. /\ session # None /\ Len(T!Answered) = Len(Tasks) /\ T!Write("metadata", sessions)
      /\ session' = [session EXCEPT !.at = "stage"]
      /\ UNCHANGED <<skill, copied, destination, scoring, report>>
  BY DEF T!WriteMetadata, T!transport, T!scorer, T!Goto
<1>1. Generated /\ drive[session.sha]["answers"] = Complete(session.sha)
  BY <1>0, AllAnswered DEF TeacherInv
<1>2. "metadata" \in T!Files
  BY DEF T!Files
<1>3. /\ DOMAIN drive' = Commits
      /\ \A sha \in Commits : /\ DOMAIN drive'[sha] = T!Files
                              /\ Begun(sha, drive'[sha]["answers"])
                              /\ Binds(drive'[sha]["stage"])
      /\ drive'[session.sha]["answers"] = drive[session.sha]["answers"]
  BY <1>0, <1>1, <1>2, WriteKeeps
<1>4. session'.sha = session.sha
  BY <1>0
<1>5. Generated'
  BY <1>0, <1>1, <1>3, <1>4 DEF Generated
<1> QED BY <1>0, <1>5, JudgedStays, DecisionStays DEF TeacherInv, Bound

LEMMA WriteStageKeeps ==
  ASSUME TeacherInv, T!WriteStage
  PROVE  TeacherInv'
<1>0. /\ session # None /\ session.at = "stage"
      /\ session' = [session EXCEPT !.at = "handoff"]
      /\ UNCHANGED <<skill, copied, destination, scoring, report>>
  BY DEF T!WriteStage, T!transport, T!scorer, T!Goto
<1>1. PICK content :
        content = [sha |-> session.sha, artifacts |-> T!Artifacts(drive[session.sha])]
  OBVIOUS
<1>2. T!Write("stage", content)
  BY <1>1 DEF T!WriteStage
<1>3. Generated /\ drive[session.sha]["answers"] = Complete(session.sha)
  BY <1>0 DEF TeacherInv, Generated
<1>4. Binds(content)
  BY <1>1, <1>3 DEF Binds, T!Artifacts
<1>5. "stage" \in T!Files /\ "answers" # "stage"
  BY DEF T!Files
<1>6. /\ DOMAIN drive' = Commits
      /\ \A sha \in Commits : /\ DOMAIN drive'[sha] = T!Files
                              /\ Begun(sha, drive'[sha]["answers"])
                              /\ Binds(drive'[sha]["stage"])
      /\ drive'[session.sha]["answers"] = drive[session.sha]["answers"]
  BY <1>0, <1>2, <1>3, <1>4, <1>5, WriteKeeps
<1>7. session'.sha = session.sha
  BY <1>0
<1>8. Generated'
  BY <1>0, <1>3, <1>6, <1>7 DEF Generated
<1> QED BY <1>0, <1>8, JudgedStays, DecisionStays DEF TeacherInv, Bound

LEMMA WriteHandoffKeeps ==
  ASSUME TeacherInv, T!WriteHandoff
  PROVE  TeacherInv'
<1>0. /\ session # None /\ session' = None
      /\ UNCHANGED <<skill, copied, destination, scoring, report>>
  BY DEF T!WriteHandoff, T!transport, T!scorer
<1>1. PICK content : T!Write("handoff", content)
  BY DEF T!WriteHandoff
<1>2. "handoff" \in T!Files /\ Generated
  BY DEF T!Files, TeacherInv
<1>3. /\ DOMAIN drive' = Commits
      /\ \A sha \in Commits : /\ DOMAIN drive'[sha] = T!Files
                              /\ Begun(sha, drive'[sha]["answers"])
                              /\ Binds(drive'[sha]["stage"])
  BY <1>0, <1>1, <1>2, WriteKeeps
<1>4. Generated'
  BY <1>0, <1>3 DEF Generated
<1> QED BY <1>0, <1>4, JudgedStays, DecisionStays DEF TeacherInv, Bound

LEMMA DisconnectKeeps ==
  ASSUME TeacherInv, T!Disconnect
  PROVE  TeacherInv'
<1>0. session' = None /\ UNCHANGED <<drive, skill, copied, destination, scoring, report>>
  BY DEF T!Disconnect, T!transport, T!scorer
<1>1. Generated'
  BY <1>0 DEF TeacherInv, Generated
<1> QED BY <1>0, <1>1, JudgedStays, DecisionStays DEF TeacherInv, Bound

\* A stage is copied from the Drive, or does not bind any more.
LEMMA TransportKeeps ==
  ASSUME TeacherInv, NEW f \in T!Files, T!Damage(f) \/ \E sha \in Commits : T!Copy(sha, f)
  PROVE  TeacherInv'
<1>0. UNCHANGED <<drive, session, skill, destination, scoring, report>>
  BY DEF T!Copy, T!Damage, T!colab, T!scorer
<1>1. PICK content : /\ copied' = [copied EXCEPT ![f] = content]
                     /\ content = Damaged \/ \E sha \in Commits : content = drive[sha][f]
  BY DEF T!Copy, T!Damage
<1>2. f = "stage" => Binds(content)
  BY <1>1 DEF TeacherInv, Generated, Binds
<1>3. Bound(copied)'
  <2>1. "stage" \in T!Files
    BY DEF T!Files
  <2> QED BY <1>1, <1>2, <2>1 DEF TeacherInv, Bound
<1> QED BY <1>0, <1>3, GeneratedStays, JudgedStays, DecisionStays DEF TeacherInv

LEMMA StartScoringKeeps ==
  ASSUME TeacherInv, NEW sha, T!StartScoring(sha)
  PROVE  TeacherInv'
<1>0. /\ scoring' = [sha |-> sha, at |-> "copy", solved |-> {}]
      /\ UNCHANGED <<drive, session, skill, copied, destination, report>>
  BY DEF T!StartScoring, T!colab, T!transport
<1>1. scoring'.at = "copy"
  BY <1>0
<1>2. Judged'
  BY <1>1 DEF Judged
<1> QED BY <1>0, <1>2, GeneratedStays, DecisionStays DEF TeacherInv, Bound

LEMMA CopyTreeKeeps ==
  ASSUME TeacherInv, T!CopyTree
  PROVE  TeacherInv'
<1>0. /\ scoring # None /\ scoring.at = "copy"
      /\ UNCHANGED <<drive, session, skill, copied, report>>
  BY DEF T!CopyTree, T!colab, T!transport
<1>1. CASE scoring' = None
  BY <1>0, <1>1, GeneratedStays, DecisionStays DEF TeacherInv, Bound, Judged
<1>2. CASE scoring' = [scoring EXCEPT !.at = "score"] /\ destination' = copied
  <2>1. scoring' # None => scoring'.at # "compare"
    BY <1>0, <1>2
  <2>2. Judged'
    BY <1>2, <2>1 DEF TeacherInv, Judged, Bound
  <2> QED BY <1>0, <2>2, GeneratedStays, DecisionStays DEF TeacherInv, Bound
<1> QED BY <1>1, <1>2 DEF T!CopyTree

LEMMA ScoreKeeps ==
  ASSUME TeacherInv, NEW spoilt, T!Score(spoilt)
  PROVE  TeacherInv'
<1>0. /\ scoring # None /\ scoring.at = "score"
      /\ UNCHANGED <<drive, session, skill, copied, report>>
  BY DEF T!Score, T!colab, T!transport
<1>1. CASE scoring' = None
  BY <1>0, <1>1, GeneratedStays, DecisionStays DEF TeacherInv, Bound, Judged
<1>2. CASE /\ T!ProtocolReady(scoring.sha) /\ T!SupportReady(scoring.sha)
           /\ T!StageIsValid(destination, scoring.sha)
           /\ spoilt = {}
           /\ scoring' = [sha |-> scoring.sha, at |-> "compare",
                         solved |-> T!Solved(destination["answers"]) \ spoilt,
                         of |-> destination["answers"]]
  <2>1. destination["answers"] = Complete(scoring.sha)
    <3>1. Binds(destination["stage"])
      BY <1>0 DEF TeacherInv, Judged, Bound
    <3>2. /\ destination["stage"] \notin {None, Damaged}
          /\ destination["stage"].sha = scoring.sha
          /\ destination["stage"].artifacts = T!Artifacts(destination)
      BY <1>2 DEF T!StageIsValid, T!Readable
    <3>3. T!Artifacts(destination)[1] = destination["answers"]
      BY DEF T!Artifacts
    <3> QED BY <3>1, <3>2, <3>3 DEF Binds
  <2>2. T!Solved(destination["answers"]) \ spoilt = skill \cap T!Id
    BY <1>2, <2>1, SolvedOfComplete
  <2>3. /\ scoring'.sha = scoring.sha /\ scoring'.at = "compare"
        /\ scoring'.solved = skill \cap T!Id /\ scoring'.of = Complete(scoring.sha)
    BY <1>2, <2>1, <2>2
  <2>4. Judged'
    BY <1>0, <1>2, <2>3 DEF Judged
  <2> QED BY <1>0, <2>4, GeneratedStays, DecisionStays DEF TeacherInv, Bound
<1> QED BY <1>1, <1>2 DEF T!Score, T!Freezable

LEMMA FreshCheckoutKeeps ==
  ASSUME TeacherInv, T!FreshCheckout
  PROVE  TeacherInv'
<1>0. scoring = None /\ UNCHANGED <<drive, session, skill, copied, scoring, report>>
  BY DEF T!FreshCheckout, T!colab, T!transport
<1>1. Judged'
  BY <1>0 DEF Judged
<1> QED BY <1>0, <1>1, GeneratedStays, DecisionStays DEF TeacherInv, Bound

\* The report is of the passes of the teacher, against a baseline with the scores of the gate.
LEMMA CompareKeeps ==
  ASSUME TeacherInv, NEW base, T!Compare(base)
  PROVE  TeacherInv'
<1>0. /\ scoring # None /\ scoring.at = "compare" /\ scoring' = None
      /\ UNCHANGED <<drive, session, skill, copied, destination>>
  BY DEF T!Compare, T!colab, T!transport
<1>1. Judged'
  BY <1>0 DEF Judged
<1>2. CASE UNCHANGED report
  BY <1>0, <1>1, <1>2, GeneratedStays, DecisionStays DEF TeacherInv, Bound
<1>3. PICK sha, gate : sha = scoring.sha /\ gate = Tree[sha].gate
  OBVIOUS
<1>4. CASE /\ T!Comparable(base, gate)
           /\ report' = [sha |-> sha, base |-> base.solved, of |-> scoring.of,
                        authorize |-> T!MeetsGate(base.solved, scoring.solved, gate)]
  <2>1. /\ T!SupportReady(sha) /\ T!ProtocolReady(sha) /\ scoring.of = Complete(sha)
        /\ scoring.solved = skill \cap T!Id
    BY <1>0, <1>3 DEF TeacherInv, Judged
  <2>2. /\ report'.sha = sha /\ report'.base = base.solved /\ report'.of = Complete(sha)
        /\ report'.authorize = T!MeetsGate(base.solved, scoring.solved, gate)
    BY <1>4, <2>1
  <2>3. /\ T!MeetsGate(base.solved, scoring.solved, gate)
              <=> T!MeetsGate(base.solved, skill, gate)
        /\ T!Passed(scoring.solved, T!Public) = T!Passed(skill, T!Public)
    BY <2>1, GateLooksAtTasks
  <2>4. /\ Len(Complete(sha)) = Len(Tasks)
        /\ \A n \in DOMAIN Tasks :
             Complete(sha)[n] = [task |-> Tasks[n], by |-> Tree[sha].distilled]
    <3>1. DOMAIN Tasks = 1 .. Len(Tasks) /\ Len(Tasks) \in Nat
      BY LenProperties, TeacherAssumption
    <3>2. Tree[sha].evaluated = Tree[sha].distilled
      BY <2>1 DEF T!SupportReady
    <3> QED BY <3>1, <3>2 DEF Complete, Row
  <2>5. gate.primary = Fixed.primary
    BY <1>3, <2>1 DEF T!ProtocolReady
  <2>6. report'.authorize => T!Passed(skill, T!Public) >= Fixed.primary.minPassed
    BY <2>2, <2>3, <2>5 DEF T!MeetsGate
  <2>7. ASSUME gate = Fixed, report'.authorize, NEW s \in {"humaneval", "mbpp"}
        PROVE  T!Net(FrozenSolved, skill, T!Of(s)) >= 0
    <3>1. T!Net(base.solved, skill, T!Of(s)) >= Fixed.minDelta
      BY <2>2, <2>3, <2>7 DEF T!MeetsGate
    <3>2. T!Passed(base.solved, T!Of(s)) = Fixed.base[s]
      BY <1>4, <2>7 DEF T!Comparable
    <3>3. T!Passed(FrozenSolved, T!Of(s)) = Fixed.base[s] /\ Fixed.minDelta \in Nat
      BY TeacherAssumption
    <3>4. T!Net(FrozenSolved, skill, T!Of(s)) = T!Net(base.solved, skill, T!Of(s))
      BY <3>2, <3>3 DEF T!Net
    <3>5. T!Net(base.solved, skill, T!Of(s)) \in Int
      <4>1. T!Of(s) \in SUBSET T!Id
        BY DEF T!Of
      <4>2. T!Passed(skill, T!Of(s)) \in Nat /\ T!Passed(base.solved, T!Of(s)) \in Nat
        BY <4>1, TasksAreFinite
      <4> QED BY <4>2 DEF T!Net
    <3> QED BY <3>1, <3>3, <3>4, <3>5
  <2>8. gate = Fixed /\ report'.base = FrozenSolved
           => (report'.authorize <=> T!MeetsGate(FrozenSolved, skill, Fixed))
    BY <2>2, <2>3
  <2>9. T!DecisionIsAboutTheTeacher'
    <3>1. /\ Len(report'.of) = Len(Tasks)
          /\ \A n \in DOMAIN Tasks :
               report'.of[n] = [task |-> Tasks[n], by |-> Tree[report'.sha].distilled]
      BY <2>2, <2>4
    <3>2. Tree[report'.sha].gate = gate /\ skill' = skill
      BY <1>0, <1>3, <2>2
    <3>3. Tree[report'.sha].gate = Fixed =>
             /\ report'.authorize =>
                  \A s \in {"humaneval", "mbpp"} : T!Net(FrozenSolved, skill', T!Of(s)) >= 0
             /\ report'.base = FrozenSolved =>
                  (report'.authorize <=> T!MeetsGate(FrozenSolved, skill', Fixed))
      BY <2>7, <2>8, <3>2
    <3>4. report'.authorize => T!Passed(skill', T!Public) >= Fixed.primary.minPassed
      BY <2>6, <3>2
    <3> QED BY <3>1, <3>3, <3>4 DEF T!DecisionIsAboutTheTeacher
  <2> QED BY <1>0, <1>1, <2>9, GeneratedStays DEF TeacherInv, Bound
<1> QED BY <1>2, <1>3, <1>4 DEF T!Compare

LEMMA InitTeacher ==
  ASSUME T!Init
  PROVE  TeacherInv
<1>1. /\ DOMAIN drive = Commits
      /\ \A sha \in Commits : drive[sha] = T!Empty
      /\ session = None /\ copied = T!Empty /\ scoring = None /\ report = None
  BY DEF T!Init
<1>2. DOMAIN T!Empty = T!Files /\ T!Empty["answers"] = None /\ T!Empty["stage"] = None
  BY DEF T!Empty, T!Files
<1> QED BY <1>1, <1>2 DEF TeacherInv, Generated, Begun, Bound, Binds, Judged,
           T!DecisionIsAboutTheTeacher

LEMMA NextTeacher ==
  TeacherInv /\ [T!Next]_(T!vars) => TeacherInv'
<1>1. ASSUME TeacherInv, UNCHANGED T!vars PROVE TeacherInv'
  <2>1. UNCHANGED <<drive, session, skill, copied, destination, scoring, report>>
    BY <1>1 DEF T!vars, T!colab, T!transport, T!scorer
  <2> QED BY <1>1, <2>1, GeneratedStays, JudgedStays, DecisionStays DEF TeacherInv, Bound
<1> QED
  BY <1>1, StartSessionKeeps, AnswerKeeps, WriteMetadataKeeps, WriteStageKeeps,
     WriteHandoffKeeps, DisconnectKeeps, TransportKeeps, StartScoringKeeps, CopyTreeKeeps,
     ScoreKeeps, FreshCheckoutKeeps, CompareKeeps DEF T!Next

\* Whatever sessions are interrupted, however files of any commits are copied and damaged,
\* whichever tree is scored and whichever baseline is given: a report is of the teacher's
\* answer to every task, and what it authorizes is what the teacher solves under the gate
\* that was fixed before (run_ftr_202_colab.py, the isolated scoring and
\* _ftr_teacher_compare.py, for any protocol and any gate of that shape).
THEOREM DecisionsAreAboutTheTeacher == T!Spec => []DecisionIsAboutTheTeacher
<1>1. TeacherInv => DecisionIsAboutTheTeacher
  BY DEF TeacherInv, DecisionIsAboutTheTeacher
<1> QED BY InitTeacher, NextTeacher, <1>1, PTL DEF T!Spec
====
