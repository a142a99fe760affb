---- MODULE ExecutionHarness ----
(***************************************************************************)
(* evaluation/execution.py: one candidate program is run under a wall      *)
(* clock, either directly or by the command line of a container engine,    *)
(* while two threads drain its output into bounded buffers.  The harness,  *)
(* the readers, the processes and the container all move on their own; the *)
(* pipes between them are bounded, and the harness has to end with a true  *)
(* account of what happened or with an error.                              *)
(*                                                                         *)
(* Output is counted, not spelled.  The processes, the pipes, the engine   *)
(* and Python's BufferedReader, whose close() waits for the read in        *)
(* progress, are external.                                                 *)
(***************************************************************************)
EXTENDS Integers, FiniteSets

CONSTANTS
    Leader,         \* the process Popen starts: the candidate, or the engine's CLI
    Children,       \* processes a direct candidate may leave in the background
    ChildStreams,   \* the streams such a child may inherit
    Kinds,          \* subset of {"oci", "direct"}: the backends
    Capacity,       \* of a pipe
    Chunk,          \* what one read asks for: 64 * 1024
    Limit,          \* max_output_bytes
    MaxOutput,      \* bound: what is written to one stream
    MaxFaults,      \* bound: reads that raise
    None, Raised

ASSUME HarnessAssumption ==
    /\ Leader \notin Children
    /\ ChildStreams \subseteq {"stdout", "stderr"}
    /\ Kinds \subseteq {"oci", "direct"}
    /\ Capacity \in Nat \ {0} /\ Chunk \in Nat \ {0} /\ Limit \in Nat \ {0}
    /\ MaxOutput \in Nat /\ MaxFaults \in Nat

Streams == {"stdout", "stderr"}
Procs == {Leader} \cup Children

VARIABLES
    kind,        \* the backend in use
    pc,          \* where run() is
    timedOut,    \* timed_out
    cleanup,     \* cleanup_error is set
    outcome,     \* None, Raised, or the ExecutionResult
    proc,        \* "none", "running" or "dead"
    grouped,     \* the processes still in the group of the leader
    holds,       \* the streams each process keeps open
    code,        \* the leader's exit status, or None while it has none
    container,   \* "none", "absent", "running", "late" or "gone"
    pipe,        \* bytes in each pipe
    written,     \* bytes ever written to it
    reader,      \* each thread: "none", "reading", "done" or "failed"
    chunk,       \* bytes its read in progress has collected
    data,        \* bytes in its buffer
    truncated,   \* its truncated flag
    faults

harness == <<kind, pc, timedOut, cleanup, outcome>>
system == <<proc, grouped, holds, code, container>>
readers == <<reader, chunk, data, truncated>>
vars == <<harness, system, pipe, written, readers, faults>>

Zero == [s \in Streams |-> 0]

Init ==
    /\ kind \in Kinds
    /\ pc = "launch" /\ timedOut = FALSE /\ cleanup = FALSE /\ outcome = None
    /\ proc = [p \in Procs |-> "none"]
    /\ grouped = {Leader}
    /\ holds = [p \in Procs |-> {}]
    /\ code = None /\ container = "none"
    /\ pipe = Zero /\ written = Zero
    /\ reader = [s \in Streams |-> "none"]
    /\ chunk = Zero /\ data = Zero
    /\ truncated = [s \in Streams |-> FALSE]
    /\ faults = 0

Running(p) == proc[p] = "running"
Min2(a, b) == IF a < b THEN a ELSE b

\* Nobody can write to the stream any more and nothing is left in the pipe.
AtEof(s) == pipe[s] = 0 /\ \A p \in Procs : s \notin holds[p]

----------------------------------------------------------------------------
(* The processes and the container *)

\* Processes that die close what they held.
Dead(dead) ==
    /\ proc' = [p \in Procs |-> IF p \in dead THEN "dead" ELSE proc[p]]
    /\ holds' = [p \in Procs |-> IF p \in dead THEN {} ELSE holds[p]]

Write(p, s) ==
    /\ Running(p) /\ s \in holds[p]
    /\ pipe[s] < Capacity /\ written[s] < MaxOutput
    /\ pipe' = [pipe EXCEPT ![s] = @ + 1]
    /\ written' = [written EXCEPT ![s] = @ + 1]
    /\ UNCHANGED <<harness, system, readers, faults>>

\* A direct candidate starts a background process, in its group or outside it.
Fork(c) ==
    /\ kind = "direct" /\ Running(Leader) /\ proc[c] = "none"
    /\ proc' = [proc EXCEPT ![c] = "running"]
    /\ grouped' \in {grouped, grouped \cup {c}}
    /\ \E open \in SUBSET (ChildStreams \cap holds[Leader]) : holds' = [holds EXCEPT ![c] = open]
    /\ UNCHANGED <<harness, code, container, pipe, written, readers, faults>>

\* A direct candidate or its child closes a stream of its own and goes on.
Close(p, s) ==
    /\ kind = "direct" /\ Running(p) /\ s \in holds[p]
    /\ holds' = [holds EXCEPT ![p] = @ \ {s}]
    /\ UNCHANGED <<harness, proc, grouped, code, container, pipe, written, readers, faults>>

\* A process ends by itself; the engine's CLI only once there is no container.
Exit(p) ==
    /\ Running(p)
    /\ p = Leader => container \notin {"running", "late"}
    /\ Dead({p})
    /\ IF p = Leader THEN code' \in {0, 1} ELSE UNCHANGED code
    /\ container' = IF p = Leader /\ container = "absent" THEN "gone" ELSE container
    /\ UNCHANGED <<harness, grouped, pipe, written, readers, faults>>

\* The engine takes its time: the container may even come up after the harness
\* has asked for its removal and found nothing to remove.
ContainerStarts ==
    /\ container = "absent"
    /\ container' = IF pc \in {"wait", "remove"} THEN "running" ELSE "late"
    /\ UNCHANGED <<harness, proc, grouped, holds, code, pipe, written, readers, faults>>

ContainerEnds ==
    /\ container \in {"running", "late"}
    /\ container' = "gone"
    /\ UNCHANGED <<harness, proc, grouped, holds, code, pipe, written, readers, faults>>

----------------------------------------------------------------------------
(* _BoundedCapture.consume, one thread for each stream *)

\* The read in progress takes what has arrived ...
Fill(s) ==
    /\ reader[s] = "reading" /\ pipe[s] > 0 /\ chunk[s] < Chunk
    /\ pipe' = [pipe EXCEPT ![s] = @ - 1]
    /\ chunk' = [chunk EXCEPT ![s] = @ + 1]
    /\ UNCHANGED <<harness, system, written, reader, data, truncated, faults>>

\* ... and returns when it has all it asked for, or at the end.
Returned(s) == chunk[s] = Chunk \/ AtEof(s)

\* Mutant of Deliver: the flag is set only by a chunk that finds the buffer full.
DeliverLateFlag(s) ==
    /\ reader[s] = "reading" /\ chunk[s] > 0 /\ Returned(s)
    /\ LET remaining == Limit - data[s]
       IN  /\ data' = [data EXCEPT ![s] = @ + Min2(chunk[s], remaining)]
           /\ truncated' = [truncated EXCEPT ![s] = @ \/ remaining = 0]
    /\ chunk' = [chunk EXCEPT ![s] = 0]
    /\ UNCHANGED <<harness, system, pipe, written, reader, faults>>

\* The chunk is kept as far as there is room, and drained anyway.
Deliver(s) ==
    /\ reader[s] = "reading" /\ chunk[s] > 0 /\ Returned(s)
    /\ LET remaining == Limit - data[s]
       IN  /\ data' = [data EXCEPT ![s] = @ + Min2(chunk[s], remaining)]
           /\ truncated' = [truncated EXCEPT ![s] = @ \/ chunk[s] > remaining]
    /\ chunk' = [chunk EXCEPT ![s] = 0]
    /\ UNCHANGED <<harness, system, pipe, written, reader, faults>>

ReaderEnds(s) ==
    /\ reader[s] = "reading" /\ chunk[s] = 0 /\ AtEof(s)
    /\ reader' = [reader EXCEPT ![s] = "done"]
    /\ UNCHANGED <<harness, system, pipe, written, chunk, data, truncated, faults>>

\* The read raises: the error is kept and the thread ends.
ReaderFails(s) ==
    /\ reader[s] = "reading" /\ faults < MaxFaults
    /\ faults' = faults + 1
    /\ reader' = [reader EXCEPT ![s] = "failed"]
    /\ UNCHANGED <<harness, system, pipe, written, chunk, data, truncated>>

ReaderStep(s) == Fill(s) \/ Deliver(s) \/ ReaderEnds(s)

----------------------------------------------------------------------------
(* run() *)

\* Popen, and the two capture threads; or the executable cannot be started.
Launch ==
    /\ pc = "launch"
    /\ \/ /\ pc' = "wait"
          /\ proc' = [proc EXCEPT ![Leader] = "running"]
          /\ holds' = [holds EXCEPT ![Leader] = Streams]
          /\ reader' = [s \in Streams |-> "reading"]
          /\ container' = IF kind = "direct" THEN "none" ELSE "absent"
          /\ UNCHANGED outcome
       \/ /\ pc' = "ended" /\ outcome' = Raised
          /\ UNCHANGED <<proc, holds, reader, container>>
    /\ UNCHANGED <<kind, timedOut, cleanup, grouped, code, pipe, written, chunk, data,
                   truncated, faults>>

WaitReturns ==
    /\ pc = "wait" /\ ~Running(Leader)
    /\ pc' = "join"
    /\ UNCHANGED <<kind, timedOut, cleanup, outcome, system, pipe, written, readers, faults>>

\* Mutant of WaitTimesOut: a direct process is left to itself.
WaitTimesOutNoKill ==
    /\ pc = "wait" /\ Running(Leader)
    /\ timedOut' = TRUE
    /\ pc' = IF kind = "oci" THEN "remove" ELSE "join"
    /\ UNCHANGED <<kind, cleanup, outcome, system, pipe, written, readers, faults>>

WaitTimesOut ==
    /\ pc = "wait" /\ Running(Leader)
    /\ timedOut' = TRUE
    /\ pc' = IF kind = "oci" THEN "remove" ELSE "kill"
    /\ UNCHANGED <<kind, cleanup, outcome, system, pipe, written, readers, faults>>

\* Mutant of RemoveContainer: what the removal says is not looked at.
RemoveContainerUnchecked ==
    /\ pc = "remove"
    /\ container' \in {container, IF container = "running" THEN "gone" ELSE container}
    /\ pc' = "kill"
    /\ UNCHANGED <<kind, timedOut, cleanup, outcome, proc, grouped, holds, code, pipe, written,
                   readers, faults>>

\* _force_remove_container; when it fails or takes too long, the error is kept.
RemoveContainer ==
    /\ pc = "remove"
    /\ \/ /\ container' = IF container = "running" THEN "gone" ELSE container
          /\ UNCHANGED cleanup
       \/ /\ container' \in {container, IF container = "running" THEN "gone" ELSE container}
          /\ cleanup' = TRUE
    /\ pc' = "kill"
    /\ UNCHANGED <<kind, timedOut, outcome, proc, grouped, holds, code, pipe, written,
                   readers, faults>>

\* _kill_process_group: nothing to do for a leader that has been reaped.
KillGroup ==
    /\ pc = "kill"
    /\ IF Running(Leader)
       THEN /\ Dead({p \in grouped : Running(p)})
            /\ code' = -9
       ELSE UNCHANGED <<proc, holds, code>>
    /\ pc' = "join"
    /\ UNCHANGED <<kind, timedOut, cleanup, outcome, grouped, container, pipe, written,
                   readers, faults>>

\* Both threads ended in time ...
JoinReaders ==
    /\ pc = "join" /\ \A s \in Streams : reader[s] # "reading"
    /\ pc' = "collect"
    /\ UNCHANGED <<kind, timedOut, cleanup, outcome, system, pipe, written, readers, faults>>

\* ... or one did not, and the streams are closed under them.
JoinTimesOut ==
    /\ pc = "join" /\ \E s \in Streams : reader[s] = "reading"
    /\ pc' = "closeStdout"
    /\ UNCHANGED <<kind, timedOut, cleanup, outcome, system, pipe, written, readers, faults>>

\* close() has to wait while the thread is inside a read; a thread that is not
\* finds its stream closed and fails.
CloseStream(label, s, next) ==
    /\ pc = label
    /\ reader[s] = "reading" => Returned(s)
    /\ reader' = [reader EXCEPT ![s] = IF @ = "reading" THEN "failed" ELSE @]
    /\ pc' = next
    /\ outcome' = IF next = "ended" THEN Raised ELSE outcome
    /\ UNCHANGED <<kind, timedOut, cleanup, system, pipe, written, chunk, data, truncated,
                   faults>>

\* Mutant of Finish: the exit status decides even when the time was up.
FinishByStatus ==
    /\ pc = "collect"
    /\ pc' = "ended"
    /\ IF cleanup \/ \E s \in Streams : reader[s] = "failed"
       THEN outcome' = Raised
       ELSE outcome' = [status |-> IF code = 0 THEN "succeeded"
                                   ELSE IF timedOut THEN "timed_out" ELSE "failed",
                        exit |-> IF timedOut THEN None ELSE code,
                        size |-> data, cut |-> truncated]
    /\ UNCHANGED <<kind, timedOut, cleanup, system, pipe, written, readers, faults>>

\* A capture error or a cleanup error is raised; otherwise the result is built.
Finish ==
    /\ pc = "collect"
    /\ pc' = "ended"
    /\ IF cleanup \/ \E s \in Streams : reader[s] = "failed"
       THEN outcome' = Raised
       ELSE outcome' = [status |-> IF timedOut THEN "timed_out"
                                   ELSE IF code = 0 THEN "succeeded" ELSE "failed",
                        exit |-> IF timedOut THEN None ELSE code,
                        size |-> data, cut |-> truncated]
    /\ UNCHANGED <<kind, timedOut, cleanup, system, pipe, written, readers, faults>>

HarnessStep ==
    \/ Launch \/ WaitReturns \/ WaitTimesOut \/ RemoveContainer \/ KillGroup
    \/ JoinReaders \/ JoinTimesOut
    \/ CloseStream("closeStdout", "stdout", "closeStderr")
    \/ CloseStream("closeStderr", "stderr", "ended")
    \/ Finish

Next ==
    \/ HarnessStep
    \/ \E s \in Streams : ReaderStep(s) \/ ReaderFails(s)
    \/ \E p \in Procs : Exit(p) \/ \E s \in Streams : Write(p, s) \/ Close(p, s)
    \/ \E c \in Children : Fork(c)
    \/ ContainerStarts \/ ContainerEnds

Spec == Init /\ [][Next]_vars

\* The harness and its threads are scheduled; nothing is asked of the candidate.
Fairness == WF_vars(HarnessStep) /\ \A s \in Streams : WF_vars(ReaderStep(s))
FairSpec == Spec /\ Fairness

----------------------------------------------------------------------------
(* Properties *)

Returns == outcome \notin {None, Raised}

\* What a result says of the process and its output.
AccountIsTrue ==
    Returns =>
        /\ \A s \in Streams : /\ outcome.size[s] = Min2(written[s], Limit)
                             /\ outcome.cut[s] <=> written[s] > Limit
        /\ ~Running(Leader)
        /\ (outcome.status = "timed_out") <=> timedOut
        /\ outcome.status = "succeeded" => code = 0
        /\ outcome.status = "failed" => code # 0

\* What it leaves of the container.
ContainerIsOver ==
    Returns => /\ container # "running"
               /\ ~timedOut => container \in {"none", "gone"}

\* "Drain output to EOF before closing streams": a result holds every byte that
\* was ever written, up to the limit, and says so exactly when some are missing,
\* whether the writers ended, were killed, or were cut off by a full pipe.  It is
\* about a process that is over, and one whose time was up is never reported as a
\* success or a failure of its own, though it may have exited while its container
\* was being removed.  And the container is over as well, or there was none to remove:
\* only what the engine brings up after the removal of a timed-out run ("late") is left.
ResultIsTrue == AccountIsTrue /\ ContainerIsOver

\* A run ends, with a result or an error, whatever the candidate does.
RunEnds == <>(pc = "ended")

\* What holds of the code: a run can be kept from ending only by a background
\* process that keeps an output stream open for ever.
RunEndsUnlessHeld == <>(pc = "ended") \/ []<>(\E c \in Children : holds[c] # {})
====
