---- MODULE MCExecutionHarness ----
(* Small instances of ExecutionHarness for TLC. *)
EXTENDS ExecutionHarness

CONSTANTS leader, child

BothStreams == {"stdout", "stderr"}
OneStream == {"stdout"}
====
