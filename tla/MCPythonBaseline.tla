---- MODULE MCPythonBaseline ----
(* Small instances of PythonBaseline for TLC. *)
EXTENDS PythonBaseline

CONSTANTS h1, h2, h3, k1, k2

\* A coding suite of two items, then the regression suite with one.
MCSuites == <<"mbpp", "general-tool-regression">>
MCItems == <<2, 1>>

\* h1 and h2 ask for the same generation, h3 for another.
MCContract == [c \in Commits |-> IF c = h3 THEN k2 ELSE k1]
====
