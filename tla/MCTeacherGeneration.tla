---- MODULE MCTeacherGeneration ----
(* Small instances of TeacherGeneration for TLC. *)
EXTENDS TeacherGeneration, TLC

CONSTANTS c1, c2, i1, i2

\* c1 cuts three records into two shards, c2 into one.
MCShardSize == [c \in Configs |-> IF c = c1 THEN 2 ELSE 3]

\* Two versions of the input file that share their first shard; a limit of three cuts
\* the first one short.
MCRecords == [i \in Inputs |-> IF i = i1 THEN <<"a", "b", "c", "d">> ELSE <<"a", "b", "d">>]

\* A single record: one shard whatever the configuration.
MCOneRecord == [i \in Inputs |-> <<"a">>]

\* Sessions, the teacher's answers and the versions of the code are interchangeable: no
\* definition singles one out.
Symmetry == Permutations(Sessions) \cup Permutations(Answers) \cup Permutations(Codes)
====
