---- MODULE ShardLedger ----
(***************************************************************************)
(* What a directory of sealed shards promises its readers, whatever        *)
(* protocol fills it: every shard is written once and never changes, and   *)
(* a corpus handed to a reader is a snapshot of shards that were all       *)
(* sealed, as they were sealed, at one moment.  Only the medium can break  *)
(* the promise: a loss may unseal a shard, which may then be sealed again, *)
(* but no protocol may change a shard that is sealed.                      *)
(* TeacherGeneration and V4Compression implement it.                       *)
(***************************************************************************)
EXTENDS Integers, Sequences

CONSTANTS
    Shards,   \* the shard numbers: 0 .. some bound
    None      \* "not there": different from every shard's contents

VARIABLES
    ledger,   \* the contents each shard was sealed with, or None
    corpus,   \* the sequence of shards last handed to a reader, or None
    losses    \* how often the medium lost or damaged a file

vars == <<ledger, corpus, losses>>

Init ==
    /\ ledger = [k \in Shards |-> None]
    /\ corpus = None
    /\ losses = 0

\* A shard that is open is sealed with some contents.
Seal(k) ==
    /\ ledger[k] = None
    /\ ledger' = [ledger EXCEPT ![k] = ledger'[k]]
    /\ UNCHANGED <<corpus, losses>>

\* A reader is given shards 0 .. n-1, all of them sealed, or none where there is
\* nothing to do; after a loss they may have been sealed at different moments.
Publish(n) ==
    /\ losses = 0 => /\ \A k \in 0 .. n - 1 : ledger[k] # None
                     /\ corpus' = [i \in 1 .. n |-> ledger[i - 1]]
    /\ UNCHANGED <<ledger, losses>>

\* The medium unseals shards.
Lose ==
    /\ losses' > losses
    /\ \A k \in Shards : ledger'[k] \in {ledger[k], None}
    /\ UNCHANGED corpus

Next ==
    \/ \E k \in Shards : Seal(k)
    \/ Publish(0) \/ \E k \in Shards : Publish(k + 1)
    \/ Lose

Spec == Init /\ [][Next]_vars
====
