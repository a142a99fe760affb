---- MODULE MCAdapterPromotion ----
(* Small instances of AdapterPromotion for TLC. *)
EXTENDS AdapterPromotion

CONSTANTS r1, r2, base, other, manifest, weights, tokenizer, stray

\* r1 and r2 are runs of two adapters.
MCAdapterOf == [r \in Runs |-> IF r = r1 THEN base ELSE other]

\* The archive of r1 has no tokenizer file; "stray" is in none.
MCManaged == [r \in Runs |-> IF r = r1 THEN {manifest, weights}
                             ELSE {manifest, weights, tokenizer}]

\* Both archives have the same files.
MCSameManaged == [r \in Runs |-> {manifest, weights}]
====
