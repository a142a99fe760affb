---- MODULE MCCurricula ----
(* A small instance for TLC of four parts that share no state: a behaviour is a           *)
(* conversation and its alignment, or the calls of its tools, or the loss mask of a chat   *)
(* template, or the admission of environments to a curriculum.                            *)
EXTENDS Curricula, TLC

CONSTANTS
    x, y,       \* tokens
    e1, e2,     \* environments
    t, u, v, w  \* texts

VARIABLE half

MCInitials == {<<x>>}
MCEmissions == {<<x>>, <<x, y>>}
MCDeltas == {<<y>>}

conversation == <<ledger, file, said, kept, damages>>

Human == [type |-> "human", family |-> "none"]
Qwen == [type |-> "model", family |-> "qwen"]
Olmo == [type |-> "model", family |-> "olmo"]

Result(class, output) == [class |-> class, output |-> output]
Fails == Result("behavioral_failure", 1)
Passes == Result("passed", 1)

MCProducers == {Human, Qwen, Olmo}

Truth(initial, reference, preservation, texts, author, oracle) ==
    [initial |-> initial, reference |-> reference, preservation |-> preservation,
     texts |-> texts, producers |-> [author |-> author, oracle |-> oracle]]

\* Sound, though its preservation tests fail at times; nothing left to do in it, and like
\* a benchmark; like a demonstration.
MCTruths == {
    Truth({Fails}, {Passes}, {Passes, Fails}, {t}, "model", "model"),
    Truth({Passes}, {Passes}, {Passes}, {u}, "human", "human"),
    Truth({Result("parse_compile_failure", 1)}, {Passes}, {Passes}, {w}, "model", "human")}

MCEnvironments == {e1, e2}
MCBenchmarks == {"humaneval", "mbpp"}
MCExamples == {[benchmark |-> "humaneval", task |-> "h1", texts |-> {v}],
               [benchmark |-> "mbpp", task |-> "m1", texts |-> {v}]}
MCFewShots == {[task |-> "f1", texts |-> {w}]}
MCTargets == {[task |-> "k1", role |-> "training_curriculum"],
              [task |-> "k1", role |-> "qualification_evaluation"],
              [task |-> "k2", role |-> "qualification_evaluation"]}
MCReserved == {}
MCSimilar(r, s) == r = s \/ {r, s} = {u, v}

\* Templates with markers around all of an answer, around some of it or none, that open
\* an answer with a thought always, only when asked to answer, or never, and whose header
\* is one token with what follows it, or is not.
MCTemplates ==
    [marked : {{}, {"content"}, {"content", "stop"}, {"think", "content", "stop"}},
     thinks : {"never", "prompt", "always"}, joins : BOOLEAN]
MCProfile == [targets |-> {"q"}, revision |-> "r1"]

MCProbe == <<"system", "user", "assistant">>
MCConversations == {<<"user">>, <<"user", "assistant">>, <<"system", "user", "assistant">>,
    <<"user", "assistant", "user", "assistant">>, <<"user", "assistant", "user">>}
MCPlans == [mode : {"assistant_only", "completion_only"}, template : MCTemplates,
            targets : {{"q"}}, revision : {"r1"}, bf16 : {TRUE}, quantized : {TRUE}]
MCHosts == [cuda : {TRUE}, bf16 : BOOLEAN, bitsandbytes : {TRUE}]

preflight == <<tokenizer, maskReport, maskEvidence>>

\* Characters of one, two and four bytes; "g" stands for a reserved name.
MCTexts == {<<>>, <<"a">>, <<" ">>, <<"nul">>, <<"e", "a">>, <<"a", "w", "e">>,
            <<"a", "a", "e", "w">>, <<"w", "w">>, <<"a", "a", "a", "a", "e">>}
MCPaths == {<<"">>, <<" ">>, <<"", "f">>, <<".">>, <<"f", "">>, <<".", "g">>, <<"..", "f">>,
            <<"f", "..", "g">>, <<"nul">>, <<"f">>, <<"f", "g">>, <<"g">>}

Path(names) == [kind |-> "path", names |-> names]
Text(text) == [kind |-> "string", text |-> text]
Whole(n) == [kind |-> "integer", n |-> n]
Odd == [kind |-> "boolean"]

Offer(tool, args) == [tool |-> tool, args |-> args]
MCOffers ==
    {Offer("read", "path" :> Path(p)) : p \in MCPaths}
    \cup {Offer("read", "path" :> Path(<<"f">>) @@ k :> value) :
            k \in {"start_line", "max_lines", "lines"},
            value \in {Whole(n) : n \in {0, 1, 3, 4}} \cup {Odd}}
    \cup {Offer("write", "path" :> Path(<<"f">>) @@ "content" :> value) :
            value \in {Text(s) : s \in MCTexts} \cup {Odd}}
    \cup {Offer("edit", "path" :> Path(<<"f">>) @@ "old_text" :> Text(s)
                        @@ "new_text" :> Text(<<>>) @@ counted) :
            s \in {<<>>, <<"a">>},
            counted \in {<<>>} \cup {"expected_replacements" :> Whole(n) : n \in {0, 1, 100, 101}}}
    \cup {Offer("glob", "pattern" :> Path(p)) : p \in MCPaths}
    \cup {Offer("bash", "command" :> value) : value \in {Text(s) : s \in MCTexts} \cup {Odd}}

\* Those of the two profiles; a default above its maximum; a marker without room, and one
\* with room for a single byte.
MCContracts ==
    [profile : {"repository", "self_contained_v0"}, default : {2, 4}, most : {3},
     output : {2, 3, 5}, write : {4}, marker : {<<"m", "m">>}]

MCWidth == [c \in {"a", " ", "nul", "m", "e", "w"} |->
                CASE c = "e" -> 2 [] c = "w" -> 4 [] OTHER -> 1]
MCExits == {0, 1, None}

tools == <<contract, call, result>>

NoConversation == ledger = None /\ file = None /\ said = <<>> /\ kept = <<>> /\ damages = 0
NoAdmission ==
    /\ truth = None /\ manifests = {} /\ reports = {} /\ audits = {}
    /\ reserved = {} /\ admitted = {}
NoPreflight == tokenizer = None /\ maskReport = None /\ maskEvidence = None
NoTools == contract = None /\ call = None /\ result = None

MCInit ==
    \/ /\ half = "conversation" /\ Conversation!Init
       /\ NoAdmission /\ NoPreflight /\ NoTools
    \/ /\ half = "admission" /\ Init
       /\ NoConversation /\ NoPreflight /\ NoTools
    \/ /\ half = "preflight" /\ Masks!Init
       /\ NoConversation /\ NoAdmission /\ NoTools
    \/ /\ half = "tools" /\ Tools!Init
       /\ NoConversation /\ NoAdmission /\ NoPreflight

MCNext ==
    \/ /\ half = "admission" /\ Next
       /\ UNCHANGED <<half, conversation, preflight, tools>>
    \/ /\ half = "conversation" /\ Conversation!Next
       /\ UNCHANGED <<half, vars, preflight, tools>>
    \/ /\ half = "preflight" /\ Masks!Next
       /\ UNCHANGED <<half, vars, conversation, tools>>
    \/ /\ half = "tools" /\ Tools!Next
       /\ UNCHANGED <<half, vars, conversation, preflight>>

MCSpec == MCInit /\ [][MCNext]_<<half, vars, conversation, preflight, tools>>

Symmetry == Permutations({e1, e2})
====
