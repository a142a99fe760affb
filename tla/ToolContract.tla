---- MODULE ToolContract ----
(***************************************************************************)
(* pvrl/tool_contract.py: the calls that a policy may make of its tools    *)
(* and the results that it is shown, as they are parsed, bounded, written  *)
(* and read again.                                                         *)
(*                                                                         *)
(* A text is a sequence of characters, each of Width[c] bytes in UTF-8.    *)
(* A path is the sequence of the names between its slashes ("/a" is        *)
(* <<"", "a">>).  A JSON object is a function from its keys to values of   *)
(* the form [kind, ...]: "integer" with n, "string" with text, "path" (a   *)
(* string where a path is expected) with names, or another kind.           *)
(***************************************************************************)
EXTENDS Integers, Sequences, FiniteSets, SequencesExt, Functions

CONSTANTS
    Width,     \* the bytes of each character
    Contracts, \* what a caller may construct: [profile, default, most, output, write, marker]
    Offers,    \* what a policy may emit: [tool, args]
    Outputs,   \* texts that a tool may print
    Exits,     \* exit codes, and None
    Unclean,   \* names with a NUL or a backslash
    Reserved,  \* _RESERVED
    Blank,     \* the characters and the names that strip() removes
    None

VARIABLES
    contract, \* the contract of the session, or None before there is one
    call,     \* the call that was parsed, with the offer it was parsed from, or None
    result    \* the result shown to the policy, with all that the tool printed, or None

vars == <<contract, call, result>>

\* Every character has its bytes, and what is printed or offered is made of characters.
ToolAssumption ==
    /\ \A ch \in DOMAIN Width : Width[ch] \in Nat \ {0}
    /\ Outputs \subseteq Seq(DOMAIN Width)
    /\ \A c \in Contracts : c.marker \in Seq(DOMAIN Width) /\ c.output \in Int
    /\ \A o \in Offers : \A k \in DOMAIN o.args :
         /\ o.args[k].kind = "string" => o.args[k].text \in Seq(DOMAIN Width)
         /\ o.args[k].kind = "path" => o.args[k].names \in Seq(Range(o.args[k].names))

Bytes(text) ==
    LET upTo[n \in 0 .. Len(text)] == IF n = 0 THEN 0 ELSE upTo[n - 1] + Width[text[n]]
    IN  upTo[Len(text)]

----------------------------------------------------------------------------
(* The contract *)

Tools(c) == IF c.profile = "repository" THEN {"read", "write", "edit", "glob", "bash"}
            ELSE {"read", "write", "bash"}

\* LeafLiteToolContract.__post_init__; the tools are those of the profile.
Valid(c) ==
    /\ \A n \in {c.default, c.most, c.output, c.write} : n > 0
    /\ c.default <= c.most
    /\ c.marker # <<>> /\ Bytes(c.marker) < c.output

\* leaf_lite_tool_definitions: the schemas that the policy is shown.  A property is of a
\* type, with a least and a greatest value, or length, where the schema has one.
Property(type, least, most) == [type |-> type, least |-> least, most |-> most]

Definition(c, tool) ==
    CASE tool = "read" ->
           [required |-> {"path"},
            properties |-> [k \in {"path", "start_line", "max_lines"} |->
                CASE k = "path" -> Property("string", 0, None)
                  [] k = "start_line" -> Property("integer", 1, None)
                  [] k = "max_lines" -> Property("integer", 1, c.most)]]
      [] tool = "write" ->
           [required |-> {"path", "content"},
            properties |-> [k \in {"path", "content"} |-> Property("string", 0, None)]]
      [] tool = "edit" ->
           [required |-> {"path", "old_text", "new_text"},
            properties |-> [k \in {"path", "old_text", "new_text", "expected_replacements"} |->
                CASE k = "expected_replacements" -> Property("integer", 1, 100)
                  [] k = "old_text" -> Property("string", 1, None)
                  [] OTHER -> Property("string", 0, None)]]
      [] tool = "glob" ->
           [required |-> {"pattern"},
            properties |-> [k \in {"pattern"} |-> Property("string", 0, None)]]
      [] tool = "bash" ->
           [required |-> {"command"},
            properties |-> [k \in {"command"} |-> Property("string", 1, None)]]

----------------------------------------------------------------------------
(* The calls *)

\* What PurePosixPath keeps of a path.
Dropped == {"", "."}
Names(path) ==
    FlattenSeq([i \in DOMAIN path |-> IF path[i] \in Dropped THEN <<>> ELSE <<path[i]>>])

\* Mutant of IsInside: a path is not compared with its normal form.
IsInsideUnnormalized(path) ==
    /\ path # <<"">> /\ \E n \in Range(path) : n \notin Blank
    /\ \A n \in Range(path) : n \notin Unclean
    /\ Head(path) # "" /\ ".." \notin Range(path)
    /\ Head(path) \notin Reserved

\* _path.  (Of "." nothing is left, and parts[0] raises an IndexError.)
IsInside(path) ==
    /\ path # <<"">> /\ \E n \in Range(path) : n \notin Blank
    /\ \A n \in Range(path) : n \notin Unclean
    /\ Head(path) # "" /\ Names(path) = path /\ ".." \notin Range(path)
    /\ Head(path) \notin Reserved

IsText(value) == value.kind = "string"
IsPath(value) == value.kind = "path" /\ IsInside(value.names)
IsIn(value, least, most) == value.kind = "integer" /\ least <= value.n /\ value.n <= most

\* Keys that must be there, and those that may.
Has(args, required, optional) ==
    required \subseteq DOMAIN args /\ DOMAIN args \subseteq required \cup optional

\* The arguments with the defaults of those left out.
Completed(args, defaults) ==
    [k \in DOMAIN args \cup DOMAIN defaults |-> IF k \in DOMAIN args THEN args[k] ELSE defaults[k]]

Integer(n) == [kind |-> "integer", n |-> n]
Alone(key, value) == [k \in {key} |-> value]

\* parse_leaf_lite_tool_call: a call with all of its arguments, or None where it raises.
Parse(c, offer) ==
    LET args == offer.args
        Call(parsed) == [tool |-> offer.tool, args |-> parsed]
        reading == Completed(args, [start_line |-> Integer(1), max_lines |-> Integer(c.default)])
        editing == Completed(args, Alone("expected_replacements", Integer(1)))
    IN  IF offer.tool \notin Tools(c) THEN None ELSE
        CASE offer.tool = "read" ->
             IF /\ Has(args, {"path"}, {"start_line", "max_lines"})
                /\ reading["start_line"].kind = "integer" /\ reading["start_line"].n >= 1
                /\ IsIn(reading["max_lines"], 1, c.most)
                /\ IsPath(args["path"])
             THEN Call(reading) ELSE None
          [] offer.tool = "write" ->
             IF /\ Has(args, {"path", "content"}, {})
                /\ IsText(args["content"]) /\ Bytes(args["content"].text) <= c.write
                /\ IsPath(args["path"])
             THEN Call(args) ELSE None
          [] offer.tool = "edit" ->
             IF /\ Has(args, {"path", "old_text", "new_text"}, {"expected_replacements"})
                /\ IsText(args["old_text"]) /\ args["old_text"].text # <<>>
                /\ IsIn(editing["expected_replacements"], 1, 100)
                /\ IsPath(args["path"]) /\ IsText(args["new_text"])
             THEN Call(editing) ELSE None
          [] offer.tool = "glob" ->
             IF Has(args, {"pattern"}, {}) /\ IsPath(args["pattern"]) THEN Call(args) ELSE None
          [] offer.tool = "bash" ->
             IF /\ Has(args, {"command"}, {}) /\ IsText(args["command"])
                /\ \E ch \in Range(args["command"].text) : ch \notin Blank
                /\ Range(args["command"].text) \cap Unclean = {}
             THEN Call(args) ELSE None

----------------------------------------------------------------------------
(* The results *)

\* The bytes of a text, each with its character; and the text of bytes, where those of a
\* character that is not complete are ignored.
Encoded(text) == FlattenSeq([i \in DOMAIN text |-> [b \in 1 .. Width[text[i]] |-> <<i, text[i]>>]])

\* Mutant of Decoded: what is left of a character is shown as one.
DecodedCarelessly(bytes) ==
    LET last == IF bytes = <<>> THEN 0 ELSE bytes[Len(bytes)][1]
    IN  [i \in 1 .. last |-> (CHOOSE x \in Range(bytes) : x[1] = i)[2]]

Decoded(bytes) ==
    LET Whole(i, ch) == Cardinality({b \in DOMAIN bytes : bytes[b] = <<i, ch>>}) = Width[ch]
        whole == {x[1] : x \in {x \in Range(bytes) : Whole(x[1], x[2])}}
    IN  [i \in 1 .. Cardinality(whole) |-> (CHOOSE x \in Range(bytes) : x[1] = i)[2]]

Truncated(c, output) == Bytes(output) > c.output

\* create_leaf_lite_tool_result
Bounded(c, output) ==
    IF Truncated(c, output)
    THEN Decoded(SubSeq(Encoded(output), 1, c.output - Bytes(c.marker))) \o c.marker
    ELSE output

\* LeafLiteToolResult.__post_init__
Coherent(r) ==
    IF r.tool # "bash" THEN r.status \in {"ok", "error"} /\ r.exit = None
    ELSE /\ r.status = "ok" => r.exit = 0
         /\ r.status = "error" => r.exit \notin {None, 0}
         /\ r.status \in {"timeout", "resource_limit"} => r.exit # 0

\* leaf_lite_tool_result_from_json on what leaf_lite_tool_result_json wrote, or None.
ReadBack(c, r) ==
    IF /\ r.tool \in Tools(c) /\ Bytes(r.output) <= c.output
       /\ r.truncated => IsSuffix(c.marker, r.output)
       /\ Coherent(r)
    THEN r ELSE None

----------------------------------------------------------------------------
Init == contract = None /\ call = None /\ result = None

Open(c) ==
    /\ contract = None /\ Valid(c)
    /\ contract' = c
    /\ UNCHANGED <<call, result>>

Ask(offer) ==
    /\ contract # None /\ call = None /\ Parse(contract, offer) # None
    /\ call' = [offer |-> offer, parsed |-> Parse(contract, offer)]
    /\ UNCHANGED <<contract, result>>

\* The tool itself is external: it ends in any way and prints anything.
Answer(status, exit, output) ==
    LET r == [tool |-> call.parsed.tool, status |-> status, exit |-> exit,
              output |-> Bounded(contract, output), truncated |-> Truncated(contract, output)]
    IN  /\ call # None /\ result = None
        /\ Coherent(r)
        /\ result' = [printed |-> output, shown |-> r]
        /\ UNCHANGED <<contract, call>>

Next ==
    \/ \E c \in Contracts : Open(c)
    \/ \E o \in Offers : Ask(o)
    \/ \E status \in {"ok", "error", "timeout", "resource_limit"}, e \in Exits, o \in Outputs :
          Answer(status, e, o)

Spec == Init /\ [][Next]_vars

----------------------------------------------------------------------------
(* Properties *)

\* An object is what a schema describes.
Conforms(args, schema) ==
    /\ Has(args, schema.required, DOMAIN schema.properties)
    /\ \A k \in DOMAIN args :
         LET p == schema.properties[k] IN
         IF p.type = "integer"
         THEN args[k].kind = "integer" /\ p.least <= args[k].n /\ (p.most # None => args[k].n <= p.most)
         ELSE /\ args[k].kind \in {"string", "path"}
              /\ args[k].kind = "string" => Len(args[k].text) >= p.least

\* Where a path leads from the workspace, name by name.
Leads(path) ==
    LET at[n \in 0 .. Len(path)] ==
          IF n = 0 THEN <<>> ELSE
          IF path[n] \in Dropped THEN at[n - 1] ELSE
          IF path[n] # ".." \/ at[n - 1] = <<>> \/ Last(at[n - 1]) = ".."
          THEN Append(at[n - 1], path[n]) ELSE Front(at[n - 1])
    IN  at[Len(path)]

\* What is accepted from the policy is what it was told that it may send, and survives
\* being written into the trajectory and parsed again, defaults included; the place it
\* names is in the workspace, under one spelling, outside what the grader keeps.  What is
\* shown of a result can be read back as it was shown, and shows the longest beginning of
\* what was printed that the bound leaves room for.
CallsSurvive ==
    /\ call # None =>
         /\ Conforms(call.offer.args, Definition(contract, call.offer.tool))
         /\ Conforms(call.parsed.args, Definition(contract, call.parsed.tool))
         /\ Parse(contract, call.parsed) = call.parsed
         /\ \A k \in DOMAIN call.parsed.args : call.parsed.args[k].kind = "path" =>
              LET names == call.parsed.args[k].names IN
              /\ Leads(names) = names /\ names # <<>>
              /\ Head(names) \notin Reserved \cup {".."}
    /\ result # None =>
         LET shown == result.shown.output
             kept == SubSeq(shown, 1, Len(shown) - Len(contract.marker))
             more == Len(kept) + 1
         IN  /\ ReadBack(contract, result.shown) = result.shown
             /\ IF result.shown.truncated
                THEN /\ IsPrefix(kept, result.printed)
                     /\ Bytes(shown) + Width[result.printed[more]] > contract.output
                ELSE shown = result.printed
====
