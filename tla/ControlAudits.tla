---- MODULE ControlAudits ----
(***************************************************************************)
(* The audits FTR-101 to FTR-103, which clear the evaluation pipeline      *)
(* before a difference is put down to an adapter.  FTR-101 answers and     *)
(* scores the suites with the unchanged base model again and compares with *)
(* the frozen baseline; FTR-102 does it through PEFT with an adapter of    *)
(* zeros and compares with FTR-101; FTR-103 reads the sources of all       *)
(* generation and scoring paths.  The commands run one after the other on  *)
(* hosts that may change in between, on whatever commit is checked out.    *)
(***************************************************************************)
EXTENDS Integers, Sequences, FiniteSets, Functions

CONSTANTS
    Items,       \* sequence of the tasks and cases of all suites
    Coding,      \* those of the three coding suites: FTR-101 looks at no other
    BaseSolved,  \* what the frozen base passes
    Hosts,       \* sets of deviations from the host of the frozen baseline
    Touches,     \* [deviation -> items that are answered differently with it]
    Flips,       \* [deviation -> items whose verdict is another with it]
    Commits,     \* clean source trees
    Protocol,    \* [commit -> digest of the protocol configuration]
    Code,        \* [commit -> [path -> [inherits, own, loads, scores]]]: see Effective
    Parent,      \* [path -> the path it is declared to generate like, or None]
    Canonical,   \* the inference contract that is expected of every path
    MaxChanges,  \* bound: changes of host, tree and adapter files
    MaxLaunches, \* bound: generations of the control
    None

Paths == DOMAIN Parent
Id == Range(Items)

VARIABLES
    head, host, changes, \* commit and host of the next command
    current,     \* baseline of this tree, as FTR-101 uploads it, or None
    captured,    \* ftr-101-generation-identity.json, or None
    adapter,     \* weights of the persisted control adapter: "zero", "tuned" or None
    prepared,    \* its manifest, or None
    session,     \* the process that generates the control, or None
    answers,     \* checkpoints of the control; by and deviations are history
    identity,    \* ftr-102-control-identity.json, or None
    handover,    \* ftr-102-generation-manifest.json, or None
    scoring,     \* the commit at which the control is being scored, or None
    reports,     \* [FTR-101, 102, 103 -> the last report, or None]; of is history
    launches

machine == <<head, host, changes>>
base == <<current, captured>>
control == <<adapter, prepared, session, answers, identity, handover, launches>>
vars == <<machine, base, control, scoring, reports>>

Init ==
    /\ head \in Commits /\ host = {} /\ changes = 0
    /\ current = None /\ captured = None
    /\ adapter = None /\ prepared = None /\ session = None /\ answers = <<>>
    /\ identity = None /\ handover = None /\ launches = 0
    /\ scoring = None
    /\ reports = [r \in {101, 102, 103} |-> None]

Change ==
    /\ changes < MaxChanges /\ changes' = changes + 1
    /\ UNCHANGED <<base, session, answers, identity, handover, launches, prepared,
                   scoring, reports>>

\* Another runner, another image or another library; another commit; files replaced.
Drift(h) == Change /\ h # host /\ host' = h /\ UNCHANGED <<head, adapter>>
Checkout(sha) == Change /\ sha # head /\ head' = sha /\ UNCHANGED <<host, adapter>>
Replace == Change /\ adapter = "zero" /\ adapter' = "tuned" /\ UNCHANGED <<head, host>>

----------------------------------------------------------------------------
(* FTR-103: the sources *)

\* What a path does when it generates: its own code, or that of the class it extends.
Effective(sha, p) ==
    IF Code[sha][p].own # None THEN Code[sha][p].own
    ELSE Code[sha][Code[sha][p].inherits].own

\* _class_inherits.
Inherits(sha, p) == Code[sha][p].inherits = Parent[p]

\* _generator_report: an heir is given the contract of its declared parent.
GeneratorParity(sha, p) ==
    /\ Code[sha][p].loads
    /\ IF Parent[p] = None THEN Code[sha][p].own = Canonical
       ELSE Inherits(sha, p) /\ Code[sha][Parent[p]].own = Canonical

\* _scoring_report: harness and evaluators are named in the functions.
ScoringParity(sha, p) == Code[sha][p].scores

Parity(sha) == \A p \in Paths : GeneratorParity(sha, p) /\ ScoringParity(sha, p)

\* audit_generation_evaluation_parity; main writes the report before it fails.
AuditParity ==
    /\ reports' = [reports EXCEPT ![103] = [sha |-> head, exact |-> Parity(head), of |-> None]]
    /\ UNCHANGED <<machine, base, control, scoring>>

----------------------------------------------------------------------------
(* Answers and rows *)

\* What deviates when the base model answers on this host, with this tree.
BaseDeviations(sha) ==
    (host \cap {"runtime", "template"})
    \cup IF Effective(sha, "base") = Canonical THEN {} ELSE {"code"}

\* A row of a results file: text and verdict (_canonical_result, _canonical_benchmark_row).
Row(i, deviations, image) ==
    [text |-> {d \in deviations : i \in Touches[d]},
     passed |-> (i \in BaseSolved) # \E d \in deviations \cup image : i \in Flips[d]]

FrozenRows == [i \in Id |-> Row(i, {}, {})]

\* Mutant of SameRow: only the verdicts are compared.
SameVerdict(a, b) == a.passed = b.passed

SameRow(a, b) == a = b

\* _result_comparison and the records of _suite_comparison.
SameRows(rows, others) ==
    /\ DOMAIN rows = DOMAIN others
    /\ \A i \in DOMAIN rows : SameRow(rows[i], others[i])

Passes(rows) == Cardinality({i \in DOMAIN rows : rows[i].passed})

----------------------------------------------------------------------------
(* FTR-101: the base model again *)

\* capture_identity.
CaptureIdentity ==
    /\ captured' = [template |-> host \cap {"template"}, protocol |-> Protocol[head]]
    /\ UNCHANGED <<machine, current, control, scoring, reports>>

\* The canonical baseline of this tree: PythonBaseline has its steps.
RunBaseline ==
    /\ current = None
    /\ current' =
          [sha |-> head, runtime |-> host \cap {"runtime"}, image |-> host \cap {"image"},
           rows |-> [i \in Id |-> Row(i, BaseDeviations(head), host \cap {"image"})]]
    /\ UNCHANGED <<machine, captured, control, scoring, reports>>

\* compare_reproduction, of rows as they arrive; the report is written, drift or not.
Reproduced(rows) ==
    /\ captured.template = {} /\ captured.protocol = Protocol[head]
    /\ current.runtime = {} /\ current.image = {}
    /\ SameRows(Restrict(FrozenRows, Coding), rows)
    /\ Passes(rows) = Cardinality(BaseSolved \cap Coding)

CompareReproduction(lost) ==
    /\ current # None /\ captured # None /\ current.sha = head
    /\ LET rows == Restrict(current.rows, Coding \ lost) IN
       reports' = [reports EXCEPT ![101] =
                      [sha |-> current.sha, exact |-> Reproduced(rows), of |-> current.rows]]
    /\ UNCHANGED <<machine, base, control, scoring>>

----------------------------------------------------------------------------
(* FTR-102: an adapter of zeros *)

\* The workflow removes the directory first; prepare_noop_adapter.
PrepareAdapter ==
    /\ session = None
    /\ adapter' = "zero" /\ prepared' = [sha |-> head, protocol |-> Protocol[head], file |-> "zero"]
    /\ UNCHANGED <<machine, base, session, answers, identity, handover, launches,
                   scoring, reports>>

\* inspect_zero_adapter, and the comparison with the manifest.
Inspected == adapter = "zero" /\ prepared.file = adapter

\* The count of non-zero parameters after PeftModel.from_pretrained.
LoadedZero == adapter = "zero"

\* generate_noop_control up to the inspection by NoopAdapterGenerator.
OpenControl ==
    /\ session = None /\ launches < MaxLaunches
    /\ prepared # None /\ prepared.sha = head /\ prepared.protocol = Protocol[head]
    /\ Inspected
    /\ session' = [at |-> "load", sha |-> head, template |-> host \cap {"template"},
                   weights |-> None]
    /\ launches' = launches + 1
    /\ UNCHANGED <<machine, base, adapter, prepared, answers, identity, handover,
                   scoring, reports>>

\* PEFT reads the files again; the status of the model is that of a fresh adapter.
LoadAdapter ==
    /\ session # None /\ session.at = "load"
    /\ session' = IF LoadedZero THEN [session EXCEPT !.at = "answer", !.weights = adapter]
                  ELSE None
    /\ UNCHANGED <<machine, base, adapter, prepared, answers, identity, handover, launches,
                   scoring, reports>>

ControlDeviations ==
    BaseDeviations(session.sha) \cup (host \cap {"loader"})
    \cup IF session.weights = "zero" THEN {} ELSE {"weights"}

\* _generate_items: checkpoints are kept under the contract of the base model, in the
\* directory of the control, whatever session they are from.
AnswerControl ==
    /\ session # None /\ session.at = "answer" /\ Len(answers) < Len(Items)
    /\ answers' = Append(answers, [by |-> session.weights, deviations |-> ControlDeviations])
    /\ UNCHANGED <<machine, base, adapter, prepared, session, identity, handover, launches,
                   scoring, reports>>

\* The control identity: tokenizer, status and adapter of this process.
WriteIdentity ==
    /\ session # None /\ session.at = "answer" /\ Len(answers) = Len(Items)
    /\ identity' = [sha |-> session.sha, template |-> session.template, session |-> launches]
    /\ session' = [session EXCEPT !.at = "manifest"]
    /\ UNCHANGED <<machine, base, adapter, prepared, answers, handover, launches,
                   scoring, reports>>

\* _write_generation_manifest.
WriteManifest ==
    /\ session # None /\ session.at = "manifest"
    /\ handover' = [sha |-> session.sha, protocol |-> Protocol[session.sha],
                    over |-> <<answers, identity>>]
    /\ session' = None
    /\ UNCHANGED <<machine, base, adapter, prepared, answers, identity, launches,
                   scoring, reports>>

StopControl ==
    /\ session # None /\ session' = None
    /\ UNCHANGED <<machine, base, adapter, prepared, answers, identity, handover, launches,
                   scoring, reports>>

\* score_and_compare up to _validate_generation_manifest.
StartScoring ==
    /\ scoring = None
    /\ prepared # None /\ prepared.sha = head /\ prepared.protocol = Protocol[head]
    /\ handover = [sha |-> head, protocol |-> Protocol[head], over |-> <<answers, identity>>]
    /\ scoring' = head
    /\ UNCHANGED <<machine, base, control, reports>>

ControlRows(image) ==
    [i \in Id |-> LET n == CHOOSE n \in DOMAIN Items : Items[n] = i
                  IN Row(i, answers[n].deviations, image)]

\* _identity_comparison and _aggregate_comparison; the runtime is not compared.
SameIdentity(image) ==
    captured # None /\ identity.template = captured.template /\ image = current.image

\* compare_control_to_frozen: with what FTR-101 uploaded.
Equivalent(rows, image) == SameIdentity(image) /\ SameRows(current.rows, rows)

\* _score_control and the comparison; an answer that is missing ends it.
CompareControl(lost) ==
    /\ scoring # None /\ scoring' = None
    /\ IF current # None /\ Len(answers) = Len(Items)
       THEN LET image == host \cap {"image"}
                rows == Restrict(ControlRows(image), Id \ lost)
            IN reports' = [reports EXCEPT ![102] =
                  [sha |-> scoring, exact |-> Equivalent(rows, image),
                   of |-> [rows |-> ControlRows(image), answers |-> answers]]]
       ELSE UNCHANGED reports
    /\ UNCHANGED <<machine, base, control>>

Next ==
    \/ \E h \in Hosts : Drift(h)
    \/ \E sha \in Commits : Checkout(sha)
    \/ Replace \/ AuditParity \/ CaptureIdentity \/ RunBaseline
    \/ PrepareAdapter \/ OpenControl \/ LoadAdapter \/ AnswerControl
    \/ WriteIdentity \/ WriteManifest \/ StopControl \/ StartScoring
    \/ \E lost \in {{}} \cup {{i} : i \in Id} : CompareReproduction(lost) \/ CompareControl(lost)

Spec == Init /\ [][Next]_vars

----------------------------------------------------------------------------
(* Properties *)

Certified(r) == reports[r] # None /\ reports[r].exact

\* With all three certificates of one commit, the pipeline is the one of the frozen
\* baseline: every answer and verdict of the base model and of the control is the frozen
\* one, every answer of the control went through PEFT with an adapter of zeros, however
\* often its generation was taken up again and whatever was done to its files, and every
\* path generates under the canonical contract, but for an heir with code of its own:
\* FTR-103 looks at the contract of its parent.
CertificatesExcludeDrift ==
    /\ Certified(101) =>
          \A i \in Coding : reports[101].of[i] = FrozenRows[i]
    /\ Certified(102) =>
          /\ \A n \in DOMAIN Items : reports[102].of.answers[n].by = "zero"
          /\ Certified(101) =>
                \A i \in Coding : reports[102].of.rows[i] = FrozenRows[i]
    /\ Certified(103) =>
          \A p \in Paths :
             \/ Effective(reports[103].sha, p) = Canonical
             \/ Parent[p] # None /\ Code[reports[103].sha][p].own # None
====
