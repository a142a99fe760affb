---- MODULE EnvironmentAdmission ----
(***************************************************************************)
(* src/tiny_qwen_coder/pvrl: how an environment for verified learning is   *)
(* admitted.  Its manifest is immutable and named by its material; the     *)
(* evidence is attached by making another manifest.  The reference is      *)
(* validated in two fresh sandboxes, the texts are compared with protected *)
(* benchmarks and reserved tasks, the oracle is assessed, and the gate     *)
(* (environment_integrity.py) admits only what all of them agree on.       *)
(*                                                                         *)
(* A digest is what it is the digest of.  Every manifest and report ever   *)
(* made may be offered to any operation, in any order; one that raises     *)
(* changes nothing and is no step.  "truth" is what the environments are,  *)
(* known to no guard but through a grader, a text or a provenance.         *)
(***************************************************************************)
EXTENDS Integers, Sequences, FiniteSets

CONSTANTS
    Environments,   \* materials, each with its content-addressed environment_id
    Truths,         \* what an environment may be
    Targets,        \* [task, role] that a caller may name
    Benchmarks,     \* the registered protected benchmarks
    Examples,       \* protected examples, [benchmark, task, texts]
    FewShots,       \* the author's demonstrations, [task, texts]
    Producers,      \* [type, family] that a caller may state of whoever made something
    Reserved,       \* partition entries that belong to no environment
    Similar(_, _),  \* equal, equal when normalized, or overlapping texts
    MaxReserved, MaxReports, MaxAudits, MaxAdmitted,    \* bounds: how many there are
    None

\* A reserved entry of no environment is told apart.
ASSUME AdmissionAssumption == None \notin Environments

VARIABLES
    truth,        \* [Environments -> Truths]
    manifests, reports, audits,
    reserved,     \* the partition inventory, kept by the caller
    admitted      \* the integrity evidence issued

vars == <<truth, manifests, reports, audits, reserved, admitted>>

Roles == {"training_curriculum", "calibration_diagnostic", "development_evaluation",
          "qualification_evaluation"}
Evaluations == {"development_evaluation", "qualification_evaluation"}

InitialFailures == {"behavioral_failure", "parse_compile_failure"}

Manifest(environment) ==
    [environment |-> environment, reference |-> None, contamination |-> None]

Init ==
    /\ truth \in [Environments -> Truths]
    /\ manifests = {Manifest(e) : e \in Environments}
    /\ reports = {} /\ audits = {}
    /\ reserved = Reserved /\ admitted = {}

----------------------------------------------------------------------------
(* Reference validation *)

\* One fresh sandbox: what the grader may answer before the reference is applied, and what
\* the hidden and the preservation tests may answer after.
SandboxRuns(environment) ==
    [initial : truth[environment].initial, reference : truth[environment].reference,
     preservation : truth[environment].preservation]

\* _run_one_sandbox
RunPasses(run, expected) ==
    /\ run.initial.class = expected
    /\ run.reference.class = "passed" /\ run.preservation.class = "passed"

\* Mutant of BoundTo: the factory compares nothing but the evidence.
BoundToEvidence(m, built) ==
    m.reference = built.reference /\ m.contamination = built.contamination

\* HardenedReferenceValidationSandboxFactory.create
BoundTo(m, built) == built = m

\* run_reference_first_validation, with a factory whose material is that of the manifest
\* "built".  A grader that breaks down ends it with no report.
Validate(m, built, expected) ==
    /\ m.reference = None /\ Cardinality(reports) < MaxReports
    /\ BoundTo(m, built)
    /\ \E first, second \in SandboxRuns(built.environment) :
         /\ RunPasses(first, expected) /\ RunPasses(second, expected) /\ first = second
         /\ reports' = reports \cup {[source |-> m, expected |-> expected, run |-> first]}
    /\ UNCHANGED <<truth, manifests, audits, reserved, admitted>>

\* attach_reference_validation
AttachReference(m, report) ==
    /\ m.reference = None
    /\ report.source = m
    /\ manifests' = manifests \cup {[m EXCEPT !.reference = report]}
    /\ UNCHANGED <<truth, reports, audits, reserved, admitted>>

----------------------------------------------------------------------------
(* Contamination *)

\* PartitionTask.from_environment of a create_environment_contamination_input: all texts of
\* the material, under the task and the role that the caller names.
Candidate(environment, target) ==
    [environment |-> environment, task |-> target.task, role |-> target.role,
     texts |-> truth[environment].texts]

Collide(left, right) == \E s \in left, t \in right : Similar(s, t)

\* _append_protected_findings
TouchesProtected(x, protected) ==
    \E p \in protected : x.task = p.task \/ Collide(x.texts, p.texts)

\* Mutant of Conflict: entries of one role are compared, those of others are not.
ConflictWithinRole(l, r) ==
    \/ l.environment # None /\ l.environment = r.environment
    \/ l.role = r.role /\ (l.task = r.task \/ Collide(l.texts, r.texts))

\* _append_partition_pair_findings
Conflict(l, r) ==
    \/ l.environment # None /\ l.environment = r.environment
    \/ l.role # r.role /\ (l.task = r.task \/ Collide(l.texts, r.texts))

\* _append_author_partition_findings
TouchesAuthor(x) ==
    x.role \in Evaluations /\ \E f \in FewShots : x.task = f.task \/ Collide(x.texts, f.texts)

\* Mutant of HasFindings: of the inventories, only the candidate is compared with the
\* protected examples, and of the candidate only the role is asked.
HasFindingsOfReserved(candidate, protected) ==
    \/ \E x \in FewShots \cup reserved : TouchesProtected(x, protected)
    \/ \E r \in reserved \ {candidate} : Conflict(candidate, r)

\* The findings of check_environment_contamination: the candidate, the author's examples
\* and the partitions against the protected examples, all pairs of partitions, the
\* candidate against each but its own entry, and evaluation tasks against the author's.
HasFindings(candidate, protected) ==
    \/ \E x \in {candidate} \cup FewShots \cup reserved : TouchesProtected(x, protected)
    \/ \E l, r \in reserved : l # r /\ Conflict(l, r)
    \/ \E r \in reserved \ {candidate} : Conflict(candidate, r)
    \/ \E x \in {candidate} \cup reserved : TouchesAuthor(x)

\* _prepare_protected_inventory: every registered benchmark, and none other.
Covers(protected) == {p.benchmark : p \in protected} = Benchmarks

\* check_environment_contamination
Audit(m, candidate, protected) ==
    /\ candidate.environment = m.environment /\ m.contamination = None
    /\ Covers(protected) /\ Cardinality(audits) < MaxAudits
    /\ audits' = audits \cup
         {[candidate |-> candidate, protected |-> protected, reserved |-> reserved,
           status |-> IF HasFindings(candidate, protected) THEN "findings" ELSE "clean"]}
    /\ UNCHANGED <<truth, manifests, reports, reserved, admitted>>

\* admit_environment_contamination
AdmitContamination(m, audit) ==
    /\ m.contamination = None
    /\ audit.candidate.environment = m.environment /\ audit.status = "clean"
    /\ manifests' = manifests \cup {[m EXCEPT !.contamination = audit]}
    /\ UNCHANGED <<truth, reports, audits, reserved, admitted>>

\* The caller enters an environment into the partition inventory.
Reserve(entry) ==
    /\ entry \notin reserved /\ Cardinality(reserved) < MaxReserved
    /\ reserved' = reserved \cup {entry}
    /\ UNCHANGED <<truth, manifests, reports, audits, admitted>>

----------------------------------------------------------------------------
(* The oracle, and the gate *)

Grades == {"existing_human_source_tests", "deterministic_programmatic_contract",
           "repository_native_tests", "independently_generated_contract_reference",
           "same_family_generated_contract_reference"}

OfFamily(producer, other) ==
    producer.type = "model" /\ other.type = "model" /\ producer.family = other.family

\* _validate_independence_claim
ClaimHolds(who, grade, caveat) ==
    /\ CASE grade = "existing_human_source_tests" -> who.oracle.type \in {"human", "source"}
         [] grade = "deterministic_programmatic_contract" -> who.oracle.type = "programmatic"
         [] grade = "repository_native_tests" -> who.oracle.type = "repository"
         [] grade = "independently_generated_contract_reference" ->
              /\ who.oracle.type = "model" /\ ~OfFamily(who.oracle, who.author)
              /\ ~OfFamily(who.reference, who.author)
         [] OTHER -> OfFamily(who.oracle, who.author) /\ caveat
    /\ OfFamily(who.reference, who.author) => caveat

\* create_oracle_provenance_assessment: what may be made at any time of a manifest, which
\* knows the types of the author and of the oracle.  Their families, and who made the
\* reference, are what the caller says: nothing binds them to the material.
Assessments(m) ==
    LET made == truth[m.environment].producers
        Stated(type) == {p \in Producers : p.type = type}
    IN  [manifest : {m}, grade : Grades, caveat : BOOLEAN,
         who : [author : Stated(made.author), oracle : Stated(made.oracle),
                reference : Producers]]

IsAssessment(a) == ClaimHolds(a.who, a.grade, a.caveat)

\* admit_environment_integrity, with the material of the manifest "built".
AdmitIntegrity(m, built, report, audit) ==
    /\ m.reference # None /\ m.contamination # None
    /\ built = m
    /\ report = m.reference /\ report.source.environment = m.environment
    /\ audit = m.contamination /\ audit.candidate.environment = m.environment
    /\ audit.status = "clean"
    /\ Cardinality(admitted) < MaxAdmitted
    /\ \E assessment \in Assessments(m) :
         /\ IsAssessment(assessment)
         /\ admitted' = admitted \cup {assessment}
    /\ UNCHANGED <<truth, manifests, reports, audits, reserved>>

\* Whatever was made so far may be offered.
Next ==
    \/ \E m, built \in manifests, expected \in InitialFailures : Validate(m, built, expected)
    \/ \E m \in manifests, report \in reports : AttachReference(m, report)
    \/ \E e \in Environments, target \in Targets :
         \/ Reserve(Candidate(e, target))
         \/ \E m \in manifests, protected \in SUBSET Examples :
              Audit(m, Candidate(e, target), protected)
    \/ \E m \in manifests, audit \in audits : AdmitContamination(m, audit)
    \/ \E m, built \in manifests, report \in reports, audit \in audits :
         AdmitIntegrity(m, built, report, audit)

Spec == Init /\ [][Next]_vars

----------------------------------------------------------------------------
(* Properties *)

\* An admitted environment does fail as expected before its reference is applied, and its
\* reference can pass the hidden and the preservation tests; it is like no example of any
\* registered benchmark as they were supplied, and, if it is for evaluation, like no
\* demonstration that its author was shown: evidence of another material, of a manifest
\* that has changed since, or with findings, is not carried over to it.
AdmittedEnvironmentsWork == \A x \in admitted :
    LET is == truth[x.manifest.environment]
        audit == x.manifest.contamination
    IN  /\ x.manifest.reference.expected \in {r.class : r \in is.initial}
        /\ "passed" \in {r.class : r \in is.reference}
        /\ "passed" \in {r.class : r \in is.preservation}
        /\ \A b \in Benchmarks : \E p \in audit.protected :
             p.benchmark = b /\ ~Collide(is.texts, p.texts)
        /\ \A p \in audit.protected : ~Collide(is.texts, p.texts)
        /\ audit.candidate.role \in Evaluations =>
             \A f \in FewShots : ~Collide(is.texts, f.texts)

\* When each environment is entered into the inventory before it is audited, no two that
\* were found clean under different roles are one environment, one task or similar texts,
\* in whatever order they were entered, audited and admitted.
RolesAreDisjoint ==
    LET clean == {m.contamination : m \in {n \in manifests : n.contamination # None}}
    IN  \A a, b \in clean :
          /\ a.candidate \in a.reserved /\ b.candidate \in b.reserved
          /\ a.candidate.role # b.candidate.role
          => /\ a.candidate.environment # b.candidate.environment
             /\ a.candidate.task # b.candidate.task
             /\ ~Collide(a.candidate.texts, b.candidate.texts)
====
