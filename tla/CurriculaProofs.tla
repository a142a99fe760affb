---- MODULE CurriculaProofs ----
(***************************************************************************)
(* Theorems about Curricula: for any environments, texts and likeness of   *)
(* texts, and any order in which manifests, reports and audits are made    *)
(* and offered; for conversations of any length over any tokens; for any   *)
(* texts, paths and limits of the tools; and for any chat templates and    *)
(* conversations, and whichever way their loss mask is proved.             *)
(***************************************************************************)
EXTENDS Curricula, FiniteSetTheorems, WellFoundedInduction, SequenceTheorems, TLAPS

----------------------------------------------------------------------------
(* Admission: the inductive invariant *)

\* A manifest carries a clean audit or none.
ManifestsAreSealed == \A m \in manifests :
    /\ DOMAIN m = {"environment", "reference", "contamination"}
    /\ m.contamination # None => m.contamination \in audits
         /\ m.contamination.status = "clean"

\* A report is of a run in which the grader failed as expected and all tests passed.
ReportsAreOfRuns == \A report \in reports :
    LET is == truth[report.source.environment] IN
    /\ report.expected \in {r.class : r \in is.initial}
    /\ "passed" \in {r.class : r \in is.reference}
    /\ "passed" \in {r.class : r \in is.preservation}

\* What a clean audit has ruled out.
RuledOut(audit) ==
    /\ \A p \in audit.protected : ~Collide(audit.candidate.texts, p.texts)
    /\ audit.candidate.role \in Evaluations =>
         \A f \in FewShots : ~Collide(audit.candidate.texts, f.texts)
    /\ \A l, r \in audit.reserved : l # r => ~Conflict(l, r)

AuditsAreOfCandidates == \A audit \in audits :
    /\ audit.candidate.environment \in Environments
    /\ audit.candidate.texts = truth[audit.candidate.environment].texts
    /\ Covers(audit.protected)
    /\ audit.status = "clean" => RuledOut(audit)

\* An inventory is only added to: of two audits, one saw all that the other did.
InventoriesGrow ==
    /\ \A audit \in audits : audit.reserved \subseteq reserved
    /\ \A a, b \in audits : a.reserved \subseteq b.reserved \/ b.reserved \subseteq a.reserved

AdmissionInv ==
    /\ ManifestsAreSealed /\ ReportsAreOfRuns /\ AuditsAreOfCandidates /\ InventoriesGrow
    /\ AdmittedEnvironmentsWork

LEMMA InitAdmissionInv ==
  ASSUME Init
  PROVE  AdmissionInv
BY DEF Init, Manifest, AdmissionInv, ManifestsAreSealed, ReportsAreOfRuns,
       AuditsAreOfCandidates, InventoriesGrow, AdmittedEnvironmentsWork

----------------------------------------------------------------------------
(* Admission: the operations *)

LEMMA ValidateInv ==
  ASSUME AdmissionInv, NEW m, NEW built, NEW expected, Validate(m, built, expected)
  PROVE  AdmissionInv'
<1>1. UNCHANGED <<truth, manifests, audits, reserved, admitted>>
  BY DEF Validate
<1>2. PICK first \in SandboxRuns(built.environment) :
        /\ RunPasses(first, expected)
        /\ reports' = reports \cup {[source |-> m, expected |-> expected, run |-> first]}
  BY DEF Validate
<1>3. built = m
  BY DEF Validate, BoundTo
<1> DEFINE is == truth[m.environment]
<1>4. first.initial \in is.initial /\ first.reference \in is.reference
      /\ first.preservation \in is.preservation
  BY <1>2, <1>3 DEF SandboxRuns
<1>5. /\ expected \in {r.class : r \in is.initial}
      /\ "passed" \in {r.class : r \in is.reference}
      /\ "passed" \in {r.class : r \in is.preservation}
  BY <1>2, <1>4 DEF RunPasses
<1>6. ReportsAreOfRuns'
  BY <1>1, <1>2, <1>5 DEF AdmissionInv, ReportsAreOfRuns
<1> QED BY <1>1, <1>6 DEF AdmissionInv, ManifestsAreSealed, AuditsAreOfCandidates,
                          InventoriesGrow, AdmittedEnvironmentsWork, RuledOut

\* Another manifest, with all that the one it is made of carries.
LEMMA AttachReferenceInv ==
  ASSUME AdmissionInv, NEW m \in manifests, NEW report \in reports,
         AttachReference(m, report)
  PROVE  AdmissionInv'
<1> DEFINE n == [m EXCEPT !.reference = report]
<1>1. /\ manifests' = manifests \cup {n}
      /\ UNCHANGED <<truth, reports, audits, reserved, admitted>>
  BY DEF AttachReference
<1>2. /\ DOMAIN n = {"environment", "reference", "contamination"}
      /\ n.contamination = m.contamination
  BY DEF AdmissionInv, ManifestsAreSealed
<1> HIDE DEF n
<1>3. ManifestsAreSealed'
  BY <1>1, <1>2 DEF AdmissionInv, ManifestsAreSealed
<1> QED BY <1>1, <1>3 DEF AdmissionInv, ReportsAreOfRuns, AuditsAreOfCandidates,
                          InventoriesGrow, AdmittedEnvironmentsWork, RuledOut

\* An audit is of the inventory as it is, which holds those of all audits before it.
LEMMA AuditInv ==
  ASSUME AdmissionInv, NEW e \in Environments, NEW target \in Targets, NEW m,
         NEW protected \in SUBSET Examples, Audit(m, Candidate(e, target), protected)
  PROVE  AdmissionInv'
<1> DEFINE c == Candidate(e, target)
           found == HasFindings(c, protected)
           new == [candidate |-> c, protected |-> protected, reserved |-> reserved,
                   status |-> IF found THEN "findings" ELSE "clean"]
<1>1. /\ audits' = audits \cup {new} /\ Covers(protected)
      /\ UNCHANGED <<truth, manifests, reports, reserved, admitted>>
  BY DEF Audit
<1>2. c.environment = e /\ c.texts = truth[e].texts
  BY DEF Candidate
<1>3. /\ new.candidate = c /\ new.protected = protected /\ new.reserved = reserved
      /\ new.status = "clean" => ~found
  OBVIOUS
<1>4. ~found => /\ \A p \in protected : ~Collide(c.texts, p.texts)
                /\ c.role \in Evaluations => \A f \in FewShots : ~Collide(c.texts, f.texts)
                /\ \A l, r \in reserved : l # r => ~Conflict(l, r)
  BY DEF HasFindings, TouchesProtected, TouchesAuthor
<1> HIDE DEF c, found, new
<1>5. new.status = "clean" => RuledOut(new)
  BY <1>3, <1>4 DEF RuledOut
<1>6. AuditsAreOfCandidates'
  BY <1>1, <1>2, <1>3, <1>5 DEF AdmissionInv, AuditsAreOfCandidates, RuledOut
<1>7. InventoriesGrow'
  BY <1>1, <1>3 DEF AdmissionInv, InventoriesGrow
<1> QED BY <1>1, <1>6, <1>7 DEF AdmissionInv, ManifestsAreSealed, ReportsAreOfRuns,
                                AdmittedEnvironmentsWork

LEMMA AdmitContaminationInv ==
  ASSUME AdmissionInv, NEW m \in manifests, NEW audit \in audits,
         AdmitContamination(m, audit)
  PROVE  AdmissionInv'
<1> DEFINE n == [m EXCEPT !.contamination = audit]
<1>1. /\ manifests' = manifests \cup {n} /\ audit.status = "clean"
      /\ UNCHANGED <<truth, reports, audits, reserved, admitted>>
  BY DEF AdmitContamination
<1>2. DOMAIN n = {"environment", "reference", "contamination"} /\ n.contamination = audit
  BY DEF AdmissionInv, ManifestsAreSealed
<1> HIDE DEF n
<1>3. ManifestsAreSealed'
  BY <1>1, <1>2 DEF AdmissionInv, ManifestsAreSealed
<1> QED BY <1>1, <1>3 DEF AdmissionInv, ReportsAreOfRuns, AuditsAreOfCandidates,
                          InventoriesGrow, AdmittedEnvironmentsWork, RuledOut

LEMMA ReserveInv ==
  ASSUME AdmissionInv, NEW entry, Reserve(entry)
  PROVE  AdmissionInv'
<1>1. /\ reserved \subseteq reserved'
      /\ UNCHANGED <<truth, manifests, reports, audits, admitted>>
  BY DEF Reserve
<1>2. InventoriesGrow'
  BY <1>1 DEF AdmissionInv, InventoriesGrow
<1> QED BY <1>1, <1>2 DEF AdmissionInv, ManifestsAreSealed, ReportsAreOfRuns,
                          AuditsAreOfCandidates, AdmittedEnvironmentsWork, RuledOut

\* The evidence that the gate compares is of the environment of the manifest.
LEMMA AdmitIntegrityInv ==
  ASSUME AdmissionInv, NEW m \in manifests, NEW built, NEW report \in reports,
         NEW audit \in audits, AdmitIntegrity(m, built, report, audit)
  PROVE  AdmissionInv'
<1>1. UNCHANGED <<truth, manifests, reports, audits, reserved>>
  BY DEF AdmitIntegrity
<1>2. PICK a : a.manifest = m /\ admitted' = admitted \cup {a}
  BY DEF AdmitIntegrity, Assessments
<1>3. /\ m.reference = report /\ report.source.environment = m.environment
      /\ m.contamination = audit /\ audit.candidate.environment = m.environment
      /\ audit.status = "clean"
  BY DEF AdmitIntegrity
<1>4. /\ report.expected \in {r.class : r \in truth[m.environment].initial}
      /\ "passed" \in {r.class : r \in truth[m.environment].reference}
      /\ "passed" \in {r.class : r \in truth[m.environment].preservation}
  BY <1>3 DEF AdmissionInv, ReportsAreOfRuns
<1>5. /\ audit.candidate.texts = truth[m.environment].texts
      /\ Covers(audit.protected) /\ RuledOut(audit)
  BY <1>3 DEF AdmissionInv, AuditsAreOfCandidates
<1>6. \A b \in Benchmarks : \E p \in audit.protected : p.benchmark = b
  BY <1>5 DEF Covers
<1>7. AdmittedEnvironmentsWork'
  BY <1>1, <1>2, <1>3, <1>4, <1>5, <1>6 DEF AdmissionInv, AdmittedEnvironmentsWork, RuledOut
<1> QED BY <1>1, <1>7 DEF AdmissionInv, ManifestsAreSealed, ReportsAreOfRuns,
                          AuditsAreOfCandidates, InventoriesGrow, RuledOut

LEMMA NextAdmissionInv ==
  ASSUME AdmissionInv, [Next]_vars
  PROVE  AdmissionInv'
<1>1. CASE UNCHANGED vars
  BY <1>1 DEF vars, AdmissionInv, ManifestsAreSealed, ReportsAreOfRuns,
              AuditsAreOfCandidates, InventoriesGrow, AdmittedEnvironmentsWork, RuledOut
<1>2. CASE Next
  BY <1>2, ValidateInv, AttachReferenceInv, AuditInv, AdmitContaminationInv, ReserveInv,
     AdmitIntegrityInv DEF Next
<1> QED BY <1>1, <1>2

----------------------------------------------------------------------------
(* Admission: the theorems *)

\* The evidence that admits an environment is about that environment, whatever manifests,
\* reports and audits were made before and however they were offered.
THEOREM AdmittedEnvironments == Spec => []AdmittedEnvironmentsWork
<1>1. Init => AdmissionInv
  BY InitAdmissionInv
<1>2. AdmissionInv /\ [Next]_vars => AdmissionInv'
  BY NextAdmissionInv
<1>3. AdmissionInv => AdmittedEnvironmentsWork
  BY DEF AdmissionInv
<1> QED BY <1>1, <1>2, <1>3, PTL DEF Spec

\* Of two clean audits one saw both candidates, and would have found what they share.
LEMMA CleanAuditsAreDisjoint ==
  ASSUME AdmissionInv
  PROVE  RolesAreDisjoint
<1> DEFINE clean == {m.contamination : m \in {n \in manifests : n.contamination # None}}
<1>1. \A a \in clean : a \in audits /\ a.status = "clean"
  BY DEF AdmissionInv, ManifestsAreSealed
<1>2. ASSUME NEW a \in clean, NEW b \in clean, a.candidate \in a.reserved,
             b.candidate \in b.reserved, a.candidate.role # b.candidate.role
      PROVE  /\ a.candidate.environment # b.candidate.environment
             /\ a.candidate.task # b.candidate.task
             /\ ~Collide(a.candidate.texts, b.candidate.texts)
  <2>1. a \in audits /\ b \in audits /\ RuledOut(a) /\ RuledOut(b)
    BY <1>1 DEF AdmissionInv, AuditsAreOfCandidates
  <2>2. a.reserved \subseteq b.reserved \/ b.reserved \subseteq a.reserved
    BY <2>1 DEF AdmissionInv, InventoriesGrow
  <2>3. PICK seen \in {a.reserved, b.reserved} :
          a.candidate \in seen /\ b.candidate \in seen
    BY <1>2, <2>2
  <2>4. a.candidate # b.candidate
    BY <1>2
  <2>5. ~Conflict(a.candidate, b.candidate)
    BY <2>1, <2>3, <2>4 DEF RuledOut
  <2>6. a.candidate.environment # None
    BY <2>1, AdmissionAssumption DEF AdmissionInv, AuditsAreOfCandidates
  <2> QED BY <1>2, <2>5, <2>6 DEF Conflict
<1> QED BY <1>2 DEF RolesAreDisjoint

\* No two environments that were entered and then found clean under different roles are
\* one environment, one task or similar texts.
THEOREM DisjointRoles ==
  Spec => []RolesAreDisjoint
<1>1. Init => AdmissionInv
  BY InitAdmissionInv
<1>2. AdmissionInv /\ [Next]_vars => AdmissionInv'
  BY NextAdmissionInv
<1>3. AdmissionInv => RolesAreDisjoint
  BY CleanAuditsAreDisjoint
<1> QED BY <1>1, <1>2, <1>3, PTL DEF Spec

----------------------------------------------------------------------------
(* Recursion over the natural numbers *)

\* A set of numbers has a least one.
LEMMA Least ==
  ASSUME NEW T \in SUBSET Nat, T # {}
  PROVE  \E m \in T : \A n \in T : m <= n
<1> DEFINE Below(n) == {i \in Nat : i < n}
           D == {Below(n) : n \in T}
<1>1. ASSUME NEW n \in Nat PROVE IsFiniteSet(Below(n))
  <2>1. Below(n) \subseteq 0 .. n
    OBVIOUS
  <2>2. IsFiniteSet(0 .. n)
    BY FS_Interval
  <2> QED BY <2>1, <2>2, FS_Subset
<1>2. D \subseteq FiniteSubsetsOf(Nat) /\ D # {}
  BY <1>1 DEF FiniteSubsetsOf
<1>3. IsWellFoundedOn(StrictSubsetOrdering(Nat), FiniteSubsetsOf(Nat))
  BY FS_StrictSubsetOrderingWellFounded
<1>4. PICK X \in D : \A Y \in D : ~(<<Y, X>> \in StrictSubsetOrdering(Nat))
  BY <1>2, <1>3, WFMin
<1>5. PICK m \in T : X = Below(m)
  BY <1>4
<1>6. ASSUME NEW n \in T, ~(m <= n) PROVE FALSE
  <2>1. Below(n) \in D /\ Below(n) \subseteq Nat /\ Below(m) \subseteq Nat
    OBVIOUS
  <2>2. Below(n) \subseteq Below(m) /\ n \in Below(m) /\ n \notin Below(n)
    BY <1>6
  <2>3. <<Below(n), Below(m)>> \in StrictSubsetOrdering(Nat)
    BY <2>1, <2>2 DEF StrictSubsetOrdering
  <2> QED BY <1>4, <1>5, <2>1, <2>3
<1> QED BY <1>6

\* What holds of 0, and of n + 1 when of n, holds of every number.
LEMMA NatInd ==
  ASSUME NEW T, 0 \in T, \A n \in Nat : n \in T => n + 1 \in T
  PROVE  Nat \subseteq T
<1> SUFFICES ASSUME ~(Nat \subseteq T) PROVE FALSE
  OBVIOUS
<1>1. PICK m \in Nat \ T : \A n \in Nat \ T : m <= n
  BY Least
<1>2. m # 0 /\ m - 1 \in Nat /\ m - 1 \in T
  BY <1>1
<1> QED BY <1>1, <1>2

\* The members of two sequences in a row.
LEMMA InARow ==
  ASSUME NEW S, NEW a \in Seq(S), NEW b \in Seq(S)
  PROVE  /\ a \o b \in Seq(S) /\ Len(a \o b) = Len(a) + Len(b)
         /\ \A i \in 1 .. Len(a) : (a \o b)[i] = a[i]
         /\ \A i \in 1 .. Len(b) : (a \o b)[Len(a) + i] = b[i]
<1>1. /\ a \o b \in Seq(S) /\ Len(a \o b) = Len(a) + Len(b)
      /\ Len(a) \in Nat /\ Len(b) \in Nat
  OBVIOUS
<1>2. \A i \in 1 .. Len(a) + Len(b) :
        (a \o b)[i] = IF i <= Len(a) THEN a[i] ELSE b[i - Len(a)]
  OBVIOUS
<1>3. ASSUME NEW i \in 1 .. Len(b) PROVE (a \o b)[Len(a) + i] = b[i]
  <2>1. PICK k : k = Len(a) + i
    OBVIOUS
  <2>2. k \in 1 .. Len(a) + Len(b) /\ ~(k <= Len(a)) /\ k - Len(a) = i
    BY <1>1, <2>1
  <2> QED BY <1>2, <2>1, <2>2
<1>4. \A i \in 1 .. Len(a) : (a \o b)[i] = a[i]
  BY <1>1, <1>2
<1> QED BY <1>1, <1>3, <1>4

\* The same up to a bound.
LEMMA UpToInd ==
  ASSUME NEW m \in Nat, NEW T, 0 \in T, \A n \in 1 .. m : n - 1 \in T => n \in T
  PROVE  0 .. m \subseteq T
<1> DEFINE U == {n \in Nat : n <= m => n \in T}
<1>1. 0 \in U
  OBVIOUS
<1>2. ASSUME NEW n \in Nat, n \in U PROVE n + 1 \in U
  <2>1. n + 1 <= m => n + 1 \in 1 .. m /\ (n + 1) - 1 \in T
    BY <1>2
  <2> QED BY <2>1
<1>3. Nat \subseteq U
  <2> HIDE DEF U
  <2> QED BY <1>1, <1>2, NatInd
<1> QED BY <1>3

\* What a loop over 1 .. m has after each turn, in V, when it begins with b.
Loops(f, m, V, b, turn) ==
    /\ f \in [0 .. m -> V] /\ f[0] = b
    /\ \A n \in 1 .. m : f[n] = turn[<<n, f[n - 1]>>]

\* A loop is a function: the one that a recursive definition chooses exists.
LEMMA Recursion ==
  ASSUME NEW m \in Nat, NEW V, NEW b \in V, NEW turn \in [(1 .. m) \X V -> V]
  PROVE  \E f : Loops(f, m, V, b, turn)
<1> DEFINE Def(f, n) == Loops(f, n, V, b, turn)
           T == {n \in 0 .. m : \E f : Def(f, n)}
<1>1. 0 \in T
  <2> DEFINE g == [i \in 0 .. 0 |-> b]
  <2>1. g \in [0 .. 0 -> V] /\ g[0] = b /\ 1 .. 0 = {}
    OBVIOUS
  <2>2. Def(g, 0)
    BY <2>1 DEF Loops
  <2> HIDE DEF g, Def
  <2> QED BY <2>2
<1>2. ASSUME NEW n \in 1 .. m, n - 1 \in T PROVE n \in T
  <2>0. PICK f : Def(f, n - 1)
    BY <1>2
  <2>1. /\ f \in [0 .. n - 1 -> V] /\ f[0] = b
        /\ \A i \in 1 .. n - 1 : f[i] = turn[<<i, f[i - 1]>>]
    BY <2>0 DEF Loops
  <2> DEFINE g == [i \in 0 .. n |-> IF i = n THEN turn[<<n, f[n - 1]>>] ELSE f[i]]
  <2>2. turn[<<n, f[n - 1]>>] \in V
    <3>1. f[n - 1] \in V
      BY <2>1
    <3> QED BY <3>1
  <2>3. g \in [0 .. n -> V] /\ g[0] = b
    BY <2>1, <2>2
  <2>4. ASSUME NEW i \in 1 .. n PROVE g[i] = turn[<<i, g[i - 1]>>]
    <3>1. g[i - 1] = f[i - 1]
      OBVIOUS
    <3>2. i = n => g[i] = turn[<<i, f[i - 1]>>]
      OBVIOUS
    <3>3. i # n => i \in 1 .. n - 1 /\ g[i] = f[i] /\ f[i] = turn[<<i, f[i - 1]>>]
      BY <2>1
    <3> HIDE DEF g
    <3> QED BY <3>1, <3>2, <3>3
  <2>5. Def(g, n)
    BY <2>3, <2>4 DEF Loops
  <2> HIDE DEF g, Def
  <2> QED BY <2>5
<1>3. 0 .. m \subseteq T
  <2> HIDE DEF T
  <2> QED BY <1>1, <1>2, UpToInd
<1>4. PICK f : Def(f, m)
  BY <1>3
<1> QED BY <1>4

----------------------------------------------------------------------------
(* Flattening *)

FlattenUpTo(f, T, seqs) ==
    /\ f \in [0 .. Len(seqs) -> Seq(T)] /\ f[0] = <<>>
    /\ Tools!FlattenSeq(seqs) = f[Len(seqs)]
    /\ \A n \in 1 .. Len(seqs) : f[n] = f[n - 1] \o seqs[n]

LEMMA FlattenLoop ==
  ASSUME NEW T, NEW seqs \in Seq(Seq(T)), seqs # <<>>
  PROVE  \E f : FlattenUpTo(f, T, seqs)
<1> DEFINE L == Len(seqs)
           V == Seq(T)
           Turn(f, n) == IF n = 1 THEN seqs[n] ELSE f[n - 1] \o seqs[n]
           F == CHOOSE f : f = [n \in 1 .. L |-> Turn(f, n)]
           turn == [p \in (1 .. L) \X V |-> p[2] \o seqs[p[1]]]
           G == [n \in 0 .. L |-> IF n = 0 THEN <<>> ELSE F[n]]
<1>1. L \in Nat /\ L # 0 /\ <<>> \in V /\ \A n \in 1 .. L : seqs[n] \in V
  OBVIOUS
<1>0. \A v \in V : <<>> \o v = v
  OBVIOUS
<1>2. turn \in [(1 .. L) \X V -> V]
  <2>1. \A v \in V, w \in V : v \o w \in V
    OBVIOUS
  <2>2. ASSUME NEW p \in (1 .. L) \X V PROVE p[2] \o seqs[p[1]] \in V
    <3>1. p[1] \in 1 .. L /\ p[2] \in V
      OBVIOUS
    <3>2. seqs[p[1]] \in V
      BY <1>1, <3>1
    <3> HIDE DEF V, L
    <3> QED BY <2>1, <3>1, <3>2
  <2> HIDE DEF V, L
  <2> QED BY <2>2
<1>9. \A n \in 1 .. L, v \in V : turn[<<n, v>>] = v \o seqs[n]
  OBVIOUS
<1>3. \E f : f = [n \in 1 .. L |-> Turn(f, n)]
  <2>9. L \in Nat /\ <<>> \in V /\ turn \in [(1 .. L) \X V -> V]
    BY <1>1, <1>2
  <2> HIDE DEF turn, V, L, F, Turn
  <2>8. PICK g : Loops(g, L, V, <<>>, turn)
    BY <2>9, Recursion
  <2>1. /\ g \in [0 .. L -> V] /\ g[0] = <<>>
        /\ \A n \in 1 .. L : g[n] = turn[<<n, g[n - 1]>>]
    BY <2>8 DEF Loops
  <2> DEFINE f == [n \in 1 .. L |-> g[n]]
  <2>2. ASSUME NEW n \in 1 .. L PROVE g[n] = Turn(f, n)
    <3>1. n - 1 \in 0 .. L
      BY <1>1
    <3>2. g[n - 1] \in V
      BY <2>1, <3>1
    <3>3. g[n] = g[n - 1] \o seqs[n]
      BY <1>9, <2>1, <3>2
    <3>4. CASE n = 1
      <4>3. n - 1 = 0
        BY <3>4
      <4>1. g[n] = <<>> \o seqs[n]
        BY <2>1, <3>3, <4>3
      <4>2. g[n] = seqs[n]
        BY <1>0, <1>1, <4>1
      <4> QED BY <3>4, <4>2 DEF Turn
    <3>5. CASE n # 1
      <4>1. n - 1 \in 1 .. L
        BY <1>1, <3>5
      <4>2. f[n - 1] = g[n - 1]
        BY <4>1
      <4> HIDE DEF f
      <4> QED BY <3>3, <3>5, <4>2 DEF Turn
    <3> QED BY <3>4, <3>5
  <2>3. f = [n \in 1 .. L |-> Turn(f, n)]
    BY <2>2
  <2> QED BY <2>3
<1>4. F = [n \in 1 .. L |-> Turn(F, n)]
  <2> HIDE DEF Turn
  <2> QED BY <1>3
<1>5. Tools!FlattenSeq(seqs) = F[L]
  BY <1>1 DEF Tools!FlattenSeq
<1> HIDE DEF F
<1>6. G[0] = <<>> /\ \A n \in 1 .. L : G[n] = F[n]
  BY <1>1
<1>7. ASSUME NEW n \in 1 .. L, G[n - 1] \in V PROVE G[n] = G[n - 1] \o seqs[n]
  <2>1. G[n] = Turn(F, n)
    <3> HIDE DEF Turn, G
    <3> QED BY <1>4, <1>6
  <2>2. CASE n = 1
    <3>1. G[n - 1] = <<>> /\ G[n] = seqs[n]
      <4> HIDE DEF G
      <4> QED BY <1>6, <2>1, <2>2
    <3> HIDE DEF G, V, L
    <3> QED BY <1>0, <1>1, <3>1
  <2>3. CASE n # 1
    <3>1. n - 1 \in 1 .. L
      BY <1>1, <2>3
    <3> HIDE DEF G
    <3> QED BY <1>6, <2>1, <2>3, <3>1
  <2> QED BY <2>2, <2>3
<1> HIDE DEF Turn, G
<1>8. ASSUME NEW n \in 0 .. L PROVE G[n] \in V
  <2> DEFINE K == {i \in 0 .. L : G[i] \in V}
  <2>1. 0 \in K
    <3>1. 0 \in 0 .. L /\ G[0] \in V
      <4> HIDE DEF V, L
      <4> QED BY <1>1, <1>6
    <3> QED BY <3>1
  <2>2. ASSUME NEW i \in 1 .. L, i - 1 \in K PROVE i \in K
    <3>1. G[i - 1] \in V /\ seqs[i] \in V /\ i \in 0 .. L
      BY <1>1, <2>2
    <3>2. \A v \in V, w \in V : v \o w \in V
      OBVIOUS
    <3>3. G[i] \in V
      <4> HIDE DEF V, L
      <4> QED BY <1>7, <3>1, <3>2
    <3> QED BY <3>1, <3>3
  <2>3. 0 .. L \subseteq K
    <3> HIDE DEF K, L
    <3> QED BY <1>1, <2>1, <2>2, UpToInd
  <2> QED BY <2>3
<1>10. G \in [0 .. L -> V]
  <2>1. G = [n \in 0 .. L |-> G[n]]
    BY DEF G
  <2> HIDE DEF V, L
  <2> QED BY <1>8, <2>1
<1>11. \A n \in 1 .. L : G[n] = G[n - 1] \o seqs[n]
  <2>1. ASSUME NEW n \in 1 .. L PROVE n - 1 \in 0 .. L
    BY <1>1
  <2> HIDE DEF V, L
  <2> QED BY <1>7, <1>8, <2>1
<1>12. Tools!FlattenSeq(seqs) = G[L]
  <2>1. L \in 1 .. L
    BY <1>1
  <2> HIDE DEF L
  <2> QED BY <1>5, <1>6, <2>1
<1>13. FlattenUpTo(G, T, seqs)
  BY <1>6, <1>10, <1>11, <1>12 DEF FlattenUpTo
<1> QED BY <1>13

----------------------------------------------------------------------------
(* A conversation, token by token *)

PromptRecord == [ids : Seq(Tokens), added : Seq(Tokens)]
OutputRecord == [ids : Seq(Tokens), segments : Seq([start : Nat, end : Nat])]
Utterance == [id : Tokens, by : {"policy", "environment"}]

IsTyped(l) == l.prompts \in Seq(PromptRecord) /\ l.outputs \in Seq(OutputRecord)

\* What Loads makes sure of, but for the state.
IsSound(l) ==
    /\ Len(l.prompts) > 0 /\ Len(l.outputs) \in {Len(l.prompts) - 1, Len(l.prompts)}
    /\ \A i \in 2 .. Len(l.prompts) : Conversation!Follows(l, i)
    /\ \A i \in DOMAIN l.outputs :
         Conversation!Covers(l.outputs[i].ids, l.outputs[i].segments)
    /\ l.prompts[1].ids = l.prompts[1].added

\* The ledger holds what was said, but for tokens of the policy where d > 0, and the loss
\* mask is on what the policy said.
Keeps(l, s, d) ==
    /\ s \in Seq(Utterance) /\ Len(Conversation!History(l)) = Len(s)
    /\ \A i \in 1 .. Len(s) :
         /\ \/ Conversation!History(l)[i] = s[i].id
            \/ d > 0 /\ s[i].by = "policy"
         /\ Conversation!Marked(l, i) <=> s[i].by = "policy"

LedgerInv ==
    /\ damages \in Nat
    /\ ledger # None => /\ DOMAIN ledger = {"prompts", "outputs"}
                        /\ IsTyped(ledger) /\ IsSound(ledger)
                        /\ damages <= 1 => Keeps(ledger, said, damages)
    /\ file # None => /\ DOMAIN file = {"prompts", "outputs", "state"} /\ IsTyped(file)
                      /\ damages = 0 => IsSound(file) /\ Keeps(file, kept, 0)
                      /\ damages = 1 /\ IsSound(file) => Keeps(file, kept, 1)

\* The parts of two ledgers on which the history and its mask depend.
LEMMA SameHistory ==
  ASSUME NEW l, NEW r, l.prompts = r.prompts, l.outputs = r.outputs
  PROVE  /\ IsTyped(l) <=> IsTyped(r)
         /\ IsSound(l) <=> IsSound(r)
         /\ \A s, d : Keeps(l, s, d) <=> Keeps(r, s, d)
<1>1. Conversation!History(l) = Conversation!History(r)
        /\ \A i : Conversation!Marked(l, i) <=> Conversation!Marked(r, i)
  BY DEF Conversation!History, Conversation!Complete, Conversation!LastPrompt,
         Conversation!LastOutput, Conversation!Marked, Conversation!InputStart,
         Conversation!InputEnd
<1>2. \A i : Conversation!Follows(l, i) <=> Conversation!Follows(r, i)
  BY DEF Conversation!Follows
<1> QED BY <1>1, <1>2 DEF IsTyped, IsSound, Keeps

\* The records of a ledger, one by one.
LEMMA Records ==
  ASSUME NEW l, IsTyped(l)
  PROVE  /\ Len(l.prompts) \in Nat /\ DOMAIN l.prompts = 1 .. Len(l.prompts)
         /\ Len(l.outputs) \in Nat /\ DOMAIN l.outputs = 1 .. Len(l.outputs)
         /\ \A i \in DOMAIN l.prompts :
              /\ l.prompts[i] \in PromptRecord
              /\ l.prompts[i].ids \in Seq(Tokens) /\ l.prompts[i].added \in Seq(Tokens)
              /\ Conversation!InputStart(l, i) \in Nat
         /\ \A i \in DOMAIN l.outputs :
              /\ l.outputs[i] \in OutputRecord /\ l.outputs[i].ids \in Seq(Tokens)
              /\ Len(l.outputs[i].ids) \in Nat
<1>1. /\ Len(l.prompts) \in Nat /\ DOMAIN l.prompts = 1 .. Len(l.prompts)
      /\ Len(l.outputs) \in Nat /\ DOMAIN l.outputs = 1 .. Len(l.outputs)
      /\ \A i \in DOMAIN l.prompts : l.prompts[i] \in PromptRecord
      /\ \A i \in DOMAIN l.outputs : l.outputs[i] \in OutputRecord
  BY DEF IsTyped
<1>2. \A p \in PromptRecord :
        p.ids \in Seq(Tokens) /\ p.added \in Seq(Tokens) /\ Len(p.ids) \in Nat
  BY DEF PromptRecord
<1>3. \A o \in OutputRecord : o.ids \in Seq(Tokens) /\ Len(o.ids) \in Nat
  BY DEF OutputRecord
<1> QED BY <1>1, <1>2, <1>3 DEF Conversation!InputStart

\* Every prompt has the inputs before it in it, and what was answered.
LEMMA PromptsGrow ==
  ASSUME NEW l, IsTyped(l), IsSound(l), NEW t \in 1 .. Len(l.outputs)
  PROVE  /\ t \in DOMAIN l.prompts /\ Conversation!InputEnd(l, t) \in Nat
         /\ \A u \in t + 1 .. Len(l.prompts) :
              Conversation!InputEnd(l, t) <= Conversation!InputStart(l, u)
<1>1. /\ Len(l.prompts) \in Nat /\ DOMAIN l.prompts = 1 .. Len(l.prompts)
      /\ Len(l.outputs) \in Nat /\ Len(l.outputs) <= Len(l.prompts)
  BY Records DEF IsSound
<1>2. t \in DOMAIN l.prompts /\ Conversation!InputEnd(l, t) \in Nat
  <2>1. t \in DOMAIN l.prompts /\ t \in DOMAIN l.outputs
    BY <1>1, Records
  <2>2. Conversation!InputStart(l, t) \in Nat /\ Len(l.outputs[t].ids) \in Nat
    BY <2>1, Records
  <2>3. PICK a \in Nat, b \in Nat : /\ a = Conversation!InputStart(l, t)
                                    /\ b = Len(l.outputs[t].ids)
    BY <2>2
  <2>4. Conversation!InputEnd(l, t) = a + b
    BY <2>3 DEF Conversation!InputEnd
  <2>5. a + b \in Nat
    OBVIOUS
  <2> QED BY <2>1, <2>4, <2>5
<1>3. ASSUME NEW u \in 2 .. Len(l.prompts)
      PROVE  /\ u - 1 \in DOMAIN l.outputs
             /\ Conversation!InputEnd(l, u - 1) \in Nat
             /\ Conversation!InputEnd(l, u - 1) <= Conversation!InputStart(l, u)
             /\ Conversation!InputStart(l, u - 1) <= Conversation!InputEnd(l, u - 1)
  <2>1. u \in DOMAIN l.prompts /\ u - 1 \in DOMAIN l.prompts /\ u - 1 \in DOMAIN l.outputs
    BY <1>1, Records DEF IsSound
  <2>2. PICK a : a = l.prompts[u - 1].ids
    OBVIOUS
  <2>3. PICK b : b = l.outputs[u - 1].ids
    OBVIOUS
  <2>4. PICK c : c = l.prompts[u].added
    OBVIOUS
  <2>5. a \in Seq(Tokens) /\ b \in Seq(Tokens) /\ c \in Seq(Tokens)
    BY <2>1, <2>2, <2>3, <2>4, Records
  <2>6. l.prompts[u].ids = a \o b \o c
    BY <2>2, <2>3, <2>4 DEF IsSound, Conversation!Follows
  <2>7. /\ Len(a) \in Nat /\ Len(b) \in Nat /\ Len(c) \in Nat
        /\ Len(a \o b \o c) = Len(a) + Len(b) + Len(c)
    BY <2>5
  <2>8. /\ Conversation!InputStart(l, u - 1) = Len(a)
        /\ Conversation!InputEnd(l, u - 1) = Len(a) + Len(b)
        /\ Conversation!InputStart(l, u) = Len(a \o b \o c)
    BY <2>2, <2>3, <2>6 DEF Conversation!InputStart, Conversation!InputEnd
  <2> QED BY <2>1, <2>7, <2>8
<1> DEFINE T == {n \in Nat : t + 1 + n <= Len(l.prompts) =>
               Conversation!InputEnd(l, t) <= Conversation!InputStart(l, t + 1 + n)}
<1>4. 0 \in T
  BY <1>1, <1>3
<1>5. ASSUME NEW n \in Nat, n \in T PROVE n + 1 \in T
  <2> SUFFICES ASSUME t + 2 + n <= Len(l.prompts)
               PROVE  Conversation!InputEnd(l, t) <= Conversation!InputStart(l, t + 2 + n)
    BY <1>1
  <2>1. t + 2 + n \in 2 .. Len(l.prompts) /\ t + 2 + n - 1 = t + 1 + n
    BY <1>1
  <2>2. PICK u : u = t + 2 + n
    OBVIOUS
  <2>3. u \in 2 .. Len(l.prompts) /\ u - 1 = t + 1 + n
    BY <2>1, <2>2
  <2>4. Conversation!InputEnd(l, t) <= Conversation!InputStart(l, u - 1)
    BY <2>3, <1>5, <1>1
  <2>5. Conversation!InputStart(l, u - 1) <= Conversation!InputEnd(l, u - 1)
          /\ Conversation!InputEnd(l, u - 1) <= Conversation!InputStart(l, u)
        /\ Conversation!InputEnd(l, u - 1) \in Nat
    BY <2>3, <1>3
  <2>6. Conversation!InputEnd(l, t) \in Nat /\ Conversation!InputStart(l, u - 1) \in Nat
          /\ Conversation!InputStart(l, u) \in Nat
    <3>1. u \in DOMAIN l.prompts /\ u - 1 \in DOMAIN l.prompts
      BY <1>1, <2>3
    <3> QED BY <1>2, <3>1, Records
  <2>7. Conversation!InputEnd(l, t) <= Conversation!InputStart(l, u)
    BY <2>4, <2>5, <2>6
  <2> QED BY <2>2, <2>7
<1>6. Nat \subseteq T
  BY <1>4, <1>5, NatInd
<1>7. ASSUME NEW u \in t + 1 .. Len(l.prompts)
        PROVE Conversation!InputEnd(l, t) <= Conversation!InputStart(l, u)
  <2>1. u - t - 1 \in Nat /\ t + 1 + (u - t - 1) = u
    BY <1>1
  <2>2. u - t - 1 \in T
    BY <2>1, <1>6
  <2> QED BY <2>1, <2>2, <1>1
<1> QED BY <1>2, <1>7

\* Every output lies in the history.
LEMMA HistoryHolds ==
  ASSUME NEW l, IsTyped(l), IsSound(l)
  PROVE  /\ Conversation!History(l) \in Seq(Tokens)
         /\ \A t \in DOMAIN l.outputs :
              Conversation!InputEnd(l, t) <= Len(Conversation!History(l))
         /\ Conversation!Complete(l) =>
              /\ Len(Conversation!History(l)) =
                   Len(Conversation!LastPrompt(l)) + Len(Conversation!LastOutput(l))
              /\ Conversation!InputStart(l, Len(l.outputs)) = Len(Conversation!LastPrompt(l))
              /\ Conversation!LastOutput(l) = l.outputs[Len(l.outputs)].ids
              /\ Len(l.outputs) > 0
              /\ Conversation!LastOutput(l) \in Seq(Tokens)
         /\ Conversation!LastPrompt(l) \in Seq(Tokens)
         /\ ~Conversation!Complete(l) => Len(l.prompts) = Len(l.outputs) + 1
<1>1. PICK n \in Nat : n = Len(l.prompts)
  BY Records
<1>2. /\ n > 0 /\ DOMAIN l.prompts = 1 .. n /\ Len(l.outputs) \in {n - 1, n}
      /\ DOMAIN l.outputs = 1 .. Len(l.outputs)
  BY <1>1, Records DEF IsSound
<1>3. Conversation!LastPrompt(l) = l.prompts[n].ids
        /\ Conversation!LastPrompt(l) \in Seq(Tokens)
  BY <1>1, <1>2, Records DEF Conversation!LastPrompt
<1>4. CASE Conversation!Complete(l)
  <2>1. Len(l.outputs) = n /\ n \in DOMAIN l.outputs
    BY <1>1, <1>2, <1>4 DEF Conversation!Complete
  <2>2. Conversation!LastOutput(l) = l.outputs[n].ids
          /\ Conversation!LastOutput(l) \in Seq(Tokens)
    BY <2>1, Records DEF Conversation!LastOutput
  <2>3. Conversation!History(l) = Conversation!LastPrompt(l) \o Conversation!LastOutput(l)
    BY <1>4 DEF Conversation!History
  <2>4. /\ Conversation!History(l) \in Seq(Tokens)
        /\ Len(Conversation!History(l)) =
             Len(Conversation!LastPrompt(l)) + Len(Conversation!LastOutput(l))
    BY <1>3, <2>2, <2>3
  <2>5. Conversation!InputStart(l, n) = Len(Conversation!LastPrompt(l))
          /\ Conversation!InputEnd(l, n) = Len(Conversation!History(l))
    BY <1>3, <2>2, <2>4 DEF Conversation!InputStart, Conversation!InputEnd
  <2>6. ASSUME NEW t \in DOMAIN l.outputs
          PROVE Conversation!InputEnd(l, t) <= Len(Conversation!History(l))
    <3>1. CASE t = n
      BY <2>4, <2>5, <3>1
    <3>2. CASE t # n
      <4>1. n \in t + 1 .. Len(l.prompts) /\ t \in 1 .. Len(l.outputs)
        BY <1>1, <1>2, <2>1, <3>2
      <4>2. Conversation!InputEnd(l, t) <= Conversation!InputStart(l, n)
        <5>1. \A u \in t + 1 .. Len(l.prompts) :
                Conversation!InputEnd(l, t) <= Conversation!InputStart(l, u)
          BY <4>1, PromptsGrow
        <5> QED BY <4>1, <5>1
      <4>3. Conversation!InputEnd(l, t) \in Nat
        BY <4>1, PromptsGrow
      <4>4. Len(Conversation!LastPrompt(l)) \in Nat /\ Len(Conversation!LastOutput(l)) \in Nat
        BY <1>3, <2>2
      <4> QED BY <4>2, <4>3, <4>4, <2>4, <2>5
    <3> QED BY <3>1, <3>2
  <2> QED BY <1>2, <1>3, <1>4, <2>1, <2>2, <2>4, <2>5, <2>6
<1>5. CASE ~Conversation!Complete(l)
  <2>1. n = Len(l.outputs) + 1
    BY <1>1, <1>2, <1>5 DEF Conversation!Complete
  <2>2. Conversation!History(l) = Conversation!LastPrompt(l)
          /\ Conversation!InputStart(l, n) = Len(Conversation!History(l))
    BY <1>3, <1>5 DEF Conversation!History, Conversation!InputStart
  <2>3. ASSUME NEW t \in DOMAIN l.outputs
          PROVE Conversation!InputEnd(l, t) <= Len(Conversation!History(l))
    <3>1. n \in t + 1 .. Len(l.prompts) /\ t \in 1 .. Len(l.outputs)
      BY <1>1, <1>2, <2>1
    <3> QED BY <3>1, <2>2, PromptsGrow
  <2> QED BY <1>1, <1>3, <1>5, <2>1, <2>2, <2>3
<1> QED BY <1>4, <1>5

----------------------------------------------------------------------------
(* The ledger is only added to *)

\* An answer is put behind the last prompt.
LEMMA AnsweredIs ==
  ASSUME NEW l, DOMAIN l = {"prompts", "outputs"}, IsTyped(l), IsSound(l),
    ~Conversation!Complete(l),
         NEW o \in OutputRecord, Conversation!Covers(o.ids, o.segments),
         NEW r, r = [l EXCEPT !.outputs = Append(@, o)]
  PROVE  /\ DOMAIN r = {"prompts", "outputs"} /\ IsTyped(r) /\ IsSound(r)
         /\ Conversation!History(r) = Conversation!History(l) \o o.ids
         /\ \A i \in Int : Conversation!Marked(r, i) <=>
              \/ Conversation!Marked(l, i)
              \/ Len(Conversation!History(l)) < i
                   /\ i <= Len(Conversation!History(l)) + Len(o.ids)
<1>1. /\ r.prompts = l.prompts /\ r.outputs = Append(l.outputs, o)
      /\ DOMAIN r = {"prompts", "outputs"}
  OBVIOUS
<1>2. PICK n \in Nat : n = Len(l.outputs)
  BY Records
<1>3. /\ Len(l.prompts) = n + 1 /\ DOMAIN l.prompts = 1 .. n + 1 /\ DOMAIN l.outputs = 1 .. n
      /\ l.outputs \in Seq(OutputRecord)
  BY <1>2, HistoryHolds, Records DEF IsTyped
<1>4. /\ r.outputs \in Seq(OutputRecord) /\ Len(r.outputs) = n + 1
      /\ DOMAIN r.outputs = 1 .. n + 1 /\ r.outputs[n + 1] = o
      /\ \A t \in 1 .. n : r.outputs[t] = l.outputs[t]
  BY <1>1, <1>2, <1>3
<1>5. IsTyped(r)
  BY <1>1, <1>4 DEF IsTyped
<1>6. ASSUME NEW i \in 2 .. Len(r.prompts) PROVE Conversation!Follows(r, i)
  <2>1. i - 1 \in 1 .. n /\ Conversation!Follows(l, i)
    BY <1>1, <1>3, <1>2 DEF IsSound
  <2> QED BY <1>1, <1>4, <2>1 DEF Conversation!Follows
<1>7. IsSound(r)
  <2>1. \A t \in DOMAIN r.outputs :
          Conversation!Covers(r.outputs[t].ids, r.outputs[t].segments)
    <3>1. \A t \in 1 .. n : Conversation!Covers(l.outputs[t].ids, l.outputs[t].segments)
      BY <1>3 DEF IsSound
    <3>2. \A t \in 1 .. n + 1 : t \in 1 .. n \/ t = n + 1
      OBVIOUS
    <3> QED BY <1>4, <3>1, <3>2
  <2>2. r.prompts[1].ids = r.prompts[1].added
    BY <1>1 DEF IsSound
  <2>3. Len(r.prompts) = n + 1 /\ Len(r.outputs) = n + 1
    BY <1>1, <1>3, <1>4
  <2>4. Len(r.prompts) > 0 /\ Len(r.outputs) \in {Len(r.prompts) - 1, Len(r.prompts)}
    BY <2>3
  <2> QED BY <1>6, <2>1, <2>2, <2>4 DEF IsSound
<1>8. Conversation!History(l) = l.prompts[n + 1].ids
  BY <1>2, <1>3 DEF Conversation!History, Conversation!LastPrompt
<1>9. Conversation!History(r) = l.prompts[n + 1].ids \o o.ids
  BY <1>1, <1>3, <1>4 DEF Conversation!History, Conversation!Complete,
       Conversation!LastPrompt,
                          Conversation!LastOutput
<1>10. \A t \in 1 .. n : Conversation!InputStart(r, t) = Conversation!InputStart(l, t)
         /\ Conversation!InputEnd(r, t) = Conversation!InputEnd(l, t)
  BY <1>1, <1>4 DEF Conversation!InputStart, Conversation!InputEnd
<1>11. /\ Conversation!InputStart(r, n + 1) = Len(Conversation!History(l))
       /\ Conversation!InputEnd(r, n + 1) = Len(Conversation!History(l)) + Len(o.ids)
  BY <1>1, <1>4, <1>8 DEF Conversation!InputStart, Conversation!InputEnd
<1>12. ASSUME NEW i \in Int
       PROVE  Conversation!Marked(r, i) <=>
                \/ Conversation!Marked(l, i)
                \/ Len(Conversation!History(l)) < i
                     /\ i <= Len(Conversation!History(l)) + Len(o.ids)
  <2>1. Conversation!Marked(r, i) <=>
          \E t \in 1 .. n + 1 :
            Conversation!InputStart(r, t) < i /\ i <= Conversation!InputEnd(r, t)
    BY <1>4 DEF Conversation!Marked
  <2>2. Conversation!Marked(l, i) <=>
          \E t \in 1 .. n :
            Conversation!InputStart(l, t) < i /\ i <= Conversation!InputEnd(l, t)
    BY <1>3 DEF Conversation!Marked
  <2>3. 1 .. n + 1 = (1 .. n) \cup {n + 1}
    BY <1>2
  <2> QED BY <1>10, <1>11, <2>1, <2>2, <2>3
<1> QED BY <1>1, <1>5, <1>7, <1>8, <1>9, <1>12

\* A prompt is put behind the last answer.
LEMMA ExtendedIs ==
  ASSUME NEW l, DOMAIN l = {"prompts", "outputs"}, IsTyped(l), IsSound(l),
    Conversation!Complete(l),
         NEW delta \in Seq(Tokens),
         NEW r, r = [l EXCEPT !.prompts = Append(@,
           Conversation!Prompt(Conversation!History(l) \o delta, delta))]
  PROVE  /\ DOMAIN r = {"prompts", "outputs"} /\ IsTyped(r) /\ IsSound(r)
         /\ Conversation!History(r) = Conversation!History(l) \o delta
         /\ \A i : Conversation!Marked(r, i) <=> Conversation!Marked(l, i)
<1> DEFINE p == Conversation!Prompt(Conversation!History(l) \o delta, delta)
<1>1. /\ r.outputs = l.outputs /\ r.prompts = Append(l.prompts, p)
      /\ DOMAIN r = {"prompts", "outputs"}
  OBVIOUS
<1>2. PICK n \in Nat : n = Len(l.outputs)
  BY Records
<1>3. /\ Len(l.prompts) = n /\ DOMAIN l.prompts = 1 .. n /\ DOMAIN l.outputs = 1 .. n /\ n > 0
      /\ l.prompts \in Seq(PromptRecord)
  BY <1>2, HistoryHolds, Records DEF IsTyped, Conversation!Complete
<1>4. p \in PromptRecord /\ p.ids = Conversation!History(l) \o delta /\ p.added = delta
  <2>1. Conversation!History(l) \in Seq(Tokens)
    BY HistoryHolds
  <2>2. Conversation!History(l) \o delta \in Seq(Tokens)
    BY <2>1
  <2> QED BY <2>2 DEF Conversation!Prompt, PromptRecord
<1> HIDE DEF p
<1>5. /\ r.prompts \in Seq(PromptRecord) /\ Len(r.prompts) = n + 1
      /\ DOMAIN r.prompts = 1 .. n + 1 /\ r.prompts[n + 1] = p
      /\ \A t \in 1 .. n : r.prompts[t] = l.prompts[t]
  BY <1>1, <1>2, <1>3, <1>4
<1>6. IsTyped(r)
  BY <1>1, <1>5 DEF IsTyped
<1>7. Conversation!History(l) = l.prompts[n].ids \o l.outputs[n].ids
  BY <1>2, <1>3 DEF Conversation!History, Conversation!LastPrompt, Conversation!LastOutput
<1>8. ASSUME NEW i \in 2 .. Len(r.prompts) PROVE Conversation!Follows(r, i)
  <2>1. CASE i = n + 1
    <3>1. i - 1 = n /\ n \in 1 .. n
      BY <2>1, <1>3
    <3>2. r.prompts[i].ids = l.prompts[n].ids \o l.outputs[n].ids \o delta
      BY <1>4, <1>5, <1>7, <2>1
    <3> QED BY <1>1, <1>4, <1>5, <2>1, <3>1, <3>2 DEF Conversation!Follows
  <2>2. CASE i # n + 1
    <3>1. i \in 2 .. n /\ i \in 1 .. n /\ i - 1 \in 1 .. n
      BY <1>5, <2>2
    <3>2. Conversation!Follows(l, i)
      BY <1>3, <3>1 DEF IsSound
    <3> QED BY <1>1, <1>5, <3>1, <3>2 DEF Conversation!Follows
  <2> QED BY <2>1, <2>2
<1>9. IsSound(r)
  <2>1. r.prompts[1].ids = r.prompts[1].added
    BY <1>3, <1>5 DEF IsSound
  <2>2. Len(r.prompts) = n + 1 /\ Len(r.outputs) = n
    BY <1>1, <1>2, <1>5
  <2>3. Len(r.prompts) > 0 /\ Len(r.outputs) \in {Len(r.prompts) - 1, Len(r.prompts)}
    BY <2>2
  <2>4. \A t \in DOMAIN r.outputs :
          Conversation!Covers(r.outputs[t].ids, r.outputs[t].segments)
    BY <1>1 DEF IsSound
  <2> QED BY <1>8, <2>1, <2>3, <2>4 DEF IsSound
<1>10. Conversation!History(r) = Conversation!History(l) \o delta
  <2>1. ~Conversation!Complete(r) /\ Conversation!LastPrompt(r) = p.ids
    BY <1>1, <1>2, <1>5 DEF Conversation!Complete, Conversation!LastPrompt
  <2> QED BY <1>4, <2>1 DEF Conversation!History
<1>11. ASSUME NEW i PROVE Conversation!Marked(r, i) <=> Conversation!Marked(l, i)
  <2>1. \A t \in DOMAIN l.outputs :
          Conversation!InputStart(r, t) = Conversation!InputStart(l, t)
            /\ Conversation!InputEnd(r, t) = Conversation!InputEnd(l, t)
    BY <1>1, <1>3, <1>5 DEF Conversation!InputStart, Conversation!InputEnd
  <2> QED BY <1>1, <2>1 DEF Conversation!Marked
<1> QED BY <1>1, <1>6, <1>9, <1>10, <1>11

\* Nothing is marked past the end.
LEMMA MarkedInHistory ==
  ASSUME NEW l, IsTyped(l), IsSound(l), NEW i \in Int, Conversation!Marked(l, i)
  PROVE  i <= Len(Conversation!History(l))
<1>1. PICK t \in DOMAIN l.outputs : i <= Conversation!InputEnd(l, t)
  BY DEF Conversation!Marked
<1>2. Conversation!InputEnd(l, t) <= Len(Conversation!History(l))
  BY HistoryHolds
<1>3. Conversation!InputEnd(l, t) \in Nat /\ Len(Conversation!History(l)) \in Nat
  <2>1. Conversation!History(l) \in Seq(Tokens) /\ t \in 1 .. Len(l.outputs)
    BY HistoryHolds, Records
  <2> QED BY <2>1, PromptsGrow
<1> QED BY <1>1, <1>2, <1>3

\* What was said is kept when more of it is, by one who is marked or by one who is not.
LEMMA KeepsMore ==
  ASSUME NEW l, IsTyped(l), IsSound(l), NEW s, NEW d, Keeps(l, s, d),
         NEW r, NEW ids \in Seq(Tokens), NEW by \in {"policy", "environment"},
         Conversation!History(r) = Conversation!History(l) \o ids,
         \A i \in Int : Conversation!Marked(r, i) <=>
            \/ Conversation!Marked(l, i)
            \/ by = "policy" /\ Len(Conversation!History(l)) < i
                 /\ i <= Len(Conversation!History(l)) + Len(ids)
  PROVE  Keeps(r, s \o Conversation!Tagged(ids, by), d)
<1>1. PICK h : h = Conversation!History(l)
  OBVIOUS
<1>2. h \in Seq(Tokens) /\ s \in Seq(Utterance) /\ Len(h) = Len(s)
  BY <1>1, HistoryHolds DEF Keeps
<1> DEFINE n == Len(s)
           m == Len(ids)
<1>3. n \in Nat /\ m \in Nat
  BY <1>2
<1>5. /\ Conversation!Tagged(ids, by) \in Seq(Utterance)
      /\ Len(Conversation!Tagged(ids, by)) = m
      /\ \A i \in 1 .. m : Conversation!Tagged(ids, by)[i].id = ids[i]
           /\ Conversation!Tagged(ids, by)[i].by = by
  <2>1. \A i \in 1 .. m : [id |-> ids[i], by |-> by] \in Utterance
    BY <1>3 DEF Utterance
  <2> QED BY <1>3, <2>1 DEF Conversation!Tagged
<1>6. PICK w : w = Conversation!Tagged(ids, by)
  OBVIOUS
<1>7. /\ s \o w \in Seq(Utterance) /\ Len(s \o w) = n + m
      /\ Len(h \o ids) = n + m
      /\ \A i \in 1 .. n : (s \o w)[i] = s[i] /\ (h \o ids)[i] = h[i]
      /\ \A i \in 1 .. m : (s \o w)[n + i] = w[i] /\ (h \o ids)[n + i] = ids[i]
  <2>1. w \in Seq(Utterance) /\ Len(w) = m /\ Len(ids) = m /\ Len(h) = n /\ Len(s) = n
    BY <1>2, <1>3, <1>5, <1>6
  <2>2. /\ s \o w \in Seq(Utterance) /\ Len(s \o w) = n + m
        /\ \A i \in 1 .. n : (s \o w)[i] = s[i]
        /\ \A i \in 1 .. m : (s \o w)[n + i] = w[i]
    <3>1. s \o w \in Seq(Utterance) /\ Len(s \o w) = Len(s) + Len(w)
      <4>1. s \in Seq(Utterance) /\ w \in Seq(Utterance)
        BY <1>2, <2>1
      <4> QED BY <4>1, ConcatProperties
    <3>3. \A i \in 1 .. Len(s) : (s \o w)[i] = s[i]
      BY <1>2, <2>1, InARow
    <3>4. \A i \in 1 .. Len(w) : (s \o w)[Len(s) + i] = w[i]
      BY <1>2, <2>1, InARow
    <3>2. ASSUME NEW i \in 1 .. m PROVE (s \o w)[n + i] = w[i]
      <4>1. i \in 1 .. Len(w)
        BY <2>1
      <4>2. (s \o w)[Len(s) + i] = w[i]
        BY <3>4, <4>1
      <4> QED BY <2>1, <4>2
    <3> QED BY <2>1, <3>1, <3>2, <3>3
  <2>3. /\ Len(h \o ids) = n + m
        /\ \A i \in 1 .. n : (h \o ids)[i] = h[i]
        /\ \A i \in 1 .. m : (h \o ids)[n + i] = ids[i]
    <3>1. h \o ids \in Seq(Tokens) /\ Len(h \o ids) = Len(h) + Len(ids)
      BY <1>2, <2>1
    <3>3. \A i \in 1 .. Len(h) : (h \o ids)[i] = h[i]
      BY <1>2, <2>1, InARow
    <3>4. \A i \in 1 .. Len(ids) : (h \o ids)[Len(h) + i] = ids[i]
      BY <1>2, <2>1, InARow
    <3>2. ASSUME NEW i \in 1 .. m PROVE (h \o ids)[n + i] = ids[i]
      <4>1. i \in 1 .. Len(ids)
        BY <2>1
      <4>2. (h \o ids)[Len(h) + i] = ids[i]
        BY <3>4, <4>1
      <4> QED BY <2>1, <4>2
    <3> QED BY <2>1, <3>1, <3>2, <3>3
  <2> QED BY <2>2, <2>3
<1>8. ASSUME NEW i \in 1 .. n + m
      PROVE  /\ \/ (h \o ids)[i] = (s \o w)[i].id
                \/ d > 0 /\ (s \o w)[i].by = "policy"
             /\ Conversation!Marked(r, i) <=> (s \o w)[i].by = "policy"
  <2>1. CASE i <= n
    <3>1. i \in 1 .. n
      BY <2>1
    <3>2. h[i] = s[i].id \/ (d > 0 /\ s[i].by = "policy")
      BY <1>1, <1>3, <3>1 DEF Keeps
    <3>3. Conversation!Marked(l, i) <=> s[i].by = "policy"
      BY <1>3, <3>1 DEF Keeps
    <3>4. Conversation!Marked(r, i) <=> Conversation!Marked(l, i)
      BY <1>1, <1>2, <1>3, <2>1
    <3> QED BY <1>7, <3>1, <3>2, <3>3, <3>4
  <2>2. CASE ~(i <= n)
    <3>1. PICK j \in 1 .. m : i = n + j
      <4>1. i - n \in 1 .. m /\ i = n + (i - n)
        BY <2>2
      <4> QED BY <4>1
    <3>2. ~Conversation!Marked(l, i)
      BY <1>1, <1>2, <1>3, <2>2, MarkedInHistory
    <3>4. n < i /\ i <= n + m /\ i \in Int
      BY <1>3, <3>1
    <3>5. Len(Conversation!History(l)) = n /\ Len(ids) = m
      BY <1>1, <1>2
    <3>3. Conversation!Marked(r, i) <=> by = "policy"
      BY <3>2, <3>4, <3>5
    <3> QED BY <1>5, <1>6, <1>7, <3>1, <3>3
  <2> QED BY <2>1, <2>2
<1> QED BY <1>1, <1>6, <1>7, <1>8 DEF Keeps

LEMMA OpenInv ==
  ASSUME LedgerInv, NEW initial \in Initials, Conversation!Open(initial)
  PROVE  LedgerInv'
<1>1. initial \in Seq(Tokens) /\ Len(initial) \in Nat
  BY ConversationAssumption DEF Conversation!TokenAssumption
<1>2. PICK l : l = [prompts |-> <<Conversation!Prompt(initial, initial)>>, outputs |-> <<>>]
  OBVIOUS
<1>3. Conversation!Prompt(initial, initial) \in PromptRecord
        /\ Conversation!Prompt(initial, initial).ids = initial
      /\ Conversation!Prompt(initial, initial).added = initial
  BY <1>1 DEF Conversation!Prompt, PromptRecord
<1>4. /\ DOMAIN l = {"prompts", "outputs"} /\ l.outputs = <<>>
      /\ l.prompts = <<Conversation!Prompt(initial, initial)>>
  BY <1>2
<1>5. /\ IsTyped(l) /\ Len(l.prompts) = 1 /\ Len(l.outputs) = 0 /\ DOMAIN l.outputs = {}
      /\ l.prompts[1].ids = initial /\ l.prompts[1].added = initial
  BY <1>3, <1>4 DEF IsTyped
<1>6. IsSound(l)
  BY <1>5 DEF IsSound
<1>7. Conversation!History(l) = initial /\ \A i : ~Conversation!Marked(l, i)
  BY <1>5 DEF Conversation!History, Conversation!Complete, Conversation!LastPrompt,
              Conversation!Marked
<1>8. Keeps(l, Conversation!Tagged(initial, "environment"), damages)
  <2>1. \A i \in 1 .. Len(initial) : [id |-> initial[i], by |-> "environment"] \in Utterance
    BY <1>1 DEF Utterance
  <2>2. PICK w : w = Conversation!Tagged(initial, "environment")
    OBVIOUS
  <2>3. w \in Seq(Utterance) /\ Len(w) = Len(initial)
        /\ \A i \in 1 .. Len(initial) : w[i].id = initial[i] /\ w[i].by = "environment"
    BY <1>1, <2>1, <2>2 DEF Conversation!Tagged
  <2> QED BY <1>7, <2>2, <2>3 DEF Keeps
<1>9. /\ ledger' = l /\ said' = Conversation!Tagged(initial, "environment")
      /\ UNCHANGED <<file, kept, damages>>
  BY <1>2 DEF Conversation!Open
<1> QED BY <1>4, <1>5, <1>6, <1>8, <1>9 DEF LedgerInv

LEMMA RecordOutputInv ==
  ASSUME LedgerInv, NEW ids \in Emissions, NEW segments \in Conversation!Labellings(Len(ids)),
         Conversation!RecordOutput(ids, segments)
  PROVE  LedgerInv'
<1>1. ids \in Seq(Tokens) /\ Len(ids) \in Nat
  BY ConversationAssumption DEF Conversation!TokenAssumption
<1>2. segments \in Seq([start : Nat, end : Nat])
  <2> DEFINE Spans == [start : 0 .. Len(ids), end : 0 .. Len(ids)]
  <2>1. \A a \in Spans : a \in [start : Nat, end : Nat]
    BY <1>1
  <2>2. segments \in {<<a>> : a \in Spans} \cup {<<a, b>> : a \in Spans, b \in Spans}
    BY DEF Conversation!Labellings
  <2> HIDE DEF Spans
  <2>3. CASE \E a \in Spans : segments = <<a>>
    BY <2>1, <2>3
  <2>4. CASE \E a \in Spans, b \in Spans : segments = <<a, b>>
    BY <2>1, <2>4
  <2> QED BY <2>2, <2>3, <2>4
<1>3. PICK o : o = [ids |-> ids, segments |-> segments]
  OBVIOUS
<1>4. o \in OutputRecord /\ o.ids = ids /\ o.segments = segments
  BY <1>1, <1>2, <1>3 DEF OutputRecord
<1>5. /\ ledger # None /\ ~Conversation!Complete(ledger)
      /\ Conversation!Covers(o.ids, o.segments)
      /\ ledger' = [ledger EXCEPT !.outputs = Append(@, o)]
      /\ said' = said \o Conversation!Tagged(ids, "policy")
      /\ UNCHANGED <<file, kept, damages>>
  BY <1>3, <1>4 DEF Conversation!RecordOutput
<1>6. DOMAIN ledger = {"prompts", "outputs"} /\ IsTyped(ledger) /\ IsSound(ledger)
  BY <1>5 DEF LedgerInv
<1>7. PICK r : r = ledger'
  OBVIOUS
<1>8. /\ DOMAIN r = {"prompts", "outputs"} /\ IsTyped(r) /\ IsSound(r)
      /\ Conversation!History(r) = Conversation!History(ledger) \o ids
      /\ \A i \in Int : Conversation!Marked(r, i) <=>
           \/ Conversation!Marked(ledger, i)
           \/ Len(Conversation!History(ledger)) < i
                /\ i <= Len(Conversation!History(ledger)) + Len(ids)
  BY <1>4, <1>5, <1>6, <1>7, AnsweredIs
<1>9. damages <= 1 => Keeps(r, said \o Conversation!Tagged(ids, "policy"), damages)
  <2> SUFFICES ASSUME damages <= 1
               PROVE  Keeps(r, said \o Conversation!Tagged(ids, "policy"), damages)
    OBVIOUS
  <2>1. Keeps(ledger, said, damages)
    BY <1>5 DEF LedgerInv
  <2>2. \A i \in Int : Conversation!Marked(r, i) <=>
          \/ Conversation!Marked(ledger, i)
          \/ /\ "policy" = "policy"
             /\ Len(Conversation!History(ledger)) < i
             /\ i <= Len(Conversation!History(ledger)) + Len(ids)
    BY <1>8
  <2> QED BY <1>1, <1>6, <1>8, <2>1, <2>2, KeepsMore
<1> QED BY <1>5, <1>7, <1>8, <1>9 DEF LedgerInv

\* The ledger when a prompt with "delta" behind its history has been put in.
LEMMA ExtendedInv ==
  ASSUME LedgerInv, ledger # None, Conversation!Complete(ledger), NEW delta \in Seq(Tokens),
         NEW r, r = Conversation!Extended(delta)
  PROVE  /\ DOMAIN r = {"prompts", "outputs"} /\ IsTyped(r) /\ IsSound(r)
         /\ Conversation!History(r) = Conversation!History(ledger) \o delta
         /\ \A i : Conversation!Marked(r, i) <=> Conversation!Marked(ledger, i)
<1>1. DOMAIN ledger = {"prompts", "outputs"} /\ IsTyped(ledger) /\ IsSound(ledger)
  BY DEF LedgerInv
<1>2. r = [ledger EXCEPT !.prompts = Append(@,
        Conversation!Prompt(Conversation!History(ledger) \o delta, delta))]
  BY DEF Conversation!Extended
<1> QED BY <1>1, <1>2, ExtendedIs

LEMMA AppendPromptInv ==
  ASSUME LedgerInv, NEW delta \in Deltas, Conversation!AppendPrompt(delta)
  PROVE  LedgerInv'
<1>1. delta \in Seq(Tokens)
  BY ConversationAssumption DEF Conversation!TokenAssumption
<1>2. PICK r : r = Conversation!Extended(delta)
  OBVIOUS
<1>3. /\ ledger # None /\ Conversation!Complete(ledger) /\ ledger' = r
      /\ said' = said \o Conversation!Tagged(delta, "environment")
      /\ UNCHANGED <<file, kept, damages>>
  BY <1>2 DEF Conversation!AppendPrompt
<1>4. /\ DOMAIN r = {"prompts", "outputs"} /\ IsTyped(r) /\ IsSound(r)
      /\ Conversation!History(r) = Conversation!History(ledger) \o delta
      /\ \A i : Conversation!Marked(r, i) <=> Conversation!Marked(ledger, i)
  BY <1>1, <1>2, <1>3, ExtendedInv
<1>5. damages <= 1 => Keeps(r, said \o Conversation!Tagged(delta, "environment"), damages)
  <2> SUFFICES ASSUME damages <= 1
               PROVE  Keeps(r, said \o Conversation!Tagged(delta, "environment"), damages)
    OBVIOUS
  <2>1. Keeps(ledger, said, damages) /\ IsTyped(ledger) /\ IsSound(ledger)
    BY <1>3 DEF LedgerInv
  <2>2. \A i \in Int : Conversation!Marked(r, i) <=>
          \/ Conversation!Marked(ledger, i)
          \/ /\ "environment" = "policy"
             /\ Len(Conversation!History(ledger)) < i
             /\ i <= Len(Conversation!History(ledger)) + Len(delta)
    BY <1>4
  <2> QED BY <1>1, <1>4, <2>1, <2>2, KeepsMore
<1> QED BY <1>3, <1>4, <1>5 DEF LedgerInv

LEMMA AdoptPromptInv ==
  ASSUME LedgerInv, ledger # None, NEW rendering \in Conversation!Renderings,
         NEW delta \in Deltas, Conversation!AdoptPrompt(rendering, delta)
  PROVE  LedgerInv'
<1>1. /\ DOMAIN ledger = {"prompts", "outputs"} /\ IsTyped(ledger) /\ IsSound(ledger)
      /\ Conversation!Complete(ledger)
  BY DEF LedgerInv, Conversation!AdoptPrompt
<1>2. PICK h : h = Conversation!History(ledger)
  OBVIOUS
<1>3. h \in Seq(Tokens) /\ Len(h) \in Nat
  BY <1>1, <1>2, HistoryHolds
<1>4. rendering \in Seq(Tokens)
  <2>1. CASE rendering = h
    BY <1>3, <2>1
  <2>2. CASE \E i \in DOMAIN h, x \in Tokens : rendering = [h EXCEPT ![i] = x]
    BY <1>3, <2>2
  <2>3. CASE rendering = SubSeq(h, 1, Len(h) - 1)
    BY <1>3, <2>3
  <2> QED BY <1>2, <2>1, <2>2, <2>3 DEF Conversation!Renderings
<1>5. PICK candidate : candidate = rendering \o delta
  OBVIOUS
<1>6. candidate \in Seq(Tokens) /\ Len(candidate) \in Nat
  <2>1. delta \in Seq(Tokens)
    BY ConversationAssumption DEF Conversation!TokenAssumption
  <2> QED BY <1>4, <1>5, <2>1
<1>7. PICK tail : tail = SubSeq(candidate, Len(h) + 1, Len(candidate))
  OBVIOUS
<1>8. /\ Len(candidate) > Len(h) /\ SubSeq(candidate, 1, Len(h)) = h
      /\ ledger' = Conversation!Extended(tail)
      /\ said' = [i \in 1 .. Len(candidate) |->
                    [id |-> candidate[i],
                     by |-> IF i <= Len(said) THEN said[i].by ELSE "environment"]]
      /\ UNCHANGED <<file, kept, damages>>
  BY <1>2, <1>5, <1>7 DEF Conversation!AdoptPrompt, Conversation!Continues
<1>9. tail \in Seq(Tokens) /\ h \o tail = candidate
  <2>1. /\ tail \in Seq(Tokens) /\ Len(tail) = Len(candidate) - Len(h)
        /\ \A i \in 1 .. Len(candidate) - Len(h) : tail[i] = candidate[Len(h) + i]
    BY <1>3, <1>6, <1>7, <1>8
  <2>2. \A i \in 1 .. Len(h) : h[i] = candidate[i]
    <3>1. PICK start : start = SubSeq(candidate, 1, Len(h))
      OBVIOUS
    <3>2. \A i \in 1 .. Len(h) : start[i] = candidate[i]
      BY <1>3, <1>6, <1>8, <3>1
    <3> QED BY <1>8, <3>1, <3>2
  <2>3. PICK joined : joined = h \o tail
    OBVIOUS
  <2>4. joined \in Seq(Tokens) /\ Len(joined) = Len(candidate)
    BY <1>3, <1>6, <2>1, <2>3
  <2>5. ASSUME NEW i \in 1 .. Len(candidate) PROVE joined[i] = candidate[i]
    <3>1. CASE i <= Len(h)
      BY <1>3, <2>1, <2>2, <2>3, <3>1
    <3>2. CASE ~(i <= Len(h))
      <4>1. PICK j \in 1 .. Len(candidate) - Len(h) : j = i - Len(h)
        <5>1. i - Len(h) \in 1 .. Len(candidate) - Len(h)
          BY <1>3, <1>6, <3>2
        <5> QED BY <5>1
      <4>2. joined[i] = tail[j]
        BY <1>3, <1>6, <2>1, <2>3, <3>2, <4>1
      <4>3. tail[j] = candidate[Len(h) + j] /\ Len(h) + j = i
        BY <1>3, <2>1, <4>1
      <4> QED BY <4>2, <4>3
    <3> QED BY <3>1, <3>2
  <2>6. /\ joined = [i \in 1 .. Len(candidate) |-> joined[i]]
        /\ candidate = [i \in 1 .. Len(candidate) |-> candidate[i]]
    BY <1>6, <2>4
  <2> QED BY <2>1, <2>3, <2>5, <2>6
<1>10. PICK r : r = Conversation!Extended(tail)
  OBVIOUS
<1>11. /\ DOMAIN r = {"prompts", "outputs"} /\ IsTyped(r) /\ IsSound(r)
       /\ Conversation!History(r) = candidate
       /\ \A i : Conversation!Marked(r, i) <=> Conversation!Marked(ledger, i)
  BY <1>1, <1>2, <1>9, <1>10, ExtendedInv
<1>12. damages <= 1 => Keeps(r, said', damages)
  <2> SUFFICES ASSUME damages <= 1 PROVE Keeps(r, said', damages)
    OBVIOUS
  <2>1. Keeps(ledger, said, damages)
    BY DEF LedgerInv
  <2>2. said \in Seq(Utterance) /\ Len(said) = Len(h)
    BY <1>2, <2>1 DEF Keeps
  <2>3. PICK w : w = said'
    OBVIOUS
  <2>4. ASSUME NEW i \in 1 .. Len(candidate)
        PROVE  /\ w[i] \in Utterance /\ w[i].id = candidate[i]
               /\ Conversation!Marked(r, i) <=> w[i].by = "policy"
    <3>1. w[i] = [id |-> candidate[i],
                  by |-> IF i <= Len(said) THEN said[i].by ELSE "environment"]
      BY <1>8, <2>3
    <3>2. candidate[i] \in Tokens
      BY <1>6
    <3>3. CASE i <= Len(said)
      <4>1. i \in 1 .. Len(said)
        BY <2>2, <1>3, <3>3
      <4>2. said[i].by \in {"policy", "environment"}
        <5>1. said[i] \in Utterance
          BY <2>2, <4>1
        <5> QED BY <5>1 DEF Utterance
      <4>3. Conversation!Marked(ledger, i) <=> said[i].by = "policy"
        BY <2>1, <4>1 DEF Keeps
      <4>4. w[i] = [id |-> candidate[i], by |-> said[i].by]
        BY <3>1, <3>3
      <4> QED BY <1>11, <3>2, <4>2, <4>3, <4>4 DEF Utterance
    <3>4. CASE ~(i <= Len(said))
      <4>1. ~Conversation!Marked(ledger, i)
        BY <1>1, <1>2, <1>3, <2>2, <3>4, MarkedInHistory
      <4>2. w[i] = [id |-> candidate[i], by |-> "environment"]
        BY <3>1, <3>4
      <4> QED BY <1>11, <3>2, <4>1, <4>2 DEF Utterance
    <3> QED BY <3>3, <3>4
  <2>5. w \in Seq(Utterance) /\ Len(w) = Len(candidate)
    <3>1. DOMAIN w = 1 .. Len(candidate) /\ w = [i \in 1 .. Len(candidate) |-> w[i]]
      BY <1>8, <2>3
    <3> QED BY <1>6, <2>4, <3>1
  <2> QED BY <1>11, <2>3, <2>4, <2>5 DEF Keeps
<1> QED BY <1>8, <1>10, <1>11, <1>12 DEF LedgerInv

----------------------------------------------------------------------------
(* The file *)

LEMMA SaveInv ==
  ASSUME LedgerInv, Conversation!Save
  PROVE  LedgerInv'
<1>1. PICK f : f = [prompts |-> ledger.prompts, outputs |-> ledger.outputs,
                    state |-> Conversation!State(ledger)]
  OBVIOUS
<1>2. /\ ledger # None /\ file' = f /\ kept' = said
      /\ UNCHANGED <<ledger, said, damages>>
  BY <1>1 DEF Conversation!Save
<1>3. /\ DOMAIN f = {"prompts", "outputs", "state"}
      /\ f.prompts = ledger.prompts /\ f.outputs = ledger.outputs
  BY <1>1
<1>4. IsTyped(ledger) /\ IsSound(ledger) /\ (damages <= 1 => Keeps(ledger, said, damages))
  BY <1>2 DEF LedgerInv
<1>5. IsTyped(f) /\ IsSound(f) /\ (damages <= 1 => Keeps(f, said, damages))
  BY <1>3, <1>4, SameHistory
<1> QED BY <1>2, <1>3, <1>5 DEF LedgerInv

LEMMA RestoreInv ==
  ASSUME LedgerInv, Conversation!Restore
  PROVE  LedgerInv'
<1>1. PICK l : l = [prompts |-> file.prompts, outputs |-> file.outputs]
  OBVIOUS
<1>2. /\ file # None /\ ledger' = l /\ said' = kept /\ UNCHANGED <<file, kept, damages>>
  BY <1>1 DEF Conversation!Restore
<1>3. /\ DOMAIN l = {"prompts", "outputs"}
      /\ l.prompts = file.prompts /\ l.outputs = file.outputs
  BY <1>1
<1>4. IsSound(file)
  BY DEF Conversation!Restore, Conversation!Loads, Conversation!Chain, IsSound
<1>5. IsTyped(file) /\ (damages <= 1 => Keeps(file, kept, damages))
  BY <1>2, <1>4 DEF LedgerInv
<1>6. IsTyped(l) /\ IsSound(l) /\ (damages <= 1 => Keeps(l, kept, damages))
  BY <1>3, <1>4, <1>5, SameHistory
<1> QED BY <1>2, <1>3, <1>6 DEF LedgerInv

LEMMA LoseInv ==
  ASSUME LedgerInv, Conversation!Lose
  PROVE  LedgerInv'
BY DEF LedgerInv, Conversation!Lose

\* A ledger that differs from what was said in outputs of the same length.
LEMMA KeepsAlike ==
  ASSUME NEW l, IsTyped(l), IsSound(l), NEW r, IsTyped(r), IsSound(r),
         NEW s, Keeps(l, s, 0), Len(r.prompts) = Len(l.prompts),
         Len(r.outputs) = Len(l.outputs),
         \A i \in DOMAIN l.prompts : r.prompts[i].ids = l.prompts[i].ids,
         \A i \in DOMAIN l.outputs : Len(r.outputs[i].ids) = Len(l.outputs[i].ids)
  PROVE  Keeps(r, s, 1)
<1>1. /\ DOMAIN l.outputs = DOMAIN r.outputs
      /\ DOMAIN l.prompts = 1 .. Len(l.prompts) /\ DOMAIN l.outputs = 1 .. Len(l.outputs)
      /\ Len(l.prompts) \in Nat /\ Len(l.outputs) \in Nat
  BY Records
<1>2. ASSUME NEW t \in DOMAIN l.outputs
      PROVE  Conversation!InputStart(r, t) = Conversation!InputStart(l, t)
               /\ Conversation!InputEnd(r, t) = Conversation!InputEnd(l, t)
  <2>1. t \in DOMAIN l.prompts
    BY <1>1, PromptsGrow
  <2> QED BY <2>1 DEF Conversation!InputStart, Conversation!InputEnd
<1>3. \A i : Conversation!Marked(r, i) <=> Conversation!Marked(l, i)
  BY <1>1, <1>2 DEF Conversation!Marked
<1>4. Conversation!LastPrompt(r) = Conversation!LastPrompt(l)
        /\ (Conversation!Complete(r) <=> Conversation!Complete(l))
  <2>1. Len(l.prompts) \in DOMAIN l.prompts
    BY <1>1 DEF IsSound
  <2> QED BY <2>1 DEF Conversation!LastPrompt, Conversation!Complete
<1>5. /\ s \in Seq(Utterance) /\ Len(Conversation!History(l)) = Len(s)
      /\ \A i \in 1 .. Len(s) :
           Conversation!History(l)[i] = s[i].id
             /\ (Conversation!Marked(l, i) <=> s[i].by = "policy")
  BY DEF Keeps
<1>6. CASE ~Conversation!Complete(l)
  <2>1. Conversation!History(r) = Conversation!History(l)
    BY <1>4, <1>6 DEF Conversation!History
  <2> QED BY <1>3, <1>5, <2>1 DEF Keeps
<1>7. CASE Conversation!Complete(l)
  <2>1. PICK p : p = Conversation!LastPrompt(l)
    OBVIOUS
  <2>2. PICK a : a = Conversation!LastOutput(l)
    OBVIOUS
  <2>3. PICK b : b = Conversation!LastOutput(r)
    OBVIOUS
  <2>4. /\ p \in Seq(Tokens) /\ a \in Seq(Tokens) /\ b \in Seq(Tokens)
        /\ a = l.outputs[Len(l.outputs)].ids /\ b = r.outputs[Len(l.outputs)].ids
        /\ Len(l.outputs) > 0 /\ Conversation!InputStart(l, Len(l.outputs)) = Len(p)
    BY <1>4, <1>7, <2>1, <2>2, <2>3, HistoryHolds
  <2>10. Len(l.outputs) \in DOMAIN l.outputs
    BY <1>1, <2>4
  <2>11. Len(a) \in Nat /\ Len(p) \in Nat
    BY <2>4
  <2>5. Len(l.outputs) \in DOMAIN l.outputs /\ Len(b) = Len(a) /\ Len(a) \in Nat
        /\ Len(p) \in Nat
    BY <2>4, <2>10, <2>11
  <2>6. Conversation!History(l) = p \o a /\ Conversation!History(r) = p \o b
    BY <1>4, <1>7, <2>1, <2>2, <2>3 DEF Conversation!History
  <2>7. Len(s) = Len(p) + Len(a) /\ Len(Conversation!History(r)) = Len(s)
    <3>1. Len(p \o a) = Len(p) + Len(a) /\ Len(p \o b) = Len(p) + Len(b)
      BY <2>4
    <3> QED BY <1>5, <2>5, <2>6, <3>1
  <2>8. ASSUME NEW i \in 1 .. Len(s)
        PROVE  Conversation!History(r)[i] = s[i].id \/ s[i].by = "policy"
    <3>1. CASE i <= Len(p)
      <4>1. (p \o a)[i] = p[i] /\ (p \o b)[i] = p[i]
        BY <2>4, <2>5, <2>7, <3>1
      <4> QED BY <1>5, <2>6, <4>1
    <3>2. CASE ~(i <= Len(p))
      <4>1. Conversation!InputEnd(l, Len(l.outputs)) = Len(p) + Len(a)
        BY <2>4 DEF Conversation!InputEnd
      <4>2. Conversation!Marked(l, i)
        BY <2>4, <2>5, <2>7, <3>2, <4>1 DEF Conversation!Marked
      <4> QED BY <1>5, <4>2
    <3> QED BY <3>1, <3>2
  <2> QED BY <1>3, <1>5, <2>7, <2>8 DEF Keeps
<1> QED BY <1>6, <1>7

\* What is accepted of a file with another prompt in it.
LEMMA PromptDamaged ==
  ASSUME NEW l, IsTyped(l), NEW i \in DOMAIN l.prompts, NEW p \in PromptRecord,
         p.ids = l.prompts[i].ids \/ p.added = l.prompts[i].added,
         NEW r, r.prompts = [l.prompts EXCEPT ![i] = p], r.outputs = l.outputs
  PROVE  /\ IsTyped(r)
         /\ \A s : IsSound(l) /\ Keeps(l, s, 0) /\ IsSound(r) => Keeps(r, s, 1)
<1>1. /\ Len(l.prompts) \in Nat /\ DOMAIN l.prompts = 1 .. Len(l.prompts)
      /\ l.prompts \in Seq(PromptRecord) /\ l.outputs \in Seq(OutputRecord)
  BY Records DEF IsTyped
<1>2. /\ r.prompts \in Seq(PromptRecord) /\ Len(r.prompts) = Len(l.prompts)
      /\ r.prompts[i] = p /\ \A j \in DOMAIN l.prompts : j # i => r.prompts[j] = l.prompts[j]
  BY <1>1
<1>3. IsTyped(r)
  BY <1>1, <1>2 DEF IsTyped
<1>4. ASSUME NEW s, IsSound(l), Keeps(l, s, 0), IsSound(r) PROVE Keeps(r, s, 1)
  <2>1. p.ids = l.prompts[i].ids
    <3> SUFFICES ASSUME p.added = l.prompts[i].added PROVE p.ids = l.prompts[i].ids
      OBVIOUS
    <3>1. CASE i = 1
      BY <1>2, <1>4, <3>1 DEF IsSound
    <3>2. CASE i # 1
      <4>1. i \in 2 .. Len(l.prompts) /\ i - 1 \in DOMAIN l.prompts /\ i - 1 # i
        BY <1>1, <3>2
      <4>2. Conversation!Follows(l, i) /\ Conversation!Follows(r, i)
        BY <1>2, <1>4, <4>1 DEF IsSound
      <4> QED BY <1>2, <4>1, <4>2 DEF Conversation!Follows
    <3> QED BY <3>1, <3>2
  <2>2. \A j \in DOMAIN l.prompts : r.prompts[j].ids = l.prompts[j].ids
    BY <1>2, <2>1
  <2> QED BY <1>2, <1>3, <1>4, <2>2, KeepsAlike
<1> QED BY <1>3, <1>4

\* What is accepted of a file with another output in it.
LEMMA OutputDamaged ==
  ASSUME NEW l, IsTyped(l), NEW i \in DOMAIN l.outputs, NEW o \in OutputRecord,
         Len(o.ids) = Len(l.outputs[i].ids) \/ o.segments = l.outputs[i].segments,
         NEW r, r.outputs = [l.outputs EXCEPT ![i] = o], r.prompts = l.prompts
  PROVE  /\ IsTyped(r)
         /\ \A s : IsSound(l) /\ Keeps(l, s, 0) /\ IsSound(r) => Keeps(r, s, 1)
<1>1. /\ Len(l.outputs) \in Nat /\ DOMAIN l.outputs = 1 .. Len(l.outputs)
      /\ l.prompts \in Seq(PromptRecord) /\ l.outputs \in Seq(OutputRecord)
  BY Records DEF IsTyped
<1>2. /\ r.outputs \in Seq(OutputRecord) /\ Len(r.outputs) = Len(l.outputs)
      /\ DOMAIN r.outputs = DOMAIN l.outputs
      /\ r.outputs[i] = o /\ \A j \in DOMAIN l.outputs : j # i => r.outputs[j] = l.outputs[j]
  BY <1>1
<1>3. IsTyped(r)
  BY <1>1, <1>2 DEF IsTyped
<1>4. ASSUME NEW s, IsSound(l), Keeps(l, s, 0), IsSound(r) PROVE Keeps(r, s, 1)
  <2>1. Len(o.ids) = Len(l.outputs[i].ids)
    <3>1. /\ Conversation!Covers(l.outputs[i].ids, l.outputs[i].segments)
          /\ Conversation!Covers(o.ids, o.segments)
      BY <1>2, <1>4 DEF IsSound
    <3> QED BY <3>1 DEF Conversation!Covers
  <2>2. \A j \in DOMAIN l.outputs : Len(r.outputs[j].ids) = Len(l.outputs[j].ids)
    BY <1>2, <2>1
  <2> QED BY <1>2, <1>3, <1>4, <2>2, KeepsAlike
<1> QED BY <1>3, <1>4

LEMMA DamageInv ==
  ASSUME LedgerInv, Conversation!Damage
  PROVE  LedgerInv'
<1> DEFINE
      f == file
      g == file'
      A == \E i \in DOMAIN f.prompts, field \in {"ids", "added"}, x \in Tokens :
             \E j \in DOMAIN f.prompts[i][field] : g = [f EXCEPT !.prompts[i][field][j] = x]
      B == \E i \in DOMAIN f.prompts, field \in {"ids", "added"} :
             g = [f EXCEPT !.prompts[i][field] = SubSeq(@, 1, Len(@) - 1)]
      C == \E i \in DOMAIN f.outputs, x \in Tokens : \E j \in DOMAIN f.outputs[i].ids :
             g = [f EXCEPT !.outputs[i].ids[j] = x]
      D == \E i \in DOMAIN f.outputs :
             g = [f EXCEPT !.outputs[i].ids = SubSeq(@, 1, Len(@) - 1)]
      E == \E i \in DOMAIN f.outputs, bound \in {"start", "end"}, n \in 0 .. 3 :
             \E j \in DOMAIN f.outputs[i].segments :
               g = [f EXCEPT !.outputs[i].segments[j][bound] = n]
      F == g = [f EXCEPT !.state = IF @ = "awaiting_output" THEN "awaiting_prompt_append"
                                   ELSE "awaiting_output"]
<1>1. A \/ B \/ C \/ D \/ E \/ F
  BY DEF Conversation!Damage
<1>2. f = file /\ g = file'
  OBVIOUS
<1> HIDE DEF f, g
<1>3. /\ f # None /\ damages' = damages + 1 /\ UNCHANGED <<ledger, said, kept>>
      /\ damages \in Nat
  BY <1>2 DEF Conversation!Damage, LedgerInv
<1>4. /\ DOMAIN f = {"prompts", "outputs", "state"} /\ IsTyped(f)
      /\ damages = 0 => IsSound(f) /\ Keeps(f, kept, 0)
  BY <1>2, <1>3 DEF LedgerInv
<1> DEFINE Kept(r) == \A s : IsSound(f) /\ Keeps(f, s, 0) /\ IsSound(r) => Keeps(r, s, 1)
           Good == DOMAIN g = {"prompts", "outputs", "state"} /\ IsTyped(g) /\ Kept(g)
<1>5. ASSUME NEW i \in DOMAIN f.prompts, NEW field \in {"ids", "added"},
        NEW ids \in Seq(Tokens),
             g = [f EXCEPT !.prompts[i][field] = ids]
      PROVE  Good
  <2>1. PICK p : p = [f.prompts[i] EXCEPT ![field] = ids]
    OBVIOUS
  <2>2. /\ DOMAIN g = {"prompts", "outputs", "state"} /\ g.outputs = f.outputs
        /\ g.prompts = [f.prompts EXCEPT ![i] = p]
    BY <1>4, <1>5, <2>1
  <2>3. f.prompts[i] \in PromptRecord
    BY <1>4, Records
  <2>4. /\ p \in PromptRecord
        /\ p.ids = f.prompts[i].ids \/ p.added = f.prompts[i].added
    BY <2>1, <2>3 DEF PromptRecord
  <2> QED BY <1>4, <2>2, <2>4, PromptDamaged
<1>6. ASSUME NEW i \in DOMAIN f.outputs, NEW o \in OutputRecord,
             Len(o.ids) = Len(f.outputs[i].ids) \/ o.segments = f.outputs[i].segments,
             g = [f EXCEPT !.outputs[i] = o]
      PROVE  Good
  <2>1. /\ DOMAIN g = {"prompts", "outputs", "state"} /\ g.prompts = f.prompts
        /\ g.outputs = [f.outputs EXCEPT ![i] = o]
    BY <1>4, <1>6
  <2> QED BY <1>4, <1>6, <2>1, OutputDamaged
<1> HIDE DEF Good
<1>7. ASSUME \E i \in DOMAIN f.prompts, field \in {"ids", "added"}, x \in Tokens :
               \E j \in DOMAIN f.prompts[i][field] :
                 g = [f EXCEPT !.prompts[i][field][j] = x]
      PROVE  Good
  <2>1. PICK i \in DOMAIN f.prompts, field \in {"ids", "added"}, x \in Tokens :
               \E j \in DOMAIN f.prompts[i][field] :
                 g = [f EXCEPT !.prompts[i][field][j] = x]
    BY <1>7
  <2>2. PICK j \in DOMAIN f.prompts[i][field] : g = [f EXCEPT !.prompts[i][field][j] = x]
    BY <2>1
  <2>3. PICK ids : ids = [f.prompts[i][field] EXCEPT ![j] = x]
    OBVIOUS
  <2>4. f.prompts[i].ids \in Seq(Tokens) /\ f.prompts[i].added \in Seq(Tokens)
    BY <1>4, Records
  <2>5. ids \in Seq(Tokens)
    BY <2>3, <2>4
  <2>6. g = [f EXCEPT !.prompts[i][field] = ids]
    BY <2>2, <2>3
  <2> QED BY <1>5, <2>5, <2>6
<1>8. ASSUME \E i \in DOMAIN f.prompts, field \in {"ids", "added"} :
               g = [f EXCEPT !.prompts[i][field] = SubSeq(@, 1, Len(@) - 1)]
      PROVE  Good
  <2>1. PICK i \in DOMAIN f.prompts, field \in {"ids", "added"} :
               g = [f EXCEPT !.prompts[i][field] = SubSeq(@, 1, Len(@) - 1)]
    BY <1>8
  <2>2. PICK ids : ids = SubSeq(f.prompts[i][field], 1, Len(f.prompts[i][field]) - 1)
    OBVIOUS
  <2>3. f.prompts[i].ids \in Seq(Tokens) /\ f.prompts[i].added \in Seq(Tokens)
    BY <1>4, Records
  <2>4. ids \in Seq(Tokens)
    BY <2>2, <2>3
  <2>5. g = [f EXCEPT !.prompts[i][field] = ids]
    BY <2>1, <2>2
  <2> QED BY <1>5, <2>4, <2>5
<1>9. ASSUME \E i \in DOMAIN f.outputs, x \in Tokens : \E j \in DOMAIN f.outputs[i].ids :
               g = [f EXCEPT !.outputs[i].ids[j] = x]
      PROVE  Good
  <2>1. PICK i \in DOMAIN f.outputs, x \in Tokens : \E j \in DOMAIN f.outputs[i].ids :
               g = [f EXCEPT !.outputs[i].ids[j] = x]
    BY <1>9
  <2>2. PICK j \in DOMAIN f.outputs[i].ids : g = [f EXCEPT !.outputs[i].ids[j] = x]
    BY <2>1
  <2>3. PICK ids : ids = [f.outputs[i].ids EXCEPT ![j] = x]
    OBVIOUS
  <2>4. PICK o : o = [f.outputs[i] EXCEPT !.ids = ids]
    OBVIOUS
  <2>5. f.outputs[i] \in OutputRecord /\ f.outputs[i].ids \in Seq(Tokens)
    BY <1>4, Records
  <2>6. ids \in Seq(Tokens)
    BY <2>3, <2>5
  <2>7. o \in OutputRecord /\ o.segments = f.outputs[i].segments
    BY <2>4, <2>5, <2>6 DEF OutputRecord
  <2>8. g = [f EXCEPT !.outputs[i] = o]
    BY <2>2, <2>3, <2>4
  <2> QED BY <1>6, <2>7, <2>8
<1>10. ASSUME \E i \in DOMAIN f.outputs :
                g = [f EXCEPT !.outputs[i].ids = SubSeq(@, 1, Len(@) - 1)]
       PROVE  Good
  <2>1. PICK i \in DOMAIN f.outputs :
          g = [f EXCEPT !.outputs[i].ids = SubSeq(@, 1, Len(@) - 1)]
    BY <1>10
  <2>2. PICK ids : ids = SubSeq(f.outputs[i].ids, 1, Len(f.outputs[i].ids) - 1)
    OBVIOUS
  <2>3. PICK o : o = [f.outputs[i] EXCEPT !.ids = ids]
    OBVIOUS
  <2>4. f.outputs[i] \in OutputRecord /\ f.outputs[i].ids \in Seq(Tokens)
    BY <1>4, Records
  <2>5. ids \in Seq(Tokens)
    BY <2>2, <2>4
  <2>6. o \in OutputRecord /\ o.segments = f.outputs[i].segments
    BY <2>3, <2>4, <2>5 DEF OutputRecord
  <2>7. g = [f EXCEPT !.outputs[i] = o]
    BY <2>1, <2>2, <2>3
  <2> QED BY <1>6, <2>6, <2>7
<1>11. ASSUME \E i \in DOMAIN f.outputs, bound \in {"start", "end"}, n \in 0 .. 3 :
                \E j \in DOMAIN f.outputs[i].segments :
                  g = [f EXCEPT !.outputs[i].segments[j][bound] = n]
       PROVE  Good
  <2>1. PICK i \in DOMAIN f.outputs, bound \in {"start", "end"}, n \in 0 .. 3 :
               \E j \in DOMAIN f.outputs[i].segments :
                 g = [f EXCEPT !.outputs[i].segments[j][bound] = n]
    BY <1>11
  <2>2. PICK j \in DOMAIN f.outputs[i].segments :
               g = [f EXCEPT !.outputs[i].segments[j][bound] = n]
    BY <2>1
  <2>3. PICK segment : segment = [f.outputs[i].segments[j] EXCEPT ![bound] = n]
    OBVIOUS
  <2>4. PICK segments : segments = [f.outputs[i].segments EXCEPT ![j] = segment]
    OBVIOUS
  <2>5. PICK o : o = [f.outputs[i] EXCEPT !.segments = segments]
    OBVIOUS
  <2>6. f.outputs[i] \in OutputRecord
    BY <1>4, Records
  <2>7. f.outputs[i].segments \in Seq([start : Nat, end : Nat])
    BY <2>6 DEF OutputRecord
  <2>8. segment \in [start : Nat, end : Nat]
    <3>5. PICK old : old = f.outputs[i].segments
      OBVIOUS
    <3>6. old \in Seq([start : Nat, end : Nat]) /\ j \in DOMAIN old
      BY <2>7, <3>5
    <3>8. j \in 1 .. Len(old)
      BY <3>6
    <3>7. old[j] \in [start : Nat, end : Nat]
      BY <3>6, <3>8, ElementOfSeq
    <3>1. f.outputs[i].segments[j] \in [start : Nat, end : Nat]
      BY <3>5, <3>7
    <3>4. n \in Nat
      OBVIOUS
    <3>2. CASE bound = "start"
      BY <2>3, <3>1, <3>2, <3>4
    <3>3. CASE bound = "end"
      BY <2>3, <3>1, <3>3, <3>4
    <3> QED BY <3>2, <3>3
  <2>9. segments \in Seq([start : Nat, end : Nat])
    BY <2>4, <2>7, <2>8
  <2>10. o \in OutputRecord /\ o.ids = f.outputs[i].ids
    BY <2>5, <2>6, <2>9 DEF OutputRecord
  <2>11. g = [f EXCEPT !.outputs[i] = o]
    BY <2>2, <2>3, <2>4, <2>5
  <2> QED BY <1>6, <2>10, <2>11
<1>12. ASSUME g = [f EXCEPT !.state = IF @ = "awaiting_output" THEN "awaiting_prompt_append"
                                      ELSE "awaiting_output"]
       PROVE  Good
  <2>1. /\ DOMAIN g = {"prompts", "outputs", "state"} /\ g.prompts = f.prompts
        /\ g.outputs = f.outputs
    BY <1>4, <1>12
  <2>2. IsTyped(g) /\ \A s, d : Keeps(f, s, d) <=> Keeps(g, s, d)
    BY <1>4, <2>1, SameHistory
  <2>3. \A r, s : Keeps(r, s, 0) => Keeps(r, s, 1)
    BY DEF Keeps
  <2> QED BY <2>1, <2>2, <2>3 DEF Good
<1>13. Good
  <2>1. A => Good
    BY <1>7
  <2>2. B => Good
    BY <1>8
  <2>3. C => Good
    BY <1>9
  <2>4. D => Good
    BY <1>10
  <2>5. E => Good
    BY <1>11
  <2>6. F => Good
    BY <1>12
  <2> HIDE DEF A, B, C, D, E, F
  <2> QED BY <2>1, <2>2, <2>3, <2>4, <2>5, <2>6, <1>1
<1>14. damages + 1 = 1 /\ IsSound(g) => Keeps(g, kept, 1)
  BY <1>3, <1>4, <1>13 DEF Good
<1>15. ledger # None => /\ DOMAIN ledger = {"prompts", "outputs"}
                        /\ IsTyped(ledger) /\ IsSound(ledger)
                        /\ damages + 1 <= 1 => Keeps(ledger, said, damages + 1)
  <2>1. \A l, s : Keeps(l, s, 0) => Keeps(l, s, 1)
    BY DEF Keeps
  <2>2. damages + 1 <= 1 => damages = 0
    BY <1>3
  <2> QED BY <1>3, <2>1, <2>2 DEF LedgerInv
<1>16. damages + 1 # 0 /\ damages + 1 \in Nat
  BY <1>3
<1> QED BY <1>2, <1>3, <1>13, <1>14, <1>15, <1>16 DEF LedgerInv, Good

LEMMA NextLedgerInv ==
  ASSUME LedgerInv, [Conversation!Next]_(Conversation!vars)
  PROVE  LedgerInv'
<1>1. CASE UNCHANGED Conversation!vars
  BY <1>1 DEF LedgerInv, Conversation!vars
<1>2. CASE Conversation!Next
  BY <1>2, OpenInv, RecordOutputInv, AppendPromptInv, AdoptPromptInv, SaveInv, RestoreInv,
     LoseInv, DamageInv DEF Conversation!Next
<1> QED BY <1>1, <1>2

LEMMA AlwaysLedgerInv ==
  Conversation!Spec => []LedgerInv
<1>1. Conversation!Init => LedgerInv
  BY DEF Conversation!Init, LedgerInv
<1>2. LedgerInv /\ [Conversation!Next]_(Conversation!vars) => LedgerInv'
  BY NextLedgerInv
<1> QED BY <1>1, <1>2, PTL DEF Conversation!Spec

THEOREM ExchangesAreKept ==
  Conversation!Spec => []Conversation!ExchangeIsKept
<1>1. LedgerInv => Conversation!ExchangeIsKept
  BY DEF LedgerInv, Keeps, Conversation!ExchangeIsKept
<1> QED BY <1>1, AlwaysLedgerInv, PTL

----------------------------------------------------------------------------
(* The bytes of a text *)

\* f[n] is how many bytes the first n characters have.
Counts(f, text) ==
    /\ f \in [0 .. Len(text) -> Nat] /\ f[0] = 0 /\ Tools!Bytes(text) = f[Len(text)]
    /\ \A n \in 1 .. Len(text) : f[n] = f[n - 1] + Width[text[n]]

LEMMA BytesLoop ==
  ASSUME NEW text \in Seq(DOMAIN Width)
  PROVE  \E f : Counts(f, text)
<1> DEFINE L == Len(text)
           Next1(f, n) == f[n - 1] + Width[text[n]]
           Turn(f, n) == IF n = 0 THEN 0 ELSE Next1(f, n)
           F == CHOOSE f : f = [n \in 0 .. L |-> Turn(f, n)]
           turn == [p \in (1 .. L) \X Nat |-> p[2] + Width[text[p[1]]]]
<1>1. L \in Nat /\ \A n \in 1 .. L : Width[text[n]] \in Nat
  <2>1. L \in Nat /\ \A n \in 1 .. L : text[n] \in DOMAIN Width
    OBVIOUS
  <2> QED BY <2>1, ToolsAssumption DEF Tools!ToolAssumption
<1>2. turn \in [(1 .. L) \X Nat -> Nat]
  BY <1>1
<1>3. \E f : f = [n \in 0 .. L |-> Turn(f, n)]
  <2>0. \A n \in 1 .. L, v \in Nat : turn[<<n, v>>] = v + Width[text[n]]
    OBVIOUS
  <2>9. L \in Nat /\ 0 \in Nat /\ turn \in [(1 .. L) \X Nat -> Nat]
    BY <1>1, <1>2
  <2> HIDE DEF turn, L, F, Turn, Next1
  <2>8. PICK f : Loops(f, L, Nat, 0, turn)
    BY <2>9, Recursion
  <2>1. /\ f \in [0 .. L -> Nat] /\ f[0] = 0
        /\ \A n \in 1 .. L : f[n] = turn[<<n, f[n - 1]>>]
    BY <2>8 DEF Loops
  <2> USE DEF Turn, Next1
  <2>2. ASSUME NEW n \in 0 .. L PROVE f[n] = Turn(f, n)
    <3>1. CASE n = 0
      BY <2>1, <3>1
    <3>2. CASE n # 0
      <4>1. n \in 1 .. L /\ f[n - 1] \in Nat
        BY <1>1, <2>1, <3>2
      <4>2. f[n] = turn[<<n, f[n - 1]>>]
        BY <2>1, <4>1
      <4> QED BY <2>0, <3>2, <4>1, <4>2
    <3> QED BY <3>1, <3>2
  <2> HIDE DEF Turn
  <2>3. f = [n \in 0 .. L |-> Turn(f, n)]
    BY <2>1, <2>2
  <2> QED BY <2>3
<1>4. F = [n \in 0 .. L |-> Turn(F, n)]
  <2> HIDE DEF Turn
  <2> QED BY <1>3
<1>5. Tools!Bytes(text) = F[L]
  BY DEF Tools!Bytes
<1> HIDE DEF F
<1>6. F[0] = 0 /\ \A n \in 1 .. L : F[n] = Next1(F, n)
  <2>1. \A n \in 0 .. L : F[n] = Turn(F, n)
    <3> HIDE DEF Turn
    <3> QED BY <1>4
  <2> QED BY <1>1, <2>1
<1>7. F \in [0 .. L -> Nat]
  <2> DEFINE K == {n \in 0 .. L : F[n] \in Nat}
  <2>1. 0 \in K
    BY <1>1, <1>6
  <2>2. ASSUME NEW n \in 1 .. L, n - 1 \in K PROVE n \in K
    BY <1>1, <1>6, <2>2
  <2>3. 0 .. L \subseteq K
    <3> HIDE DEF K, L
    <3> QED BY <1>1, <2>1, <2>2, UpToInd
  <2>4. \A n \in 0 .. L : F[n] \in Nat
    BY <2>3
  <2>5. F = [n \in 0 .. L |-> F[n]]
    <3> HIDE DEF Turn
    <3> QED BY <1>4
  <2> HIDE DEF L
  <2> QED BY <2>4, <2>5
<1>8. Counts(F, text)
  BY <1>5, <1>6, <1>7 DEF Counts
<1> QED BY <1>8

\* Two counts of texts that begin alike are alike as far.
LEMMA SameCounts ==
  ASSUME NEW s \in Seq(DOMAIN Width), NEW t \in Seq(DOMAIN Width),
         NEW f, NEW g, Counts(f, s), Counts(g, t),
         NEW m \in Nat, m <= Len(s), m <= Len(t), \A i \in 1 .. m : s[i] = t[i]
  PROVE  \A n \in 0 .. m : f[n] = g[n]
<1> DEFINE K == {n \in 0 .. m : f[n] = g[n]}
<1>1. Len(s) \in Nat /\ Len(t) \in Nat
  OBVIOUS
<1>2. 0 \in K
  BY DEF Counts
<1>3. ASSUME NEW n \in 1 .. m, n - 1 \in K PROVE n \in K
  <2>1. n \in 1 .. Len(s) /\ n \in 1 .. Len(t)
    BY <1>1
  <2>2. f[n] = f[n - 1] + Width[s[n]] /\ g[n] = g[n - 1] + Width[t[n]]
    BY <2>1 DEF Counts
  <2> QED BY <1>3, <2>2
<1>4. 0 .. m \subseteq K
  <2> HIDE DEF K
  <2> QED BY <1>2, <1>3, UpToInd
<1> QED BY <1>4

\* The bytes of a text and then another.
LEMMA BytesOfBoth ==
  ASSUME NEW s \in Seq(DOMAIN Width), NEW t \in Seq(DOMAIN Width)
  PROVE  /\ Tools!Bytes(s) \in Nat /\ Tools!Bytes(t) \in Nat
         /\ Tools!Bytes(s \o t) = Tools!Bytes(s) + Tools!Bytes(t)
<1> DEFINE both == s \o t
<1>1. PICK f : Counts(f, s)
  BY BytesLoop
<1>2. PICK g : Counts(g, t)
  BY BytesLoop
<1>3. /\ both \in Seq(DOMAIN Width) /\ Len(both) = Len(s) + Len(t)
      /\ \A i \in 1 .. Len(s) : both[i] = s[i]
      /\ \A i \in 1 .. Len(t) : both[Len(s) + i] = t[i]
  BY InARow
<1>4. Len(s) \in Nat /\ Len(t) \in Nat
  OBVIOUS
<1> HIDE DEF both
<1>5. PICK h : Counts(h, both)
  BY <1>3, BytesLoop
<1>6. h[Len(s)] = f[Len(s)]
  <2>1. Len(s) <= Len(s) /\ Len(s) <= Len(both) /\ Len(s) \in 0 .. Len(s)
    BY <1>3, <1>4
  <2>2. \A n \in 0 .. Len(s) : h[n] = f[n]
    <3>1. /\ both \in Seq(DOMAIN Width) /\ Counts(h, both) /\ Counts(f, s)
          /\ Len(s) \in Nat /\ Len(s) <= Len(both) /\ Len(s) <= Len(s)
          /\ \A i \in 1 .. Len(s) : both[i] = s[i]
      BY <1>1, <1>3, <1>4, <1>5, <2>1
    <3> HIDE DEF both
    <3> QED BY <3>1, SameCounts
  <2> QED BY <2>1, <2>2
<1>7. f[Len(s)] \in Nat /\ \A n \in 0 .. Len(t) : g[n] \in Nat
  <2>1. f \in [0 .. Len(s) -> Nat] /\ g \in [0 .. Len(t) -> Nat]
    BY <1>1, <1>2 DEF Counts
  <2> QED BY <1>4, <2>1
<1> DEFINE K == {n \in 0 .. Len(t) : h[Len(s) + n] = f[Len(s)] + g[n]}
<1>8. 0 \in K
  <2>1. g[0] = 0 /\ Len(s) + 0 = Len(s)
    BY <1>2, <1>4 DEF Counts
  <2> QED BY <1>4, <1>6, <1>7, <2>1
<1>9. ASSUME NEW n \in 1 .. Len(t), n - 1 \in K PROVE n \in K
  <2>1. PICK k : k = Len(s) + n
    OBVIOUS
  <2>2. k \in 1 .. Len(both) /\ k - 1 = Len(s) + (n - 1) /\ n - 1 \in 0 .. Len(t)
    BY <1>3, <1>4, <2>1
  <2>3. h[k] = h[k - 1] + Width[both[k]] /\ both[k] = t[n]
    BY <1>3, <1>5, <2>1, <2>2 DEF Counts
  <2>4. g[n] = g[n - 1] + Width[t[n]]
    BY <1>2 DEF Counts
  <2>5. h[k - 1] = f[Len(s)] + g[n - 1]
    BY <1>9, <2>2
  <2>6. t[n] \in DOMAIN Width
    OBVIOUS
  <2>7. Width[t[n]] \in Nat
    BY <2>6, ToolsAssumption DEF Tools!ToolAssumption
  <2>8. g[n - 1] \in Nat
    BY <1>7, <2>2
  <2>9. h[k] = f[Len(s)] + g[n]
    BY <1>7, <2>3, <2>4, <2>5, <2>7, <2>8
  <2>10. n \in 0 .. Len(t)
    OBVIOUS
  <2> QED BY <2>1, <2>9, <2>10
<1>10. Len(t) \in K
  <2>1. 0 .. Len(t) \subseteq K
    <3> HIDE DEF K
    <3> QED BY <1>4, <1>8, <1>9, UpToInd
  <2> HIDE DEF K
  <2> QED BY <1>4, <2>1
<1>11. h[Len(s) + Len(t)] = f[Len(s)] + g[Len(t)]
  BY <1>10
<1> QED BY <1>1, <1>2, <1>3, <1>4, <1>5, <1>7, <1>11 DEF Counts, both

----------------------------------------------------------------------------
(* The place that a path names *)

\* A path that is its own normal form has no empty name and no ".".
LEMMA NamesKept ==
  ASSUME NEW T, NEW path \in Seq(T), Tools!Names(path) = path
  PROVE  \A i \in 1 .. Len(path) : path[i] \notin Tools!Dropped
<1> DEFINE gone == {i \in 1 .. Len(path) : path[i] \in Tools!Dropped}
           seqs == [i \in DOMAIN path |->
             IF path[i] \in Tools!Dropped THEN <<>> ELSE <<path[i]>>]
<1>1. Len(path) \in Nat /\ DOMAIN path = 1 .. Len(path)
        /\ \A i \in 1 .. Len(path) : path[i] \in T
  OBVIOUS
<1>2. seqs \in Seq(Seq(T)) /\ Len(seqs) = Len(path)
  <2>1. ASSUME NEW i \in 1 .. Len(path) PROVE seqs[i] \in Seq(T)
    <3>1. <<path[i]>> \in Seq(T) /\ <<>> \in Seq(T)
      BY <1>1
    <3> QED BY <1>1, <3>1
  <2>2. DOMAIN seqs = 1 .. Len(path) /\ seqs = [i \in 1 .. Len(path) |-> seqs[i]]
    BY <1>1
  <2> HIDE DEF seqs
  <2> QED BY <1>1, <2>1, <2>2
<1>3. Tools!FlattenSeq(seqs) = path
  BY DEF Tools!Names
<1>4. \A i \in 1 .. Len(path) : seqs[i] = IF i \in gone THEN <<>> ELSE <<path[i]>>
  BY <1>1
<1> SUFFICES ASSUME NEW d \in gone PROVE FALSE
  OBVIOUS
<1>5. d \in 1 .. Len(path) /\ seqs # <<>>
  <2>1. d \in 1 .. Len(path)
    OBVIOUS
  <2>2. Len(seqs) # 0
    BY <1>1, <1>2, <2>1
  <2>3. Len(<<>>) = 0
    OBVIOUS
  <2> HIDE DEF seqs
  <2> QED BY <2>1, <2>2, <2>3
<1> HIDE DEF seqs, gone
<1>6. PICK f : FlattenUpTo(f, T, seqs)
  BY <1>2, <1>5, FlattenLoop
<1>7. /\ f \in [0 .. Len(path) -> Seq(T)] /\ f[0] = <<>> /\ path = f[Len(path)]
      /\ \A n \in 1 .. Len(path) : f[n] = f[n - 1] \o seqs[n]
  BY <1>2, <1>3, <1>6 DEF FlattenUpTo
<1> DEFINE K == {n \in 0 .. Len(path) : Len(f[n]) <= n /\ (d <= n => Len(f[n]) < n)}
<1>8. 0 \in K
  BY <1>1, <1>5, <1>7
<1>9. ASSUME NEW n \in 1 .. Len(path), n - 1 \in K PROVE n \in K
  <2>1. n \in 0 .. Len(path) /\ n - 1 \in 0 .. Len(path)
    BY <1>1
  <2>2. f[n - 1] \in Seq(T) /\ path[n] \in T
    BY <1>1, <1>7, <2>1
  <2>3. Len(f[n - 1]) <= n - 1 /\ (d <= n - 1 => Len(f[n - 1]) < n - 1)
    BY <1>9
  <2>4. f[n] = f[n - 1] \o seqs[n]
    BY <1>7
  <2>5. CASE n \in gone
    <3>2. seqs[n] = <<>>
      BY <1>4, <2>5
    <3>3. \A a \in Seq(T) : a \o <<>> = a
      OBVIOUS
    <3>1. f[n] = f[n - 1]
      BY <2>2, <2>4, <3>2, <3>3
    <3> QED BY <2>1, <2>2, <2>3, <3>1
  <2>6. CASE n \notin gone
    <3>1. f[n] = f[n - 1] \o <<path[n]>>
      BY <1>4, <2>4, <2>6
    <3>2. Len(f[n]) = Len(f[n - 1]) + 1
      BY <2>2, <3>1
    <3>3. d # n
      BY <2>6
    <3> QED BY <1>5, <2>1, <2>2, <2>3, <3>2, <3>3
  <2> QED BY <2>5, <2>6
<1>10. 0 .. Len(path) \subseteq K
  <2> HIDE DEF K
  <2> QED BY <1>1, <1>8, <1>9, UpToInd
<1>11. Len(path) \in K
  <2> HIDE DEF K
  <2> QED BY <1>1, <1>10
<1> QED BY <1>1, <1>5, <1>7, <1>11

\* A text grows by its last member.
LEMMA Beginnings ==
  ASSUME NEW T, NEW s \in Seq(T)
  PROVE  /\ SubSeq(s, 1, 0) = <<>> /\ SubSeq(s, 1, Len(s)) = s
         /\ \A n \in 1 .. Len(s) :
              SubSeq(s, 1, n) = Append(SubSeq(s, 1, n - 1), s[n])
<1>1. SubSeq(s, 1, 0) = <<>>
  BY SubSeqEmpty
<1>2. SubSeq(s, 1, Len(s)) = s
  BY SubSeqFull
<1>3. ASSUME NEW n \in 1 .. Len(s)
      PROVE  SubSeq(s, 1, n) = Append(SubSeq(s, 1, n - 1), s[n])
  <2>1. Len(s) \in Nat /\ 1 \in 1 .. Len(s) /\ n \in 1 .. Len(s)
    OBVIOUS
  <2>2. SubSeq(s, 1, n) = SubSeq(s, 1, n - 1) \o <<s[n]>>
    BY <2>1, SubSeqRecursiveSecond
  <2>3. n - 1 \in Int /\ \A i \in 1 .. n - 1 : s[i] \in T
    BY <2>1
  <2>4. SubSeq(s, 1, n - 1) \in Seq(T)
    BY <2>3, SubSeqProperties
  <2>5. s[n] \in T
    OBVIOUS
  <2>6. \A a \in Seq(T), b \in T : a \o <<b>> = Append(a, b)
    OBVIOUS
  <2> QED BY <2>2, <2>4, <2>5, <2>6
<1> QED BY <1>1, <1>2, <1>3

\* Such a path, without "..", leads where it says.
LEMMA LeadsThere ==
  ASSUME NEW T, NEW path \in Seq(T),
         \A i \in 1 .. Len(path) : path[i] \notin Tools!Dropped /\ path[i] # ".."
  PROVE  Tools!Leads(path) = path
<1> DEFINE L == Len(path)
           Step(f, n) ==
             IF path[n] \in Tools!Dropped THEN f[n - 1] ELSE
             IF path[n] # ".." \/ f[n - 1] = <<>> \/ Tools!Last(f[n - 1]) = ".."
             THEN Append(f[n - 1], path[n]) ELSE Tools!Front(f[n - 1])
           Turn(f, n) == IF n = 0 THEN <<>> ELSE Step(f, n)
           F == CHOOSE f : f = [n \in 0 .. L |-> Turn(f, n)]
           g == [n \in 0 .. L |-> SubSeq(path, 1, n)]
<1>1. L \in Nat /\ SubSeq(path, 1, 0) = <<>> /\ SubSeq(path, 1, L) = path
  <2>1. Len(path) \in Nat
    OBVIOUS
  <2> QED BY <2>1, Beginnings
<1>2. \A n \in 1 .. L : SubSeq(path, 1, n) = Append(SubSeq(path, 1, n - 1), path[n])
  BY Beginnings
<1>3. \A f : \A n \in 1 .. L : Step(f, n) = Append(f[n - 1], path[n])
  OBVIOUS
<1> HIDE DEF Step
<1>4. \E f : f = [n \in 0 .. L |-> Turn(f, n)]
  <2>1. ASSUME NEW n \in 0 .. L PROVE g[n] = Turn(g, n)
    <3>1. CASE n = 0
      BY <1>1, <3>1
    <3>2. CASE n # 0
      <4>1. n \in 1 .. L /\ n - 1 \in 0 .. L
        <5> HIDE DEF L
        <5> QED BY <1>1, <3>2
      <4>2. g[n] = SubSeq(path, 1, n) /\ g[n - 1] = SubSeq(path, 1, n - 1)
        BY <4>1
      <4>3. g[n] = Append(g[n - 1], path[n])
        BY <1>2, <4>1, <4>2
      <4> HIDE DEF g, L
      <4> QED BY <1>3, <3>2, <4>1, <4>3
    <3> QED BY <3>1, <3>2
  <2>2. g = [n \in 0 .. L |-> g[n]]
    OBVIOUS
  <2> HIDE DEF g, Turn
  <2>3. g = [n \in 0 .. L |-> Turn(g, n)]
    BY <2>1, <2>2
  <2> QED BY <2>3
<1>5. F = [n \in 0 .. L |-> Turn(F, n)]
  <2> HIDE DEF Turn
  <2> QED BY <1>4
<1>6. Tools!Leads(path) = F[L]
  BY DEF Tools!Leads, Step
<1> HIDE DEF F
<1>7. F[0] = <<>> /\ \A n \in 1 .. L : F[n] = Append(F[n - 1], path[n])
  <2>1. \A n \in 0 .. L : F[n] = Turn(F, n)
    <3> HIDE DEF Turn
    <3> QED BY <1>5
  <2> HIDE DEF L
  <2>2. \A n \in 1 .. L : F[n] = Step(F, n)
    BY <1>1, <2>1
  <2>3. F[0] = <<>>
    BY <1>1, <2>1
  <2> QED BY <1>3, <2>2, <2>3
<1> DEFINE K == {n \in 0 .. L : F[n] = SubSeq(path, 1, n)}
<1>8. 0 \in K
  <2>1. 0 \in 0 .. L
    <3> HIDE DEF L
    <3> QED BY <1>1
  <2>2. F[0] = SubSeq(path, 1, 0)
    BY <1>1, <1>7, Zenon
  <2> QED BY <2>1, <2>2, Zenon
<1>9. ASSUME NEW n \in 1 .. L, n - 1 \in K PROVE n \in K
  <2>1. n \in 0 .. L
    <3> HIDE DEF L
    <3> QED BY <1>1
  <2>2. F[n - 1] = SubSeq(path, 1, n - 1)
    BY <1>9, Zenon
  <2>3. F[n] = SubSeq(path, 1, n)
    BY <1>2, <1>7, <2>2, Zenon
  <2> QED BY <2>1, <2>3, Zenon
<1>10. 0 .. L \subseteq K
  <2> HIDE DEF K, L
  <2> QED BY <1>1, <1>8, <1>9, UpToInd
<1>11. L \in K
  <2> HIDE DEF K, L
  <2> QED BY <1>1, <1>10
<1> HIDE DEF L
<1> QED BY <1>1, <1>6, <1>11

\* An accepted path names a place in the workspace, under one spelling, outside what is
\* first for the grader.
LEMMA InsideLeads ==
  ASSUME NEW names, names \in Seq(Tools!Range(names)), Tools!IsInside(names)
  PROVE  Tools!Leads(names) = names /\ names # <<>> /\ Head(names) \notin Graded \cup {".."}
<1>1. Len(names) \in Nat /\ DOMAIN names = 1 .. Len(names)
  OBVIOUS
<1>2. Tools!Names(names) = names /\ ".." \notin Tools!Range(names)
        /\ Head(names) \notin Graded
  BY Zenon DEF Tools!IsInside
<1>3. names # <<>>
  <2>1. PICK n : n \in Tools!Range(names)
    BY Zenon DEF Tools!IsInside
  <2>2. DOMAIN names # {}
    BY <2>1 DEF Tools!Range
  <2> QED BY <1>1, <2>2
<1>4. \A i \in 1 .. Len(names) : names[i] # ".."
  BY <1>1, <1>2 DEF Tools!Range
<1>5. \A i \in 1 .. Len(names) : names[i] \notin Tools!Dropped
  BY <1>2, NamesKept
<1>6. Tools!Leads(names) = names
  <2>1. \A i \in 1 .. Len(names) : names[i] \notin Tools!Dropped /\ names[i] # ".."
    BY <1>4, <1>5
  <2> QED BY <2>1, LeadsThere
<1>7. Head(names) # ".."
  BY <1>1, <1>3, <1>4
<1> QED BY <1>2, <1>3, <1>6, <1>7

----------------------------------------------------------------------------
(* What is shown of an output *)

\* A count grows with every character.
LEMMA CountsGrow ==
  ASSUME NEW text \in Seq(DOMAIN Width), NEW f, Counts(f, text)
  PROVE  /\ Len(text) \in Nat /\ f[0] = 0 /\ \A n \in 0 .. Len(text) : f[n] \in Nat
         /\ \A n \in 1 .. Len(text) :
              /\ f[n] = f[n - 1] + Width[text[n]] /\ Width[text[n]] \in Nat \ {0}
              /\ f[n - 1] < f[n]
         /\ \A i, n \in 0 .. Len(text) : i <= n => f[i] <= f[n]
<1>1. Len(text) \in Nat /\ f[0] = 0
  BY DEF Counts
<1>2. \A n \in 0 .. Len(text) : f[n] \in Nat
  BY DEF Counts
<1>3. ASSUME NEW n \in 1 .. Len(text)
      PROVE  /\ f[n] = f[n - 1] + Width[text[n]] /\ Width[text[n]] \in Nat \ {0}
             /\ f[n - 1] < f[n]
  <2>1. text[n] \in DOMAIN Width /\ n - 1 \in 0 .. Len(text)
    BY <1>1
  <2>2. Width[text[n]] \in Nat \ {0}
    BY <2>1, ToolsAssumption DEF Tools!ToolAssumption
  <2>3. f[n] = f[n - 1] + Width[text[n]]
    BY DEF Counts
  <2>4. f[n - 1] \in Nat
    BY <1>2, <2>1
  <2> QED BY <2>2, <2>3, <2>4
<1> DEFINE K == {n \in 0 .. Len(text) : \A i \in 0 .. n : f[i] <= f[n]}
<1>4. 0 \in K
  BY <1>1
<1>5. ASSUME NEW n \in 1 .. Len(text), n - 1 \in K PROVE n \in K
  <2>1. n \in 0 .. Len(text) /\ n - 1 \in 0 .. Len(text)
    BY <1>1
  <2>2. f[n - 1] < f[n] /\ f[n - 1] \in Nat /\ f[n] \in Nat
    BY <1>2, <1>3, <2>1
  <2>3. \A i \in 0 .. n - 1 : f[i] <= f[n - 1]
    BY <1>5
  <2>4. ASSUME NEW i \in 0 .. n PROVE f[i] <= f[n]
    <3>1. i \in 0 .. Len(text)
      BY <2>1
    <3>2. f[i] \in Nat
      BY <1>2, <3>1
    <3>3. i = n \/ i \in 0 .. n - 1
      BY <2>1
    <3> QED BY <2>2, <2>3, <3>2, <3>3
  <2> QED BY <2>1, <2>4
<1>6. 0 .. Len(text) \subseteq K
  <2> HIDE DEF K
  <2> QED BY <1>1, <1>4, <1>5, UpToInd
<1>7. ASSUME NEW i \in 0 .. Len(text), NEW n \in 0 .. Len(text), i <= n PROVE f[i] <= f[n]
  <2>1. n \in K /\ i \in 0 .. n
    BY <1>6, <1>7
  <2> QED BY <2>1
<1> QED BY <1>1, <1>2, <1>3, <1>7

\* The character in which a byte lies.
LEMMA Fits ==
  ASSUME NEW text \in Seq(DOMAIN Width), NEW f, Counts(f, text),
         NEW k \in Nat, k < f[Len(text)]
  PROVE  \E j \in 0 .. Len(text) - 1 : f[j] <= k /\ k < f[j + 1]
<1> DEFINE T == {n \in 0 .. Len(text) : k < f[n]}
<1>1. /\ Len(text) \in Nat /\ f[0] = 0 /\ \A n \in 0 .. Len(text) : f[n] \in Nat
  BY CountsGrow
<1>2. T \in SUBSET Nat /\ Len(text) \in T
  BY <1>1
<1>3. PICK n \in T : \A i \in T : n <= i
  <2> HIDE DEF T
  <2> QED BY <1>2, Least
<1>4. n \in 0 .. Len(text) /\ k < f[n] /\ n # 0
  BY <1>1
<1>5. n - 1 \in 0 .. Len(text) - 1 /\ (n - 1) + 1 = n /\ n - 1 \in 0 .. Len(text)
  BY <1>1, <1>4
<1>6. ~(k < f[n - 1])
  <2>1. n - 1 \notin T
    BY <1>3, <1>5
  <2> QED BY <1>5, <2>1
<1>7. f[n - 1] <= k
  BY <1>1, <1>5, <1>6
<1> QED BY <1>4, <1>5, <1>7

\* The bytes of a character lie between the counts before and after it.
LEMMA EncodedBytes ==
  ASSUME NEW text \in Seq(DOMAIN Width), NEW f, Counts(f, text), text # <<>>
  PROVE  /\ Tools!Encoded(text) \in Seq(Nat \X DOMAIN Width)
         /\ Len(Tools!Encoded(text)) = f[Len(text)]
         /\ \A i \in 1 .. Len(text), p \in 1 .. f[Len(text)] :
              f[i - 1] < p /\ p <= f[i] => Tools!Encoded(text)[p] = <<i, text[i]>>
<1> DEFINE T == Nat \X DOMAIN Width
           L == Len(text)
           seqs == [i \in DOMAIN text |-> [b \in 1 .. Width[text[i]] |-> <<i, text[i]>>]]
<1>1. /\ L \in Nat /\ L # 0 /\ DOMAIN text = 1 .. L
      /\ \A n \in 1 .. L : text[n] \in DOMAIN Width
  OBVIOUS
<1>2. /\ f[0] = 0 /\ \A n \in 0 .. L : f[n] \in Nat
      /\ \A n \in 1 .. L : f[n] = f[n - 1] + Width[text[n]] /\ Width[text[n]] \in Nat \ {0}
      /\ \A i, n \in 0 .. L : i <= n => f[i] <= f[n]
  BY CountsGrow
<1>3. ASSUME NEW i \in 1 .. L
      PROVE  /\ seqs[i] \in Seq(T) /\ Len(seqs[i]) = Width[text[i]]
             /\ \A b \in 1 .. Width[text[i]] : seqs[i][b] = <<i, text[i]>>
  <2>1. PICK w \in Nat : w = Width[text[i]]
    BY <1>2
  <2>5. i \in Nat /\ text[i] \in DOMAIN Width
    BY <1>1
  <2>6. <<i, text[i]>> \in T
    BY <2>5
  <2>2. PICK x \in T : x = <<i, text[i]>>
    BY <2>6
  <2>3. seqs[i] = [b \in 1 .. w |-> x]
    BY <1>1, <2>1, <2>2
  <2>4. [b \in 1 .. w |-> x] \in Seq(T) /\ Len([b \in 1 .. w |-> x]) = w
    <3> HIDE DEF T
    <3> QED OBVIOUS
  <2> HIDE DEF seqs, T
  <2> QED BY <2>1, <2>2, <2>3, <2>4
<1>4. seqs \in Seq(Seq(T)) /\ Len(seqs) = L /\ seqs # <<>>
  <2>1. DOMAIN seqs = 1 .. L /\ seqs = [i \in 1 .. L |-> seqs[i]]
    BY <1>1
  <2> HIDE DEF seqs, T
  <2>2. seqs \in Seq(Seq(T)) /\ Len(seqs) = L
    BY <1>1, <1>3, <2>1
  <2>3. Len(<<>>) = 0
    OBVIOUS
  <2> QED BY <1>1, <2>2, <2>3
<1>5. Tools!Encoded(text) = Tools!FlattenSeq(seqs)
  BY DEF Tools!Encoded
<1> HIDE DEF seqs, T
<1>6. PICK F : FlattenUpTo(F, T, seqs)
  BY <1>4, FlattenLoop
<1>7. /\ F \in [0 .. L -> Seq(T)] /\ F[0] = <<>> /\ Tools!Encoded(text) = F[L]
      /\ \A n \in 1 .. L : F[n] = F[n - 1] \o seqs[n]
  BY <1>4, <1>5, <1>6 DEF FlattenUpTo
<1> HIDE DEF L
<1> DEFINE Placed(n) == \A i \in 1 .. n, p \in 1 .. f[n] :
                          f[i - 1] < p /\ p <= f[i] => F[n][p] = <<i, text[i]>>
           K == {n \in 0 .. L : Len(F[n]) = f[n] /\ Placed(n)}
<1>8. 0 \in K
  <2>1. 0 \in 0 .. L /\ Len(<<>>) = 0
    BY <1>1
  <2>2. Len(F[0]) = f[0]
    BY <1>2, <1>7, <2>1
  <2>3. Placed(0)
    OBVIOUS
  <2> HIDE DEF Placed
  <2> QED BY <2>1, <2>2, <2>3
<1>9. ASSUME NEW n \in 1 .. L, n - 1 \in K PROVE n \in K
  <2>1. n \in 0 .. L /\ n - 1 \in 0 .. L
    BY <1>1
  <2>2. F[n - 1] \in Seq(T) /\ seqs[n] \in Seq(T) /\ F[n] = F[n - 1] \o seqs[n]
    BY <1>3, <1>7, <2>1
  <2>3. Len(F[n - 1]) = f[n - 1] /\ Placed(n - 1)
    <3> HIDE DEF Placed
    <3> QED BY <1>9
  <2>4. PICK before \in Nat, w \in Nat :
              before = f[n - 1] /\ w = Width[text[n]] /\ f[n] = before + w
    BY <1>2, <2>1
  <2>5. /\ Len(F[n]) = before + w
        /\ \A p \in 1 .. before : F[n][p] = F[n - 1][p]
        /\ \A b \in 1 .. w : F[n][before + b] = <<n, text[n]>>
    <3>1. /\ Len(F[n]) = Len(F[n - 1]) + Len(seqs[n])
          /\ \A p \in 1 .. Len(F[n - 1]) : F[n][p] = F[n - 1][p]
          /\ \A b \in 1 .. Len(seqs[n]) : F[n][Len(F[n - 1]) + b] = seqs[n][b]
      <4>1. PICK a : a = F[n - 1]
        OBVIOUS
      <4>2. PICK z : z = seqs[n]
        OBVIOUS
      <4>3. a \in Seq(T) /\ z \in Seq(T) /\ F[n] = a \o z
        BY <2>2, <4>1, <4>2
      <4>4. /\ Len(a \o z) = Len(a) + Len(z)
            /\ \A p \in 1 .. Len(a) : (a \o z)[p] = a[p]
            /\ \A b \in 1 .. Len(z) : (a \o z)[Len(a) + b] = z[b]
        BY <4>3, InARow
      <4> QED BY <4>1, <4>2, <4>3, <4>4, Zenon
    <3>2. Len(seqs[n]) = w /\ \A b \in 1 .. w : seqs[n][b] = <<n, text[n]>>
      BY <1>3, <2>4
    <3> QED BY <2>3, <2>4, <3>1, <3>2
  <2>6. ASSUME NEW i \in 1 .. n, NEW p \in 1 .. f[n], f[i - 1] < p, p <= f[i]
        PROVE  F[n][p] = <<i, text[i]>>
    <3>1. p \in 1 .. before + w
      BY <2>4
    <3>2. CASE i = n
      <4>1. PICK b : b = p - before
        OBVIOUS
      <4>2. before < p /\ p <= before + w /\ p \in Nat
        BY <2>4, <2>6, <3>1, <3>2
      <4>3. b \in 1 .. w /\ before + b = p
        BY <4>1, <4>2
      <4> QED BY <2>5, <3>2, <4>3
    <3>3. CASE i # n
      <4>1. i \in 1 .. n - 1 /\ i \in 0 .. L /\ i <= n - 1
        BY <1>1, <3>3
      <4>2. f[i] <= f[n - 1] /\ f[i] \in Nat
        BY <1>2, <2>1, <4>1
      <4>3. p \in 1 .. before
        BY <2>4, <2>6, <3>1, <4>2
      <4>4. F[n - 1][p] = <<i, text[i]>>
        BY <2>3, <2>4, <2>6, <4>1, <4>3
      <4> QED BY <2>5, <4>3, <4>4
    <3> QED BY <3>2, <3>3
  <2>7. Placed(n)
    BY <2>6
  <2> HIDE DEF Placed
  <2> QED BY <2>1, <2>4, <2>5, <2>7
<1>10. L \in K
  <2>1. 0 .. L \subseteq K
    <3> HIDE DEF K
    <3> QED BY <1>1, <1>8, <1>9, UpToInd
  <2> HIDE DEF K
  <2> QED BY <1>1, <2>1
<1>11. F[L] \in Seq(T)
  BY <1>1, <1>7
<1> QED BY <1>7, <1>10, <1>11 DEF L, T

\* Of the first k bytes, what is left of a character that is not complete is ignored.
LEMMA DecodedBeginning ==
  ASSUME NEW text \in Seq(DOMAIN Width), NEW f, Counts(f, text),
         NEW k \in Nat, NEW j \in 0 .. Len(text) - 1, f[j] <= k, k < f[j + 1]
  PROVE  Tools!Decoded(SubSeq(Tools!Encoded(text), 1, k)) = SubSeq(text, 1, j)
<1> DEFINE L == Len(text)
           T == Nat \X DOMAIN Width
           code == Tools!Encoded(text)
           e == SubSeq(code, 1, k)
           At(i) == <<i, text[i]>>
           Places(x) == {b \in DOMAIN e : e[b] = <<x[1], x[2]>>}
           Whole(x) == Cardinality(Places(x)) = Width[x[2]]
           whole == {x[1] : x \in {x \in Tools!Range(e) : Whole(x)}}
<1>1. /\ L \in Nat /\ f[0] = 0 /\ \A n \in 0 .. L : f[n] \in Nat
      /\ \A n \in 1 .. L : /\ f[n] = f[n - 1] + Width[text[n]] /\ Width[text[n]] \in Nat \ {0}
                           /\ f[n - 1] < f[n]
      /\ \A i, n \in 0 .. L : i <= n => f[i] <= f[n]
  BY CountsGrow
<1>2. j \in 0 .. L /\ j + 1 \in 1 .. L /\ j + 1 \in 0 .. L /\ L # 0 /\ L \in 0 .. L
  BY <1>1
<1>3. text # <<>>
  <2>1. Len(<<>>) = 0
    OBVIOUS
  <2> QED BY <1>2, <2>1
<1>4. k < f[L] /\ f[L] \in Nat
  BY <1>1, <1>2
<1>5. /\ code \in Seq(T) /\ Len(code) = f[L]
      /\ \A i \in 1 .. L, p \in 1 .. f[L] : f[i - 1] < p /\ p <= f[i] => code[p] = At(i)
  BY <1>3, EncodedBytes
<1> HIDE DEF code, T, L
<1>6. /\ e \in Seq(T) /\ DOMAIN e = 1 .. k /\ \A p \in 1 .. k : e[p] = code[p]
  <2>1. 1 \in Int /\ k \in Int
    OBVIOUS
  <2>2. \A i \in 1 .. k : code[i] \in T
    BY <1>4, <1>5
  <2>3. /\ SubSeq(code, 1, k) \in Seq(T)
        /\ Len(SubSeq(code, 1, k)) = IF 1 <= k THEN k - 1 + 1 ELSE 0
        /\ \A i \in 1 .. k - 1 + 1 : SubSeq(code, 1, k)[i] = code[1 + i - 1]
    BY <2>1, <2>2, SubSeqProperties
  <2>4. e \in Seq(T) /\ Len(e) = k
    BY <2>3
  <2>5. DOMAIN e = 1 .. k
    <3> HIDE DEF e
    <3> QED BY <2>4
  <2>6. ASSUME NEW p \in 1 .. k PROVE e[p] = code[p]
    <3>1. p \in 1 .. k - 1 + 1 /\ 1 + p - 1 = p
      OBVIOUS
    <3> QED BY <2>3, <3>1
  <2> QED BY <2>4, <2>5, <2>6
<1> HIDE DEF e
<1>7. \A i \in 1 .. L, p \in 1 .. k : f[i - 1] < p /\ p <= f[i] => e[p] = At(i)
  <2>1. \A p \in 1 .. k : p \in 1 .. f[L]
    BY <1>4
  <2> QED BY <1>5, <1>6, <2>1
<1>8. ASSUME NEW p \in 1 .. k
      PROVE  \E i \in 1 .. j + 1 : f[i - 1] < p /\ p <= f[i] /\ e[p] = At(i)
  <2>1. p - 1 \in Nat /\ p - 1 < f[Len(text)]
    BY <1>4 DEF L
  <2>2. PICK n \in 0 .. L - 1 : f[n] <= p - 1 /\ p - 1 < f[n + 1]
    BY <2>1, Fits DEF L
  <2>3. PICK i : i = n + 1
    OBVIOUS
  <2>4. i \in 1 .. L /\ i - 1 = n /\ n \in 0 .. L /\ i \in 0 .. L
    BY <1>1, <2>3
  <2>5. f[n] \in Nat /\ f[i] \in Nat /\ f[j + 1] \in Nat
    BY <1>1, <1>2, <2>4
  <2>6. f[i - 1] < p /\ p <= f[i]
    BY <2>2, <2>3, <2>4, <2>5
  <2>7. ~(j + 1 <= n)
    <3> SUFFICES ASSUME j + 1 <= n PROVE FALSE
      OBVIOUS
    <3>1. f[j + 1] <= f[n]
      BY <1>1, <1>2, <2>4
    <3> QED BY <2>2, <2>5, <3>1
  <2>8. i \in 1 .. j + 1
    BY <2>3, <2>4, <2>7
  <2>9. e[p] = At(i)
    BY <1>7, <2>4, <2>6
  <2> QED BY <2>6, <2>8, <2>9
<1>9. ASSUME NEW x \in Tools!Range(e) PROVE \E i \in 1 .. j + 1 : x = At(i)
  <2>1. PICK p \in 1 .. k : x = e[p]
    BY <1>6 DEF Tools!Range
  <2> QED BY <1>8, <2>1
<1>10. ASSUME NEW i \in 1 .. j PROVE At(i) \in Tools!Range(e)
  <2>1. i \in 1 .. L /\ i \in 0 .. L /\ i - 1 \in 0 .. L /\ i <= j
    BY <1>1, <1>2
  <2>2. f[i - 1] \in Nat /\ f[i] \in Nat /\ f[i - 1] < f[i] /\ f[i] <= f[j] /\ f[j] \in Nat
    BY <1>1, <1>2, <2>1
  <2>3. PICK p : p = f[i]
    OBVIOUS
  <2>4. p \in 1 .. k /\ f[i - 1] < p /\ p <= f[i]
    BY <2>2, <2>3
  <2>5. e[p] = At(i)
    BY <1>7, <2>1, <2>4
  <2> HIDE DEF At
  <2> QED BY <1>6, <2>4, <2>5 DEF Tools!Range
<1>11. ASSUME NEW i \in 1 .. j + 1
       PROVE  Places(At(i)) = (f[i - 1] + 1) .. (IF i = j + 1 THEN k ELSE f[i])
  <2>1. i \in 1 .. L /\ i \in 0 .. L /\ i - 1 \in 0 .. L
    BY <1>1, <1>2
  <2>2. f[i - 1] \in Nat /\ f[i] \in Nat
    BY <1>1, <2>1
  <2>3. PICK top : top = IF i = j + 1 THEN k ELSE f[i]
    OBVIOUS
  <2>4. top \in Nat /\ top <= k /\ top <= f[i]
    <3>1. CASE i = j + 1
      BY <2>2, <2>3, <3>1
    <3>2. CASE i # j + 1
      <4>1. i <= j /\ i \in 0 .. L
        BY <1>2, <2>1, <3>2
      <4>2. f[i] <= f[j] /\ f[j] \in Nat
        BY <1>1, <1>2, <4>1
      <4> QED BY <2>2, <2>3, <3>2, <4>2
    <3> QED BY <3>1, <3>2
  <2>5. \A p \in 1 .. k : p <= f[i] => p <= top
    BY <2>2, <2>3
  <2>6. ASSUME NEW p \in Places(At(i)) PROVE p \in f[i - 1] + 1 .. top
    <3>1. p \in 1 .. k /\ e[p] = <<i, text[i]>>
      BY <1>6
    <3>2. PICK n \in 1 .. j + 1 : f[n - 1] < p /\ p <= f[n] /\ e[p] = At(n)
      BY <1>8, <3>1
    <3>3. n = i
      BY <3>1, <3>2
    <3> QED BY <2>2, <2>4, <2>5, <3>1, <3>2, <3>3
  <2>7. ASSUME NEW p \in f[i - 1] + 1 .. top PROVE p \in Places(At(i))
    <3>1. p \in 1 .. k /\ f[i - 1] < p /\ p <= f[i]
      BY <2>2, <2>4
    <3>2. e[p] = At(i)
      BY <1>7, <2>1, <3>1
    <3> QED BY <1>6, <3>1, <3>2
  <2> HIDE DEF Places
  <2> QED BY <2>3, <2>6, <2>7
<1> HIDE DEF Places
<1>12. ASSUME NEW i \in 1 .. j + 1 PROVE Whole(At(i)) <=> i # j + 1
  <2>1. i \in 1 .. L /\ i \in 0 .. L /\ i - 1 \in 0 .. L
    BY <1>1, <1>2
  <2>2. PICK w \in Nat \ {0} : w = Width[text[i]] /\ f[i] = f[i - 1] + w
    BY <1>1, <2>1
  <2>3. PICK b \in Nat : b = f[i - 1]
    BY <1>1, <2>1
  <2>4. PICK t \in Nat : t = IF i = j + 1 THEN k ELSE f[i]
    BY <1>1, <2>1
  <2>5. Places(At(i)) = (b + 1) .. t
    BY <1>11, <2>3, <2>4
  <2>6. Cardinality((b + 1) .. t) = IF b + 1 > t THEN 0 ELSE t - (b + 1) + 1
    <3>1. b + 1 \in Int /\ t \in Int
      OBVIOUS
    <3> QED BY <3>1, FS_Interval
  <2>7. CASE i # j + 1
    BY <2>2, <2>3, <2>4, <2>5, <2>6, <2>7, SMTT(30)
  <2>8. CASE i = j + 1
    <3>1. i - 1 = j
      BY <2>8
    <3>2. b <= k /\ k < b + w /\ t = k
      BY <2>2, <2>3, <2>4, <2>8, <3>1
    <3>3. Cardinality((b + 1) .. t) < w
      BY <2>6, <3>2
    <3>4. Cardinality((b + 1) .. t) # w
      BY <2>6, <3>2, <3>3
    <3> QED BY <2>2, <2>5, <2>8, <3>4
  <2> QED BY <2>7, <2>8
<1>13. whole = 1 .. j
  <2>1. ASSUME NEW n \in whole PROVE n \in 1 .. j
    <3>1. PICK x \in Tools!Range(e) : Whole(x) /\ n = x[1]
      BY <2>1
    <3> HIDE DEF Whole
    <3>2. PICK i \in 1 .. j + 1 : x = At(i)
      BY <1>9
    <3>3. i # j + 1
      BY <1>12, <3>1, <3>2
    <3>4. n = i
      BY <3>1, <3>2
    <3> QED BY <3>3, <3>4
  <2>2. ASSUME NEW n \in 1 .. j PROVE n \in whole
    <3>1. At(n) \in Tools!Range(e) /\ At(n)[1] = n /\ n \in 1 .. j + 1 /\ n # j + 1
      BY <1>10
    <3>2. Whole(At(n))
      BY <1>12, <3>1
    <3> HIDE DEF Whole, At
    <3> QED BY <3>1, <3>2
  <2> HIDE DEF whole
  <2> QED BY <2>1, <2>2
<1>14. Cardinality(whole) = j
  <2>1. 1 \in Int /\ j \in Int
    OBVIOUS
  <2>2. Cardinality(1 .. j) = IF 1 > j THEN 0 ELSE j - 1 + 1
    BY <2>1, FS_Interval
  <2>3. (IF 1 > j THEN 0 ELSE j - 1 + 1) = j
    OBVIOUS
  <2> HIDE DEF whole
  <2> QED BY <1>13, <2>2, <2>3
<1>15. ASSUME NEW i \in 1 .. j PROVE (CHOOSE x \in Tools!Range(e) : x[1] = i)[2] = text[i]
  <2>1. At(i) \in Tools!Range(e) /\ At(i)[1] = i
    BY <1>10
  <2>2. ASSUME NEW x \in Tools!Range(e), x[1] = i PROVE x[2] = text[i]
    <3>1. PICK n \in 1 .. j + 1 : x = At(n)
      BY <1>9
    <3>2. n = i
      BY <2>2, <3>1
    <3> QED BY <3>1, <3>2
  <2>3. PICK y : y = CHOOSE x \in Tools!Range(e) : x[1] = i
    OBVIOUS
  <2>4. y \in Tools!Range(e) /\ y[1] = i
    <3> HIDE DEF At
    <3> QED BY <2>1, <2>3
  <2> QED BY <2>2, <2>3, <2>4
<1>16. Tools!Decoded(e) = [i \in 1 .. j |-> text[i]]
  <2>0. \A V : Tools!Cardinality(V) = Cardinality(V)
    BY DEF Tools!Cardinality, Cardinality
  <2>1. Tools!Decoded(e) =
          [i \in 1 .. Cardinality(whole) |-> (CHOOSE x \in Tools!Range(e) : x[1] = i)[2]]
    BY <2>0 DEF Tools!Decoded, Whole, whole, Places
  <2> HIDE DEF whole
  <2> QED BY <1>14, <1>15, <2>1
<1>17. SubSeq(text, 1, j) = [i \in 1 .. j |-> text[i]]
  <2>1. 1 \in Int /\ j \in Int /\ \A i \in 1 .. j : text[i] \in DOMAIN Width
    BY <1>1, <1>2 DEF L
  <2>2. PICK s : s = SubSeq(text, 1, j)
    OBVIOUS
  <2>3. /\ s \in Seq(DOMAIN Width) /\ Len(s) = IF 1 <= j THEN j - 1 + 1 ELSE 0
        /\ \A i \in 1 .. j - 1 + 1 : s[i] = text[1 + i - 1]
    BY <2>1, <2>2, SubSeqProperties
  <2>4. Len(s) = j
    BY <2>3
  <2>5. s = [i \in 1 .. Len(s) |-> s[i]]
    BY <2>3
  <2>6. ASSUME NEW i \in 1 .. j PROVE s[i] = text[i]
    <3>1. i \in 1 .. j - 1 + 1 /\ 1 + i - 1 = i
      OBVIOUS
    <3> QED BY <2>3, <3>1
  <2> QED BY <2>2, <2>4, <2>5, <2>6
<1> QED BY <1>16, <1>17 DEF e, code

\* A truncated output is shown as the longest beginning that the bound leaves room for,
\* and the marker.
LEMMA TruncatedIs ==
  ASSUME NEW c \in Contracts, Tools!Valid(c), NEW output \in Outputs,
         Tools!Truncated(c, output)
  PROVE  \E j \in 0 .. Len(output) - 1 :
           /\ Tools!Bounded(c, output) = SubSeq(output, 1, j) \o c.marker
           /\ SubSeq(output, 1, j) \in Seq(DOMAIN Width) /\ Len(SubSeq(output, 1, j)) = j
           /\ Tools!Bytes(SubSeq(output, 1, j) \o c.marker) <= c.output
           /\ Tools!Bytes(SubSeq(output, 1, j) \o c.marker) + Width[output[j + 1]] > c.output
<1>1. output \in Seq(DOMAIN Width) /\ c.marker \in Seq(DOMAIN Width) /\ c.output \in Int
  BY ToolsAssumption DEF Tools!ToolAssumption
<1>a. PICK m \in Nat : m = Tools!Bytes(c.marker)
  BY <1>1, BytesOfBoth
<1>b. PICK room \in Int : room = c.output - m
  BY <1>1
<1>2. m = Tools!Bytes(c.marker) /\ room = c.output - m
  BY <1>a, <1>b
<1>3. PICK f : Counts(f, output)
  BY <1>1, BytesLoop
<1>4. Tools!Bytes(output) > c.output /\ m < c.output /\ Tools!Bytes(output) = f[Len(output)]
  BY <1>2, <1>3 DEF Tools!Valid, Tools!Truncated, Counts
<1>5. f[Len(output)] \in Nat /\ Len(output) \in Nat
  BY <1>1, <1>3 DEF Counts
<1>6. room \in Nat /\ room < f[Len(output)]
  BY <1>1, <1>2, <1>4, <1>5
<1>7. PICK j \in 0 .. Len(output) - 1 : f[j] <= room /\ room < f[j + 1]
  BY <1>1, <1>3, <1>6, Fits
<1>8. PICK s : s = SubSeq(output, 1, j)
  OBVIOUS
<1>9. Tools!Bounded(c, output) = s \o c.marker
  <2>1. Tools!Decoded(SubSeq(Tools!Encoded(output), 1, room)) = s
    BY <1>1, <1>3, <1>6, <1>7, <1>8, DecodedBeginning
  <2> QED BY <1>2, <2>1 DEF Tools!Bounded
<1>10. s \in Seq(DOMAIN Width) /\ Len(s) = j /\ \A i \in 1 .. j : s[i] = output[i]
  <2>1. 1 \in Int /\ j \in Int /\ \A i \in 1 .. j : output[i] \in DOMAIN Width
    BY <1>1, <1>5
  <2>2. /\ s \in Seq(DOMAIN Width) /\ Len(s) = IF 1 <= j THEN j - 1 + 1 ELSE 0
        /\ \A i \in 1 .. j - 1 + 1 : s[i] = output[1 + i - 1]
    BY <1>8, <2>1, SubSeqProperties
  <2>3. ASSUME NEW i \in 1 .. j PROVE s[i] = output[i]
    <3>1. i \in 1 .. j - 1 + 1 /\ 1 + i - 1 = i
      OBVIOUS
    <3> QED BY <2>2, <3>1
  <2> QED BY <2>2, <2>3
<1>11. Tools!Bytes(s) = f[j]
  <2>1. PICK g : Counts(g, s)
    BY <1>10, BytesLoop
  <2>2. j \in Nat /\ j <= Len(s) /\ j <= Len(output) /\ j \in 0 .. j
    BY <1>5, <1>10
  <2>3. \A n \in 0 .. j : g[n] = f[n]
    <3>1. /\ s \in Seq(DOMAIN Width) /\ output \in Seq(DOMAIN Width)
          /\ Counts(g, s) /\ Counts(f, output)
          /\ j \in Nat /\ j <= Len(s) /\ j <= Len(output)
          /\ \A i \in 1 .. j : s[i] = output[i]
      BY <1>1, <1>3, <1>10, <2>1, <2>2
    <3> QED BY ONLY <3>1, SameCounts, ToolsAssumption
  <2> QED BY <1>10, <2>1, <2>2, <2>3 DEF Counts
<1>12. Tools!Bytes(s \o c.marker) = f[j] + m
  BY <1>1, <1>2, <1>10, <1>11, BytesOfBoth
<1>13. f[j] \in Nat /\ f[j + 1] = f[j] + Width[output[j + 1]] /\ Width[output[j + 1]] \in Nat
  <2>1. /\ \A n \in 0 .. Len(output) : f[n] \in Nat
        /\ \A n \in 1 .. Len(output) :
             f[n] = f[n - 1] + Width[output[n]] /\ Width[output[n]] \in Nat
    BY <1>1, <1>3, CountsGrow
  <2>2. j \in 0 .. Len(output)
    BY <1>5
  <2>3. PICK n : n = j + 1
    OBVIOUS
  <2>4. n \in 1 .. Len(output) /\ n - 1 = j
    BY <1>5, <2>3
  <2> QED BY <2>1, <2>2, <2>3, <2>4
<1>14. Tools!Bytes(s \o c.marker) <= c.output
  BY <1>1, <1>2, <1>7, <1>12, <1>13
<1>15. Tools!Bytes(s \o c.marker) + Width[output[j + 1]] > c.output
  BY <1>1, <1>2, <1>7, <1>12, <1>13, SMTT(30)
<1> QED BY <1>8, <1>9, <1>10, <1>14, <1>15

\* Sequences that begin alike have the same beginnings.
LEMMA AlikeBeginnings ==
  ASSUME NEW T, NEW a \in Seq(T), NEW b \in Seq(T), NEW n \in Nat,
         n <= Len(a), n <= Len(b), \A i \in 1 .. n : a[i] = b[i]
  PROVE  SubSeq(a, 1, n) = SubSeq(b, 1, n)
<1>1. PICK s, t : s = SubSeq(a, 1, n) /\ t = SubSeq(b, 1, n)
  OBVIOUS
<1>2. /\ 1 \in Int /\ n \in Int /\ \A i \in 1 .. n : a[i] \in T
      /\ \A i \in 1 .. n : b[i] \in T
  OBVIOUS
<1>3. /\ s \in Seq(T) /\ Len(s) = IF 1 <= n THEN n - 1 + 1 ELSE 0
      /\ \A i \in 1 .. n - 1 + 1 : s[i] = a[1 + i - 1]
  BY <1>1, <1>2, SubSeqProperties
<1>4. /\ t \in Seq(T) /\ Len(t) = IF 1 <= n THEN n - 1 + 1 ELSE 0
      /\ \A i \in 1 .. n - 1 + 1 : t[i] = b[1 + i - 1]
  BY <1>1, <1>2, SubSeqProperties
<1>5. Len(s) = n /\ Len(t) = n
  BY <1>3, <1>4
<1>6. ASSUME NEW i \in 1 .. n PROVE s[i] = t[i]
  <2>1. i \in 1 .. n - 1 + 1 /\ 1 + i - 1 = i
    OBVIOUS
  <2> QED BY <1>3, <1>4, <2>1
<1>7. s = [i \in 1 .. n |-> s[i]] /\ t = [i \in 1 .. n |-> t[i]]
  BY <1>3, <1>4, <1>5
<1> QED BY <1>1, <1>6, <1>7

\* What two texts in a row begin with, and what they end with.
LEMMA EndsWith ==
  ASSUME NEW T, NEW a \in Seq(T), NEW b \in Seq(T)
  PROVE  /\ Tools!IsSuffix(b, a \o b)
         /\ SubSeq(a \o b, 1, Len(a \o b) - Len(b)) = a
<1> DEFINE both == a \o b
<1>1. /\ both \in Seq(T) /\ Len(both) = Len(a) + Len(b)
      /\ \A i \in 1 .. Len(a) : both[i] = a[i]
      /\ \A i \in 1 .. Len(b) : both[Len(a) + i] = b[i]
  BY InARow
<1> HIDE DEF both
<1>2. PICK m, n \in Nat : m = Len(a) /\ n = Len(b)
  OBVIOUS
<1> DEFINE r == Tools!Reverse(b)
           s == Tools!Reverse(both)
<1>3. /\ r \in Seq(T) /\ Len(r) = n /\ \A i \in 1 .. n : r[i] = b[n - i + 1]
  <2>1. r = [i \in 1 .. n |-> b[n - i + 1]]
    BY <1>2 DEF Tools!Reverse
  <2>2. ASSUME NEW i \in 1 .. n PROVE b[n - i + 1] \in T
    <3>1. n - i + 1 \in 1 .. Len(b)
      BY <1>2
    <3> QED BY <3>1
  <2> HIDE DEF r
  <2> QED BY <1>2, <2>1, <2>2
<1>4. /\ s \in Seq(T) /\ Len(s) = m + n
      /\ \A i \in 1 .. m + n : s[i] = both[m + n - i + 1]
  <2>1. s = [i \in 1 .. m + n |-> both[m + n - i + 1]]
    BY <1>1, <1>2 DEF Tools!Reverse
  <2>2. ASSUME NEW i \in 1 .. m + n PROVE both[m + n - i + 1] \in T
    <3>1. m + n - i + 1 \in 1 .. Len(both)
      BY <1>1, <1>2
    <3> QED BY <1>1, <3>1
  <2> HIDE DEF s
  <2> QED BY <1>2, <2>1, <2>2
<1> HIDE DEF r, s
<1>5. SubSeq(r, 1, n) = SubSeq(s, 1, n)
  <2>1. ASSUME NEW i \in 1 .. n PROVE r[i] = s[i]
    <3>1. PICK k : k = n - i + 1
      OBVIOUS
    <3>2. k \in 1 .. n /\ m + n - i + 1 = m + k /\ i \in 1 .. m + n
      BY <3>1
    <3>3. both[m + k] = b[k]
      BY <1>1, <1>2, <3>2
    <3> QED BY <1>3, <1>4, <3>1, <3>2, <3>3
  <2> QED BY <1>2, <1>3, <1>4, <2>1, AlikeBeginnings
<1>6. Tools!IsSuffix(b, both)
  <2>1. n <= m + n
    BY <1>2
  <2> QED BY <1>3, <1>4, <1>5, <2>1 DEF Tools!IsSuffix, Tools!IsPrefix, r, s
<1>7. SubSeq(both, 1, Len(both) - Len(b)) = a
  <2>1. Len(both) - Len(b) = m
    BY <1>1, <1>2
  <2>2. SubSeq(both, 1, m) = SubSeq(a, 1, m)
    BY <1>1, <1>2, AlikeBeginnings
  <2>3. SubSeq(a, 1, m) = a
    BY <1>2, SubSeqFull
  <2> QED BY <2>1, <2>2, <2>3
<1> QED BY <1>6, <1>7 DEF both

----------------------------------------------------------------------------
(* The calls *)

Reading(c, args) ==
    Tools!Completed(args,
      [start_line |-> Tools!Integer(1), max_lines |-> Tools!Integer(c.default)])
Editing(args) == Tools!Completed(args, Tools!Alone("expected_replacements", Tools!Integer(1)))

MayRead(c, args) ==
    /\ Tools!Has(args, {"path"}, {"start_line", "max_lines"})
    /\ Reading(c, args)["start_line"].kind = "integer"
    /\ Reading(c, args)["start_line"].n >= 1
    /\ Tools!IsIn(Reading(c, args)["max_lines"], 1, c.most)
    /\ Tools!IsPath(args["path"])

MayWrite(c, args) ==
    /\ Tools!Has(args, {"path", "content"}, {})
    /\ Tools!IsText(args["content"]) /\ Tools!Bytes(args["content"].text) <= c.write
    /\ Tools!IsPath(args["path"])

MayEdit(args) ==
    /\ Tools!Has(args, {"path", "old_text", "new_text"}, {"expected_replacements"})
    /\ Tools!IsText(args["old_text"]) /\ args["old_text"].text # <<>>
    /\ Tools!IsIn(Editing(args)["expected_replacements"], 1, 100)
    /\ Tools!IsPath(args["path"]) /\ Tools!IsText(args["new_text"])

MayGlob(args) == Tools!Has(args, {"pattern"}, {}) /\ Tools!IsPath(args["pattern"])

MayRun(args) ==
    /\ Tools!Has(args, {"command"}, {}) /\ Tools!IsText(args["command"])
    /\ \E ch \in Tools!Range(args["command"].text) : ch \notin Blank
    /\ Tools!Range(args["command"].text) \cap Unclean = {}

\* The branches of Parse, tool by tool.
LEMMA Branches ==
  ASSUME NEW c, NEW offer
  PROVE  /\ offer.tool \notin Tools!Tools(c) => Tools!Parse(c, offer) = None
         /\ offer.tool = "read" /\ offer.tool \in Tools!Tools(c) => Tools!Parse(c, offer) =
              IF MayRead(c, offer.args)
              THEN [tool |-> offer.tool, args |-> Reading(c, offer.args)] ELSE None
         /\ offer.tool = "write" /\ offer.tool \in Tools!Tools(c) => Tools!Parse(c, offer) =
              IF MayWrite(c, offer.args)
              THEN [tool |-> offer.tool, args |-> offer.args] ELSE None
         /\ offer.tool = "edit" /\ offer.tool \in Tools!Tools(c) => Tools!Parse(c, offer) =
              IF MayEdit(offer.args)
              THEN [tool |-> offer.tool, args |-> Editing(offer.args)] ELSE None
         /\ offer.tool = "glob" /\ offer.tool \in Tools!Tools(c) => Tools!Parse(c, offer) =
              IF MayGlob(offer.args) THEN [tool |-> offer.tool, args |-> offer.args] ELSE None
         /\ offer.tool = "bash" /\ offer.tool \in Tools!Tools(c) => Tools!Parse(c, offer) =
              IF MayRun(offer.args) THEN [tool |-> offer.tool, args |-> offer.args] ELSE None
<1>1. offer.tool \notin Tools!Tools(c) => Tools!Parse(c, offer) = None
  BY DEF Tools!Parse
<1>2. ASSUME offer.tool = "read", offer.tool \in Tools!Tools(c)
      PROVE  Tools!Parse(c, offer) =
               IF MayRead(c, offer.args)
               THEN [tool |-> offer.tool, args |-> Reading(c, offer.args)] ELSE None
  BY <1>2 DEF Tools!Parse, MayRead, Reading
<1>3. ASSUME offer.tool = "write", offer.tool \in Tools!Tools(c)
      PROVE  Tools!Parse(c, offer) =
               IF MayWrite(c, offer.args)
               THEN [tool |-> offer.tool, args |-> offer.args] ELSE None
  BY <1>3 DEF Tools!Parse, MayWrite
<1>4. ASSUME offer.tool = "edit", offer.tool \in Tools!Tools(c)
      PROVE  Tools!Parse(c, offer) =
               IF MayEdit(offer.args)
               THEN [tool |-> offer.tool, args |-> Editing(offer.args)] ELSE None
  BY <1>4 DEF Tools!Parse, MayEdit, Editing
<1>5. ASSUME offer.tool = "glob", offer.tool \in Tools!Tools(c)
      PROVE  Tools!Parse(c, offer) =
               IF MayGlob(offer.args) THEN [tool |-> offer.tool, args |-> offer.args]
               ELSE None
  BY <1>5 DEF Tools!Parse, MayGlob
<1>6. ASSUME offer.tool = "bash", offer.tool \in Tools!Tools(c)
      PROVE  Tools!Parse(c, offer) =
               IF MayRun(offer.args) THEN [tool |-> offer.tool, args |-> offer.args] ELSE None
  BY <1>6 DEF Tools!Parse, MayRun
<1> QED BY <1>1, <1>2, <1>3, <1>4, <1>5, <1>6

\* The arguments are what the policy was told that it may send, and name places in the
\* workspace.
IsFit(args, schema) ==
    /\ Tools!Conforms(args, schema)
    /\ \A k \in DOMAIN args : args[k].kind = "path" =>
         LET names == args[k].names
         IN  Tools!Leads(names) = names /\ names # <<>>
           /\ Head(names) \notin Graded \cup {".."}

IsWellFormed(args) == \A k \in DOMAIN args :
    /\ args[k].kind = "string" => args[k].text \in Seq(DOMAIN Width)
    /\ args[k].kind = "path" => args[k].names \in Seq(Tools!Range(args[k].names))

\* A value where a path is expected.
LEMMA PathFits ==
  ASSUME NEW args, IsWellFormed(args), NEW k \in DOMAIN args, Tools!IsPath(args[k])
  PROVE  /\ args[k].kind = "path" /\ Tools!Leads(args[k].names) = args[k].names
         /\ args[k].names # <<>> /\ Head(args[k].names) \notin Graded \cup {".."}
<1>1. PICK names : names = args[k].names
  OBVIOUS
<1>2. args[k].kind = "path" /\ names \in Seq(Tools!Range(names)) /\ Tools!IsInside(names)
  BY <1>1 DEF Tools!IsPath, IsWellFormed
<1>3. Tools!Leads(names) = names /\ names # <<>> /\ Head(names) \notin Graded \cup {".."}
  BY <1>2, InsideLeads
<1> QED BY <1>1, <1>2, <1>3

\* A value where a text is expected.
LEMMA TextFits ==
  ASSUME NEW args, IsWellFormed(args), NEW k \in DOMAIN args, Tools!IsText(args[k])
  PROVE  /\ args[k].kind = "string" /\ Len(args[k].text) >= 0
         /\ args[k].text # <<>> => Len(args[k].text) >= 1
<1>1. PICK text : text = args[k].text
  OBVIOUS
<1>2. args[k].kind = "string" /\ text \in Seq(DOMAIN Width)
  BY <1>1 DEF Tools!IsText, IsWellFormed
<1>3. Len(text) \in Nat /\ (text # <<>> => Len(text) # 0)
  BY <1>2
<1> QED BY <1>1, <1>2, <1>3

\* read
LEMMA ReadFits ==
  ASSUME NEW c, NEW args, IsWellFormed(args), MayRead(c, args)
  PROVE  /\ IsFit(args, Tools!Definition(c, "read"))
         /\ IsFit(Reading(c, args), Tools!Definition(c, "read"))
         /\ MayRead(c, Reading(c, args)) /\ Reading(c, Reading(c, args)) = Reading(c, args)
<1> DEFINE D == Tools!Definition(c, "read")
           all == Reading(c, args)
           keys == {"path", "start_line", "max_lines"}
<1>1. /\ D.required = {"path"} /\ DOMAIN D.properties = keys
      /\ D.properties["path"] = Tools!Property("string", 0, None)
      /\ D.properties["start_line"] = Tools!Property("integer", 1, None)
      /\ D.properties["max_lines"] = Tools!Property("integer", 1, c.most)
  BY DEF Tools!Definition
<1>2. "path" \in DOMAIN args /\ DOMAIN args \subseteq keys /\ Tools!IsPath(args["path"])
  BY DEF MayRead, Tools!Has
<1>3. DOMAIN [start_line |-> Tools!Integer(1), max_lines |-> Tools!Integer(c.default)]
        = {"start_line", "max_lines"}
  OBVIOUS
<1>4. /\ DOMAIN all = keys /\ \A k \in DOMAIN args : all[k] = args[k]
      /\ all = [k \in keys |-> all[k]]
  BY <1>2, <1>3 DEF Reading, Tools!Completed
<1>5. Reading(c, all) = all
  <2>1. Reading(c, all) = [k \in keys |-> all[k]]
    <3> HIDE DEF all
    <3> QED BY <1>3, <1>4 DEF Reading, Tools!Completed
  <2> HIDE DEF all
  <2> QED BY <1>4, <2>1
<1> HIDE DEF D, all
<1>6. all["path"] = args["path"]
  BY <1>2, <1>4
<1>7. /\ all["start_line"].kind = "integer" /\ all["start_line"].n >= 1
      /\ all["max_lines"].kind = "integer" /\ 1 <= all["max_lines"].n
      /\ all["max_lines"].n <= c.most
  BY DEF MayRead, Tools!IsIn, all
<1>8. MayRead(c, all)
  <2>1. Tools!Has(all, {"path"}, {"start_line", "max_lines"})
    BY <1>4 DEF Tools!Has
  <2> QED BY <1>2, <1>5, <1>6, <1>7, <2>1 DEF MayRead, Tools!IsIn
<1>9. /\ args["path"].kind = "path" /\ Tools!Leads(args["path"].names) = args["path"].names
      /\ args["path"].names # <<>> /\ Head(args["path"].names) \notin Graded \cup {".."}
  BY <1>2, PathFits
<1>10. ASSUME NEW b, "path" \in DOMAIN b, DOMAIN b \subseteq keys,
              \A k \in DOMAIN b : b[k] = all[k]
       PROVE  IsFit(b, D)
  <2>1. Tools!Has(b, D.required, DOMAIN D.properties)
    BY <1>1, <1>10 DEF Tools!Has
  <2>2. ASSUME NEW k \in DOMAIN b
        PROVE  LET p == D.properties[k] IN
               IF p.type = "integer"
               THEN /\ b[k].kind = "integer" /\ p.least <= b[k].n
                    /\ p.most # None => b[k].n <= p.most
               ELSE /\ b[k].kind \in {"string", "path"}
                    /\ b[k].kind = "string" => Len(b[k].text) >= p.least
    <3>1. CASE k = "path"
      <4>1. D.properties[k].type = "string" /\ b[k].kind = "path"
        BY <1>1, <1>6, <1>9, <1>10, <3>1 DEF Tools!Property
      <4> QED BY <4>1
    <3>2. CASE k = "start_line"
      <4>1. /\ D.properties[k].type = "integer" /\ D.properties[k].least = 1
            /\ D.properties[k].most = None /\ b[k] = all["start_line"]
        BY <1>1, <1>10, <3>2 DEF Tools!Property
      <4> QED BY <1>7, <4>1
    <3>3. CASE k = "max_lines"
      <4>1. /\ D.properties[k].type = "integer" /\ D.properties[k].least = 1
            /\ D.properties[k].most = c.most /\ b[k] = all["max_lines"]
        BY <1>1, <1>10, <3>3 DEF Tools!Property
      <4> QED BY <1>7, <4>1
    <3> QED BY <1>10, <3>1, <3>2, <3>3
  <2>3. ASSUME NEW k \in DOMAIN b, b[k].kind = "path" PROVE b[k] = args["path"]
    BY <1>6, <1>7, <1>10, <2>3
  <2> QED BY <1>9, <2>1, <2>2, <2>3 DEF IsFit, Tools!Conforms
<1>11. IsFit(args, D)
  <2>1. \A k \in DOMAIN args : args[k] = all[k]
    BY <1>4
  <2> QED BY <1>2, <1>10, <2>1
<1>12. IsFit(all, D)
  <2>1. "path" \in DOMAIN all /\ DOMAIN all \subseteq keys
    BY <1>4
  <2> QED BY <1>10, <2>1
<1> QED BY <1>5, <1>8, <1>11, <1>12 DEF D, all

\* edit
LEMMA EditFits ==
  ASSUME NEW c, NEW args, IsWellFormed(args), MayEdit(args)
  PROVE  /\ IsFit(args, Tools!Definition(c, "edit"))
         /\ IsFit(Editing(args), Tools!Definition(c, "edit"))
         /\ MayEdit(Editing(args)) /\ Editing(Editing(args)) = Editing(args)
<1> DEFINE D == Tools!Definition(c, "edit")
           all == Editing(args)
           three == {"path", "old_text", "new_text"}
           keys == {"path", "old_text", "new_text", "expected_replacements"}
<1>1. /\ D.required = three /\ DOMAIN D.properties = keys
      /\ D.properties["path"] = Tools!Property("string", 0, None)
      /\ D.properties["old_text"] = Tools!Property("string", 1, None)
      /\ D.properties["new_text"] = Tools!Property("string", 0, None)
      /\ D.properties["expected_replacements"] = Tools!Property("integer", 1, 100)
  BY DEF Tools!Definition
<1>2. /\ three \subseteq DOMAIN args /\ DOMAIN args \subseteq keys
      /\ Tools!IsPath(args["path"])
      /\ Tools!IsText(args["old_text"]) /\ args["old_text"].text # <<>>
      /\ Tools!IsText(args["new_text"])
  BY DEF MayEdit, Tools!Has
<1>3. DOMAIN Tools!Alone("expected_replacements", Tools!Integer(1)) =
        {"expected_replacements"}
  BY DEF Tools!Alone
<1>4. /\ DOMAIN all = keys /\ \A k \in DOMAIN args : all[k] = args[k]
      /\ all = [k \in keys |-> all[k]]
  BY <1>2, <1>3 DEF Editing, Tools!Completed
<1>5. Editing(all) = all
  <2>1. Editing(all) = [k \in keys |-> all[k]]
    <3> HIDE DEF all
    <3> QED BY <1>3, <1>4 DEF Editing, Tools!Completed
  <2> HIDE DEF all
  <2> QED BY <1>4, <2>1
<1> HIDE DEF D, all
<1>6. /\ all["path"] = args["path"] /\ all["old_text"] = args["old_text"]
      /\ all["new_text"] = args["new_text"]
  BY <1>2, <1>4
<1>7. /\ all["expected_replacements"].kind = "integer"
      /\ 1 <= all["expected_replacements"].n /\ all["expected_replacements"].n <= 100
  BY DEF MayEdit, Tools!IsIn, all
<1>8. MayEdit(all)
  <2>1. Tools!Has(all, three, {"expected_replacements"})
    BY <1>4 DEF Tools!Has
  <2> QED BY <1>2, <1>5, <1>6, <1>7, <2>1 DEF MayEdit, Tools!IsIn
<1>9. /\ args["path"].kind = "path" /\ Tools!Leads(args["path"].names) = args["path"].names
      /\ args["path"].names # <<>> /\ Head(args["path"].names) \notin Graded \cup {".."}
  BY <1>2, PathFits
<1>10. /\ args["old_text"].kind = "string" /\ Len(args["old_text"].text) >= 1
       /\ args["new_text"].kind = "string" /\ Len(args["new_text"].text) >= 0
  <2>1. "old_text" \in DOMAIN args /\ "new_text" \in DOMAIN args
    BY <1>2
  <2> QED BY <1>2, <2>1, TextFits
<1>11. ASSUME NEW b, three \subseteq DOMAIN b, DOMAIN b \subseteq keys,
              \A k \in DOMAIN b : b[k] = all[k]
       PROVE  IsFit(b, D)
  <2>1. Tools!Has(b, D.required, DOMAIN D.properties)
    BY <1>1, <1>11 DEF Tools!Has
  <2>2. ASSUME NEW k \in DOMAIN b
        PROVE  LET p == D.properties[k] IN
               IF p.type = "integer"
               THEN /\ b[k].kind = "integer" /\ p.least <= b[k].n
                    /\ p.most # None => b[k].n <= p.most
               ELSE /\ b[k].kind \in {"string", "path"}
                    /\ b[k].kind = "string" => Len(b[k].text) >= p.least
    <3>1. CASE k = "path"
      <4>1. D.properties[k].type = "string" /\ b[k].kind = "path"
        BY <1>1, <1>6, <1>9, <1>11, <3>1 DEF Tools!Property
      <4> QED BY <4>1
    <3>2. CASE k = "old_text"
      <4>1. /\ D.properties[k].type = "string" /\ D.properties[k].least = 1
            /\ b[k] = args["old_text"]
        BY <1>1, <1>6, <1>11, <3>2 DEF Tools!Property
      <4> QED BY <1>10, <4>1
    <3>3. CASE k = "new_text"
      <4>1. /\ D.properties[k].type = "string" /\ D.properties[k].least = 0
            /\ b[k] = args["new_text"]
        BY <1>1, <1>6, <1>11, <3>3 DEF Tools!Property
      <4> QED BY <1>10, <4>1
    <3>4. CASE k = "expected_replacements"
      <4>1. /\ D.properties[k].type = "integer" /\ D.properties[k].least = 1
            /\ D.properties[k].most = 100 /\ b[k] = all["expected_replacements"]
        BY <1>1, <1>11, <3>4 DEF Tools!Property
      <4> QED BY <1>7, <4>1
    <3> QED BY <1>11, <3>1, <3>2, <3>3, <3>4
  <2>3. ASSUME NEW k \in DOMAIN b, b[k].kind = "path" PROVE b[k] = args["path"]
    BY <1>6, <1>7, <1>10, <1>11, <2>3
  <2> QED BY <1>9, <2>1, <2>2, <2>3 DEF IsFit, Tools!Conforms
<1>12. IsFit(args, D)
  <2>1. \A k \in DOMAIN args : args[k] = all[k]
    BY <1>4
  <2> QED BY <1>2, <1>11, <2>1
<1>13. IsFit(all, D)
  <2>1. three \subseteq DOMAIN all /\ DOMAIN all \subseteq keys
    BY <1>4
  <2> QED BY <1>11, <2>1
<1> QED BY <1>5, <1>8, <1>12, <1>13 DEF D, all

\* write
LEMMA WriteFits ==
  ASSUME NEW c, NEW args, IsWellFormed(args), MayWrite(c, args)
  PROVE  IsFit(args, Tools!Definition(c, "write"))
<1> DEFINE D == Tools!Definition(c, "write")
<1>1. /\ D.required = {"path", "content"} /\ DOMAIN D.properties = {"path", "content"}
      /\ D.properties["path"] = Tools!Property("string", 0, None)
      /\ D.properties["content"] = Tools!Property("string", 0, None)
  BY DEF Tools!Definition
<1>2. DOMAIN args = {"path", "content"} /\ Tools!IsPath(args["path"])
        /\ Tools!IsText(args["content"])
  BY DEF MayWrite, Tools!Has
<1>3. /\ args["path"].kind = "path" /\ Tools!Leads(args["path"].names) = args["path"].names
      /\ args["path"].names # <<>> /\ Head(args["path"].names) \notin Graded \cup {".."}
  BY <1>2, PathFits
<1>4. args["content"].kind = "string" /\ Len(args["content"].text) >= 0
  BY <1>2, TextFits
<1> HIDE DEF D
<1>5. \A k \in DOMAIN args : D.properties[k].type = "string" /\ D.properties[k].least = 0
  BY <1>1, <1>2 DEF Tools!Property
<1>6. Tools!Has(args, D.required, DOMAIN D.properties)
  BY <1>1, <1>2 DEF Tools!Has
<1>7. Tools!Conforms(args, D)
  BY <1>2, <1>3, <1>4, <1>5, <1>6 DEF Tools!Conforms
<1>8. ASSUME NEW k \in DOMAIN args, args[k].kind = "path" PROVE args[k] = args["path"]
  BY <1>2, <1>4, <1>8
<1> QED BY <1>3, <1>7, <1>8 DEF IsFit, D

\* glob
LEMMA GlobFits ==
  ASSUME NEW c, NEW args, IsWellFormed(args), MayGlob(args)
  PROVE  IsFit(args, Tools!Definition(c, "glob"))
<1> DEFINE D == Tools!Definition(c, "glob")
<1>1. /\ D.required = {"pattern"} /\ DOMAIN D.properties = {"pattern"}
      /\ D.properties["pattern"] = Tools!Property("string", 0, None)
  BY DEF Tools!Definition
<1>2. DOMAIN args = {"pattern"} /\ Tools!IsPath(args["pattern"])
  BY DEF MayGlob, Tools!Has
<1>3. /\ args["pattern"].kind = "path"
      /\ Tools!Leads(args["pattern"].names) = args["pattern"].names
      /\ args["pattern"].names # <<>> /\ Head(args["pattern"].names) \notin Graded \cup {".."}
  BY <1>2, PathFits
<1> HIDE DEF D
<1>4. D.properties["pattern"].type = "string"
  BY <1>1 DEF Tools!Property
<1>5. Tools!Has(args, D.required, DOMAIN D.properties)
  BY <1>1, <1>2 DEF Tools!Has
<1>6. Tools!Conforms(args, D)
  BY <1>2, <1>3, <1>4, <1>5 DEF Tools!Conforms
<1> QED BY <1>2, <1>3, <1>6 DEF IsFit, D

\* bash
LEMMA RunFits ==
  ASSUME NEW c, NEW args, IsWellFormed(args), MayRun(args)
  PROVE  IsFit(args, Tools!Definition(c, "bash"))
<1> DEFINE D == Tools!Definition(c, "bash")
<1>1. /\ D.required = {"command"} /\ DOMAIN D.properties = {"command"}
      /\ D.properties["command"] = Tools!Property("string", 1, None)
  BY DEF Tools!Definition
<1>2. /\ DOMAIN args = {"command"} /\ Tools!IsText(args["command"])
      /\ \E ch \in Tools!Range(args["command"].text) : ch \notin Blank
  BY DEF MayRun, Tools!Has
<1>3. args["command"].text # <<>>
  BY <1>2 DEF Tools!Range
<1>4. args["command"].kind = "string" /\ Len(args["command"].text) >= 1
  BY <1>2, <1>3, TextFits
<1> HIDE DEF D
<1>5. D.properties["command"].type = "string" /\ D.properties["command"].least = 1
  BY <1>1 DEF Tools!Property
<1>6. Tools!Has(args, D.required, DOMAIN D.properties)
  BY <1>1, <1>2 DEF Tools!Has
<1>7. Tools!Conforms(args, D)
  BY <1>2, <1>4, <1>5, <1>6 DEF Tools!Conforms
<1>8. \A k \in DOMAIN args : args[k].kind # "path"
  BY <1>2, <1>4
<1> QED BY <1>7, <1>8 DEF IsFit, D

\* What is accepted fits the schema, defaults included, and is parsed again as it is.
LEMMA ParsedSurvives ==
  ASSUME NEW c, NEW offer \in Offers, NEW parsed,
         parsed = Tools!Parse(c, offer), parsed # None
  PROVE  /\ parsed.tool \in Tools!Tools(c)
         /\ Tools!Conforms(offer.args, Tools!Definition(c, offer.tool))
         /\ IsFit(parsed.args, Tools!Definition(c, parsed.tool))
         /\ Tools!Parse(c, parsed) = parsed
<1>1. IsWellFormed(offer.args)
  BY ToolsAssumption DEF Tools!ToolAssumption, IsWellFormed
<1>2. offer.tool \in Tools!Tools(c)
  BY Branches
<1>3. offer.tool \in {"read", "write", "edit", "glob", "bash"}
  BY <1>2 DEF Tools!Tools
<1>4. ASSUME NEW args, parsed = [tool |-> offer.tool, args |-> args],
             IsFit(offer.args, Tools!Definition(c, offer.tool)),
             IsFit(args, Tools!Definition(c, offer.tool)), Tools!Parse(c, parsed) = parsed
      PROVE  /\ parsed.tool \in Tools!Tools(c)
             /\ Tools!Conforms(offer.args, Tools!Definition(c, offer.tool))
             /\ IsFit(parsed.args, Tools!Definition(c, parsed.tool))
             /\ Tools!Parse(c, parsed) = parsed
  <2>1. parsed.tool = offer.tool /\ parsed.args = args
    BY <1>4
  <2>2. Tools!Conforms(offer.args, Tools!Definition(c, offer.tool))
    BY <1>4 DEF IsFit
  <2> QED BY <1>2, <1>4, <2>1, <2>2
<1>5. CASE offer.tool = "read"
  <2>1. MayRead(c, offer.args)
        /\ parsed = [tool |-> offer.tool, args |-> Reading(c, offer.args)]
    BY <1>2, <1>5, Branches
  <2>2. PICK args : args = Reading(c, offer.args)
    OBVIOUS
  <2>3. /\ IsFit(offer.args, Tools!Definition(c, offer.tool))
        /\ IsFit(args, Tools!Definition(c, offer.tool))
        /\ MayRead(c, args) /\ Reading(c, args) = args
    BY <1>1, <1>5, <2>1, <2>2, ReadFits
  <2>4. parsed = [tool |-> offer.tool, args |-> args] /\ parsed.tool = "read"
        /\ parsed.args = args
    BY <1>5, <2>1, <2>2
  <2>5. Tools!Parse(c, parsed) = parsed
    BY <1>2, <1>5, <2>3, <2>4, Branches
  <2> QED BY <1>4, <2>3, <2>4, <2>5
<1>6. CASE offer.tool = "edit"
  <2>1. MayEdit(offer.args) /\ parsed = [tool |-> offer.tool, args |-> Editing(offer.args)]
    BY <1>2, <1>6, Branches
  <2>2. PICK args : args = Editing(offer.args)
    OBVIOUS
  <2>3. /\ IsFit(offer.args, Tools!Definition(c, offer.tool))
        /\ IsFit(args, Tools!Definition(c, offer.tool))
        /\ MayEdit(args) /\ Editing(args) = args
    BY <1>1, <1>6, <2>1, <2>2, EditFits
  <2>4. parsed = [tool |-> offer.tool, args |-> args] /\ parsed.tool = "edit"
        /\ parsed.args = args
    BY <1>6, <2>1, <2>2
  <2>5. Tools!Parse(c, parsed) = parsed
    BY <1>2, <1>6, <2>3, <2>4, Branches
  <2> QED BY <1>4, <2>3, <2>4, <2>5
<1>7. CASE offer.tool = "write"
  <2>1. MayWrite(c, offer.args) /\ parsed = [tool |-> offer.tool, args |-> offer.args]
    BY <1>2, <1>7, Branches
  <2>2. IsFit(offer.args, Tools!Definition(c, offer.tool))
    BY <1>1, <1>7, <2>1, WriteFits
  <2>3. parsed.tool = "write" /\ parsed.args = offer.args
    BY <1>7, <2>1
  <2>4. Tools!Parse(c, parsed) = parsed
    BY <1>2, <1>7, <2>1, <2>3, Branches
  <2> QED BY <1>4, <2>1, <2>2, <2>4
<1>8. CASE offer.tool = "glob"
  <2>1. MayGlob(offer.args) /\ parsed = [tool |-> offer.tool, args |-> offer.args]
    BY <1>2, <1>8, Branches
  <2>2. IsFit(offer.args, Tools!Definition(c, offer.tool))
    BY <1>1, <1>8, <2>1, GlobFits
  <2>3. parsed.tool = "glob" /\ parsed.args = offer.args
    BY <1>8, <2>1
  <2>4. Tools!Parse(c, parsed) = parsed
    BY <1>2, <1>8, <2>1, <2>3, Branches
  <2> QED BY <1>4, <2>1, <2>2, <2>4
<1>9. CASE offer.tool = "bash"
  <2>1. MayRun(offer.args) /\ parsed = [tool |-> offer.tool, args |-> offer.args]
    BY <1>2, <1>9, Branches
  <2>2. IsFit(offer.args, Tools!Definition(c, offer.tool))
    BY <1>1, <1>9, <2>1, RunFits
  <2>3. parsed.tool = "bash" /\ parsed.args = offer.args
    BY <1>9, <2>1
  <2>4. Tools!Parse(c, parsed) = parsed
    BY <1>2, <1>9, <2>1, <2>3, Branches
  <2> QED BY <1>4, <2>1, <2>2, <2>4
<1> QED BY <1>3, <1>5, <1>6, <1>7, <1>8, <1>9

----------------------------------------------------------------------------
(* The tools of a session *)

\* What was accepted was parsed under the contract, and what is shown is made from what
\* was printed.
ToolInv ==
    /\ contract # None => contract \in Contracts /\ Tools!Valid(contract)
    /\ call # None => /\ contract # None /\ call.offer \in Offers /\ call.parsed # None
                      /\ call.parsed = Tools!Parse(contract, call.offer)
    /\ result # None => /\ call # None /\ result.printed \in Outputs
         /\ Tools!Coherent(result.shown)
                        /\ result.shown.tool = call.parsed.tool
                        /\ result.shown.output = Tools!Bounded(contract, result.printed)
                        /\ result.shown.truncated = Tools!Truncated(contract, result.printed)

LEMMA NextToolInv ==
  ASSUME ToolInv, [Tools!Next]_(Tools!vars)
  PROVE  ToolInv'
<1>1. CASE UNCHANGED Tools!vars
  BY <1>1 DEF ToolInv, Tools!vars
<1>2. ASSUME NEW c \in Contracts, Tools!Open(c) PROVE ToolInv'
  <2>1. contract = None /\ Tools!Valid(c) /\ contract' = c /\ call' = call /\ result' = result
    BY <1>2 DEF Tools!Open
  <2>2. call = None /\ result = None
    BY <2>1 DEF ToolInv
  <2> QED BY <2>1, <2>2 DEF ToolInv
<1>3. ASSUME NEW o \in Offers, Tools!Ask(o) PROVE ToolInv'
  <2>1. /\ contract # None /\ call = None /\ Tools!Parse(contract, o) # None
        /\ call' = [offer |-> o, parsed |-> Tools!Parse(contract, o)]
        /\ contract' = contract /\ result' = result
    BY <1>3 DEF Tools!Ask
  <2>2. result = None
    BY <2>1 DEF ToolInv
  <2>3. call'.offer = o /\ call'.parsed = Tools!Parse(contract, o)
    BY <2>1
  <2> QED BY <2>1, <2>2, <2>3 DEF ToolInv
<1>4. ASSUME NEW status, NEW exit \in Exits, NEW o \in Outputs, Tools!Answer(status, exit, o)
      PROVE  ToolInv'
  <2>1. PICK r : r = [tool |-> call.parsed.tool, status |-> status, exit |-> exit,
                      output |-> Tools!Bounded(contract, o),
                      truncated |-> Tools!Truncated(contract, o)]
    OBVIOUS
  <2>2. /\ call # None /\ Tools!Coherent(r) /\ result' = [printed |-> o, shown |-> r]
        /\ contract' = contract /\ call' = call
    BY <1>4, <2>1 DEF Tools!Answer
  <2>3. result'.printed = o /\ result'.shown = r
    BY <2>2
  <2>4. /\ r.tool = call.parsed.tool /\ r.output = Tools!Bounded(contract, o)
        /\ r.truncated = Tools!Truncated(contract, o)
    BY <2>1
  <2> QED BY <2>2, <2>3, <2>4 DEF ToolInv
<1>5. CASE Tools!Next
  BY <1>2, <1>3, <1>4, <1>5 DEF Tools!Next
<1> QED BY <1>1, <1>5

LEMMA AlwaysToolInv ==
  Tools!Spec => []ToolInv
<1>1. Tools!Init => ToolInv
  BY DEF Tools!Init, ToolInv
<1>2. ToolInv /\ [Tools!Next]_(Tools!vars) => ToolInv'
  BY NextToolInv
<1> QED BY <1>1, <1>2, PTL DEF Tools!Spec

\* What is shown is read back as it was shown, and is as much of what was printed as the
\* bound leaves room for.
LEMMA ShownIsReadBack ==
  ASSUME ToolInv, result # None
  PROVE  LET shown == result.shown.output
             first == SubSeq(shown, 1, Len(shown) - Len(contract.marker))
             more == Len(first) + 1
         IN  /\ Tools!ReadBack(contract, result.shown) = result.shown
             /\ IF result.shown.truncated
                THEN /\ Tools!IsPrefix(first, result.printed)
                     /\ Tools!Bytes(shown) + Width[result.printed[more]] > contract.output
                ELSE shown = result.printed
<1>1. PICK c, r, o : c = contract /\ r = result.shown /\ o = result.printed
  OBVIOUS
<1>2. /\ contract # None /\ call # None /\ c \in Contracts /\ Tools!Valid(c) /\ o \in Outputs
      /\ Tools!Coherent(r) /\ r.tool = call.parsed.tool /\ r.output = Tools!Bounded(c, o)
      /\ r.truncated = Tools!Truncated(c, o)
  BY <1>1 DEF ToolInv
<1>3. r.tool \in Tools!Tools(c)
  <2>1. /\ call.offer \in Offers /\ call.parsed # None
        /\ call.parsed = Tools!Parse(contract, call.offer)
    BY <1>2 DEF ToolInv
  <2> QED BY <1>1, <1>2, <2>1, ParsedSurvives
<1>4. o \in Seq(DOMAIN Width) /\ c.marker \in Seq(DOMAIN Width) /\ c.output \in Int
  BY <1>2, ToolsAssumption DEF Tools!ToolAssumption
<1>5. CASE Tools!Truncated(c, o)
  <2>1. PICK j \in 0 .. Len(o) - 1 :
           /\ Tools!Bounded(c, o) = SubSeq(o, 1, j) \o c.marker
           /\ SubSeq(o, 1, j) \in Seq(DOMAIN Width) /\ Len(SubSeq(o, 1, j)) = j
           /\ Tools!Bytes(SubSeq(o, 1, j) \o c.marker) <= c.output
           /\ Tools!Bytes(SubSeq(o, 1, j) \o c.marker) + Width[o[j + 1]] > c.output
    BY <1>2, <1>5, TruncatedIs
  <2>2. PICK first : first = SubSeq(o, 1, j)
    OBVIOUS
  <2>3. /\ r.output = first \o c.marker /\ first \in Seq(DOMAIN Width) /\ Len(first) = j
        /\ Tools!Bytes(r.output) <= c.output
        /\ Tools!Bytes(r.output) + Width[o[j + 1]] > c.output
    BY <1>2, <2>1, <2>2
  <2>4. /\ Tools!IsSuffix(c.marker, r.output)
        /\ SubSeq(r.output, 1, Len(r.output) - Len(c.marker)) = first
    BY <1>4, <2>3, EndsWith
  <2>5. Tools!ReadBack(c, r) = r
    BY <1>2, <1>3, <2>3, <2>4 DEF Tools!ReadBack
  <2>6. Tools!IsPrefix(first, o)
    <3>1. Len(o) \in Nat /\ j <= Len(o)
      BY <1>4
    <3>2. SubSeq(first, 1, Len(first)) = first
      BY <2>3, SubSeqFull
    <3> QED BY <2>2, <2>3, <3>1, <3>2 DEF Tools!IsPrefix
  <2> QED BY <1>1, <1>2, <1>5, <2>3, <2>4, <2>5, <2>6
<1>6. CASE ~Tools!Truncated(c, o)
  <2>1. r.output = o
    BY <1>2, <1>6 DEF Tools!Bounded
  <2>2. Tools!Bytes(o) \in Nat
    BY <1>4, BytesOfBoth
  <2>3. Tools!Bytes(r.output) <= c.output
    BY <1>4, <1>6, <2>1, <2>2 DEF Tools!Truncated
  <2>4. Tools!ReadBack(c, r) = r
    BY <1>2, <1>3, <1>6, <2>3 DEF Tools!ReadBack
  <2> QED BY <1>1, <1>2, <1>6, <2>1, <2>4
<1> QED BY <1>5, <1>6

THEOREM CallsAlwaysSurvive ==
  Tools!Spec => []Tools!CallsSurvive
<1>1. ASSUME ToolInv PROVE Tools!CallsSurvive
  <2>1. ASSUME call # None
        PROVE  /\ Tools!Conforms(call.offer.args, Tools!Definition(contract, call.offer.tool))
               /\ IsFit(call.parsed.args, Tools!Definition(contract, call.parsed.tool))
               /\ Tools!Parse(contract, call.parsed) = call.parsed
    <3>1. /\ call.offer \in Offers /\ call.parsed # None
          /\ call.parsed = Tools!Parse(contract, call.offer)
      BY <1>1, <2>1 DEF ToolInv
    <3> QED BY <3>1, ParsedSurvives
  <2>2. call # None =>
          /\ Tools!Conforms(call.parsed.args, Tools!Definition(contract, call.parsed.tool))
          /\ \A k \in DOMAIN call.parsed.args : call.parsed.args[k].kind = "path" =>
               LET names == call.parsed.args[k].names IN
               /\ Tools!Leads(names) = names /\ names # <<>>
               /\ Head(names) \notin Graded \cup {".."}
    BY <2>1 DEF IsFit
  <2> QED BY <1>1, <2>1, <2>2, ShownIsReadBack DEF Tools!CallsSurvive
<1>2. ToolInv => Tools!CallsSurvive
  BY <1>1
<1> QED BY <1>2, AlwaysToolInv, PTL

----------------------------------------------------------------------------
(* Where the members lie once they are flattened *)

\* The modules of this one flatten alike.
LEMMA SameFlattening ==
  \A seqs : /\ Conversation!FlattenSeq(seqs) = Tools!FlattenSeq(seqs)
            /\ Masks!FlattenSeq(seqs) = Tools!FlattenSeq(seqs)
BY DEF Conversation!FlattenSeq, Tools!FlattenSeq, Masks!FlattenSeq

\* Where the members of the sequences are once they are put in a row: those of the n-th
\* come after c[n - 1] others.
Places(c, seqs) ==
    /\ c \in [0 .. Len(seqs) -> Nat] /\ c[0] = 0
    /\ \A n \in 1 .. Len(seqs) : c[n] = c[n - 1] + Len(seqs[n])

LEMMA FlattenPlaces ==
  ASSUME NEW T, NEW seqs \in Seq(Seq(T)), seqs # <<>>
  PROVE  /\ Tools!FlattenSeq(seqs) \in Seq(T)
         /\ \E c : /\ Places(c, seqs) /\ Len(Tools!FlattenSeq(seqs)) = c[Len(seqs)]
                   /\ \A n \in 1 .. Len(seqs) : \A k \in 1 .. Len(seqs[n]) :
                        Tools!FlattenSeq(seqs)[c[n - 1] + k] = seqs[n][k]
<1>1. PICK L \in Nat : L = Len(seqs)
  OBVIOUS
<1>2. L # 0 /\ \A n \in 1 .. L : seqs[n] \in Seq(T) /\ Len(seqs[n]) \in Nat
  <2>1. L # 0 /\ \A n \in 1 .. L : seqs[n] \in Seq(T)
    BY <1>1
  <2> QED BY <2>1
<1>3. PICK f : FlattenUpTo(f, T, seqs)
  BY FlattenLoop
<1>4. /\ f \in [0 .. L -> Seq(T)] /\ f[0] = <<>> /\ Tools!FlattenSeq(seqs) = f[L]
      /\ \A n \in 1 .. L : f[n] = f[n - 1] \o seqs[n]
  BY <1>1, <1>3 DEF FlattenUpTo
<1> DEFINE c == [n \in 0 .. L |-> Len(f[n])]
<1>5. c \in [0 .. L -> Nat] /\ c[0] = 0 /\ c[L] = Len(f[L])
  <2>1. \A n \in 0 .. L : f[n] \in Seq(T)
    BY <1>4
  <2>2. \A n \in 0 .. L : Len(f[n]) \in Nat
    BY <2>1
  <2> QED BY <1>4, <2>2
<1>6. ASSUME NEW n \in 1 .. L
      PROVE  /\ n - 1 \in 0 .. L /\ n \in 0 .. L /\ c[n - 1] \in Nat
             /\ c[n] = c[n - 1] + Len(seqs[n])
             /\ \A i \in 1 .. c[n - 1] : f[n][i] = f[n - 1][i]
             /\ \A k \in 1 .. Len(seqs[n]) : f[n][c[n - 1] + k] = seqs[n][k]
  <2>1. n - 1 \in 0 .. L /\ n \in 0 .. L
    BY <1>1
  <2>2. PICK a \in Seq(T) : a = f[n - 1]
    BY <1>4, <2>1
  <2>3. PICK b \in Seq(T) : b = seqs[n]
    BY <1>2
  <2>4. f[n] = a \o b /\ c[n] = Len(a \o b) /\ c[n - 1] = Len(a)
    BY <1>4, <2>1, <2>2, <2>3
  <2>5. /\ Len(a \o b) = Len(a) + Len(b)
        /\ \A i \in 1 .. Len(a) : (a \o b)[i] = a[i]
        /\ \A i \in 1 .. Len(b) : (a \o b)[Len(a) + i] = b[i]
    BY InARow
  <2>6. Len(a) \in Nat
    OBVIOUS
  <2> HIDE DEF c
  <2> QED BY <2>1, <2>2, <2>3, <2>4, <2>5, <2>6
<1> HIDE DEF c
<1>7. Places(c, seqs)
  BY <1>1, <1>5, <1>6 DEF Places
<1> DEFINE K == {n \in 0 .. L : \A m \in 1 .. n : \A k \in 1 .. Len(seqs[m]) :
                   c[m - 1] + k <= c[n] /\ f[n][c[m - 1] + k] = seqs[m][k]}
<1>8. 0 \in K
  BY <1>1
<1>9. ASSUME NEW n \in 1 .. L, n - 1 \in K PROVE n \in K
  <2> SUFFICES ASSUME NEW m \in 1 .. n, NEW k \in 1 .. Len(seqs[m])
               PROVE  c[m - 1] + k <= c[n] /\ f[n][c[m - 1] + k] = seqs[m][k]
    BY <1>6
  <2>0. /\ m \in 1 .. L /\ Len(seqs[m]) \in Nat /\ Len(seqs[n]) \in Nat
        /\ c[n - 1] \in Nat /\ c[m - 1] \in Nat /\ k \in Nat /\ 1 <= k
    <3>1. m \in 1 .. L
      BY <1>1
    <3>2. Len(seqs[m]) \in Nat /\ Len(seqs[n]) \in Nat
      BY <1>2, <3>1
    <3>3. c[n - 1] \in Nat /\ c[m - 1] \in Nat
      BY <1>6, <3>1
    <3> QED BY <3>1, <3>2, <3>3
  <2>1. CASE m = n
    <3>1. c[m - 1] + k <= c[n]
      BY <2>0, <2>1, <1>6
    <3> QED BY <2>1, <3>1, <1>6
  <2>2. CASE m # n
    <3>1. m \in 1 .. n - 1
      BY <1>1, <2>2
    <3>2. c[m - 1] + k <= c[n - 1] /\ f[n - 1][c[m - 1] + k] = seqs[m][k]
      BY <1>9, <3>1
    <3>3. c[n] = c[n - 1] + Len(seqs[n])
      BY <1>6
    <3>6. PICK i : i = c[m - 1] + k
      OBVIOUS
    <3>7. i \in Nat /\ 1 <= i /\ i <= c[n - 1]
      BY <2>0, <3>2, <3>6, SMTT(30)
    <3>4. c[m - 1] + k <= c[n] /\ c[m - 1] + k \in 1 .. c[n - 1]
      BY <2>0, <3>3, <3>6, <3>7, SMTT(30)
    <3>5. f[n][c[m - 1] + k] = f[n - 1][c[m - 1] + k]
      BY <1>6, <3>4
    <3> QED BY <3>2, <3>4, <3>5
  <2> QED BY <2>1, <2>2
<1>10. L \in K
  <2>1. 0 .. L \subseteq K
    <3> HIDE DEF K
    <3> QED BY <1>8, <1>9, UpToInd
  <2> HIDE DEF K
  <2> QED BY <2>1
<1>11. Tools!FlattenSeq(seqs) \in Seq(T)
  BY <1>4
<1>12. \A n \in 1 .. L : \A k \in 1 .. Len(seqs[n]) :
         Tools!FlattenSeq(seqs)[c[n - 1] + k] = seqs[n][k]
  BY <1>4, <1>10
<1>13. Len(Tools!FlattenSeq(seqs)) = c[L]
  BY <1>4, <1>5
<1> QED BY <1>1, <1>7, <1>11, <1>12, <1>13

\* Each place is that of one member, and they grow.
Filled(c, seqs) ==
    /\ \A i \in 1 .. c[Len(seqs)] : \E n \in 1 .. Len(seqs) : \E k \in 1 .. Len(seqs[n]) :
         i = c[n - 1] + k
    /\ \A n \in 0 .. Len(seqs) : c[n] \in Nat /\ c[n] <= c[Len(seqs)]

LEMMA Located ==
  ASSUME NEW T, NEW seqs \in Seq(Seq(T)), NEW c, Places(c, seqs)
  PROVE  Filled(c, seqs)
<1>1. PICK L \in Nat : L = Len(seqs)
  OBVIOUS
<1>2. \A n \in 1 .. L : seqs[n] \in Seq(T) /\ Len(seqs[n]) \in Nat
  <2>1. \A n \in 1 .. L : seqs[n] \in Seq(T)
    BY <1>1
  <2> QED BY <2>1
<1>3. /\ \A n \in 0 .. L : c[n] \in Nat
      /\ c[0] = 0 /\ \A n \in 1 .. L : c[n] = c[n - 1] + Len(seqs[n])
  BY <1>1 DEF Places
<1> DEFINE At(i, n) == \E k \in 1 .. Len(seqs[n]) : i = c[n - 1] + k
           K == {n \in 0 .. L : /\ \A m \in 0 .. n : c[m] <= c[n]
                                /\ \A i \in 1 .. c[n] : \E m \in 1 .. n : At(i, m)}
<1>4. 0 \in K
  BY <1>3
<1>5. ASSUME NEW n \in 1 .. L, n - 1 \in K PROVE n \in K
  <2>1. /\ n \in 0 .. L /\ n - 1 \in 0 .. L /\ c[n - 1] \in Nat /\ Len(seqs[n]) \in Nat
        /\ c[n] = c[n - 1] + Len(seqs[n])
    BY <1>1, <1>2, <1>3
  <2>2. ASSUME NEW m \in 0 .. n PROVE c[m] <= c[n]
    <3>1. CASE m = n
      BY <2>1, <3>1
    <3>2. CASE m # n
      <4>1. m \in 0 .. n - 1 /\ m \in 0 .. L
        BY <2>1, <3>2
      <4>2. c[m] <= c[n - 1] /\ c[m] \in Nat
        BY <1>3, <1>5, <4>1
      <4> QED BY <2>1, <4>2
    <3> QED BY <3>1, <3>2
  <2>3. ASSUME NEW i \in 1 .. c[n] PROVE \E m \in 1 .. n : At(i, m)
    <3>1. CASE i <= c[n - 1]
      <4>1. i \in 1 .. c[n - 1]
        BY <2>1, <3>1
      <4>2. PICK m \in 1 .. n - 1 : At(i, m)
        <5> HIDE DEF At
        <5> QED BY <1>5, <4>1
      <4>3. m \in 1 .. n
        BY <2>1
      <4> HIDE DEF At
      <4> QED BY <4>2, <4>3
    <3>2. CASE ~(i <= c[n - 1])
      <4>1. i - c[n - 1] \in 1 .. Len(seqs[n]) /\ i = c[n - 1] + (i - c[n - 1])
        BY <2>1, <3>2
      <4>2. At(i, n) /\ n \in 1 .. n
        BY <4>1, <2>1
      <4> HIDE DEF At
      <4> QED BY <4>2
    <3> QED BY <3>1, <3>2
  <2> HIDE DEF At
  <2> QED BY <2>1, <2>2, <2>3
<1>6. L \in K
  <2>1. 0 .. L \subseteq K
    <3> HIDE DEF K
    <3> QED BY <1>4, <1>5, UpToInd
  <2> HIDE DEF K
  <2> QED BY <2>1
<1> QED BY <1>1, <1>3, <1>6 DEF Filled

----------------------------------------------------------------------------
(* Slices of an alignment *)

\* Two slices are one when they agree place by place.
Agree(a, i, b, j, m) ==
    i + m <= Len(a) /\ j + m <= Len(b) /\ \A k \in 1 .. m : a[i + k] = b[j + k]
OneSlice(a, i, b, j, m) == SubSeq(a, i + 1, i + m) = SubSeq(b, j + 1, j + m)

LEMMA SameSlices ==
  ASSUME NEW S, NEW a \in Seq(S), NEW b \in Seq(S), NEW i \in Nat, NEW j \in Nat, NEW m \in Nat,
         Agree(a, i, b, j, m)
  PROVE  OneSlice(a, i, b, j, m)
<1>15. i + m <= Len(a) /\ j + m <= Len(b) /\ \A k \in 1 .. m : a[i + k] = b[j + k]
  BY DEF Agree
<1>1. /\ \A n \in 1 .. Len(a) : a[n] \in S
      /\ \A n \in 1 .. Len(b) : b[n] \in S
      /\ Len(a) \in Nat /\ Len(b) \in Nat
  OBVIOUS
<1>2. PICK p : p = i + 1
  OBVIOUS
<1>3. PICK q : q = i + m
  OBVIOUS
<1>4. PICK u : u = j + 1
  OBVIOUS
<1>5. PICK v : v = j + m
  OBVIOUS
<1>6. /\ p \in Int /\ q \in Int /\ u \in Int /\ v \in Int
      /\ \A n \in p .. q : a[n] \in S
      /\ \A n \in u .. v : b[n] \in S
  BY <1>1, <1>2, <1>3, <1>4, <1>5, <1>15
<1>7. PICK s : s = SubSeq(a, p, q)
  OBVIOUS
<1>8. PICK t : t = SubSeq(b, u, v)
  OBVIOUS
<1>9. /\ s \in Seq(S) /\ Len(s) = IF p <= q THEN q - p + 1 ELSE 0
      /\ \A n \in 1 .. q - p + 1 : s[n] = a[p + n - 1]
  BY <1>6, <1>7, SubSeqProperties
<1>10. /\ t \in Seq(S) /\ Len(t) = IF u <= v THEN v - u + 1 ELSE 0
       /\ \A n \in 1 .. v - u + 1 : t[n] = b[u + n - 1]
  BY <1>6, <1>8, SubSeqProperties
<1>11. /\ q - p + 1 = m /\ v - u + 1 = m /\ Len(s) = m /\ Len(t) = m
       /\ \A n \in 1 .. m : p + n - 1 = i + n /\ u + n - 1 = j + n
  BY <1>2, <1>3, <1>4, <1>5, <1>9, <1>10
<1>12. ASSUME NEW n \in 1 .. m PROVE s[n] = t[n]
  BY <1>9, <1>10, <1>11, <1>15
<1>13. s = [n \in 1 .. Len(s) |-> s[n]] /\ t = [n \in 1 .. Len(t) |-> t[n]]
  BY <1>9, <1>10
<1>14. s = t
  BY <1>11, <1>12, <1>13
<1> QED BY <1>2, <1>3, <1>4, <1>5, <1>7, <1>8, <1>14 DEF OneSlice

\* Every output lies in the history where its turn says.
LEMMA OutputsLie ==
  ASSUME NEW l, IsTyped(l), IsSound(l), Conversation!Complete(l)
  PROVE  /\ Conversation!InputEnd(l, Len(l.outputs)) = Len(Conversation!History(l))
         /\ \A t \in 1 .. Len(l.outputs) : \A k \in 1 .. Len(l.outputs[t].ids) :
              Conversation!History(l)[Conversation!InputStart(l, t) + k] = l.outputs[t].ids[k]
<1>1. PICK n \in Nat : n = Len(l.outputs)
  BY Records
<1>2. n = Len(l.prompts) /\ n > 0 /\ DOMAIN l.prompts = 1 .. n /\ DOMAIN l.outputs = 1 .. n
  BY <1>1, Records DEF IsSound, Conversation!Complete
<1> DEFINE P(t) == l.prompts[t].ids
           O(t) == l.outputs[t].ids
           Whole(t) == P(t) \o O(t)
<1>3. ASSUME NEW t \in 1 .. n
      PROVE  /\ P(t) \in Seq(Tokens) /\ O(t) \in Seq(Tokens) /\ Whole(t) \in Seq(Tokens)
             /\ Len(P(t)) \in Nat /\ Len(O(t)) \in Nat /\ Len(Whole(t)) = Len(P(t)) + Len(O(t))
             /\ Conversation!InputStart(l, t) = Len(P(t))
             /\ Conversation!InputEnd(l, t) = Len(Whole(t))
             /\ \A i \in 1 .. Len(P(t)) : Whole(t)[i] = P(t)[i]
             /\ \A k \in 1 .. Len(O(t)) : Whole(t)[Conversation!InputStart(l, t) + k] = O(t)[k]
  <2>1. P(t) \in Seq(Tokens) /\ O(t) \in Seq(Tokens)
    BY <1>2, Records
  <2>2. PICK a \in Seq(Tokens) : a = P(t)
    BY <2>1
  <2>3. PICK b \in Seq(Tokens) : b = O(t)
    BY <2>1
  <2>4. /\ a \o b \in Seq(Tokens) /\ Len(a \o b) = Len(a) + Len(b)
        /\ \A i \in 1 .. Len(a) : (a \o b)[i] = a[i]
        /\ \A i \in 1 .. Len(b) : (a \o b)[Len(a) + i] = b[i]
    BY InARow
  <2>5. Conversation!InputStart(l, t) = Len(a) /\ Conversation!InputEnd(l, t) = Len(a) + Len(b)
    BY <2>2, <2>3 DEF Conversation!InputStart, Conversation!InputEnd
  <2>6. Len(a) \in Nat /\ Len(b) \in Nat
    OBVIOUS
  <2> QED BY <2>1, <2>2, <2>3, <2>4, <2>5, <2>6
<1>4. Conversation!History(l) = Whole(n)
  BY <1>1, <1>2 DEF Conversation!History, Conversation!LastPrompt, Conversation!LastOutput,
                    Conversation!Complete
<1>5. ASSUME NEW t \in 1 .. n, t # n
      PROVE  /\ t + 1 \in 1 .. n /\ Len(Whole(t)) <= Len(Whole(t + 1))
             /\ \A i \in 1 .. Len(Whole(t)) : Whole(t + 1)[i] = Whole(t)[i]
  <2>1. PICK u : u = t + 1
    OBVIOUS
  <2>2. u \in 2 .. n /\ u \in 1 .. n /\ u - 1 = t
    BY <1>2, <1>5, <2>1
  <2>3. PICK a \in Seq(Tokens) : a = Whole(t)
    BY <1>3
  <2>4. PICK b \in Seq(Tokens) : b = l.prompts[u].added
    BY <2>2, <1>2, Records
  <2>5. P(u) = a \o b
    BY <2>2, <2>3, <2>4, <1>2 DEF IsSound, Conversation!Follows
  <2>6. /\ Len(a \o b) = Len(a) + Len(b) /\ \A i \in 1 .. Len(a) : (a \o b)[i] = a[i]
    BY InARow
  <2>7. Len(a) \in Nat /\ Len(b) \in Nat
    OBVIOUS
  <2>8. Len(Whole(u)) = Len(P(u)) + Len(O(u)) /\ Len(O(u)) \in Nat
        /\ \A i \in 1 .. Len(P(u)) : Whole(u)[i] = P(u)[i]
    BY <2>2, <1>3
  <2>9. \A i \in 1 .. Len(a) : i \in 1 .. Len(P(u))
    BY <2>5, <2>6, <2>7
  <2> HIDE DEF P, O, Whole
  <2>10. Len(a) <= Len(Whole(u)) /\ \A i \in 1 .. Len(a) : Whole(u)[i] = a[i]
    BY <2>5, <2>6, <2>7, <2>8, <2>9
  <2> QED BY <2>1, <2>2, <2>3, <2>10
<1> HIDE DEF P, O, Whole
<1> DEFINE Lies(t) == /\ Len(Whole(t)) <= Len(Whole(n))
                      /\ \A i \in 1 .. Len(Whole(t)) : Whole(n)[i] = Whole(t)[i]
           K == {m \in 0 .. n - 1 : Lies(n - m)}
<1>6. 0 \in K
  <2>1. n \in 1 .. n /\ n - 0 = n /\ 0 \in 0 .. n - 1
    BY <1>2
  <2>2. Len(Whole(n)) \in Nat
    BY <1>3, <2>1
  <2> QED BY <2>1, <2>2
<1>7. ASSUME NEW m \in 1 .. n - 1, m - 1 \in K PROVE m \in K
  <2>1. PICK t : t = n - m
    OBVIOUS
  <2>2. t \in 1 .. n /\ t # n /\ t + 1 = n - (m - 1) /\ m \in 0 .. n - 1 /\ t + 1 \in 1 .. n
    BY <1>2, <2>1
  <2>3. Lies(t + 1)
    BY <1>7, <2>2
  <2>4. Len(Whole(t)) \in Nat /\ Len(Whole(t + 1)) \in Nat /\ Len(Whole(n)) \in Nat
    <3>1. n \in 1 .. n
      BY <1>2
    <3>2. \A i \in 1 .. n : Len(Whole(i)) \in Nat
      BY <1>3
    <3> QED BY <2>2, <3>1, <3>2
  <2>5. /\ Len(Whole(t)) <= Len(Whole(t + 1))
        /\ \A i \in 1 .. Len(Whole(t)) : Whole(t + 1)[i] = Whole(t)[i]
    BY <1>5, <2>2
  <2>6. Lies(t)
    <3>1. \A i \in 1 .. Len(Whole(t)) : i \in 1 .. Len(Whole(t + 1))
      BY <2>4, <2>5
    <3> QED BY <2>3, <2>4, <2>5, <3>1
  <2> HIDE DEF Lies
  <2> QED BY <2>1, <2>2, <2>6
<1>8. ASSUME NEW t \in 1 .. n PROVE Lies(t)
  <2>1. 0 .. n - 1 \subseteq K
    <3>1. n - 1 \in Nat
      BY <1>2
    <3> HIDE DEF K
    <3> QED BY <1>6, <1>7, <3>1, UpToInd
  <2>2. n - t \in 0 .. n - 1 /\ n - (n - t) = t
    BY <1>2
  <2>3. n - t \in K
    BY <2>1, <2>2
  <2> HIDE DEF Lies
  <2> QED BY <2>2, <2>3
<1>9. ASSUME NEW t \in 1 .. n, NEW k \in 1 .. Len(l.outputs[t].ids)
      PROVE  Conversation!History(l)[Conversation!InputStart(l, t) + k] = l.outputs[t].ids[k]
  <2>1. Whole(t)[Conversation!InputStart(l, t) + k] = O(t)[k] /\ O(t) = l.outputs[t].ids
    BY <1>3 DEF O
  <2>2. Conversation!InputStart(l, t) + k \in 1 .. Len(Whole(t))
    <3>1. /\ Len(P(t)) \in Nat /\ Len(O(t)) \in Nat /\ Conversation!InputStart(l, t) = Len(P(t))
          /\ Len(Whole(t)) = Len(P(t)) + Len(O(t)) /\ k \in 1 .. Len(O(t))
      BY <1>3, <2>1
    <3> QED BY <3>1
  <2> QED BY <1>4, <1>8, <2>1, <2>2
<1>10. Conversation!InputEnd(l, n) = Len(Conversation!History(l))
  BY <1>2, <1>3, <1>4
<1> QED BY <1>1, <1>9, <1>10

\* An output is as long as its segments reach, and no segment reaches beyond.
LEMMA SegmentsFit ==
  ASSUME NEW o \in OutputRecord, Conversation!Covers(o.ids, o.segments)
  PROVE  /\ o.segments \in Seq([start : Nat, end : Nat]) /\ Len(o.segments) \in Nat \ {0}
         /\ Len(o.ids) \in Nat \ {0}
         /\ \A i \in 1 .. Len(o.segments) :
              /\ o.segments[i].start \in Nat /\ o.segments[i].end \in Nat
              /\ o.segments[i].end <= Len(o.ids)
<1>1. PICK g : g = o.segments
  OBVIOUS
<1>2. g \in Seq([start : Nat, end : Nat]) /\ o.ids \in Seq(Tokens)
  BY <1>1 DEF OutputRecord
<1>3. PICK m \in Nat : m = Len(g)
  BY <1>2
<1>4. PICK n \in Nat : n = Len(o.ids)
  BY <1>2
<1>5. /\ m > 0 /\ g[1].start = 0 /\ g[m].end = n
      /\ \A i \in 1 .. m : g[i].start < g[i].end
      /\ \A i \in 1 .. m - 1 : g[i + 1].start = g[i].end
  <2>1. DOMAIN g = 1 .. m
    BY <1>2, <1>3
  <2> QED BY <1>1, <1>3, <1>4, <2>1 DEF Conversation!Covers
<1>6. \A i \in 1 .. m : g[i].start \in Nat /\ g[i].end \in Nat
  <2>1. PICK S : S = [start : Nat, end : Nat]
    OBVIOUS
  <2>2. g \in Seq(S)
    BY <1>2, <2>1
  <2>3. \A i \in 1 .. m : g[i] \in S
    BY <1>3, <2>2
  <2>4. \A x \in S : x.start \in Nat /\ x.end \in Nat
    BY <2>1
  <2> QED BY <2>3, <2>4
<1> DEFINE K == {k \in 0 .. m - 1 : g[m - k].end <= n}
<1>7. 0 \in K
  BY <1>5
<1>8. ASSUME NEW k \in 1 .. m - 1, k - 1 \in K PROVE k \in K
  <2>1. PICK i : i = m - k
    OBVIOUS
  <2>2. i \in 1 .. m - 1 /\ i \in 1 .. m /\ i + 1 \in 1 .. m /\ m - (k - 1) = i + 1
    BY <2>1
  <2>3. g[i + 1].end <= n
    BY <1>8, <2>2
  <2>4. g[i + 1].start = g[i].end /\ g[i + 1].start < g[i + 1].end
    BY <1>5, <2>2
  <2>5. g[i].end \in Nat /\ g[i + 1].end \in Nat
    BY <1>6, <2>2
  <2>6. g[i].end <= n
    BY <2>3, <2>4, <2>5
  <2>7. k \in 0 .. m - 1
    OBVIOUS
  <2> QED BY <2>1, <2>6, <2>7
<1>9. 0 .. m - 1 \subseteq K
  <2>1. m - 1 \in Nat
    BY <1>5
  <2> HIDE DEF K
  <2> QED BY <1>7, <1>8, <2>1, UpToInd
<1>10. ASSUME NEW i \in 1 .. m PROVE g[i].end <= n
  <2>1. m - i \in 0 .. m - 1 /\ m - (m - i) = i
    BY <1>5
  <2>2. m - i \in K
    BY <1>9, <2>1
  <2> QED BY <2>1, <2>2
<1>11. n > 0
  <2>1. 1 \in 1 .. m
    BY <1>5
  <2>2. g[1].start < g[1].end /\ g[1].end <= n /\ g[1].end \in Nat /\ g[1].start = 0
    BY <1>5, <1>6, <1>10, <2>1
  <2> QED BY <2>2
<1> QED BY <1>1, <1>2, <1>3, <1>4, <1>5, <1>6, <1>10, <1>11

\* How many tokens the policy has said at the end of each turn.
Cursor(c, l) ==
    /\ c \in [0 .. Len(l.outputs) -> Nat] /\ c[0] = 0
    /\ \A t \in 1 .. Len(l.outputs) :
         /\ c[t] = c[t - 1] + Len(l.outputs[t].ids) /\ Conversation!ActionStart(l, t) = c[t - 1]

LEMMA CursorLoop ==
  ASSUME NEW l, IsTyped(l)
  PROVE  \E c : Cursor(c, l)
<1>1. PICK L \in Nat : L = Len(l.outputs)
  BY Records
<1> DEFINE Size(t) == Len(l.outputs[t].ids)
           Step(f, n) == f[n - 1] + Len(l.outputs[n - 1].ids)
           Turned(f, n) == IF n = 1 THEN 0 ELSE Step(f, n)
           F == CHOOSE f : f = [n \in 1 .. L |-> Turned(f, n)]
           turn == [p \in (1 .. L) \X Nat |-> p[2] + Size(p[1])]
<1>2. \A t \in 1 .. L : Size(t) \in Nat
  BY <1>1, Records
<1>3. /\ turn \in [(1 .. L) \X Nat -> Nat]
      /\ \A n \in 1 .. L, v \in Nat : turn[<<n, v>>] = v + Size(n)
  <2> HIDE DEF Size
  <2>1. ASSUME NEW p \in (1 .. L) \X Nat PROVE p[2] + Size(p[1]) \in Nat
    <3>1. p[1] \in 1 .. L /\ p[2] \in Nat
      OBVIOUS
    <3> QED BY <1>2, <3>1
  <2>2. turn \in [(1 .. L) \X Nat -> Nat]
    BY <2>1
  <2> QED BY <2>2
<1>4. PICK g : Loops(g, L, Nat, 0, turn)
  <2> HIDE DEF turn
  <2> QED BY <1>3, Recursion
<1>5. g \in [0 .. L -> Nat] /\ g[0] = 0 /\ \A n \in 1 .. L : g[n] = g[n - 1] + Size(n)
  <2>1. g \in [0 .. L -> Nat] /\ g[0] = 0 /\ \A n \in 1 .. L : g[n] = turn[<<n, g[n - 1]>>]
    BY <1>4 DEF Loops
  <2>2. ASSUME NEW n \in 1 .. L PROVE g[n - 1] \in Nat
    <3>1. n - 1 \in 0 .. L
      OBVIOUS
    <3> QED BY <2>1, <3>1
  <2> HIDE DEF turn, Size
  <2> QED BY <1>3, <2>1, <2>2
<1>6. \E f : f = [n \in 1 .. L |-> Turned(f, n)]
  <2> DEFINE f == [n \in 1 .. L |-> g[n - 1]]
  <2>1. ASSUME NEW n \in 1 .. L PROVE f[n] = Turned(f, n)
    <3>1. CASE n = 1
      BY <1>5, <3>1
    <3>2. CASE n # 1
      <4>1. n - 1 \in 1 .. L /\ n - 1 - 1 \in 0 .. L
        BY <3>2
      <4>2. f[n - 1] = g[n - 1 - 1] /\ f[n] = g[n - 1]
        BY <4>1
      <4>3. g[n - 1] = g[n - 1 - 1] + Size(n - 1)
        <5> HIDE DEF Size
        <5> QED BY <1>5, <4>1
      <4>4. f[n] = Step(f, n)
        <5> HIDE DEF f
        <5> QED BY <4>2, <4>3 DEF Step, Size
      <4> HIDE DEF f, Step
      <4> QED BY <3>2, <4>4 DEF Turned
    <3> QED BY <3>1, <3>2
  <2>2. f = [n \in 1 .. L |-> Turned(f, n)]
    <3>1. f = [n \in 1 .. L |-> f[n]]
      OBVIOUS
    <3> HIDE DEF f, Turned
    <3> QED BY <2>1, <3>1
  <2> HIDE DEF f, Turned
  <2> QED BY <2>2
<1>7. F = [n \in 1 .. L |-> Turned(F, n)]
  <2> HIDE DEF Turned
  <2> QED BY <1>6
<1>8. ASSUME NEW t \in 1 .. L PROVE Conversation!ActionStart(l, t) = F[t]
  BY <1>1 DEF Conversation!ActionStart
<1> HIDE DEF F
<1>9. ASSUME NEW n \in 1 .. L
      PROVE  (n = 1 => F[n] = 0) /\ (n # 1 => F[n] = F[n - 1] + Size(n - 1))
  <2>1. F[n] = Turned(F, n)
    <3> HIDE DEF Turned
    <3> QED BY <1>7
  <2> QED BY <2>1
<1> DEFINE K == {n \in 0 .. L : n \in 1 .. L => F[n] = g[n - 1]}
<1>10. 0 \in K
  OBVIOUS
<1>11. ASSUME NEW n \in 1 .. L, n - 1 \in K PROVE n \in K
  <2>1. CASE n = 1
    BY <1>5, <1>9, <2>1
  <2>2. CASE n # 1
    <3>1. n - 1 \in 1 .. L
      BY <2>2
    <3>2. F[n - 1] = g[n - 1 - 1]
      BY <1>11, <3>1
    <3>3. g[n - 1] = g[n - 1 - 1] + Size(n - 1)
      <4> HIDE DEF Size
      <4> QED BY <1>5, <3>1
    <3>4. F[n] = F[n - 1] + Size(n - 1)
      BY <1>9, <2>2
    <3> HIDE DEF Size
    <3> QED BY <3>2, <3>3, <3>4
  <2> QED BY <2>1, <2>2
<1>12. 0 .. L \subseteq K
  <2> HIDE DEF K
  <2> QED BY <1>10, <1>11, UpToInd
<1>13. \A t \in 1 .. L : Conversation!ActionStart(l, t) = g[t - 1]
  BY <1>8, <1>12
<1>14. Cursor(g, l)
  BY <1>1, <1>5, <1>13 DEF Cursor
<1> QED BY <1>14

----------------------------------------------------------------------------
(* What the mask of an alignment marks *)

\* A count that stays as it is, or goes up by one at each step.
Still(e, a, b) == \A i \in a + 1 .. b : e[i] = e[i - 1]
Climbs(e, a, b) == \A i \in a + 1 .. b : e[i] = e[i - 1] + 1
Stays(e, a, b) == e[b] = e[a]
Rises(e, a, b) == \A k \in 0 .. b - a : e[a + k] = e[a] + k

LEMMA Steady ==
  ASSUME NEW N \in Nat, NEW e \in [0 .. N -> Nat], NEW a \in Nat, NEW b \in Nat, a <= b, b <= N
  PROVE  /\ Still(e, a, b) => Stays(e, a, b)
         /\ Climbs(e, a, b) => Rises(e, a, b)
<1>1. e[a] \in Nat /\ b - a \in Nat /\ b - a \in 0 .. b - a /\ a + (b - a) = b
  OBVIOUS
<1>2. ASSUME Still(e, a, b) PROVE Stays(e, a, b)
  <2> DEFINE K == {k \in 0 .. b - a : e[a + k] = e[a]}
  <2>1. 0 \in K
    BY <1>1
  <2>2. ASSUME NEW k \in 1 .. b - a, k - 1 \in K PROVE k \in K
    <3>1. PICK i : i = a + k
      OBVIOUS
    <3>2. i \in a + 1 .. b /\ i - 1 = a + (k - 1) /\ k \in 0 .. b - a
      BY <3>1
    <3>3. e[i] = e[i - 1]
      BY <1>2, <3>2 DEF Still
    <3>4. e[i - 1] = e[a]
      BY <2>2, <3>2
    <3> QED BY <3>1, <3>2, <3>3, <3>4
  <2>3. 0 .. b - a \subseteq K
    <3> HIDE DEF K
    <3> QED BY <1>1, <2>1, <2>2, UpToInd
  <2> QED BY <1>1, <2>3 DEF Stays
<1>3. ASSUME Climbs(e, a, b) PROVE Rises(e, a, b)
  <2> DEFINE K == {k \in 0 .. b - a : e[a + k] = e[a] + k}
  <2>1. 0 \in K
    BY <1>1
  <2>2. ASSUME NEW k \in 1 .. b - a, k - 1 \in K PROVE k \in K
    <3>1. PICK i : i = a + k
      OBVIOUS
    <3>2. i \in a + 1 .. b /\ i - 1 = a + (k - 1) /\ k \in 0 .. b - a
      BY <3>1
    <3>3. e[i] = e[i - 1] + 1
      BY <1>3, <3>2 DEF Climbs
    <3>4. e[i - 1] = e[a] + (k - 1)
      BY <2>2, <3>2
    <3>5. e[i] = e[a] + k
      BY <1>1, <3>3, <3>4
    <3> QED BY <3>1, <3>2, <3>5
  <2>3. 0 .. b - a \subseteq K
    <3> HIDE DEF K
    <3> QED BY <1>1, <2>1, <2>2, UpToInd
  <2> QED BY <2>3 DEF Rises
<1> QED BY <1>2, <1>3

\* The stretches of the input: an output is marked, and what is between two is not.
LEMMA MarksLie ==
  ASSUME NEW l, IsTyped(l), IsSound(l), NEW t \in 1 .. Len(l.outputs)
  PROVE  /\ Conversation!InputStart(l, t) \in Nat /\ Len(l.outputs[t].ids) \in Nat
         /\ Conversation!InputEnd(l, t) = Conversation!InputStart(l, t) + Len(l.outputs[t].ids)
         /\ \A i \in Int :
              Conversation!InputStart(l, t) < i /\ i <= Conversation!InputEnd(l, t) =>
                Conversation!Marked(l, i)
         /\ t # 1 => Conversation!InputEnd(l, t - 1) <= Conversation!InputStart(l, t)
         /\ \A i \in Int :
              i <= Conversation!InputStart(l, t) /\ (t # 1 => Conversation!InputEnd(l, t - 1) < i)
                => ~Conversation!Marked(l, i)
<1>1. PICK n \in Nat : n = Len(l.outputs)
  BY Records
<1>2. n <= Len(l.prompts) /\ DOMAIN l.outputs = 1 .. n /\ Len(l.prompts) \in Nat
  BY <1>1, Records DEF IsSound
<1>3. ASSUME NEW u \in 1 .. n
      PROVE  /\ Conversation!InputStart(l, u) \in Nat /\ Len(l.outputs[u].ids) \in Nat
             /\ Conversation!InputEnd(l, u) =
                  Conversation!InputStart(l, u) + Len(l.outputs[u].ids)
  <2>1. u \in DOMAIN l.prompts /\ u \in DOMAIN l.outputs
    BY <1>1, <1>2, PromptsGrow
  <2> QED BY <2>1, Records DEF Conversation!InputEnd
<1>4. ASSUME NEW u \in 1 .. n, NEW v \in 1 .. n, u < v
      PROVE  Conversation!InputEnd(l, u) <= Conversation!InputStart(l, v)
  <2>1. v \in u + 1 .. Len(l.prompts) /\ u \in 1 .. Len(l.outputs)
    BY <1>1, <1>2, <1>4
  <2> QED BY <2>1, PromptsGrow
<1>5. \A i \in Int :
        Conversation!InputStart(l, t) < i /\ i <= Conversation!InputEnd(l, t) =>
          Conversation!Marked(l, i)
  BY <1>1, <1>2 DEF Conversation!Marked
<1>6. t # 1 => Conversation!InputEnd(l, t - 1) <= Conversation!InputStart(l, t)
  <2>1. t # 1 => t - 1 \in 1 .. n /\ t \in 1 .. n /\ t - 1 < t
    BY <1>1
  <2> QED BY <1>4, <2>1
<1>7. ASSUME NEW i \in Int, i <= Conversation!InputStart(l, t),
             t # 1 => Conversation!InputEnd(l, t - 1) < i, Conversation!Marked(l, i)
      PROVE  FALSE
  <2>1. PICK u \in 1 .. n : /\ Conversation!InputStart(l, u) < i
                            /\ i <= Conversation!InputEnd(l, u)
    BY <1>2, <1>7 DEF Conversation!Marked
  <2>9. \A v \in 1 .. n : /\ Conversation!InputStart(l, v) \in Nat
                          /\ Conversation!InputEnd(l, v) \in Nat
                            /\ Conversation!InputStart(l, v) <= Conversation!InputEnd(l, v)
    <3>1. SUFFICES ASSUME NEW v \in 1 .. n
                   PROVE  /\ Conversation!InputStart(l, v) \in Nat
                          /\ Conversation!InputEnd(l, v) \in Nat
                          /\ Conversation!InputStart(l, v) <= Conversation!InputEnd(l, v)
      OBVIOUS
    <3>2. PICK a \in Nat, b \in Nat : /\ a = Conversation!InputStart(l, v)
                                      /\ b = Len(l.outputs[v].ids)
      BY <1>3
    <3>3. Conversation!InputEnd(l, v) = a + b
      BY <1>3, <3>2
    <3>4. a \in Nat /\ a + b \in Nat /\ a <= a + b
      OBVIOUS
    <3> QED BY <3>2, <3>3, <3>4
  <2>8. t \in 1 .. n /\ t \in Nat /\ u \in Nat
    BY <1>1
  <2>2. /\ Conversation!InputStart(l, u) \in Nat
        /\ Conversation!InputStart(l, u) <= Conversation!InputEnd(l, u)
        /\ Conversation!InputEnd(l, u) \in Nat /\ Conversation!InputStart(l, t) \in Nat
        /\ t \in 1 .. n
    BY <2>8, <2>9
  <2>3. CASE u < t
    <3>1. t # 1 /\ t - 1 \in 1 .. n /\ u <= t - 1
      BY <2>8, <2>3
    <3>5. Conversation!InputEnd(l, t - 1) < i
      BY <1>7, <3>1
    <3>2. Conversation!InputEnd(l, t - 1) < i /\ Conversation!InputEnd(l, t - 1) \in Nat
          /\ Conversation!InputStart(l, t - 1) <= Conversation!InputEnd(l, t - 1)
          /\ Conversation!InputStart(l, t - 1) \in Nat
      BY <2>9, <3>1, <3>5
    <3>3. CASE u = t - 1
      BY <2>1, <2>2, <3>2, <3>3
    <3>4. CASE u # t - 1
      <4>1. u < t - 1
        BY <3>1, <3>4
      <4>2. Conversation!InputEnd(l, u) <= Conversation!InputStart(l, t - 1)
        BY <1>4, <3>1, <4>1
      <4> QED BY <2>1, <2>2, <3>2, <4>2
    <3> QED BY <3>3, <3>4
  <2>4. CASE u = t
    BY <1>7, <2>1, <2>2, <2>4
  <2>5. CASE t < u
    <3>2. Conversation!InputEnd(l, t) <= Conversation!InputStart(l, u)
      BY <1>4, <2>5, <2>8
    <3>1. /\ Conversation!InputEnd(l, t) <= Conversation!InputStart(l, u)
          /\ Conversation!InputStart(l, t) <= Conversation!InputEnd(l, t)
          /\ Conversation!InputEnd(l, t) \in Nat
      BY <2>9, <3>2, <2>8
    <3> QED BY <1>7, <2>1, <2>2, <3>1
  <2> QED BY <2>8, <2>3, <2>4, <2>5
<1>8. t \in 1 .. n
  BY <1>1
<1> QED BY <1>3, <1>5, <1>6, <1>7, <1>8

\* The actions, one after another.
InTurns(a, l, c) ==
    /\ a \in Seq(Tokens) /\ Len(a) = c[Len(l.outputs)]
    /\ \A t \in 1 .. Len(l.outputs) :
         /\ c[t] \in Nat /\ c[t - 1] \in Nat /\ c[t] <= c[Len(l.outputs)]
         /\ \A k \in 1 .. Len(l.outputs[t].ids) : a[c[t - 1] + k] = l.outputs[t].ids[k]
    /\ \A m \in 1 .. c[Len(l.outputs)] :
         \E t \in 1 .. Len(l.outputs) : \E k \in 1 .. Len(l.outputs[t].ids) : m = c[t - 1] + k

LEMMA ActionsLie ==
  ASSUME NEW l, IsTyped(l), Len(l.outputs) > 0, NEW c, Cursor(c, l)
  PROVE  InTurns(Conversation!Alignment(l).actions, l, c)
<1>1. PICK n \in Nat : n = Len(l.outputs)
  BY Records
<1>2. n > 0 /\ DOMAIN l.outputs = 1 .. n
  BY <1>1, Records
<1> DEFINE seqs == [t \in DOMAIN l.outputs |-> l.outputs[t].ids]
<1>3. seqs \in Seq(Seq(Tokens)) /\ Len(seqs) = n /\ seqs # <<>>
      /\ \A t \in 1 .. n : seqs[t] = l.outputs[t].ids
  <2>1. \A t \in 1 .. n : l.outputs[t].ids \in Seq(Tokens)
    BY <1>2, Records
  <2> QED BY <1>2, <2>1
<1>4. Conversation!Alignment(l).actions = Tools!FlattenSeq(seqs)
  BY SameFlattening DEF Conversation!Alignment
<1> HIDE DEF seqs
<1>5. PICK d : /\ Places(d, seqs) /\ Len(Tools!FlattenSeq(seqs)) = d[Len(seqs)]
               /\ \A t \in 1 .. Len(seqs) : \A k \in 1 .. Len(seqs[t]) :
                    Tools!FlattenSeq(seqs)[d[t - 1] + k] = seqs[t][k]
  BY <1>3, FlattenPlaces
<1>6. Tools!FlattenSeq(seqs) \in Seq(Tokens)
  BY <1>3, FlattenPlaces
<1>7. /\ c \in [0 .. n -> Nat] /\ c[0] = 0
      /\ \A t \in 1 .. n : c[t] = c[t - 1] + Len(l.outputs[t].ids)
  BY <1>1 DEF Cursor
<1>8. Places(c, seqs)
  BY <1>3, <1>7 DEF Places
<1>9. \A t \in 0 .. n : c[t] = d[t]
  <2> DEFINE K == {t \in 0 .. n : c[t] = d[t]}
  <2>1. d[0] = 0 /\ \A t \in 1 .. n : d[t] = d[t - 1] + Len(seqs[t])
    BY <1>3, <1>5 DEF Places
  <2>2. 0 \in K
    BY <1>7, <2>1
  <2>3. ASSUME NEW t \in 1 .. n, t - 1 \in K PROVE t \in K
    <3>1. c[t - 1] = d[t - 1] /\ t \in 0 .. n
      BY <2>3
    <3>2. c[t] = d[t]
      BY <1>3, <1>7, <2>1, <3>1
    <3> QED BY <3>1, <3>2
  <2>4. 0 .. n \subseteq K
    <3> HIDE DEF K
    <3> QED BY <2>2, <2>3, UpToInd
  <2> QED BY <2>4
<1>10. /\ \A m \in 1 .. c[n] : \E t \in 1 .. n : \E k \in 1 .. Len(seqs[t]) : m = c[t - 1] + k
       /\ \A t \in 0 .. n : c[t] \in Nat /\ c[t] <= c[n]
  <2>1. PICK T : T = Tokens
    OBVIOUS
  <2>2. seqs \in Seq(Seq(T))
    BY <1>3, <2>1
  <2>3. Filled(c, seqs)
    BY ONLY <2>2, <1>8, Located
  <2>4. Len(seqs) = n
    BY <1>3
  <2> QED BY <2>3, <2>4 DEF Filled
<1>11. ASSUME NEW t \in 1 .. n
       PROVE  /\ c[t] \in Nat /\ c[t - 1] \in Nat /\ c[t] <= c[n]
              /\ \A k \in 1 .. Len(l.outputs[t].ids) :
                   Tools!FlattenSeq(seqs)[c[t - 1] + k] = l.outputs[t].ids[k]
  <2>1. t - 1 \in 0 .. n /\ t \in 0 .. n
    BY <1>2
  <2>2. c[t - 1] = d[t - 1] /\ seqs[t] = l.outputs[t].ids
    BY <1>3, <1>9, <2>1
  <2>3. \A k \in 1 .. Len(seqs[t]) : Tools!FlattenSeq(seqs)[d[t - 1] + k] = seqs[t][k]
    BY <1>3, <1>5
  <2> QED BY <1>10, <2>1, <2>2, <2>3
<1>12. Len(Tools!FlattenSeq(seqs)) = c[n]
  BY <1>2, <1>3, <1>5, <1>9
<1>13. \A m \in 1 .. c[n] : \E t \in 1 .. n : \E k \in 1 .. Len(l.outputs[t].ids) :
         m = c[t - 1] + k
  <2> SUFFICES ASSUME NEW m \in 1 .. c[n]
               PROVE  \E t \in 1 .. n : \E k \in 1 .. Len(l.outputs[t].ids) : m = c[t - 1] + k
    OBVIOUS
  <2>1. PICK t \in 1 .. n : \E k \in 1 .. Len(seqs[t]) : m = c[t - 1] + k
    BY <1>10
  <2>2. seqs[t] = l.outputs[t].ids
    BY <1>3
  <2> QED BY <2>1, <2>2
<1>14. /\ Conversation!Alignment(l).actions \in Seq(Tokens)
       /\ Len(Conversation!Alignment(l).actions) = c[n]
  BY <1>4, <1>6, <1>12
<1> QED BY <1>1, <1>4, <1>11, <1>13, <1>14 DEF InTurns

\* Every turn lies within the history.
LEMMA TurnsFit ==
  ASSUME NEW l, IsTyped(l), IsSound(l), Conversation!Complete(l)
  PROVE  /\ Len(l.outputs) > 0 /\ Len(l.outputs) = Len(l.prompts)
         /\ Conversation!History(l) \in Seq(Tokens) /\ Len(Conversation!History(l)) \in Nat
         /\ \A t \in 1 .. Len(l.outputs) :
              /\ Conversation!InputStart(l, t) \in Nat
              /\ Len(l.outputs[t].ids) \in Nat /\ Len(l.outputs[t].ids) > 0
              /\ Conversation!InputEnd(l, t) =
                   Conversation!InputStart(l, t) + Len(l.outputs[t].ids)
              /\ Conversation!InputEnd(l, t) <= Len(Conversation!History(l))
<1>1. PICK n \in Nat : n = Len(l.outputs)
  BY Records
<1>2. n > 0 /\ DOMAIN l.outputs = 1 .. n /\ n = Len(l.prompts) /\ DOMAIN l.prompts = 1 .. n
  BY <1>1, Records DEF IsSound, Conversation!Complete
<1>3. PICK h \in Seq(Tokens) : h = Conversation!History(l)
  <2>1. n \in DOMAIN l.prompts /\ n \in DOMAIN l.outputs
    BY <1>2
  <2>2. l.prompts[n].ids \in Seq(Tokens) /\ l.outputs[n].ids \in Seq(Tokens)
    BY <2>1, Records
  <2>3. PICK a \in Seq(Tokens), b \in Seq(Tokens) : a = l.prompts[n].ids /\ b = l.outputs[n].ids
    BY <2>2
  <2>4. a \o b \in Seq(Tokens)
    BY InARow
  <2>5. Conversation!History(l) = a \o b
    BY <1>1, <1>2, <2>3 DEF Conversation!History, Conversation!LastPrompt,
                            Conversation!LastOutput
  <2> QED BY <2>4, <2>5
<1>4. PICK N \in Nat : N = Len(h)
  OBVIOUS
<1> DEFINE S(t) == Conversation!InputStart(l, t)
           E(t) == Conversation!InputEnd(l, t)
           Z(t) == Len(l.outputs[t].ids)
<1>5. ASSUME NEW t \in 1 .. n
      PROVE  /\ S(t) \in Nat /\ Z(t) \in Nat /\ Z(t) > 0 /\ E(t) = S(t) + Z(t)
  <2>1. t \in 1 .. Len(l.outputs) /\ t \in DOMAIN l.outputs
    BY <1>1, <1>2
  <2>2. /\ Conversation!Covers(l.outputs[t].ids, l.outputs[t].segments)
        /\ l.outputs[t] \in OutputRecord
    BY <2>1, Records DEF IsSound
  <2>3. Z(t) \in Nat \ {0}
    BY <2>2, SegmentsFit
  <2> HIDE DEF S, E, Z
  <2>4. Z(t) \in Nat /\ Z(t) > 0
    BY <2>3
  <2>5. /\ Conversation!InputStart(l, t) \in Nat
        /\ Conversation!InputEnd(l, t) = Conversation!InputStart(l, t) + Len(l.outputs[t].ids)
    BY <2>1, MarksLie
  <2> QED BY <2>4, <2>5 DEF S, E, Z
<1>6. E(n) = N
  BY <1>1, <1>3, <1>4, OutputsLie
<1>7. \A t \in 1 .. n : E(t) <= N
  <2> SUFFICES ASSUME NEW t \in 1 .. n PROVE E(t) <= N
    OBVIOUS
  <2>1. CASE t = n
    BY <1>6, <2>1
  <2>2. CASE t # n
    <3>1. t \in 1 .. Len(l.outputs) /\ n \in t + 1 .. Len(l.prompts) /\ n \in 1 .. n
      BY <1>1, <1>2, <2>2
    <3>2. E(t) <= S(n)
      BY <3>1, PromptsGrow
    <3>3. PICK s \in Nat, z \in Nat : s = S(n) /\ z = Z(n)
      BY <1>5, <3>1
    <3>4. E(n) = s + z
      BY <1>5, <3>1, <3>3
    <3>5. PICK y \in Nat : y = E(t)
      <4>1. S(t) \in Nat /\ Z(t) \in Nat /\ E(t) = S(t) + Z(t)
        BY <1>5
      <4> HIDE DEF S, E, Z
      <4> QED BY <4>1
    <3>6. y <= s /\ s + z = N
      BY <1>6, <3>2, <3>3, <3>4, <3>5
    <3>7. y <= N
      BY <3>6
    <3> QED BY <3>5, <3>7
  <2> QED BY <2>1, <2>2
<1> QED BY <1>1, <1>2, <1>3, <1>4, <1>5, <1>7

\* What the mask selects, one after another, is what the policy said.
LEMMA SelectedIsActions ==
  ASSUME NEW l, IsTyped(l), IsSound(l), Conversation!Complete(l)
  PROVE  Conversation!Selected(Conversation!Alignment(l)) = Conversation!Alignment(l).actions
<1>1. PICK n \in Nat : n = Len(l.outputs)
  BY Records
<1>2. n > 0 /\ DOMAIN l.outputs = 1 .. n /\ n = Len(l.prompts) /\ DOMAIN l.prompts = 1 .. n
  BY <1>1, Records DEF IsSound, Conversation!Complete
<1>3. PICK h \in Seq(Tokens) : h = Conversation!History(l)
  BY TurnsFit
<1>4. PICK N \in Nat : N = Len(h)
  OBVIOUS
<1> DEFINE S(t) == Conversation!InputStart(l, t)
           E(t) == Conversation!InputEnd(l, t)
           Z(t) == Len(l.outputs[t].ids)
<1>5. ASSUME NEW t \in 1 .. n
      PROVE  /\ S(t) \in Nat /\ Z(t) \in Nat /\ Z(t) > 0 /\ E(t) = S(t) + Z(t)
             /\ \A i \in Int : S(t) < i /\ i <= E(t) => Conversation!Marked(l, i)
             /\ t # 1 => E(t - 1) <= S(t)
             /\ \A i \in Int :
                  i <= S(t) /\ (t # 1 => E(t - 1) < i) => ~Conversation!Marked(l, i)
  <2>1. t \in 1 .. Len(l.outputs) /\ t \in DOMAIN l.outputs
    BY <1>1, <1>2
  <2>2. /\ Conversation!InputStart(l, t) \in Nat /\ Len(l.outputs[t].ids) \in Nat
        /\ Len(l.outputs[t].ids) > 0
    BY <2>1, TurnsFit
  <2>3. /\ Conversation!InputEnd(l, t) = Conversation!InputStart(l, t) + Len(l.outputs[t].ids)
        /\ \A i \in Int :
             Conversation!InputStart(l, t) < i /\ i <= Conversation!InputEnd(l, t) =>
               Conversation!Marked(l, i)
        /\ t # 1 => Conversation!InputEnd(l, t - 1) <= Conversation!InputStart(l, t)
        /\ \A i \in Int :
             i <= Conversation!InputStart(l, t) /\ (t # 1 => Conversation!InputEnd(l, t - 1) < i)
               => ~Conversation!Marked(l, i)
    BY <2>1, MarksLie
  <2> QED BY <2>2, <2>3
<1>6. E(n) = N
  BY <1>1, <1>3, <1>4, OutputsLie
<1>7. \A t \in 1 .. n : E(t) <= N
  BY <1>1, <1>3, <1>4, TurnsFit
<1>8. N # 0
  <2>1. n \in 1 .. n
    BY <1>2
  <2>2. S(n) \in Nat /\ Z(n) \in Nat /\ Z(n) > 0 /\ N = S(n) + Z(n)
    BY <1>5, <1>6, <2>1
  <2> HIDE DEF S, Z
  <2> QED BY <2>2
<1> DEFINE ms == [i \in 1 .. N |-> IF Conversation!Marked(l, i) THEN <<h[i]>> ELSE <<>>]
<1>9. /\ ms \in Seq(Seq(Tokens)) /\ Len(ms) = N /\ ms # <<>>
      /\ \A i \in 1 .. N : /\ Conversation!Marked(l, i) =>
                                ms[i] = <<h[i]>> /\ Len(ms[i]) = 1 /\ ms[i][1] = h[i]
                           /\ ~Conversation!Marked(l, i) => Len(ms[i]) = 0
  <2>1. \A i \in 1 .. N : h[i] \in Tokens
    BY <1>4
  <2>2. \A i \in 1 .. N : (IF Conversation!Marked(l, i) THEN <<h[i]>> ELSE <<>>) \in Seq(Tokens)
    BY <2>1
  <2>3. ms \in Seq(Seq(Tokens)) /\ Len(ms) = N
    BY <2>2
  <2> QED BY <1>8, <2>3
<1>10. Conversation!Selected(Conversation!Alignment(l)) = Tools!FlattenSeq(ms)
  <2>1. DOMAIN h = 1 .. N
    BY <1>4
  <2>2. Conversation!Alignment(l).input = h
    BY <1>3 DEF Conversation!Alignment
  <2>3. Conversation!Alignment(l).mask = [i \in 1 .. N |-> Conversation!Marked(l, i)]
    BY <1>3, <1>4 DEF Conversation!Alignment
  <2>4. [i \in DOMAIN Conversation!Alignment(l).input |->
           IF Conversation!Alignment(l).mask[i] THEN <<Conversation!Alignment(l).input[i]>>
           ELSE <<>>] = ms
    BY <2>1, <2>2, <2>3
  <2> HIDE DEF ms
  <2> QED BY <2>4, SameFlattening DEF Conversation!Selected
<1> HIDE DEF ms
<1>11. PICK q : q = Tools!FlattenSeq(ms)
  OBVIOUS
<1>12. PICK e : /\ Places(e, ms) /\ Len(q) = e[N]
                /\ \A i \in 1 .. N : \A k \in 1 .. Len(ms[i]) : q[e[i - 1] + k] = ms[i][k]
  <2>1. PICK T : T = Tokens
    OBVIOUS
  <2>2. ms \in Seq(Seq(T)) /\ ms # <<>> /\ Len(ms) = N
    BY <1>9, <2>1
  <2>3. \E f : /\ Places(f, ms) /\ Len(Tools!FlattenSeq(ms)) = f[Len(ms)]
               /\ \A i \in 1 .. Len(ms) : \A k \in 1 .. Len(ms[i]) :
                    Tools!FlattenSeq(ms)[f[i - 1] + k] = ms[i][k]
    BY ONLY <2>2, FlattenPlaces
  <2> QED BY <1>11, <2>2, <2>3
<1>13. q \in Seq(Tokens)
  <2>1. PICK T : T = Tokens
    OBVIOUS
  <2>2. ms \in Seq(Seq(T)) /\ ms # <<>>
    BY <1>9, <2>1
  <2>3. Tools!FlattenSeq(ms) \in Seq(T)
    BY ONLY <2>2, FlattenPlaces
  <2> QED BY <1>11, <2>1, <2>3
<1>14. /\ e \in [0 .. N -> Nat] /\ e[0] = 0
       /\ \A i \in 1 .. N : e[i] = e[i - 1] + Len(ms[i])
  BY <1>9, <1>12 DEF Places
<1>15. ASSUME NEW i \in 1 .. N
       PROVE  /\ Conversation!Marked(l, i) => e[i] = e[i - 1] + 1 /\ q[e[i]] = h[i]
              /\ ~Conversation!Marked(l, i) => e[i] = e[i - 1]
  <2>1. e[i] = e[i - 1] + Len(ms[i])
    BY <1>14
  <2>2. CASE Conversation!Marked(l, i)
    <3>1. Len(ms[i]) = 1 /\ ms[i][1] = h[i] /\ 1 \in 1 .. Len(ms[i])
      BY <1>9, <2>2
    <3>2. q[e[i - 1] + 1] = h[i]
      BY <1>12, <3>1
    <3> QED BY <2>1, <2>2, <3>1, <3>2
  <2>3. CASE ~Conversation!Marked(l, i)
    <3>1. Len(ms[i]) = 0
      BY <1>9, <2>3
    <3>2. e[i - 1] \in Nat
      <4>1. i - 1 \in 0 .. N
        OBVIOUS
      <4> QED BY <1>14, <4>1
    <3> QED BY <2>1, <2>3, <3>1, <3>2
  <2> QED BY <2>2, <2>3
<1>16. PICK c : Cursor(c, l)
  BY CursorLoop
<1>17. /\ c \in [0 .. n -> Nat] /\ c[0] = 0 /\ \A t \in 1 .. n : c[t] = c[t - 1] + Z(t)
  BY <1>1, <1>16 DEF Cursor
<1> HIDE DEF S, E, Z
<1> DEFINE Told(t) == e[E(t)] = c[t] /\ \A k \in 0 .. Z(t) : e[S(t) + k] = c[t - 1] + k
           K == {t \in 0 .. n : t # 0 => Told(t)}
<1>18. 0 \in K
  OBVIOUS
<1>19. ASSUME NEW t \in 1 .. n, t - 1 \in K PROVE t \in K
  <2>1. PICK s \in Nat, z \in Nat : s = S(t) /\ z = Z(t)
    BY <1>5
  <2>2. E(t) = s + z /\ s + z <= N /\ s <= s + z /\ s + z \in Nat
    BY <1>5, <1>7, <2>1
  <2>3. PICK p \in Nat : /\ p <= s /\ e[p] = c[t - 1]
                         /\ \A i \in Int : i <= s /\ p < i => ~Conversation!Marked(l, i)
    <3>1. CASE t = 1
      <4>1. \A i \in Int : i <= s => ~Conversation!Marked(l, i)
        BY <1>5, <2>1, <3>1
      <4>2. e[0] = c[t - 1] /\ 0 \in Nat /\ 0 <= s
        BY <1>14, <1>17, <3>1
      <4> QED BY <4>1, <4>2
    <3>2. CASE t # 1
      <4>1. t - 1 \in 1 .. n /\ t - 1 # 0
        BY <3>2
      <4>2. e[E(t - 1)] = c[t - 1]
        BY <1>19, <4>1
      <4>3. S(t - 1) \in Nat /\ Z(t - 1) \in Nat /\ E(t - 1) = S(t - 1) + Z(t - 1)
        BY <1>5, <4>1
      <4>4. E(t - 1) \in Nat
        BY <4>3
      <4>5. E(t - 1) <= s /\ \A i \in Int : i <= s /\ E(t - 1) < i => ~Conversation!Marked(l, i)
        BY <1>5, <2>1, <3>2
      <4> QED BY <4>2, <4>4, <4>5
    <3> QED BY <3>1, <3>2
  <2>4. e[s] = c[t - 1]
    <3>1. Still(e, p, s)
      <4> SUFFICES ASSUME NEW i \in p + 1 .. s PROVE e[i] = e[i - 1]
        BY DEF Still
      <4>1. i \in 1 .. N /\ i \in Int /\ i <= s /\ p < i
        BY <2>2, <2>3
      <4> QED BY <1>15, <2>3, <4>1
    <3>2. s <= N
      BY <2>2
    <3>4. N \in Nat /\ e \in [0 .. N -> Nat] /\ p \in Nat /\ s \in Nat /\ p <= s /\ s <= N
      BY <1>14, <2>3, <3>2
    <3>5. Stays(e, p, s)
      BY ONLY <3>1, <3>4, Steady
    <3>3. e[s] = e[p]
      BY <3>5 DEF Stays
    <3> QED BY <2>3, <3>3
  <2>5. \A k \in 0 .. z : e[s + k] = c[t - 1] + k
    <3>1. Climbs(e, s, s + z)
      <4> SUFFICES ASSUME NEW i \in s + 1 .. s + z PROVE e[i] = e[i - 1] + 1
        BY DEF Climbs
      <4>1. i \in 1 .. N /\ i \in Int /\ s < i /\ i <= s + z
        BY <2>2
      <4>2. Conversation!Marked(l, i)
        BY <1>5, <2>1, <2>2, <4>1
      <4> QED BY <1>15, <4>1, <4>2
    <3>2. PICK b : b = s + z
      OBVIOUS
    <3>4. /\ N \in Nat /\ e \in [0 .. N -> Nat] /\ s \in Nat /\ b \in Nat
          /\ s <= b /\ b <= N /\ b - s = z /\ Climbs(e, s, b)
      BY <1>14, <2>2, <3>1, <3>2
    <3>3. Rises(e, s, b)
      BY ONLY <3>4, Steady
    <3> QED BY <2>4, <3>2, <3>3, <3>4 DEF Rises
  <2>6. e[s + z] = c[t - 1] + z /\ c[t] = c[t - 1] + z
    <3>1. z \in 0 .. z
      OBVIOUS
    <3> QED BY <1>17, <2>1, <2>5, <3>1
  <2>7. Told(t)
    BY <2>1, <2>2, <2>5, <2>6
  <2>8. t \in 0 .. n
    OBVIOUS
  <2> HIDE DEF Told
  <2> QED BY <2>7, <2>8
<1>20. \A t \in 1 .. n : Told(t)
  <2>1. 0 .. n \subseteq K
    <3> HIDE DEF K
    <3> QED BY <1>18, <1>19, UpToInd
  <2>2. \A t \in 1 .. n : t \in 0 .. n /\ t # 0
    OBVIOUS
  <2> HIDE DEF Told
  <2> QED BY <2>1, <2>2
<1>21. PICK a : a = Conversation!Alignment(l).actions
  OBVIOUS
<1>22. /\ a \in Seq(Tokens) /\ Len(a) = c[n]
       /\ \A t \in 1 .. n : \A k \in 1 .. Z(t) : a[c[t - 1] + k] = l.outputs[t].ids[k]
       /\ \A m \in 1 .. c[n] : \E t \in 1 .. n : \E k \in 1 .. Z(t) : m = c[t - 1] + k
  <2>1. Len(l.outputs) > 0 /\ Len(l.outputs) = n
    BY <1>1, <1>2
  <2>2. InTurns(a, l, c)
    BY <1>16, <1>21, <2>1, ActionsLie
  <2> QED BY <2>1, <2>2 DEF InTurns, Z
<1>23. Len(q) = c[n]
  <2>1. n \in 1 .. n
    BY <1>2
  <2>2. e[E(n)] = c[n]
    BY <1>20, <2>1
  <2> QED BY <1>6, <1>12, <2>2
<1>24. ASSUME NEW m \in 1 .. c[n] PROVE q[m] = a[m]
  <2>1. PICK t \in 1 .. n : \E k \in 1 .. Z(t) : m = c[t - 1] + k
    BY <1>22
  <2>2. PICK k \in 1 .. Z(t) : m = c[t - 1] + k
    BY <2>1
  <2>3. PICK s \in Nat, z \in Nat : s = S(t) /\ z = Z(t)
    BY <1>5
  <2>4. E(t) = s + z /\ s + z <= N
    BY <1>5, <1>7, <2>3
  <2>5. k \in 0 .. z /\ s + k \in 1 .. N /\ s + k \in Int /\ s < s + k /\ s + k <= s + z
    BY <2>2, <2>3, <2>4, SMTT(30)
  <2>6. e[s + k] = m
    BY <1>20, <2>2, <2>3, <2>5
  <2>7. Conversation!Marked(l, s + k)
    BY <1>5, <2>3, <2>4, <2>5
  <2>8. q[m] = h[s + k]
    BY <1>15, <2>5, <2>6, <2>7
  <2>9. h[s + k] = l.outputs[t].ids[k]
    <3>1. t \in 1 .. Len(l.outputs) /\ k \in 1 .. Len(l.outputs[t].ids)
      BY <1>1, <2>2 DEF Z
    <3> QED BY <1>3, <2>3, <3>1, OutputsLie DEF S
  <2> QED BY <1>22, <2>2, <2>8, <2>9
<1>25. q = a
  <2>1. q = [m \in 1 .. Len(q) |-> q[m]] /\ a = [m \in 1 .. Len(a) |-> a[m]]
    BY <1>13, <1>22
  <2> QED BY <1>22, <1>23, <1>24, <2>1
<1> QED BY <1>10, <1>11, <1>21, <1>25

----------------------------------------------------------------------------
(* The turns of an alignment *)

\* A stretch of an output is the same tokens in the input and in the actions.
LEMMA TurnSlices ==
  ASSUME NEW l, IsTyped(l), IsSound(l), Conversation!Complete(l), NEW c, Cursor(c, l),
         NEW t \in 1 .. Len(l.outputs), NEW p \in Nat, NEW q \in Nat,
         p <= q, q <= Len(l.outputs[t].ids)
  PROVE  SubSeq(Conversation!Alignment(l).input, Conversation!InputStart(l, t) + p + 1,
                Conversation!InputStart(l, t) + q) =
           SubSeq(Conversation!Alignment(l).actions, Conversation!ActionStart(l, t) + p + 1,
                  Conversation!ActionStart(l, t) + q)
<1>1. Len(l.outputs) > 0 /\ Len(l.outputs) \in Nat
  BY TurnsFit, Records
<1>2. PICK h \in Seq(Tokens) : h = Conversation!History(l)
  BY TurnsFit
<1>3. PICK a : a = Conversation!Alignment(l).actions
  OBVIOUS
<1>4. InTurns(a, l, c)
  BY <1>1, <1>3, ActionsLie
<1>5. PICK ids : ids = l.outputs[t].ids
  OBVIOUS
<1>6. PICK s \in Nat, d \in Nat, z \in Nat : /\ s = Conversation!InputStart(l, t)
                                             /\ d = c[t - 1] /\ z = Len(ids)
  BY <1>4, <1>5, TurnsFit DEF InTurns
<1>7. a \in Seq(Tokens) /\ \A k \in 1 .. z : a[d + k] = ids[k]
  BY <1>4, <1>5, <1>6 DEF InTurns
<1>8. \A k \in 1 .. z : h[s + k] = ids[k]
  <2>1. \A k \in 1 .. Len(l.outputs[t].ids) :
          Conversation!History(l)[Conversation!InputStart(l, t) + k] = l.outputs[t].ids[k]
    BY OutputsLie
  <2> QED BY <1>2, <1>5, <1>6, <2>1
<1>9. s + z <= Len(h) /\ Len(h) \in Nat
  BY <1>2, <1>5, <1>6, TurnsFit
<1>10. d + z <= Len(a) /\ Len(a) \in Nat
  <2>1. c[t] = d + z
    BY <1>5, <1>6 DEF Cursor
  <2> QED BY <1>4, <1>7, <2>1 DEF InTurns
<1>19. p \in Nat /\ q \in Nat /\ p <= q /\ q <= z
  BY <1>5, <1>6
<1>11. PICK i \in Nat : i = s + p
  OBVIOUS
<1>12. PICK j \in Nat : j = d + p
  OBVIOUS
<1>13. PICK m \in Nat : m = q - p
  OBVIOUS
<1>14. i + m = s + q /\ j + m = d + q /\ i + m <= Len(h) /\ j + m <= Len(a)
  BY <1>9, <1>10, <1>11, <1>12, <1>13, <1>19
<1>15. ASSUME NEW k \in 1 .. m PROVE h[i + k] = a[j + k]
  <2>1. PICK v : v = p + k
    OBVIOUS
  <2>2. v \in 1 .. z /\ i + k = s + v /\ j + k = d + v
    BY <1>11, <1>12, <1>13, <1>19, <2>1
  <2> QED BY <1>7, <1>8, <2>2
<1>16. SubSeq(h, i + 1, i + m) = SubSeq(a, j + 1, j + m)
  <2>1. PICK T : T = Tokens
    OBVIOUS
  <2>2. /\ h \in Seq(T) /\ a \in Seq(T) /\ i \in Nat /\ j \in Nat /\ m \in Nat
        /\ Agree(h, i, a, j, m)
    BY <1>7, <1>14, <1>15, <2>1 DEF Agree
  <2>3. OneSlice(h, i, a, j, m)
    BY ONLY <2>2, SameSlices
  <2> QED BY <2>3 DEF OneSlice
<1>17. Conversation!ActionStart(l, t) = d
  BY <1>6 DEF Cursor
<1>18. Conversation!Alignment(l).input = h
  BY <1>2 DEF Conversation!Alignment
<1> QED BY <1>3, <1>6, <1>11, <1>12, <1>14, <1>16, <1>17, <1>18

\* What is asked of the spans of an alignment.
Cuts(spans, l) ==
    /\ Conversation!Consecutive(spans, Len(Conversation!Alignment(l).actions))
    /\ \A i \in DOMAIN spans :
         /\ spans[i].actionStart < spans[i].actionEnd
         /\ SubSeq(Conversation!Alignment(l).input, spans[i].inputStart + 1,
                   spans[i].inputEnd) =
              SubSeq(Conversation!Alignment(l).actions, spans[i].actionStart + 1,
                     spans[i].actionEnd)

LEMMA TurnsCut ==
  ASSUME NEW l, IsTyped(l), IsSound(l), Conversation!Complete(l)
  PROVE  /\ Cuts(Conversation!Alignment(l).turns, l)
         /\ \A t \in DOMAIN Conversation!Alignment(l).turns :
              /\ Conversation!Alignment(l).turns[t].inputEnd <=
                   Len(Conversation!Alignment(l).input)
              /\ Conversation!Alignment(l).turns[t].actionEnd <=
                   Len(Conversation!Alignment(l).actions)
         /\ Conversation!Alignment(l).mask =
              [i \in 1 .. Len(Conversation!Alignment(l).input) |->
                 \E t \in DOMAIN Conversation!Alignment(l).turns :
                   /\ Conversation!Alignment(l).turns[t].inputStart < i
                   /\ i <= Conversation!Alignment(l).turns[t].inputEnd]
<1>1. PICK n \in Nat : n = Len(l.outputs)
  BY Records
<1>2. n > 0 /\ DOMAIN l.outputs = 1 .. n
  BY <1>1, TurnsFit, Records
<1>3. PICK c : Cursor(c, l)
  BY CursorLoop
<1>4. PICK ts : ts = Conversation!Alignment(l).turns
  OBVIOUS
<1>5. PICK a : a = Conversation!Alignment(l).actions
  OBVIOUS
<1>6. ts = [t \in 1 .. n |-> Conversation!Turn(l, t)]
  BY <1>2, <1>4 DEF Conversation!Alignment
<1>7. DOMAIN ts = 1 .. n /\ Len(ts) = n
  BY <1>6
<1>8. InTurns(a, l, c)
  BY <1>1, <1>2, <1>3, <1>5, ActionsLie
<1>9. ASSUME NEW t \in 1 .. n
      PROVE  /\ ts[t].inputStart = Conversation!InputStart(l, t)
             /\ ts[t].inputEnd = Conversation!InputEnd(l, t)
             /\ ts[t].actionStart = c[t - 1] /\ ts[t].actionEnd = c[t]
             /\ c[t - 1] \in Nat /\ c[t] \in Nat /\ c[t] <= Len(a) /\ c[t - 1] < c[t]
             /\ Conversation!InputEnd(l, t) <= Len(Conversation!Alignment(l).input)
             /\ SubSeq(Conversation!Alignment(l).input, ts[t].inputStart + 1, ts[t].inputEnd) =
                  SubSeq(a, ts[t].actionStart + 1, ts[t].actionEnd)
  <2>1. t \in 1 .. Len(l.outputs)
    BY <1>1
  <2>2. PICK z \in Nat : z = Len(l.outputs[t].ids) /\ z > 0
    BY <2>1, TurnsFit
  <2>3. c[t] = c[t - 1] + z /\ Conversation!ActionStart(l, t) = c[t - 1]
    BY <1>3, <2>1, <2>2 DEF Cursor
  <2>4. c[t - 1] \in Nat /\ c[t] \in Nat /\ c[t] <= Len(a)
    BY <1>8, <2>1 DEF InTurns
  <2>5. c[t - 1] < c[t]
    BY <2>2, <2>3, <2>4
  <2>6. ts[t] = Conversation!Turn(l, t)
    BY <1>6
  <2>7. /\ ts[t].inputStart = Conversation!InputStart(l, t)
        /\ ts[t].inputEnd = Conversation!InputEnd(l, t)
        /\ ts[t].actionStart = c[t - 1] /\ ts[t].actionEnd = c[t]
    BY <2>2, <2>3, <2>6 DEF Conversation!Turn
  <2>8. Conversation!InputEnd(l, t) <= Len(Conversation!Alignment(l).input)
    BY <2>1, TurnsFit DEF Conversation!Alignment
  <2>9. SubSeq(Conversation!Alignment(l).input, Conversation!InputStart(l, t) + 0 + 1,
               Conversation!InputStart(l, t) + z) =
          SubSeq(Conversation!Alignment(l).actions, Conversation!ActionStart(l, t) + 0 + 1,
                 Conversation!ActionStart(l, t) + z)
    <3>1. 0 \in Nat /\ 0 <= z /\ z <= Len(l.outputs[t].ids)
      BY <2>2
    <3> QED BY <1>3, <2>1, <3>1, TurnSlices
  <2>10. PICK s \in Nat, d \in Nat : s = Conversation!InputStart(l, t) /\ d = c[t - 1]
    BY <2>1, <2>4, TurnsFit
  <2>11. Conversation!InputEnd(l, t) = s + z
    BY <2>1, <2>2, <2>10, TurnsFit
  <2>12. s + 0 + 1 = s + 1 /\ d + 0 + 1 = d + 1
    OBVIOUS
  <2>13. SubSeq(Conversation!Alignment(l).input, s + 1, s + z) = SubSeq(a, d + 1, d + z)
    BY <1>5, <2>3, <2>9, <2>10, <2>12
  <2> QED BY <2>3, <2>4, <2>5, <2>7, <2>8, <2>10, <2>11, <2>13
<1>10. Conversation!Consecutive(ts, Len(a))
  <2>1. c[0] = 0 /\ Len(a) = c[n]
    BY <1>1, <1>3, <1>8 DEF Cursor, InTurns
  <2>2. 1 \in 1 .. n /\ n \in 1 .. n /\ 1 - 1 = 0
    BY <1>2
  <2>3. ts[1].actionStart = 0 /\ ts[n].actionEnd = Len(a)
    BY <1>9, <2>1, <2>2
  <2>4. \A i \in 1 .. n - 1 : ts[i + 1].actionStart = ts[i].actionEnd
    <3> SUFFICES ASSUME NEW i \in 1 .. n - 1 PROVE ts[i + 1].actionStart = ts[i].actionEnd
      OBVIOUS
    <3>1. PICK j : j = i + 1
      OBVIOUS
    <3>2. i \in 1 .. n /\ j \in 1 .. n /\ j - 1 = i
      BY <3>1
    <3>3. ts[j].actionStart = c[j - 1] /\ ts[i].actionEnd = c[i]
      BY <1>9, <3>2
    <3> QED BY <3>1, <3>2, <3>3
  <2> QED BY <1>2, <1>7, <2>3, <2>4 DEF Conversation!Consecutive
<1>11. \A t \in DOMAIN ts :
         /\ ts[t].actionStart < ts[t].actionEnd
         /\ SubSeq(Conversation!Alignment(l).input, ts[t].inputStart + 1, ts[t].inputEnd) =
              SubSeq(a, ts[t].actionStart + 1, ts[t].actionEnd)
  <2> SUFFICES ASSUME NEW t \in 1 .. n
               PROVE  /\ ts[t].actionStart < ts[t].actionEnd
                      /\ SubSeq(Conversation!Alignment(l).input, ts[t].inputStart + 1,
                                ts[t].inputEnd) =
                           SubSeq(a, ts[t].actionStart + 1, ts[t].actionEnd)
    BY <1>7
  <2> QED BY <1>9
<1>12. Cuts(Conversation!Alignment(l).turns, l)
  BY <1>4, <1>5, <1>10, <1>11 DEF Cuts
<1>13. \A t \in DOMAIN ts : /\ ts[t].inputEnd <= Len(Conversation!Alignment(l).input)
                            /\ ts[t].actionEnd <= Len(a)
  BY <1>7, <1>9
<1>14. \A i : (\E t \in DOMAIN ts : ts[t].inputStart < i /\ i <= ts[t].inputEnd) <=>
         Conversation!Marked(l, i)
  BY <1>2, <1>7, <1>9 DEF Conversation!Marked
<1>15. Conversation!Alignment(l).mask =
         [i \in 1 .. Len(Conversation!Alignment(l).input) |-> Conversation!Marked(l, i)]
  BY DEF Conversation!Alignment
<1>16. Conversation!Alignment(l).mask =
         [i \in 1 .. Len(Conversation!Alignment(l).input) |->
            \E t \in DOMAIN ts : ts[t].inputStart < i /\ i <= ts[t].inputEnd]
  <2> DEFINE P(i) == \E t \in DOMAIN ts : ts[t].inputStart < i /\ i <= ts[t].inputEnd
  <2>1. \A i : P(i) = Conversation!Marked(l, i)
    BY <1>14, Zenon DEF Conversation!Marked
  <2> HIDE DEF P
  <2>2. Conversation!Alignment(l).mask =
          [i \in 1 .. Len(Conversation!Alignment(l).input) |-> P(i)]
    BY <1>15, <2>1
  <2> QED BY <2>2 DEF P
<1> QED BY <1>4, <1>5, <1>12, <1>13, <1>16

----------------------------------------------------------------------------
(* The segments of an alignment *)

SpanRecord == [inputStart : Nat, inputEnd : Nat, actionStart : Nat, actionEnd : Nat]

\* The spans of one turn.
SpansIn(r, l, c, t) ==
    /\ r \in Seq(SpanRecord) /\ Len(r) \in Nat \ {0}
    /\ r[1].actionStart = c[t - 1] /\ r[Len(r)].actionEnd = c[t]
    /\ \A s \in 1 .. Len(r) :
         /\ r[s].actionStart < r[s].actionEnd
         /\ SubSeq(Conversation!Alignment(l).input, r[s].inputStart + 1, r[s].inputEnd) =
              SubSeq(Conversation!Alignment(l).actions, r[s].actionStart + 1, r[s].actionEnd)
    /\ \A s \in 1 .. Len(r) - 1 : r[s + 1].actionStart = r[s].actionEnd

LEMMA SpansOfTurn ==
  ASSUME NEW l, IsTyped(l), IsSound(l), Conversation!Complete(l), NEW c, Cursor(c, l),
         NEW t \in 1 .. Len(l.outputs)
  PROVE  SpansIn(Conversation!Segments(l, t), l, c, t)
<1>1. PICK g : g = l.outputs[t].segments
  OBVIOUS
<1>2. PICK r : r = Conversation!Segments(l, t)
  OBVIOUS
<1>3. PICK z \in Nat : z = Len(l.outputs[t].ids)
  BY TurnsFit
<1>4. l.outputs[t] \in OutputRecord /\ Conversation!Covers(l.outputs[t].ids, g)
  <2>1. t \in DOMAIN l.outputs
    BY Records
  <2> QED BY <1>1, <2>1, Records DEF IsSound
<1>5. PICK m \in Nat : m = Len(g) /\ m > 0
  BY <1>1, <1>4, SegmentsFit, SMTT(30)
<1>6. /\ DOMAIN g = 1 .. m
      /\ \A i \in 1 .. m : g[i].start \in Nat /\ g[i].end \in Nat /\ g[i].end <= z
  BY <1>1, <1>3, <1>4, <1>5, SegmentsFit
<1>7. /\ g[1].start = 0 /\ g[m].end = z
      /\ \A i \in 1 .. m : g[i].start < g[i].end
      /\ \A i \in 1 .. m - 1 : g[i + 1].start = g[i].end
  BY <1>3, <1>4, <1>5, <1>6 DEF Conversation!Covers
<1>8. PICK p \in Nat, d \in Nat : p = Conversation!InputStart(l, t) /\ d = c[t - 1]
  <2>1. c[t - 1] \in Nat
    <3>1. t - 1 \in 0 .. Len(l.outputs)
      BY Records
    <3> QED BY <3>1 DEF Cursor
  <2> QED BY <2>1, TurnsFit
<1>9. Conversation!ActionStart(l, t) = d /\ c[t] = d + z
  BY <1>3, <1>8 DEF Cursor
<1>10. r = [s \in 1 .. m |-> [inputStart |-> p + g[s].start, inputEnd |-> p + g[s].end,
                              actionStart |-> d + g[s].start, actionEnd |-> d + g[s].end]]
  BY <1>1, <1>2, <1>6, <1>8, <1>9 DEF Conversation!Segments
<1>11. ASSUME NEW s \in 1 .. m
       PROVE  /\ r[s].inputStart = p + g[s].start /\ r[s].inputEnd = p + g[s].end
              /\ r[s].actionStart = d + g[s].start /\ r[s].actionEnd = d + g[s].end
              /\ r[s] \in SpanRecord
  <2>1. PICK u \in Nat, v \in Nat : u = g[s].start /\ v = g[s].end
    BY <1>6
  <2>2. r[s] = [inputStart |-> p + u, inputEnd |-> p + v,
                actionStart |-> d + u, actionEnd |-> d + v]
    BY <1>10, <2>1
  <2>3. p + u \in Nat /\ p + v \in Nat /\ d + u \in Nat /\ d + v \in Nat
    OBVIOUS
  <2> QED BY <2>1, <2>2, <2>3 DEF SpanRecord
<1>12. r \in Seq(SpanRecord) /\ Len(r) = m /\ DOMAIN r = 1 .. m
  <2>1. \A s \in 1 .. m : r[s] \in SpanRecord
    BY <1>11
  <2>2. r = [s \in 1 .. m |-> r[s]]
    BY <1>10
  <2>3. [s \in 1 .. m |-> r[s]] \in [1 .. m -> SpanRecord]
    BY <2>1
  <2>4. r \in Seq(SpanRecord)
    BY <2>2, <2>3
  <2> QED BY <1>10, <2>4
<1>13. r[1].actionStart = c[t - 1] /\ r[m].actionEnd = c[t]
  <2>1. 1 \in 1 .. m /\ m \in 1 .. m
    BY <1>5
  <2>2. r[1].actionStart = d + g[1].start /\ r[m].actionEnd = d + g[m].end
    BY <1>11, <2>1
  <2>3. d + 0 = d
    OBVIOUS
  <2> QED BY <1>7, <1>8, <1>9, <2>2, <2>3
<1>14. ASSUME NEW s \in 1 .. m
       PROVE  /\ r[s].actionStart < r[s].actionEnd
              /\ SubSeq(Conversation!Alignment(l).input, r[s].inputStart + 1, r[s].inputEnd) =
                   SubSeq(Conversation!Alignment(l).actions, r[s].actionStart + 1,
                          r[s].actionEnd)
  <2>1. PICK u \in Nat, v \in Nat : u = g[s].start /\ v = g[s].end
    BY <1>6
  <2>2. u < v /\ u <= v /\ v <= z
    BY <1>6, <1>7, <2>1
  <2>3. /\ r[s].inputStart = p + u /\ r[s].inputEnd = p + v
        /\ r[s].actionStart = d + u /\ r[s].actionEnd = d + v
    BY <1>11, <2>1
  <2>4. SubSeq(Conversation!Alignment(l).input, Conversation!InputStart(l, t) + u + 1,
               Conversation!InputStart(l, t) + v) =
          SubSeq(Conversation!Alignment(l).actions, Conversation!ActionStart(l, t) + u + 1,
                 Conversation!ActionStart(l, t) + v)
    BY <1>3, <2>2, TurnSlices, ZenonT(60)
  <2>5. d + u < d + v
    BY <2>2
  <2> QED BY <1>8, <1>9, <2>3, <2>4, <2>5
<1>15. ASSUME NEW s \in 1 .. m - 1 PROVE r[s + 1].actionStart = r[s].actionEnd
  <2>1. PICK u : u = s + 1
    OBVIOUS
  <2>2. u \in 1 .. m /\ s \in 1 .. m
    BY <2>1
  <2>3. r[u].actionStart = d + g[u].start /\ r[s].actionEnd = d + g[s].end
    BY <1>11, <2>2
  <2> QED BY <1>7, <2>1, <2>3
<1>16. Len(r) \in Nat \ {0}
  BY <1>5, <1>12
<1>17. SpansIn(r, l, c, t)
  BY <1>12, <1>13, <1>14, <1>15, <1>16 DEF SpansIn
<1> QED BY <1>2, <1>17

\* The segments of all turns, one after another.
LEMMA SegmentsCut ==
  ASSUME NEW l, IsTyped(l), IsSound(l), Conversation!Complete(l)
  PROVE  Cuts(Conversation!Alignment(l).segments, l)
<1>1. PICK n \in Nat : n = Len(l.outputs)
  BY Records
<1>2. n > 0 /\ DOMAIN l.outputs = 1 .. n
  BY <1>1, TurnsFit, Records
<1>3. PICK c : Cursor(c, l)
  BY CursorLoop
<1>4. PICK S : S = SpanRecord
  OBVIOUS
<1> DEFINE rs == [t \in DOMAIN l.outputs |-> Conversation!Segments(l, t)]
           Same(r) ==
             SubSeq(Conversation!Alignment(l).input, r.inputStart + 1, r.inputEnd) =
               SubSeq(Conversation!Alignment(l).actions, r.actionStart + 1, r.actionEnd)
<1>5. ASSUME NEW t \in 1 .. n
      PROVE  /\ rs[t] \in Seq(S) /\ Len(rs[t]) \in Nat /\ Len(rs[t]) > 0
             /\ rs[t][1].actionStart = c[t - 1] /\ rs[t][Len(rs[t])].actionEnd = c[t]
             /\ \A s \in 1 .. Len(rs[t]) :
                  rs[t][s].actionStart < rs[t][s].actionEnd /\ Same(rs[t][s])
             /\ \A s \in 1 .. Len(rs[t]) - 1 :
                  rs[t][s + 1].actionStart = rs[t][s].actionEnd
  <2>1. rs[t] = Conversation!Segments(l, t) /\ t \in 1 .. Len(l.outputs)
    BY <1>1, <1>2
  <2> HIDE DEF rs, Same
  <2>2. SpansIn(rs[t], l, c, t)
    BY <1>3, <2>1, SpansOfTurn
  <2>3. Len(rs[t]) \in Nat \ {0}
    BY <2>2 DEF SpansIn
  <2>4. Len(rs[t]) \in Nat /\ Len(rs[t]) > 0
    BY <2>3
  <2> QED BY <1>4, <2>2, <2>4 DEF SpansIn, Same
<1>6. rs \in Seq(Seq(S)) /\ Len(rs) = n /\ rs # <<>>
  <2>1. rs = [t \in 1 .. n |-> rs[t]] /\ DOMAIN rs = 1 .. n
    BY <1>2
  <2> HIDE DEF rs
  <2>2. \A t \in 1 .. n : rs[t] \in Seq(S)
    BY <1>5
  <2>3. [t \in 1 .. n |-> rs[t]] \in [1 .. n -> Seq(S)]
    BY <2>2
  <2>4. rs \in Seq(Seq(S))
    BY <2>1, <2>3
  <2>5. Len(rs) = n
    BY <2>1, <2>4
  <2>6. rs # <<>>
    BY <1>2, <2>5
  <2> QED BY <2>4, <2>5, <2>6
<1>7. PICK q : q = Conversation!Alignment(l).segments
  OBVIOUS
<1>8. q = Tools!FlattenSeq(rs)
  BY <1>7, SameFlattening DEF Conversation!Alignment
<1> HIDE DEF rs, Same
<1>9. PICK d : /\ Places(d, rs) /\ Len(q) = d[n]
               /\ \A t \in 1 .. n : \A s \in 1 .. Len(rs[t]) : q[d[t - 1] + s] = rs[t][s]
  <2>1. \E f : /\ Places(f, rs) /\ Len(Tools!FlattenSeq(rs)) = f[Len(rs)]
               /\ \A t \in 1 .. Len(rs) : \A k \in 1 .. Len(rs[t]) :
                    Tools!FlattenSeq(rs)[f[t - 1] + k] = rs[t][k]
    BY ONLY <1>6, FlattenPlaces
  <2> QED BY <1>6, <1>8, <2>1
<1>10. q \in Seq(S)
  BY <1>6, <1>8, FlattenPlaces
<1>11. /\ d[0] = 0 /\ \A t \in 0 .. n : d[t] \in Nat
       /\ \A t \in 1 .. n : d[t] = d[t - 1] + Len(rs[t])
  BY <1>6, <1>9 DEF Places
<1>12. \A i \in 1 .. d[n] : \E t \in 1 .. n : \E s \in 1 .. Len(rs[t]) : i = d[t - 1] + s
  <2>1. Filled(d, rs)
    <3>1. Places(d, rs) /\ rs \in Seq(Seq(S))
      BY <1>6, <1>9
    <3> QED BY ONLY <3>1, Located
  <2> QED BY <1>6, <2>1 DEF Filled
<1>13. ASSUME NEW i \in 1 .. d[n] PROVE q[i].actionStart < q[i].actionEnd /\ Same(q[i])
  <2>3. PICK t \in 1 .. n : \E s \in 1 .. Len(rs[t]) : i = d[t - 1] + s
    BY <1>12
  <2>1. PICK s \in 1 .. Len(rs[t]) : i = d[t - 1] + s
    BY <2>3
  <2>2. q[i] = rs[t][s]
    BY <1>9, <2>1
  <2> QED BY <1>5, <2>2
<1>14. ASSUME NEW i \in 1 .. d[n] - 1 PROVE q[i + 1].actionStart = q[i].actionEnd
  <2>1. d[n] \in Nat
    BY <1>2, <1>11
  <2>8. i \in 1 .. d[n]
    BY <2>1
  <2>9. PICK t \in 1 .. n : \E s \in 1 .. Len(rs[t]) : i = d[t - 1] + s
    BY <1>12, <2>8
  <2>2. PICK s \in 1 .. Len(rs[t]) : i = d[t - 1] + s
    BY <2>9
  <2>3. q[i] = rs[t][s]
    BY <1>9, <2>2
  <2>4. PICK m \in Nat, b \in Nat : m = Len(rs[t]) /\ b = d[t - 1]
    <3>1. t - 1 \in 0 .. n
      OBVIOUS
    <3> QED BY <1>5, <1>11, <3>1
  <2>5. s \in 1 .. m /\ i = b + s /\ d[t] = b + m
    BY <1>11, <2>2, <2>4
  <2>6. CASE s < m
    <3>1. PICK u : u = s + 1
      OBVIOUS
    <3>4. u \in 1 .. m /\ s \in 1 .. m - 1 /\ i + 1 = b + u
      BY <2>5, <2>6, <3>1
    <3>2. u \in 1 .. Len(rs[t]) /\ s \in 1 .. Len(rs[t]) - 1 /\ i + 1 = b + u
      BY <2>4, <3>4
    <3>3. q[i + 1] = rs[t][u]
      BY <1>9, <2>4, <3>2
    <3> QED BY <1>5, <2>3, <3>1, <3>2, <3>3
  <2>7. CASE ~(s < m)
    <3>1. s = m /\ i = d[t]
      BY <2>5, <2>7
    <3>2. q[i].actionEnd = c[t]
      BY <1>5, <2>3, <2>4, <3>1
    <3>3. t # n
      BY <2>1, <3>1
    <3>4. PICK u : u = t + 1
      OBVIOUS
    <3>5. u \in 1 .. n /\ u - 1 = t
      BY <3>3, <3>4
    <3>6. 1 \in 1 .. Len(rs[u]) /\ rs[u][1].actionStart = c[t]
      BY <1>5, <3>5
    <3>7. q[d[t] + 1] = rs[u][1]
      BY <1>9, <3>5, <3>6
    <3> QED BY <3>1, <3>2, <3>6, <3>7
  <2> QED BY <2>6, <2>7
<1>15. d[n] \in Nat /\ d[n] > 0 /\ q[1].actionStart = 0 /\ q[d[n]].actionEnd = c[n]
  <2>1. 1 \in 1 .. n /\ n \in 1 .. n /\ 1 - 1 = 0
    BY <1>2
  <2>2. PICK m \in Nat, b \in Nat : m = Len(rs[n]) /\ b = d[n - 1]
    <3>1. n - 1 \in 0 .. n
      BY <1>2
    <3> QED BY <1>5, <1>11, <2>1, <3>1
  <2>3. m > 0 /\ d[n] = b + m /\ m \in 1 .. Len(rs[n])
    BY <1>5, <1>11, <2>1, <2>2
  <2>4. q[d[n]] = rs[n][m]
    BY <1>9, <2>1, <2>2, <2>3
  <2>5. q[d[n]].actionEnd = c[n]
    BY <1>5, <2>1, <2>2, <2>4
  <2>6. 1 \in 1 .. Len(rs[1])
    BY <1>5, <2>1
  <2>7. q[d[0] + 1] = rs[1][1]
    BY <1>9, <2>1, <2>6
  <2>8. rs[1][1].actionStart = c[0] /\ c[0] = 0
    BY <1>3, <1>5, <2>1 DEF Cursor
  <2>9. d[0] + 1 = 1
    BY <1>11
  <2> QED BY <2>3, <2>5, <2>7, <2>8, <2>9
<1>16. c[n] = Len(Conversation!Alignment(l).actions)
  <2>1. InTurns(Conversation!Alignment(l).actions, l, c)
    BY <1>1, <1>2, <1>3, ActionsLie
  <2> QED BY <1>1, <2>1 DEF InTurns
<1>17. Conversation!Consecutive(q, Len(Conversation!Alignment(l).actions))
  BY <1>9, <1>14, <1>15, <1>16 DEF Conversation!Consecutive
<1>18. DOMAIN q = 1 .. d[n]
  BY <1>9, <1>10, <1>15
<1>19. Cuts(q, l)
  BY <1>13, <1>17, <1>18 DEF Cuts, Same
<1> QED BY <1>7, <1>19

----------------------------------------------------------------------------
(* What an alignment trains on *)

\* What the ledger invariant says of the mask, and the rest of the properties of a trained
\* conversation.
LEMMA LossIsOnThePolicyFrom ==
  ASSUME LedgerInv
  PROVE  Conversation!LossIsOnThePolicy
<1> SUFFICES ASSUME ledger # None, Conversation!Trainable(ledger)
             PROVE  LET a == Conversation!Alignment(ledger)
                    IN  /\ Conversation!Aligned(ledger) /\ Conversation!AuditAccepts(a)
                        /\ damages <= 1 =>
                             \A i \in 1 .. Len(said) : a.mask[i] <=> said[i].by = "policy"
                        /\ \A spans \in {a.turns, a.segments} : \A i \in DOMAIN spans :
                             /\ spans[i].actionStart < spans[i].actionEnd
                             /\ SubSeq(a.input, spans[i].inputStart + 1, spans[i].inputEnd) =
                                  SubSeq(a.actions, spans[i].actionStart + 1,
                                         spans[i].actionEnd)
  BY DEF Conversation!LossIsOnThePolicy
<1> DEFINE l == ledger
           a == Conversation!Alignment(l)
<1>2. IsTyped(l) /\ IsSound(l) /\ Conversation!Complete(l)
  BY DEF LedgerInv, Conversation!Trainable
<1>3. a = Conversation!Alignment(l)
  OBVIOUS
<1>10. damages <= 1 => Keeps(l, said, damages)
  BY DEF LedgerInv
<1> HIDE DEF l, a
<1>4. /\ a.input = Conversation!History(l)
      /\ a.mask = [i \in 1 .. Len(Conversation!History(l)) |-> Conversation!Marked(l, i)]
  BY <1>3 DEF Conversation!Alignment
<1>5. Conversation!Aligned(l)
  <2>1. Conversation!Selected(a) = a.actions
    BY <1>2, <1>3, SelectedIsActions
  <2>2. ASSUME NEW t \in DOMAIN l.outputs
        PROVE  SubSeq(a.input, Conversation!InputStart(l, t) + 1,
                      Conversation!InputEnd(l, t)) = l.outputs[t].ids
    <3>1. t \in 1 .. Len(l.outputs)
      BY <1>2, <2>2, Records
    <3>2. PICK h \in Seq(Tokens) : h = Conversation!History(l)
      BY <1>2, TurnsFit
    <3>3. PICK ids \in Seq(Tokens) : ids = l.outputs[t].ids
      BY <1>2, <2>2, Records
    <3>4. PICK s \in Nat, z \in Nat : s = Conversation!InputStart(l, t) /\ z = Len(ids)
      BY <1>2, <3>1, <3>3, TurnsFit
    <3>5. Conversation!InputEnd(l, t) = s + z /\ s + z <= Len(h)
      BY <1>2, <3>1, <3>2, <3>3, <3>4, TurnsFit
    <3>6. \A k \in 1 .. z : h[s + k] = ids[k]
      <4>1. \A k \in 1 .. Len(l.outputs[t].ids) :
              Conversation!History(l)[Conversation!InputStart(l, t) + k] = l.outputs[t].ids[k]
        BY <1>2, <3>1, OutputsLie
      <4> QED BY <3>2, <3>3, <3>4, <4>1
    <3>7. SubSeq(h, s + 1, s + z) = SubSeq(ids, 0 + 1, 0 + z)
      <4>1. PICK T : T = Tokens
        OBVIOUS
      <4>2. /\ h \in Seq(T) /\ ids \in Seq(T) /\ s \in Nat /\ 0 \in Nat /\ z \in Nat
            /\ Agree(h, s, ids, 0, z)
        BY <3>4, <3>5, <3>6, <4>1 DEF Agree
      <4>3. OneSlice(h, s, ids, 0, z)
        BY ONLY <4>2, SameSlices
      <4> QED BY <4>3 DEF OneSlice
    <3>8. SubSeq(ids, 1, z) = ids
      BY <3>4, SubSeqFull
    <3>9. 0 + 1 = 1 /\ 0 + z = z
      OBVIOUS
    <3> QED BY <1>4, <3>2, <3>3, <3>4, <3>5, <3>7, <3>8, <3>9
  <2> QED BY <1>3, <2>1, <2>2 DEF Conversation!Aligned
<1>6. Cuts(a.turns, l) /\ Cuts(a.segments, l)
  BY <1>2, <1>3, TurnsCut, SegmentsCut
<1>7. Conversation!AuditAccepts(a)
  <2>1. /\ Conversation!Consecutive(a.turns, Len(a.actions))
        /\ Conversation!Consecutive(a.segments, Len(a.actions))
    BY <1>3, <1>6 DEF Cuts
  <2> QED BY <1>2, <1>3, <2>1, TurnsCut DEF Conversation!AuditAccepts
<1>8. ASSUME damages <= 1, NEW i \in 1 .. Len(said) PROVE a.mask[i] <=> said[i].by = "policy"
  <2>1. Keeps(l, said, damages)
    BY <1>8, <1>10
  <2>2. /\ Len(Conversation!History(l)) = Len(said)
        /\ (Conversation!Marked(l, i) <=> said[i].by = "policy")
    BY <2>1 DEF Keeps
  <2>3. a.mask[i] = Conversation!Marked(l, i)
    BY <1>4, <2>2
  <2> QED BY <2>2, <2>3
<1>9. \A spans \in {a.turns, a.segments} : \A i \in DOMAIN spans :
        /\ spans[i].actionStart < spans[i].actionEnd
        /\ SubSeq(a.input, spans[i].inputStart + 1, spans[i].inputEnd) =
             SubSeq(a.actions, spans[i].actionStart + 1, spans[i].actionEnd)
  BY <1>3, <1>6 DEF Cuts
<1> QED BY <1>5, <1>7, <1>8, <1>9, Zenon DEF l, a

\* The loss falls on what the policy said.
THEOREM LossAlwaysOnThePolicy ==
  Conversation!Spec => []Conversation!LossIsOnThePolicy
<1>1. LedgerInv => Conversation!LossIsOnThePolicy
  BY LossIsOnThePolicyFrom
<1>2. Conversation!Spec => []LedgerInv
  BY AlwaysLedgerInv
<1> QED BY <1>1, <1>2, PTL

----------------------------------------------------------------------------
(* A conversation, rendered *)

TokenRecord == [turn : Nat, role : Masks!Roles, parts : SUBSET Masks!Parts]

LEMMA TemplateIs ==
  ASSUME NEW template \in Templates
  PROVE  /\ template.marked \subseteq Masks!Parts /\ template.joins \in BOOLEAN
         /\ template.thinks \in {"never", "prompt", "always"}
         /\ "stop" \in template.marked => "content" \in template.marked
BY MasksAssumption DEF Masks!MaskAssumption

\* One part, or one more part, in front.
LEMMA InFront ==
  ASSUME NEW S, NEW x \in S, NEW s \in Seq(S)
  PROVE  /\ <<x>> \o s \in Seq(S) /\ Len(<<x>> \o s) = Len(s) + 1 /\ (<<x>> \o s)[1] = x
         /\ \A i \in 1 .. Len(s) : (<<x>> \o s)[i + 1] = s[i]
<1>6. <<x>> \in Seq(S) /\ Len(<<x>>) = 1 /\ <<x>>[1] = x
  OBVIOUS
<1>1. PICK a \in Seq(S) : a = <<x>> /\ Len(a) = 1 /\ a[1] = x
  BY <1>6
<1>2. /\ a \o s \in Seq(S) /\ Len(a \o s) = Len(a) + Len(s)
      /\ \A i \in 1 .. Len(a) : (a \o s)[i] = a[i]
      /\ \A i \in 1 .. Len(s) : (a \o s)[Len(a) + i] = s[i]
  BY InARow
<1>3. Len(s) \in Nat /\ 1 \in 1 .. Len(a)
  BY <1>1
<1>4. (a \o s)[1] = x /\ Len(a \o s) = Len(s) + 1
  BY <1>1, <1>2, <1>3
<1>5. \A i \in 1 .. Len(s) : (a \o s)[i + 1] = s[i]
  <2> SUFFICES ASSUME NEW i \in 1 .. Len(s) PROVE (a \o s)[i + 1] = s[i]
    OBVIOUS
  <2>1. i + 1 = 1 + i
    BY <1>3
  <2> QED BY <1>1, <1>2, <2>1
<1> QED BY <1>1, <1>2, <1>4, <1>5

\* How a turn begins: a header by itself, unless the template joins it with what follows.
Begins(r, template, n, role) ==
    /\ r \in Seq(TokenRecord) /\ Len(r) \in Nat \ {0}
    /\ \A i \in 1 .. Len(r) : r[i].turn = n /\ r[i].role = role
    /\ role = "assistant" =>
         /\ template.joins => r[1].parts # {"header"}
         /\ ~template.joins =>
              /\ Len(r) >= 2 /\ r[1].parts = {"header"}
              /\ r[2].parts = IF template.thinks = "always" THEN {"think"} ELSE {"content"}

LEMMA TurnIs ==
  ASSUME NEW template \in Templates, NEW c \in Seq(Masks!Roles), NEW n \in 1 .. Len(c)
  PROVE  Begins(Masks!Turn(template, c, n), template, n, c[n])
<1>1. PICK S : S = SUBSET Masks!Parts
  OBVIOUS
<1>2. PICK role \in Masks!Roles : role = c[n]
  OBVIOUS
<1> DEFINE thinks == role = "assistant" /\ template.thinks = "always"
           rest == <<{"content"}, {"stop"}>>
           body == (IF thinks THEN <<{"think"}>> ELSE <<>>) \o rest
           parts == IF role = "assistant" /\ template.joins
                    THEN <<{"header"} \cup Head(body)>> \o Tail(body)
                    ELSE <<{"header"}>> \o body
           Token(part) == [turn |-> n, role |-> role, parts |-> part]
<1>3. Masks!Turn(template, c, n) = [i \in DOMAIN parts |-> Token(parts[i])]
  BY <1>2 DEF Masks!Turn
<1>4. {"header"} \in S /\ {"think"} \in S /\ {"content"} \in S /\ {"stop"} \in S
  BY <1>1 DEF Masks!Parts
<1>5. rest \in Seq(S) /\ Len(rest) = 2 /\ rest[1] = {"content"}
  BY <1>4
<1>6. /\ body \in Seq(S) /\ Len(body) \in Nat /\ Len(body) >= 2
      /\ body[1] = IF thinks THEN {"think"} ELSE {"content"}
  <2> HIDE DEF rest
  <2>1. PICK b : b = body
    OBVIOUS
  <2>2. CASE thinks
    <3>1. PICK x \in S : x = {"think"}
      BY <1>4
    <3>6. PICK r \in Seq(S) : r = rest
      BY <1>5
    <3>2. b = <<x>> \o r
      BY <2>1, <2>2, <3>1, <3>6
    <3>3. <<x>> \o r \in Seq(S) /\ Len(<<x>> \o r) = Len(r) + 1 /\ (<<x>> \o r)[1] = x
      BY InFront
    <3>7. Len(r) = 2 /\ Len(b) = Len(r) + 1
      BY <1>5, <3>2, <3>3, <3>6
    <3>4. Len(b) = 3
      BY <3>7
    <3>5. b \in Seq(S) /\ b[1] = {"think"}
      BY <3>1, <3>2, <3>3
    <3> HIDE DEF body, thinks
    <3> QED BY <2>1, <2>2, <3>4, <3>5
  <2>3. CASE ~thinks
    <3>1. b = <<>> \o rest
      BY <2>1, <2>3
    <3>2. <<>> \o rest = rest
      BY <1>5
    <3>3. b = rest
      BY <3>1, <3>2
    <3>4. b \in Seq(S) /\ b[1] = {"content"} /\ Len(b) = 2
      BY <1>5, <3>3
    <3> HIDE DEF body, thinks
    <3> QED BY <2>1, <2>3, <3>4
  <2> QED BY <2>2, <2>3
<1> HIDE DEF rest, body
<1>7. /\ parts \in Seq(S) /\ Len(parts) \in Nat \ {0}
      /\ role = "assistant" =>
           /\ template.joins => parts[1] # {"header"}
           /\ ~template.joins => Len(parts) >= 2 /\ parts[1] = {"header"} /\ parts[2] = body[1]
  <2>1. CASE role = "assistant" /\ template.joins
    <3>8. body # <<>>
      BY <1>6
    <3>9. Head(body) \in S /\ Tail(body) \in Seq(S)
      BY <1>6, <3>8, HeadTailProperties
    <3>1. PICK h \in S, t \in Seq(S) : h = Head(body) /\ t = Tail(body)
      BY <3>9
    <3>2. h = body[1]
      BY <1>6, <3>1
    <3>3. PICK x \in S : x = {"header"} \cup h
      BY <1>1, <1>4
    <3>4. x # {"header"}
      <4>1. "think" \in h \/ "content" \in h
        BY <1>6, <3>2
      <4> QED BY <3>3, <4>1
    <3>5. parts = <<x>> \o t
      BY <2>1, <3>1, <3>3
    <3>6. <<x>> \o t \in Seq(S) /\ Len(<<x>> \o t) = Len(t) + 1 /\ (<<x>> \o t)[1] = x
      BY InFront
    <3>7. Len(t) \in Nat
      OBVIOUS
    <3> HIDE DEF parts
    <3> QED BY <2>1, <3>4, <3>5, <3>6, <3>7
  <2>2. CASE ~(role = "assistant" /\ template.joins)
    <3>1. PICK x \in S : x = {"header"}
      BY <1>4
    <3>2. parts = <<x>> \o body
      BY <2>2, <3>1
    <3>3. /\ <<x>> \o body \in Seq(S) /\ Len(<<x>> \o body) = Len(body) + 1
          /\ (<<x>> \o body)[1] = x
          /\ \A i \in 1 .. Len(body) : (<<x>> \o body)[i + 1] = body[i]
      BY <1>6, InFront
    <3>4. 1 \in 1 .. Len(body) /\ 1 + 1 = 2
      BY <1>6
    <3>5. (<<x>> \o body)[2] = body[1]
      BY <3>3, <3>4
    <3> HIDE DEF parts
    <3> QED BY <1>6, <2>2, <3>1, <3>2, <3>3, <3>5
  <2> QED BY <2>1, <2>2
<1> HIDE DEF parts
<1>8. PICK r : r = Masks!Turn(template, c, n)
  OBVIOUS
<1>9. PICK m \in Nat : m = Len(parts) /\ m # 0
  BY <1>7
<1>10. r = [i \in 1 .. m |-> Token(parts[i])]
  BY <1>3, <1>7, <1>8, <1>9
<1>11. ASSUME NEW i \in 1 .. m
       PROVE  /\ r[i] \in TokenRecord /\ r[i].turn = n /\ r[i].role = role
              /\ r[i].parts = parts[i]
  <2>1. /\ r[i] = [turn |-> n, role |-> role, parts |-> parts[i]]
        /\ parts[i] \in SUBSET Masks!Parts
    BY <1>1, <1>7, <1>9, <1>10
  <2> QED BY <2>1 DEF TokenRecord
<1>12. r \in Seq(TokenRecord) /\ Len(r) = m
  <2>1. r = [i \in 1 .. m |-> r[i]] /\ DOMAIN r = 1 .. m
    BY <1>10
  <2>2. [i \in 1 .. m |-> r[i]] \in [1 .. m -> TokenRecord]
    BY <1>11
  <2> QED BY <2>1, <2>2
<1>13. role = "assistant" =>
         body[1] = IF template.thinks = "always" THEN {"think"} ELSE {"content"}
  BY <1>6
<1>14. Begins(r, template, n, role)
  <2>1. Len(r) \in Nat \ {0} /\ \A i \in 1 .. Len(r) : r[i].turn = n /\ r[i].role = role
    BY <1>9, <1>11, <1>12
  <2>2. ASSUME role = "assistant", template.joins PROVE r[1].parts # {"header"}
    <3>1. 1 \in 1 .. m
      BY <1>9
    <3> QED BY <1>7, <1>11, <2>2, <3>1
  <2>3. ASSUME role = "assistant", ~template.joins
        PROVE  /\ Len(r) >= 2 /\ r[1].parts = {"header"}
               /\ r[2].parts = IF template.thinks = "always" THEN {"think"} ELSE {"content"}
    <3>1. m >= 2 /\ 1 \in 1 .. m /\ 2 \in 1 .. m
      BY <1>7, <1>9, <2>3
    <3>2. r[1].parts = parts[1] /\ r[2].parts = parts[2]
      BY <1>11, <3>1
    <3> QED BY <1>7, <1>12, <1>13, <2>3, <3>1, <3>2
  <2> QED BY <1>12, <2>1, <2>2, <2>3 DEF Begins
<1> QED BY <1>2, <1>8, <1>14

\* The turns of a conversation, one after another: turn n comes after d[n - 1] tokens.
LaidOut(r, d, template, c) ==
    /\ r \in Seq(TokenRecord) /\ Len(r) = d[Len(c)]
    /\ d \in [0 .. Len(c) -> Nat] /\ d[0] = 0
    /\ \A n \in 1 .. Len(c) :
         /\ d[n] = d[n - 1] + Len(Masks!Turn(template, c, n))
         /\ \A k \in 1 .. Len(Masks!Turn(template, c, n)) :
              r[d[n - 1] + k] = Masks!Turn(template, c, n)[k]
    /\ \A i \in 1 .. Len(r) : \E n \in 1 .. Len(c) :
         \E k \in 1 .. Len(Masks!Turn(template, c, n)) :
         i = d[n - 1] + k

LEMMA RenderedIs ==
  ASSUME NEW template \in Templates, NEW c \in Seq(Masks!Roles), c # <<>>
  PROVE  \E d : LaidOut(Masks!Rendered(template, c), d, template, c)
<1>1. PICK T : T = TokenRecord
  OBVIOUS
<1>2. PICK n \in Nat : n = Len(c) /\ n # 0 /\ DOMAIN c = 1 .. n
  OBVIOUS
<1> DEFINE ts == [t \in DOMAIN c |-> Masks!Turn(template, c, t)]
<1>3. \A t \in 1 .. n : Masks!Turn(template, c, t) \in Seq(T)
  BY <1>1, <1>2, TurnIs DEF Begins
<1>4. ts \in Seq(Seq(T)) /\ Len(ts) = n /\ \A t \in 1 .. n : ts[t] = Masks!Turn(template, c, t)
  BY <1>2, <1>3
<1>5. Masks!Rendered(template, c) = Tools!FlattenSeq(ts)
  BY SameFlattening DEF Masks!Rendered
<1> HIDE DEF ts
<1>6. ts # <<>>
  BY <1>2, <1>4
<1>7. PICK r : r = Tools!FlattenSeq(ts)
  OBVIOUS
<1>8. /\ Tools!FlattenSeq(ts) \in Seq(T)
      /\ \E d : /\ Places(d, ts) /\ Len(Tools!FlattenSeq(ts)) = d[Len(ts)]
                /\ \A t \in 1 .. Len(ts) : \A k \in 1 .. Len(ts[t]) :
                     Tools!FlattenSeq(ts)[d[t - 1] + k] = ts[t][k]
  BY <1>4, <1>6, FlattenPlaces
<1>9. PICK d : /\ Places(d, ts) /\ Len(r) = d[n]
               /\ \A t \in 1 .. n : \A k \in 1 .. Len(ts[t]) : r[d[t - 1] + k] = ts[t][k]
  BY <1>4, <1>7, <1>8
<1>10. d \in [0 .. n -> Nat] /\ d[0] = 0 /\ \A t \in 1 .. n : d[t] = d[t - 1] + Len(ts[t])
  BY <1>4, <1>9 DEF Places
<1>11. \A i \in 1 .. d[n] : \E t \in 1 .. n : \E k \in 1 .. Len(ts[t]) : i = d[t - 1] + k
  <2>1. ts \in Seq(Seq(T)) /\ Places(d, ts)
    BY <1>4, <1>9
  <2>2. Filled(d, ts)
    BY ONLY <2>1, Located
  <2> QED BY <1>4, <2>2 DEF Filled
<1>12. \A i \in 1 .. Len(r) : \E t \in 1 .. n : \E k \in 1 .. Len(Masks!Turn(template, c, t)) :
         i = d[t - 1] + k
  <2> SUFFICES ASSUME NEW i \in 1 .. Len(r)
               PROVE  \E t \in 1 .. n : \E k \in 1 .. Len(Masks!Turn(template, c, t)) :
                        i = d[t - 1] + k
    OBVIOUS
  <2>1. PICK t \in 1 .. n : \E k \in 1 .. Len(ts[t]) : i = d[t - 1] + k
    BY <1>9, <1>11
  <2>2. ts[t] = Masks!Turn(template, c, t)
    BY <1>4
  <2> QED BY <2>1, <2>2
<1>13. \A t \in 1 .. n :
         /\ d[t] = d[t - 1] + Len(Masks!Turn(template, c, t))
         /\ \A k \in 1 .. Len(Masks!Turn(template, c, t)) :
              r[d[t - 1] + k] = Masks!Turn(template, c, t)[k]
  <2> SUFFICES ASSUME NEW t \in 1 .. n
               PROVE  /\ d[t] = d[t - 1] + Len(Masks!Turn(template, c, t))
                      /\ \A k \in 1 .. Len(Masks!Turn(template, c, t)) :
                           r[d[t - 1] + k] = Masks!Turn(template, c, t)[k]
    OBVIOUS
  <2>1. ts[t] = Masks!Turn(template, c, t)
    BY <1>4
  <2>2. d[t] = d[t - 1] + Len(ts[t]) /\ \A k \in 1 .. Len(ts[t]) : r[d[t - 1] + k] = ts[t][k]
    BY <1>9, <1>10
  <2> QED BY <2>1, <2>2
<1>14. LaidOut(r, d, template, c)
  BY <1>1, <1>2, <1>7, <1>8, <1>9, <1>10, <1>12, <1>13 DEF LaidOut
<1> QED BY <1>5, <1>7, <1>14

\* Every token is of a turn, and of its role.
LEMMA OfTurns ==
  ASSUME NEW template \in Templates, NEW c \in Seq(Masks!Roles), NEW r, NEW d,
         LaidOut(r, d, template, c), NEW i \in 1 .. Len(r)
  PROVE  /\ r[i] \in TokenRecord
         /\ \E n \in 1 .. Len(c) : \E k \in 1 .. Len(Masks!Turn(template, c, n)) :
              /\ i = d[n - 1] + k /\ r[i] = Masks!Turn(template, c, n)[k]
              /\ r[i].turn = n /\ r[i].role = c[n]
<1>1. PICK n \in 1 .. Len(c) : \E k \in 1 .. Len(Masks!Turn(template, c, n)) : i = d[n - 1] + k
  BY DEF LaidOut
<1>2. PICK k \in 1 .. Len(Masks!Turn(template, c, n)) : i = d[n - 1] + k
  BY <1>1
<1>3. r[i] = Masks!Turn(template, c, n)[k]
  BY <1>2 DEF LaidOut
<1>4. Begins(Masks!Turn(template, c, n), template, n, c[n])
  BY TurnIs
<1>5. r[i].turn = n /\ r[i].role = c[n]
  BY <1>3, <1>4 DEF Begins
<1>6. r[i] \in TokenRecord
  <2>1. r \in Seq(TokenRecord)
    BY DEF LaidOut
  <2>2. PICK T : T = TokenRecord
    OBVIOUS
  <2> QED BY <2>1, <2>2
<1> QED BY <1>2, <1>3, <1>5, <1>6

\* What comes before the last turn, and the last turn.
LastTurn(template, c, r, m) ==
    LET n == Len(c) IN
    /\ r \in Seq(TokenRecord) /\ m \in Nat
    /\ Len(r) = m + Len(Masks!Turn(template, c, n))
    /\ \A k \in 1 .. Len(Masks!Turn(template, c, n)) : r[m + k] = Masks!Turn(template, c, n)[k]
    /\ \A i \in 1 .. Len(r) : /\ i <= m => r[i].turn # n
                              /\ i > m => r[i].turn = n /\ r[i].role = c[n]

LEMMA LastTurnIs ==
  ASSUME NEW template \in Templates, NEW c \in Seq(Masks!Roles), Len(c) >= 2
  PROVE  LastTurn(template, c, Masks!Rendered(template, c),
                  Len(Masks!Rendered(template, Masks!Front(c))))
<1>1. PICK n \in Nat : n = Len(c) /\ n >= 2
  OBVIOUS
<1>2. PICK b : b = Masks!Front(c)
  OBVIOUS
<1>3. /\ b \in Seq(Masks!Roles) /\ Len(b) = n - 1 /\ b # <<>>
      /\ \A t \in 1 .. n - 1 : b[t] = c[t]
  <2>1. PICK p : p = n - 1
    OBVIOUS
  <2>2. p \in Nat /\ p <= Len(c) /\ 1 \in Int /\ p \in Int /\ 1 <= p
    BY <1>1, <2>1
  <2>3. b = SubSeq(c, 1, p)
    BY <1>1, <1>2, <2>1 DEF Masks!Front
  <2>4. \A i \in 1 .. p : c[i] \in Masks!Roles
    BY <1>1, <2>1
  <2>5. /\ SubSeq(c, 1, p) \in Seq(Masks!Roles)
        /\ Len(SubSeq(c, 1, p)) = IF 1 <= p THEN p - 1 + 1 ELSE 0
        /\ \A i \in 1 .. p - 1 + 1 : SubSeq(c, 1, p)[i] = c[1 + i - 1]
    BY <2>2, <2>4, SubSeqProperties
  <2>6. Len(b) = p
    BY <2>2, <2>3, <2>5
  <2>7. \A i \in 1 .. p : i \in 1 .. p - 1 + 1 /\ 1 + i - 1 = i
    BY <2>2
  <2>8. \A i \in 1 .. p : b[i] = c[i]
    BY <2>3, <2>5, <2>7
  <2> QED BY <2>1, <2>2, <2>3, <2>5, <2>6, <2>8
<1>4. \A t \in 1 .. n - 1 : Masks!Turn(template, b, t) = Masks!Turn(template, c, t)
  BY <1>3, ZenonT(60) DEF Masks!Turn
<1>5. c # <<>>
  BY <1>1
<1>6. PICK d : LaidOut(Masks!Rendered(template, c), d, template, c)
  BY <1>5, RenderedIs
<1>7. PICK e : LaidOut(Masks!Rendered(template, b), e, template, b)
  BY <1>3, RenderedIs
<1>8. PICK r : r = Masks!Rendered(template, c)
  OBVIOUS
<1>9. /\ r \in Seq(TokenRecord) /\ Len(r) = d[n] /\ d \in [0 .. n -> Nat] /\ d[0] = 0
      /\ \A t \in 1 .. n : d[t] = d[t - 1] + Len(Masks!Turn(template, c, t))
      /\ \A t \in 1 .. n : \A k \in 1 .. Len(Masks!Turn(template, c, t)) :
           r[d[t - 1] + k] = Masks!Turn(template, c, t)[k]
  BY <1>1, <1>6, <1>8 DEF LaidOut
<1>10. /\ Len(Masks!Rendered(template, b)) = e[n - 1] /\ e[0] = 0
       /\ \A t \in 1 .. n - 1 : e[t] = e[t - 1] + Len(Masks!Turn(template, c, t))
  BY <1>1, <1>3, <1>4, <1>7 DEF LaidOut
<1>11. e[n - 1] = d[n - 1]
  <2> DEFINE K == {t \in 0 .. n - 1 : e[t] = d[t]}
  <2>1. 0 \in K
    BY <1>1, <1>9, <1>10
  <2>2. ASSUME NEW t \in 1 .. n - 1, t - 1 \in K PROVE t \in K
    <3>1. t \in 0 .. n - 1 /\ t \in 1 .. n /\ e[t - 1] = d[t - 1]
      BY <1>1, <2>2
    <3> QED BY <1>9, <1>10, <3>1
  <2>3. n - 1 \in Nat
    BY <1>1
  <2>4. 0 .. n - 1 \subseteq K
    <3> HIDE DEF K
    <3> QED BY <2>1, <2>2, <2>3, UpToInd
  <2>5. n - 1 \in 0 .. n - 1
    BY <2>3
  <2> QED BY <2>4, <2>5
<1>12. PICK m \in Nat : m = d[n - 1]
  <2>1. n - 1 \in 0 .. n
    BY <1>1
  <2> QED BY <1>9, <2>1
<1>13. n \in 1 .. n
  BY <1>1
<1>14. Len(r) = m + Len(Masks!Turn(template, c, n))
  BY <1>9, <1>12, <1>13
<1>15. \A k \in 1 .. Len(Masks!Turn(template, c, n)) : r[m + k] = Masks!Turn(template, c, n)[k]
  BY <1>9, <1>12, <1>13
<1>16. \A t \in 0 .. n - 1 : d[t] \in Nat /\ d[t] <= m
  <2> DEFINE K == {k \in 0 .. n - 1 : d[n - 1 - k] <= m}
  <2>1. \A t \in 0 .. n : d[t] \in Nat
    BY <1>9
  <2>2. 0 \in K
    BY <1>1, <1>12
  <2>3. ASSUME NEW k \in 1 .. n - 1, k - 1 \in K PROVE k \in K
    <3>1. PICK t : t = n - 1 - (k - 1)
      OBVIOUS
    <3>2. /\ t \in 1 .. n /\ t - 1 = n - 1 - k /\ k \in 0 .. n - 1 /\ t - 1 \in 0 .. n
          /\ t \in 0 .. n
      BY <1>1, <3>1
    <3>3. d[t] <= m
      BY <2>3, <3>1
    <3>4. Len(Masks!Turn(template, c, t)) \in Nat
      BY <1>1, <3>2, TurnIs DEF Begins
    <3>5. d[t] = d[t - 1] + Len(Masks!Turn(template, c, t)) /\ d[t - 1] \in Nat
      BY <1>9, <2>1, <3>2
    <3>6. d[t - 1] <= m
      BY <3>3, <3>4, <3>5
    <3> QED BY <3>2, <3>6
  <2>4. 0 .. n - 1 \subseteq K
    <3>1. n - 1 \in Nat
      BY <1>1
    <3> HIDE DEF K
    <3> QED BY <2>2, <2>3, <3>1, UpToInd
  <2> SUFFICES ASSUME NEW t \in 0 .. n - 1 PROVE d[t] \in Nat /\ d[t] <= m
    OBVIOUS
  <2>5. n - 1 - t \in 0 .. n - 1 /\ n - 1 - (n - 1 - t) = t /\ t \in 0 .. n
    BY <1>1
  <2>6. n - 1 - t \in K
    BY <2>4, <2>5
  <2> QED BY <2>1, <2>5, <2>6
<1>17. ASSUME NEW i \in 1 .. Len(r)
       PROVE  /\ i <= m => r[i].turn # n
              /\ i > m => r[i].turn = n /\ r[i].role = c[n]
  <2>1. PICK t \in 1 .. n : \E k \in 1 .. Len(Masks!Turn(template, c, t)) :
             i = d[t - 1] + k /\ r[i].turn = t /\ r[i].role = c[t]
    BY <1>1, <1>6, <1>8, OfTurns, SMTT(30)
  <2>2. PICK k \in 1 .. Len(Masks!Turn(template, c, t)) :
             i = d[t - 1] + k /\ r[i].turn = t /\ r[i].role = c[t]
    BY <2>1
  <2>3. CASE t = n
    <3>1. i > m
      BY <1>12, <2>2, <2>3
    <3> QED BY <2>2, <2>3, <3>1
  <2>4. CASE t # n
    <3>1. t \in 0 .. n - 1 /\ t - 1 \in 0 .. n - 1
      BY <2>4
    <3>2. Len(Masks!Turn(template, c, t)) \in Nat
      BY <1>1, TurnIs DEF Begins
    <3>3. d[t] = d[t - 1] + Len(Masks!Turn(template, c, t)) /\ d[t - 1] \in Nat /\ d[t] <= m
      BY <1>9, <1>16, <3>1
    <3>4. i <= m
      BY <2>2, <3>2, <3>3
    <3> QED BY <2>2, <2>4, <3>4
  <2> QED BY <2>3, <2>4
<1>18. Len(Masks!Rendered(template, b)) = m
  BY <1>10, <1>11, <1>12
<1>19. LastTurn(template, c, r, m)
  BY <1>1, <1>9, <1>14, <1>15, <1>17 DEF LastTurn
<1> QED BY <1>2, <1>8, <1>18, <1>19

\* A prompt is what comes before the last turn, and what opens the answer.
Opens(p, template, c, m) ==
    /\ Len(p) = IF template.thinks = "never" THEN m + 1 ELSE m + 2
    /\ p[m + 1].parts = {"header"}
    /\ template.thinks # "never" => p[m + 2].parts = {"think"}

LEMMA PromptOpens ==
  ASSUME NEW template \in Templates, NEW c \in Seq(Masks!Roles), Len(c) >= 2
  PROVE  Opens(Masks!Prompt(template, Masks!Front(c)), template, c,
               Len(Masks!Rendered(template, Masks!Front(c))))
<1>1. PICK b : b = Masks!Front(c)
  OBVIOUS
<1>2. b \in Seq(Masks!Roles) /\ b # <<>>
  <2>1. PICK n \in Nat : n = Len(c) - 1 /\ n > 0
    OBVIOUS
  <2>2. b = SubSeq(c, 1, n)
    BY <1>1, <2>1 DEF Masks!Front
  <2>3. 1 \in Int /\ n \in Int /\ 1 <= n /\ \A i \in 1 .. n : c[i] \in Masks!Roles
    BY <2>1
  <2>4. /\ SubSeq(c, 1, n) \in Seq(Masks!Roles)
        /\ Len(SubSeq(c, 1, n)) = IF 1 <= n THEN n - 1 + 1 ELSE 0
    BY <2>3, SubSeqProperties
  <2>5. Len(b) = n
    BY <2>1, <2>2, <2>4
  <2>6. b # <<>>
    BY <2>1, <2>5
  <2> QED BY <2>2, <2>4, <2>6
<1>3. PICK r : r = Masks!Rendered(template, b)
  OBVIOUS
<1>4. r \in Seq(TokenRecord)
  BY <1>2, <1>3, RenderedIs DEF LaidOut
<1>5. PICK m \in Nat : m = Len(r)
  BY <1>4
<1> DEFINE Opening(part) == [turn |-> Len(b) + 1, role |-> "assistant", parts |-> {part}]
<1>6. PICK S : S = TokenRecord \cup {Opening("header"), Opening("think")}
  OBVIOUS
<1>7. r \in Seq(S)
  BY <1>4, <1>6
<1>8. Masks!Prompt(template, b) =
        r \o <<Opening("header")>>
          \o (IF template.thinks = "never" THEN <<>> ELSE <<Opening("think")>>)
  BY <1>3 DEF Masks!Prompt
<1>9. PICK x \in S : x = Opening("header")
  BY <1>6
<1>10. PICK y \in S : y = Opening("think")
  BY <1>6
<1>11. x.parts = {"header"} /\ y.parts = {"think"}
  BY <1>9, <1>10
<1> HIDE DEF Opening
<1>12. PICK h \in Seq(S) : h = <<x>> /\ Len(h) = 1 /\ h[1] = x
  <2>1. <<x>> \in Seq(S) /\ Len(<<x>>) = 1 /\ <<x>>[1] = x
    OBVIOUS
  <2> QED BY <2>1
<1>13. PICK q : q = r \o h
  OBVIOUS
<1>14. /\ r \o h \in Seq(S) /\ Len(r \o h) = Len(r) + Len(h)
       /\ \A i \in 1 .. Len(h) : (r \o h)[Len(r) + i] = h[i]
  BY <1>7, InARow
<1>15. q \in Seq(S) /\ Len(q) = m + 1 /\ q[m + 1] = x
  <2>1. 1 \in 1 .. Len(h)
    BY <1>12
  <2> QED BY <1>5, <1>12, <1>13, <1>14, <2>1
<1>16. PICK p : p = Masks!Prompt(template, b)
  OBVIOUS
<1>17. CASE template.thinks = "never"
  <2>1. p = q \o <<>>
    BY <1>8, <1>9, <1>12, <1>13, <1>16, <1>17
  <2>2. q \o <<>> = q
    BY <1>15
  <2>3. p = q
    BY <2>1, <2>2
  <2> QED BY <1>1, <1>3, <1>5, <1>11, <1>15, <1>16, <1>17, <2>3 DEF Opens
<1>18. CASE template.thinks # "never"
  <2>1. PICK g \in Seq(S) : g = <<y>> /\ Len(g) = 1 /\ g[1] = y
    <3>1. <<y>> \in Seq(S) /\ Len(<<y>>) = 1 /\ <<y>>[1] = y
      OBVIOUS
    <3> QED BY <3>1
  <2>2. p = q \o g
    BY <1>8, <1>9, <1>10, <1>12, <1>13, <1>16, <1>18, <2>1
  <2>3. /\ Len(q \o g) = Len(q) + Len(g)
        /\ \A i \in 1 .. Len(q) : (q \o g)[i] = q[i]
        /\ \A i \in 1 .. Len(g) : (q \o g)[Len(q) + i] = g[i]
    <3>1. q \in Seq(S) /\ g \in Seq(S)
      BY <1>15, <2>1
    <3> QED BY ONLY <3>1, InARow
  <2>4. m + 1 \in 1 .. Len(q) /\ 1 \in 1 .. Len(g) /\ m + 1 + 1 = m + 2
    BY <1>15, <2>1
  <2>5. Len(p) = m + 2 /\ p[m + 1] = x /\ p[m + 2] = y
    <3>1. Len(p) = m + 1 + 1 /\ p[m + 1] = q[m + 1]
      BY <1>15, <2>1, <2>2, <2>3, <2>4
    <3>2. (q \o g)[Len(q) + 1] = g[1]
      BY <2>3, <2>4
    <3>3. p[m + 1 + 1] = y
      BY <1>15, <2>1, <2>2, <3>2
    <3> QED BY <1>15, <2>4, <3>1, <3>3
  <2> QED BY <1>1, <1>3, <1>5, <1>11, <1>16, <1>18, <2>5 DEF Opens
<1> QED BY <1>17, <1>18

\* A template that opens every answer as the prompt does.
OpensAnswers(template) == ~template.joins /\ template.thinks \in {"never", "always"}

LEMMA StableOpens ==
  ASSUME NEW template \in Templates, NEW c \in Seq(Masks!Roles), Len(c) >= 2,
         Masks!Last(c) = "assistant",
         Masks!Stable(Masks!Prompt(template, Masks!Front(c)), Masks!Rendered(template, c))
  PROVE  OpensAnswers(template)
<1>1. PICK n \in Nat : n = Len(c) /\ n >= 2
  OBVIOUS
<1>2. PICK r : r = Masks!Rendered(template, c)
  OBVIOUS
<1>3. PICK p : p = Masks!Prompt(template, Masks!Front(c))
  OBVIOUS
<1>4. PICK m : m = Len(Masks!Rendered(template, Masks!Front(c)))
  OBVIOUS
<1>5. PICK t : t = Masks!Turn(template, c, n)
  OBVIOUS
<1>6. LastTurn(template, c, r, m)
  BY <1>1, <1>2, <1>4, LastTurnIs
<1>7. /\ r \in Seq(TokenRecord) /\ m \in Nat
      /\ Len(r) = m + Len(t) /\ \A k \in 1 .. Len(t) : r[m + k] = t[k]
  BY <1>1, <1>5, <1>6 DEF LastTurn
<1>8. Opens(p, template, c, m)
  BY <1>1, <1>3, <1>4, PromptOpens
<1>9. Len(p) < Len(r) /\ SubSeq(r, 1, Len(p)) = p
  BY <1>2, <1>3 DEF Masks!Stable
<1>10. c[n] = "assistant" /\ n \in 1 .. Len(c)
  BY <1>1 DEF Masks!Last
<1>11. Begins(t, template, n, "assistant")
  BY <1>5, <1>10, TurnIs
<1>12. PICK k \in Nat : k = Len(p) /\ k >= m + 1 /\ (template.thinks # "never" => k >= m + 2)
  BY <1>7, <1>8 DEF Opens
<1>13. \A i \in 1 .. k : p[i] = r[i]
  <2>1. PICK T : T = TokenRecord
    OBVIOUS
  <2>2. k <= Len(r) /\ r \in Seq(T) /\ Len(r) \in Nat
    BY <1>7, <1>9, <1>12, <2>1
  <2>3. 1 \in Int /\ k \in Int /\ 1 <= k /\ \A i \in 1 .. k : r[i] \in T
    BY <1>7, <1>12, <2>2
  <2>4. \A i \in 1 .. k - 1 + 1 : SubSeq(r, 1, k)[i] = r[1 + i - 1]
    BY <2>3, SubSeqProperties
  <2>5. \A i \in 1 .. k : i \in 1 .. k - 1 + 1 /\ 1 + i - 1 = i
    OBVIOUS
  <2> QED BY <1>9, <1>12, <2>4, <2>5
<1>14. Len(t) \in Nat \ {0}
  BY <1>11 DEF Begins
<1>15. t[1].parts = {"header"}
  <2>1. m + 1 \in 1 .. k /\ 1 \in 1 .. Len(t)
    BY <1>7, <1>12, <1>14
  <2>2. p[m + 1] = r[m + 1] /\ r[m + 1] = t[1]
    BY <1>7, <1>13, <2>1
  <2> QED BY <1>8, <2>2 DEF Opens
<1>16. ~template.joins
  BY <1>11, <1>15 DEF Begins
<1>17. template.thinks # "never" => template.thinks = "always"
  <2> SUFFICES ASSUME template.thinks # "never" PROVE template.thinks = "always"
    OBVIOUS
  <2>1. /\ Len(t) >= 2
        /\ t[2].parts = IF template.thinks = "always" THEN {"think"} ELSE {"content"}
    BY <1>11, <1>16 DEF Begins
  <2>2. m + 2 \in 1 .. k /\ 2 \in 1 .. Len(t)
    BY <1>7, <1>12, <1>14, <2>1
  <2>3. p[m + 2] = r[m + 2] /\ r[m + 2] = t[2]
    BY <1>7, <1>13, <2>2
  <2>4. t[2].parts = {"think"}
    BY <1>8, <2>3 DEF Opens
  <2>5. {"think"} # {"content"}
    OBVIOUS
  <2> QED BY <2>1, <2>4, <2>5
<1> QED BY <1>16, <1>17, TemplateIs DEF OpensAnswers

\* What follows the prompt is of the answer, and all of it that is generated.
LEMMA CompletionCovers ==
  ASSUME NEW template \in Templates, OpensAnswers(template),
         NEW c \in Seq(Masks!Roles), Len(c) >= 2, Masks!Last(c) = "assistant", NEW example,
         example.tokens = Masks!Rendered(template, c),
         example.mask =
           [i \in DOMAIN example.tokens |-> i > Len(Masks!Prompt(template, Masks!Front(c)))]
  PROVE  Masks!OfAnswers(example) /\ Masks!Covers(example, Len(c))
<1>1. PICK n \in Nat : n = Len(c) /\ n >= 2
  OBVIOUS
<1>2. PICK r : r = Masks!Rendered(template, c)
  OBVIOUS
<1>3. PICK p : p = Masks!Prompt(template, Masks!Front(c))
  OBVIOUS
<1>4. PICK m : m = Len(Masks!Rendered(template, Masks!Front(c)))
  OBVIOUS
<1>5. PICK t : t = Masks!Turn(template, c, n)
  OBVIOUS
<1>6. LastTurn(template, c, r, m)
  BY <1>1, <1>2, <1>4, LastTurnIs
<1>7. /\ r \in Seq(TokenRecord) /\ m \in Nat
      /\ Len(r) = m + Len(t) /\ \A k \in 1 .. Len(t) : r[m + k] = t[k]
      /\ \A i \in 1 .. Len(r) : /\ i <= m => r[i].turn # n
                                /\ i > m => r[i].turn = n /\ r[i].role = c[n]
  BY <1>1, <1>5, <1>6 DEF LastTurn
<1>8. Opens(p, template, c, m)
  BY <1>1, <1>3, <1>4, PromptOpens
<1>9. c[n] = "assistant" /\ n \in 1 .. Len(c)
  BY <1>1 DEF Masks!Last
<1>10. Begins(t, template, n, "assistant")
  BY <1>5, <1>9, TurnIs
<1>11. PICK k \in Nat : /\ k = Len(p) /\ k >= m + 1
                        /\ k = IF template.thinks = "never" THEN m + 1 ELSE m + 2
  BY <1>7, <1>8 DEF Opens
<1>12. DOMAIN r = 1 .. Len(r) /\ Len(r) \in Nat
  BY <1>7
<1>13. example.tokens = r /\ \A i \in 1 .. Len(r) : example.mask[i] <=> i > k
  BY <1>2, <1>3, <1>11, <1>12
<1>14. \A i \in DOMAIN example.tokens : example.mask[i] => example.tokens[i].role = "assistant"
  <2> SUFFICES ASSUME NEW i \in 1 .. Len(r), i > k PROVE r[i].role = "assistant"
    BY <1>12, <1>13
  <2>1. i > m
    BY <1>7, <1>11
  <2> QED BY <1>7, <1>9, <2>1
<1>15. ASSUME NEW i \in 1 .. Len(r), r[i].turn = n, r[i].parts \cap {"content", "stop"} # {}
       PROVE  i > k
  <2>1. i > m
    BY <1>7, <1>15
  <2>2. /\ ~template.joins /\ (template.thinks # "never" => template.thinks = "always")
        /\ Len(t) \in Nat /\ Len(t) >= 2 /\ t[1].parts = {"header"}
        /\ t[2].parts = IF template.thinks = "always" THEN {"think"} ELSE {"content"}
    BY <1>10 DEF OpensAnswers, Begins
  <2>3. i # m + 1
    <3>1. 1 \in 1 .. Len(t)
      BY <2>2
    <3>2. r[m + 1].parts = {"header"}
      BY <1>7, <2>2, <3>1
    <3>3. {"header"} \cap {"content", "stop"} = {}
      OBVIOUS
    <3> QED BY <1>15, <3>2, <3>3
  <2>4. template.thinks # "never" => i # m + 2
    <3>1. 2 \in 1 .. Len(t)
      BY <2>2
    <3>2. template.thinks # "never" => r[m + 2].parts = {"think"}
      BY <1>7, <2>2, <3>1
    <3>3. {"think"} \cap {"content", "stop"} = {}
      OBVIOUS
    <3> QED BY <1>15, <3>2, <3>3
  <2> QED BY <1>7, <1>11, <2>1, <2>3, <2>4
<1>16. Masks!OfAnswers(example)
  BY <1>14 DEF Masks!OfAnswers
<1>17. Masks!Covers(example, n)
  <2> SUFFICES ASSUME NEW i \in 1 .. Len(r), r[i].turn = n,
                      r[i].parts \cap {"content", "stop"} # {}
               PROVE  example.mask[i]
    BY <1>12, <1>13 DEF Masks!Covers
  <2> QED BY <1>13, <1>15
<1> QED BY <1>1, <1>16, <1>17

\* The markers of a template that trains the end of an answer enclose all of it.
LEMMA MarkersCover ==
  ASSUME NEW template \in Templates, NEW c \in Seq(Masks!Roles), c # <<>>, NEW example,
         example.tokens = Masks!Rendered(template, c),
         example.mask = Masks!AssistantMask(template, example.tokens)
  PROVE  /\ Masks!OfAnswers(example)
         /\ Masks!StopTrained(template) =>
              \A n \in DOMAIN c : c[n] = "assistant" => Masks!Covers(example, n)
<1>1. PICK r : r = Masks!Rendered(template, c)
  OBVIOUS
<1>2. PICK d : LaidOut(r, d, template, c)
  BY <1>1, RenderedIs
<1>3. DOMAIN r = 1 .. Len(r)
  BY <1>2 DEF LaidOut
<1>4. \A i \in 1 .. Len(r) :
        example.mask[i] <=> r[i].role = "assistant" /\ r[i].parts \cap template.marked # {}
  BY <1>1, <1>3 DEF Masks!AssistantMask
<1>5. Masks!OfAnswers(example)
  BY <1>1, <1>3, <1>4 DEF Masks!OfAnswers
<1>6. ASSUME Masks!StopTrained(template), NEW n \in 1 .. Len(c), c[n] = "assistant"
      PROVE  Masks!Covers(example, n)
  <2>1. "stop" \in template.marked /\ "content" \in template.marked
    BY <1>6, TemplateIs DEF Masks!StopTrained
  <2> SUFFICES ASSUME NEW i \in 1 .. Len(r), r[i].turn = n,
                      r[i].parts \cap {"content", "stop"} # {}
               PROVE  example.mask[i]
    BY <1>1, <1>3 DEF Masks!Covers
  <2>2. r[i].role = "assistant"
    BY <1>2, <1>6, OfTurns
  <2>3. r[i].parts \cap template.marked # {}
    BY <2>1
  <2> QED BY <1>4, <2>2, <2>3
<1>7. DOMAIN c = 1 .. Len(c)
  OBVIOUS
<1> QED BY <1>5, <1>6, <1>7

----------------------------------------------------------------------------
(* The spans of a loss mask *)

LEMMA SpanIs ==
  ASSUME NEW mask \in Seq(BOOLEAN), NEW s
  PROVE  s \in Masks!Spans(mask) <=>
           /\ s \in (0 .. Len(mask)) \X (0 .. Len(mask))
           /\ s[1] < s[2] /\ \A i \in s[1] + 1 .. s[2] : mask[i]
           /\ s[1] > 0 => ~mask[s[1]]
           /\ s[2] < Len(mask) => ~mask[s[2] + 1]
BY DEF Masks!Spans

\* What is trained lies in a span, and nothing else does.
LEMMA SpansHold ==
  ASSUME NEW mask \in Seq(BOOLEAN)
  PROVE  \A i \in 1 .. Len(mask) : mask[i] <=> \E s \in Masks!Spans(mask) :
           s[1] < i /\ i <= s[2]
<1>1. PICK N \in Nat : N = Len(mask)
  OBVIOUS
<1>2. ASSUME NEW i \in 1 .. N, NEW s \in Masks!Spans(mask), s[1] < i, i <= s[2] PROVE mask[i]
  <2>1. s \in (0 .. N) \X (0 .. N) /\ \A j \in s[1] + 1 .. s[2] : mask[j]
    BY <1>1, SpanIs
  <2>2. s[1] \in 0 .. N /\ s[2] \in 0 .. N
    BY <2>1
  <2>3. i \in s[1] + 1 .. s[2]
    BY <1>2, <2>2
  <2> QED BY <2>1, <2>3
<1>3. ASSUME NEW i \in 1 .. N, mask[i]
      PROVE  \E s \in Masks!Spans(mask) : s[1] < i /\ i <= s[2]
  <2> DEFINE A == {x \in Nat : x < i /\ \A j \in x + 1 .. i : mask[j]}
             B == {x \in Nat : i <= x /\ x <= N /\ (x < N => ~mask[x + 1])}
  <2>1. i - 1 \in A
    <3>1. i - 1 + 1 = i /\ i - 1 \in Nat /\ i - 1 < i
      OBVIOUS
    <3>2. \A j \in i .. i : j = i
      OBVIOUS
    <3> QED BY <1>3, <3>1, <3>2
  <2>2. PICK a \in A : \A x \in A : a <= x
    <3>1. A \in SUBSET Nat /\ A # {}
      BY <2>1
    <3> HIDE DEF A
    <3> QED BY <3>1, Least
  <2>3. N \in B
    OBVIOUS
  <2>4. PICK b \in B : \A x \in B : b <= x
    <3>1. B \in SUBSET Nat /\ B # {}
      BY <2>3
    <3> HIDE DEF B
    <3> QED BY <3>1, Least
  <2>5. /\ a \in Nat /\ a < i /\ \A j \in a + 1 .. i : mask[j]
        /\ b \in Nat /\ i <= b /\ b <= N /\ (b < N => ~mask[b + 1])
    BY <2>2, <2>4
  <2>6. a > 0 => ~mask[a]
    <3> SUFFICES ASSUME a > 0, mask[a] PROVE FALSE
      OBVIOUS
    <3>1. PICK x : x = a - 1
      OBVIOUS
    <3>2. x \in Nat /\ x < i /\ x + 1 = a /\ x < a
      BY <2>5, <3>1
    <3>3. \A j \in a .. i : j = a \/ j \in a + 1 .. i
      BY <2>5
    <3>4. \A j \in x + 1 .. i : mask[j]
      BY <2>5, <3>2, <3>3
    <3>5. x \in A
      BY <3>2, <3>4
    <3>6. a <= x
      BY <2>2, <3>5
    <3> HIDE DEF A
    <3> QED BY <2>5, <3>2, <3>6
  <2>7. ASSUME NEW j \in i .. b PROVE mask[j]
    <3> SUFFICES ASSUME ~mask[j] PROVE FALSE
      OBVIOUS
    <3>1. j # i
      BY <1>3
    <3>2. PICK x : x = j - 1
      OBVIOUS
    <3>3. x \in Nat /\ i <= x /\ x < N /\ x < b /\ x + 1 = j
      BY <2>5, <3>1, <3>2
    <3>4. ~mask[x + 1]
      BY <3>3
    <3>5. x \in B
      BY <3>3, <3>4
    <3>6. b <= x
      BY <2>4, <3>5
    <3> HIDE DEF B
    <3> QED BY <2>5, <3>3, <3>6
  <2> HIDE DEF A, B
  <2>8. PICK s : s = <<a, b>>
    OBVIOUS
  <2>9. s \in (0 .. N) \X (0 .. N) /\ s[1] = a /\ s[2] = b
    <3>1. a \in 0 .. N /\ b \in 0 .. N
      BY <2>5
    <3> QED BY <2>8, <3>1
  <2>10. \A j \in a + 1 .. b : j \in a + 1 .. i \/ j \in i .. b
    BY <2>5
  <2>11. \A j \in a + 1 .. b : mask[j]
    BY <2>5, <2>7, <2>10
  <2>12. a < b
    BY <2>5
  <2>13. s \in Masks!Spans(mask)
    BY <1>1, <2>5, <2>6, <2>9, <2>11, <2>12, SpanIs
  <2> QED BY <2>5, <2>9, <2>13
<1> QED BY <1>1, <1>2, <1>3

\* Two spans lie apart.
LEMMA SpansApart ==
  ASSUME NEW mask \in Seq(BOOLEAN), NEW s \in Masks!Spans(mask),
         NEW r \in Masks!Spans(mask), s # r
  PROVE  s[2] < r[1] \/ r[2] < s[1]
<1>1. PICK N \in Nat : N = Len(mask)
  OBVIOUS
<1>2. PICK a \in 0 .. N, b \in 0 .. N : s = <<a, b>>
  BY <1>1, SpanIs
<1>3. PICK x \in 0 .. N, y \in 0 .. N : r = <<x, y>>
  BY <1>1, SpanIs
<1>4. /\ a < b /\ \A i \in a + 1 .. b : mask[i]
      /\ a > 0 => ~mask[a]
      /\ b < N => ~mask[b + 1]
  <2>1. /\ s[1] < s[2] /\ \A i \in s[1] + 1 .. s[2] : mask[i]
        /\ s[1] > 0 => ~mask[s[1]]
        /\ s[2] < N => ~mask[s[2] + 1]
    BY <1>1, SpanIs
  <2>2. s[1] = a /\ s[2] = b
    BY <1>2
  <2> QED BY <2>1, <2>2
<1>5. /\ x < y /\ \A i \in x + 1 .. y : mask[i]
      /\ x > 0 => ~mask[x]
      /\ y < N => ~mask[y + 1]
  <2>1. /\ r[1] < r[2] /\ \A i \in r[1] + 1 .. r[2] : mask[i]
        /\ r[1] > 0 => ~mask[r[1]]
        /\ r[2] < N => ~mask[r[2] + 1]
    BY <1>1, SpanIs
  <2>2. r[1] = x /\ r[2] = y
    BY <1>3
  <2> QED BY <2>1, <2>2
<1>6. SUFFICES ASSUME ~(b < x), ~(y < a) PROVE FALSE
  BY <1>2, <1>3
<1>7. ~(a < x)
  <2> SUFFICES ASSUME a < x PROVE FALSE
    OBVIOUS
  <2>1. x > 0 /\ x \in a + 1 .. b
    BY <1>6
  <2> QED BY <1>4, <1>5, <2>1
<1>8. ~(x < a)
  <2> SUFFICES ASSUME x < a PROVE FALSE
    OBVIOUS
  <2>1. a > 0 /\ a \in x + 1 .. y
    BY <1>6
  <2> QED BY <1>4, <1>5, <2>1
<1>9. a = x
  BY <1>7, <1>8
<1>10. ~(b < y)
  <2> SUFFICES ASSUME b < y PROVE FALSE
    OBVIOUS
  <2>1. b < N /\ b + 1 \in x + 1 .. y
    BY <1>4, <1>9
  <2> QED BY <1>4, <1>5, <2>1
<1>11. ~(y < b)
  <2> SUFFICES ASSUME y < b PROVE FALSE
    OBVIOUS
  <2>1. y < N /\ y + 1 \in a + 1 .. b
    BY <1>5, <1>9
  <2> QED BY <1>4, <1>5, <2>1
<1>12. b = y
  BY <1>10, <1>11
<1> QED BY <1>2, <1>3, <1>9, <1>12

----------------------------------------------------------------------------
(* The lengths of spans, added up *)

PlacesOf(S) == UNION {s[1] + 1 .. s[2] : s \in S}
LengthTurn(f, S) ==
    IF S = {} THEN 0 ELSE LET x == CHOOSE y \in S : TRUE IN (x[2] - x[1]) + f[S \ {x}]

\* Spans that lie apart, up to N.
SpansUpTo(S, N) ==
    /\ S \subseteq (0 .. N) \X (0 .. N) /\ \A s \in S : s[1] < s[2]
    /\ \A s, r \in S : s # r => s[2] < r[1] \/ r[2] < s[1]

\* One span more.
LEMMA OneSpanMore ==
  ASSUME NEW N \in Nat, NEW S, SpansUpTo(S, N), NEW x \in S
  PROVE  Cardinality(PlacesOf(S)) = (x[2] - x[1]) + Cardinality(PlacesOf(S \ {x}))
<1>1. PICK a \in 0 .. N, b \in 0 .. N : x = <<a, b>> /\ a < b /\ x[1] = a /\ x[2] = b
  BY DEF SpansUpTo
<1>2. PICK X : X = a + 1 .. b
  OBVIOUS
<1>3. PICK Y : Y = PlacesOf(S \ {x})
  OBVIOUS
<1>4. PlacesOf(S) = X \cup Y
  BY <1>1, <1>2, <1>3 DEF PlacesOf
<1>5. X \cap Y = {}
  <2> SUFFICES ASSUME NEW i \in X, i \in Y PROVE FALSE
    OBVIOUS
  <2>1. PICK r \in S \ {x} : i \in r[1] + 1 .. r[2]
    BY <1>3 DEF PlacesOf
  <2>2. PICK c \in 0 .. N, d \in 0 .. N : r = <<c, d>> /\ r[1] = c /\ r[2] = d
    BY DEF SpansUpTo
  <2>3. b < c \/ d < a
    BY <1>1, <2>2 DEF SpansUpTo
  <2>4. i \in a + 1 .. b /\ i \in c + 1 .. d
    BY <1>2, <2>1, <2>2
  <2> QED BY <2>3, <2>4
<1>6. IsFiniteSet(X) /\ Cardinality(X) = b - a
  <2>1. /\ IsFiniteSet(a + 1 .. b)
        /\ Cardinality(a + 1 .. b) = IF a + 1 > b THEN 0 ELSE b - (a + 1) + 1
    BY FS_Interval
  <2> QED BY <1>1, <1>2, <2>1
<1>7. IsFiniteSet(Y) /\ Cardinality(Y) \in Nat
  <2>1. Y \subseteq 1 .. N
    <3> SUFFICES ASSUME NEW i \in Y PROVE i \in 1 .. N
      OBVIOUS
    <3>1. PICK r \in S \ {x} : i \in r[1] + 1 .. r[2]
      BY <1>3 DEF PlacesOf
    <3>2. r[1] \in 0 .. N /\ r[2] \in 0 .. N
      BY DEF SpansUpTo
    <3> QED BY <3>1, <3>2
  <2>2. IsFiniteSet(1 .. N)
    BY FS_Interval
  <2> QED BY <2>1, <2>2, FS_Subset, FS_CardinalityType
<1>8. Cardinality(X \cup Y) = Cardinality(X) + Cardinality(Y) - Cardinality(X \cap Y)
  BY <1>6, <1>7, FS_Union
<1>9. Cardinality(X \cap Y) = 0
  BY <1>5, FS_EmptySet
<1>10. Cardinality(X \cup Y) = (b - a) + Cardinality(Y)
  BY <1>6, <1>7, <1>8, <1>9
<1> QED BY <1>1, <1>3, <1>4, <1>10

LEMMA SpansAddUp ==
  ASSUME NEW N \in Nat, NEW S, SpansUpTo(S, N)
  PROVE  Masks!MapThenSumSet(LAMBDA s : s[2] - s[1], S) = Cardinality(PlacesOf(S))
<1> DEFINE W == CHOOSE f : f = [s \in SUBSET S |-> LengthTurn(f, s)]
           g == [s \in SUBSET S |-> Cardinality(PlacesOf(s))]
<1>1. Masks!MapThenSumSet(LAMBDA s : s[2] - s[1], S) = W[S]
  BY DEF Masks!MapThenSumSet, Masks!MapThenFoldSet, LengthTurn
<1>2. IsFiniteSet(S)
  <2>1. IsFiniteSet(0 .. N)
    BY FS_Interval
  <2>2. IsFiniteSet((0 .. N) \X (0 .. N))
    BY <2>1, FS_Product
  <2> QED BY <2>2, FS_Subset DEF SpansUpTo
<1>3. ASSUME NEW s \in SUBSET S, NEW x \in s
      PROVE  g[s] = (x[2] - x[1]) + g[s \ {x}]
  <2>1. SpansUpTo(s, N)
    BY DEF SpansUpTo
  <2>2. Cardinality(PlacesOf(s)) = (x[2] - x[1]) + Cardinality(PlacesOf(s \ {x}))
    BY <2>1, OneSpanMore
  <2>3. s \ {x} \in SUBSET S
    OBVIOUS
  <2> QED BY <2>2, <2>3
<1>4. g[{}] = 0
  <2>1. PlacesOf({}) = {}
    BY DEF PlacesOf
  <2> QED BY <2>1, FS_EmptySet
<1>5. ASSUME NEW s \in SUBSET S PROVE g[s] = LengthTurn(g, s)
  <2> HIDE DEF g
  <2>1. CASE s = {}
    BY <1>4, <2>1 DEF LengthTurn
  <2>2. CASE s # {}
    <3>1. PICK x \in s : x = CHOOSE y \in s : TRUE
      BY <2>2
    <3>2. LengthTurn(g, s) = (x[2] - x[1]) + g[s \ {x}]
      BY <2>2, <3>1 DEF LengthTurn
    <3> QED BY <1>3, <3>2
  <2> QED BY <2>1, <2>2
<1>6. g = [s \in SUBSET S |-> LengthTurn(g, s)]
  <2>1. g = [s \in SUBSET S |-> g[s]]
    OBVIOUS
  <2> HIDE DEF g
  <2> QED BY <1>5, <2>1
<1>7. W = [s \in SUBSET S |-> LengthTurn(W, s)]
  <2> HIDE DEF g
  <2> QED BY <1>6
<1>8. W[S] = g[S]
  <2> DEFINE D(n) == {s \in SUBSET S : Cardinality(s) <= n}
             T == {n \in Nat : \A s \in D(n) : W[s] = g[s]}
  <2>0. ASSUME NEW s \in SUBSET S PROVE IsFiniteSet(s) /\ Cardinality(s) \in Nat
    BY <1>2, FS_Subset, FS_CardinalityType
  <2>e. ASSUME NEW s \in SUBSET S PROVE W[s] = LengthTurn(W, s)
    <3> HIDE DEF W
    <3> QED BY <1>7
  <2> HIDE DEF W, g
  <2>1. 0 \in T
    <3>1. ASSUME NEW s \in D(0) PROVE W[s] = g[s]
      <4>1. Cardinality(s) = 0 /\ IsFiniteSet(s)
        BY <2>0
      <4>2. s = {}
        BY <4>1, FS_EmptySet
      <4>3. W[s] = LengthTurn(W, s)
        BY <2>e
      <4> QED BY <1>4, <4>2, <4>3 DEF LengthTurn
    <3> QED BY <3>1
  <2>2. ASSUME NEW n \in Nat, n \in T PROVE n + 1 \in T
    <3>1. ASSUME NEW s \in D(n + 1) PROVE W[s] = g[s]
      <4>0. W[s] = LengthTurn(W, s)
        BY <2>e
      <4>1. CASE s = {}
        BY <1>4, <4>0, <4>1 DEF LengthTurn
      <4>2. CASE s # {}
        <5>1. PICK x \in s : x = CHOOSE y \in s : TRUE
          BY <4>2
        <5>2. Cardinality(s \ {x}) = Cardinality(s) - 1
          BY <2>0, FS_RemoveElement
        <5>3. s \ {x} \in D(n)
          BY <2>0, <5>2
        <5>4. W[s \ {x}] = g[s \ {x}]
          BY <2>2, <5>3
        <5>5. W[s] = (x[2] - x[1]) + W[s \ {x}]
          BY <4>0, <4>2, <5>1 DEF LengthTurn
        <5> QED BY <1>3, <5>4, <5>5
      <4> QED BY <4>1, <4>2
    <3> QED BY <3>1
  <2>3. Nat \subseteq T
    <3> HIDE DEF T
    <3> QED BY <2>1, <2>2, NatInd
  <2>4. Cardinality(S) \in Nat /\ S \in SUBSET S
    BY <1>2, FS_CardinalityType
  <2> QED BY <2>3, <2>4
<1> QED BY <1>1, <1>8

\* The tokens that a mask trains are as many as its spans are long.
LEMMA LossAddsUp ==
  ASSUME NEW mask \in Seq(BOOLEAN)
  PROVE  Masks!Count(mask) = Masks!MapThenSumSet(LAMBDA s : s[2] - s[1], Masks!Spans(mask))
<1>1. PICK N \in Nat : N = Len(mask) /\ DOMAIN mask = 1 .. N
  OBVIOUS
<1>2. PICK S : S = Masks!Spans(mask)
  OBVIOUS
<1>3. SpansUpTo(S, N)
  <2>1. S \subseteq (0 .. N) \X (0 .. N) /\ \A s \in S : s[1] < s[2]
    BY <1>1, <1>2, SpanIs
  <2>2. \A s, r \in S : s # r => s[2] < r[1] \/ r[2] < s[1]
    BY <1>2, SpansApart
  <2> QED BY <2>1, <2>2 DEF SpansUpTo
<1>4. {i \in DOMAIN mask : mask[i]} = PlacesOf(S)
  <2>1. ASSUME NEW i PROVE i \in {j \in DOMAIN mask : mask[j]} <=> i \in PlacesOf(S)
    <3>1. ASSUME i \in 1 .. N, mask[i] PROVE i \in PlacesOf(S)
      <4>1. PICK s \in S : s[1] < i /\ i <= s[2]
        BY <1>1, <1>2, <3>1, SpansHold
      <4>2. s[1] \in 0 .. N /\ s[2] \in 0 .. N
        BY <1>3 DEF SpansUpTo
      <4>3. i \in s[1] + 1 .. s[2]
        BY <3>1, <4>1, <4>2
      <4> QED BY <4>3 DEF PlacesOf
    <3>2. ASSUME i \in PlacesOf(S) PROVE i \in 1 .. N /\ mask[i]
      <4>1. PICK s \in S : i \in s[1] + 1 .. s[2]
        BY <3>2 DEF PlacesOf
      <4>2. s[1] \in 0 .. N /\ s[2] \in 0 .. N
        BY <1>3 DEF SpansUpTo
      <4>3. \A j \in s[1] + 1 .. s[2] : mask[j]
        BY <1>2, SpanIs
      <4>4. i \in 1 .. N
        BY <4>1, <4>2
      <4> QED BY <4>1, <4>3, <4>4
    <3> QED BY <1>1, <3>1, <3>2
  <2> QED BY <2>1
<1>5. Masks!MapThenSumSet(LAMBDA s : s[2] - s[1], S) = Cardinality(PlacesOf(S))
  BY <1>3, SpansAddUp
<1>6. \A V : Masks!Cardinality(V) = Cardinality(V)
  BY DEF Masks!Cardinality, Cardinality
<1> QED BY <1>2, <1>4, <1>5, <1>6 DEF Masks!Count

----------------------------------------------------------------------------
(* The loss mask of a training row *)

Tokenizers == [checkpoint : Templates, training : Templates \cup {None}]

\* A mask that the markers of the training template make, answers with their end.
OfMarkers(example, t, c) ==
    /\ example.strategy = "trl_assistant_only" /\ Masks!StopTrained(Masks!Effective(t))
    /\ example.tokens = Masks!Rendered(Masks!Effective(t), c)
    /\ example.mask = Masks!AssistantMask(Masks!Effective(t), example.tokens)

\* A mask of all that follows the prompt, which opens the answers.
OfCompletion(example, t, c) ==
    /\ example.strategy = "completion_only_fallback" /\ OpensAnswers(t.checkpoint)
    /\ Len(c) >= 2 /\ Masks!Last(c) = "assistant"
    /\ example.tokens = Masks!Rendered(t.checkpoint, c)
    /\ example.mask =
         [i \in DOMAIN example.tokens |-> i > Len(Masks!Prompt(t.checkpoint, Masks!Front(c)))]

LEMMA EffectiveIs ==
  ASSUME NEW t \in Tokenizers
  PROVE  t.checkpoint \in Templates /\ Masks!Effective(t) \in Templates
BY DEF Masks!Effective, Tokenizers

\* The fallback raises unless the prompt opens the answers.
LEMMA FallbackIs ==
  ASSUME NEW t \in Tokenizers, NEW c \in Seq(Masks!Roles) \ {<<>>},
         Masks!Fallback(t.checkpoint, c) # None
  PROVE  OfCompletion(Masks!Fallback(t.checkpoint, c), t, c)
<1>1. PICK template \in Templates : template = t.checkpoint
  BY EffectiveIs
<1> DEFINE completed == Masks!Rendered(template, c)
           prompt == Masks!Prompt(template, Masks!Front(c))
           made == Masks!Example("completion_only_fallback", completed,
                           [i \in DOMAIN completed |-> i > Len(prompt)])
<1>2. /\ Len(c) >= 2 /\ Masks!Last(c) = "assistant" /\ Masks!Stable(prompt, completed)
      /\ Masks!Fallback(template, c) = made
  <2>1. Masks!Fallback(template, c) =
          IF Len(c) >= 2 /\ Masks!Last(c) = "assistant" /\ Masks!Stable(prompt, completed)
          THEN made ELSE None
    BY Zenon DEF Masks!Fallback
  <2>2. Masks!Fallback(template, c) # None
    BY <1>1
  <2> HIDE DEF completed, prompt, made
  <2> QED BY <2>1, <2>2
<1>3. OpensAnswers(template)
  <2>1. Len(c) >= 2 /\ Masks!Last(c) = "assistant"
    BY <1>2
  <2>2. Masks!Stable(Masks!Prompt(template, Masks!Front(c)), Masks!Rendered(template, c))
    BY <1>2
  <2> QED BY <2>1, <2>2, StableOpens
<1>4. /\ made.strategy = "completion_only_fallback" /\ made.tokens = completed
      /\ made.mask = [i \in DOMAIN completed |-> i > Len(prompt)]
  BY DEF Masks!Example
<1>5. OfCompletion(made, t, c)
  <2> HIDE DEF made
  <2> QED BY <1>1, <1>2, <1>3, <1>4 DEF OfCompletion
<1> QED BY <1>1, <1>2, <1>5

\* A report, where there is one.
MadeOf(made, t, c) ==
    /\ made.of = c
    /\ made.spans = Masks!Spans(made.example.mask) /\ made.loss = Masks!Count(made.example.mask)
    /\ OfMarkers(made.example, t, c) \/ OfCompletion(made.example, t, c)

LEMMA ReportIs ==
  ASSUME NEW t \in Tokenizers, NEW c \in Seq(Masks!Roles) \ {<<>>},
         Masks!MaskReport(t, c) # None
  PROVE  MadeOf(Masks!MaskReport(t, c), t, c)
<1> DEFINE template == Masks!Effective(t)
           tokens == Masks!Rendered(template, c)
           mask == Masks!AssistantMask(template, tokens)
           marks == Masks!Example("trl_assistant_only", tokens, mask)
           example == IF Masks!Provable(template, mask) THEN marks
                      ELSE Masks!Fallback(t.checkpoint, c)
           made == [of |-> c, example |-> example, spans |-> Masks!Spans(example.mask),
                    loss |-> Masks!Count(example.mask),
                    ignored |-> Len(example.tokens) - Masks!Count(example.mask)]
<1>1. Masks!MaskReport(t, c) = IF example = None THEN None ELSE made
  BY Zenon DEF Masks!MaskReport
<1>2. example # None /\ Masks!MaskReport(t, c) = made
  <2> HIDE DEF example, made
  <2> QED BY <1>1
<1>3. OfMarkers(example, t, c) \/ OfCompletion(example, t, c)
  <2>1. CASE Masks!Provable(template, mask)
    <3>1. example = marks
      BY Zenon, <2>1
    <3>2. Masks!StopTrained(template)
      BY <2>1 DEF Masks!Provable
    <3>3. /\ marks.strategy = "trl_assistant_only" /\ marks.tokens = tokens
          /\ marks.mask = mask
      BY DEF Masks!Example
    <3>4. OfMarkers(marks, t, c)
      <4> HIDE DEF marks
      <4> QED BY <3>2, <3>3 DEF OfMarkers
    <3> HIDE DEF marks, example
    <3> QED BY <3>1, <3>4
  <2>2. CASE ~Masks!Provable(template, mask)
    <3>1. example = Masks!Fallback(t.checkpoint, c)
      BY Zenon, <2>2
    <3>2. Masks!Fallback(t.checkpoint, c) # None
      BY <1>2, <3>1
    <3>3. OfCompletion(Masks!Fallback(t.checkpoint, c), t, c)
      BY <3>2, FallbackIs
    <3> HIDE DEF example
    <3> QED BY <3>1, <3>3
  <2> QED BY <2>1, <2>2
<1>4. /\ made.of = c /\ made.example = example
      /\ made.spans = Masks!Spans(example.mask) /\ made.loss = Masks!Count(example.mask)
  <2> HIDE DEF example
  <2> QED OBVIOUS
<1> HIDE DEF example, made
<1> QED BY <1>2, <1>3, <1>4 DEF MadeOf

\* Of a report: answers only, the last of them to its end, in spans that lie apart.
LEMMA MadeIsOfAnswers ==
  ASSUME NEW t \in Tokenizers, NEW c \in Seq(Masks!Roles) \ {<<>>}, NEW made,
         MadeOf(made, t, c)
  PROVE  /\ Masks!OfAnswers(made.example)
         /\ Masks!Last(c) = "assistant" => Masks!Covers(made.example, Len(c))
         /\ made.example.mask \in Seq(BOOLEAN)
<1>1. PICK example : example = made.example
  OBVIOUS
<1>2. t.checkpoint \in Templates /\ Masks!Effective(t) \in Templates
  BY EffectiveIs
<1>3. CASE OfMarkers(example, t, c)
  <2>1. PICK template \in Templates : template = Masks!Effective(t)
    BY <1>2
  <2>2. /\ Masks!StopTrained(template) /\ example.tokens = Masks!Rendered(template, c)
        /\ example.mask = Masks!AssistantMask(template, example.tokens)
    BY <1>3, <2>1 DEF OfMarkers
  <2>3. c \in Seq(Masks!Roles) /\ c # <<>>
    OBVIOUS
  <2>4. /\ Masks!OfAnswers(example)
        /\ \A n \in DOMAIN c : c[n] = "assistant" => Masks!Covers(example, n)
    BY <2>2, <2>3, MarkersCover
  <2>5. Len(c) \in DOMAIN c /\ c[Len(c)] = Masks!Last(c)
    BY <2>3 DEF Masks!Last
  <2>6. example.mask \in Seq(BOOLEAN)
    <3>1. PICK d : LaidOut(Masks!Rendered(template, c), d, template, c)
      BY <2>3, RenderedIs
    <3>2. PICK k \in Nat : DOMAIN example.tokens = 1 .. k
      BY <2>2, <3>1 DEF LaidOut
    <3>3. PICK m : m = example.mask
      OBVIOUS
    <3>4. m = [i \in 1 .. k |-> /\ example.tokens[i].role = "assistant"
                               /\ example.tokens[i].parts \cap template.marked # {}]
      BY <2>2, <3>2, <3>3 DEF Masks!AssistantMask
    <3>5. \A i \in 1 .. k : m[i] \in BOOLEAN
      BY Zenon, <3>4
    <3>6. m = [i \in 1 .. k |-> m[i]]
      BY Zenon, <3>4
    <3>7. m \in [1 .. k -> BOOLEAN]
      BY <3>5, <3>6
    <3> QED BY <3>3, <3>7
  <2> QED BY <1>1, <2>4, <2>5, <2>6
<1>4. CASE OfCompletion(example, t, c)
  <2>1. PICK template \in Templates : template = t.checkpoint
    BY <1>2
  <2>2. /\ OpensAnswers(template) /\ Len(c) >= 2 /\ Masks!Last(c) = "assistant"
        /\ example.tokens = Masks!Rendered(template, c)
        /\ example.mask =
             [i \in DOMAIN example.tokens |-> i > Len(Masks!Prompt(template, Masks!Front(c)))]
    BY <1>4, <2>1 DEF OfCompletion
  <2>3. c \in Seq(Masks!Roles) /\ c # <<>>
    OBVIOUS
  <2>4. Masks!OfAnswers(example) /\ Masks!Covers(example, Len(c))
    BY <2>2, <2>3, CompletionCovers
  <2>5. example.mask \in Seq(BOOLEAN)
    <3>1. PICK d : LaidOut(Masks!Rendered(template, c), d, template, c)
      BY <2>3, RenderedIs
    <3>2. PICK k \in Nat : DOMAIN example.tokens = 1 .. k
      BY <2>2, <3>1 DEF LaidOut
    <3>3. PICK p \in Nat : p = Len(Masks!Prompt(template, Masks!Front(c)))
      <4>1. PICK m \in Nat : m = Len(Masks!Rendered(template, Masks!Front(c)))
        BY <2>2, <2>3, LastTurnIs DEF LastTurn
      <4>2. Opens(Masks!Prompt(template, Masks!Front(c)), template, c, m)
        BY <2>2, <2>3, <4>1, PromptOpens
      <4> QED BY <4>2 DEF Opens
    <3>4. example.mask = [i \in 1 .. k |-> i > p]
      BY <2>2, <3>2, <3>3
    <3> QED BY <3>4
  <2> QED BY <1>1, <2>4, <2>5
<1> QED BY <1>1, <1>3, <1>4 DEF MadeOf

\* What a preflight proves of the probe, and the template it proves it of.
LEMMA EvidenceIs ==
  ASSUME NEW t \in Tokenizers, NEW plan, Masks!LossEvidence(plan, t) # None
  PROVE  IF plan.mode = "assistant_only"
         THEN OfMarkers(Masks!LossEvidence(plan, t), t, Probe)
         ELSE OfCompletion(Masks!LossEvidence(plan, t), t, Probe)
<1>1. Probe \in Seq(Masks!Roles) \ {<<>>}
  BY MasksAssumption DEF Masks!MaskAssumption
<1>2. PICK made : made = Masks!MaskReport(t, Probe)
  OBVIOUS
<1>3. plan.template = t.checkpoint
  BY DEF Masks!LossEvidence
<1>4. CASE plan.mode = "assistant_only"
  <2>1. Masks!LossEvidence(plan, t) =
          IF made # None /\ made.example.strategy = "trl_assistant_only"
          THEN made.example ELSE None
    BY <1>2, <1>3, <1>4 DEF Masks!LossEvidence
  <2>2. /\ made # None /\ made.example.strategy = "trl_assistant_only"
        /\ Masks!LossEvidence(plan, t) = made.example
    BY <2>1
  <2>3. MadeOf(made, t, Probe)
    BY <1>1, <1>2, <2>2, ReportIs
  <2>4. OfMarkers(made.example, t, Probe)
    BY <2>2, <2>3 DEF MadeOf, OfCompletion
  <2> QED BY <1>4, <2>2, <2>4
<1>5. CASE plan.mode # "assistant_only"
  <2>1. Masks!LossEvidence(plan, t) = Masks!Fallback(t.checkpoint, Probe)
    BY <1>3, <1>5 DEF Masks!LossEvidence
  <2> QED BY <1>1, <1>5, <2>1, FallbackIs
<1> QED BY <1>4, <1>5

\* What the probe proves of a template holds of every row that the trainer is given.
LEMMA EvidenceSpeaks ==
  ASSUME NEW t \in Tokenizers, NEW plan, Masks!LossEvidence(plan, t) # None,
         NEW c \in Conversations, Masks!TrainingRow(plan, c) # None
  PROVE  /\ Masks!OfAnswers(Masks!TrainerMask(plan, t, c))
         /\ \A n \in DOMAIN c :
              /\ c[n] = "assistant"
              /\ plan.mode = "assistant_only" \/ n = Len(c)
              => Masks!Covers(Masks!TrainerMask(plan, t, c), n)
<1>1. c \in Seq(Masks!Roles) /\ c # <<>>
  BY MasksAssumption DEF Masks!MaskAssumption
<1>2. t.checkpoint \in Templates /\ Masks!Effective(t) \in Templates
  BY EffectiveIs
<1>3. PICK example : example = Masks!TrainerMask(plan, t, c)
  OBVIOUS
<1>4. CASE plan.mode = "assistant_only"
  <2>1. PICK template \in Templates : template = Masks!Effective(t)
    BY <1>2
  <2>2. Masks!StopTrained(template)
    BY <1>4, <2>1, EvidenceIs DEF OfMarkers
  <2>3. Masks!TrainingRow(plan, c).rest = c
    BY <1>4 DEF Masks!TrainingRow
  <2>4. example = Masks!Example("trainer", Masks!Rendered(template, c),
                          Masks!AssistantMask(template, Masks!Rendered(template, c)))
    BY <1>3, <1>4, <2>1, <2>3 DEF Masks!TrainerMask
  <2>5. /\ example.tokens = Masks!Rendered(template, c)
        /\ example.mask = Masks!AssistantMask(template, example.tokens)
    BY <2>4 DEF Masks!Example
  <2> QED BY <1>1, <1>3, <2>2, <2>5, MarkersCover
<1>5. CASE plan.mode # "assistant_only"
  <2>1. PICK template \in Templates : template = t.checkpoint
    BY <1>2
  <2>2. OpensAnswers(template)
    BY <1>5, <2>1, EvidenceIs DEF OfCompletion
  <2>3. /\ Len(c) >= 2 /\ Masks!Last(c) = "assistant"
        /\ Masks!TrainingRow(plan, c).prompt = Masks!Front(c)
    BY <1>5 DEF Masks!TrainingRow
  <2>4. PICK p : p = Masks!Prompt(template, Masks!Front(c))
    OBVIOUS
  <2>5. PICK tokens : tokens = Masks!Rendered(template, c)
    OBVIOUS
  <2>6. example = Masks!Example("trainer", tokens, [i \in DOMAIN tokens |-> i > Len(p)])
    BY <1>3, <1>5, <2>1, <2>3, <2>4, <2>5 DEF Masks!TrainerMask
  <2>7. /\ example.tokens = Masks!Rendered(template, c)
        /\ example.mask =
             [i \in DOMAIN example.tokens |-> i > Len(Masks!Prompt(template, Masks!Front(c)))]
    BY <2>4, <2>5, <2>6 DEF Masks!Example
  <2>8. Masks!OfAnswers(example) /\ Masks!Covers(example, Len(c))
    BY <1>1, <2>2, <2>3, <2>7, CompletionCovers
  <2> QED BY <1>3, <1>5, <2>8
<1> QED BY <1>4, <1>5

----------------------------------------------------------------------------
(* Reports and preflights of one tokenizer *)

\* A report, and the evidence of a preflight, are of the tokenizer as it is.
MaskInv ==
    /\ tokenizer \in Tokenizers
    /\ maskReport # None => \E c \in Conversations : maskReport = Masks!MaskReport(tokenizer, c)
    /\ maskEvidence # None =>
         /\ maskEvidence.example # None
         /\ maskEvidence.example = Masks!LossEvidence(maskEvidence.plan, tokenizer)

LEMMA MaskInvStep ==
  ASSUME MaskInv, [Masks!Next]_(Masks!vars)
  PROVE  MaskInv'
<1>1. CASE UNCHANGED Masks!vars
  BY <1>1 DEF MaskInv, Masks!vars
<1>2. ASSUME NEW c \in Conversations, Masks!Report(c) PROVE MaskInv'
  BY <1>2 DEF MaskInv, Masks!Report
<1>3. ASSUME NEW p \in Plans, NEW h \in Hosts, Masks!Preflight(p, h) PROVE MaskInv'
  <2>1. PICK made : made = Masks!LossEvidence(p, tokenizer) /\ made # None
    BY <1>3 DEF Masks!Preflight
  <2>2. /\ maskEvidence' = [plan |-> p, host |-> h, example |-> made]
        /\ UNCHANGED <<tokenizer, maskReport>>
    BY <1>3, <2>1 DEF Masks!Preflight
  <2>3. maskEvidence'.plan = p /\ maskEvidence'.example = made
    BY <2>2
  <2> QED BY <2>1, <2>2, <2>3 DEF MaskInv
<1> QED BY <1>1, <1>2, <1>3 DEF Masks!Next

LEMMA AlwaysMaskInv == Masks!Spec => []MaskInv
<1>1. Masks!Init => MaskInv
  BY DEF Masks!Init, MaskInv, Tokenizers
<1> QED BY <1>1, MaskInvStep, PTL DEF Masks!Spec

\* The reports and the evidence that the invariant allows select tokens of answers.
LEMMA LossIsOnTheAnswersFrom ==
  ASSUME MaskInv
  PROVE  Masks!LossIsOnTheAnswers
<1>1. tokenizer \in Tokenizers
  BY DEF MaskInv
<1>2. ASSUME maskReport # None
      PROVE  /\ Masks!OfAnswers(maskReport.example)
             /\ maskReport.of # <<>> /\ Masks!Last(maskReport.of) = "assistant" =>
                  Masks!Covers(maskReport.example, Len(maskReport.of))
             /\ \A i \in DOMAIN maskReport.example.mask :
                  maskReport.example.mask[i] <=> \E s \in maskReport.spans :
                    s[1] < i /\ i <= s[2]
             /\ \A s, r \in maskReport.spans : s # r => s[2] < r[1] \/ r[2] < s[1]
             /\ maskReport.loss = Masks!MapThenSumSet(LAMBDA s : s[2] - s[1], maskReport.spans)
  <2>1. PICK c \in Conversations : maskReport = Masks!MaskReport(tokenizer, c)
    BY <1>2 DEF MaskInv
  <2>2. c \in Seq(Masks!Roles) \ {<<>>}
    BY MasksAssumption DEF Masks!MaskAssumption
  <2>3. MadeOf(maskReport, tokenizer, c)
    BY <1>1, <1>2, <2>1, <2>2, ReportIs
  <2>4. PICK mask : mask = maskReport.example.mask
    OBVIOUS
  <2>5. /\ Masks!OfAnswers(maskReport.example) /\ mask \in Seq(BOOLEAN)
        /\ Masks!Last(c) = "assistant" => Masks!Covers(maskReport.example, Len(c))
    BY <1>1, <2>2, <2>3, <2>4, MadeIsOfAnswers
  <2>6. /\ maskReport.of = c /\ maskReport.spans = Masks!Spans(mask)
        /\ maskReport.loss = Masks!Count(mask)
    BY <2>3, <2>4 DEF MadeOf
  <2>7. \A i \in DOMAIN mask : mask[i] <=> \E s \in Masks!Spans(mask) : s[1] < i /\ i <= s[2]
    BY <2>5, SpansHold
  <2>8. \A s, r \in Masks!Spans(mask) : s # r => s[2] < r[1] \/ r[2] < s[1]
    BY <2>5, SpansApart
  <2>9. Masks!Count(mask) = Masks!MapThenSumSet(LAMBDA s : s[2] - s[1], Masks!Spans(mask))
    BY <2>5, LossAddsUp
  <2>10. maskReport.loss = Masks!MapThenSumSet(LAMBDA s : s[2] - s[1], maskReport.spans)
    BY <2>6, <2>9
  <2> QED BY <2>4, <2>5, <2>6, <2>7, <2>8, <2>10
<1>3. ASSUME maskEvidence # None
      PROVE  /\ Masks!OfAnswers(maskEvidence.example)
             /\ Masks!Covers(maskEvidence.example, Len(Probe))
             /\ \A c \in Conversations : Masks!TrainingRow(maskEvidence.plan, c) # None =>
                  /\ Masks!OfAnswers(Masks!TrainerMask(maskEvidence.plan, tokenizer, c))
                  /\ \A n \in DOMAIN c :
                       /\ c[n] = "assistant"
                       /\ maskEvidence.plan.mode = "assistant_only" \/ n = Len(c)
                       => Masks!Covers(Masks!TrainerMask(maskEvidence.plan, tokenizer, c), n)
  <2>1. PICK plan : plan = maskEvidence.plan
    OBVIOUS
  <2>2. /\ maskEvidence.example = Masks!LossEvidence(plan, tokenizer)
        /\ Masks!LossEvidence(plan, tokenizer) # None
    BY <1>3, <2>1 DEF MaskInv
  <2>3. PICK made : made.example = maskEvidence.example /\ made.of = Probe
                    /\ made.spans = Masks!Spans(maskEvidence.example.mask)
                    /\ made.loss = Masks!Count(maskEvidence.example.mask)
    <3>1. PICK m : m = [example |-> maskEvidence.example, of |-> Probe,
                        spans |-> Masks!Spans(maskEvidence.example.mask),
                        loss |-> Masks!Count(maskEvidence.example.mask)]
      OBVIOUS
    <3> QED BY <3>1
  <2>4. Probe \in Seq(Masks!Roles) \ {<<>>} /\ Masks!Last(Probe) = "assistant"
    BY MasksAssumption DEF Masks!MaskAssumption
  <2>5. MadeOf(made, tokenizer, Probe)
    <3>1. \/ OfMarkers(Masks!LossEvidence(plan, tokenizer), tokenizer, Probe)
          \/ OfCompletion(Masks!LossEvidence(plan, tokenizer), tokenizer, Probe)
      BY <1>1, <2>2, EvidenceIs
    <3> QED BY <2>2, <2>3, <3>1 DEF MadeOf
  <2>6. Masks!OfAnswers(maskEvidence.example) /\ Masks!Covers(maskEvidence.example, Len(Probe))
    BY <1>1, <2>3, <2>4, <2>5, MadeIsOfAnswers
  <2>7. ASSUME NEW c \in Conversations, Masks!TrainingRow(plan, c) # None
        PROVE  /\ Masks!OfAnswers(Masks!TrainerMask(plan, tokenizer, c))
               /\ \A n \in DOMAIN c :
                    /\ c[n] = "assistant"
                    /\ plan.mode = "assistant_only" \/ n = Len(c)
                    => Masks!Covers(Masks!TrainerMask(plan, tokenizer, c), n)
    BY <1>1, <2>2, <2>7, EvidenceSpeaks
  <2> QED BY <2>1, <2>6, <2>7
<1> QED BY <1>2, <1>3 DEF Masks!LossIsOnTheAnswers

THEOREM LossAlwaysOnTheAnswers ==
  Masks!Spec => []Masks!LossIsOnTheAnswers
<1>1. MaskInv => Masks!LossIsOnTheAnswers
  BY LossIsOnTheAnswersFrom
<1> QED BY <1>1, AlwaysMaskInv, PTL

----------------------------------------------------------------------------
(* Conversation, calls and chats together *)

\* However a conversation and the calls in it are built, saved, damaged, restored, written
\* and read again, what is trained on is what happened.
THEOREM ExchangesSurvive ==
  Conversation!Spec /\ Tools!Spec => []ExchangeSurvives
<1>1. Conversation!ExchangeIsKept /\ Tools!CallsSurvive => ExchangeSurvives
  BY DEF ExchangeSurvives
<1> QED BY <1>1, ExchangesAreKept, CallsAlwaysSurvive, PTL

\* However a conversation is built, saved, damaged and restored, whatever chat template a
\* tokenizer has and whichever way the loss mask of a chat is proved, what is trained on is
\* what the policy said, and the answers to their end.
THEOREM SignalIsSound ==
  Conversation!Spec /\ Masks!Spec => []TrainingSignalIsSound
<1>1. Conversation!LossIsOnThePolicy /\ Masks!LossIsOnTheAnswers => TrainingSignalIsSound
  BY DEF TrainingSignalIsSound
<1> QED BY <1>1, LossAlwaysOnThePolicy, LossAlwaysOnTheAnswers, PTL
====
