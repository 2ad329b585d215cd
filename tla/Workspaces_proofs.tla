--------------------------- MODULE Workspaces_proofs ---------------------------
(***************************************************************************)
(* Theorems about what a workspace holds.                                  *)
(*                                                                         *)
(* Its documents (DocumentRounds), for any manifests, outputs of models    *)
(* and number of rounds: a version shows no result that does not follow    *)
(* from its inputs, it stays the kind of artifact it is unless a request   *)
(* says otherwise, a supported claim rests on pages that were found, no    *)
(* line is lost that no operation replaces, and no body text comes after   *)
(* the terminal sections.                                                  *)
(*                                                                         *)
(* Its jobs and artifacts (WorkspaceCleanup), for any number of jobs,      *)
(* artifacts, requests and confirmations at work at the same time: no row  *)
(* is left that refers to a deleted job, and objects are missing only      *)
(* while a request says so.                                                *)
(***************************************************************************)
EXTENDS DocumentRounds, WorkspaceCleanup, FiniteSetTheorems, SequenceTheorems, TLAPS

-----------------------------------------------------------------------------
(* The audit of calculations.                                              *)

(* Records with distinct identifiers are determined by them.               *)
LEMMA IdsDetermine ==
    ASSUME NEW entries, IsFiniteSet(entries), DistinctIds(entries),
           NEW d \in entries, NEW e \in entries, d.id = e.id
    PROVE  d = e
<1> DEFINE f == [x \in entries |-> x.id]
<1>1. f \in Surjection(entries, Ids(entries))
  BY DEF Surjection, Ids
<1>2. f \in Injection(entries, Ids(entries))
  BY <1>1, FS_Surjection DEF DistinctIds
<1>3. f[d] = f[e]
  OBVIOUS
<1> QED
  BY <1>2, <1>3 DEF Injection, IsInjective

(* What a record is recomputed from does not change once all of it is      *)
(* there.                                                                  *)
LEMMA HoldsIsStable ==
    ASSUME NEW entries, IsFiniteSet(entries), DistinctIds(entries),
           NEW small \in SUBSET entries, NEW large \in SUBSET entries, small \subseteq large,
           NEW e, e.deps \subseteq Ids(small)
    PROVE  Holds(e, small) <=> Holds(e, large)
<1>1. {d \in small : d.id \in e.deps} = {d \in large : d.id \in e.deps}
  <2>1. ASSUME NEW d \in large, d.id \in e.deps PROVE d \in small
    <3>1. PICK c \in small : c.id = d.id
      BY <2>1 DEF Ids
    <3> QED
      BY <3>1, IdsDetermine
  <2> QED
    BY <2>1
<1> QED
  BY <1>1 DEF Holds

(* The passes of the audit of some records.                                *)
Audited(entries, n, after) ==
    after = [i \in 0..n |-> IF i = 0 THEN [pending |-> entries, done |-> {}] ELSE Pass(after[i - 1])]

(* Every set of naturals has a least member.                               *)
LEMMA LeastNatural ==
    ASSUME NEW S \in SUBSET Nat, S # {}
    PROVE  \E n \in S : \A m \in S : n <= m
<1> DEFINE less == OpToRel(<, Nat)
<1>1. ASSUME NEW m \in Nat, NEW n \in Nat, m < n PROVE <<m, n>> \in less
  BY <1>1 DEF OpToRel
<1>2. IsWellFoundedOn(less, Nat)
  BY NatLessThanWellFounded, Zenon
<1> HIDE DEF less
<1>3. \E n \in S : \A m \in S : <<m, n>> \notin less
  BY <1>2, WFMin
<1>4. PICK n \in S : \A m \in S : <<m, n>> \notin less
  BY <1>3
<1>5. n \in Nat /\ \A m \in S : m \in Nat /\ ~(m < n)
  BY <1>1, <1>4
<1>6. \A m \in S : n <= m
  BY <1>5
<1> QED
  BY <1>6

LEMMA PassesExist ==
    ASSUME NEW entries, NEW N \in Nat
    PROVE  \E after : Audited(entries, N, after)
<1> DEFINE Missing == {n \in Nat : ~\E after : Audited(entries, n, after)}
           first == [pending |-> entries, done |-> {}]
<1>1. ASSUME Missing # {} PROVE FALSE
  <2>1. PICK n \in Missing : \A m \in Missing : n <= m
    BY <1>1, LeastNatural
  <2>2. CASE n = 0
    <3>1. Audited(entries, 0, [i \in 0..0 |-> first])
      BY DEF Audited
    <3> QED
      BY <2>1, <2>2, <3>1
  <2>3. CASE n # 0
    <3>1. n - 1 \in Nat /\ n - 1 \notin Missing
      BY <2>1, <2>3
    <3>2. PICK before : Audited(entries, n - 1, before)
      BY <3>1
    <3> DEFINE after == [i \in 0..n |-> IF i < n THEN before[i] ELSE Pass(before[n - 1])]
    <3>3. ASSUME NEW i \in 0..n
          PROVE  after[i] = IF i = 0 THEN first ELSE Pass(after[i - 1])
      <4>1. CASE i < n
        <5>1. i \in 0..(n - 1) /\ (i # 0 => i - 1 \in 0..n /\ i - 1 < n)
          BY <2>1, <4>1
        <5>2. before[i] = IF i = 0 THEN first ELSE Pass(before[i - 1])
          BY <3>2, <5>1 DEF Audited
        <5> QED
          BY <4>1, <5>1, <5>2
      <4>2. CASE i = n
        <5>1. n - 1 \in 0..n /\ n - 1 < n /\ ~(n < n)
          BY <2>1, <2>3
        <5> QED
          BY <2>3, <4>2, <5>1
      <4> QED
        BY <2>1, <4>1, <4>2
    <3>4. after = [i \in 0..n |-> IF i = 0 THEN first ELSE Pass(after[i - 1])]
      BY <3>3
    <3>5. Audited(entries, n, after)
      BY <3>4 DEF Audited
    <3> QED
      BY <2>1, <3>5
  <2> QED
    BY <2>2, <2>3
<1> QED
  BY <1>1

(* The state of the audit after as many passes as it makes.                *)
LEMMA AuditIsItsPasses ==
    ASSUME NEW entries, IsFiniteSet(entries)
    PROVE  \E after : /\ Audited(entries, Cardinality(entries), after)
                      /\ Evaluated(entries) = after[Cardinality(entries)].done
<1> DEFINE N == Cardinality(entries)
           after == CHOOSE f : Audited(entries, N, f)
<1>1. N \in Nat
  BY FS_CardinalityType
<1>2. Audited(entries, N, after)
  BY <1>1, PassesExist
<1>3. Evaluated(entries) = after[N].done
  BY DEF Evaluated, Audited
<1> QED
  BY <1>2, <1>3

-----------------------------------------------------------------------------
(* A set of records that has every record it makes right.                  *)
IsClosed(entries, s) ==
    \A d \in entries : (d.deps \subseteq Ids(s) /\ Holds(d, s)) => d \in s

(* What the passes keep: a record that has left is evaluated if it holds,  *)
(* every pass takes a record or there is none to take, and nothing is      *)
(* evaluated that some closed set does without.                            *)
AuditKeeps(entries, n, s) ==
    /\ s = [pending |-> s.pending, done |-> s.done]
    /\ s.pending \subseteq entries /\ s.done \subseteq entries
    /\ \A d \in entries \ s.pending : d.deps \subseteq Ids(s.done) /\ (Holds(d, s.done) => d \in s.done)
    /\ Cardinality(s.pending) <= Cardinality(entries) - n \/ Ready(s) = {}
    /\ \A c \in SUBSET entries : IsClosed(entries, c) => s.done \subseteq c

LEMMA PassKeeps ==
    ASSUME NEW entries, IsFiniteSet(entries), DistinctIds(entries), NEW n \in Nat, NEW s,
           AuditKeeps(entries, n, s)
    PROVE  AuditKeeps(entries, n + 1, Pass(s))
<1> DEFINE t == Pass(s)
           right == {e \in Ready(s) : Holds(e, s.done)}
<1>1. /\ t = [pending |-> t.pending, done |-> t.done]
      /\ t.pending = s.pending \ Ready(s) /\ t.done = s.done \cup right
  BY DEF Pass
<1>2. s.pending \in SUBSET entries /\ s.done \in SUBSET entries
  BY DEF AuditKeeps
<1>3. Ready(s) \subseteq s.pending /\ \A e \in Ready(s) : e.deps \subseteq Ids(s.done)
  BY DEF Ready
<1>4. t.pending \in SUBSET entries /\ t.done \in SUBSET entries
  BY <1>1, <1>2, <1>3
<1>5. Ids(s.done) \subseteq Ids(t.done)
  BY <1>1 DEF Ids
<1> HIDE DEF t, right
<1>6. ASSUME NEW e, e.deps \subseteq Ids(s.done) PROVE Holds(e, s.done) <=> Holds(e, t.done)
  <2>1. s.done \subseteq t.done
    BY <1>1
  <2> QED
    BY <1>2, <1>4, <1>6, <2>1, HoldsIsStable
<1>7. ASSUME NEW d \in entries \ t.pending
      PROVE  d.deps \subseteq Ids(t.done) /\ (Holds(d, t.done) => d \in t.done)
  <2>1. d \in entries \ s.pending \/ d \in Ready(s)
    BY <1>1, <1>7
  <2>2. d.deps \subseteq Ids(s.done)
    BY <1>3, <2>1 DEF AuditKeeps
  <2>3. Holds(d, s.done) => d \in t.done
    <3>1. CASE d \in entries \ s.pending
      BY <1>1, <3>1 DEF AuditKeeps
    <3>2. CASE d \in Ready(s)
      BY <1>1, <3>2 DEF right
    <3> QED
      BY <2>1, <3>1, <3>2
  <2> QED
    BY <1>5, <1>6, <2>2, <2>3
<1>8. Cardinality(t.pending) <= Cardinality(entries) - (n + 1) \/ Ready(t) = {}
  <2>1. CASE Ready(s) = {}
    <3>1. right = {}
      BY <2>1 DEF right
    <3>2. t = s
      BY <1>1, <2>1, <3>1 DEF AuditKeeps
    <3> QED
      BY <2>1, <3>2
  <2>2. CASE Ready(s) # {}
    <3>1. IsFiniteSet(s.pending) /\ IsFiniteSet(t.pending)
      BY <1>2, <1>4, FS_Subset
    <3>2. t.pending \subseteq s.pending /\ t.pending # s.pending
      BY <1>1, <1>3, <2>2
    <3>3. Cardinality(t.pending) < Cardinality(s.pending)
      <4>1. /\ Cardinality(t.pending) <= Cardinality(s.pending)
            /\ Cardinality(t.pending) # Cardinality(s.pending)
        BY <3>1, <3>2, FS_Subset
      <4> QED
        BY <3>1, <4>1, FS_CardinalityType
    <3>4. Cardinality(s.pending) <= Cardinality(entries) - n
      BY <2>2 DEF AuditKeeps
    <3>5. /\ Cardinality(t.pending) \in Nat /\ Cardinality(s.pending) \in Nat
          /\ Cardinality(entries) \in Nat
      BY <3>1, FS_CardinalityType
    <3> QED
      BY <3>3, <3>4, <3>5
  <2> QED
    BY <2>1, <2>2
<1>9. ASSUME NEW c \in SUBSET entries, IsClosed(entries, c) PROVE t.done \subseteq c
  <2>1. s.done \subseteq c
    BY <1>9 DEF AuditKeeps
  <2>2. ASSUME NEW e \in right PROVE e \in c
    <3>1. e \in entries /\ e.deps \subseteq Ids(s.done) /\ Holds(e, s.done)
      BY <1>2, <1>3 DEF right
    <3>2. Holds(e, c)
      BY <1>2, <2>1, <3>1, HoldsIsStable
    <3>3. e.deps \subseteq Ids(c)
      BY <2>1, <3>1 DEF Ids
    <3> QED
      BY <1>9, <3>1, <3>2, <3>3 DEF IsClosed
  <2> QED
    BY <1>1, <2>1, <2>2
<1> QED
  BY <1>1, <1>4, <1>7, <1>8, <1>9 DEF AuditKeeps, t

LEMMA PassesKeep ==
    ASSUME NEW entries, IsFiniteSet(entries), DistinctIds(entries),
           NEW N \in Nat, NEW after, Audited(entries, N, after)
    PROVE  \A n \in 0..N : AuditKeeps(entries, n, after[n])
<1> DEFINE Missing == {n \in 0..N : ~AuditKeeps(entries, n, after[n])}
           first == [pending |-> entries, done |-> {}]
<1>1. \A n \in 0..N : after[n] = IF n = 0 THEN first ELSE Pass(after[n - 1])
  BY DEF Audited
<1>2. AuditKeeps(entries, 0, first)
  <2>1. first = [pending |-> first.pending, done |-> first.done] /\ first.pending = entries /\ first.done = {}
    OBVIOUS
  <2>2. Cardinality(entries) <= Cardinality(entries) - 0
    BY FS_CardinalityType
  <2> HIDE DEF first
  <2> QED
    BY <2>1, <2>2 DEF AuditKeeps
<1> HIDE DEF first
<1>3. ASSUME Missing # {} PROVE FALSE
  <2>1. Missing \in SUBSET Nat
    OBVIOUS
  <2>2. PICK n \in Missing : \A m \in Missing : n <= m
    BY <1>3, <2>1, LeastNatural
  <2>3. n # 0
    BY <1>1, <1>2, <2>2
  <2>4. n - 1 \in 0..N /\ n - 1 \in Nat /\ n - 1 \notin Missing /\ (n - 1) + 1 = n
    BY <2>2, <2>3
  <2>5. AuditKeeps(entries, n - 1, after[n - 1])
    BY <2>4
  <2>6. AuditKeeps(entries, n, Pass(after[n - 1]))
    BY <2>4, <2>5, PassKeeps
  <2> QED
    BY <1>1, <2>2, <2>3, <2>6
<1> QED
  BY <1>3

(* The audit evaluates the records that follow from their inputs, and only *)
(* these, in whatever order the ledger has them (audit_calculations).      *)
THEOREM AuditIsExact ==
    ASSUME NEW entries, IsFiniteSet(entries), LedgerIsValid(entries)
    PROVE  Evaluated(entries) = Grounded(entries)
<1> DEFINE N == Cardinality(entries)
<1>0. DistinctIds(entries) /\ N \in Nat
  BY FS_CardinalityType DEF LedgerIsValid
<1>1. PICK after : Audited(entries, N, after) /\ Evaluated(entries) = after[N].done
  BY AuditIsItsPasses
<1> DEFINE s == after[N]
<1>2. N \in 0..N
  BY <1>0
<1>3. AuditKeeps(entries, N, s)
  BY <1>0, <1>1, <1>2, PassesKeep
<1> HIDE DEF s
<1>4. Ready(s) = {}
  <2>1. CASE Cardinality(s.pending) <= N - N
    <3>1. IsFiniteSet(s.pending)
      BY <1>3, FS_Subset DEF AuditKeeps
    <3>2. Cardinality(s.pending) = 0
      BY <1>0, <2>1, <3>1, FS_CardinalityType
    <3>3. s.pending = {}
      BY <3>1, <3>2, FS_EmptySet
    <3> QED
      BY <3>3 DEF Ready
  <2> QED
    BY <1>3, <2>1 DEF AuditKeeps
<1>5. IsClosed(entries, s.done)
  <2> SUFFICES ASSUME NEW d \in entries, d.deps \subseteq Ids(s.done), Holds(d, s.done)
               PROVE  d \in s.done
    BY DEF IsClosed
  <2>1. d \notin s.pending
    BY <1>4 DEF Ready
  <2> QED
    BY <1>3, <2>1 DEF AuditKeeps
<1>6. s.done \subseteq entries
  BY <1>3 DEF AuditKeeps
<1>7. Grounded(entries) = {e \in entries : \A c \in SUBSET entries : IsClosed(entries, c) => e \in c}
  BY DEF Grounded, IsClosed
<1>8. Grounded(entries) \subseteq s.done
  BY <1>5, <1>6, <1>7
<1>9. s.done \subseteq Grounded(entries)
  BY <1>3, <1>6, <1>7 DEF AuditKeeps
<1> QED
  BY <1>1, <1>8, <1>9 DEF s

-----------------------------------------------------------------------------
(* Sequences, texts and documents: what the operators of DocumentText and  *)
(* DocumentEditing return, keep and order.                                 *)

(* What holds of 0 and, with a number, of the next one up to a bound.      *)
LEMMA UpTo ==
    ASSUME NEW N \in Nat, NEW Good \in SUBSET Nat, 0 \in Good,
           \A k \in 1..N : k - 1 \in Good => k \in Good
    PROVE  \A k \in 0..N : k \in Good
<1> DEFINE Bad == {k \in 0..N : k \notin Good}
<1> SUFFICES ASSUME Bad # {} PROVE FALSE
  OBVIOUS
<1>0. Bad \in SUBSET Nat
  OBVIOUS
<1>1. PICK k \in Bad : \A m \in Bad : k <= m
  BY <1>0, LeastNatural
<1>2. k \in 1..N /\ k - 1 \in 0..N /\ k - 1 \notin Bad
  BY <1>1
<1> QED
  BY <1>1, <1>2

(* A function that a step at each place makes of a first value.            *)
Steps(f, N, first, step) ==
    f = [k \in 0..N |-> IF k = 0 THEN first ELSE step[k][f[k - 1]]]

(* There is such a function.                                               *)
LEMMA StepsExist ==
    ASSUME NEW N \in Nat, NEW S, NEW first \in S, NEW step \in [1..N -> [S -> S]]
    PROVE  \E f \in [0..N -> S] : Steps(f, N, first, step)
<1> DEFINE Good == {n \in 0..N : \E f \in [0..n -> S] : Steps(f, n, first, step)}
<1>1. 0 \in Good
  <2>1. [k \in 0..0 |-> first] \in [0..0 -> S] /\ Steps([k \in 0..0 |-> first], 0, first, step)
    BY DEF Steps
  <2> QED
    BY <2>1
<1>2. ASSUME NEW n \in 1..N, n - 1 \in Good PROVE n \in Good
  <2>1. PICK f \in [0..(n - 1) -> S] : Steps(f, n - 1, first, step)
    BY <1>2
  <2> DEFINE g == [k \in 0..n |-> IF k = n THEN step[n][f[n - 1]] ELSE f[k]]
  <2>2. f[n - 1] \in S /\ step[n][f[n - 1]] \in S
    <3>1. n - 1 \in 0..(n - 1)
      OBVIOUS
    <3>2. f[n - 1] \in S
      BY <3>1
    <3>3. step[n] \in [S -> S]
      OBVIOUS
    <3> QED
      BY <3>2, <3>3
  <2>3. g \in [0..n -> S]
    BY <2>2
  <2>4. ASSUME NEW k \in 0..n PROVE g[k] = IF k = 0 THEN first ELSE step[k][g[k - 1]]
    <3>1. CASE k = n
      <4>1. k - 1 \in 0..n /\ k - 1 # n /\ k # 0
        BY <3>1
      <4>2. g[k - 1] = f[n - 1] /\ g[k] = step[n][f[n - 1]]
        BY <3>1, <4>1
      <4> QED
        BY <3>1, <4>1, <4>2
    <3>2. CASE k # n
      <4>1. k \in 0..(n - 1) /\ (k # 0 => k - 1 \in 0..n /\ k - 1 # n)
        BY <3>2
      <4>2. f[k] = IF k = 0 THEN first ELSE step[k][f[k - 1]]
        BY <2>1, <4>1 DEF Steps
      <4>3. g[k] = f[k] /\ (k # 0 => g[k - 1] = f[k - 1])
        BY <3>2, <4>1
      <4> QED
        BY <4>2, <4>3
    <3> QED
      BY <3>1, <3>2
  <2>5. Steps(g, n, first, step)
    BY <2>3, <2>4 DEF Steps
  <2>6. n \in 0..N
    OBVIOUS
  <2> HIDE DEF g
  <2> QED
    BY <2>3, <2>5, <2>6
<1> HIDE DEF Good
<1>3. Good \in SUBSET Nat
  BY DEF Good
<1>4. \A k \in 0..N : k \in Good
  BY <1>1, <1>2, <1>3, UpTo
<1> QED
  BY <1>4 DEF Good, Steps

-----------------------------------------------------------------------------
(* A sequence is a function from the numbers up to its length.             *)
LEMMA SequenceFacts ==
    ASSUME NEW s, IsSequence(s)
    PROVE  Len(s) \in Nat /\ DOMAIN s = 1..Len(s) /\ s = [i \in 1..Len(s) |-> s[i]]
<1>1. s \in [1..Len(s) -> ToSet(s)] /\ Len(s) \in Nat /\ DOMAIN s = 1..Len(s)
  BY LenProperties DEF IsSequence
<1> QED
  BY <1>1

LEMMA SequenceOfAny ==
    ASSUME NEW S, NEW s \in Seq(S)
    PROVE  IsSequence(s) /\ ToSet(s) \subseteq S
<1>1. s \in [1..Len(s) -> S] /\ Len(s) \in Nat /\ DOMAIN s = 1..Len(s)
  BY LenProperties
<1>2. \A i \in 1..Len(s) : s[i] \in ToSet(s)
  BY <1>1 DEF ToSet
<1>3. s \in [1..Len(s) -> ToSet(s)]
  BY <1>1, <1>2
<1>4. ToSet(s) \subseteq S
  BY <1>1 DEF ToSet
<1> QED
  BY <1>1, <1>3, <1>4, SeqDef DEF IsSequence

(* And the other way round.                                                *)
LEMMA FunctionIsSequence ==
    ASSUME NEW n \in Nat, NEW f, f = [i \in 1..n |-> f[i]]
    PROVE  IsSequence(f) /\ Len(f) = n /\ DOMAIN f = 1..n
<1>1. DOMAIN f = 1..n
  OBVIOUS
<1>2. \A i \in 1..n : f[i] \in ToSet(f)
  BY <1>1 DEF ToSet
<1>3. f \in [1..n -> ToSet(f)]
  BY <1>2
<1>4. f \in Seq(ToSet(f))
  BY <1>3, SeqDef
<1>5. DOMAIN f = 1..Len(f) /\ Len(f) \in Nat
  BY <1>4, LenProperties
<1> QED
  BY <1>1, <1>4, <1>5 DEF IsSequence

(* The places chosen of the first k elements of s.                         *)
Picks(s, places, k, r, n, p) ==
    /\ p \in [1..n -> places \cap 1..k]
    /\ \A a, b \in 1..n : a < b => p[a] < p[b]
    /\ \A i \in places \cap 1..k : \E a \in 1..n : p[a] = i
    /\ r = [a \in 1..n |-> s[p[a]]]

(* One more place.                                                         *)
LEMMA PickNext ==
    ASSUME NEW s, NEW places, NEW k \in Nat, k > 0, NEW r, NEW n \in Nat, NEW p,
           Picks(s, places, k - 1, r, n, p), k \in places
    PROVE  Picks(s, places, k, Append(r, s[k]), n + 1, [a \in 1..(n + 1) |-> IF a = n + 1 THEN k ELSE p[a]])
<1> DEFINE q == [a \in 1..(n + 1) |-> IF a = n + 1 THEN k ELSE p[a]]
<1>1. \A a \in 1..n : p[a] \in places /\ p[a] \in 1..(k - 1)
  BY DEF Picks
<1>2. \A a \in 1..n : q[a] = p[a] /\ q[a] \in 1..(k - 1)
  BY <1>1
<1>3. q[n + 1] = k
  OBVIOUS
<1>4. q \in [1..(n + 1) -> places \cap 1..k]
  BY <1>1
<1>5. ASSUME NEW a \in 1..(n + 1), NEW b \in 1..(n + 1), a < b PROVE q[a] < q[b]
  <2>1. a \in 1..n
    BY <1>5
  <2>2. CASE b = n + 1
    <3>1. q[a] \in 1..(k - 1) /\ q[b] = k
      BY <1>2, <1>3, <2>1, <2>2
    <3> HIDE DEF q
    <3> QED
      BY <3>1
  <2>3. CASE b # n + 1
    <3>1. b \in 1..n
      BY <2>3
    <3>2. p[a] < p[b]
      BY <1>5, <2>1, <3>1 DEF Picks
    <3>3. q[a] = p[a] /\ q[b] = p[b]
      BY <1>2, <2>1, <3>1
    <3> QED
      BY <3>2, <3>3
  <2> QED
    BY <2>2, <2>3
<1>6. ASSUME NEW i \in places \cap 1..k PROVE \E a \in 1..(n + 1) : q[a] = i
  <2>1. CASE i = k
    BY <1>3, <2>1
  <2>2. CASE i # k
    <3>1. i \in places \cap 1..(k - 1)
      BY <2>2
    <3>2. PICK a \in 1..n : p[a] = i
      BY <3>1 DEF Picks
    <3> QED
      BY <1>2, <3>2
  <2> QED
    BY <2>1, <2>2
<1>7. Append(r, s[k]) = [a \in 1..(n + 1) |-> s[q[a]]]
  <2> DEFINE e == [a \in 1..(n + 1) |-> s[q[a]]]
  <2>1. r = [a \in 1..n |-> s[p[a]]]
    BY DEF Picks
  <2>2. IsSequence(r) /\ Len(r) = n
    BY <2>1, FunctionIsSequence
  <2>3. Append(r, s[k]) = [a \in 1..(Len(r) + 1) |-> IF a = Len(r) + 1 THEN s[k] ELSE r[a]]
    BY <2>2 DEF IsSequence
  <2> QED
    BY <2>1, <2>2, <2>3
<1> HIDE DEF q
<1> QED
  BY <1>4, <1>5, <1>6, <1>7 DEF Picks, q

(* What is chosen is picked, place after place.                            *)
LEMMA PicksExist ==
    ASSUME NEW s, IsSequence(s), NEW places
    PROVE  \E n \in Nat : \E p : Picks(s, places, Len(s), Chosen(s, places), n, p)
<1> DEFINE N == Len(s)
           S == Seq(ToSet(s))
           step == [k \in 1..N |-> [r \in S |-> IF k \in places THEN Append(r, s[k]) ELSE r]]
           upto == CHOOSE f : f = [k \in 0..N |-> IF k = 0 THEN <<>>
                                      ELSE IF k \in places THEN Append(f[k - 1], s[k]) ELSE f[k - 1]]
<1>1. N \in Nat /\ DOMAIN s = 1..N /\ \A k \in 1..N : s[k] \in ToSet(s)
  BY SequenceFacts DEF ToSet
<1>2. step \in [1..N -> [S -> S]]
  <2>1. ASSUME NEW k \in 1..N, NEW r \in S PROVE Append(r, s[k]) \in S
    BY <1>1, AppendProperties
  <2> QED
    BY <2>1
<1>3. <<>> \in S
  BY EmptySeq
<1>4. PICK f \in [0..N -> S] : Steps(f, N, <<>>, step)
  <2> HIDE DEF N, S, step
  <2> QED
    BY <1>1, <1>2, <1>3, StepsExist
<1>5. ASSUME NEW k \in 1..N
      PROVE  f[k] = IF k \in places THEN Append(f[k - 1], s[k]) ELSE f[k - 1]
  <2>1. f[k - 1] \in S
    BY <1>1
  <2>2. f[k] = step[k][f[k - 1]]
    <3> HIDE DEF step
    <3> QED
      BY <1>1, <1>4 DEF Steps
  <2> QED
    BY <2>1, <2>2
<1>6. f[0] = <<>>
  BY <1>1, <1>4 DEF Steps
<1>7. f = [k \in 0..N |-> IF k = 0 THEN <<>>
                          ELSE IF k \in places THEN Append(f[k - 1], s[k]) ELSE f[k - 1]]
  <2> HIDE DEF step, S
  <2>1. \A k \in 0..N : k = 0 \/ k \in 1..N
    BY <1>1
  <2> QED
    BY <1>4, <1>5, <1>6, <2>1
<1> HIDE DEF step
<1> DEFINE next == [k \in 0..N |-> IF k = 0 THEN <<>>
                                   ELSE IF k \in places THEN Append(upto[k - 1], s[k]) ELSE upto[k - 1]]
<1>14. upto = next
  BY <1>7
<1>9. Chosen(s, places) = upto[N]
  BY DEF Chosen
<1> HIDE DEF upto
<1>15. \A k \in 0..N : next[k] = IF k = 0 THEN <<>>
                          ELSE IF k \in places THEN Append(upto[k - 1], s[k]) ELSE upto[k - 1]
  OBVIOUS
<1> HIDE DEF next
<1>8. \A k \in 0..N : upto[k] = IF k = 0 THEN <<>>
                          ELSE IF k \in places THEN Append(upto[k - 1], s[k]) ELSE upto[k - 1]
  BY <1>14, <1>15
<1> DEFINE Good == {k \in 0..N : \E n \in Nat : \E p : Picks(s, places, k, upto[k], n, p)}
<1>10. 0 \in Good
  <2>1. upto[0] = <<>>
    BY <1>1, <1>8
  <2>2. Picks(s, places, 0, <<>>, 0, <<>>)
    BY DEF Picks
  <2> QED
    BY <1>1, <2>1, <2>2
<1>11. ASSUME NEW k \in 1..N, k - 1 \in Good PROVE k \in Good
  <2>1. k \in Nat /\ k > 0 /\ k \in 0..N
    BY <1>1
  <2>2. PICK n, p : n \in Nat /\ Picks(s, places, k - 1, upto[k - 1], n, p)
    BY <1>11
  <2>3. upto[k] = IF k \in places THEN Append(upto[k - 1], s[k]) ELSE upto[k - 1]
    BY <1>8, <2>1
  <2>4. CASE k \in places
    <3>1. \E q : Picks(s, places, k, Append(upto[k - 1], s[k]), n + 1, q)
      BY <2>1, <2>2, <2>4, PickNext
    <3>2. n + 1 \in Nat
      OBVIOUS
    <3> QED
      BY <2>1, <2>3, <2>4, <3>1, <3>2
  <2>5. CASE k \notin places
    <3>1. places \cap 1..k = places \cap 1..(k - 1)
      BY <2>1, <2>5
    <3>2. Picks(s, places, k, upto[k - 1], n, p)
      BY <2>2, <3>1 DEF Picks
    <3> QED
      BY <2>1, <2>2, <2>3, <2>5, <3>2
  <2> QED
    BY <2>4, <2>5
<1>12. Good \in SUBSET Nat
  BY <1>1
<1>13. N \in Good
  <2> HIDE DEF Good, N
  <2>1. \A k \in 0..N : k \in Good
    BY <1>1, <1>10, <1>11, <1>12, UpTo
  <2> QED
    BY <1>1, <2>1
<1> QED
  BY <1>9, <1>13

(* What is chosen of a sequence: its elements at the places, in order.     *)
LEMMA ChosenElements ==
    ASSUME NEW s, IsSequence(s), NEW places
    PROVE  /\ IsSequence(Chosen(s, places))
           /\ ToSet(Chosen(s, places)) = {s[i] : i \in places \cap DOMAIN s}
<1> DEFINE r == Chosen(s, places)
<1>1. PICK n, p : n \in Nat /\ Picks(s, places, Len(s), r, n, p)
  BY PicksExist
<1> HIDE DEF r
<1>2. DOMAIN s = 1..Len(s)
  BY SequenceFacts
<1>3. p \in [1..n -> places \cap DOMAIN s] /\ r = [a \in 1..n |-> s[p[a]]]
  BY <1>1, <1>2 DEF Picks
<1>4. DOMAIN r = 1..n /\ \A a \in 1..n : p[a] \in places \cap DOMAIN s /\ r[a] = s[p[a]]
  BY <1>3
<1>5. IsSequence(r)
  BY <1>1, <1>3, <1>4, FunctionIsSequence
<1>6. ToSet(r) \subseteq {s[i] : i \in places \cap DOMAIN s}
  BY <1>4 DEF ToSet
<1>7. ASSUME NEW i \in places \cap DOMAIN s PROVE s[i] \in ToSet(r)
  <2>1. PICK a \in 1..n : p[a] = i
    BY <1>1, <1>2 DEF Picks
  <2> QED
    BY <1>4, <2>1 DEF ToSet
<1> QED
  BY <1>5, <1>6, <1>7 DEF r

-----------------------------------------------------------------------------
(* A document is an ordered dictionary: its names are its own.             *)
LEMMA ChosenIsDocument ==
    ASSUME NEW doc, IsDocument(doc), NEW places
    PROVE  IsDocument(Chosen(doc, places))
<1> DEFINE r == Chosen(doc, places)
<1>0. IsSequence(doc)
  BY DEF IsDocument
<1>1. PICK n, p : n \in Nat /\ Picks(doc, places, Len(doc), r, n, p)
  BY <1>0, PicksExist
<1>5. IsSequence(r)
  BY <1>0, ChosenElements
<1> HIDE DEF r
<1>2. DOMAIN doc = 1..Len(doc)
  BY <1>0, SequenceFacts
<1>3. p \in [1..n -> places \cap DOMAIN doc] /\ r = [a \in 1..n |-> doc[p[a]]]
  BY <1>1, <1>2 DEF Picks
<1>4. DOMAIN r = 1..n /\ \A a \in 1..n : p[a] \in DOMAIN doc /\ r[a] = doc[p[a]]
  BY <1>3
<1>6. ASSUME NEW a \in DOMAIN r PROVE r[a] = Section(r[a].name, r[a].text) /\ IsSequence(r[a].text)
  BY <1>4 DEF IsDocument
<1>7. ASSUME NEW a \in 1..n, NEW b \in 1..n, r[a].name = r[b].name PROVE a = b
  <2>1. p[a] = p[b]
    BY <1>4, <1>7 DEF IsDocument
  <2>2. p[a] \in Nat
    BY <1>0, <1>2, <1>4, SequenceFacts
  <2>3. ~(p[a] < p[b]) /\ ~(p[b] < p[a])
    BY <2>1, <2>2
  <2>4. ~(a < b) /\ ~(b < a)
    BY <1>1, <2>3 DEF Picks
  <2> QED
    BY <2>4
<1>8. IsDocument(r)
  BY <1>4, <1>5, <1>6, <1>7 DEF IsDocument
<1> QED
  BY <1>8 DEF r

(* The sequence of all pieces.                                             *)
LEMMA FlattenElements ==
    ASSUME NEW ss, IsSequence(ss), \A i \in DOMAIN ss : IsSequence(ss[i])
    PROVE  /\ IsSequence(FlattenSeq(ss))
           /\ ToSet(FlattenSeq(ss)) = UNION {ToSet(ss[i]) : i \in DOMAIN ss}
<1> DEFINE N == Len(ss)
           S == Seq(UNION {ToSet(ss[i]) : i \in DOMAIN ss})
           step == [k \in 1..N |-> [r \in S |-> r \o ss[k]]]
           flat == CHOOSE f : f = [i \in 1..N |-> IF i = 1 THEN ss[i] ELSE f[i - 1] \o ss[i]]
<1>1. N \in Nat /\ DOMAIN ss = 1..N
  BY SequenceFacts
<1>2. ASSUME NEW k \in 1..N PROVE ss[k] \in S
  <2>1. ss[k] \in Seq(ToSet(ss[k]))
    BY <1>1 DEF IsSequence
  <2>2. ToSet(ss[k]) \subseteq UNION {ToSet(ss[i]) : i \in DOMAIN ss}
    BY <1>1
  <2> HIDE DEF N
  <2> QED
    BY <2>1, <2>2, SeqMonotonic
<1>3. step \in [1..N -> [S -> S]]
  <2>1. ASSUME NEW k \in 1..N, NEW r \in S PROVE r \o ss[k] \in S
    BY <1>2, ConcatProperties
  <2> QED
    BY <2>1
<1>4. <<>> \in S
  BY EmptySeq
<1>5. PICK f \in [0..N -> S] : Steps(f, N, <<>>, step)
  <2> HIDE DEF N, S, step
  <2> QED
    BY <1>1, <1>3, <1>4, StepsExist
<1>6. ASSUME NEW k \in 1..N PROVE f[k] \in S /\ f[k - 1] \in S /\ f[k] = f[k - 1] \o ss[k]
  <2>1. f[k - 1] \in S /\ f[k] \in S
    BY <1>1
  <2>2. f[k] = step[k][f[k - 1]]
    <3> HIDE DEF step
    <3> QED
      BY <1>1, <1>5 DEF Steps
  <2> QED
    BY <2>1, <2>2
<1>7. f[0] = <<>>
  BY <1>1, <1>5 DEF Steps
<1> DEFINE g == [i \in 1..N |-> f[i]]
           next == [i \in 1..N |-> IF i = 1 THEN ss[i] ELSE flat[i - 1] \o ss[i]]
<1>8. g = [i \in 1..N |-> IF i = 1 THEN ss[i] ELSE g[i - 1] \o ss[i]]
  <2>1. ASSUME NEW i \in 1..N PROVE f[i] = IF i = 1 THEN ss[i] ELSE g[i - 1] \o ss[i]
    <3>1. CASE i = 1
      <4>0. f[i] = f[i - 1] \o ss[i]
        <5> HIDE DEF N, S
        <5> QED
          BY <1>6
      <4>1. i - 1 = 0
        BY <3>1
      <4>2. f[1] = <<>> \o ss[1]
        BY <1>7, <3>1, <4>0, <4>1
      <4> QED
        BY <1>2, <3>1, <4>2, ConcatEmptySeq
    <3>2. CASE i # 1
      <4>1. i - 1 \in 1..N
        BY <1>1, <3>2
      <4>2. g[i - 1] = f[i - 1]
        BY <4>1
      <4> QED
        BY <1>6, <3>2, <4>2
    <3> QED
      BY <3>1, <3>2
  <2> QED
    BY <2>1
<1>9. flat = next
  BY <1>8
<1>10. FlattenSeq(ss) = IF N = 0 THEN ss ELSE flat[N]
  BY DEF FlattenSeq
<1> HIDE DEF flat, step
<1>11. \A i \in 1..N : next[i] = IF i = 1 THEN ss[i] ELSE flat[i - 1] \o ss[i]
  OBVIOUS
<1> HIDE DEF next
<1>12. \A i \in 1..N : flat[i] = IF i = 1 THEN ss[i] ELSE flat[i - 1] \o ss[i]
  BY <1>9, <1>11
<1> DEFINE Good == {k \in 0..N : k = 0 \/ (flat[k] \in S /\ ToSet(flat[k]) = UNION {ToSet(ss[i]) : i \in 1..k})}
<1>13. ASSUME NEW k \in 1..N, k - 1 \in Good PROVE k \in Good
  <2>1. CASE k = 1
    <3>1. flat[1] = ss[1] /\ 1..k = {1}
      BY <1>12, <2>1
    <3> QED
      BY <1>1, <1>2, <2>1, <3>1
  <2>2. CASE k # 1
    <3>0. flat[k - 1] \in S
      <4>1. k - 1 # 0
        BY <1>1, <2>2
      <4> HIDE DEF N, S
      <4> QED
        BY <1>13, <4>1
    <3>1. flat[k] = flat[k - 1] \o ss[k] /\ flat[k - 1] \in S /\ ss[k] \in S
      <4> HIDE DEF N, S, Good
      <4> QED
        BY <1>2, <1>12, <2>2, <3>0
    <3>2. ToSet(flat[k - 1]) = UNION {ToSet(ss[i]) : i \in 1..(k - 1)}
      BY <1>1, <1>13, <2>2
    <3>3. flat[k] \in S /\ Range(flat[k]) = Range(flat[k - 1]) \cup Range(ss[k])
      BY <3>1, ConcatProperties, RangeConcatenation
    <3>4. ToSet(flat[k]) = ToSet(flat[k - 1]) \cup ToSet(ss[k])
      BY <3>3 DEF ToSet, Range
    <3>5. 1..k = 1..(k - 1) \cup {k}
      BY <1>1
    <3>6. k \in 0..N
      BY <1>1
    <3>7. UNION {ToSet(ss[i]) : i \in 1..k} = (UNION {ToSet(ss[i]) : i \in 1..(k - 1)}) \cup ToSet(ss[k])
      BY <3>5
    <3> QED
      BY <3>2, <3>3, <3>4, <3>6, <3>7
  <2> QED
    BY <2>1, <2>2
<1>14. 0 \in Good /\ Good \in SUBSET Nat
  BY <1>1
<1>15. N \in Good
  <2> HIDE DEF Good, N
  <2>1. \A k \in 0..N : k \in Good
    BY <1>1, <1>13, <1>14, UpTo
  <2> QED
    BY <1>1, <2>1
<1>16. CASE N = 0
  <2>1. ss \in Seq(ToSet(ss)) /\ ToSet(ss) = {} /\ DOMAIN ss = {}
    BY <1>1, <1>16 DEF IsSequence, ToSet
  <2> QED
    BY <1>10, <1>16, <2>1
<1>17. CASE N # 0
  <2>1. flat[N] \in S /\ ToSet(flat[N]) = UNION {ToSet(ss[i]) : i \in 1..N}
    BY <1>15, <1>17
  <2>2. IsSequence(flat[N])
    <3> HIDE DEF N
    <3> QED
      BY <2>1, SequenceOfAny
  <2> QED
    BY <1>1, <1>10, <1>17, <2>1, <2>2
<1> QED
  BY <1>16, <1>17

(* Two sequences, one after the other.                                     *)
LEMMA ConcatElements ==
    ASSUME NEW s, IsSequence(s), NEW t, IsSequence(t)
    PROVE  /\ IsSequence(s \o t) /\ ToSet(s \o t) = ToSet(s) \cup ToSet(t)
           /\ Len(s \o t) = Len(s) + Len(t)
           /\ \A i \in 1..(Len(s) + Len(t)) : (s \o t)[i] = IF i <= Len(s) THEN s[i] ELSE t[i - Len(s)]
<1> DEFINE S == ToSet(s) \cup ToSet(t)
<1>1. s \in Seq(S) /\ t \in Seq(S)
  BY SeqMonotonic DEF IsSequence
<1> HIDE DEF S
<1>2. s \o t \in Seq(S) /\ Range(s \o t) = Range(s) \cup Range(t)
  BY <1>1, ConcatProperties, RangeConcatenation
<1>3. ToSet(s \o t) = ToSet(s) \cup ToSet(t)
  BY <1>2 DEF ToSet, Range
<1>4. IsSequence(s \o t)
  BY <1>2, SequenceOfAny
<1>5. /\ Len(s \o t) = Len(s) + Len(t)
      /\ \A i \in 1..(Len(s) + Len(t)) : (s \o t)[i] = IF i <= Len(s) THEN s[i] ELSE t[i - Len(s)]
  BY <1>1, ConcatProperties
<1> QED
  BY <1>3, <1>4, <1>5

(* A sequence and one more element.                                        *)
LEMMA AppendElements ==
    ASSUME NEW s, IsSequence(s), NEW e
    PROVE  /\ IsSequence(Append(s, e)) /\ ToSet(Append(s, e)) = ToSet(s) \cup {e}
           /\ Len(Append(s, e)) = Len(s) + 1 /\ Append(s, e)[Len(s) + 1] = e
           /\ \A i \in 1..Len(s) : Append(s, e)[i] = s[i]
<1> DEFINE S == ToSet(s) \cup {e}
<1>1. s \in Seq(S) /\ e \in S
  BY SeqMonotonic DEF IsSequence
<1> HIDE DEF S
<1> DEFINE r == Append(s, e)
<1>2. /\ r \in Seq(S) /\ Len(r) = Len(s) + 1 /\ r[Len(s) + 1] = e
      /\ \A i \in 1..Len(s) : r[i] = s[i]
  BY <1>1, AppendProperties
<1>3. IsSequence(r) /\ ToSet(r) \subseteq S
  BY <1>2, SequenceOfAny
<1> HIDE DEF r
<1>4. DOMAIN s = 1..Len(s) /\ Len(s) \in Nat /\ DOMAIN r = 1..Len(r)
  BY <1>3, SequenceFacts
<1>5. \A i \in 1..Len(s) : i \in DOMAIN r
  BY <1>2, <1>4
<1>6. ToSet(s) \subseteq ToSet(r)
  BY <1>2, <1>4, <1>5 DEF ToSet
<1>7. e \in ToSet(r)
  BY <1>2, <1>4 DEF ToSet
<1> QED
  BY <1>2, <1>3, <1>6, <1>7 DEF r, S

(* No element, and one.                                                    *)
LEMMA SmallSequences ==
    /\ IsSequence(<<>>) /\ ToSet(<<>>) = {}
    /\ \A e : IsSequence(<<e>>) /\ ToSet(<<e>>) = {e}
<1>1. IsSequence(<<>>) /\ ToSet(<<>>) = {}
  BY EmptySeq DEF IsSequence, ToSet
<1>2. ASSUME NEW e PROVE IsSequence(<<e>>) /\ ToSet(<<e>>) = {e}
  <2>1. <<e>> \in Seq({e})
    OBVIOUS
  <2>2. DOMAIN <<e>> = {1} /\ <<e>>[1] = e
    OBVIOUS
  <2>3. ToSet(<<e>>) = {e}
    BY <2>2 DEF ToSet
  <2> QED
    BY <2>1, <2>3 DEF IsSequence
<1> QED
  BY <1>1, <1>2

-----------------------------------------------------------------------------
(* Texts.                                                                  *)
LEMMA LinesElements ==
    ASSUME NEW text, IsSequence(text)
    PROVE  IsSequence(Lines(text)) /\ ToSet(Lines(text)) = {l \in ToSet(text) : l # Blank}
<1>1. /\ IsSequence(Lines(text))
      /\ ToSet(Lines(text)) = {text[i] : i \in Full(text) \cap DOMAIN text}
  BY ChosenElements DEF Lines
<1> HIDE DEF Blank
<1>2. \A l : l \in {text[i] : i \in Full(text) \cap DOMAIN text} <=> l \in ToSet(text) /\ l # Blank
  BY DEF Full, ToSet
<1> QED
  BY <1>1, <1>2

(* Stripping keeps every line that is not blank.                           *)
LEMMA StripElements ==
    ASSUME NEW text, IsSequence(text)
    PROVE  /\ IsSequence(Strip(text)) /\ IsSequence(RStrip(text))
           /\ \A l \in ToSet(text) : l # Blank => l \in ToSet(Strip(text)) /\ l \in ToSet(RStrip(text))
<1> HIDE DEF Blank
<1> DEFINE both == {i \in DOMAIN text : \E a, b \in Full(text) : a <= i /\ i <= b}
           right == {i \in DOMAIN text : \E b \in Full(text) : i <= b}
<1>1. /\ IsSequence(Strip(text)) /\ ToSet(Strip(text)) = {text[i] : i \in both \cap DOMAIN text}
      /\ IsSequence(RStrip(text)) /\ ToSet(RStrip(text)) = {text[i] : i \in right \cap DOMAIN text}
  BY ChosenElements DEF Strip, RStrip
<1>2. ASSUME NEW l \in ToSet(text), l # Blank
      PROVE  l \in ToSet(Strip(text)) /\ l \in ToSet(RStrip(text))
  <2>1. PICK i \in DOMAIN text : text[i] = l
    BY DEF ToSet
  <2>2. i \in Full(text) /\ i <= i
    BY <1>2, <2>1, SequenceFacts DEF Full
  <2>3. i \in both /\ i \in right
    BY <2>1, <2>2
  <2> HIDE DEF both, right
  <2> QED
    BY <1>1, <2>1, <2>3
<1> QED
  BY <1>1, <1>2

(* Appending a block keeps every line there was that is not blank.         *)
LEMMA AppendBlockElements ==
    ASSUME NEW existing, IsSequence(existing), NEW content, IsSequence(content)
    PROVE  /\ IsSequence(AppendBlock(existing, content))
           /\ \A l \in ToSet(existing) : l # Blank => l \in ToSet(AppendBlock(existing, content))
<1> HIDE DEF Blank
<1>1. /\ IsSequence(Strip(existing)) /\ IsSequence(RStrip(existing)) /\ IsSequence(Strip(content))
      /\ \A l \in ToSet(existing) : l # Blank => l \in ToSet(Strip(existing)) /\ l \in ToSet(RStrip(existing))
  BY StripElements
<1> DEFINE head == RStrip(existing) \o <<Blank>>
<1>2. IsSequence(<<Blank>>)
  BY SmallSequences
<1>3. IsSequence(head) /\ ToSet(RStrip(existing)) \subseteq ToSet(head)
  BY <1>1, <1>2, ConcatElements
<1> HIDE DEF head
<1>4. IsSequence(head \o Strip(content)) /\ ToSet(head) \subseteq ToSet(head \o Strip(content))
  BY <1>1, <1>3, ConcatElements
<1>5. Full(existing) = {} => \A l \in ToSet(existing) : l = Blank
  BY DEF Full, ToSet
<1> QED
  BY <1>1, <1>3, <1>4, <1>5 DEF AppendBlock, head

LEMMA ReplaceTailIsSequence ==
    ASSUME NEW existing, IsSequence(existing), NEW content, IsSequence(content), NEW count
    PROVE  IsSequence(ReplaceTail(existing, content, count))
  BY ChosenElements, AppendBlockElements DEF ReplaceTail

(* Dropping repetitions keeps every key.                                   *)
LEMMA DedupeKeeps ==
    ASSUME NEW lines, IsSequence(lines)
    PROVE  /\ IsSequence(Dedupe(lines)) /\ ToSet(Dedupe(lines)) \subseteq ToSet(lines)
           /\ \A l \in ToSet(lines) : \E k \in ToSet(Dedupe(lines)) : k.key = l.key
<1> DEFINE places == {i \in DOMAIN lines : \A j \in 1..(i - 1) : lines[j].key # lines[i].key}
<1>1. /\ IsSequence(Dedupe(lines))
      /\ ToSet(Dedupe(lines)) = {lines[i] : i \in places \cap DOMAIN lines}
  BY ChosenElements DEF Dedupe
<1>2. DOMAIN lines = 1..Len(lines) /\ Len(lines) \in Nat
  BY SequenceFacts
<1>3. ASSUME NEW l \in ToSet(lines) PROVE \E k \in ToSet(Dedupe(lines)) : k.key = l.key
  <2> DEFINE same == {i \in 1..Len(lines) : lines[i].key = l.key}
  <2>1. same # {} /\ same \in SUBSET Nat
    BY <1>2 DEF ToSet
  <2>2. PICK i \in same : \A j \in same : i <= j
    BY <2>1, LeastNatural
  <2>3. ASSUME NEW j \in 1..(i - 1) PROVE lines[j].key # lines[i].key
    <3>1. j \in 1..Len(lines) /\ ~(i <= j)
      BY <1>2, <2>2
    <3> QED
      BY <2>2, <3>1
  <2>4. i \in places \cap DOMAIN lines /\ lines[i].key = l.key
    BY <1>2, <2>2, <2>3
  <2> HIDE DEF places
  <2> QED
    BY <1>1, <2>4
<1>4. ToSet(Dedupe(lines)) \subseteq ToSet(lines)
  BY <1>1 DEF ToSet
<1> QED
  BY <1>1, <1>3, <1>4

(* The lines of a text that must be kept, by their keys.                   *)
ToKeep(l) == l # Blank /\ ~Has(l, "refheading")
KeepsLines(old, new) == \A l \in ToSet(old) : ToKeep(l) => \E k \in ToSet(new) : ToKeep(k) /\ k.key = l.key

(* Merging references keeps the references there were.                     *)
LEMMA MergeKeeps ==
    ASSUME NEW existing, IsSequence(existing), NEW content, IsSequence(content)
    PROVE  /\ IsSequence(MergeReferences(existing, content))
           /\ KeepsLines(existing, MergeReferences(existing, content))
<1> DEFINE all == existing \o content
           places == {i \in Full(all) : ~Has(all[i], "refheading")}
<1> HIDE DEF Blank, Has
<1>1. IsSequence(all) /\ ToSet(existing) \subseteq ToSet(all)
  BY ConcatElements
<1> HIDE DEF all
<1>2. IsSequence(Entries(all)) /\ ToSet(Entries(all)) = {all[i] : i \in places \cap DOMAIN all}
  BY <1>1, ChosenElements DEF Entries
<1>3. \A l : l \in ToSet(Entries(all)) <=> l \in ToSet(all) /\ ToKeep(l)
  BY <1>2 DEF Full, ToSet, ToKeep
<1> DEFINE merged == Dedupe(Entries(all))
<1>4. /\ IsSequence(merged) /\ ToSet(merged) \subseteq ToSet(Entries(all))
      /\ \A l \in ToSet(Entries(all)) : \E k \in ToSet(merged) : k.key = l.key
  BY <1>2, DedupeKeeps
<1> HIDE DEF merged
<1>5. MergeReferences(existing, content) = merged
  BY DEF MergeReferences, merged, all
<1>6. KeepsLines(existing, merged)
  BY <1>1, <1>3, <1>4 DEF KeepsLines
<1> QED
  BY <1>4, <1>5, <1>6

-----------------------------------------------------------------------------
(* Documents.                                                              *)
LEMMA SectionFields == \A n, t : Section(n, t).name = n /\ Section(n, t).text = t
  BY DEF Section

(* The sections of a document, and their names.                            *)
LEMMA DocumentFacts ==
    ASSUME NEW doc, IsDocument(doc)
    PROVE  /\ Len(doc) \in Nat /\ DOMAIN doc = 1..Len(doc)
           /\ \A s \in ToSet(doc) : s = Section(s.name, s.text) /\ IsSequence(s.text) /\ s.name \in NameSet(doc)
           /\ \A n \in NameSet(doc) : \E s \in ToSet(doc) : s.name = n
           /\ \A s, t \in ToSet(doc) : s.name = t.name => s = t
<1>1. Len(doc) \in Nat /\ DOMAIN doc = 1..Len(doc)
  BY SequenceFacts DEF IsDocument
<1>2. ASSUME NEW s \in ToSet(doc)
      PROVE  s = Section(s.name, s.text) /\ IsSequence(s.text) /\ s.name \in NameSet(doc)
  BY DEF IsDocument, ToSet, NameSet
<1>3. \A n \in NameSet(doc) : \E s \in ToSet(doc) : s.name = n
  BY DEF NameSet, ToSet
<1>4. ASSUME NEW s \in ToSet(doc), NEW t \in ToSet(doc), s.name = t.name PROVE s = t
  <2>1. PICK i \in DOMAIN doc : doc[i] = s
    BY DEF ToSet
  <2>2. PICK j \in DOMAIN doc : doc[j] = t
    BY DEF ToSet
  <2>3. i = j
    BY <1>4, <2>1, <2>2 DEF IsDocument
  <2> QED
    BY <2>1, <2>2, <2>3
<1> QED
  BY <1>1, <1>2, <1>3, <1>4

(* A sequence of sections whose names are its own is a document.           *)
LEMMA IsDocumentIf ==
    ASSUME NEW doc, IsSequence(doc),
           \A s \in ToSet(doc) : s = Section(s.name, s.text) /\ IsSequence(s.text),
           \A i, j \in DOMAIN doc : doc[i].name = doc[j].name => i = j
    PROVE  IsDocument(doc)
  BY DEF IsDocument, ToSet

(* The text of a name is that of its section.                              *)
LEMMA TextOfSection ==
    ASSUME NEW doc, IsDocument(doc)
    PROVE  /\ \A s \in ToSet(doc) : TextOf(doc, s.name) = s.text
           /\ \A n \in NameSet(doc) : Section(n, TextOf(doc, n)) \in ToSet(doc)
           /\ \A n : IsSequence(TextOf(doc, n))
<1>1. ASSUME NEW n \in NameSet(doc), NEW s \in ToSet(doc), s.name = n PROVE TextOf(doc, n) = s.text
  <2> DEFINE k == CHOOSE i \in DOMAIN doc : doc[i].name = n
  <2>1. k \in DOMAIN doc /\ doc[k].name = n
    BY DEF NameSet
  <2>2. doc[k] \in ToSet(doc)
    BY <2>1 DEF ToSet
  <2>3. doc[k] = s
    BY <1>1, <2>1, <2>2, DocumentFacts
  <2>4. TextOf(doc, n) = doc[k].text
    BY DEF TextOf
  <2> QED
    BY <2>3, <2>4
<1>2. \A s \in ToSet(doc) : TextOf(doc, s.name) = s.text
  BY <1>1, DocumentFacts
<1>3. ASSUME NEW n \in NameSet(doc)
      PROVE  Section(n, TextOf(doc, n)) \in ToSet(doc) /\ IsSequence(TextOf(doc, n))
  <2>1. PICK s \in ToSet(doc) : s.name = n
    BY DocumentFacts
  <2>2. s = Section(n, TextOf(doc, n)) /\ IsSequence(s.text)
    BY <1>1, <2>1, DocumentFacts
  <2> QED
    BY <1>1, <2>1, <2>2
<1>4. ASSUME NEW n, n \notin NameSet(doc) PROVE IsSequence(TextOf(doc, n))
  BY <1>4, SmallSequences DEF TextOf
<1> QED
  BY <1>2, <1>3, <1>4

LEMMA EmptyDocument == IsDocument(<<>>) /\ NameSet(<<>>) = {} /\ ToSet(<<>>) = {}
  BY SmallSequences DEF IsDocument, NameSet

(* A section with a new name.                                              *)
LEMMA AppendDocument ==
    ASSUME NEW doc, IsDocument(doc), NEW n, n \notin NameSet(doc), NEW t, IsSequence(t)
    PROVE  LET new == Append(doc, Section(n, t))
           IN  /\ IsDocument(new) /\ ToSet(new) = ToSet(doc) \cup {Section(n, t)}
               /\ Len(new) = Len(doc) + 1 /\ new[Len(doc) + 1] = Section(n, t)
               /\ \A i \in 1..Len(doc) : new[i] = doc[i]
<1> DEFINE e == Section(n, t)
           new == Append(doc, e)
<1>1. IsSequence(doc) /\ Len(doc) \in Nat /\ DOMAIN doc = 1..Len(doc)
  BY DocumentFacts DEF IsDocument
<1>2. /\ IsSequence(new) /\ ToSet(new) = ToSet(doc) \cup {e} /\ Len(new) = Len(doc) + 1
      /\ new[Len(doc) + 1] = e /\ \A i \in 1..Len(doc) : new[i] = doc[i]
  BY <1>1, AppendElements
<1>3. e = Section(e.name, e.text) /\ IsSequence(e.text) /\ e.name = n
  BY SectionFields
<1> HIDE DEF e, new
<1>4. DOMAIN new = 1..(Len(doc) + 1)
  BY <1>2, SequenceFacts
<1>5. \A i \in 1..Len(doc) : doc[i].name \in NameSet(doc)
  BY <1>1 DEF NameSet
<1>6. ASSUME NEW i \in DOMAIN new, NEW j \in DOMAIN new, new[i].name = new[j].name PROVE i = j
  <2>1. (i \in 1..Len(doc) \/ i = Len(doc) + 1) /\ (j \in 1..Len(doc) \/ j = Len(doc) + 1)
    BY <1>1, <1>4
  <2>2. i \in 1..Len(doc) /\ j \in 1..Len(doc) => i = j
    BY <1>1, <1>2, <1>6 DEF IsDocument
  <2> QED
    BY <1>2, <1>3, <1>5, <1>6, <2>1, <2>2
<1>7. \A s \in ToSet(new) : s = Section(s.name, s.text) /\ IsSequence(s.text)
  BY <1>2, <1>3, DocumentFacts
<1>8. IsDocument(new)
  BY <1>2, <1>6, <1>7, IsDocumentIf
<1> QED
  BY <1>2, <1>8 DEF e, new

(* A section with new text stays where it is.                              *)
LEMMA PutDocument ==
    ASSUME NEW doc, IsDocument(doc), NEW n, NEW t, IsSequence(t)
    PROVE  /\ IsDocument(Put(doc, n, t))
           /\ ToSet(Put(doc, n, t)) = {s \in ToSet(doc) : s.name # n} \cup {Section(n, t)}
           /\ n \in NameSet(doc) => /\ Len(Put(doc, n, t)) = Len(doc)
                                    /\ \A i \in 1..Len(doc) : Put(doc, n, t)[i].name = doc[i].name
<1> DEFINE e == Section(n, t)
           new == Put(doc, n, t)
<1>1. IsSequence(doc) /\ Len(doc) \in Nat /\ DOMAIN doc = 1..Len(doc)
  BY DocumentFacts DEF IsDocument
<1>2. e = Section(e.name, e.text) /\ IsSequence(e.text) /\ e.name = n
  BY SectionFields
<1>3. CASE n \in NameSet(doc)
  <2>1. new = [i \in 1..Len(doc) |-> IF doc[i].name = n THEN e ELSE doc[i]]
    BY <1>1, <1>3 DEF Put
  <2> HIDE DEF new, e
  <2>2. IsSequence(new) /\ Len(new) = Len(doc) /\ DOMAIN new = 1..Len(doc)
    BY <1>1, <2>1, FunctionIsSequence
  <2>3. \A i \in 1..Len(doc) : new[i] = (IF doc[i].name = n THEN e ELSE doc[i]) /\ new[i].name = doc[i].name
    BY <1>2, <2>1
  <2>4. PICK k \in 1..Len(doc) : doc[k].name = n
    BY <1>1, <1>3 DEF NameSet
  <2>5. ToSet(new) \subseteq {s \in ToSet(doc) : s.name # n} \cup {e}
    BY <1>1, <2>2, <2>3 DEF ToSet
  <2>6. e \in ToSet(new)
    BY <2>2, <2>3, <2>4 DEF ToSet
  <2>7. ASSUME NEW s \in ToSet(doc), s.name # n PROVE s \in ToSet(new)
    BY <1>1, <2>2, <2>3, <2>7 DEF ToSet
  <2>8. \A s \in ToSet(new) : s = Section(s.name, s.text) /\ IsSequence(s.text)
    BY <1>2, <2>5, DocumentFacts
  <2>9. \A i, j \in DOMAIN new : new[i].name = new[j].name => i = j
    BY <1>1, <2>2, <2>3 DEF IsDocument
  <2>10. IsDocument(new)
    BY <2>2, <2>8, <2>9, IsDocumentIf
  <2> QED
    BY <2>2, <2>3, <2>5, <2>6, <2>7, <2>10 DEF new, e
<1>4. CASE n \notin NameSet(doc)
  <2>1. new = Append(doc, e)
    BY <1>4 DEF Put
  <2>2. IsDocument(new) /\ ToSet(new) = ToSet(doc) \cup {e}
    BY <1>4, <2>1, AppendDocument
  <2>3. \A s \in ToSet(doc) : s.name # n
    BY <1>4, DocumentFacts
  <2> QED
    BY <1>4, <2>2, <2>3
<1> QED
  BY <1>3, <1>4

(* The names of a document, in its order.                                  *)
LEMMA NamesSequence ==
    ASSUME NEW doc, IsDocument(doc)
    PROVE  /\ IsSequence(Names(doc)) /\ DOMAIN Names(doc) = DOMAIN doc
           /\ \A i \in DOMAIN doc : Names(doc)[i] = doc[i].name
<1>1. Names(doc) = [i \in 1..Len(doc) |-> doc[i].name] /\ Len(doc) \in Nat /\ DOMAIN doc = 1..Len(doc)
  BY DocumentFacts DEF Names
<1>2. \A i \in 1..Len(doc) : Names(doc)[i] = doc[i].name
  BY <1>1
<1>3. Names(doc) = [i \in 1..Len(doc) |-> Names(doc)[i]]
  BY <1>1
<1> QED
  BY <1>1, <1>2, <1>3, FunctionIsSequence

(* Partitioning moves sections and neither loses nor makes any.            *)
LEMMA PartitionDocument ==
    ASSUME NEW doc, IsDocument(doc), NEW last
    PROVE  /\ IsDocument(Partition(doc, last)) /\ ToSet(Partition(doc, last)) = ToSet(doc)
           /\ \A i, j \in DOMAIN Partition(doc, last) :
                 i < j /\ Partition(doc, last)[i].name \in last => Partition(doc, last)[j].name \in last
<1> DEFINE moved == {i \in DOMAIN doc : doc[i].name \in last}
           a == Chosen(doc, DOMAIN doc \ moved)
           b == Chosen(doc, moved)
           new == Partition(doc, last)
<1>1. IsSequence(doc)
  BY DEF IsDocument
<1>2. /\ IsDocument(a) /\ IsDocument(b)
      /\ ToSet(a) = {doc[i] : i \in (DOMAIN doc \ moved) \cap DOMAIN doc}
      /\ ToSet(b) = {doc[i] : i \in moved \cap DOMAIN doc}
  BY <1>1, ChosenElements, ChosenIsDocument
<1>3. ToSet(a) = {s \in ToSet(doc) : s.name \notin last} /\ ToSet(b) = {s \in ToSet(doc) : s.name \in last}
  BY <1>2 DEF ToSet
<1>4. new = a \o b
  BY DEF Partition
<1> HIDE DEF a, b, moved, new
<1>5. /\ IsSequence(new) /\ ToSet(new) = ToSet(a) \cup ToSet(b) /\ Len(new) = Len(a) + Len(b)
      /\ \A i \in 1..(Len(a) + Len(b)) : new[i] = IF i <= Len(a) THEN a[i] ELSE b[i - Len(a)]
  <2>1. IsSequence(a) /\ IsSequence(b)
    BY <1>2 DEF IsDocument
  <2> QED
    BY <1>4, <2>1, ConcatElements
<1>6. /\ Len(a) \in Nat /\ Len(b) \in Nat /\ DOMAIN a = 1..Len(a) /\ DOMAIN b = 1..Len(b)
      /\ DOMAIN new = 1..(Len(a) + Len(b))
  BY <1>2, <1>5, DocumentFacts, SequenceFacts
<1>7. ASSUME NEW i \in 1..(Len(a) + Len(b))
      PROVE  \/ i \in DOMAIN a /\ new[i] = a[i] /\ new[i].name \notin last
             \/ i - Len(a) \in DOMAIN b /\ new[i] = b[i - Len(a)] /\ new[i].name \in last
  <2>1. CASE i <= Len(a)
    <3>1. i \in DOMAIN a /\ new[i] = a[i]
      BY <1>5, <1>6, <2>1
    <3>2. a[i] \in ToSet(a)
      BY <3>1 DEF ToSet
    <3> QED
      BY <1>3, <3>1, <3>2
  <2>2. CASE ~(i <= Len(a))
    <3>1. i - Len(a) \in DOMAIN b /\ new[i] = b[i - Len(a)]
      BY <1>5, <1>6, <2>2
    <3>2. b[i - Len(a)] \in ToSet(b)
      BY <3>1 DEF ToSet
    <3> QED
      BY <1>3, <3>1, <3>2
  <2> QED
    BY <2>1, <2>2
<1>8. ASSUME NEW i \in DOMAIN new, NEW j \in DOMAIN new, new[i].name = new[j].name PROVE i = j
  <2>1. CASE i \in DOMAIN a /\ new[i] = a[i] /\ new[i].name \notin last
    <3>1. j \in DOMAIN a /\ new[j] = a[j]
      BY <1>6, <1>7, <1>8, <2>1
    <3> QED
      BY <1>2, <1>8, <2>1, <3>1 DEF IsDocument
  <2>2. CASE i - Len(a) \in DOMAIN b /\ new[i] = b[i - Len(a)] /\ new[i].name \in last
    <3>1. j - Len(a) \in DOMAIN b /\ new[j] = b[j - Len(a)]
      BY <1>6, <1>7, <1>8, <2>2
    <3>2. i - Len(a) = j - Len(a)
      BY <1>2, <1>8, <2>2, <3>1 DEF IsDocument
    <3> QED
      BY <1>6, <3>2
  <2> QED
    BY <1>6, <1>7, <2>1, <2>2
<1>9. ToSet(new) = ToSet(doc)
  BY <1>3, <1>5
<1>10. IsDocument(new)
  BY <1>5, <1>8, <1>9, IsDocumentIf, DocumentFacts
<1>11. ASSUME NEW i \in DOMAIN new, NEW j \in DOMAIN new, i < j, new[i].name \in last
       PROVE  new[j].name \in last
  <2>1. ~(i <= Len(a))
    <3>1. SUFFICES ASSUME i <= Len(a) PROVE FALSE
      OBVIOUS
    <3>2. new[i] = a[i] /\ a[i] \in ToSet(a)
      BY <1>5, <1>6, <3>1 DEF ToSet
    <3> QED
      BY <1>3, <1>11, <3>2
  <2>2. ~(j <= Len(a)) /\ j \in 1..(Len(a) + Len(b))
    BY <1>6, <1>11, <2>1
  <2>3. j \notin DOMAIN a
    BY <1>6, <2>2
  <2> QED
    BY <1>7, <2>2, <2>3
<1> QED
  BY <1>9, <1>10, <1>11 DEF new

(* Inserting makes one section and keeps the others.                       *)
LEMMA InsertDocument ==
    ASSUME NEW doc, IsDocument(doc), NEW target \in NameSet(doc), NEW n, n \notin NameSet(doc),
           NEW t, IsSequence(t)
    PROVE  /\ IsDocument(InsertBefore(doc, target, n, t))
           /\ ToSet(InsertBefore(doc, target, n, t)) = ToSet(doc) \cup {Section(n, Strip(t))}
<1> DEFINE k == CHOOSE j \in DOMAIN doc : doc[j].name = target
           e == Section(n, Strip(t))
           N == Len(doc)
           new == InsertBefore(doc, target, n, t)
           made == [i \in 1..(N + 1) |-> IF i < k THEN doc[i] ELSE IF i = k THEN e ELSE doc[i - 1]]
<1>1. IsSequence(doc) /\ N \in Nat /\ DOMAIN doc = 1..N
  BY DocumentFacts DEF IsDocument
<1>2. k \in 1..N
  BY <1>1 DEF NameSet
<1>3. e = Section(e.name, e.text) /\ IsSequence(e.text) /\ e.name = n
  BY SectionFields, StripElements
<1>4. new = SubSeq(doc, 1, k - 1) \o <<e>> \o SubSeq(doc, k, N)
  BY DEF InsertBefore
<1> HIDE DEF k, e, new
<1>5. new = made
  <2> DEFINE S == ToSet(doc) \cup {e}
  <2>1. doc \in Seq(S) /\ e \in S
    BY <1>1, SeqMonotonic DEF IsSequence
  <2>2. \A i \in 1..N : doc[i] \in S
    BY <1>1 DEF ToSet
  <2> HIDE DEF S
  <2>3. /\ SubSeq(doc, 1, k - 1) \in Seq(S) /\ Len(SubSeq(doc, 1, k - 1)) = k - 1
        /\ \A i \in 1..(k - 1) : SubSeq(doc, 1, k - 1)[i] = doc[i]
    <3>1. 1 \in Int /\ k - 1 \in Int /\ \A i \in 1..(k - 1) : doc[i] \in S
      BY <1>1, <1>2, <2>2
    <3>2. /\ SubSeq(doc, 1, k - 1) \in Seq(S)
          /\ Len(SubSeq(doc, 1, k - 1)) = IF 1 <= k - 1 THEN k - 1 - 1 + 1 ELSE 0
          /\ \A i \in 1..(k - 1 - 1 + 1) : SubSeq(doc, 1, k - 1)[i] = doc[1 + i - 1]
      BY <3>1, SubSeqProperties
    <3> QED
      BY <1>1, <1>2, <3>2
  <2>4. /\ SubSeq(doc, k, N) \in Seq(S) /\ Len(SubSeq(doc, k, N)) = N - k + 1
        /\ \A i \in 1..(N - k + 1) : SubSeq(doc, k, N)[i] = doc[k + i - 1]
    <3>1. k \in Int /\ N \in Int /\ k <= N /\ \A i \in k..N : doc[i] \in S
      BY <1>1, <1>2, <2>2
    <3> HIDE DEF N
    <3> QED
      BY <3>1, SubSeqProperties
  <2> DEFINE a == SubSeq(doc, 1, k - 1)
             c == SubSeq(doc, k, N)
             b == a \o <<e>>
  <2>5. b \in Seq(S) /\ Len(b) = k /\ \A i \in 1..k : b[i] = IF i <= k - 1 THEN a[i] ELSE e
    <3>1. <<e>> \in Seq(S) /\ Len(<<e>>) = 1 /\ <<e>>[1] = e
      BY <2>1
    <3> HIDE DEF a
    <3>2. /\ b \in Seq(S) /\ Len(b) = (k - 1) + 1
          /\ \A i \in 1..((k - 1) + 1) : b[i] = IF i <= k - 1 THEN a[i] ELSE <<e>>[i - (k - 1)]
      BY <2>3, <3>1, ConcatProperties DEF a
    <3> HIDE DEF b
    <3>3. ASSUME NEW i \in 1..k PROVE b[i] = IF i <= k - 1 THEN a[i] ELSE e
      <4>1. i \in 1..((k - 1) + 1) /\ (~(i <= k - 1) => i - (k - 1) = 1)
        BY <1>1, <1>2
      <4> QED
        BY <3>1, <3>2, <4>1
    <3>4. (k - 1) + 1 = k
      BY <1>1, <1>2
    <3> QED
      BY <3>2, <3>3, <3>4
  <2>6. /\ b \o c \in Seq(S) /\ Len(b \o c) = N + 1
        /\ \A i \in 1..(N + 1) : (b \o c)[i] = IF i <= k THEN b[i] ELSE c[i - k]
    <3> HIDE DEF a, b, c
    <3>1. /\ b \o c \in Seq(S) /\ Len(b \o c) = k + (N - k + 1)
          /\ \A i \in 1..(k + (N - k + 1)) : (b \o c)[i] = IF i <= k THEN b[i] ELSE c[i - k]
      BY <2>4, <2>5, ConcatProperties DEF c
    <3>2. k + (N - k + 1) = N + 1
      BY <1>1, <1>2
    <3> QED
      BY <3>1, <3>2
  <2> DEFINE all == b \o c
  <2>7. all = [i \in 1..(N + 1) |-> all[i]]
    <3> HIDE DEF all
    <3>1. all \in [1..(N + 1) -> S]
      BY <2>6, LenProperties DEF all
    <3> QED
      BY <3>1
  <2>8. ASSUME NEW i \in 1..(N + 1)
        PROVE  all[i] = IF i < k THEN doc[i] ELSE IF i = k THEN e ELSE doc[i - 1]
    <3> HIDE DEF N
    <3>1. CASE i < k
      <4>1. i \in 1..k /\ i \in 1..(k - 1) /\ i <= k /\ i <= k - 1
        BY <1>1, <1>2, <3>1
      <4> HIDE DEF a, b, c
      <4>2. all[i] = a[i]
        BY <2>5, <2>6, <4>1
      <4> QED
        BY <2>3, <3>1, <4>1, <4>2 DEF a
    <3>2. CASE i = k
      <4>1. i \in 1..k /\ i <= k /\ ~(i <= k - 1) /\ ~(i < k)
        BY <1>1, <1>2, <3>2
      <4> HIDE DEF a, b, c
      <4> QED
        BY <2>5, <2>6, <3>2, <4>1
    <3>3. CASE i > k
      <4>1. i - k \in 1..(N - k + 1) /\ ~(i <= k) /\ ~(i < k) /\ i # k /\ k + (i - k) - 1 = i - 1
        BY <1>1, <1>2, <3>3
      <4> HIDE DEF a, b
      <4> QED
        BY <2>4, <2>6, <4>1
    <3>4. i < k \/ i = k \/ i > k
      BY <1>1, <1>2
    <3> HIDE DEF all, a, b, c
    <3> QED
      BY <3>1, <3>2, <3>3, <3>4
  <2> HIDE DEF all
  <2>9. all = made
    BY <2>7, <2>8
  <2> QED
    BY <1>4, <2>9 DEF all
<1>6. IsSequence(made) /\ Len(made) = N + 1 /\ DOMAIN made = 1..(N + 1)
  <2>1. N + 1 \in Nat /\ made = [i \in 1..(N + 1) |-> made[i]]
    BY <1>1
  <2> HIDE DEF made
  <2> QED
    BY <2>1, FunctionIsSequence
<1>7. \A i \in 1..(N + 1) : made[i] = IF i < k THEN doc[i] ELSE IF i = k THEN e ELSE doc[i - 1]
  OBVIOUS
<1> HIDE DEF made, N
<1>8. \A i \in 1..N : doc[i] \in ToSet(doc) /\ doc[i].name # n
  BY <1>1 DEF ToSet, NameSet
<1>9. ASSUME NEW i \in 1..(N + 1)
      PROVE  \/ i < k /\ i \in 1..N /\ made[i] = doc[i]
             \/ i = k /\ made[i] = e
             \/ i > k /\ i - 1 \in 1..N /\ made[i] = doc[i - 1]
  BY <1>1, <1>2, <1>7
<1>10. ToSet(made) \subseteq ToSet(doc) \cup {e}
  BY <1>6, <1>8, <1>9 DEF ToSet
<1>11. e \in ToSet(made)
  <2>1. k \in 1..(N + 1) /\ ~(k < k)
    BY <1>1, <1>2
  <2>2. made[k] = e
    BY <1>7, <2>1
  <2> QED
    BY <1>6, <2>1, <2>2 DEF ToSet
<1>12. ASSUME NEW s \in ToSet(doc) PROVE s \in ToSet(made)
  <2>1. PICK i \in 1..N : doc[i] = s
    BY <1>1 DEF ToSet
  <2>2. CASE i < k
    <3>1. i \in 1..(N + 1) /\ made[i] = s
      BY <1>1, <1>7, <2>1, <2>2
    <3> QED
      BY <1>6, <3>1 DEF ToSet
  <2>3. CASE ~(i < k)
    <3>1. i + 1 \in 1..(N + 1) /\ ~(i + 1 < k) /\ i + 1 # k /\ (i + 1) - 1 = i
      BY <1>1, <1>2, <2>3
    <3>2. made[i + 1] = s
      BY <1>7, <2>1, <3>1
    <3> QED
      BY <1>6, <3>1, <3>2 DEF ToSet
  <2> QED
    BY <2>2, <2>3
<1>13. ASSUME NEW i \in 1..(N + 1), NEW j \in 1..(N + 1), made[i].name = made[j].name PROVE i = j
  <2>1. \A a, b \in 1..N : doc[a].name = doc[b].name => a = b
    BY <1>1 DEF IsDocument
  <2>2. CASE i = k /\ made[i] = e
    BY <1>3, <1>8, <1>9, <1>13, <2>2
  <2>3. CASE j = k /\ made[j] = e
    BY <1>3, <1>8, <1>9, <1>13, <2>3
  <2>4. CASE i < k /\ i \in 1..N /\ made[i] = doc[i]
    <3>1. CASE j < k /\ j \in 1..N /\ made[j] = doc[j]
      BY <1>13, <2>1, <2>4, <3>1
    <3>2. CASE j > k /\ j - 1 \in 1..N /\ made[j] = doc[j - 1]
      <4>1. i = j - 1
        BY <1>13, <2>1, <2>4, <3>2
      <4> QED
        BY <1>1, <1>2, <2>4, <3>2, <4>1
    <3> QED
      BY <1>9, <2>3, <3>1, <3>2
  <2>5. CASE i > k /\ i - 1 \in 1..N /\ made[i] = doc[i - 1]
    <3>1. CASE j > k /\ j - 1 \in 1..N /\ made[j] = doc[j - 1]
      <4>1. i - 1 = j - 1
        BY <1>13, <2>1, <2>5, <3>1
      <4> QED
        BY <1>1, <4>1
    <3>2. CASE j < k /\ j \in 1..N /\ made[j] = doc[j]
      <4>1. j = i - 1
        BY <1>13, <2>1, <2>5, <3>2
      <4> QED
        BY <1>1, <1>2, <2>5, <3>2, <4>1
    <3> QED
      BY <1>9, <2>3, <3>1, <3>2
  <2> QED
    BY <1>9, <2>2, <2>4, <2>5
<1>14. \A s \in ToSet(made) : s = Section(s.name, s.text) /\ IsSequence(s.text)
  BY <1>3, <1>10, DocumentFacts
<1>15. IsDocument(made)
  BY <1>6, <1>13, <1>14, IsDocumentIf
<1> QED
  BY <1>5, <1>10, <1>11, <1>12, <1>15 DEF e, new

(* The terminal names of a document.                                       *)
LEMMA TerminalsElements ==
    ASSUME NEW doc, IsDocument(doc)
    PROVE  /\ IsSequence(Terminals(doc))
           /\ ToSet(Terminals(doc)) = {n \in NameSet(doc) : n \in TerminalNames}
<1> DEFINE places == {i \in DOMAIN doc : IsTerminal(doc[i].name)}
<1>1. /\ IsSequence(Names(doc)) /\ DOMAIN Names(doc) = DOMAIN doc
      /\ \A i \in DOMAIN doc : Names(doc)[i] = doc[i].name
  BY NamesSequence
<1>2. /\ IsSequence(Terminals(doc))
      /\ ToSet(Terminals(doc)) = {Names(doc)[i] : i \in places \cap DOMAIN Names(doc)}
  BY <1>1, ChosenElements DEF Terminals
<1>3. \A i : i \in places <=> i \in DOMAIN doc /\ doc[i].name \in TerminalNames
  BY DEF IsTerminal
<1> HIDE DEF places
<1> QED
  BY <1>1, <1>2, <1>3 DEF NameSet

LEMMA LastElement == ASSUME NEW s, IsSequence(s), s # <<>> PROVE s[Len(s)] \in ToSet(s) /\ s[1] \in ToSet(s)
<1>1. Len(s) \in Nat /\ DOMAIN s = 1..Len(s) /\ Len(s) # 0
  BY SequenceFacts, EmptySeq DEF IsSequence
<1> QED
  BY <1>1 DEF ToSet

(* The last body section is not a terminal one.                            *)
LEMMA LastBodyIsBody ==
    ASSUME NEW doc, IsDocument(doc), NEW terminals
    PROVE  LastBody(doc, terminals) = "" \/ LastBody(doc, terminals) \in NameSet(doc) \ ToSet(terminals)
<1> DEFINE places == {i \in DOMAIN doc : doc[i].name \notin ToSet(terminals)}
           body == Chosen(Names(doc), places)
<1>1. /\ IsSequence(Names(doc)) /\ DOMAIN Names(doc) = DOMAIN doc
      /\ \A i \in DOMAIN doc : Names(doc)[i] = doc[i].name
  BY NamesSequence
<1>2. IsSequence(body) /\ ToSet(body) = {Names(doc)[i] : i \in places \cap DOMAIN Names(doc)}
  BY <1>1, ChosenElements
<1>3. LastBody(doc, terminals) = IF body = <<>> THEN "" ELSE body[Len(body)]
  BY DEF LastBody
<1> HIDE DEF body
<1>4. ToSet(body) \subseteq NameSet(doc) \ ToSet(terminals)
  BY <1>1, <1>2 DEF NameSet
<1> QED
  BY <1>2, <1>3, <1>4, LastElement

LEMMA FirstIsTerminal ==
    ASSUME NEW terminals, IsSequence(terminals), NEW default
    PROVE  FirstTerminal(terminals, default) \in ToSet(terminals) \cup {default}
  BY LastElement DEF FirstTerminal

(* A target resolves to no section that it does not name.                  *)
LEMMA ResolveMisses ==
    ASSUME NEW doc, IsDocument(doc), NEW terminals, IsSequence(terminals), ToSet(terminals) \subseteq TerminalNames,
           NEW target, NEW n, n \in TerminalNames => n \in ToSet(terminals), ~MayMeet(target, n),
           Resolve(target, doc, terminals) # ""
    PROVE  Resolve(target, doc, terminals) # n
<1>1. CASE target = "last_body_section"
  <2>1. Resolve(target, doc, terminals) \in NameSet(doc) \ ToSet(terminals)
    BY <1>1, LastBodyIsBody DEF Resolve
  <2>2. n \in TerminalNames
    BY <1>1 DEF MayMeet
  <2> QED
    BY <2>1, <2>2
<1>2. CASE target \in {"references", "terminal_sections"}
  <2>0. target # "last_body_section"
    BY <1>2
  <2>1. Resolve(target, doc, terminals) = FirstTerminal(terminals, "")
    BY <1>2, <2>0 DEF Resolve
  <2>2. Resolve(target, doc, terminals) \in ToSet(terminals)
    BY <2>1, FirstIsTerminal
  <2>3. n \notin TerminalNames
    BY <1>2 DEF MayMeet
  <2> QED
    BY <2>2, <2>3
<1>3. CASE target \notin {"last_body_section", "references", "terminal_sections"}
  <2>1. Resolve(target, doc, terminals) = target
    BY <1>3 DEF Resolve
  <2>2. target # n
    BY DEF MayMeet
  <2> QED
    BY <2>1, <2>2
<1> QED
  BY <1>1, <1>2, <1>3

(* A section stands in another document with all it must keep.             *)
Stands(s, doc) == \E t \in ToSet(doc) : t.name = s.name /\ KeepsLines(s.text, t.text)

LEMMA KeepsLinesTwice ==
    ASSUME NEW a, NEW b, NEW c, KeepsLines(a, b), KeepsLines(b, c) PROVE KeepsLines(a, c)
  BY DEF KeepsLines

LEMMA StandsAgain ==
    ASSUME NEW s, NEW doc, NEW new, Stands(s, doc),
           \A t \in ToSet(doc) : Stands(t, new)
    PROVE  Stands(s, new)
<1>1. PICK t \in ToSet(doc) : t.name = s.name /\ KeepsLines(s.text, t.text)
  BY DEF Stands
<1>2. PICK u \in ToSet(new) : u.name = t.name /\ KeepsLines(t.text, u.text)
  BY <1>1 DEF Stands
<1> QED
  BY <1>1, <1>2, KeepsLinesTwice DEF Stands

(* Sections that are all kept.                                             *)
LEMMA AllStand ==
    ASSUME NEW doc, NEW new, ToSet(doc) \subseteq ToSet(new)
    PROVE  \A s : Stands(s, doc) => Stands(s, new)
  BY DEF Stands

(* Text put in a section that keeps the lines it had.                      *)
LEMMA PutStands ==
    ASSUME NEW doc, IsDocument(doc), NEW n, NEW t, IsSequence(t), KeepsLines(TextOf(doc, n), t)
    PROVE  \A s : Stands(s, doc) => Stands(s, Put(doc, n, t))
<1> SUFFICES ASSUME NEW s \in ToSet(doc) PROVE Stands(s, Put(doc, n, t))
  BY StandsAgain
<1>1. ToSet(Put(doc, n, t)) = {u \in ToSet(doc) : u.name # n} \cup {Section(n, t)}
  BY PutDocument
<1>2. CASE s.name = n
  <2>1. TextOf(doc, n) = s.text
    BY <1>2, TextOfSection
  <2>2. Section(n, t) \in ToSet(Put(doc, n, t)) /\ Section(n, t).name = s.name /\ Section(n, t).text = t
    BY <1>1, <1>2, SectionFields
  <2> QED
    BY <2>1, <2>2 DEF Stands
<1>3. CASE s.name # n
  <2>1. s \in ToSet(Put(doc, n, t)) /\ KeepsLines(s.text, s.text)
    BY <1>1, <1>3 DEF KeepsLines
  <2> QED
    BY <2>1 DEF Stands
<1> QED
  BY <1>2, <1>3

(* Text put in another section.                                            *)
LEMMA PutElsewhere ==
    ASSUME NEW doc, IsDocument(doc), NEW n, NEW t, IsSequence(t), NEW S, \A s \in S : s.name # n
    PROVE  \A s \in S : Stands(s, doc) => Stands(s, Put(doc, n, t))
<1>1. ToSet(Put(doc, n, t)) = {u \in ToSet(doc) : u.name # n} \cup {Section(n, t)}
  BY PutDocument
<1> QED
  BY <1>1 DEF Stands

(* The document and the terminal names as operations are applied.          *)
SoundState(state, names) ==
    /\ state = [doc |-> state.doc, terminals |-> state.terminals]
    /\ IsDocument(state.doc) /\ IsSequence(state.terminals)
    /\ names \subseteq ToSet(state.terminals) /\ ToSet(state.terminals) \subseteq TerminalNames

(* References are only merged into a terminal section.                     *)
LEMMA ReferencesTarget ==
    ASSUME NEW doc, IsDocument(doc), NEW now, NEW terminals, IsSequence(terminals),
           ToSet(terminals) \subseteq TerminalNames,
           NEW o, o.op = "update_references", TargetIsValid(o, doc, Terminals(doc)),
           Resolve(o.target, now, terminals) # ""
    PROVE  Resolve(o.target, now, terminals) \in TerminalNames
<1> DEFINE r == Resolve(o.target, doc, Terminals(doc))
           target == Resolve(o.target, now, terminals)
<1>1. ToSet(Terminals(doc)) \subseteq TerminalNames /\ "" \notin ToSet(Terminals(doc))
  BY TerminalsElements, RoundsAssumption
<1>2. o.target \in {"", "references", "terminal_sections"} \/ r \in ToSet(Terminals(doc))
  BY DEF TargetIsValid
<1>3. CASE o.target \in {"references", "terminal_sections"}
  <2>1. o.target # "last_body_section"
    BY <1>3
  <2>2. target = FirstTerminal(terminals, "")
    BY <1>3, <2>1 DEF Resolve
  <2> QED
    BY <2>2, FirstIsTerminal
<1>4. CASE o.target = "last_body_section"
  <2>1. r = LastBody(doc, Terminals(doc))
    BY <1>4 DEF Resolve
  <2>2. r \notin ToSet(Terminals(doc))
    BY <1>1, <2>1, LastBodyIsBody
  <2>3. o.target \notin {"", "references", "terminal_sections"}
    BY <1>4
  <2> QED
    BY <1>2, <2>2, <2>3
<1>5. CASE o.target \notin {"references", "terminal_sections", "last_body_section"}
  <2>1. target \in {o.target, ""} /\ r \in {o.target, ""}
    BY <1>5 DEF Resolve
  <2>2. target = o.target /\ o.target # ""
    BY <2>1
  <2>3. r \in ToSet(Terminals(doc))
    BY <1>2, <1>5, <2>2
  <2>4. r = o.target
    BY <1>1, <2>1, <2>3
  <2> QED
    BY <1>1, <2>2, <2>3, <2>4
<1> QED
  BY <1>3, <1>4, <1>5

(* An operation replaces what its target names, and keeps all other lines, *)
(* whatever document the operations before it have left.                   *)
LEMMA EditedKeeps ==
    ASSUME NEW doc, IsDocument(doc), NEW outputs, \A role \in DOMAIN outputs : IsSequence(outputs[role]),
           NEW o, TargetIsValid(o, doc, Terminals(doc)),
           NEW state, SoundState(state, ToSet(Terminals(doc)))
    PROVE  /\ SoundState(Edited(state, o, outputs), ToSet(Terminals(doc)))
           /\ \A s \in ToSet(doc) : ~Replaced(o, s.name) /\ Stands(s, state.doc)
                                        => Stands(s, Edited(state, o, outputs).doc)
<1> DEFINE names == ToSet(Terminals(doc))
           now == state.doc
           target == Resolve(o.target, now, state.terminals)
           content == IF o.role \in DOMAIN outputs THEN outputs[o.role] ELSE <<>>
           at == CASE o.op = "append_after" /\ target = "" ->
                          IF LastBody(now, state.terminals) = "" THEN "body"
                          ELSE LastBody(now, state.terminals)
                     [] o.op = "expand_section" /\ target = "" -> o.role
                     [] o.op = "replace_range" /\ target = "" -> o.target
                     [] o.op = "update_references" /\ target = "" ->
                          FirstTerminal(state.terminals, "references")
                     [] OTHER -> target
           new == Edited(state, o, outputs)
           made == CASE o.op = "replace_tail" /\ target # "" ->
               [state EXCEPT !.doc = Put(now, at, ReplaceTail(TextOf(now, at), content, o.count))]
          [] o.op \in {"append_after", "expand_section"} ->
               [state EXCEPT !.doc = Put(now, at, AppendBlock(TextOf(now, at), content))]
          [] o.op = "insert_before" ->
               [state EXCEPT !.doc =
                   CASE o.role \in NameSet(now) ->
                          Put(now, o.role, AppendBlock(TextOf(now, o.role), content))
                     [] o.role \notin NameSet(now) /\ target \in NameSet(now) ->
                          InsertBefore(now, target, o.role, content)
                     [] OTHER -> Append(now, Section(o.role, content))]
          [] o.op = "replace_range" ->
               [state EXCEPT !.doc = IF o.target = "existing_body"
                                     THEN <<Section("body", Strip(content))>>
                                     ELSE Put(now, at, content)]
          [] o.op = "update_references" ->
               [doc       |-> Put(now, at, MergeReferences(TextOf(now, at), content)),
                terminals |-> IF at \in ToSet(state.terminals) THEN state.terminals
                              ELSE Append(state.terminals, at)]
          [] o.op = "move_terminal_sections_to_end" ->
               [state EXCEPT !.doc = Partition(now, ToSet(state.terminals))]
          [] OTHER -> state
<1>1. new = made
  BY DEF Edited
<1>0. SUFFICES /\ SoundState(new, names)
                /\ \A s \in ToSet(doc) : ~Replaced(o, s.name) /\ Stands(s, now) => Stands(s, new.doc)
  OBVIOUS
<1> HIDE DEF new, made
<1> HIDE DEF names
<1>2. /\ state = [doc |-> now, terminals |-> state.terminals]
      /\ IsDocument(now) /\ IsSequence(state.terminals)
      /\ names \subseteq ToSet(state.terminals) /\ ToSet(state.terminals) \subseteq TerminalNames
  BY DEF SoundState, names
<1>3. IsSequence(content) /\ \A n : IsSequence(TextOf(now, n))
  BY <1>2, SmallSequences, TextOfSection
<1>4. ASSUME NEW s \in ToSet(doc) PROVE s.name \in TerminalNames => s.name \in ToSet(state.terminals)
  <2>1. s.name \in NameSet(doc)
    BY DocumentFacts
  <2>2. s.name \in TerminalNames => s.name \in names
    BY <2>1, TerminalsElements DEF names
  <2> QED
    BY <1>2, <2>2
<1>5. ASSUME NEW d, new = [state EXCEPT !.doc = d], IsDocument(d)
      PROVE  SoundState(new, names) /\ new.doc = d
  <2>1. new = [doc |-> d, terminals |-> state.terminals]
    BY <1>2, <1>5
  <2>2. new.doc = d /\ new.terminals = state.terminals
    BY <2>1
  <2> HIDE DEF new, names
  <2> QED
    BY <1>2, <1>5, <2>1, <2>2 DEF SoundState
<1>6. ASSUME NEW n PROVE /\ IsSequence(AppendBlock(TextOf(now, n), content))
                         /\ KeepsLines(TextOf(now, n), AppendBlock(TextOf(now, n), content))
  <2>1. \A l \in ToSet(TextOf(now, n)) : l # Blank => l \in ToSet(AppendBlock(TextOf(now, n), content))
    BY <1>3, AppendBlockElements
  <2> QED
    BY <1>3, <2>1, AppendBlockElements DEF KeepsLines, ToKeep
<1>7. ASSUME NEW n
      PROVE  LET d == Put(now, n, AppendBlock(TextOf(now, n), content))
             IN  IsDocument(d) /\ \A s \in ToSet(doc) : Stands(s, now) => Stands(s, d)
  BY <1>2, <1>6, PutDocument, PutStands
<1>8. target # "" => \A s \in ToSet(doc) : ~MayMeet(o.target, s.name) => target # s.name
  BY <1>2, <1>4, ResolveMisses
<1> HIDE DEF target, content
<1>9. CASE o.op = "replace_tail" /\ target # ""
  <2> DEFINE d == Put(now, target, ReplaceTail(TextOf(now, target), content, o.count))
  <2>1. at = target
    BY <1>9
  <2> HIDE DEF at
  <2>2. new = [state EXCEPT !.doc = d]
    BY <1>1, <1>9, <2>1 DEF made
  <2>3. IsSequence(ReplaceTail(TextOf(now, target), content, o.count))
    BY <1>3, ReplaceTailIsSequence
  <2>4. IsDocument(d)
    BY <1>2, <2>3, PutDocument
  <2>5. \A s \in ToSet(doc) : ~Replaced(o, s.name) => target # s.name
    BY <1>8, <1>9 DEF Replaced
  <2>6. \A s \in ToSet(doc) : ~Replaced(o, s.name) /\ Stands(s, now) => Stands(s, d)
    BY <1>2, <2>3, <2>5, PutElsewhere
  <2> HIDE DEF d
  <2> QED
    BY <1>5, <2>2, <2>4, <2>6
<1>10. CASE o.op \in {"append_after", "expand_section"}
  <2> HIDE DEF at
  <2> DEFINE d == Put(now, at, AppendBlock(TextOf(now, at), content))
  <2>1. new = [state EXCEPT !.doc = d]
    BY <1>1, <1>10 DEF made
  <2>2. IsDocument(d) /\ \A s \in ToSet(doc) : Stands(s, now) => Stands(s, d)
    BY <1>7
  <2> HIDE DEF d
  <2> QED
    BY <1>5, <2>1, <2>2
<1>11. CASE o.op = "insert_before"
  <2> HIDE DEF at
  <2> DEFINE d == CASE o.role \in NameSet(now) ->
                          Put(now, o.role, AppendBlock(TextOf(now, o.role), content))
                     [] o.role \notin NameSet(now) /\ target \in NameSet(now) ->
                          InsertBefore(now, target, o.role, content)
                     [] OTHER -> Append(now, Section(o.role, content))
  <2>1. new = [state EXCEPT !.doc = d]
    BY <1>1, <1>11 DEF made
  <2>2. IsDocument(d) /\ \A s \in ToSet(doc) : Stands(s, now) => Stands(s, d)
    <3>1. CASE o.role \in NameSet(now)
      <4>1. d = Put(now, o.role, AppendBlock(TextOf(now, o.role), content))
        BY <3>1
      <4> QED
        BY <1>7, <4>1
    <3>2. CASE o.role \notin NameSet(now) /\ target \in NameSet(now)
      <4>1. d = InsertBefore(now, target, o.role, content)
        BY <3>2
      <4> HIDE DEF d
      <4>2. IsDocument(d) /\ ToSet(now) \subseteq ToSet(d)
        BY <1>2, <1>3, <3>2, <4>1, InsertDocument
      <4> QED
        BY <4>2, AllStand
    <3>3. CASE o.role \notin NameSet(now) /\ target \notin NameSet(now)
      <4>1. d = Append(now, Section(o.role, content))
        BY <3>3
      <4> HIDE DEF d
      <4>2. IsDocument(d) /\ ToSet(now) \subseteq ToSet(d)
        BY <1>2, <1>3, <3>3, <4>1, AppendDocument
      <4> QED
        BY <4>2, AllStand
    <3> QED
      BY <3>1, <3>2, <3>3
  <2> HIDE DEF d
  <2> QED
    BY <1>5, <2>1, <2>2
<1>12. CASE o.op = "replace_range"
  <2>1. CASE o.target = "existing_body"
    <3> HIDE DEF at
    <3> DEFINE d == <<Section("body", Strip(content))>>
    <3>1. new = [state EXCEPT !.doc = d]
      BY <1>1, <1>12, <2>1 DEF made
    <3>2. IsSequence(d) /\ ToSet(d) = {Section("body", Strip(content))}
      BY SmallSequences
    <3>3. Len(d) = 1 /\ DOMAIN d = 1..1
      <4>1. \A e : Len(<<e>>) = 1 /\ DOMAIN <<e>> = 1..1
        OBVIOUS
      <4> QED
        BY <4>1
    <3> HIDE DEF d
    <3>4. IsDocument(d)
      BY <1>3, <3>2, <3>3, StripElements, SectionFields, IsDocumentIf
    <3>5. \A n : Replaced(o, n)
      BY <1>12, <2>1 DEF Replaced
    <3> QED
      BY <1>5, <3>1, <3>4, <3>5
  <2>2. CASE o.target # "existing_body"
    <3>1. at = IF target = "" THEN o.target ELSE target
      BY <1>12
    <3> HIDE DEF at
    <3> DEFINE d == Put(now, at, content)
    <3>2. new = [state EXCEPT !.doc = d]
      BY <1>1, <1>12, <2>2 DEF made
    <3>3. IsDocument(d)
      BY <1>2, <1>3, PutDocument
    <3>4. \A s \in ToSet(doc) : ~Replaced(o, s.name) => at # s.name
      <4>1. \A n : ~Replaced(o, n) => ~MayMeet(o.target, n)
        BY <1>12 DEF Replaced
      <4>2. \A n : ~MayMeet(o.target, n) => o.target # n
        BY DEF MayMeet
      <4> QED
        BY <1>8, <3>1, <4>1, <4>2
    <3>5. \A s \in ToSet(doc) : ~Replaced(o, s.name) /\ Stands(s, now) => Stands(s, d)
      BY <1>2, <1>3, <3>4, PutElsewhere
    <3> HIDE DEF d
    <3> QED
      BY <1>5, <3>2, <3>3, <3>5
  <2> QED
    BY <2>1, <2>2
<1>13. CASE o.op = "update_references"
  <2> DEFINE d == Put(now, at, MergeReferences(TextOf(now, at), content))
             t == IF at \in ToSet(state.terminals) THEN state.terminals ELSE Append(state.terminals, at)
  <2>1. at = IF target = "" THEN FirstTerminal(state.terminals, "references") ELSE target
    BY <1>13
  <2> HIDE DEF at
  <2>2. new = [doc |-> d, terminals |-> t]
    BY <1>1, <1>13 DEF made
  <2>3. at \in TerminalNames
    <3>1. target # "" => target \in TerminalNames
      BY <1>2, <1>13, ReferencesTarget DEF target
    <3>2. FirstTerminal(state.terminals, "references") \in TerminalNames
      BY <1>2, FirstIsTerminal, RoundsAssumption
    <3> QED
      BY <2>1, <3>1, <3>2
  <2>4. IsSequence(t) /\ ToSet(state.terminals) \subseteq ToSet(t) /\ ToSet(t) \subseteq TerminalNames
    <3>1. CASE at \in ToSet(state.terminals)
      <4>1. t = state.terminals
        BY <3>1
      <4> QED
        BY <1>2, <4>1
    <3>2. CASE at \notin ToSet(state.terminals)
      <4>1. t = Append(state.terminals, at)
        BY <3>2
      <4> HIDE DEF t
      <4> QED
        BY <1>2, <2>3, <4>1, AppendElements
    <3> QED
      BY <3>1, <3>2
  <2>5. /\ IsSequence(MergeReferences(TextOf(now, at), content))
        /\ KeepsLines(TextOf(now, at), MergeReferences(TextOf(now, at), content))
    BY <1>3, MergeKeeps
  <2>6. IsDocument(d) /\ \A s \in ToSet(doc) : Stands(s, now) => Stands(s, d)
    BY <1>2, <2>5, PutDocument, PutStands
  <2> HIDE DEF d, t
  <2>7. new.doc = d /\ new.terminals = t
    BY <2>2
  <2> QED
    BY <1>2, <2>2, <2>4, <2>6, <2>7 DEF SoundState
<1>14. CASE o.op = "move_terminal_sections_to_end"
  <2> HIDE DEF at
  <2> DEFINE d == Partition(now, ToSet(state.terminals))
  <2>1. new = [state EXCEPT !.doc = d]
    BY <1>1, <1>14 DEF made
  <2>2. IsDocument(d) /\ ToSet(d) = ToSet(now)
    BY <1>2, PartitionDocument
  <2>3. \A s \in ToSet(doc) : Stands(s, now) => Stands(s, d)
    BY <2>2, AllStand
  <2> HIDE DEF d
  <2> QED
    BY <1>5, <2>1, <2>2, <2>3
<1>15. CASE /\ ~(o.op = "replace_tail" /\ target # "")
            /\ o.op \notin {"append_after", "expand_section", "insert_before", "replace_range", "update_references",
                            "move_terminal_sections_to_end"}
  <2> HIDE DEF at
  <2>1. new = state
    BY <1>1, <1>15 DEF made
  <2> QED
    BY <2>1 DEF names
<1> QED
  <2> HIDE DEF at
  <2> QED
    BY <1>9, <1>10, <1>11, <1>12, <1>13, <1>14, <1>15

(* The states of the document as the first n operations are applied.       *)
Applying(doc, p, outputs, n, after) ==
    after = [i \in 0..n |-> IF i = 0 THEN [doc |-> doc, terminals |-> Terminals(doc)]
                            ELSE Edited(after[i - 1], p[i], outputs)]

(* There are such states.                                                  *)
LEMMA ApplyingExists ==
    ASSUME NEW doc, NEW p, NEW outputs, NEW N \in Nat
    PROVE  \E after : Applying(doc, p, outputs, N, after)
<1> DEFINE Missing == {n \in Nat : ~\E after : Applying(doc, p, outputs, n, after)}
           first == [doc |-> doc, terminals |-> Terminals(doc)]
<1>1. ASSUME Missing # {} PROVE FALSE
  <2>1. PICK n \in Missing : \A m \in Missing : n <= m
    BY <1>1, LeastNatural
  <2>2. CASE n = 0
    <3>1. Applying(doc, p, outputs, 0, [i \in 0..0 |-> first])
      BY DEF Applying
    <3> QED
      BY <2>1, <2>2, <3>1
  <2>3. CASE n # 0
    <3>1. n - 1 \in Nat /\ n - 1 \notin Missing
      BY <2>1, <2>3
    <3>2. PICK before : Applying(doc, p, outputs, n - 1, before)
      BY <3>1
    <3> DEFINE after == [i \in 0..n |-> IF i < n THEN before[i] ELSE Edited(before[n - 1], p[n], outputs)]
    <3>3. ASSUME NEW i \in 0..n
          PROVE  after[i] = IF i = 0 THEN first ELSE Edited(after[i - 1], p[i], outputs)
      <4>1. CASE i < n
        <5>1. i \in 0..(n - 1) /\ (i # 0 => i - 1 \in 0..n /\ i - 1 < n)
          BY <2>1, <4>1
        <5>2. before[i] = IF i = 0 THEN first ELSE Edited(before[i - 1], p[i], outputs)
          BY <3>2, <5>1 DEF Applying
        <5> QED
          BY <4>1, <5>1, <5>2
      <4>2. CASE i = n
        <5>1. n - 1 \in 0..n /\ n - 1 < n /\ ~(n < n)
          BY <2>1, <2>3
        <5> QED
          BY <2>3, <4>2, <5>1
      <4> QED
        BY <2>1, <4>1, <4>2
    <3>4. after = [i \in 0..n |-> IF i = 0 THEN first ELSE Edited(after[i - 1], p[i], outputs)]
      BY <3>3
    <3>5. Applying(doc, p, outputs, n, after)
      BY <3>4 DEF Applying
    <3> QED
      BY <2>1, <3>5
  <2> QED
    BY <2>2, <2>3
<1> QED
  BY <1>1

Unreplaced(doc, p) == {s \in ToSet(doc) : \A i \in DOMAIN p : ~Replaced(p[i], s.name)}

(* What the operations of a plan do not replace stands in the result.      *)
LEMMA AppliedKeeps ==
    ASSUME NEW doc, IsDocument(doc), NEW p, IsSequence(p),
           NEW outputs, \A role \in DOMAIN outputs : IsSequence(outputs[role]),
           \A i \in DOMAIN p : TargetIsValid(p[i], doc, Terminals(doc))
    PROVE  /\ IsDocument(Applied(doc, p, outputs))
           /\ \A s \in Unreplaced(doc, p) : Stands(s, Applied(doc, p, outputs))
<1> DEFINE N == Len(p)
           names == ToSet(Terminals(doc))
           after == CHOOSE f : Applying(doc, p, outputs, N, f)
<1>1. N \in Nat /\ DOMAIN p = 1..N
  BY SequenceFacts
<1>2. Applying(doc, p, outputs, N, after)
  BY <1>1, ApplyingExists
<1>3. Applied(doc, p, outputs) = after[N].doc
  BY DEF Applied, Applying
<1> HIDE DEF after, N
<1>4. \A i \in 0..N : after[i] = IF i = 0 THEN [doc |-> doc, terminals |-> Terminals(doc)]
                                 ELSE Edited(after[i - 1], p[i], outputs)
  BY <1>2 DEF Applying
<1> DEFINE Good == {k \in 0..N : /\ SoundState(after[k], names)
                                 /\ \A s \in Unreplaced(doc, p) : Stands(s, after[k].doc)}
<1>5. 0 \in Good
  <2>1. 0 \in 0..N /\ after[0] = [doc |-> doc, terminals |-> Terminals(doc)]
    <3>1. 0 \in 0..N
      BY <1>1
    <3> HIDE DEF Good, names
    <3> QED
      BY <1>4, <3>1
  <2>2. after[0].doc = doc /\ after[0].terminals = Terminals(doc)
    BY <2>1
  <2>3. SoundState(after[0], names)
    BY <2>1, <2>2, TerminalsElements DEF SoundState
  <2>4. \A s \in Unreplaced(doc, p) : Stands(s, doc)
    BY DEF Unreplaced, Stands, KeepsLines
  <2> QED
    BY <2>1, <2>2, <2>3, <2>4
<1>6. ASSUME NEW k \in 1..N, k - 1 \in Good PROVE k \in Good
  <2>1. k \in 0..N /\ k # 0 /\ k \in DOMAIN p
    BY <1>1
  <2>2. after[k] = Edited(after[k - 1], p[k], outputs)
    BY <1>4, <2>1
  <2>3. SoundState(after[k - 1], names) /\ \A s \in Unreplaced(doc, p) : Stands(s, after[k - 1].doc)
    BY <1>6
  <2>4. /\ SoundState(after[k], names)
        /\ \A s \in ToSet(doc) : ~Replaced(p[k], s.name) /\ Stands(s, after[k - 1].doc) => Stands(s, after[k].doc)
    BY <2>1, <2>2, <2>3, EditedKeeps
  <2>5. \A s \in Unreplaced(doc, p) : s \in ToSet(doc) /\ ~Replaced(p[k], s.name)
    BY <2>1 DEF Unreplaced
  <2> QED
    BY <2>1, <2>3, <2>4, <2>5
<1>7. N \in Good
  <2>1. Good \in SUBSET Nat
    BY <1>1
  <2> HIDE DEF Good
  <2>2. \A k \in 0..N : k \in Good
    BY <1>1, <1>5, <1>6, <2>1, UpTo
  <2> QED
    BY <1>1, <2>2
<1> QED
  BY <1>3, <1>7 DEF SoundState

(* What is chosen keeps the order it had.                                  *)
LEMMA ChosenInOrder ==
    ASSUME NEW s, IsSequence(s), NEW places
    PROVE  \A i, j \in DOMAIN Chosen(s, places) :
               i < j => \E a, b \in places \cap DOMAIN s :
                           a < b /\ Chosen(s, places)[i] = s[a] /\ Chosen(s, places)[j] = s[b]
<1> DEFINE r == Chosen(s, places)
<1>1. PICK n, p : n \in Nat /\ Picks(s, places, Len(s), r, n, p)
  BY PicksExist
<1> HIDE DEF r
<1>2. DOMAIN s = 1..Len(s)
  BY SequenceFacts
<1>3. p \in [1..n -> places \cap DOMAIN s] /\ r = [a \in 1..n |-> s[p[a]]]
  BY <1>1, <1>2 DEF Picks
<1>4. DOMAIN r = 1..n /\ \A a \in 1..n : p[a] \in places \cap DOMAIN s /\ r[a] = s[p[a]]
  BY <1>3
<1>5. \A a, b \in 1..n : a < b => p[a] < p[b]
  BY <1>1 DEF Picks
<1>6. ASSUME NEW i \in DOMAIN r, NEW j \in DOMAIN r, i < j
      PROVE  \E a, b \in places \cap DOMAIN s : a < b /\ r[i] = s[a] /\ r[j] = s[b]
  <2>1. /\ p[i] \in places \cap DOMAIN s /\ p[j] \in places \cap DOMAIN s /\ p[i] < p[j]
        /\ r[i] = s[p[i]] /\ r[j] = s[p[j]]
    BY <1>4, <1>5, <1>6
  <2> QED
    BY <2>1
<1> QED
  BY <1>6 DEF r

(* And has no repetitions that there were not.                             *)
LEMMA ChosenDistinct ==
    ASSUME NEW s, IsSequence(s), NEW places, \A a, b \in DOMAIN s : s[a] = s[b] => a = b
    PROVE  \A i, j \in DOMAIN Chosen(s, places) : Chosen(s, places)[i] = Chosen(s, places)[j] => i = j
<1> DEFINE r == Chosen(s, places)
<1>1. /\ IsSequence(r)
      /\ \A i, j \in DOMAIN r :
            i < j => \E a, b \in places \cap DOMAIN s : a < b /\ r[i] = s[a] /\ r[j] = s[b]
  BY ChosenInOrder, ChosenElements
<1> HIDE DEF r
<1>2. DOMAIN r = 1..Len(r) /\ Len(r) \in Nat /\ DOMAIN s = 1..Len(s) /\ Len(s) \in Nat
  BY <1>1, SequenceFacts
<1>3. \A i, j \in DOMAIN r : i < j => r[i] # r[j]
  BY <1>1, <1>2
<1>4. \A i, j \in DOMAIN r : i < j \/ i = j \/ j < i
  BY <1>2
<1>5. \A i, j \in DOMAIN r : r[i] = r[j] => i = j
  BY <1>3, <1>4
<1> QED
  BY <1>5 DEF r

LEMMA NoElements == ASSUME NEW s, IsSequence(s), ToSet(s) = {} PROVE s = <<>> /\ Len(s) = 0
<1>1. Len(s) \in Nat /\ DOMAIN s = 1..Len(s) /\ s \in Seq(ToSet(s))
  BY SequenceFacts DEF IsSequence
<1>2. DOMAIN s = {}
  BY DEF ToSet
<1> QED
  BY <1>1, <1>2, EmptySeq

(* Listing a document in the order of its own names lists all of it.       *)
LEMMA ListedDocument ==
    ASSUME NEW doc, IsDocument(doc)
    PROVE  LET order  == Names(doc)
               known  == Chosen(order, {i \in DOMAIN order : order[i] \in NameSet(doc)})
               rest   == Chosen(Names(doc), {i \in DOMAIN doc : doc[i].name \notin ToSet(order)})
               listed == [i \in DOMAIN (known \o rest) |->
                              Section((known \o rest)[i], TextOf(doc, (known \o rest)[i]))]
           IN  IsDocument(listed) /\ ToSet(listed) = ToSet(doc)
<1> DEFINE order  == Names(doc)
           known  == Chosen(order, {i \in DOMAIN order : order[i] \in NameSet(doc)})
           rest   == Chosen(Names(doc), {i \in DOMAIN doc : doc[i].name \notin ToSet(order)})
           all    == known \o rest
           listed == [i \in DOMAIN all |-> Section(all[i], TextOf(doc, all[i]))]
<1>1. IsSequence(order) /\ DOMAIN order = DOMAIN doc /\ \A i \in DOMAIN doc : order[i] = doc[i].name
  BY NamesSequence
<1>2. \A i \in DOMAIN doc : order[i] \in NameSet(doc) /\ order[i] \in ToSet(order)
  BY <1>1 DEF NameSet, ToSet
<1>3. IsSequence(known) /\ ToSet(known) = NameSet(doc)
  <2> DEFINE places == {i \in DOMAIN order : order[i] \in NameSet(doc)}
  <2>1. places \cap DOMAIN order = DOMAIN doc
    BY <1>1, <1>2
  <2>2. IsSequence(known) /\ ToSet(known) = {order[i] : i \in DOMAIN doc}
    <3> HIDE DEF order
    <3> QED
      BY <1>1, <2>1, ChosenElements
  <2> HIDE DEF known, order
  <2> QED
    BY <1>1, <2>2 DEF NameSet
<1>4. \A i, j \in DOMAIN known : known[i] = known[j] => i = j
  <2>1. \A i, j \in DOMAIN order : order[i] = order[j] => i = j
    BY <1>1 DEF IsDocument
  <2> HIDE DEF order
  <2> QED
    BY <1>1, <2>1, ChosenDistinct
<1>5. IsSequence(rest) /\ ToSet(rest) = {}
  <2> DEFINE places == {i \in DOMAIN doc : doc[i].name \notin ToSet(order)}
  <2>1. places = {}
    BY <1>1, <1>2
  <2>2. IsSequence(rest) /\ ToSet(rest) = {order[i] : i \in places \cap DOMAIN order}
    <3> HIDE DEF places
    <3> QED
      BY <1>1, ChosenElements DEF places
  <2> HIDE DEF rest, places
  <2> QED
    BY <2>1, <2>2
<1> HIDE DEF order, known, rest
<1>6. rest = <<>> /\ Len(rest) = 0
  BY <1>5, NoElements
<1>7. /\ IsSequence(all) /\ ToSet(all) = NameSet(doc) /\ Len(all) = Len(known)
      /\ \A i \in 1..Len(known) : all[i] = known[i]
  <2>1. /\ IsSequence(all) /\ ToSet(all) = ToSet(known) \cup ToSet(rest)
        /\ Len(all) = Len(known) + Len(rest)
        /\ \A i \in 1..(Len(known) + Len(rest)) : all[i] = IF i <= Len(known) THEN known[i] ELSE rest[i - Len(known)]
    BY <1>3, <1>5, ConcatElements
  <2>2. Len(known) \in Nat
    BY <1>3, SequenceFacts
  <2> HIDE DEF all
  <2> QED
    BY <1>3, <1>5, <1>6, <2>1, <2>2
<1> HIDE DEF all
<1>8. /\ DOMAIN all = 1..Len(all) /\ Len(all) \in Nat /\ DOMAIN known = 1..Len(known)
  BY <1>3, <1>7, SequenceFacts
<1>9. \A i, j \in DOMAIN all : all[i] = all[j] => i = j
  BY <1>4, <1>7, <1>8
<1>10. /\ DOMAIN listed = DOMAIN all
       /\ \A i \in DOMAIN all : listed[i] = Section(all[i], TextOf(doc, all[i])) /\ all[i] \in NameSet(doc)
  BY <1>7 DEF ToSet
<1>11. IsSequence(listed)
  <2>1. listed = [i \in 1..Len(all) |-> listed[i]]
    BY <1>8
  <2> HIDE DEF listed
  <2> QED
    BY <1>8, <2>1, FunctionIsSequence
<1> HIDE DEF listed
<1>12. \A i \in DOMAIN all : listed[i].name = all[i] /\ listed[i].text = TextOf(doc, all[i])
  BY <1>10, SectionFields
<1>13. IsDocument(listed)
  <2>1. \A s \in ToSet(listed) : s = Section(s.name, s.text) /\ IsSequence(s.text)
    BY <1>10, <1>12, TextOfSection DEF ToSet
  <2>2. \A i, j \in DOMAIN listed : listed[i].name = listed[j].name => i = j
    BY <1>9, <1>10, <1>12
  <2> QED
    BY <1>11, <2>1, <2>2, IsDocumentIf
<1>14. ToSet(listed) \subseteq ToSet(doc)
  BY <1>10, TextOfSection DEF ToSet
<1>15. ASSUME NEW s \in ToSet(doc) PROVE s \in ToSet(listed)
  <2>1. s.name \in NameSet(doc) /\ s = Section(s.name, TextOf(doc, s.name))
    BY DocumentFacts, TextOfSection
  <2>2. PICK i \in DOMAIN all : all[i] = s.name
    BY <1>7, <2>1 DEF ToSet
  <2> QED
    BY <1>10, <2>1, <2>2 DEF ToSet
<1> QED
  BY <1>13, <1>14, <1>15 DEF listed, all, known, rest, order

(* No section of another name follows one of the last names.               *)
Ordered(doc) ==
    \A i, j \in DOMAIN doc : i < j /\ doc[i].name \in LastNames => doc[j].name \in LastNames

(* Every line of a text has its key in a document.                         *)
HasLines(doc, text) ==
    \A l \in ToSet(text) : l # Blank => \E t \in ToSet(doc) : \E k \in ToSet(t.text) : k.key = l.key

LEMMA NotEmpty == ASSUME NEW s, NEW e \in ToSet(s) PROVE s # <<>>
<1>1. ToSet(<<>>) = {}
  BY SmallSequences
<1> QED
  BY <1>1

(* All reference sections merged into one.                                 *)
LEMMA MergedReferences ==
    ASSUME NEW refs, IsDocument(refs)
    PROVE  LET merged == Dedupe(Lines(FlattenSeq([i \in DOMAIN refs |-> refs[i].text])))
           IN  /\ IsSequence(merged)
               /\ \A s \in ToSet(refs) : \A l \in ToSet(s.text) :
                     l # Blank => \E k \in ToSet(merged) : k.key = l.key
<1> DEFINE texts == [i \in DOMAIN refs |-> refs[i].text]
           all == FlattenSeq(texts)
           merged == Dedupe(Lines(all))
<1>1. Len(refs) \in Nat /\ DOMAIN refs = 1..Len(refs)
  BY DocumentFacts
<1>2. DOMAIN texts = DOMAIN refs /\ \A i \in DOMAIN refs : texts[i] = refs[i].text
  OBVIOUS
<1>3. IsSequence(texts)
  <2>1. texts = [i \in 1..Len(refs) |-> texts[i]]
    BY <1>1
  <2> HIDE DEF texts
  <2> QED
    BY <1>1, <2>1, FunctionIsSequence
<1> HIDE DEF texts
<1>4. \A i \in DOMAIN refs : IsSequence(refs[i].text)
  BY DEF IsDocument
<1>5. IsSequence(all) /\ ToSet(all) = UNION {ToSet(texts[i]) : i \in DOMAIN texts}
  BY <1>2, <1>3, <1>4, FlattenElements
<1>6. \A s \in ToSet(refs) : \A l \in ToSet(s.text) : l \in ToSet(all)
  <2> TAKE s \in ToSet(refs)
  <2>1. PICK i \in DOMAIN refs : refs[i] = s
    BY DEF ToSet
  <2>2. texts[i] = s.text /\ i \in DOMAIN texts
    BY <1>2, <2>1
  <2> QED
    BY <1>5, <2>2
<1> HIDE DEF all
<1>7. IsSequence(Lines(all)) /\ ToSet(Lines(all)) = {l \in ToSet(all) : l # Blank}
  BY <1>5, LinesElements
<1>8. IsSequence(merged) /\ \A l \in ToSet(Lines(all)) : \E k \in ToSet(merged) : k.key = l.key
  BY <1>7, DedupeKeeps
<1> HIDE DEF merged, Blank
<1>9. \A s \in ToSet(refs) : \A l \in ToSet(s.text) : l # Blank => l \in ToSet(Lines(all))
  BY <1>6, <1>7
<1> QED
  BY <1>8, <1>9 DEF merged, all, texts

(* Assembling a document keeps all keys and puts the last names last.      *)
LEMMA AssembledKeeps ==
    ASSUME NEW doc, IsDocument(doc), doc # <<>>
    PROVE  LET new == Assembled(doc, Names(doc))
           IN  /\ IsDocument(new) /\ new # <<>> /\ Ordered(new)
               /\ \A s \in ToSet(doc) : HasLines(new, s.text)
<1> DEFINE order  == Names(doc)
           known  == Chosen(order, {i \in DOMAIN order : order[i] \in NameSet(doc)})
           rest   == Chosen(Names(doc), {i \in DOMAIN doc : doc[i].name \notin ToSet(order)})
           listed == [i \in DOMAIN (known \o rest) |->
                          Section((known \o rest)[i], TextOf(doc, (known \o rest)[i]))]
           ordered == Partition(listed, LastNames)
           refs    == Chosen(ordered, {i \in DOMAIN ordered : ordered[i].name \in ReferenceNames})
           merged  == Dedupe(Lines(FlattenSeq([i \in DOMAIN refs |-> refs[i].text])))
           put     == Put(ordered, refs[1].name, merged)
           places  == {i \in DOMAIN ordered : ordered[i].name \in ReferenceNames => ordered[i].name = refs[1].name}
           new == Assembled(doc, Names(doc))
<1>1. new = IF refs = <<>> THEN ordered ELSE Chosen(put, places)
  BY DEF Assembled
<1>2. IsDocument(listed) /\ ToSet(listed) = ToSet(doc)
  BY ListedDocument
<1> HIDE DEF listed, new
<1>3. IsDocument(ordered) /\ ToSet(ordered) = ToSet(doc) /\ Ordered(ordered)
  BY <1>2, PartitionDocument DEF Ordered
<1> HIDE DEF ordered
<1>4. IsSequence(ordered) /\ IsSequence(doc) /\ DOMAIN ordered = 1..Len(ordered) /\ Len(ordered) \in Nat
  BY <1>3, DocumentFacts DEF IsDocument
<1>5. PICK first \in ToSet(doc) : TRUE
  <2>1. doc[1] \in ToSet(doc)
    BY <1>4, LastElement
  <2> QED
    BY <2>1
<1>6. IsDocument(refs) /\ ToSet(refs) = {s \in ToSet(ordered) : s.name \in ReferenceNames}
  <2> DEFINE refplaces == {i \in DOMAIN ordered : ordered[i].name \in ReferenceNames}
  <2>1. IsDocument(refs) /\ ToSet(refs) = {ordered[i] : i \in refplaces \cap DOMAIN ordered}
    BY <1>3, <1>4, ChosenElements, ChosenIsDocument
  <2> HIDE DEF refs
  <2> QED
    BY <2>1 DEF ToSet
<1>7. CASE refs = <<>>
  <2>1. new = ordered
    BY <1>1, <1>7
  <2>2. \A s \in ToSet(doc) : HasLines(new, s.text)
    BY <1>3, <2>1 DEF HasLines
  <2>3. new # <<>>
    BY <1>3, <1>5, <2>1, NotEmpty
  <2> QED
    BY <1>3, <2>1, <2>2, <2>3 DEF new
<1>8. CASE refs # <<>>
  <2>1. new = Chosen(put, places)
    BY <1>1, <1>8
  <2>2. /\ IsSequence(merged)
        /\ \A s \in ToSet(refs) : \A l \in ToSet(s.text) : l # Blank => \E k \in ToSet(merged) : k.key = l.key
    BY <1>6, MergedReferences
  <2>3. refs[1] \in ToSet(ordered) /\ refs[1].name \in ReferenceNames
    BY <1>6, <1>8, LastElement DEF IsDocument
  <2> HIDE DEF merged
  <2> DEFINE n == refs[1].name
             e == Section(n, merged)
  <2>4. n \in NameSet(ordered) /\ n \in ReferenceNames
    BY <1>3, <2>3, DocumentFacts
  <2> HIDE DEF refs
  <2>5. /\ IsDocument(put) /\ ToSet(put) = {s \in ToSet(ordered) : s.name # n} \cup {e}
        /\ Len(put) = Len(ordered) /\ \A i \in 1..Len(ordered) : put[i].name = ordered[i].name
    BY <1>3, <2>2, <2>4, PutDocument
  <2>6. /\ IsSequence(put) /\ DOMAIN put = DOMAIN ordered
        /\ \A i \in DOMAIN put : i \in places <=> (put[i].name \in ReferenceNames => put[i].name = n)
    <3>1. IsSequence(put) /\ DOMAIN put = 1..Len(put)
      BY <2>5, DocumentFacts DEF IsDocument
    <3> HIDE DEF put
    <3> QED
      BY <1>4, <2>5, <3>1
  <2> HIDE DEF put, places
  <2>7. IsDocument(new) /\ ToSet(new) = {put[i] : i \in places \cap DOMAIN put}
    BY <2>1, <2>5, <2>6, ChosenElements, ChosenIsDocument
  <2>8. Ordered(new)
    <3>1. Ordered(put)
      BY <1>3, <1>4, <2>5, <2>6 DEF Ordered
    <3>2. \A i, j \in DOMAIN new : i < j => \E a, b \in places \cap DOMAIN put :
                                               a < b /\ new[i] = put[a] /\ new[j] = put[b]
      BY <2>1, <2>6, ChosenInOrder
    <3> QED
      BY <3>1, <3>2 DEF Ordered
  <2>9. ASSUME NEW s \in ToSet(put), s.name \in ReferenceNames => s.name = n PROVE s \in ToSet(new)
    <3>1. PICK i \in DOMAIN put : put[i] = s
      BY DEF ToSet
    <3> QED
      BY <2>6, <2>7, <2>9, <3>1
  <2>10. e \in ToSet(new) /\ e.name = n /\ e.text = merged
    <3>1. e.name = n /\ e.text = merged
      BY SectionFields
    <3> QED
      BY <2>5, <2>9, <3>1
  <2>11. ASSUME NEW s \in ToSet(doc) PROVE HasLines(new, s.text)
    <3>1. CASE s.name \in ReferenceNames
      <4>1. s \in ToSet(refs)
        BY <1>3, <1>6, <3>1
      <4> QED
        BY <2>2, <2>10, <4>1 DEF HasLines
    <3>2. CASE s.name \notin ReferenceNames
      <4>1. s \in ToSet(put)
        BY <1>3, <2>4, <2>5, <3>2
      <4>2. s \in ToSet(new)
        BY <2>9, <3>2, <4>1
      <4> QED
        BY <4>2 DEF HasLines
    <3> QED
      BY <3>1, <3>2
  <2>12. new # <<>>
    BY <2>10, NotEmpty
  <2> QED
    BY <2>7, <2>8, <2>11, <2>12 DEF new
<1> QED
  BY <1>7, <1>8

(* The plan of a continuation is a sequence of operations.                 *)
LEMMA IntentIsKnown ==
    ASSUME NEW override \in Intents \cup {None}, NEW groups, NEW doc
    PROVE  Intent(override, groups, doc) \in Intents
  BY DEF Intent, Intents, None

LEMMA DefaultPlanIsSequence ==
    ASSUME NEW intent \in Intents, NEW terminals
    PROVE  IsSequence(DefaultPlan(intent, terminals))
<1> DEFINE target == IF terminals = <<>> THEN "" ELSE terminals[1]
           edits  == CASE intent = "bridge_and_continue" ->
                         << Op("replace_tail", "last_body_section", "smooth_bridge", 1),
                            Insertion(target, "continuation") >>
                    [] intent = "continue_append" -> << Insertion(target, "continuation") >>
                    [] intent = "update_references_only" ->
                         << Op("update_references",
                               IF target = "" THEN "references" ELSE target, "references", 0) >>
                    [] intent = "expand_section" ->
                         << Op("expand_section", "requested_section", "expansion", 0) >>
                    [] intent = "complete_missing_section" ->
                         << Insertion(target, "missing_section") >>
                    [] intent = "revise_in_place" ->
                         << Op("replace_range", "existing_body", "revision", 0) >>
                    [] intent = "restructure" ->
                         << Op("replace_range", "existing_body", "restructured_body", 0) >>
           first == <<Op("preserve", "existing_body", "", 0)>>
           last  == IF terminals = <<>> THEN <<>> ELSE <<Op("move_terminal_sections_to_end", "", "", 0)>>
<1>1. DefaultPlan(intent, terminals) = first \o edits \o last
  BY DEF DefaultPlan
<1>2. ASSUME NEW a, NEW b PROVE IsSequence(<<a, b>>)
  <2>1. <<a, b>> \in Seq({a, b})
    OBVIOUS
  <2> QED
    BY <2>1, SequenceOfAny
<1>3. IsSequence(edits)
  <2> HIDE DEF target
  <2>1. \/ intent = "bridge_and_continue" \/ intent = "continue_append" \/ intent = "update_references_only"
        \/ intent = "expand_section" \/ intent = "complete_missing_section" \/ intent = "revise_in_place"
        \/ intent = "restructure"
    BY DEF Intents
  <2>2. CASE intent = "bridge_and_continue"
    <3>1. edits = << Op("replace_tail", "last_body_section", "smooth_bridge", 1),
                     Insertion(target, "continuation") >>
      BY <2>2
    <3> QED
      BY <1>2, <3>1
  <2>3. CASE intent # "bridge_and_continue"
    <3>1. \E e : edits = <<e>>
      BY <2>1, <2>3
    <3> HIDE DEF edits
    <3> QED
      BY <3>1, SmallSequences
  <2> QED
    BY <2>2, <2>3
<1>4. IsSequence(first) /\ IsSequence(last)
  BY SmallSequences
<1> HIDE DEF first, edits, last
<1>5. IsSequence(first \o edits \o last)
  BY <1>3, <1>4, ConcatElements
<1> QED
  BY <1>1, <1>5

(* A patched text is a text.                                               *)
LEMMA PatchedIsSequence ==
    ASSUME NEW text, IsSequence(text), NEW p \in Patches
    PROVE  IsSequence(Patched(text, p))
<1> DEFINE over(i) == {b \in ToSet(p) : b.first <= i /\ i <= b.last}
           first(i) == {b \in over(i) : b.first = i}
           part(i) == IF over(i) = {} THEN <<text[i]>>
                      ELSE IF first(i) = {} THEN <<>> ELSE (CHOOSE b \in first(i) : TRUE).lines
           parts == [i \in DOMAIN text |-> part(i)]
<1>1. Len(text) \in Nat /\ DOMAIN text = 1..Len(text)
  BY SequenceFacts
<1>2. \A b \in ToSet(p) : IsSequence(b.lines)
  BY RoundsAssumption DEF ToSet
<1>3. ASSUME NEW i PROVE IsSequence(part(i))
  <2>1. first(i) # {} => (CHOOSE b \in first(i) : TRUE) \in ToSet(p)
    <3>1. first(i) # {} => (CHOOSE b \in first(i) : TRUE) \in first(i)
      OBVIOUS
    <3>2. first(i) \subseteq ToSet(p)
      OBVIOUS
    <3> HIDE DEF first
    <3> QED
      BY <3>1, <3>2
  <2> HIDE DEF over, first
  <2> QED
    BY <1>2, <2>1, SmallSequences
<1>4. Patched(text, p) = FlattenSeq(parts)
  BY DEF Patched
<1> HIDE DEF part
<1>5. parts = [i \in 1..Len(text) |-> parts[i]] /\ \A i \in 1..Len(text) : parts[i] = part(i)
  BY <1>1
<1> HIDE DEF parts
<1>6. IsSequence(parts) /\ DOMAIN parts = 1..Len(text)
  BY <1>1, <1>5, FunctionIsSequence
<1> QED
  BY <1>3, <1>4, <1>5, <1>6, FlattenElements

(* A revision keeps the names of the sections it revises.                  *)
LEMMA RevisedDocument ==
    ASSUME NEW old, IsDocument(old), NEW affected, NEW blocks \in [affected -> Patches]
    PROVE  LET new == [i \in DOMAIN old |->
                          IF old[i].name \in affected
                          THEN Section(old[i].name, Patched(old[i].text, blocks[old[i].name])) ELSE old[i]]
           IN  /\ IsDocument(new) /\ DOMAIN new = DOMAIN old
               /\ \A i \in DOMAIN old : new[i].name = old[i].name
<1> DEFINE new == [i \in DOMAIN old |->
                          IF old[i].name \in affected
                          THEN Section(old[i].name, Patched(old[i].text, blocks[old[i].name])) ELSE old[i]]
<1>1. Len(old) \in Nat /\ DOMAIN old = 1..Len(old)
  BY DocumentFacts
<1>2. /\ new = [i \in 1..Len(old) |-> new[i]]
      /\ \A i \in 1..Len(old) : new[i] = IF old[i].name \in affected
                                         THEN Section(old[i].name, Patched(old[i].text, blocks[old[i].name]))
                                         ELSE old[i]
  BY <1>1
<1> HIDE DEF new
<1>3. IsSequence(new) /\ DOMAIN new = 1..Len(old)
  BY <1>1, <1>2, FunctionIsSequence
<1>4. ASSUME NEW i \in 1..Len(old)
      PROVE  new[i].name = old[i].name /\ new[i] = Section(new[i].name, new[i].text) /\ IsSequence(new[i].text)
  <2>1. old[i] = Section(old[i].name, old[i].text) /\ IsSequence(old[i].text)
    BY <1>1 DEF IsDocument
  <2>2. CASE old[i].name \in affected
    <3>1. blocks[old[i].name] \in Patches
      BY <2>2
    <3>2. IsSequence(Patched(old[i].text, blocks[old[i].name]))
      BY <2>1, <3>1, PatchedIsSequence
    <3>3. new[i] = Section(old[i].name, Patched(old[i].text, blocks[old[i].name]))
      BY <1>2, <2>2
    <3> QED
      BY <3>2, <3>3, SectionFields
  <2>3. CASE old[i].name \notin affected
    BY <1>2, <2>1, <2>3
  <2> QED
    BY <2>2, <2>3
<1>5. IsDocument(new)
  <2>1. \A i, j \in DOMAIN new : new[i].name = new[j].name => i = j
    BY <1>1, <1>3, <1>4 DEF IsDocument
  <2> QED
    BY <1>3, <1>4, <2>1 DEF IsDocument
<1> QED
  BY <1>1, <1>3, <1>4, <1>5 DEF new

LEMMA NotEmptyLength == ASSUME NEW s, IsSequence(s) PROVE (s # <<>>) <=> Len(s) > 0
<1>1. Len(s) \in Nat /\ s \in Seq(ToSet(s))
  BY SequenceFacts DEF IsSequence
<1> QED
  BY <1>1, EmptySeq

-----------------------------------------------------------------------------
(* The rounds of a document.                                               *)

(* The records of the version and of the draft are those of a ledger, and  *)
(* the gate has let the version pass with its records.                     *)
SoundRecords(calcs) == IsFiniteSet(calcs) /\ LedgerIsValid(calcs)

RecordsInv ==
    /\ DOMAIN version = VersionFields /\ SoundRecords(version.calcs)
    /\ Calculations(version.doc, version.calcs) = {}
    /\ DOMAIN draft = {"doc", "ledger", "claims", "calcs"} /\ SoundRecords(draft.calcs)

LEMMA EmptyIsSound == DOMAIN Empty = {"doc", "ledger", "claims", "calcs"} /\ SoundRecords(Empty.calcs)
  BY FS_EmptySet DEF Empty, SoundRecords, LedgerIsValid, DistinctIds, Ids

(* What is recorded for a section leaves a ledger.                         *)
LEMMA UpsertIsSound ==
    ASSUME NEW calcs, SoundRecords(calcs), NEW n, NEW b \in Batches, CanUpsert(calcs, n, b)
    PROVE  SoundRecords(Upserted(calcs, b))
<1>1. IsFiniteSet(Kept(calcs, b))
  BY FS_Subset DEF Kept, SoundRecords
<1>2. IsFiniteSet(Kept(calcs, b) \cup b)
  BY <1>1, FS_Union, RoundsAssumption DEF RoundsAssumption
<1> QED
  BY <1>2 DEF CanUpsert, Upserted, SoundRecords

LEMMA GatePasses ==
    ASSUME NEW doc, NEW from, NEW ledger, NEW calcs, RunAll(doc, from, ledger, calcs) = {}
    PROVE  Calculations(doc, calcs) = {}
  BY DEF RunAll

LEMMA InitRecords == InitRounds => RecordsInv
<1> SUFFICES ASSUME InitRounds PROVE RecordsInv
  OBVIOUS
<1>1. version \in FirstVersions /\ draft = Empty
  BY DEF InitRounds
<1> QED
  BY <1>1, EmptyIsSound, RoundsAssumption DEF RoundsAssumption, RecordsInv, SoundRecords

(* A run that ends drops its draft.                                        *)
LEMMA EndKeepsRecords == ASSUME RecordsInv, EndRun, UNCHANGED version PROVE RecordsInv'
  BY EmptyIsSound DEF RecordsInv, EndRun

(* A draft that keeps its records, or has some recorded, is sound.         *)
LEMMA DraftKeepsRecords ==
    ASSUME RecordsInv, UNCHANGED version, DOMAIN draft' = DOMAIN draft,
           \/ draft'.calcs = draft.calcs
           \/ \E n : \E b \in Batches : CanUpsert(draft.calcs, n, b) /\ draft'.calcs = Upserted(draft.calcs, b)
    PROVE  RecordsInv'
  BY UpsertIsSound DEF RecordsInv

LEMMA NextRecords == RecordsInv /\ [NextRounds]_roundVars => RecordsInv'
<1> SUFFICES ASSUME RecordsInv, [NextRounds]_roundVars PROVE RecordsInv'
  OBVIOUS
<1>0. "doc" \in DOMAIN draft /\ "ledger" \in DOMAIN draft /\ "claims" \in DOMAIN draft /\ "calcs" \in DOMAIN draft
  BY DEF RecordsInv
<1>1. ASSUME NEW r \in Requests, Continue(r) PROVE RecordsInv'
  <2>1. /\ version' = version
        /\ draft' = [Empty EXCEPT !.ledger = FromReferences(Registry(version.doc))]
    BY <1>1 DEF Continue
  <2>2. DOMAIN draft' = DOMAIN Empty /\ draft'.calcs = Empty.calcs
    BY <2>1 DEF Empty
  <2> QED
    BY <2>1, <2>2, EmptyIsSound DEF RecordsInv
<1>2. ASSUME NEW q \in DOMAIN pool.workers, SearchWeb(q) PROVE RecordsInv'
  BY <1>2 DEF SearchWeb, RecordsInv
<1>3. ASSUME NEW a \in Curations, NEW m \in BOOLEAN, Curate(a, m) PROVE RecordsInv'
  <2>1. version' = version
    BY <1>3 DEF Curate
  <2>2. DOMAIN draft' = DOMAIN draft /\ draft'.calcs = draft.calcs
    BY <1>0, <1>3 DEF Curate
  <2> QED
    BY <2>1, <2>2, DraftKeepsRecords
<1>4. ASSUME NEW p \in WriterPlans, NEW o \in Outputs, Merge(p, o) PROVE RecordsInv'
  <2>1. version' = version
    BY <1>4 DEF Merge
  <2>2. DOMAIN draft' = DOMAIN draft /\ draft'.calcs = draft.calcs
    BY <1>0, <1>4 DEF Merge
  <2> QED
    BY <2>1, <2>2, DraftKeepsRecords
<1>5. ASSUME NEW t \in DraftTexts, NEW b \in Batches, DraftSection(t, b) PROVE RecordsInv'
  <2>1. version' = version
    BY <1>5 DEF DraftSection
  <2>2. CASE CanUpsert(draft.calcs, version.doc[turn.section].name, b)
    <3>1. DOMAIN draft' = DOMAIN draft /\ draft'.calcs = Upserted(draft.calcs, b)
      BY <1>0, <1>5, <2>2 DEF DraftSection
    <3> QED
      BY <2>1, <2>2, <3>1, DraftKeepsRecords
  <2>3. CASE ~CanUpsert(draft.calcs, version.doc[turn.section].name, b)
    BY <1>5, <2>1, <2>3, EndKeepsRecords DEF DraftSection
  <2> QED
    BY <2>2, <2>3
<1>6. ASSUME Assemble PROVE RecordsInv'
  <2>1. version' = version
    BY <1>6 DEF Assemble
  <2>2. EndRun \/ (DOMAIN draft' = DOMAIN draft /\ draft'.calcs = draft.calcs)
    BY <1>0, <1>6 DEF Assemble
  <2> QED
    BY <2>1, <2>2, DraftKeepsRecords, EndKeepsRecords
<1>7. ASSUME NEW a \in [Consulted -> Answers], Review(a) PROVE RecordsInv'
  <2>1. version' = version /\ (EndRun \/ draft' = draft)
    BY <1>7 DEF Review
  <2> QED
    BY <2>1, DraftKeepsRecords, EndKeepsRecords
<1>8. ASSUME NEW p \in Patches, NEW b \in Batches, PatchDraft(p, b) PROVE RecordsInv'
  <2>1. version' = version /\ CanUpsert(draft.calcs, Here, b)
    BY <1>8 DEF PatchDraft
  <2>2. DOMAIN draft' = DOMAIN draft /\ draft'.calcs = Upserted(draft.calcs, b)
    BY <1>0, <1>8 DEF PatchDraft
  <2> QED
    BY <2>1, <2>2, DraftKeepsRecords
<1>9. ASSUME NEW t \in DraftTexts, NEW b \in Batches, RewriteDraft(t, b) PROVE RecordsInv'
  <2>1. version' = version
    BY <1>9 DEF RewriteDraft
  <2>2. CASE CanUpsert(draft.calcs, Here, b)
    <3>1. DOMAIN draft' = DOMAIN draft /\ draft'.calcs = Upserted(draft.calcs, b)
      BY <1>0, <1>9, <2>2 DEF RewriteDraft
    <3> QED
      BY <2>1, <2>2, <3>1, DraftKeepsRecords
  <2>3. CASE ~CanUpsert(draft.calcs, Here, b)
    BY <1>9, <2>1, <2>3, EndKeepsRecords DEF RewriteDraft
  <2> QED
    BY <2>2, <2>3
<1>10. CASE Verified
  BY <1>10 DEF Verified, RecordsInv
<1>11. ASSUME NEW t \in DraftTexts, NEW b \in Batches, Correct(t, b) PROVE RecordsInv'
  <2>1. version' = version
    BY <1>11 DEF Correct
  <2>2. /\ DOMAIN draft' = DOMAIN draft
        /\ draft'.calcs = IF CanUpsert(draft.calcs, Here, b) THEN Upserted(draft.calcs, b) ELSE draft.calcs
    BY <1>0, <1>11 DEF Correct
  <2> QED
    BY <2>1, <2>2, DraftKeepsRecords
<1>12. CASE GiveUp
  BY <1>12, EndKeepsRecords DEF GiveUp
<1>13. CASE Gate
  <2>1. CASE DraftIssues = {}
    <3>1. version' = Published /\ EndRun
      BY <1>13, <2>1 DEF Gate
    <3>2. DOMAIN Published = VersionFields /\ Published.doc = draft.doc /\ Published.calcs = draft.calcs
      BY DEF Published, VersionFields
    <3>3. Calculations(draft.doc, draft.calcs) = {}
      BY <2>1, GatePasses DEF DraftIssues
    <3> QED
      BY <3>1, <3>2, <3>3, EmptyIsSound DEF RecordsInv, EndRun
  <2>2. CASE DraftIssues # {}
    BY <1>13, <2>2, EndKeepsRecords DEF Gate
  <2> QED
    BY <2>1, <2>2
<1>14. ASSUME NEW r \in RevisionRequests, NEW a \in [Consulted -> Answers], Revise(r, a) PROVE RecordsInv'
  <2>1. PICK affected, blocks : ReviseVersion(affected, blocks, a)
    BY <1>14 DEF Revise
  <2> DEFINE old == TextContext(version.doc)
             new == [i \in DOMAIN old |->
                       IF old[i].name \in affected
                       THEN Section(old[i].name, Patched(old[i].text, blocks[old[i].name])) ELSE old[i]]
  <2>2. /\ EndRun
        /\ \/ version' = version
           \/ version' = [version EXCEPT !.doc = new] /\ RunAll(new, Extract(old), version.ledger, version.calcs) = {}
    BY <2>1 DEF ReviseVersion
  <2> HIDE DEF old, new
  <2>3. CASE version' = [version EXCEPT !.doc = new] /\ RunAll(new, Extract(old), version.ledger, version.calcs) = {}
    <3>1. DOMAIN version' = VersionFields /\ version'.doc = new /\ version'.calcs = version.calcs
      BY <2>3 DEF RecordsInv, VersionFields
    <3>2. Calculations(new, version.calcs) = {}
      BY <2>3, GatePasses
    <3> QED
      BY <2>2, <3>1, <3>2, EmptyIsSound DEF RecordsInv, EndRun
  <2> QED
    BY <2>2, <2>3, EndKeepsRecords
<1>15. CASE UNCHANGED roundVars
  BY <1>15 DEF roundVars, RecordsInv
<1> QED
  BY <1>1, <1>2, <1>3, <1>4, <1>5, <1>6, <1>7, <1>8, <1>9, <1>10, <1>11, <1>12, <1>13, <1>14, <1>15
     DEF NextRounds

(* A gate without issues means that every result shown is that of a record *)
(* the audit evaluated.                                                    *)
LEMMA RecordsShow == RecordsInv => ShownResultsHold
<1> SUFFICES ASSUME RecordsInv, NEW s \in ToSet(version.doc), NEW m \in MarksIn(s.text, "calc")
             PROVE  \E e \in Grounded(version.calcs) : e.id = m[2] /\ e.value = m[3]
  BY DEF ShownResultsHold
<1> DEFINE done == Evaluated(version.calcs)
           shown(l) == \A k \in Found(l, "calc") : \E e \in done : e.id = k[2] /\ e.value = k[3]
           flawed == {i \in DOMAIN version.doc : \E l \in ToSet(version.doc[i].text) : ~shown(l)}
           names == {version.doc[i].name : i \in flawed}
<1>1. flawed = {}
  <2>1. Calculations(version.doc, version.calcs) = {}
    BY DEF RecordsInv
  <2>2. {<<"calculation", n>> : n \in names} \subseteq Calculations(version.doc, version.calcs)
    BY DEF Calculations, Issues, SectionsWith
  <2> QED
    BY <2>1, <2>2
<1>2. PICK i \in DOMAIN version.doc : s = version.doc[i]
  BY DEF ToSet
<1>3. PICK l \in ToSet(s.text) : m \in Found(l, "calc")
  BY DEF MarksIn
<1>4. shown(l)
  BY <1>1, <1>2
<1>5. done = Grounded(version.calcs)
  BY AuditIsExact DEF RecordsInv, SoundRecords
<1> QED
  BY <1>3, <1>4, <1>5

(* A version shows no result that does not follow from its inputs, for any *)
(* documents, records, patches and number of rounds.                       *)
THEOREM ShownResultsAlwaysHold == RoundsSpec => []ShownResultsHold
<1> QED
  BY InitRecords, NextRecords, RecordsShow, PTL DEF RoundsSpec

-----------------------------------------------------------------------------
(* The artifact of a document.                                             *)

(* The cue that counts most, the first one on a tie, exists.               *)
IsBest(i, cued, text) ==
    i \in cued /\ \A j \in cued : text[CueOrder[j]] < text[CueOrder[i]]
                                 \/ (text[CueOrder[j]] = text[CueOrder[i]] /\ i <= j)

LEMMA BestCueExists ==
    ASSUME NEW text, \A id \in DOMAIN text : text[id] \in Nat, Cued(text) # {}
    PROVE  \E i \in Cued(text) : IsBest(i, Cued(text), text)
<1> DEFINE cues(i) == text[CueOrder[i]]
           N == Len(CueOrder)
           upto(n) == {i \in Cued(text) : i <= n}
           Missing == {n \in 0..N : upto(n) # {} /\ ~\E i \in upto(n) : IsBest(i, upto(n), text)}
<1>1. N \in Nat /\ Cued(text) \subseteq 1..N /\ \A i \in Cued(text) : cues(i) \in Nat
  BY RoundsAssumption DEF RoundsAssumption, Cued
<1>2. ASSUME Missing # {} PROVE FALSE
  <2>1. Missing \in SUBSET Nat
    BY <1>1
  <2>2. PICK n \in Missing : \A m \in Missing : n <= m
    BY <1>2, <2>1, LeastNatural
  <2>3. n \in 1..N /\ n - 1 \in 0..N /\ n - 1 \notin Missing
    <3>1. n \in 0..N /\ upto(n) # {}
      BY <2>2
    <3>2. n # 0
      BY <1>1, <3>1
    <3>3. n - 1 \in 0..N /\ ~(n <= n - 1)
      BY <1>1, <3>1, <3>2
    <3> HIDE DEF Missing, upto
    <3> QED
      BY <1>1, <2>2, <3>1, <3>2, <3>3
  <2>4. CASE n \notin Cued(text)
    <3>1. upto(n) = upto(n - 1)
      BY <1>1, <2>3, <2>4
    <3> QED
      BY <2>2, <2>3, <3>1
  <2>5. CASE n \in Cued(text)
    <3>1. upto(n) = upto(n - 1) \cup {n} /\ \A j \in upto(n - 1) : j < n /\ j \in 1..N
      BY <1>1, <2>3, <2>5
    <3>2. CASE upto(n - 1) = {}
      <4>1. IsBest(n, upto(n), text)
        BY <2>3, <3>1, <3>2 DEF IsBest
      <4> QED
        BY <2>2, <3>1, <4>1
    <3>3. CASE upto(n - 1) # {}
      <4>1. PICK b \in upto(n - 1) : IsBest(b, upto(n - 1), text)
        BY <2>3, <3>3
      <4>2. b \in Cued(text) /\ cues(b) \in Nat /\ cues(n) \in Nat /\ b < n /\ b \in 1..N
        BY <1>1, <2>5, <3>1, <4>1
      <4>3. ASSUME NEW j \in upto(n - 1)
            PROVE  cues(j) \in Nat /\ (cues(j) < cues(b) \/ (cues(j) = cues(b) /\ b <= j))
        BY <1>1, <4>1, <4>3 DEF IsBest
      <4>4. CASE cues(b) < cues(n)
        <5>1. ASSUME NEW j \in upto(n)
              PROVE  cues(j) < cues(n) \/ (cues(j) = cues(n) /\ n <= j)
          <6>1. CASE j = n
            BY <2>3, <6>1
          <6>2. CASE j \in upto(n - 1)
            <7>1. cues(j) \in Nat /\ (cues(j) < cues(b) \/ cues(j) = cues(b))
              BY <4>3, <6>2
            <7> HIDE DEF cues
            <7> QED
              BY <4>2, <4>4, <7>1
          <6> QED
            BY <3>1, <6>1, <6>2
        <5>2. IsBest(n, upto(n), text)
          BY <3>1, <5>1 DEF IsBest
        <5> QED
          BY <2>2, <3>1, <5>2
      <4>5. CASE ~(cues(b) < cues(n))
        <5>1. ASSUME NEW j \in upto(n)
              PROVE  cues(j) < cues(b) \/ (cues(j) = cues(b) /\ b <= j)
          <6>1. CASE j = n
            <7> HIDE DEF cues
            <7> QED
              BY <2>3, <4>2, <4>5, <6>1
          <6>2. CASE j \in upto(n - 1)
            BY <4>3, <6>2
          <6> QED
            BY <3>1, <6>1, <6>2
        <5>2. b \in upto(n) /\ IsBest(b, upto(n), text)
          BY <3>1, <5>1 DEF IsBest
        <5> QED
          BY <2>2, <5>2
      <4> QED
        BY <4>4, <4>5
    <3> QED
      BY <3>2, <3>3
  <2> QED
    BY <2>4, <2>5
<1>3. upto(N) = Cued(text) /\ N \in 0..N
  BY <1>1
<1> QED
  BY <1>2, <1>3

(* What a text selects by its cues is one of the ids it has cues of.       *)
LEMMA SelectedIsCued ==
    ASSUME NEW text, \A id \in DOMAIN text : text[id] \in Nat, SelectManifest(text).matched > 0
    PROVE  SelectManifest(text).id \in DOMAIN text
<1> DEFINE cued == Cued(text)
           best == CHOOSE i \in cued : IsBest(i, cued, text)
<1>1. cued # {}
  BY DEF SelectManifest, Selection
<1>2. best \in cued
  BY <1>1, BestCueExists
<1>3. SelectManifest(text).id = CueOrder[best]
  BY <1>1 DEF SelectManifest, Selection, IsBest
<1> QED
  BY <1>2, <1>3 DEF Cued

(* What a contract says the artifact is: nothing, what the request asked   *)
(* for by an override or by its wording, or what the previous version was. *)
LEMMA ContractNames ==
    ASSUME NEW override, NEW text, \A id \in DOMAIN text : text[id] \in Nat, NEW metadata, NEW mode,
           metadata.previous \in ManifestIds
    PROVE  ContractFor(override, text, metadata, mode).artifact
              \in {NoArtifact, override, metadata.previous} \cup DOMAIN text
<1> DEFINE e == ResolveArtifact(override, text, metadata.previous, metadata.hints)
<1>1. e.id \in {override, metadata.previous} \cup DOMAIN text
  BY SelectedIsCued DEF ResolveArtifact, Selection
<1>2. Compile(e.id, mode, Preserved(e)).artifact = e.id
  BY DEF Compile
<1> HIDE DEF e
<1>3. NoContract.artifact = NoArtifact
  BY DEF NoContract
<1> QED
  BY <1>1, <1>2, <1>3 DEF ContractFor, e

(* While a run is at work its contract is the one of its request and of    *)
(* the version it continues.                                               *)
ContractInv ==
    /\ version.uploaded => version.artifact = NoArtifact
    /\ stage # "ready" =>
          /\ request \in Requests
          /\ contract = ContractFor(request.artifact, request.text, SourceMetadata(version), request.mode)

LEMMA InitContract == InitRounds => ContractInv
  BY RoundsAssumption DEF RoundsAssumption, InitRounds, ContractInv

(* The steps of a run that neither begin nor publish it.                   *)
LEMMA RunKeepsContract ==
    ASSUME ContractInv, UNCHANGED version, EndRun \/ (stage # "ready" /\ UNCHANGED <<request, contract>>)
    PROVE  ContractInv'
<1>1. CASE EndRun
  BY <1>1 DEF ContractInv, EndRun
<1>2. CASE stage # "ready" /\ UNCHANGED <<request, contract>>
  BY <1>2 DEF ContractInv, SourceMetadata
<1> QED
  BY <1>1, <1>2

LEMMA NextContract == RecordsInv /\ ContractInv /\ [NextRounds]_roundVars => ContractInv'
<1> SUFFICES ASSUME RecordsInv, ContractInv, [NextRounds]_roundVars PROVE ContractInv'
  OBVIOUS
<1>1. ASSUME NEW r \in Requests, Continue(r) PROVE ContractInv'
  BY <1>1 DEF Continue, ContractInv, SourceMetadata
<1>2. ASSUME NEW q \in DOMAIN pool.workers, SearchWeb(q) PROVE ContractInv'
  BY <1>2, RunKeepsContract DEF SearchWeb
<1>3. ASSUME NEW a \in Curations, NEW m \in BOOLEAN, Curate(a, m) PROVE ContractInv'
  BY <1>3, RunKeepsContract DEF Curate
<1>4. ASSUME NEW p \in WriterPlans, NEW o \in Outputs, Merge(p, o) PROVE ContractInv'
  BY <1>4, RunKeepsContract DEF Merge
<1>5. ASSUME NEW t \in DraftTexts, NEW b \in Batches, DraftSection(t, b) PROVE ContractInv'
  BY <1>5, RunKeepsContract DEF DraftSection
<1>6. CASE Assemble
  BY <1>6, RunKeepsContract DEF Assemble
<1>7. ASSUME NEW a \in [Consulted -> Answers], Review(a) PROVE ContractInv'
  BY <1>7, RunKeepsContract DEF Review
<1>8. ASSUME NEW p \in Patches, NEW b \in Batches, PatchDraft(p, b) PROVE ContractInv'
  BY <1>8, RunKeepsContract DEF PatchDraft
<1>9. ASSUME NEW t \in DraftTexts, NEW b \in Batches, RewriteDraft(t, b) PROVE ContractInv'
  BY <1>9, RunKeepsContract DEF RewriteDraft
<1>10. CASE Verified
  BY <1>10, RunKeepsContract DEF Verified
<1>11. ASSUME NEW t \in DraftTexts, NEW b \in Batches, Correct(t, b) PROVE ContractInv'
  BY <1>11, RunKeepsContract DEF Correct
<1>12. CASE GiveUp
  BY <1>12, RunKeepsContract DEF GiveUp
<1>13. CASE Gate
  <2>1. CASE version' = Published
    BY <1>13, <2>1 DEF Gate, EndRun, Published, ContractInv
  <2>2. CASE version' = version
    BY <1>13, <2>2, RunKeepsContract DEF Gate
  <2> QED
    BY <1>13, <2>1, <2>2 DEF Gate
<1>14. ASSUME NEW r \in RevisionRequests, NEW a \in [Consulted -> Answers], Revise(r, a) PROVE ContractInv'
  <2>1. EndRun /\ (version' = version \/ \E new : version' = [version EXCEPT !.doc = new])
    BY <1>14 DEF Revise, ReviseVersion
  <2>2. version'.uploaded = version.uploaded /\ version'.artifact = version.artifact
    BY <2>1 DEF RecordsInv, VersionFields
  <2> QED
    BY <2>1, <2>2 DEF ContractInv, EndRun
<1>15. CASE UNCHANGED roundVars
  BY <1>15 DEF roundVars, ContractInv, SourceMetadata
<1> QED
  BY <1>1, <1>2, <1>3, <1>4, <1>5, <1>6, <1>7, <1>8, <1>9, <1>10, <1>11, <1>12, <1>13, <1>14, <1>15
     DEF NextRounds

(* A new version is another artifact than the one before only if the       *)
(* request of its run says so.                                             *)
LEMMA StepInherits ==
    ASSUME RecordsInv, ContractInv, NextRounds, version.artifact \in ManifestIds
    PROVE  version'.artifact \in {version.artifact, NoArtifact, request.artifact} \cup DOMAIN request.text
<1>1. CASE Gate
  <2>1. CASE version' = Published
    <3>1. version'.artifact = contract.artifact /\ stage # "ready"
      BY <1>1, <2>1 DEF Gate, Published
    <3>2. /\ request \in Requests
          /\ contract = ContractFor(request.artifact, request.text, SourceMetadata(version), request.mode)
      BY <3>1 DEF ContractInv
    <3>3. SourceMetadata(version).previous = version.artifact
      BY DEF SourceMetadata, ContractInv
    <3>4. \A id \in DOMAIN request.text : request.text[id] \in Nat
      BY <3>2, RoundsAssumption DEF RoundsAssumption
    <3> QED
      BY <3>1, <3>2, <3>3, <3>4, ContractNames
  <2> QED
    BY <1>1, <2>1 DEF Gate
<1>2. ASSUME NEW r \in RevisionRequests, NEW a \in [Consulted -> Answers], Revise(r, a)
      PROVE  version'.artifact = version.artifact
  <2>1. version' = version \/ \E new : version' = [version EXCEPT !.doc = new]
    BY <1>2 DEF Revise, ReviseVersion
  <2> QED
    BY <2>1 DEF RecordsInv, VersionFields
<1>3. CASE version' = version
  BY <1>3
<1> QED
  BY <1>1, <1>2, <1>3 DEF NextRounds, Continue, SearchWeb, Curate, Merge, DraftSection, Assemble, Review,
     PatchDraft, RewriteDraft, Verified, Correct, GiveUp

(* A document stays the kind of artifact it is unless a request says       *)
(* otherwise, for any manifests, cues and requests.                        *)
THEOREM ArtifactIsAlwaysInherited == RoundsSpec => ArtifactIsInherited
<1>1. RecordsInv /\ ContractInv /\ [NextRounds]_roundVars
      => [\/ version.artifact \notin ManifestIds
          \/ version'.artifact \in {version.artifact, NoArtifact, request.artifact}
                                    \cup DOMAIN request.text]_version
  BY StepInherits DEF roundVars
<1> QED
  BY <1>1, InitRecords, NextRecords, InitContract, NextContract, PTL DEF RoundsSpec, ArtifactIsInherited

-----------------------------------------------------------------------------
(* The claims of a run.                                                    *)

(* While the web is searched, the ledger has the references of the source  *)
(* alone, and these have no address.                                       *)
ResearchInv ==
    stage = "researching" => \A i \in DOMAIN draft.ledger : draft.ledger[i].url = ""

LEMMA InitResearch == InitRounds => ResearchInv
  BY DEF InitRounds, ResearchInv

LEMMA ReferencesHaveNoAddress ==
    ASSUME NEW registry, NEW i \in DOMAIN FromReferences(registry)
    PROVE  FromReferences(registry)[i].url = ""
<1>1. i \in DOMAIN registry
  BY DEF FromReferences
<1>2. FromReferences(registry)[i] = [title |-> registry[i].key, url |-> ""]
  BY <1>1 DEF FromReferences
<1>3. ASSUME NEW address PROVE [title |-> registry[i].key, url |-> address].url = address
  OBVIOUS
<1> QED
  BY <1>2, <1>3, Zenon

LEMMA NextResearch == ResearchInv /\ [NextRounds]_roundVars => ResearchInv'
<1> SUFFICES ASSUME ResearchInv, [NextRounds]_roundVars PROVE ResearchInv'
  OBVIOUS
<1>1. ASSUME NEW r \in Requests, Continue(r) PROVE ResearchInv'
  <2>1. draft' = [Empty EXCEPT !.ledger = FromReferences(Registry(version.doc))]
    BY <1>1 DEF Continue
  <2>2. draft'.ledger = FromReferences(Registry(version.doc))
    BY <2>1 DEF Empty
  <2> QED
    BY <2>2, ReferencesHaveNoAddress DEF ResearchInv
<1>2. ASSUME NEW q \in DOMAIN pool.workers, SearchWeb(q) PROVE ResearchInv'
  BY <1>2 DEF SearchWeb, ResearchInv
<1>3. CASE stage' # "researching"
  BY <1>3 DEF ResearchInv
<1>4. CASE UNCHANGED roundVars
  BY <1>4 DEF roundVars, ResearchInv
<1>5. ASSUME stage' = "researching" PROVE \/ \E r \in Requests : Continue(r)
                                          \/ \E q \in DOMAIN pool.workers : SearchWeb(q)
                                          \/ UNCHANGED roundVars
  BY <1>5 DEF NextRounds, Curate, Merge, DraftSection, Assemble, Review, PatchDraft, RewriteDraft,
     Verified, Correct, GiveUp, Gate, Revise, ReviseVersion, EndRun, Advance
<1> QED
  BY <1>1, <1>2, <1>3, <1>4, <1>5

(* Nothing is registered of a curation without cards.                      *)
LEMMA NoCardsNoChange == ASSUME NEW ledger PROVE FoldLeft(Registered, ledger, <<>>) = ledger
<1> DEFINE none == DOMAIN <<>>
           step(f) == [s \in SUBSET none |->
                         IF s = {} THEN ledger ELSE Registered(f[s \ {Max(s)}], <<>>[Max(s)])]
           iter == CHOOSE f : f = step(f)
<1>1. FoldLeft(Registered, ledger, <<>>) = iter[none]
  BY DEF FoldLeft, MapThenFoldSet
<1>2. none = {}
  OBVIOUS
<1>3. ASSUME NEW f PROVE step(f) = [s \in SUBSET none |-> ledger]
  <2>1. \A s \in SUBSET none : s = {}
    BY <1>2
  <2> HIDE DEF none
  <2> QED
    BY <2>1
<1> DEFINE all == [s \in SUBSET none |-> ledger]
<1> HIDE DEF none, step
<1>4. \A f : f = step(f) <=> f = all
  BY <1>3 DEF none
<1> HIDE DEF all
<1>5. iter = all
  BY <1>4
<1>6. all[none] = ledger
  BY DEF all
<1> QED
  BY <1>1, <1>5, <1>6

(* A claim that counts as supported has sources, each with an address that *)
(* the curation names for it.                                              *)
LEMMA ClaimsNameTheirSources ==
    ASSUME NEW ledger, NEW curation, NEW c \in Claimed(ledger, curation), c.status = "supported"
    PROVE  /\ c.sources # {}
           /\ \E i \in DOMAIN curation.claims : \A n \in c.sources :
                 /\ n \in DOMAIN ledger /\ ledger[n].url # ""
                 /\ ledger[n].url \in curation.claims[i].urls
<1> DEFINE last == {n \in DOMAIN ledger : \A j \in DOMAIN ledger : ledger[j].url = ledger[n].url => j <= n}
           sources(d) == {n \in last : ledger[n].url \in d.urls \ {""}}
<1>1. PICK d \in ToSet(curation.claims) :
         c = [sources |-> sources(d),
              status  |-> IF sources(d) # {} /\ d.status \in Statuses THEN d.status ELSE "unsupported"]
  BY DEF Claimed
<1>2. sources(d) # {} /\ c.sources = sources(d)
  BY <1>1
<1>3. PICK i \in DOMAIN curation.claims : d = curation.claims[i]
  BY DEF ToSet
<1>4. \A n \in c.sources : n \in DOMAIN ledger /\ ledger[n].url # "" /\ ledger[n].url \in d.urls
  BY <1>2
<1> QED
  BY <1>2, <1>3, <1>4

(* The claims that a search adds rest on what it found.                    *)
LEMMA CurateFinds ==
    ASSUME ResearchInv, NEW a, NEW m, Curate(a, m), "claims" \in DOMAIN draft, "ledger" \in DOMAIN draft,
           NEW c \in draft'.claims, c \notin draft.claims, c.status = "supported"
    PROVE  /\ c.sources # {}
           /\ \A i \in c.sources : \E w \in Findings : w.url = draft'.ledger[i].url
<1> DEFINE curation == Curated(a, m)
           ledger == WithCards(draft.ledger, curation)
           urls == {w.url : w \in Findings}
<1>1. stage = "researching" /\ draft'.ledger = ledger /\ draft'.claims = Claimed(ledger, curation)
  BY DEF Curate
<1>2. c \in Claimed(ledger, curation)
  BY <1>1
<1>3. c.sources # {}
  BY <1>2, ClaimsNameTheirSources
<1>4. PICK i \in DOMAIN curation.claims : \A n \in c.sources :
         n \in DOMAIN ledger /\ ledger[n].url # "" /\ ledger[n].url \in curation.claims[i].urls
  BY <1>2, ClaimsNameTheirSources
<1>5. ~m /\ Findings # {} /\ curation = Validated(a, Findings)
  <2>1. DOMAIN <<>> = {}
    OBVIOUS
  <2>2. curation.claims # <<>>
    BY <1>4, <2>1
  <2> QED
    BY <2>2 DEF Curated, FromResults, NoCuration
<1>6. CASE a.cards = <<>>
  <2>1. ledger = draft.ledger
    BY <1>5, <1>6, NoCardsNoChange DEF WithCards, Validated
  <2> QED
    BY <1>1, <1>3, <1>4, <2>1 DEF ResearchInv
<1>7. CASE a.cards # <<>>
  <2>1. /\ i \in DOMAIN a.claims
        /\ curation.claims[i].urls = a.claims[i].urls \cap urls
    <3> DEFINE known(d) == d.urls \cap urls
               checked(d) == [urls |-> known(d), status |-> IF d.status = "supported" /\ known(d) = {}
                                                            THEN "unsupported" ELSE d.status]
    <3>1. curation.claims = [j \in DOMAIN a.claims |-> checked(a.claims[j])]
      BY <1>5, <1>7 DEF Validated
    <3> HIDE DEF curation
    <3>2. i \in DOMAIN a.claims /\ curation.claims[i] = checked(a.claims[i])
      BY <1>4, <3>1
    <3> QED
      BY <3>2
  <2> QED
    BY <1>1, <1>3, <1>4, <2>1
<1> QED
  BY <1>6, <1>7

(* No other step adds a claim.                                             *)
LEMMA OthersClaimNothing ==
    ASSUME RecordsInv, NextRounds, ~\E a \in Curations, m \in BOOLEAN : Curate(a, m)
    PROVE  draft'.claims \subseteq draft.claims
<1>0. "doc" \in DOMAIN draft /\ "ledger" \in DOMAIN draft /\ "claims" \in DOMAIN draft /\ "calcs" \in DOMAIN draft
  BY DEF RecordsInv
<1>1. EndRun => draft'.claims = {}
  BY DEF EndRun, Empty
<1>2. ASSUME NEW r \in Requests, Continue(r) PROVE draft'.claims = {}
  BY <1>2 DEF Continue, Empty
<1>3. ASSUME NEW q, SearchWeb(q) PROVE draft' = draft
  BY <1>3 DEF SearchWeb
<1>4. ASSUME NEW p, NEW o, Merge(p, o) PROVE draft'.claims = draft.claims
  BY <1>0, <1>4 DEF Merge
<1>5. ASSUME NEW t, NEW b, DraftSection(t, b) PROVE EndRun \/ draft'.claims = draft.claims
  BY <1>0, <1>5 DEF DraftSection
<1>6. ASSUME Assemble PROVE EndRun \/ draft'.claims = draft.claims
  BY <1>0, <1>6 DEF Assemble
<1>7. ASSUME NEW a, Review(a) PROVE EndRun \/ draft' = draft
  BY <1>7 DEF Review
<1>8. ASSUME NEW p, NEW b, PatchDraft(p, b) PROVE draft'.claims = draft.claims
  BY <1>0, <1>8 DEF PatchDraft
<1>9. ASSUME NEW t, NEW b, RewriteDraft(t, b) PROVE EndRun \/ draft'.claims = draft.claims
  BY <1>0, <1>9 DEF RewriteDraft
<1>10. Verified => draft' = draft
  BY DEF Verified
<1>11. ASSUME NEW t, NEW b, Correct(t, b) PROVE draft'.claims = draft.claims
  BY <1>0, <1>11 DEF Correct
<1>12. GiveUp \/ Gate => EndRun
  BY DEF GiveUp, Gate
<1>13. ASSUME NEW r, NEW a, Revise(r, a) PROVE EndRun
  BY <1>13 DEF Revise, ReviseVersion
<1> QED
  BY <1>1, <1>2, <1>3, <1>4, <1>5, <1>6, <1>7, <1>8, <1>9, <1>10, <1>11, <1>12, <1>13 DEF NextRounds

LEMMA StepFinds ==
    ASSUME RecordsInv, ResearchInv, NextRounds, NEW c \in draft'.claims \ draft.claims, c.status = "supported"
    PROVE  /\ c.sources # {}
           /\ \A i \in c.sources : \E w \in Findings : w.url = draft'.ledger[i].url
<1>1. PICK a \in Curations, m \in BOOLEAN : Curate(a, m)
  BY OthersClaimNothing
<1>2. "claims" \in DOMAIN draft /\ "ledger" \in DOMAIN draft
  BY DEF RecordsInv
<1> QED
  BY <1>1, <1>2, CurateFinds

(* A supported claim rests on pages that a search found, for any number of *)
(* queries and threads and whatever the services answer.                   *)
THEOREM SupportedIsAlwaysFound == RoundsSpec => SupportedIsFound
<1>1. RecordsInv /\ ResearchInv /\ [NextRounds]_roundVars
      => [\A c \in draft'.claims \ draft.claims : c.status = "supported" =>
             /\ c.sources # {}
             /\ \A i \in c.sources : \E w \in Findings : w.url = draft'.ledger[i].url]_draft
  BY StepFinds DEF roundVars
<1> QED
  BY <1>1, InitRecords, NextRecords, InitResearch, NextResearch, PTL DEF RoundsSpec, SupportedIsFound

-----------------------------------------------------------------------------
(* What merging, assembling and revising keep of a document.               *)

(* Versions and drafts are documents, and a version is not empty.          *)
DocumentsInv ==
    /\ IsDocument(version.doc) /\ version.doc # <<>> /\ IsDocument(draft.doc)
    /\ IsSequence(plan) /\ tries \in Nat

(* Where a run is: a draft has the first sections of its version under     *)
(* their names; once it is assembled, its last names are last, and the     *)
(* turn stands at one of its sections.                                     *)
PlacesInv ==
    /\ turn = [section |-> turn.section, corrections |-> turn.corrections] /\ turn.section \in Nat \ {0}
    /\ stage \in {"researching", "assembling", "reviewing"} => turn = FirstTurn
    /\ stage = "researching" => draft.doc = <<>>
    /\ stage = "drafting" =>
          /\ turn.section <= Len(version.doc) /\ Len(draft.doc) = turn.section - 1
          /\ \A i \in DOMAIN draft.doc : draft.doc[i].name = version.doc[i].name
    /\ stage \in {"revising", "verifying"} => turn.section <= Len(draft.doc) /\ tries > 0
    /\ stage \in {"reviewing", "revising", "verifying", "gate"} => draft.doc # <<>> /\ Ordered(draft.doc)

(* A merged draft holds what the plan does not replace.                    *)
MergedInv ==
    /\ stage = "assembling" /\ plan # <<>> =>
          \A s \in Unreplaced(version.doc, plan) : Stands(s, draft.doc)
    /\ NothingElseIsLost

DocInv == DocumentsInv /\ PlacesInv /\ MergedInv

(* The invariant holds at first, and every step keeps it.                  *)
LEMMA InitDoc == InitRounds => DocInv
<1> SUFFICES ASSUME InitRounds PROVE DocInv
  OBVIOUS
<1>1. /\ version \in FirstVersions /\ stage = "ready" /\ turn = FirstTurn /\ plan = <<>> /\ draft = Empty /\ tries = 0
  BY DEF InitRounds
<1>2. draft.doc = <<>> /\ turn.section = 1 /\ turn.corrections = 0
  BY <1>1 DEF Empty, FirstTurn
<1>3. IsDocument(version.doc) /\ version.doc # <<>>
  BY <1>1, RoundsAssumption
<1>4. DocumentsInv
  BY <1>1, <1>2, <1>3, EmptyDocument, SmallSequences DEF DocumentsInv
<1>5. PlacesInv
  BY <1>1, <1>2 DEF PlacesInv, FirstTurn
<1>6. MergedInv
  BY <1>1 DEF MergedInv, NothingElseIsLost
<1> QED
  BY <1>4, <1>5, <1>6 DEF DocInv

(* A run that ends leaves a version that is a document.                    *)
LEMMA EndKeepsDoc ==
    ASSUME EndRun, IsDocument(version'.doc), version'.doc # <<>> PROVE DocInv'
<1>1. /\ stage' = "ready" /\ turn' = FirstTurn /\ plan' = <<>> /\ draft' = Empty /\ tries' = 0
  BY DEF EndRun
<1>2. draft'.doc = <<>> /\ turn'.section = 1 /\ turn'.corrections = 0
  BY <1>1 DEF Empty, FirstTurn
<1>4. DocumentsInv'
  BY <1>1, <1>2, EmptyDocument, SmallSequences DEF DocumentsInv
<1>5. PlacesInv'
  BY <1>1, <1>2 DEF PlacesInv, FirstTurn
<1>6. MergedInv'
  BY <1>1 DEF MergedInv, NothingElseIsLost
<1> QED
  BY <1>4, <1>5, <1>6 DEF DocInv

LEMMA EndedRun == ASSUME DocInv, EndRun, UNCHANGED version PROVE DocInv'
  BY EndKeepsDoc DEF DocInv, DocumentsInv

LEMMA ContinueDoc == ASSUME DocInv, NEW r \in Requests, Continue(r) PROVE DocInv'
<1>1. /\ version' = version /\ tries' = 0 /\ turn' = FirstTurn
      /\ plan' = DefaultPlan(Intent(r.override, r.groups, version.doc), Terminals(version.doc))
      /\ draft' = [Empty EXCEPT !.ledger = FromReferences(Registry(version.doc))]
      /\ stage' \in {"researching", "drafting"}
  BY DEF Continue
<1>2. draft'.doc = <<>> /\ turn'.section = 1 /\ turn'.corrections = 0
  BY <1>1 DEF Empty, FirstTurn
<1>3. IsSequence(plan')
  BY <1>1, IntentIsKnown, DefaultPlanIsSequence, RoundsAssumption
<1>4. DocumentsInv'
  BY <1>1, <1>2, <1>3, EmptyDocument DEF DocInv, DocumentsInv
<1>5. Len(version.doc) \in Nat /\ Len(version.doc) > 0 /\ Len(<<>>) = 0 /\ DOMAIN draft'.doc = {}
  BY <1>2, DocumentFacts, NotEmptyLength DEF DocInv, DocumentsInv, IsDocument
<1>6. PlacesInv'
  BY <1>1, <1>2, <1>5 DEF PlacesInv, FirstTurn
<1>7. MergedInv'
  BY <1>1 DEF MergedInv, NothingElseIsLost
<1> QED
  BY <1>4, <1>6, <1>7 DEF DocInv

LEMMA CurateDoc ==
    ASSUME DocInv, RecordsInv, NEW a \in Curations, NEW m \in BOOLEAN, Curate(a, m) PROVE DocInv'
<1>1. /\ UNCHANGED <<version, turn, plan, tries>> /\ stage = "researching" /\ stage' = "drafting"
  BY DEF Curate
<1>2. draft'.doc = draft.doc
  <2>1. "doc" \in DOMAIN draft
    BY DEF RecordsInv
  <2> QED
    BY <2>1 DEF Curate
<1>3. draft.doc = <<>> /\ turn = FirstTurn /\ turn.section = 1
  BY <1>1 DEF DocInv, PlacesInv, FirstTurn
<1>4. DocumentsInv'
  BY <1>1, <1>2 DEF DocInv, DocumentsInv
<1>5. Len(version.doc) \in Nat /\ Len(version.doc) > 0 /\ Len(<<>>) = 0 /\ DOMAIN draft'.doc = {}
  BY <1>2, <1>3, DocumentFacts, NotEmptyLength DEF DocInv, DocumentsInv, IsDocument
<1>6. PlacesInv'
  BY <1>1, <1>2, <1>3, <1>5 DEF PlacesInv, FirstTurn, DocInv
<1>7. MergedInv'
  BY <1>1 DEF MergedInv, NothingElseIsLost
<1> QED
  BY <1>4, <1>6, <1>7 DEF DocInv

LEMMA MergeDoc ==
    ASSUME DocInv, RecordsInv, NEW w \in WriterPlans, NEW o \in Outputs, Merge(w, o) PROVE DocInv'
<1> DEFINE p == IF w = <<>> THEN plan ELSE w
<1>1. /\ UNCHANGED <<version, turn, tries>> /\ turn = FirstTurn /\ stage' = "assembling" /\ plan' = p
      /\ draft' = [draft EXCEPT !.doc = Applied(version.doc, p, o)]
      /\ \A i \in DOMAIN p : TargetIsValid(p[i], version.doc, Terminals(version.doc))
  BY DEF Merge, Mergeable
<1>2. draft'.doc = Applied(version.doc, p, o)
  <2>1. "doc" \in DOMAIN draft
    BY DEF RecordsInv
  <2> QED
    BY <1>1, <2>1
<1>3. IsSequence(p) /\ \A role \in DOMAIN o : IsSequence(o[role])
  BY RoundsAssumption DEF DocInv, DocumentsInv
<1> HIDE DEF p
<1>4. /\ IsDocument(draft'.doc)
      /\ \A s \in Unreplaced(version.doc, p) : Stands(s, draft'.doc)
  BY <1>1, <1>2, <1>3, AppliedKeeps DEF DocInv, DocumentsInv
<1>5. DocumentsInv'
  BY <1>1, <1>3, <1>4 DEF DocInv, DocumentsInv
<1>6. PlacesInv'
  BY <1>1 DEF PlacesInv, FirstTurn, DocInv
<1>7. MergedInv'
  BY <1>1, <1>4 DEF MergedInv, NothingElseIsLost
<1> QED
  BY <1>5, <1>6, <1>7 DEF DocInv

LEMMA DraftDoc ==
    ASSUME DocInv, RecordsInv, NEW t \in DraftTexts, NEW b \in Batches, DraftSection(t, b) PROVE DocInv'
<1> DEFINE n == version.doc[turn.section].name
           new == Append(draft.doc, Section(n, t))
<1>1. CASE ~CanUpsert(draft.calcs, n, b)
  BY <1>1, EndedRun DEF DraftSection
<1>2. CASE CanUpsert(draft.calcs, n, b)
  <2>1. /\ stage = "drafting" /\ version' = version /\ tries' = tries /\ plan' = <<>>
        /\ draft' = [draft EXCEPT !.doc = Append(@, Section(n, t)), !.calcs = Upserted(@, b)]
        /\ \/ /\ turn.section < Len(version.doc) /\ stage' = stage
              /\ turn' = [section |-> turn.section + 1, corrections |-> 0]
           \/ turn' = FirstTurn /\ stage' = "assembling"
    BY <1>2 DEF DraftSection, Advance
  <2>2. draft'.doc = new
    <3>1. "doc" \in DOMAIN draft
      BY DEF RecordsInv
    <3> QED
      BY <2>1, <3>1
  <2>3. /\ IsDocument(draft.doc) /\ IsDocument(version.doc)
        /\ turn.section \in Nat \ {0} /\ turn.section <= Len(version.doc) /\ Len(draft.doc) = turn.section - 1
        /\ \A i \in DOMAIN draft.doc : draft.doc[i].name = version.doc[i].name
    BY <2>1 DEF DocInv, DocumentsInv, PlacesInv
  <2>4. /\ Len(draft.doc) \in Nat /\ DOMAIN draft.doc = 1..Len(draft.doc)
        /\ Len(version.doc) \in Nat /\ DOMAIN version.doc = 1..Len(version.doc)
    BY <2>3, DocumentFacts
  <2>5. n \notin NameSet(draft.doc)
    <3>1. SUFFICES ASSUME NEW i \in DOMAIN draft.doc, draft.doc[i].name = n PROVE FALSE
      BY DEF NameSet
    <3>2. i \in DOMAIN version.doc /\ turn.section \in DOMAIN version.doc /\ i # turn.section
      BY <2>3, <2>4
    <3>3. version.doc[i].name = version.doc[turn.section].name
      BY <2>3, <3>1
    <3> QED
      BY <2>3, <3>2, <3>3 DEF IsDocument
  <2>6. IsSequence(t)
    BY RoundsAssumption
  <2> HIDE DEF n
  <2>7. /\ IsDocument(new) /\ Len(new) = Len(draft.doc) + 1 /\ new[Len(draft.doc) + 1] = Section(n, t)
        /\ \A i \in 1..Len(draft.doc) : new[i] = draft.doc[i]
    BY <2>3, <2>5, <2>6, AppendDocument
  <2> HIDE DEF new
  <2>8. DOMAIN new = 1..(Len(draft.doc) + 1)
    BY <2>7, DocumentFacts
  <2>9. DocumentsInv'
    BY <2>1, <2>2, <2>7, SmallSequences DEF DocInv, DocumentsInv
  <2>10. \A i \in DOMAIN new : new[i].name = version.doc[i].name
    <3> TAKE i \in DOMAIN new
    <3>1. CASE i \in 1..Len(draft.doc)
      BY <2>3, <2>4, <2>7, <3>1
    <3>2. CASE i \notin 1..Len(draft.doc)
      <4>1. i = Len(draft.doc) + 1 /\ i = turn.section
        BY <2>3, <2>4, <2>8, <3>2
      <4> QED
        BY <2>7, <4>1, SectionFields DEF n
    <3> QED
      BY <3>1, <3>2
  <2>11. PlacesInv'
    <3>1. CASE /\ turn.section < Len(version.doc) /\ stage' = stage
               /\ turn' = [section |-> turn.section + 1, corrections |-> 0]
      <4>1. turn'.section = turn.section + 1 /\ turn'.corrections = 0
        BY <3>1
      <4>2. /\ turn'.section \in Nat \ {0} /\ turn'.section <= Len(version'.doc)
            /\ Len(draft'.doc) = turn'.section - 1
        BY <2>1, <2>2, <2>3, <2>4, <2>7, <3>1, <4>1
      <4>3. \A i \in DOMAIN draft'.doc : draft'.doc[i].name = version'.doc[i].name
        BY <2>1, <2>2, <2>10
      <4> QED
        BY <2>1, <3>1, <4>1, <4>2, <4>3 DEF PlacesInv
    <3>2. CASE turn' = FirstTurn /\ stage' = "assembling"
      BY <3>2 DEF PlacesInv, FirstTurn
    <3> QED
      BY <2>1, <3>1, <3>2
  <2>12. MergedInv'
    BY <2>1 DEF MergedInv, NothingElseIsLost
  <2> QED
    BY <2>9, <2>11, <2>12 DEF DocInv
<1> QED
  BY <1>1, <1>2

(* What stands in a document is in what is assembled of it.                *)
LEMMA AssembledHolds ==
    ASSUME NEW doc, NEW new, \A t \in ToSet(doc) : HasLines(new, t.text),
           NEW s, Stands(s, doc), NEW l \in ToSet(Lines(s.text)), IsSequence(s.text)
    PROVE  Has(l, "refheading") \/ \E t \in ToSet(new) : \E k \in ToSet(t.text) : k.key = l.key
<1> HIDE DEF Blank, Has
<1>1. SUFFICES ASSUME ~Has(l, "refheading")
               PROVE  \E t \in ToSet(new) : \E k \in ToSet(t.text) : k.key = l.key
  OBVIOUS
<1>2. l \in ToSet(s.text) /\ ToKeep(l)
  BY <1>1, LinesElements DEF ToKeep
<1>3. PICK t \in ToSet(doc) : KeepsLines(s.text, t.text)
  BY DEF Stands
<1>4. PICK k \in ToSet(t.text) : ToKeep(k) /\ k.key = l.key
  BY <1>2, <1>3 DEF KeepsLines
<1> QED
  BY <1>3, <1>4 DEF HasLines, ToKeep

LEMMA AssembleDoc == ASSUME DocInv, RecordsInv, Assemble PROVE DocInv'
<1> DEFINE new == Assembled(draft.doc, Names(draft.doc))
<1>1. CASE \A s \in ToSet(draft.doc) : Full(s.text) = {}
  BY <1>1, EndedRun DEF Assemble
<1>2. CASE ~(\A s \in ToSet(draft.doc) : Full(s.text) = {})
  <2>1. /\ stage = "assembling" /\ stage' = "reviewing" /\ UNCHANGED <<version, turn, plan, tries>>
        /\ draft' = [draft EXCEPT !.doc = Assembled(@, Names(@))]
    BY <1>2 DEF Assemble
  <2>2. draft'.doc = new
    <3>1. "doc" \in DOMAIN draft
      BY DEF RecordsInv
    <3> QED
      BY <2>1, <3>1
  <2>3. IsDocument(draft.doc) /\ draft.doc # <<>> /\ IsDocument(version.doc)
    BY <1>2, NotEmpty DEF DocInv, DocumentsInv
  <2>4. IsDocument(new) /\ new # <<>> /\ Ordered(new) /\ \A s \in ToSet(draft.doc) : HasLines(new, s.text)
    BY <2>3, AssembledKeeps
  <2> HIDE DEF new
  <2>5. DocumentsInv'
    BY <2>1, <2>2, <2>4 DEF DocInv, DocumentsInv
  <2>6. PlacesInv'
    <3>1. turn = FirstTurn /\ turn = [section |-> turn.section, corrections |-> turn.corrections]
          /\ turn.section \in Nat \ {0}
      BY <2>1 DEF DocInv, PlacesInv
    <3> QED
      BY <2>1, <2>2, <2>4, <3>1 DEF PlacesInv
  <2>7. plan # <<>> => \A s \in Unreplaced(version.doc, plan) : Stands(s, draft.doc)
    BY <2>1 DEF DocInv, MergedInv
  <2>8. NothingElseIsLost'
    <3>1. SUFFICES ASSUME plan # <<>>, NEW s \in ToSet(version.doc),
                          ~\E i \in DOMAIN plan : Replaced(plan[i], s.name),
                          NEW l \in ToSet(Lines(s.text))
                   PROVE  \/ Has(l, "refheading")
                          \/ \E t \in ToSet(new) : \E k \in ToSet(t.text) : k.key = l.key
      BY <2>1, <2>2 DEF NothingElseIsLost
    <3>2. s \in Unreplaced(version.doc, plan)
      BY <3>1 DEF Unreplaced
    <3>3. Stands(s, draft.doc)
      BY <2>7, <3>1, <3>2
    <3>4. IsSequence(s.text)
      BY <2>3, DocumentFacts
    <3> QED
      BY <2>4, <3>3, <3>4, AssembledHolds
  <2>9. MergedInv'
    BY <2>1, <2>8 DEF MergedInv
  <2> QED
    BY <2>5, <2>6, <2>9 DEF DocInv
<1> QED
  BY <1>1, <1>2

LEMMA ReviewDoc == ASSUME DocInv, NEW a \in [Consulted -> Answers], Review(a) PROVE DocInv'
<1>1. CASE EndRun
  BY <1>1, EndedRun DEF Review
<1>2. CASE ~EndRun
  <2>1. /\ stage = "reviewing" /\ UNCHANGED <<version, turn, plan, draft>>
        /\ tries' = IF Consulted = {} THEN tries ELSE tries + 1
        /\ stage' \in {"gate", "revising"} /\ (stage' = "revising" => Consulted # {})
    BY <1>2 DEF Review
  <2>2. tries \in Nat /\ tries' \in Nat /\ (stage' = "revising" => tries' > 0)
    BY <2>1 DEF DocInv, DocumentsInv
  <2>3. DocumentsInv'
    BY <2>1, <2>2 DEF DocInv, DocumentsInv
  <2>4. /\ turn = FirstTurn /\ draft.doc # <<>> /\ Ordered(draft.doc)
        /\ turn = [section |-> turn.section, corrections |-> turn.corrections] /\ turn.section \in Nat \ {0}
    BY <2>1 DEF DocInv, PlacesInv
  <2>5. turn.section = 1
    BY <2>4 DEF FirstTurn
  <2>6. Len(draft.doc) \in Nat /\ Len(draft.doc) > 0
    BY <2>4, DocumentFacts, NotEmptyLength DEF DocInv, DocumentsInv, IsDocument
  <2>7. PlacesInv'
    BY <2>1, <2>2, <2>4, <2>5, <2>6 DEF PlacesInv
  <2>8. MergedInv'
    BY <2>1 DEF MergedInv, NothingElseIsLost
  <2> QED
    BY <2>3, <2>7, <2>8 DEF DocInv
<1> QED
  BY <1>1, <1>2

(* New text for the section a run is at.                                   *)
LEMMA PutHere ==
    ASSUME DocInv, stage \in {"revising", "verifying"}, NEW t, IsSequence(t)
    PROVE  LET new == Put(draft.doc, Here, t)
           IN  IsDocument(new) /\ Len(new) = Len(draft.doc) /\ Ordered(new)
<1> DEFINE new == Put(draft.doc, Here, t)
<1>1. /\ IsDocument(draft.doc) /\ Ordered(draft.doc)
      /\ turn.section \in Nat \ {0} /\ turn.section <= Len(draft.doc)
  BY DEF DocInv, DocumentsInv, PlacesInv
<1>2. Len(draft.doc) \in Nat /\ DOMAIN draft.doc = 1..Len(draft.doc)
  BY <1>1, DocumentFacts
<1>3. Here \in NameSet(draft.doc)
  BY <1>1, <1>2 DEF Here, NameSet
<1>4. /\ IsDocument(new) /\ Len(new) = Len(draft.doc)
      /\ \A i \in 1..Len(draft.doc) : new[i].name = draft.doc[i].name
  BY <1>1, <1>3, PutDocument
<1> HIDE DEF new
<1>5. DOMAIN new = DOMAIN draft.doc
  BY <1>2, <1>4, DocumentFacts
<1>6. Ordered(new)
  BY <1>1, <1>2, <1>4, <1>5 DEF Ordered
<1> QED
  BY <1>4, <1>6 DEF new

(* A section is revised or verified.                                       *)
LEMMA SectionDone ==
    ASSUME DocInv, stage \in {"revising", "verifying"}, UNCHANGED <<version, plan, tries>>,
           IsDocument(draft'.doc), Len(draft'.doc) = Len(draft.doc), Ordered(draft'.doc),
           NEW next \in {"verifying", "reviewing"},
           \/ Advance(Len(draft.doc), next)
           \/ turn' = [turn EXCEPT !.corrections = 1] /\ stage' = stage
    PROVE  DocInv'
<1>1. /\ turn = [section |-> turn.section, corrections |-> turn.corrections]
      /\ turn.section \in Nat \ {0} /\ turn.section <= Len(draft.doc) /\ tries > 0 /\ IsDocument(draft.doc)
  BY DEF DocInv, DocumentsInv, PlacesInv
<1>2. DocumentsInv'
  BY DEF DocInv, DocumentsInv
<1>3. Len(draft.doc) \in Nat /\ draft'.doc # <<>>
  <2>1. Len(draft.doc) \in Nat /\ Len(draft'.doc) > 0 /\ IsSequence(draft'.doc)
    BY <1>1, DocumentFacts DEF IsDocument
  <2> QED
    BY <2>1, NotEmptyLength
<1>4. /\ turn' = [section |-> turn'.section, corrections |-> turn'.corrections]
      /\ turn'.section \in Nat \ {0} /\ turn'.section <= Len(draft'.doc)
      /\ stage' \in {"revising", "verifying", "reviewing"} /\ (stage' = "reviewing" => turn' = FirstTurn)
  <2>1. CASE turn' = [turn EXCEPT !.corrections = 1] /\ stage' = stage
    <3>1. turn' = [section |-> turn.section, corrections |-> 1]
      BY <1>1, <2>1
    <3>2. turn'.section = turn.section /\ turn'.corrections = 1
      BY <3>1
    <3> QED
      BY <1>1, <2>1, <3>1, <3>2
  <2>2. CASE /\ turn.section < Len(draft.doc) /\ stage' = stage
             /\ turn' = [section |-> turn.section + 1, corrections |-> 0]
    <3>1. turn'.section = turn.section + 1 /\ turn'.corrections = 0
      BY <2>2
    <3> QED
      BY <1>1, <1>3, <2>2, <3>1
  <2>3. CASE turn' = FirstTurn /\ stage' = next
    <3>1. turn'.section = 1 /\ turn'.corrections = 0
      BY <2>3 DEF FirstTurn
    <3> QED
      BY <1>1, <1>3, <2>3, <3>1 DEF FirstTurn
  <2> QED
    BY <2>1, <2>2, <2>3 DEF Advance
<1>5. PlacesInv'
  BY <1>1, <1>3, <1>4 DEF PlacesInv
<1>6. MergedInv'
  <2>1. stage' # "assembling" /\ ~(tries' = 0)
    BY <1>1, <1>4 DEF DocInv, DocumentsInv
  <2> QED
    BY <2>1 DEF MergedInv, NothingElseIsLost
<1> QED
  BY <1>2, <1>5, <1>6 DEF DocInv

LEMMA PatchDoc ==
    ASSUME DocInv, RecordsInv, NEW p \in Patches, NEW b \in Batches, PatchDraft(p, b) PROVE DocInv'
<1>1. /\ stage = "revising" /\ UNCHANGED <<version, plan, tries>> /\ Advance(Len(draft.doc), "verifying")
      /\ draft' = [draft EXCEPT !.doc = Put(@, Here, Patched(TextOf(@, Here), p)), !.calcs = Upserted(@, b)]
  BY DEF PatchDraft
<1>2. draft'.doc = Put(draft.doc, Here, Patched(TextOf(draft.doc, Here), p))
  <2>1. "doc" \in DOMAIN draft /\ "calcs" \in DOMAIN draft
    BY DEF RecordsInv
  <2> QED
    BY <1>1, <2>1
<1>3. IsSequence(Patched(TextOf(draft.doc, Here), p))
  BY TextOfSection, PatchedIsSequence DEF DocInv, DocumentsInv
<1>4. IsDocument(draft'.doc) /\ Len(draft'.doc) = Len(draft.doc) /\ Ordered(draft'.doc)
  BY <1>1, <1>2, <1>3, PutHere
<1> QED
  BY <1>1, <1>4, SectionDone

LEMMA RewriteDoc ==
    ASSUME DocInv, RecordsInv, NEW t \in DraftTexts, NEW b \in Batches, RewriteDraft(t, b) PROVE DocInv'
<1>1. CASE ~CanUpsert(draft.calcs, Here, b)
  BY <1>1, EndedRun DEF RewriteDraft
<1>2. CASE CanUpsert(draft.calcs, Here, b)
  <2>1. /\ stage = "revising" /\ UNCHANGED <<version, plan, tries>> /\ Advance(Len(draft.doc), "verifying")
        /\ draft' = [draft EXCEPT !.doc = Put(@, Here, t), !.calcs = Upserted(@, b)]
    BY <1>2 DEF RewriteDraft
  <2>2. draft'.doc = Put(draft.doc, Here, t)
    <3>1. "doc" \in DOMAIN draft /\ "calcs" \in DOMAIN draft
      BY DEF RecordsInv
    <3> QED
      BY <2>1, <3>1
  <2>3. IsSequence(t)
    BY RoundsAssumption
  <2>4. IsDocument(draft'.doc) /\ Len(draft'.doc) = Len(draft.doc) /\ Ordered(draft'.doc)
    BY <2>1, <2>2, <2>3, PutHere
  <2> QED
    BY <2>1, <2>4, SectionDone
<1> QED
  BY <1>1, <1>2

LEMMA CorrectDoc ==
    ASSUME DocInv, RecordsInv, NEW t \in DraftTexts, NEW b \in Batches, Correct(t, b) PROVE DocInv'
<1>1. /\ stage = "verifying" /\ UNCHANGED <<version, plan, tries>>
      /\ \/ Advance(Len(draft.doc), "reviewing")
         \/ turn' = [turn EXCEPT !.corrections = 1] /\ stage' = stage
      /\ draft' = [draft EXCEPT !.doc = Put(@, Here, t),
                                !.calcs = IF CanUpsert(@, Here, b) THEN Upserted(@, b) ELSE @]
  BY DEF Correct
<1>2. draft'.doc = Put(draft.doc, Here, t)
  <2>1. "doc" \in DOMAIN draft /\ "calcs" \in DOMAIN draft
    BY DEF RecordsInv
  <2> QED
    BY <1>1, <2>1
<1>3. IsSequence(t)
  BY RoundsAssumption
<1>4. IsDocument(draft'.doc) /\ Len(draft'.doc) = Len(draft.doc) /\ Ordered(draft'.doc)
  BY <1>1, <1>2, <1>3, PutHere
<1> QED
  BY <1>1, <1>4, SectionDone

LEMMA VerifiedDoc == ASSUME DocInv, Verified PROVE DocInv'
<1>1. /\ stage = "verifying" /\ UNCHANGED <<version, plan, tries, draft>> /\ Advance(Len(draft.doc), "reviewing")
  BY DEF Verified
<1>2. IsDocument(draft'.doc) /\ Len(draft'.doc) = Len(draft.doc) /\ Ordered(draft'.doc)
  BY <1>1 DEF DocInv, DocumentsInv, PlacesInv
<1> QED
  BY <1>1, <1>2, SectionDone

LEMMA GateDoc == ASSUME DocInv, Gate PROVE DocInv'
<1>1. EndRun /\ stage = "gate" /\ version' \in {version, Published}
  BY DEF Gate
<1>2. Published.doc = draft.doc
  BY DEF Published
<1>3. IsDocument(version'.doc) /\ version'.doc # <<>>
  BY <1>1, <1>2 DEF DocInv, DocumentsInv, PlacesInv
<1> QED
  BY <1>1, <1>3, EndKeepsDoc

(* What a revision makes of a version.                                     *)
LEMMA RevisedVersion ==
    ASSUME DocInv, RecordsInv, NEW r \in RevisionRequests, NEW a, Revise(r, a)
    PROVE  /\ EndRun
           /\ \/ version' = version
              \/ \E old : /\ IsDocument(old) /\ IsDocument(version'.doc) /\ version'.doc # <<>>
                          /\ DOMAIN version'.doc = DOMAIN old
                          /\ \A i \in DOMAIN old : version'.doc[i].name = old[i].name
                          /\ BodyAfterTerminal(version'.doc, Extract(old)) = {}
<1> DEFINE old == TextContext(version.doc)
           affected == Selected(r, old)
<1>1. PICK blocks \in [affected -> Patches] : ReviseVersion(affected, blocks, a)
  BY DEF Revise
<1> HIDE DEF affected
<1> DEFINE new == [i \in DOMAIN old |->
                     IF old[i].name \in affected
                     THEN Section(old[i].name, Patched(old[i].text, blocks[old[i].name])) ELSE old[i]]
<1>2. /\ EndRun
      /\ \/ version' = version
         \/ /\ version' = [version EXCEPT !.doc = new] /\ old # <<>>
            /\ RunAll(new, Extract(old), version.ledger, version.calcs) = {}
  BY <1>1 DEF ReviseVersion
<1>3. IsDocument(old)
  BY ChosenIsDocument DEF TextContext, DocInv, DocumentsInv
<1>4. IsDocument(new) /\ DOMAIN new = DOMAIN old /\ \A i \in DOMAIN old : new[i].name = old[i].name
  <2> HIDE DEF old
  <2> QED
    BY <1>1, <1>3, RevisedDocument
<1> HIDE DEF old, new
<1>5. CASE /\ version' = [version EXCEPT !.doc = new] /\ old # <<>>
           /\ RunAll(new, Extract(old), version.ledger, version.calcs) = {}
  <2>1. version'.doc = new
    BY <1>5 DEF RecordsInv, VersionFields
  <2>2. new # <<>>
    <3>1. Len(new) = Len(old) /\ Len(old) > 0 /\ IsSequence(new)
      BY <1>3, <1>4, <1>5, DocumentFacts, NotEmptyLength DEF IsDocument
    <3> QED
      BY <3>1, NotEmptyLength
  <2>3. BodyAfterTerminal(new, Extract(old)) = {}
    BY <1>5 DEF RunAll, Continuation
  <2> QED
    BY <1>2, <1>3, <1>4, <2>1, <2>2, <2>3
<1> QED
  BY <1>2, <1>5

LEMMA NextDoc == RecordsInv /\ DocInv /\ [NextRounds]_roundVars => DocInv'
<1> SUFFICES ASSUME RecordsInv, DocInv, [NextRounds]_roundVars PROVE DocInv'
  OBVIOUS
<1>1. ASSUME NEW q \in DOMAIN pool.workers, SearchWeb(q) PROVE DocInv'
  <2>1. UNCHANGED <<version, stage, turn, plan, draft, tries>>
    BY <1>1 DEF SearchWeb
  <2> QED
    BY <2>1 DEF DocInv, DocumentsInv, PlacesInv, MergedInv, NothingElseIsLost
<1>2. CASE GiveUp
  BY <1>2, EndedRun DEF GiveUp
<1>3. ASSUME NEW r \in RevisionRequests, NEW a \in [Consulted -> Answers], Revise(r, a) PROVE DocInv'
  BY <1>3, RevisedVersion, EndedRun, EndKeepsDoc
<1>4. CASE UNCHANGED roundVars
  BY <1>4 DEF roundVars, DocInv, DocumentsInv, PlacesInv, MergedInv, NothingElseIsLost
<1> QED
  BY <1>1, <1>2, <1>3, <1>4, ContinueDoc, CurateDoc, MergeDoc, DraftDoc, AssembleDoc, ReviewDoc, PatchDoc,
     RewriteDoc, VerifiedDoc, CorrectDoc, GateDoc
     DEF NextRounds

(* A line of the source is in the merged and assembled document unless an  *)
(* operation of the plan replaces the place it stood in, for any documents *)
(* and plans of any length, in any order (apply_merge_operations,          *)
(* assemble_document).                                                     *)
THEOREM NothingElseIsEverLost == RoundsSpec => []NothingElseIsLost
<1>1. DocInv => NothingElseIsLost
  BY DEF DocInv, MergedInv
<1> QED
  BY InitRecords, NextRecords, InitDoc, NextDoc, <1>1, PTL DEF RoundsSpec

(* A run goes by the terminal sections of the version it started from.     *)
SourceInv == stage # "ready" => source = Extract(version.doc)

LEMMA NextSource == SourceInv /\ [NextRounds]_roundVars => SourceInv'
<1> SUFFICES ASSUME SourceInv, [NextRounds]_roundVars PROVE SourceInv'
  OBVIOUS
<1> USE DEF SourceInv
<1>1. ASSUME EndRun PROVE SourceInv'
  BY <1>1 DEF EndRun
<1>2. ASSUME NEW r \in Requests, Continue(r) PROVE SourceInv'
  BY <1>2 DEF Continue
<1>3. CASE UNCHANGED <<version, source>> /\ stage # "ready"
  BY <1>3
<1>4. CASE UNCHANGED roundVars
  BY <1>4 DEF roundVars
<1>5. ASSUME NEW q \in DOMAIN pool.workers, SearchWeb(q) PROVE SourceInv'
  BY <1>3, <1>5 DEF SearchWeb
<1>6. ASSUME NEW a \in Curations, NEW m \in BOOLEAN, Curate(a, m) PROVE SourceInv'
  BY <1>3, <1>6 DEF Curate
<1>7. ASSUME NEW p \in WriterPlans, NEW o \in Outputs, Merge(p, o) PROVE SourceInv'
  BY <1>3, <1>7 DEF Merge
<1>8. ASSUME NEW t \in DraftTexts, NEW b \in Batches,
             DraftSection(t, b) \/ RewriteDraft(t, b) \/ Correct(t, b)
      PROVE  SourceInv'
  BY <1>1, <1>3, <1>8 DEF DraftSection, RewriteDraft, Correct
<1>9. ASSUME NEW p \in Patches, NEW b \in Batches, PatchDraft(p, b) PROVE SourceInv'
  BY <1>3, <1>9 DEF PatchDraft
<1>10. ASSUME NEW a \in [Consulted -> Answers], Review(a) PROVE SourceInv'
  BY <1>1, <1>3, <1>10 DEF Review
<1>11. CASE Assemble \/ Verified
  BY <1>1, <1>3, <1>11 DEF Assemble, Verified
<1>12. CASE GiveUp \/ Gate
  BY <1>1, <1>12 DEF GiveUp, Gate
<1>13. ASSUME NEW r \in RevisionRequests, NEW a, Revise(r, a) PROVE SourceInv'
  BY <1>1, <1>13 DEF Revise, ReviseVersion
<1> QED
  BY <1>2, <1>4, <1>5, <1>6, <1>7, <1>8, <1>9, <1>10, <1>11, <1>12, <1>13 DEF NextRounds

(* The placement check refuses text after a terminal section of the source *)
(* it is given.                                                            *)
LEMMA PlacementRefuses ==
    ASSUME NEW old, IsDocument(old), NEW doc, IsDocument(doc),
           BodyAfterTerminal(doc, Extract(old)) = {}, NEW p \in TextAfterTerminal(doc)
    PROVE  doc[p[1]].name \notin NameSet(old)
<1> DEFINE terminals == Extract(old).terminals
           late == {j \in DOMAIN doc :
                /\ Full(doc[j].text) # {} /\ doc[j].name \notin terminals
                /\ \E k \in 1..(j - 1) : doc[k].name \in terminals /\ Full(doc[k].text) # {}}
<1>1. terminals = {n \in NameSet(old) : n \in TerminalNames}
  BY TerminalsElements DEF Extract
<1>2. BodyAfterTerminal(doc, Extract(old)) = Issues("placement", {doc[i].name : i \in late})
  BY DEF BodyAfterTerminal
<1> HIDE DEF terminals, late
<1>3. late = {}
  BY <1>2 DEF Issues
<1>4. SUFFICES ASSUME doc[p[1]].name \in NameSet(old) PROVE p[2] \in late
  BY <1>3
<1>5. /\ p[1] \in DOMAIN doc /\ p[2] \in DOMAIN doc /\ p[1] < p[2]
      /\ Full(doc[p[1]].text) # {} /\ Full(doc[p[2]].text) # {}
      /\ doc[p[1]].name \in TerminalNames /\ doc[p[2]].name \notin TerminalNames
  BY DEF TextAfterTerminal, IsTerminal
<1>6. doc[p[1]].name \in terminals /\ doc[p[2]].name \notin terminals
  BY <1>1, <1>4, <1>5
<1>7. p[1] \in 1..(p[2] - 1)
  <2>1. Len(doc) \in Nat /\ DOMAIN doc = 1..Len(doc)
    BY DocumentFacts
  <2> QED
    BY <1>5, <2>1
<1> QED
  BY <1>5, <1>6, <1>7 DEF late

LEMMA StepKeepsTerminalsLast ==
    ASSUME RecordsInv, DocInv, SourceInv, [NextRounds]_roundVars
    PROVE  [\A new \in {version'} \ {version} : \A p \in TextAfterTerminal(new.doc) :
              LET terminal == new.doc[p[1]].name
                  body     == new.doc[p[2]].name
              IN  terminal \notin NameSet(version.doc) /\ (terminal \in LastNames => body \in LastNames)]_version
<1> SUFFICES ASSUME version' # version, NEW p \in TextAfterTerminal(version'.doc)
             PROVE  LET terminal == version'.doc[p[1]].name
                        body     == version'.doc[p[2]].name
                    IN  terminal \notin NameSet(version.doc) /\ (terminal \in LastNames => body \in LastNames)
  OBVIOUS
<1>0. p[1] \in DOMAIN version'.doc /\ p[2] \in DOMAIN version'.doc /\ p[1] < p[2]
  BY DEF TextAfterTerminal
<1>1. Gate \/ \E r \in RevisionRequests, a \in [Consulted -> Answers] : Revise(r, a)
  BY DEF NextRounds, roundVars, Continue, SearchWeb, Curate, Merge, DraftSection, Assemble, Review, PatchDraft,
         RewriteDraft, Verified, Correct, GiveUp
<1>2. CASE Gate
  <2>1. version' = Published /\ stage = "gate" /\ DraftIssues = {}
    BY <1>2 DEF Gate
  <2>2. version'.doc = draft.doc
    BY <2>1 DEF Published
  <2>3. /\ Ordered(draft.doc) /\ IsDocument(draft.doc)
        /\ IsDocument(version.doc) /\ source = Extract(version.doc)
    BY <2>1 DEF DocInv, DocumentsInv, PlacesInv, SourceInv
  <2>4. BodyAfterTerminal(draft.doc, Extract(version.doc)) = {}
    BY <2>1, <2>3 DEF DraftIssues, RunAll, Continuation
  <2>5. draft.doc[p[1]].name \notin NameSet(version.doc)
    BY <2>2, <2>3, <2>4, PlacementRefuses
  <2>6. draft.doc[p[1]].name \in LastNames => draft.doc[p[2]].name \in LastNames
    BY <1>0, <2>2, <2>3 DEF Ordered
  <2> QED
    BY <2>2, <2>5, <2>6
<1>3. ASSUME NEW r \in RevisionRequests, NEW a, Revise(r, a) PROVE FALSE
  <2>1. PICK old : /\ IsDocument(old) /\ IsDocument(version'.doc) /\ DOMAIN version'.doc = DOMAIN old
                   /\ \A i \in DOMAIN old : version'.doc[i].name = old[i].name
                   /\ BodyAfterTerminal(version'.doc, Extract(old)) = {}
    BY <1>3, RevisedVersion
  <2>2. version'.doc[p[1]].name \notin NameSet(old)
    BY <2>1, PlacementRefuses
  <2> QED
    BY <1>0, <2>1, <2>2 DEF NameSet
<1> QED
  BY <1>1, <1>2, <1>3

(* A round puts text after a terminal section only where assembly, which   *)
(* has names of its own, lets it: never after a section the gate knows     *)
(* from the source, whatever names the two modules take for terminal ones. *)
THEOREM TerminalsAlwaysStayLast == RoundsSpec => TerminalsStayLast
<1>1. InitRounds => SourceInv
  BY DEF InitRounds, SourceInv
<1>2. RecordsInv /\ DocInv /\ SourceInv /\ [NextRounds]_roundVars
         => [\A new \in {version'} \ {version} : \A p \in TextAfterTerminal(new.doc) :
               LET terminal == new.doc[p[1]].name
                   body     == new.doc[p[2]].name
               IN  terminal \notin NameSet(version.doc) /\ (terminal \in LastNames => body \in LastNames)]_version
  BY StepKeepsTerminalsLast
<1> QED
  BY InitRecords, NextRecords, InitDoc, NextDoc, NextSource, <1>1, <1>2, PTL DEF RoundsSpec, TerminalsStayLast

-----------------------------------------------------------------------------
(* The deletion of jobs and artifacts.                                     *)

USE CleanupAssumption DEF CleanupAssumption

ConfRow == [pc : {"idle", "list", "objects", "artifacts", "jobs"}, request : Request \cup {Nothing},
            keys : SUBSET ArtifactId, found : SUBSET ArtifactId, unlinked : SUBSET JobId,
            seen : [JobId -> Nat]]

(* The rows, the storage and the confirmations are well typed.             *)
RowsTyped ==
    /\ jobs \subseteq JobId /\ reports \in [JobId -> Nat]
    /\ artifacts \in [ArtifactId -> JobId \cup {Nothing}]
    /\ usage \in [JobId -> {"none", "job", "kept"}]
    /\ objects \subseteq ArtifactId /\ storing \in [ArtifactId -> JobId \cup {Nothing}]
    /\ cleanup \in [Request -> {"none", "pending", "completed"}]
    /\ used \subseteq JobId \cup ArtifactId /\ overlapped \in BOOLEAN
ConfTyped == conf \in [Confirmer -> ConfRow]
TypeOK == RowsTyped /\ ConfTyped

LEMMA IdleTyped == Idle \in ConfRow
<1>1. [j \in JobId |-> 0] \in [JobId -> Nat]
  OBVIOUS
<1> QED
  BY <1>1 DEF Idle, ConfRow

LEMMA InitTypeOK == Init => TypeOK
<1>1. ASSUME Init PROVE RowsTyped
  <2>1. jobs \subseteq JobId /\ reports \in [JobId -> Nat] /\ usage \in [JobId -> {"none", "job", "kept"}]
    BY <1>1 DEF Init
  <2>2. artifacts \in [ArtifactId -> JobId \cup {Nothing}] /\ storing \in [ArtifactId -> JobId \cup {Nothing}]
    BY <1>1 DEF Init
  <2>3. cleanup \in [Request -> {"none", "pending", "completed"}]
    BY <1>1 DEF Init
  <2>4. objects \subseteq ArtifactId /\ used \subseteq JobId \cup ArtifactId /\ overlapped \in BOOLEAN
    BY <1>1 DEF Init
  <2> QED
    BY <2>1, <2>2, <2>3, <2>4 DEF RowsTyped
<1>2. Init => ConfTyped
  BY IdleTyped DEF Init, ConfTyped
<1> QED
  BY <1>1, <1>2 DEF TypeOK

(* A confirmation that goes on keeps its row well typed.                   *)
LEMMA ConfirmationTyped ==
    ASSUME TypeOK, NEW c \in Confirmer,
           Confirmation(c) \/ Abort(c) \/ \E q \in Request : Confirm(c, q)
    PROVE  ConfTyped'
<1>0. conf[c] \in ConfRow /\ conf \in [Confirmer -> ConfRow]
  BY DEF TypeOK, ConfTyped
<1>a. ASSUME NEW row \in ConfRow, conf' = [conf EXCEPT ![c] = row] PROVE ConfTyped'
  BY <1>0, <1>a DEF ConfTyped
<1>b. Stored \in SUBSET ArtifactId /\ reports \in [JobId -> Nat]
      /\ {j \in JobId : usage[j] = "job"} \in SUBSET JobId
  BY DEF Stored, TypeOK, RowsTyped
<1>1. CASE ListArtifacts(c)
  <2> DEFINE row == [conf[c] EXCEPT !.pc = "objects", !.keys = Stored]
  <2>1. conf' = [conf EXCEPT ![c] = row]
    BY <1>0, <1>1, Zenon DEF ListArtifacts
  <2>2. row \in ConfRow
    BY <1>0, <1>b DEF ConfRow
  <2> HIDE DEF row
  <2> QED
    BY <2>1, <2>2, <1>a
<1>2. CASE DeleteReports(c)
  <2> DEFINE row == [conf[c] EXCEPT !.pc = "artifacts", !.seen = reports]
  <2>1. conf' = [conf EXCEPT ![c] = row]
    BY <1>0, <1>2, Zenon DEF DeleteReports
  <2>2. row \in ConfRow
    BY <1>0, <1>b DEF ConfRow
  <2> HIDE DEF row
  <2> QED
    BY <2>1, <2>2, <1>a
<1>3. CASE DeleteArtifacts(c)
  <2> DEFINE row == [conf[c] EXCEPT !.pc = "jobs", !.found = Stored,
                                    !.unlinked = {j \in JobId : usage[j] = "job"}]
  <2>1. conf' = [conf EXCEPT ![c] = row]
    BY <1>0, <1>3, Zenon DEF DeleteArtifacts
  <2>2. row \in ConfRow
    BY <1>0, <1>b DEF ConfRow
  <2> HIDE DEF row
  <2> QED
    BY <2>1, <2>2, <1>a
<1>4. CASE Commit(c) \/ Abort(c)
  BY <1>4, <1>a, IdleTyped DEF Commit, Abort
<1>5. ASSUME NEW a \in ArtifactId, DeleteObject(c, a) PROVE ConfTyped'
  <2> DEFINE row == [conf[c] EXCEPT !.keys = @ \ {a}]
  <2>1. conf' = [conf EXCEPT ![c] = row]
    BY <1>0, <1>5, Zenon DEF DeleteObject
  <2>2. row \in ConfRow
    BY <1>0 DEF ConfRow
  <2> HIDE DEF row
  <2> QED
    BY <2>1, <2>2, <1>a
<1>6. ASSUME NEW q \in Request, Confirm(c, q) PROVE ConfTyped'
  <2> DEFINE row == [Idle EXCEPT !.pc = "list", !.request = q]
  <2>1. conf' = [conf EXCEPT ![c] = row]
    BY <1>6, Zenon DEF Confirm
  <2>2. row \in ConfRow
    BY IdleTyped DEF ConfRow
  <2> HIDE DEF row
  <2> QED
    BY <2>1, <2>2, <1>a
<1> QED
  BY <1>1, <1>2, <1>3, <1>4, <1>5, <1>6 DEF Confirmation

(* The other steps leave the confirmations alone, and all of them keep the *)
(* rows well typed.                                                        *)
LEMMA StepTypeOK == TypeOK /\ [Next]_vars => TypeOK'
<1> SUFFICES ASSUME TypeOK, [Next]_vars PROVE TypeOK'
  OBVIOUS
<1> USE DEF TypeOK, RowsTyped, rows
<1>1. ASSUME NEW j \in JobId, CreateJob(j) \/ Report(j) \/ RecordUsage(j) PROVE TypeOK'
  BY <1>1 DEF CreateJob, Report, RecordUsage, ConfTyped
<1>2. ASSUME NEW a \in ArtifactId, InsertArtifact(a) \/ \E j \in JobId : Upload(a, j) PROVE TypeOK'
  BY <1>2 DEF InsertArtifact, Upload, ConfTyped
<1>3. ASSUME NEW q \in Request, PostRequest(q) PROVE TypeOK'
  BY <1>3 DEF PostRequest, ConfTyped
<1>4. ASSUME NEW c \in Confirmer,
             Confirmation(c) \/ Abort(c) \/ \E q \in Request : Confirm(c, q)
      PROVE  TypeOK'
  <2>1. CASE ~Commit(c)
    <3>1. UNCHANGED <<jobs, reports, artifacts, usage, storing, cleanup, used>>
      BY <1>4, <2>1 DEF Confirmation, ListArtifacts, DeleteReports, DeleteArtifacts, DeleteObject,
                        Abort, RollBack, Confirm
    <3>2. objects' \subseteq objects /\ overlapped' \in BOOLEAN
      BY <1>4, <2>1 DEF Confirmation, ListArtifacts, DeleteReports, DeleteArtifacts, DeleteObject,
                        Abort, Confirm
    <3> QED
      BY <1>4, <3>1, <3>2, ConfirmationTyped
  <2>2. CASE Commit(c)
    <3>1. cleanup' \in [Request -> {"none", "pending", "completed"}]
      BY <2>2 DEF Commit, RollBack
    <3>2. UNCHANGED <<objects, storing, used, overlapped>>
      BY <2>2 DEF Commit
    <3>3. jobs' \subseteq JobId /\ reports' \in [JobId -> Nat]
      BY <2>2 DEF Commit
    <3>4. artifacts' \in [ArtifactId -> JobId \cup {Nothing}]
      BY <2>2 DEF Commit
    <3>5. usage' \in [JobId -> {"none", "job", "kept"}]
      BY <2>2 DEF Commit, UsageAfter
    <3> QED
      BY <1>4, <3>1, <3>2, <3>3, <3>4, <3>5, ConfirmationTyped
  <2> QED
    BY <2>1, <2>2
<1>5. CASE UNCHANGED vars
  BY <1>5 DEF vars, ConfTyped
<1> QED
  BY <1>1, <1>2, <1>3, <1>4, <1>5 DEF Next

(* Where the objects and the artifacts of a workspace are: what is on its  *)
(* way to a row still has its object and is in no confirmation's hands,    *)
(* and as long as confirmations did not overlap, at most one is at work,   *)
(* for a request that is still pending.                                    *)
Tracked ==
    /\ \A a \in ArtifactId :
          /\ a \notin used => storing[a] = Nothing /\ artifacts[a] = Nothing
          /\ storing[a] # Nothing => a \in objects /\ artifacts[a] = Nothing
    /\ \A c \in Confirmer : \A a \in conf[c].keys : a \in used /\ storing[a] = Nothing
OneAtWork ==
    ~overlapped =>
        \A c \in Confirmer : conf[c].pc # "idle" =>
            /\ conf[c].request \in Request /\ cleanup[conf[c].request] = "pending"
            /\ \A d \in Confirmer : conf[d].pc # "idle" => d = c
IInv == TypeOK /\ Tracked /\ OneAtWork /\ HalfDeletedIsRetryable

LEMMA InitIInv == Init => IInv
<1> SUFFICES ASSUME Init PROVE IInv
  OBVIOUS
<1>1. TypeOK
  BY InitTypeOK
<1>2. Tracked /\ OneAtWork /\ HalfDeletedIsRetryable
  BY DEF Init, Tracked, OneAtWork, HalfDeletedIsRetryable, Stored, Idle
<1> QED
  BY <1>1, <1>2 DEF IInv

(* What a confirmation does to its own row.                                *)
LEMMA ConfirmationMoves ==
    ASSUME TypeOK, NEW c \in Confirmer,
           Confirmation(c) \/ Abort(c) \/ \E q \in Request : Confirm(c, q)
    PROVE  /\ \A d \in Confirmer \ {c} : conf'[d] = conf[d]
           /\ conf'[c].keys \subseteq conf[c].keys \cup Stored
           /\ ~(\E q \in Request : Confirm(c, q)) =>
                  conf[c].pc # "idle" /\ (conf'[c].pc = "idle" \/ conf'[c].request = conf[c].request)
<1> USE DEF TypeOK, ConfTyped
<1>1. CASE ListArtifacts(c)
  BY <1>1 DEF ListArtifacts, ConfRow
<1>2. CASE DeleteReports(c)
  BY <1>2 DEF DeleteReports, ConfRow
<1>3. CASE DeleteArtifacts(c)
  BY <1>3 DEF DeleteArtifacts, ConfRow
<1>4. CASE Commit(c) \/ Abort(c)
  BY <1>4 DEF Commit, Abort, Idle
<1>5. ASSUME NEW a \in ArtifactId, DeleteObject(c, a)
      PROVE  /\ \A d \in Confirmer \ {c} : conf'[d] = conf[d]
             /\ conf'[c].keys \subseteq conf[c].keys
             /\ conf[c].pc # "idle" /\ conf'[c].request = conf[c].request
  BY <1>5 DEF DeleteObject, ConfRow
<1>6. ASSUME NEW q \in Request, Confirm(c, q)
      PROVE  (\A d \in Confirmer \ {c} : conf'[d] = conf[d]) /\ conf'[c].keys = {}
  <2> DEFINE row == [Idle EXCEPT !.pc = "list", !.request = q]
  <2>1. conf' = [conf EXCEPT ![c] = row]
    BY <1>6, Zenon DEF Confirm
  <2>2. row.keys = {}
    BY DEF Idle
  <2> HIDE DEF row
  <2> QED
    BY <2>1, <2>2
<1> QED
  BY <1>1, <1>2, <1>3, <1>4, <1>5, <1>6 DEF Confirmation

LEMMA StepTracked == TypeOK /\ Tracked /\ [Next]_vars => Tracked'
<1> SUFFICES ASSUME TypeOK, Tracked, [Next]_vars PROVE Tracked'
  OBVIOUS
<1> USE DEF TypeOK, RowsTyped, rows, Tracked
<1>1. ASSUME UNCHANGED <<artifacts, storing, objects, conf>>, used \subseteq used' PROVE Tracked'
  BY <1>1
<1>2. ASSUME NEW j \in JobId, CreateJob(j) \/ Report(j) \/ RecordUsage(j) PROVE Tracked'
  BY <1>1, <1>2 DEF CreateJob, Report, RecordUsage
<1>3. ASSUME NEW a \in ArtifactId, InsertArtifact(a) PROVE Tracked'
  BY <1>3 DEF InsertArtifact
<1>4. ASSUME NEW a \in ArtifactId, NEW j \in JobId, Upload(a, j) PROVE Tracked'
  BY <1>4 DEF Upload
<1>5. ASSUME NEW q \in Request, PostRequest(q) PROVE Tracked'
  BY <1>1, <1>5 DEF PostRequest
<1>6. ASSUME NEW c \in Confirmer,
             Confirmation(c) \/ Abort(c) \/ \E q \in Request : Confirm(c, q)
      PROVE  Tracked'
  <2>1. \A d \in Confirmer : conf'[d].keys \subseteq conf[d].keys \cup Stored
    BY <1>6, ConfirmationMoves
  <2>2. UNCHANGED <<storing, used>>
    BY <1>6 DEF Confirmation, ListArtifacts, DeleteReports, DeleteArtifacts, DeleteObject, Abort,
                Confirm, Commit
  <2>3. \A a \in ArtifactId : artifacts'[a] = artifacts[a] \/ artifacts'[a] = Nothing
    <3>1. Commit(c) => artifacts' = [a \in ArtifactId |-> Nothing] \/ artifacts' = artifacts
      BY DEF Commit
    <3>2. ~Commit(c) => artifacts' = artifacts
      BY <1>6 DEF Confirmation, ListArtifacts, DeleteReports, DeleteArtifacts, DeleteObject, Abort,
                  Confirm
    <3> QED
      BY <3>1, <3>2
  <2>4. \A a \in ArtifactId : storing[a] # Nothing /\ a \in objects => a \in objects'
    <3>1. ASSUME NEW b \in ArtifactId, DeleteObject(c, b)
          PROVE  storing[b] = Nothing /\ objects' = objects \ {b}
      BY <3>1 DEF DeleteObject
    <3>2. (\A b \in ArtifactId : ~DeleteObject(c, b)) => objects' = objects
      BY <1>6 DEF Confirmation, ListArtifacts, DeleteReports, DeleteArtifacts, Abort, Confirm, Commit
    <3> QED
      BY <3>1, <3>2
  <2>5. \A a \in Stored : a \in ArtifactId /\ a \in used /\ storing[a] = Nothing
    BY DEF Stored
  <2> QED
    BY <2>1, <2>2, <2>3, <2>4, <2>5
<1>7. CASE UNCHANGED vars
  BY <1>1, <1>7 DEF vars
<1> QED
  BY <1>2, <1>3, <1>4, <1>5, <1>6, <1>7 DEF Next

(* A confirmation begins with a pending request, and only its own end      *)
(* completes a request as long as it is alone.                             *)
LEMMA StepOneAtWork == TypeOK /\ OneAtWork /\ [Next]_vars => OneAtWork'
<1> SUFFICES ASSUME TypeOK, OneAtWork, [Next]_vars, ~overlapped' PROVE OneAtWork'
  BY DEF OneAtWork
<1> USE DEF TypeOK, RowsTyped, rows
<1>1. ASSUME UNCHANGED <<conf, overlapped>>,
             \A q \in Request : cleanup[q] = "pending" => cleanup'[q] = "pending"
      PROVE  OneAtWork'
  BY <1>1 DEF OneAtWork
<1>2. ASSUME NEW j \in JobId, CreateJob(j) \/ Report(j) \/ RecordUsage(j) PROVE OneAtWork'
  BY <1>1, <1>2 DEF CreateJob, Report, RecordUsage
<1>3. ASSUME NEW a \in ArtifactId, InsertArtifact(a) \/ \E j \in JobId : Upload(a, j) PROVE OneAtWork'
  BY <1>1, <1>3 DEF InsertArtifact, Upload
<1>4. ASSUME NEW q \in Request, PostRequest(q) PROVE OneAtWork'
  BY <1>1, <1>4 DEF PostRequest
<1>5. ASSUME NEW c \in Confirmer, NEW q \in Request, Confirm(c, q) PROVE OneAtWork'
  <2>1. ~overlapped /\ (\A d \in Confirmer : conf[d].pc = "idle") /\ cleanup' = cleanup
        /\ cleanup[q] = "pending"
    BY <1>5 DEF Confirm
  <2>2. conf' = [conf EXCEPT ![c] = [Idle EXCEPT !.pc = "list", !.request = q]]
    BY <1>5, Zenon DEF Confirm
  <2>3. [Idle EXCEPT !.pc = "list", !.request = q].request = q
    BY DEF Idle
  <2>4. conf'[c].request = q /\ \A d \in Confirmer \ {c} : conf'[d] = conf[d]
    BY <2>2, <2>3 DEF ConfTyped
  <2> QED
    BY <2>1, <2>4 DEF OneAtWork
<1>6. ASSUME NEW c \in Confirmer, Confirmation(c) \/ Abort(c) PROVE OneAtWork'
  <2>1. overlapped' = overlapped
    BY <1>6 DEF Confirmation, ListArtifacts, DeleteReports, DeleteArtifacts, DeleteObject, Abort, Commit
  <2>2. ~(\E q \in Request : Confirm(c, q))
    BY <1>6 DEF Confirmation, ListArtifacts, DeleteReports, DeleteArtifacts, DeleteObject, Abort,
                Commit, Confirm
  <2>3. conf[c].pc # "idle" /\ (conf'[c].pc = "idle" \/ conf'[c].request = conf[c].request)
        /\ \A d \in Confirmer \ {c} : conf'[d] = conf[d]
    BY <1>6, <2>2, ConfirmationMoves
  <2>4. \A d \in Confirmer \ {c} : conf[d].pc = "idle"
    BY <2>1, <2>3 DEF OneAtWork
  <2>5. CASE Commit(c)
    <3>1. conf'[c].pc = "idle"
      BY <2>5 DEF Commit, Idle, ConfTyped
    <3> QED
      BY <2>3, <2>4, <3>1 DEF OneAtWork
  <2>6. CASE ~Commit(c)
    <3>1. cleanup' = cleanup
      BY <1>6, <2>6 DEF Confirmation, ListArtifacts, DeleteReports, DeleteArtifacts, DeleteObject,
                        Abort, RollBack
    <3> QED
      BY <2>1, <2>3, <2>4, <3>1 DEF OneAtWork
  <2> QED
    BY <2>5, <2>6
<1>7. CASE UNCHANGED vars
  BY <1>1, <1>7 DEF vars
<1> QED
  BY <1>2, <1>3, <1>4, <1>5, <1>6, <1>7 DEF Next

(* An object goes only while its confirmation is at work; the row goes     *)
(* before the request is completed.                                        *)
LEMMA StepHalfDeleted == IInv /\ [Next]_vars => HalfDeletedIsRetryable'
<1> SUFFICES ASSUME IInv, [Next]_vars, ~overlapped' PROVE HalfDeletedIsRetryable'
  BY DEF HalfDeletedIsRetryable
<1> USE DEF IInv, TypeOK, RowsTyped, rows, HalfDeletedIsRetryable, Stored
<1>0. ~overlapped
  BY DEF Next, CreateJob, Report, RecordUsage, InsertArtifact, Upload, PostRequest, Confirm,
         Confirmation, ListArtifacts, DeleteReports, DeleteArtifacts, DeleteObject, Abort, Commit, vars
<1>1. ASSUME \A q \in Request : cleanup[q] = "pending" => cleanup'[q] = "pending",
             \A a \in ArtifactId : artifacts'[a] # Nothing =>
                 \/ a \in objects' /\ a \in objects
                 \/ artifacts[a] # Nothing /\ objects \subseteq objects'
      PROVE  HalfDeletedIsRetryable'
  BY <1>0, <1>1
<1>2. ASSUME NEW j \in JobId, CreateJob(j) \/ Report(j) \/ RecordUsage(j) PROVE HalfDeletedIsRetryable'
  BY <1>1, <1>2 DEF CreateJob, Report, RecordUsage
<1>3. ASSUME NEW a \in ArtifactId, InsertArtifact(a) PROVE HalfDeletedIsRetryable'
  <2>1. UNCHANGED <<cleanup, objects>> /\ a \in objects
        /\ \A b \in ArtifactId \ {a} : artifacts'[b] = artifacts[b]
    BY <1>3 DEF InsertArtifact, Tracked
  <2> QED
    BY <2>1, <1>1
<1>4. ASSUME NEW a \in ArtifactId, NEW j \in JobId, Upload(a, j) PROVE HalfDeletedIsRetryable'
  BY <1>1, <1>4 DEF Upload
<1>5. ASSUME NEW q \in Request, PostRequest(q) PROVE HalfDeletedIsRetryable'
  BY <1>5 DEF PostRequest
<1>6. ASSUME NEW c \in Confirmer, NEW q \in Request, Confirm(c, q) PROVE HalfDeletedIsRetryable'
  BY <1>1, <1>6 DEF Confirm
<1>7. ASSUME NEW c \in Confirmer, NEW a \in ArtifactId, DeleteObject(c, a) PROVE HalfDeletedIsRetryable'
  <2>1. conf[c].request \in Request /\ cleanup[conf[c].request] = "pending"
    BY <1>0, <1>7 DEF DeleteObject, OneAtWork
  <2>2. cleanup' = cleanup
    BY <1>7 DEF DeleteObject
  <2> QED
    BY <2>1, <2>2
<1>8. ASSUME NEW c \in Confirmer, Commit(c) PROVE HalfDeletedIsRetryable'
  <2>1. CASE Held(c)
    BY <1>1, <1>8, <2>1 DEF Commit, RollBack
  <2>2. CASE ~Held(c)
    <3>1. artifacts' = [a \in ArtifactId |-> Nothing]
      BY <1>8, <2>2 DEF Commit
    <3> QED
      BY <3>1
  <2> QED
    BY <2>1, <2>2
<1>9. ASSUME NEW c \in Confirmer, ListArtifacts(c) \/ DeleteReports(c) \/ DeleteArtifacts(c) \/ Abort(c)
      PROVE  HalfDeletedIsRetryable'
  BY <1>1, <1>9 DEF ListArtifacts, DeleteReports, DeleteArtifacts, Abort, RollBack
<1>10. CASE UNCHANGED vars
  BY <1>1, <1>10 DEF vars
<1> QED
  BY <1>2, <1>3, <1>4, <1>5, <1>6, <1>7, <1>8, <1>9, <1>10 DEF Next, Confirmation

LEMMA Inductive == Spec => []IInv
<1>1. IInv /\ [Next]_vars => IInv'
  BY StepTypeOK, StepTracked, StepOneAtWork, StepHalfDeleted DEF IInv
<1> QED
  BY <1>1, InitIInv, PTL DEF Spec

(* A cleanup that failed halfway can be repeated: a row whose object is    *)
(* gone goes with a request that is still pending, unless confirmations    *)
(* overlapped.                                                             *)
THEOREM HalfDeletedStaysRetryable == Spec => []HalfDeletedIsRetryable
<1>1. IInv => HalfDeletedIsRetryable
  BY DEF IInv
<1> QED
  BY <1>1, Inductive, PTL
=============================================================================
