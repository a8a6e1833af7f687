------------------------------ MODULE Recursion -------------------------------
(***************************************************************************)
(* Induction over the natural numbers for the provers at hand, which       *)
(* cannot instantiate the library's theorems with a predicate: the         *)
(* predicate is a set here.  From it, what FlattenSeq, MapThenSumSet and   *)
(* SumFunction compute.                                                    *)
(***************************************************************************)
EXTENDS Integers, FiniteSets, Sequences, SequencesExt,
        WellFoundedInduction, FiniteSetTheorems, TLAPS

-----------------------------------------------------------------------------
LessThan == {p \in Nat \X Nat : p[1] < p[2]}

LEMMA LessIsWellFounded == IsWellFoundedOn(LessThan, Nat)
BY NatLessThanWellFounded, Zenon DEF OpToRel, LessThan

LEMMA Least ==
  ASSUME NEW T, T \subseteq Nat, T # {}
  PROVE  \E n \in T : \A m \in T : n <= m
<1>1. PICK n \in T : \A m \in T : <<m, n>> \notin LessThan
  BY LessIsWellFounded, WFMin
<1>2. n \in Nat /\ \A m \in T : m \in Nat /\ ~(m < n)
  BY <1>1 DEF LessThan
<1>3. QED
  BY <1>2

\* What holds of 0 and of the successor of each of its members.
LEMMA Peano ==
  ASSUME NEW S, 0 \in S, \A n \in Nat : n \in S => n + 1 \in S
  PROVE  Nat \subseteq S
<1>1. SUFFICES ASSUME Nat \ S # {} PROVE FALSE
  OBVIOUS
<1>2. PICK n \in Nat \ S : \A m \in Nat \ S : n <= m
  BY <1>1, Least
<1>3. n # 0 /\ n - 1 \in Nat /\ n - 1 < n
  BY <1>2
<1>4. n - 1 \in S
  BY <1>2, <1>3
<1>5. QED
  BY <1>2, <1>3, <1>4

\* The largest of a set of numbers.
LEMMA LastOf ==
  ASSUME NEW n \in Nat, NEW s \in SUBSET (1 .. n), NEW m \in s, \A k \in s : k <= m
  PROVE  Max(s) = m
<1>1. \A x \in s : (\A y \in s : x >= y) <=> x = m
  OBVIOUS
<1>2. QED
  BY <1>1 DEF Max

-----------------------------------------------------------------------------
(***************************************************************************)
(* Lists by a key: no two members of a sequence have the same key, and the *)
(* keys are those of a set.                                                *)
(***************************************************************************)
Lists(seq, key, keys) ==
  /\ \A k, l \in DOMAIN seq : key[seq[k]] = key[seq[l]] => k = l
  /\ keys = {key[seq[k]] : k \in DOMAIN seq}

\* A function on 1 .. n is a sequence.
LEMMA SequenceOf ==
  ASSUME NEW S, NEW n \in Nat, NEW f, f = [k \in 1 .. n |-> f[k]],
         \A k \in 1 .. n : f[k] \in S
  PROVE  f \in Seq(S) /\ DOMAIN f = 1 .. n
OBVIOUS

LEMMA EmptyLists == ASSUME NEW key PROVE Lists(<<>>, key, {})
BY DEF Lists

LEMMA OneLists == ASSUME NEW key, NEW x PROVE Lists(<<x>>, key, {key[x]})
BY DEF Lists

LEMMA JoinLists ==
  ASSUME NEW S, NEW a \in Seq(S), NEW b \in Seq(S), NEW key, NEW A, NEW B,
         Lists(a, key, A), Lists(b, key, B), A \cap B = {}
  PROVE  a \o b \in Seq(S) /\ Lists(a \o b, key, A \cup B)
<1> DEFINE c == a \o b
<1>1. /\ c \in Seq(S) /\ Len(a) \in Nat /\ Len(b) \in Nat /\ Len(c) = Len(a) + Len(b)
      /\ DOMAIN c = 1 .. Len(c) /\ DOMAIN a = 1 .. Len(a) /\ DOMAIN b = 1 .. Len(b)
      /\ \A k \in DOMAIN c : c[k] = IF k <= Len(a) THEN a[k] ELSE b[k - Len(a)]
  OBVIOUS
<1> HIDE DEF c
<1>2. \A k \in DOMAIN c : \/ k \in DOMAIN a /\ c[k] = a[k]
                          \/ ~(k \in DOMAIN a) /\ k - Len(a) \in DOMAIN b /\ c[k] = b[k - Len(a)]
  BY <1>1
<1>3. /\ \A k \in DOMAIN a : k \in DOMAIN c /\ c[k] = a[k]
      /\ \A l \in DOMAIN b : l + Len(a) \in DOMAIN c /\ c[l + Len(a)] = b[l]
  <2>1. ASSUME NEW l \in DOMAIN b
        PROVE  /\ l + Len(a) \in DOMAIN c /\ ~(l + Len(a) <= Len(a))
               /\ (l + Len(a)) - Len(a) = l
    BY <1>1
  <2>2. \A k \in DOMAIN a : k \in DOMAIN c /\ c[k] = a[k]
    BY <1>1
  <2>3. QED
    BY <1>1, <2>1, <2>2
<1>4. /\ \A k \in DOMAIN a : key[a[k]] \in A
      /\ \A l \in DOMAIN b : key[b[l]] \in B
  BY DEF Lists
<1>5. ASSUME NEW k \in DOMAIN c, NEW l \in DOMAIN c, key[c[k]] = key[c[l]]
      PROVE  k = l
  <2>1. CASE k \in DOMAIN a /\ l \in DOMAIN a
    BY <1>3, <1>5, <2>1 DEF Lists
  <2>2. CASE k \notin DOMAIN a /\ l \notin DOMAIN a
    <3>1. /\ k - Len(a) \in DOMAIN b /\ l - Len(a) \in DOMAIN b
          /\ key[b[k - Len(a)]] = key[b[l - Len(a)]]
      BY <1>2, <1>5, <2>2
    <3>2. k - Len(a) = l - Len(a)
      BY <3>1 DEF Lists
    <3>3. QED
      BY <1>1, <3>2
  <2>3. CASE k \in DOMAIN a /\ l \notin DOMAIN a
    BY <1>2, <1>4, <1>5, <2>3
  <2>4. CASE k \notin DOMAIN a /\ l \in DOMAIN a
    BY <1>2, <1>4, <1>5, <2>4
  <2>5. QED
    BY <2>1, <2>2, <2>3, <2>4
<1>6. A \cup B = {key[c[k]] : k \in DOMAIN c}
  <2>1. ASSUME NEW x \in A \cup B
        PROVE  \E k \in DOMAIN c : x = key[c[k]]
    <3>1. CASE x \in A
      BY <1>3, <3>1 DEF Lists
    <3>2. CASE x \in B
      <4>1. PICK l \in DOMAIN b : x = key[b[l]]
        BY <3>2 DEF Lists
      <4>2. QED
        BY <1>3, <4>1
    <3>3. QED
      BY <3>1, <3>2
  <2>2. \A k \in DOMAIN c : key[c[k]] \in A \cup B
    BY <1>2, <1>4
  <2>3. QED
    BY <2>1, <2>2
<1>7. QED
  BY <1>1, <1>5, <1>6 DEF Lists, c

\* The rest of a list.
LEMMA TailLists ==
  ASSUME NEW S, NEW a \in Seq(S), a # <<>>, NEW key, NEW A, Lists(a, key, A)
  PROVE  /\ Head(a) \in S /\ Tail(a) \in Seq(S)
         /\ key[Head(a)] \in A
         /\ Lists(Tail(a), key, A \ {key[Head(a)]})
<1> DEFINE t == Tail(a)
<1>1. /\ Head(a) = a[1] /\ 1 \in DOMAIN a /\ a[1] \in S /\ t \in Seq(S)
      /\ DOMAIN a = 1 .. Len(a) /\ Len(a) \in Nat
      /\ \A k \in DOMAIN t : k + 1 \in DOMAIN a /\ t[k] = a[k + 1] /\ k \in Nat /\ k # 0
      /\ \A k \in DOMAIN a : k # 1 => k - 1 \in DOMAIN t /\ t[k - 1] = a[k]
  OBVIOUS
<1> HIDE DEF t
<1>2. \A k, l \in DOMAIN a : key[a[k]] = key[a[l]] => k = l
  BY DEF Lists
<1>3. \A k, l \in DOMAIN t : key[t[k]] = key[t[l]] => k = l
  <2>1. \A k, l \in DOMAIN t : k + 1 = l + 1 => k = l
    BY <1>1
  <2>2. QED
    BY <1>1, <1>2, <2>1
<1>4. A = {key[a[k]] : k \in DOMAIN a}
  BY DEF Lists
<1>5. ASSUME NEW x \in A \ {key[a[1]]}
      PROVE  \E k \in DOMAIN t : x = key[t[k]]
  BY <1>1, <1>4
<1>6. \A k \in DOMAIN t : key[t[k]] \in A \ {key[a[1]]}
  BY <1>1, <1>2, <1>4
<1>7. A \ {key[a[1]]} = {key[t[k]] : k \in DOMAIN t}
  BY <1>5, <1>6
<1>8. QED
  BY <1>1, <1>3, <1>4, <1>7 DEF Lists, t

-----------------------------------------------------------------------------
(***************************************************************************)
(* FlattenSeq.                                                             *)
(***************************************************************************)

\* f[k] is the first k sequences, one behind the other.
Flattens(f, seqs, n) ==
  f = [k \in 1 .. n |-> IF k = 1 THEN seqs[k] ELSE f[k - 1] \o seqs[k]]

LEMMA FlattenExists ==
  ASSUME NEW seqs, NEW n \in Nat
  PROVE  \E f : Flattens(f, seqs, n)
<1> DEFINE S == {m \in Nat : \E f : Flattens(f, seqs, m)}
<1>1. 0 \in S
  <2> DEFINE f == [k \in 1 .. 0 |-> seqs[k]]
  <2>1. Flattens(f, seqs, 0)
    BY DEF Flattens
  <2>2. QED
    BY <2>1
<1>2. ASSUME NEW m \in Nat, m \in S
      PROVE  m + 1 \in S
  <2>1. PICK f : Flattens(f, seqs, m)
    BY <1>2
  <2> DEFINE g == [k \in 1 .. m + 1 |->
                     IF k = 1 THEN seqs[k]
                     ELSE IF k = m + 1 THEN f[m] \o seqs[k] ELSE f[k]]
  <2>2. ASSUME NEW k \in 1 .. m + 1
        PROVE  g[k] = IF k = 1 THEN seqs[k] ELSE g[k - 1] \o seqs[k]
    <3>1. CASE k = 1
      BY <3>1
    <3>2. CASE k # 1
      <4>1. k - 1 \in 1 .. m /\ k - 1 \in 1 .. m + 1
        BY <3>2
      <4>2. g[k - 1] = f[k - 1]
        BY <2>1, <4>1 DEF Flattens
      <4>3. k = m + 1 => k - 1 = m
        OBVIOUS
      <4>4. k # m + 1 => k \in 1 .. m
        OBVIOUS
      <4>5. k # m + 1 => f[k] = f[k - 1] \o seqs[k]
        BY <2>1, <3>2, <4>4 DEF Flattens
      <4>6. g[k] = IF k = m + 1 THEN f[m] \o seqs[k] ELSE f[k]
        BY <3>2
      <4> HIDE DEF g
      <4>7. QED
        BY <3>2, <4>2, <4>3, <4>5, <4>6
    <3>3. QED
      BY <3>1, <3>2
  <2>3. g = [k \in 1 .. m + 1 |-> g[k]]
    OBVIOUS
  <2> HIDE DEF g
  <2>4. Flattens(g, seqs, m + 1)
    BY <2>2, <2>3 DEF Flattens
  <2>5. QED
    BY <2>4
<1>3. Nat \subseteq S
  <2> HIDE DEF S
  <2>1. QED
    BY <1>1, <1>2, Peano
<1>4. QED
  BY <1>3

\* FlattenSeq is the last of them.
LEMMA FlattenUnfolds ==
  ASSUME NEW seqs, Len(seqs) \in Nat \ {0}
  PROVE  \E f : Flattens(f, seqs, Len(seqs)) /\ FlattenSeq(seqs) = f[Len(seqs)]
<1> DEFINE n == Len(seqs)
           f == CHOOSE g : g = [i \in 1 .. n |->
                                  IF i = 1 THEN seqs[i] ELSE g[i - 1] \o seqs[i]]
<1>1. f = [i \in 1 .. n |-> IF i = 1 THEN seqs[i] ELSE f[i - 1] \o seqs[i]]
  <2>1. \E g : g = [i \in 1 .. n |-> IF i = 1 THEN seqs[i] ELSE g[i - 1] \o seqs[i]]
    BY FlattenExists DEF Flattens
  <2>2. QED
    BY <2>1, Zenon
<1>2. FlattenSeq(seqs) = f[n]
  BY DEF FlattenSeq
<1> HIDE DEF f
<1>3. Flattens(f, seqs, n)
  BY <1>1 DEF Flattens
<1>4. QED
  BY <1>2, <1>3

\* Sequences over S, each of which lists its keys, no two with a key in common.
Parts(seqs, S, key, K) ==
  /\ seqs \in Seq(Seq(S))
  /\ \A k \in DOMAIN seqs : Lists(seqs[k], key, K[k])
  /\ \A k, l \in DOMAIN seqs : K[k] \cap K[l] # {} => k = l

\* What the parts list, the concatenation lists.
LEMMA FlattenLists ==
  ASSUME NEW S, NEW seqs, NEW key, NEW K, Parts(seqs, S, key, K)
  PROVE  /\ FlattenSeq(seqs) \in Seq(S)
         /\ Lists(FlattenSeq(seqs), key, UNION {K[k] : k \in DOMAIN seqs})
<1> USE DEF Parts
<1>1. seqs \in Seq(Seq(S)) /\ DOMAIN seqs = 1 .. Len(seqs) /\ Len(seqs) \in Nat
  OBVIOUS
<1>2. CASE Len(seqs) = 0
  <2>1. seqs = <<>> /\ FlattenSeq(seqs) = seqs
    BY <1>2 DEF FlattenSeq
  <2>2. UNION {K[k] : k \in DOMAIN seqs} = {}
    BY <2>1
  <2>3. Lists(<<>>, key, {}) /\ <<>> \in Seq(S)
    BY EmptyLists
  <2>4. QED
    BY <2>1, <2>2, <2>3, Zenon
<1>3. CASE Len(seqs) # 0
  <2>1. PICK f : Flattens(f, seqs, Len(seqs)) /\ FlattenSeq(seqs) = f[Len(seqs)]
    BY <1>1, <1>3, FlattenUnfolds
  <2> DEFINE U(n) == UNION {K[k] : k \in 1 .. n}
             T == {n \in Nat : n \in DOMAIN seqs => f[n] \in Seq(S) /\ Lists(f[n], key, U(n))}
  <2>2. 0 \in T
    BY <1>1
  <2>3. ASSUME NEW n \in Nat, n \in T
        PROVE  n + 1 \in T
    <3>1. SUFFICES ASSUME n + 1 \in DOMAIN seqs
                   PROVE  f[n + 1] \in Seq(S) /\ Lists(f[n + 1], key, U(n + 1))
      OBVIOUS
    <3>2. seqs[n + 1] \in Seq(S) /\ Lists(seqs[n + 1], key, K[n + 1])
      BY <3>1
    <3>3. CASE n = 0
      <4>1. f[1] = seqs[1]
        BY <1>1, <2>1, <3>1, <3>3 DEF Flattens
      <4>2. U(n + 1) = K[1]
        BY <3>3
      <4> HIDE DEF U
      <4>3. QED
        BY <3>2, <3>3, <4>1, <4>2
    <3>4. CASE n # 0
      <4>1. n \in DOMAIN seqs
        BY <1>1, <3>1, <3>4
      <4>2. f[n] \in Seq(S) /\ Lists(f[n], key, U(n))
        BY <2>3, <4>1
      <4>3. f[n + 1] = f[n] \o seqs[n + 1]
        <5>1. \A k \in 1 .. Len(seqs) :
                f[k] = IF k = 1 THEN seqs[k] ELSE f[k - 1] \o seqs[k]
          BY <2>1 DEF Flattens
        <5>2. n + 1 # 1 /\ (n + 1) - 1 = n /\ n + 1 \in 1 .. Len(seqs)
          BY <1>1, <3>1, <3>4
        <5>3. QED
          BY <5>1, <5>2
      <4>4. U(n) \cap K[n + 1] = {}
        <5>1. \A k \in 1 .. n : k \in DOMAIN seqs /\ k # n + 1
          BY <1>1, <3>1
        <5>2. \A k \in 1 .. n : K[k] \cap K[n + 1] = {}
          BY <3>1, <5>1
        <5>3. QED
          BY <5>2
      <4>5. U(n + 1) = U(n) \cup K[n + 1]
        <5>1. 1 .. n + 1 = (1 .. n) \cup {n + 1}
          OBVIOUS
        <5>2. QED
          BY <5>1
      <4> HIDE DEF U
      <4>6. /\ f[n] \o seqs[n + 1] \in Seq(S)
            /\ Lists(f[n] \o seqs[n + 1], key, U(n) \cup K[n + 1])
        BY <3>2, <4>2, <4>4, JoinLists
      <4>7. QED
        BY <4>3, <4>5, <4>6, Zenon
    <3>5. QED
      BY <3>3, <3>4
  <2>4. Nat \subseteq T
    <3> HIDE DEF T
    <3>1. QED
      BY <2>2, <2>3, Peano
  <2>5. Len(seqs) \in T /\ Len(seqs) \in DOMAIN seqs
    <3> HIDE DEF T
    <3>1. QED
      BY <1>1, <1>3, <2>4
  <2>6. f[Len(seqs)] \in Seq(S) /\ Lists(f[Len(seqs)], key, U(Len(seqs)))
    BY <2>5
  <2>7. U(Len(seqs)) = UNION {K[k] : k \in DOMAIN seqs}
    BY <1>1, Zenon
  <2> HIDE DEF U
  <2>8. QED
    BY <2>1, <2>6, <2>7, Zenon
<1>4. QED
  BY <1>2, <1>3

\* A concatenation has the elements of its parts.
LEMMA FlattenIn ==
  ASSUME NEW S, NEW seqs \in Seq(Seq(S))
  PROVE  FlattenSeq(seqs) \in Seq(S)
<1>1. DOMAIN seqs = 1 .. Len(seqs) /\ Len(seqs) \in Nat
  OBVIOUS
<1>2. CASE Len(seqs) = 0
  BY <1>2 DEF FlattenSeq
<1>3. CASE Len(seqs) # 0
  <2>1. PICK f : Flattens(f, seqs, Len(seqs)) /\ FlattenSeq(seqs) = f[Len(seqs)]
    BY <1>1, <1>3, FlattenUnfolds
  <2>2. \A k \in 1 .. Len(seqs) : f[k] = IF k = 1 THEN seqs[k] ELSE f[k - 1] \o seqs[k]
    BY <2>1 DEF Flattens
  <2> DEFINE T == {n \in Nat : n \in DOMAIN seqs => f[n] \in Seq(S)}
  <2>3. 0 \in T
    BY <1>1
  <2>4. ASSUME NEW n \in Nat, n \in T
        PROVE  n + 1 \in T
    <3>1. SUFFICES ASSUME n + 1 \in DOMAIN seqs
                   PROVE  f[n + 1] \in Seq(S)
      OBVIOUS
    <3>2. seqs[n + 1] \in Seq(S)
      BY <3>1
    <3>3. f[n + 1] = IF n = 0 THEN seqs[n + 1] ELSE f[n] \o seqs[n + 1]
      BY <1>1, <2>2, <3>1
    <3>4. n # 0 => f[n] \in Seq(S)
      BY <1>1, <2>4, <3>1
    <3>5. QED
      BY <3>2, <3>3, <3>4
  <2>5. Nat \subseteq T
    <3> HIDE DEF T
    <3>1. QED
      BY <2>3, <2>4, Peano
  <2>6. Len(seqs) \in T /\ Len(seqs) \in DOMAIN seqs
    <3> HIDE DEF T
    <3>1. QED
      BY <1>1, <1>3, <2>5
  <2>7. QED
    BY <2>1, <2>6
<1>4. QED
  BY <1>2, <1>3

-----------------------------------------------------------------------------
(***************************************************************************)
(* Finite sets one element after the other, and the sums over them.        *)
(***************************************************************************)

\* What holds of the empty set and of every set with one more element.
LEMMA OneByOne ==
  ASSUME NEW S, IsFiniteSet(S), NEW P, {} \in P,
         \A s \in SUBSET S : \A x \in S \ s : s \in P => s \cup {x} \in P
  PROVE  \A s \in SUBSET S : s \in P
<1> DEFINE T == {n \in Nat : \A s \in SUBSET S : Cardinality(s) = n => s \in P}
<1>1. \A s \in SUBSET S : IsFiniteSet(s) /\ Cardinality(s) \in Nat
  BY FS_Subset, FS_CardinalityType
<1>2. 0 \in T
  BY <1>1, FS_EmptySet
<1>3. ASSUME NEW n \in Nat, n \in T
      PROVE  n + 1 \in T
  <2>1. SUFFICES ASSUME NEW s \in SUBSET S, Cardinality(s) = n + 1
                 PROVE  s \in P
    OBVIOUS
  <2>2. PICK x : x \in s
    BY <1>1, <2>1, FS_EmptySet
  <2>3. Cardinality(s \ {x}) = n
    <3>1. Cardinality(s \ {x}) = Cardinality(s) - 1
      BY <1>1, <2>2, FS_RemoveElement
    <3>2. QED
      BY <2>1, <3>1
  <2>4. s \ {x} \in P
    BY <1>3, <2>3
  <2>5. (s \ {x}) \cup {x} = s
    BY <2>2
  <2>6. QED
    BY <2>2, <2>4, <2>5
<1>4. Nat \subseteq T
  <2> HIDE DEF T
  <2>1. QED
    BY <1>2, <1>3, Peano
<1>5. QED
  BY <1>1, <1>4

\* it[s] is the sum of f over s, summed in the order of the choices.
Sums(it, f, S) ==
  it = [s \in SUBSET S |->
          IF s = {} THEN 0
          ELSE f[CHOOSE x \in s : TRUE] + it[s \ {CHOOSE x \in s : TRUE}]]

LEMMA SumsExist ==
  ASSUME NEW S, IsFiniteSet(S), NEW f
  PROVE  \E it : Sums(it, f, S)
<1> DEFINE D(n) == {s \in SUBSET S : Cardinality(s) <= n}
           c(s) == CHOOSE x \in s : TRUE
           Q(it, n) == it = [s \in D(n) |-> IF s = {} THEN 0 ELSE f[c(s)] + it[s \ {c(s)}]]
           T == {n \in Nat : \E it : Q(it, n)}
<1>1. \A s \in SUBSET S : IsFiniteSet(s) /\ Cardinality(s) \in Nat /\ Cardinality(s) <= Cardinality(S)
  BY FS_Subset, FS_CardinalityType
<1>2. Cardinality(S) \in Nat
  BY FS_CardinalityType
<1>3. ASSUME NEW s \in SUBSET S, s # {}
      PROVE  /\ c(s) \in s /\ s \ {c(s)} \in SUBSET S
             /\ Cardinality(s \ {c(s)}) = Cardinality(s) - 1 /\ Cardinality(s) >= 1
  <2>1. c(s) \in s
    BY <1>3
  <2>2. Cardinality(s) # 0
    BY <1>1, <1>3, FS_EmptySet
  <2> HIDE DEF c
  <2>3. QED
    BY <1>1, <2>1, <2>2, FS_RemoveElement
<1> HIDE DEF c
<1>4. 0 \in T
  <2> DEFINE it == [s \in D(0) |-> 0]
  <2>1. \A s \in D(0) : s = {}
    BY <1>1, FS_EmptySet
  <2>2. Q(it, 0)
    BY <2>1
  <2>3. QED
    BY <2>2
<1>5. ASSUME NEW n \in Nat, n \in T
      PROVE  n + 1 \in T
  <2>1. PICK it : Q(it, n)
    BY <1>5
  <2> DEFINE jt == [s \in D(n + 1) |-> IF Cardinality(s) = n + 1
                                         THEN f[c(s)] + it[s \ {c(s)}] ELSE it[s]]
  <2>2. ASSUME NEW s \in D(n + 1)
        PROVE  jt[s] = IF s = {} THEN 0 ELSE f[c(s)] + jt[s \ {c(s)}]
    <3>1. s \in SUBSET S /\ Cardinality(s) \in Nat
      BY <1>1
    <3>2. CASE s = {}
      <4>1. Cardinality(s) = 0 /\ s \in D(n)
        BY <3>1, <3>2, FS_EmptySet
      <4>2. it[s] = 0
        BY <2>1, <3>2, <4>1
      <4>3. jt[s] = it[s]
        BY <4>1
      <4>4. QED
        BY <3>2, <4>2, <4>3
    <3>3. CASE s # {}
      <4> DEFINE u == s \ {c(s)}
      <4>1. /\ u \in SUBSET S /\ Cardinality(u) = Cardinality(s) - 1
            /\ Cardinality(u) <= n /\ u \in D(n) /\ u \in D(n + 1) /\ Cardinality(u) # n + 1
        BY <1>3, <3>1, <3>3
      <4>2. jt[u] = it[u]
        BY <4>1
      <4>3. CASE Cardinality(s) = n + 1
        <5>1. jt[s] = f[c(s)] + it[u]
          BY <4>3
        <5>2. QED
          BY <3>3, <4>2, <5>1
      <4>4. CASE Cardinality(s) # n + 1
        <5>1. jt[s] = it[s] /\ s \in D(n)
          BY <3>1, <4>4
        <5>2. it[s] = f[c(s)] + it[u]
          BY <2>1, <3>3, <5>1
        <5>3. QED
          BY <3>3, <4>2, <5>1, <5>2
      <4>5. QED
        BY <4>3, <4>4
    <3>4. QED
      BY <3>2, <3>3
  <2>3. jt = [s \in D(n + 1) |-> jt[s]]
    OBVIOUS
  <2> HIDE DEF jt
  <2>4. Q(jt, n + 1)
    BY <2>2, <2>3
  <2>5. \E g : Q(g, n + 1)
    <3> HIDE DEF Q
    <3>1. QED
      BY <2>4
  <2> HIDE DEF Q
  <2>6. QED
    BY <2>5
<1>6. Nat \subseteq T
  <2> HIDE DEF T
  <2>1. QED
    BY <1>4, <1>5, Peano
<1>7. PICK it : Q(it, Cardinality(S))
  BY <1>2, <1>6
<1>8. D(Cardinality(S)) = SUBSET S
  BY <1>1
<1>9. Sums(it, f, S)
  BY <1>7, <1>8 DEF Sums, c
<1>10. QED
  BY <1>9

\* What a sum is without any one of its summands.
Adds(it, f, S) ==
  /\ it[{}] = 0
  /\ \A s \in SUBSET S : it[s] \in Int
  /\ \A s \in SUBSET S : \A x \in s : it[s] = f[x] + it[s \ {x}]

\* The order is of no account.
LEMMA SumWithout ==
  ASSUME NEW S, IsFiniteSet(S), NEW f \in [S -> Int], NEW it, Sums(it, f, S)
  PROVE  Adds(it, f, S)
<1> DEFINE c(s) == CHOOSE x \in s : TRUE
           P == {s \in SUBSET S : it[s] \in Int /\ \A x \in s : it[s] = f[x] + it[s \ {x}]}
<1>1. it[{}] = 0
  BY DEF Sums
<1>2. ASSUME NEW s \in SUBSET S, s # {}
      PROVE  c(s) \in s /\ it[s] = f[c(s)] + it[s \ {c(s)}]
  BY <1>2 DEF Sums
<1> HIDE DEF c
<1>3. \A s \in SUBSET S : IsFiniteSet(s) /\ Cardinality(s) \in Nat
  BY FS_Subset, FS_CardinalityType
<1>4. \A s \in SUBSET S : it[s] \in Int
  <2> DEFINE U == {n \in Nat : \A s \in SUBSET S : Cardinality(s) = n => it[s] \in Int}
  <2>1. 0 \in U
    BY <1>1, <1>3, FS_EmptySet
  <2>2. ASSUME NEW n \in Nat, n \in U
        PROVE  n + 1 \in U
    <3>1. SUFFICES ASSUME NEW s \in SUBSET S, Cardinality(s) = n + 1
                   PROVE  it[s] \in Int
      OBVIOUS
    <3>2. c(s) \in s /\ it[s] = f[c(s)] + it[s \ {c(s)}] /\ f[c(s)] \in Int
      <4>1. s # {}
        BY <3>1, FS_EmptySet
      <4>2. QED
        BY <1>2, <4>1
    <3>3. Cardinality(s \ {c(s)}) = Cardinality(s) - 1
      BY <1>3, <3>2, FS_RemoveElement
    <3>4. it[s \ {c(s)}] \in Int
      <4>1. Cardinality(s \ {c(s)}) = n
        BY <3>1, <3>3
      <4>2. QED
        BY <2>2, <4>1
    <3>5. QED
      BY <3>2, <3>4
  <2>3. Nat \subseteq U
    <3> HIDE DEF U
    <3>1. QED
      BY <2>1, <2>2, Peano
  <2>4. QED
    BY <1>3, <2>3
<1> DEFINE T == {n \in Nat : \A s \in SUBSET S : Cardinality(s) = n => s \in P}
<1>5. 0 \in T
  BY <1>1, <1>3, FS_EmptySet
<1>6. ASSUME NEW n \in Nat, n \in T
      PROVE  n + 1 \in T
  <2>1. SUFFICES ASSUME NEW s \in SUBSET S, Cardinality(s) = n + 1
                 PROVE  s \in P
    OBVIOUS
  <2>2. c(s) \in s /\ it[s] = f[c(s)] + it[s \ {c(s)}] /\ f[c(s)] \in Int
    <3>1. s # {}
      BY <2>1, FS_EmptySet
    <3>2. QED
      BY <1>2, <3>1
  <2>3. ASSUME NEW x \in s
        PROVE  s \ {x} \in P
    <3>1. Cardinality(s \ {x}) = Cardinality(s) - 1
      BY <1>3, FS_RemoveElement
    <3>2. Cardinality(s \ {x}) = n
      BY <2>1, <3>1
    <3>3. QED
      BY <1>6, <3>2
  <2>4. ASSUME NEW x \in s, x # c(s)
        PROVE  it[s] = f[x] + it[s \ {x}]
    <3> DEFINE u == (s \ {x}) \ {c(s)}
    <3>1. it[s \ {x}] = f[c(s)] + it[u]
      BY <2>2, <2>3, <2>4
    <3>2. it[s \ {c(s)}] = f[x] + it[u]
      <4>1. (s \ {c(s)}) \ {x} = u
        OBVIOUS
      <4>2. x \in s \ {c(s)}
        BY <2>4
      <4>3. s \ {c(s)} \in P
        BY <2>2, <2>3
      <4>4. it[s \ {c(s)}] = f[x] + it[(s \ {c(s)}) \ {x}]
        BY <4>2, <4>3
      <4>5. QED
        BY <4>1, <4>4, Zenon
    <3>3. f[x] \in Int /\ it[u] \in Int /\ u \in SUBSET S
      BY <1>4, <2>4
    <3> HIDE DEF u
    <3>4. QED
      BY <2>2, <3>1, <3>2, <3>3
  <2>5. QED
    BY <1>4, <2>2, <2>4
<1>7. Nat \subseteq T
  <2> HIDE DEF T
  <2>1. QED
    BY <1>5, <1>6, Peano
<1>8. QED
  BY <1>1, <1>3, <1>4, <1>7 DEF Adds

\* A sum over no summand but zeros, and one with a single other summand.
LEMMA SumOfZeros ==
  ASSUME NEW S, IsFiniteSet(S), NEW f \in [S -> Int], NEW it, Sums(it, f, S)
  PROVE  \A s \in SUBSET S : (\A x \in s : f[x] = 0) => it[s] = 0
<1> DEFINE P == {s \in SUBSET S : (\A x \in s : f[x] = 0) => it[s] = 0}
<1>1. /\ it[{}] = 0
      /\ \A s \in SUBSET S : it[s] \in Int
      /\ \A s \in SUBSET S : \A x \in s : it[s] = f[x] + it[s \ {x}]
  BY SumWithout DEF Adds
<1>2. {} \in P
  BY <1>1
<1>3. ASSUME NEW s \in SUBSET S, NEW x \in S \ s, s \in P
      PROVE  s \cup {x} \in P
  <2>1. (s \cup {x}) \ {x} = s
    OBVIOUS
  <2>2. it[s \cup {x}] = f[x] + it[s]
    BY <1>1, <2>1
  <2>3. QED
    BY <1>3, <2>2
<1>4. \A s \in SUBSET S : s \in P
  <2> HIDE DEF P
  <2>1. QED
    BY <1>2, <1>3, OneByOne
<1>5. QED
  BY <1>4

LEMMA SumOfOne ==
  ASSUME NEW S, IsFiniteSet(S), NEW f \in [S -> Int], NEW it, Sums(it, f, S),
         NEW h \in S, \A x \in S \ {h} : f[x] = 0
  PROVE  it[S] = f[h]
<1>1. it[S] = f[h] + it[S \ {h}]
  BY SumWithout DEF Adds
<1>2. it[S \ {h}] = 0
  BY SumOfZeros
<1>3. QED
  BY <1>1, <1>2

-----------------------------------------------------------------------------
(***************************************************************************)
(* MapThenSumSet.                                                          *)
(***************************************************************************)

\* The sum of a function, and that of the members themselves.
LEMMA SumOfFunction ==
  ASSUME NEW S, IsFiniteSet(S), NEW f
  PROVE  \E it : Sums(it, f, S) /\ MapThenSumSet(LAMBDA x : f[x], S) = it[S]
<1> DEFINE it == CHOOSE g : g = [s \in SUBSET S |->
                     IF s = {} THEN 0
                     ELSE f[CHOOSE x \in s : TRUE] + g[s \ {CHOOSE x \in s : TRUE}]]
<1>1. it = [s \in SUBSET S |->
              IF s = {} THEN 0
              ELSE f[CHOOSE x \in s : TRUE] + it[s \ {CHOOSE x \in s : TRUE}]]
  <2>1. \E g : g = [s \in SUBSET S |->
                     IF s = {} THEN 0
                     ELSE f[CHOOSE x \in s : TRUE] + g[s \ {CHOOSE x \in s : TRUE}]]
    <3>1. PICK g : Sums(g, f, S)
      BY SumsExist
    <3>2. QED
      BY <3>1 DEF Sums
  <2>2. QED
    BY <2>1, Zenon
<1>2. MapThenSumSet(LAMBDA x : f[x], S) = it[S]
  BY DEF MapThenSumSet, MapThenFoldSet
<1> HIDE DEF it
<1>3. QED
  BY <1>1, <1>2 DEF Sums

LEMMA SumOfMembers ==
  ASSUME NEW S, IsFiniteSet(S)
  PROVE  \E it : Sums(it, [x \in S |-> x], S) /\ MapThenSumSet(LAMBDA x : x, S) = it[S]
<1> DEFINE id == [x \in S |-> x]
           it == CHOOSE g : g = [s \in SUBSET S |->
                     IF s = {} THEN 0
                     ELSE (CHOOSE x \in s : TRUE) + g[s \ {CHOOSE x \in s : TRUE}]]
<1>1. PICK g : Sums(g, id, S)
  BY SumsExist
<1>2. g = [s \in SUBSET S |->
             IF s = {} THEN 0
             ELSE (CHOOSE x \in s : TRUE) + g[s \ {CHOOSE x \in s : TRUE}]]
  BY <1>1 DEF Sums
<1>3. it = [s \in SUBSET S |->
              IF s = {} THEN 0
              ELSE (CHOOSE x \in s : TRUE) + it[s \ {CHOOSE x \in s : TRUE}]]
  BY <1>2, Zenon
<1>4. MapThenSumSet(LAMBDA x : x, S) = it[S]
  BY DEF MapThenSumSet, MapThenFoldSet
<1> HIDE DEF it
<1>5. Sums(it, id, S)
  BY <1>3 DEF Sums
<1>6. QED
  BY <1>4, <1>5

\* The members of a set of numbers, all moved by the same distance.
LEMMA SumOfShifted ==
  ASSUME NEW A, IsFiniteSet(A), A \subseteq Int, NEW g \in Int,
         NEW B, B = {g + a : a \in A}
  PROVE  /\ IsFiniteSet(B) /\ Cardinality(B) = Cardinality(A)
         /\ MapThenSumSet(LAMBDA x : x, B)
              = Cardinality(A) * g + MapThenSumSet(LAMBDA x : x, A)
<1> DEFINE M(s) == {g + a : a \in s}
           P == {s \in SUBSET A : IsFiniteSet(M(s)) /\ Cardinality(M(s)) = Cardinality(s)}
<1>1. /\ \A s \in SUBSET A : IsFiniteSet(s) /\ Cardinality(s) \in Nat
      /\ \A s \in SUBSET A : M(s) \subseteq Int
  <2>1. \A s \in SUBSET A : IsFiniteSet(s) /\ Cardinality(s) \in Nat
    BY FS_Subset, FS_CardinalityType
  <2>2. \A s \in SUBSET A : M(s) \subseteq Int
    OBVIOUS
  <2>3. QED
    BY <2>1, <2>2
<1>2. ASSUME NEW s \in SUBSET A, NEW x \in A \ s
      PROVE  /\ M(s \cup {x}) = M(s) \cup {g + x} /\ g + x \notin M(s)
             /\ (s \cup {x}) \ {x} = s
             /\ Cardinality(s \cup {x}) = Cardinality(s) + 1
  <2>1. M(s \cup {x}) = M(s) \cup {g + x} /\ (s \cup {x}) \ {x} = s
    OBVIOUS
  <2>2. g + x \notin M(s)
    OBVIOUS
  <2>3. Cardinality(s \cup {x}) = Cardinality(s) + 1
    BY <1>1, FS_AddElement
  <2>4. QED
    BY <2>1, <2>2, <2>3
<1>3. /\ IsFiniteSet(M({})) /\ Cardinality(M({})) = 0 /\ M({}) = {}
      /\ Cardinality({}) = 0
  <2>1. M({}) = {}
    OBVIOUS
  <2>2. QED
    BY <2>1, FS_EmptySet
<1> HIDE DEF M
<1>4. \A s \in SUBSET A : s \in P
  <2>1. {} \in P
    BY <1>3
  <2>2. ASSUME NEW s \in SUBSET A, NEW x \in A \ s, s \in P
        PROVE  s \cup {x} \in P
    <3>1. /\ IsFiniteSet(M(s) \cup {g + x})
          /\ Cardinality(M(s) \cup {g + x}) = Cardinality(M(s)) + 1
      BY <1>2, <2>2, FS_AddElement
    <3>2. IsFiniteSet(M(s \cup {x})) /\ Cardinality(M(s \cup {x})) = Cardinality(M(s)) + 1
      BY <1>2, <3>1, Zenon
    <3>3. Cardinality(M(s)) = Cardinality(s) /\ Cardinality(s \cup {x}) = Cardinality(s) + 1
      BY <1>2, <2>2
    <3>4. QED
      BY <3>2, <3>3
  <2> HIDE DEF P
  <2>3. QED
    BY <2>1, <2>2, OneByOne
<1>5. B = M(A) /\ IsFiniteSet(B) /\ Cardinality(B) = Cardinality(A) /\ B \subseteq Int
  <2>1. B = M(A)
    BY DEF M
  <2>2. QED
    BY <1>1, <1>4, <2>1
<1>6. PICK it : /\ Sums(it, [x \in A |-> x], A)
                /\ MapThenSumSet(LAMBDA x : x, A) = it[A]
  BY SumOfMembers
<1>7. PICK jt : /\ Sums(jt, [x \in B |-> x], B)
                /\ MapThenSumSet(LAMBDA x : x, B) = jt[B]
  BY <1>5, SumOfMembers
<1> DEFINE Q == {s \in SUBSET A : jt[M(s)] = Cardinality(s) * g + it[s]}
<1>8. /\ it[{}] = 0
      /\ \A s \in SUBSET A : it[s] \in Int
      /\ \A s \in SUBSET A : \A x \in s : it[s] = x + it[s \ {x}]
  <2>1. [x \in A |-> x] \in [A -> Int]
    OBVIOUS
  <2>2. Adds(it, [x \in A |-> x], A)
    BY <1>6, <2>1, SumWithout
  <2>3. QED
    BY <2>2 DEF Adds
<1>9. /\ jt[{}] = 0
      /\ \A s \in SUBSET B : jt[s] \in Int
      /\ \A s \in SUBSET B : \A x \in s : jt[s] = x + jt[s \ {x}]
  <2>1. [x \in B |-> x] \in [B -> Int]
    BY <1>5
  <2>2. Adds(jt, [x \in B |-> x], B)
    BY <1>5, <1>7, <2>1, SumWithout
  <2>3. QED
    BY <2>2 DEF Adds
<1>10. \A s \in SUBSET A : M(s) \subseteq B
  BY DEF M
<1>11. \A s \in SUBSET A : s \in Q
  <2>1. {} \in Q
    <3>1. 0 * g + 0 = 0
      OBVIOUS
    <3>2. jt[M({})] = 0 /\ it[{}] = 0 /\ Cardinality({}) = 0
      BY <1>3, <1>8, <1>9
    <3>3. jt[M({})] = Cardinality({}) * g + it[{}]
      BY <3>1, <3>2
    <3>4. QED
      BY <3>3
  <2>2. ASSUME NEW s \in SUBSET A, NEW x \in A \ s, s \in Q
        PROVE  s \cup {x} \in Q
    <3> DEFINE n == Cardinality(s)
    <3>1. /\ n \in Nat /\ it[s] \in Int /\ x \in Int
          /\ jt[M(s)] = n * g + it[s]
      BY <1>1, <1>8, <2>2
    <3>2. jt[M(s \cup {x})] = (g + x) + jt[M(s)]
      <4>1. M(s \cup {x}) \subseteq B /\ g + x \in M(s \cup {x})
        BY <1>2, <1>10
      <4>2. M(s \cup {x}) \ {g + x} = M(s)
        BY <1>2
      <4>3. jt[M(s \cup {x})] = (g + x) + jt[M(s \cup {x}) \ {g + x}]
        BY <1>9, <4>1
      <4>4. QED
        BY <4>2, <4>3
    <3>3. it[s \cup {x}] = x + it[s]
      BY <1>2, <1>8
    <3>4. Cardinality(s \cup {x}) = n + 1
      BY <1>2
    <3> HIDE DEF n
    <3>5. (n + 1) * g = n * g + g /\ n * g \in Int
      BY <3>1
    <3>6. jt[M(s \cup {x})] = Cardinality(s \cup {x}) * g + it[s \cup {x}]
      BY <3>1, <3>2, <3>3, <3>4, <3>5
    <3>7. QED
      BY <3>6
  <2> HIDE DEF Q
  <2>3. QED
    BY <2>1, <2>2, OneByOne
<1>12. jt[M(A)] = Cardinality(A) * g + it[A]
  BY <1>11
<1>13. QED
  BY <1>6, <1>7, <1>5, <1>12

-----------------------------------------------------------------------------
(***************************************************************************)
(* SumFunction.                                                            *)
(***************************************************************************)
LEMMA SumFunctionIs ==
  ASSUME NEW S, IsFiniteSet(S), NEW f, DOMAIN f = S
  PROVE  \E it : Sums(it, f, S) /\ SumFunction(f) = it[S]
<1> DEFINE it == CHOOSE g : g = [s \in SUBSET S |->
                     IF s = {} THEN 0
                     ELSE f[CHOOSE x \in s : TRUE] + g[s \ {CHOOSE x \in s : TRUE}]]
<1>1. it = [s \in SUBSET S |->
              IF s = {} THEN 0
              ELSE f[CHOOSE x \in s : TRUE] + it[s \ {CHOOSE x \in s : TRUE}]]
  <2>1. \E g : g = [s \in SUBSET S |->
                     IF s = {} THEN 0
                     ELSE f[CHOOSE x \in s : TRUE] + g[s \ {CHOOSE x \in s : TRUE}]]
    <3>1. PICK g : Sums(g, f, S)
      BY SumsExist
    <3>2. QED
      BY <3>1 DEF Sums
  <2>2. QED
    BY <2>1, Zenon
<1>2. SumFunction(f) = it[S]
  BY DEF SumFunction, SumFunctionOnSet, FoldFunctionOnSet, MapThenFoldSet
<1> HIDE DEF it
<1>3. QED
  BY <1>1, <1>2 DEF Sums

\* Two sums of functions that agree on a set.
LEMMA SumsAgree ==
  ASSUME NEW S, IsFiniteSet(S), NEW f \in [S -> Int], NEW it, Sums(it, f, S),
         NEW T \in SUBSET S, NEW g \in [T -> Int], NEW jt, Sums(jt, g, T),
         \A x \in T : g[x] = f[x]
  PROVE  jt[T] = it[T]
<1> DEFINE P == {s \in SUBSET T : jt[s] = it[s]}
<1>1. IsFiniteSet(T)
  BY FS_Subset
<1>2. /\ it[{}] = 0
      /\ \A s \in SUBSET S : \A x \in s : it[s] = f[x] + it[s \ {x}]
  BY SumWithout DEF Adds
<1>3. /\ jt[{}] = 0
      /\ \A s \in SUBSET T : \A x \in s : jt[s] = g[x] + jt[s \ {x}]
  BY <1>1, SumWithout DEF Adds
<1>4. {} \in P
  BY <1>2, <1>3
<1>5. ASSUME NEW s \in SUBSET T, NEW x \in T \ s, s \in P
      PROVE  s \cup {x} \in P
  <2>1. /\ s \cup {x} \in SUBSET T /\ s \cup {x} \in SUBSET S
        /\ x \in s \cup {x} /\ (s \cup {x}) \ {x} = s
    BY <1>5
  <2>2. it[s \cup {x}] = f[x] + it[s] /\ jt[s \cup {x}] = g[x] + jt[s]
    BY <1>2, <1>3, <2>1
  <2>3. jt[s] = it[s] /\ g[x] = f[x]
    BY <1>5
  <2>4. QED
    BY <2>1, <2>2, <2>3
<1>6. \A s \in SUBSET T : s \in P
  <2> HIDE DEF P
  <2>1. QED
    BY <1>1, <1>4, <1>5, OneByOne
<1>7. QED
  BY <1>6

\* The function on a part of its domain.
Part(f, s) == [x \in s |-> f[x]]

\* A sum is a number, 0 over nothing, and one more member adds its value.
SumsUp(f, S) ==
  /\ SumFunction(f) \in Int
  /\ SumFunction(Part(f, {})) = 0
  /\ \A s \in SUBSET S : SumFunction(Part(f, s)) \in Int
  /\ \A s \in SUBSET S : \A x \in S \ s :
       SumFunction(Part(f, s \cup {x})) = f[x] + SumFunction(Part(f, s))

LEMMA SumOneMore ==
  ASSUME NEW S, IsFiniteSet(S), NEW f \in [S -> Int]
  PROVE  SumsUp(f, S) /\ Part(f, S) = f
<1>1. PICK it : Sums(it, f, S) /\ SumFunction(f) = it[S]
  BY SumFunctionIs
<1>2. /\ it[{}] = 0
      /\ \A s \in SUBSET S : it[s] \in Int
      /\ \A s \in SUBSET S : \A x \in s : it[s] = f[x] + it[s \ {x}]
  BY <1>1, SumWithout DEF Adds
<1>3. ASSUME NEW s \in SUBSET S
      PROVE  SumFunction(Part(f, s)) = it[s]
  <2>1. IsFiniteSet(s)
    BY FS_Subset
  <2>2. Part(f, s) \in [s -> Int] /\ \A x \in s : Part(f, s)[x] = f[x]
    BY DEF Part
  <2>3. PICK jt : Sums(jt, Part(f, s), s) /\ SumFunction(Part(f, s)) = jt[s]
    BY <2>1, <2>2, SumFunctionIs
  <2>4. jt[s] = it[s]
    BY <1>1, <2>2, <2>3, SumsAgree
  <2>5. QED
    BY <2>3, <2>4
<1>4. ASSUME NEW s \in SUBSET S, NEW x \in S \ s
      PROVE  SumFunction(Part(f, s \cup {x})) = f[x] + SumFunction(Part(f, s))
  <2>1. /\ s \cup {x} \in SUBSET S /\ x \in s \cup {x} /\ (s \cup {x}) \ {x} = s
    BY <1>4
  <2>2. it[s \cup {x}] = f[x] + it[s]
    BY <1>2, <2>1
  <2>3. QED
    BY <1>3, <2>1, <2>2
<1>5. Part(f, S) = f
  BY DEF Part
<1>6. QED
  BY <1>1, <1>2, <1>3, <1>4, <1>5 DEF SumsUp

-----------------------------------------------------------------------------
\* h is f times a plus g times b, member by member.
Combined(h, a, f, b, g, S) == \A x \in S : h[x] = a * f[x] + b * g[x]
Added(h, f, g, S) == \A x \in S : h[x] = f[x] + g[x]

\* A sum of multiples.
LEMMA SumLinear ==
  ASSUME NEW S, IsFiniteSet(S), NEW f \in [S -> Int], NEW g \in [S -> Int],
         NEW h \in [S -> Int], NEW a \in Int, NEW b \in Int,
         Combined(h, a, f, b, g, S)
  PROVE  SumFunction(h) = a * SumFunction(f) + b * SumFunction(g)
<1> DEFINE P == {s \in SUBSET S : SumFunction(Part(h, s))
                                    = a * SumFunction(Part(f, s)) + b * SumFunction(Part(g, s))}
<1>1. SumsUp(f, S) /\ SumsUp(g, S) /\ SumsUp(h, S)
  BY SumOneMore
<1>2. {} \in P
  BY <1>1 DEF SumsUp
<1>3. ASSUME NEW s \in SUBSET S, NEW x \in S \ s, s \in P
      PROVE  s \cup {x} \in P
  <2> DEFINE F == SumFunction(Part(f, s))
             G == SumFunction(Part(g, s))
             H == SumFunction(Part(h, s))
  <2>1. F \in Int /\ G \in Int /\ H \in Int
    BY <1>1 DEF SumsUp
  <2>2. /\ SumFunction(Part(f, s \cup {x})) = f[x] + F
        /\ SumFunction(Part(g, s \cup {x})) = g[x] + G
        /\ SumFunction(Part(h, s \cup {x})) = h[x] + H
    BY <1>1 DEF SumsUp
  <2>3. H = a * F + b * G
    BY <1>3
  <2> HIDE DEF F, G, H
  <2>4. f[x] \in Int /\ g[x] \in Int /\ h[x] = a * f[x] + b * g[x]
    BY DEF Combined
  <2>5. h[x] + H = a * (f[x] + F) + b * (g[x] + G)
    BY <2>1, <2>3, <2>4
  <2>6. QED
    BY <1>3, <2>2, <2>5
<1>4. \A s \in SUBSET S : s \in P
  <2> HIDE DEF P
  <2>1. QED
    BY <1>2, <1>3, OneByOne
<1>5. QED
  BY <1>4, SumOneMore

LEMMA SumPlus ==
  ASSUME NEW S, IsFiniteSet(S), NEW f \in [S -> Int], NEW g \in [S -> Int],
         NEW h \in [S -> Int], Added(h, f, g, S)
  PROVE  SumFunction(h) = SumFunction(f) + SumFunction(g)
<1> DEFINE one == 1
<1>1. Combined(h, one, f, one, g, S)
  BY DEF Combined, Added
<1>2. one \in Int /\ SumFunction(f) \in Int /\ SumFunction(g) \in Int
  BY SumOneMore DEF SumsUp
<1> HIDE DEF one
<1>3. SumFunction(h) = one * SumFunction(f) + one * SumFunction(g)
  BY <1>1, <1>2, SumLinear
<1>4. QED
  BY <1>2, <1>3 DEF one

\* Where the summands vanish outside of a part, that part has the sum.
LEMMA SumOfPart ==
  ASSUME NEW S, IsFiniteSet(S), NEW T \in SUBSET S, NEW f \in [S -> Int],
         \A x \in S \ T : f[x] = 0
  PROVE  SumFunction(f) = SumFunction(Part(f, T))
<1> DEFINE P == {s \in SUBSET S : SumFunction(Part(f, s)) = SumFunction(Part(f, s \cap T))}
<1>1. SumsUp(f, S)
  BY SumOneMore
<1>2. {} \in P
  OBVIOUS
<1>3. ASSUME NEW s \in SUBSET S, NEW x \in S \ s, s \in P
      PROVE  s \cup {x} \in P
  <2>1. SumFunction(Part(f, s \cup {x})) = f[x] + SumFunction(Part(f, s))
    BY <1>1 DEF SumsUp
  <2>2. CASE x \in T
    <3>1. (s \cup {x}) \cap T = (s \cap T) \cup {x} /\ x \notin s \cap T
      BY <2>2
    <3>2. SumFunction(Part(f, (s \cap T) \cup {x})) = f[x] + SumFunction(Part(f, s \cap T))
      BY <1>1, <3>1 DEF SumsUp
    <3>3. QED
      BY <1>3, <2>1, <3>1, <3>2
  <2>3. CASE x \notin T
    <3>1. (s \cup {x}) \cap T = s \cap T /\ f[x] = 0
      BY <2>3
    <3>2. SumFunction(Part(f, s)) \in Int
      BY <1>1 DEF SumsUp
    <3>3. SumFunction(Part(f, (s \cup {x}) \cap T)) = SumFunction(Part(f, s \cap T))
      BY <3>1, Zenon
    <3>4. QED
      BY <1>3, <2>1, <3>1, <3>2, <3>3
  <2>4. QED
    BY <2>2, <2>3
<1>4. \A s \in SUBSET S : s \in P
  <2> HIDE DEF P
  <2>1. QED
    BY <1>2, <1>3, OneByOne
<1>5. S \cap T = T
  OBVIOUS
<1>6. QED
  BY <1>4, <1>5, SumOneMore

\* Ones count.
LEMMA SumOfOnes ==
  ASSUME NEW S, IsFiniteSet(S), NEW f \in [S -> Int], NEW T \in SUBSET S,
         \A x \in S : f[x] = IF x \in T THEN 1 ELSE 0
  PROVE  SumFunction(f) = Cardinality(T)
<1> DEFINE P == {s \in SUBSET S : SumFunction(Part(f, s)) = Cardinality(s \cap T)}
<1>1. SumsUp(f, S)
  BY SumOneMore
<1>2. {} \in P
  BY <1>1, FS_EmptySet DEF SumsUp
<1>3. ASSUME NEW s \in SUBSET S, NEW x \in S \ s, s \in P
      PROVE  s \cup {x} \in P
  <2>1. SumFunction(Part(f, s \cup {x})) = f[x] + SumFunction(Part(f, s))
    BY <1>1 DEF SumsUp
  <2>2. IsFiniteSet(s \cap T) /\ Cardinality(s \cap T) \in Nat
    BY FS_Subset, FS_CardinalityType
  <2>3. CASE x \in T
    <3>1. (s \cup {x}) \cap T = (s \cap T) \cup {x} /\ x \notin s \cap T
      BY <2>3
    <3>2. Cardinality((s \cap T) \cup {x}) = Cardinality(s \cap T) + 1
      BY <2>2, <3>1, FS_AddElement
    <3>3. QED
      BY <1>3, <2>1, <2>2, <2>3, <3>1, <3>2
  <2>4. CASE x \notin T
    <3>1. (s \cup {x}) \cap T = s \cap T /\ f[x] = 0
      BY <2>4
    <3>2. Cardinality((s \cup {x}) \cap T) = Cardinality(s \cap T)
      BY <3>1, Zenon
    <3>3. QED
      BY <1>3, <2>1, <2>2, <3>1, <3>2
  <2>5. QED
    BY <2>3, <2>4
<1>4. \A s \in SUBSET S : s \in P
  <2> HIDE DEF P
  <2>1. QED
    BY <1>2, <1>3, OneByOne
<1>5. S \cap T = T
  OBVIOUS
<1>6. QED
  BY <1>4, <1>5, SumOneMore

\* Positive summands.
LEMMA SumIsPositive ==
  ASSUME NEW S, IsFiniteSet(S), S # {}, NEW f \in [S -> Int], \A x \in S : f[x] > 0
  PROVE  SumFunction(f) > 0
<1> DEFINE P == {s \in SUBSET S : /\ SumFunction(Part(f, s)) >= 0
                                  /\ s # {} => SumFunction(Part(f, s)) > 0}
<1>1. SumsUp(f, S)
  BY SumOneMore
<1>2. {} \in P
  BY <1>1 DEF SumsUp
<1>3. ASSUME NEW s \in SUBSET S, NEW x \in S \ s, s \in P
      PROVE  s \cup {x} \in P
  <2>1. SumFunction(Part(f, s \cup {x})) = f[x] + SumFunction(Part(f, s))
    BY <1>1 DEF SumsUp
  <2>2. SumFunction(Part(f, s)) \in Int /\ f[x] \in Int /\ f[x] > 0
    BY <1>1 DEF SumsUp
  <2>3. QED
    BY <1>3, <2>1, <2>2
<1>4. \A s \in SUBSET S : s \in P
  <2> HIDE DEF P
  <2>1. QED
    BY <1>2, <1>3, OneByOne
<1>5. QED
  BY <1>4, SumOneMore

\* One summand.
LEMMA SumOfSingle ==
  ASSUME NEW S, IsFiniteSet(S), NEW f \in [S -> Int], NEW h \in S, \A x \in S \ {h} : f[x] = 0
  PROVE  SumFunction(f) = f[h]
<1>1. PICK it : Sums(it, f, S) /\ SumFunction(f) = it[S]
  BY SumFunctionIs
<1>2. QED
  BY <1>1, SumOfOne

\* Rows and columns.
LEMMA SumSwap ==
  ASSUME NEW S, IsFiniteSet(S), NEW R, IsFiniteSet(R), NEW F \in [S -> [R -> Int]]
  PROVE  SumFunction([r \in R |-> SumFunction([x \in S |-> F[x][r]])])
           = SumFunction([x \in S |-> SumFunction(F[x])])
<1> DEFINE column(r) == [x \in S |-> F[x][r]]
           rows == [x \in S |-> SumFunction(F[x])]
           g(s) == [r \in R |-> SumFunction(Part(column(r), s))]
           P == {s \in SUBSET S : SumFunction(g(s)) = SumFunction(Part(rows, s))}
<1>1. \A r \in R : column(r) \in [S -> Int] /\ \A x \in S : column(r)[x] = F[x][r]
  OBVIOUS
<1>2. \A x \in S : F[x] \in [R -> Int]
  OBVIOUS
<1>3. rows \in [S -> Int] /\ \A x \in S : rows[x] = SumFunction(F[x])
  <2>1. \A x \in S : SumFunction(F[x]) \in Int
    BY <1>2, SumOneMore DEF SumsUp
  <2>2. QED
    BY <2>1
<1> HIDE DEF column, rows
<1>4. \A r \in R : SumsUp(column(r), S) /\ Part(column(r), S) = column(r)
  BY <1>1, SumOneMore
<1>5. SumsUp(rows, S) /\ Part(rows, S) = rows
  BY <1>3, SumOneMore
<1>6. \A s \in SUBSET S :
        /\ g(s) \in [R -> Int]
        /\ \A r \in R : g(s)[r] = SumFunction(Part(column(r), s))
  BY <1>4 DEF SumsUp
<1> HIDE DEF g
<1>7. {} \in P
  <2>1. \A r \in R : g({})[r] = 0
    BY <1>4, <1>6 DEF SumsUp
  <2>2. SumFunction(g({})) = SumFunction(Part(g({}), {}))
    BY <1>6, <2>1, SumOfPart
  <2>3. SumFunction(Part(g({}), {})) = 0
    BY <1>6, SumOneMore DEF SumsUp
  <2>4. QED
    BY <1>5, <2>2, <2>3 DEF SumsUp
<1>8. ASSUME NEW s \in SUBSET S, NEW x \in S \ s, s \in P
      PROVE  s \cup {x} \in P
  <2>1. s \cup {x} \in SUBSET S
    BY <1>8
  <2>2. ASSUME NEW r \in R
        PROVE  g(s \cup {x})[r] = F[x][r] + g(s)[r]
    <3>1. SumFunction(Part(column(r), s \cup {x}))
            = column(r)[x] + SumFunction(Part(column(r), s))
      BY <1>4 DEF SumsUp
    <3>2. column(r)[x] = F[x][r] /\ F[x][r] \in Int /\ g(s)[r] \in Int
      BY <1>1, <1>2, <1>6
    <3>3. QED
      BY <1>6, <2>1, <3>1, <3>2
  <2>3. SumFunction(g(s \cup {x})) = SumFunction(F[x]) + SumFunction(g(s))
    <3>1. g(s \cup {x}) \in [R -> Int] /\ g(s) \in [R -> Int] /\ F[x] \in [R -> Int]
      BY <1>2, <1>6, <2>1
    <3>2. Added(g(s \cup {x}), F[x], g(s), R)
      BY <2>2 DEF Added
    <3> DEFINE h == g(s \cup {x})
               c == F[x]
               d == g(s)
    <3>3. h \in [R -> Int] /\ c \in [R -> Int] /\ d \in [R -> Int] /\ Added(h, c, d, R)
      BY <3>1, <3>2
    <3> HIDE DEF h, c, d, P
    <3>4. SumFunction(h) = SumFunction(c) + SumFunction(d)
      BY <3>3, SumPlus
    <3>5. QED
      BY <3>4 DEF h, c, d
  <2>4. SumFunction(Part(rows, s \cup {x})) = rows[x] + SumFunction(Part(rows, s))
    BY <1>5 DEF SumsUp
  <2>5. rows[x] \in Int /\ SumFunction(Part(rows, s)) \in Int /\ rows[x] = SumFunction(F[x])
    BY <1>3, <1>5 DEF SumsUp
  <2>6. QED
    BY <1>8, <2>1, <2>3, <2>4, <2>5
<1>9. \A s \in SUBSET S : s \in P
  <2> HIDE DEF P
  <2>1. QED
    BY <1>7, <1>8, OneByOne
<1>10. SumFunction(g(S)) = SumFunction(rows)
  BY <1>5, <1>9
<1>11. g(S) = [r \in R |-> SumFunction([x \in S |-> F[x][r]])]
  BY <1>4 DEF g, column
<1>12. QED
  BY <1>10, <1>11 DEF rows

\* Members that are spread over places are all of them together.
LEMMA SumSpread ==
  ASSUME NEW S, IsFiniteSet(S), NEW R, IsFiniteSet(R), NEW at \in [S -> R], NEW f \in [S -> Int]
  PROVE  SumFunction([r \in R |-> SumFunction([x \in S |-> IF at[x] = r THEN f[x] ELSE 0])])
           = SumFunction(f)
<1> DEFINE F == [x \in S |-> [r \in R |-> IF at[x] = r THEN f[x] ELSE 0]]
<1>1. F \in [S -> [R -> Int]]
  OBVIOUS
<1>2. SumFunction([r \in R |-> SumFunction([x \in S |-> F[x][r]])])
        = SumFunction([x \in S |-> SumFunction(F[x])])
  <2> HIDE DEF F
  <2>1. QED
    BY <1>1, SumSwap
<1>3. \A x \in S : SumFunction(F[x]) = f[x]
  <2>1. SUFFICES ASSUME NEW x \in S PROVE SumFunction(F[x]) = f[x]
    OBVIOUS
  <2>2. /\ F[x] \in [R -> Int] /\ at[x] \in R /\ F[x][at[x]] = f[x]
        /\ \A r \in R \ {at[x]} : F[x][r] = 0
    OBVIOUS
  <2> HIDE DEF F
  <2>3. QED
    BY <2>2, SumOfSingle
<1>4. [x \in S |-> SumFunction(F[x])] = f
  <2> HIDE DEF F
  <2>1. QED
    BY <1>3
<1>5. \A r \in R : [x \in S |-> F[x][r]] = [x \in S |-> IF at[x] = r THEN f[x] ELSE 0]
  OBVIOUS
<1>6. [r \in R |-> SumFunction([x \in S |-> F[x][r]])]
        = [r \in R |-> SumFunction([x \in S |-> IF at[x] = r THEN f[x] ELSE 0])]
  <2> HIDE DEF F
  <2>1. QED
    BY <1>5
<1> HIDE DEF F
<1>7. QED
  BY <1>2, <1>4, <1>6

\* A sum over pairs, row by row.
SumOfRows(g, S, T) == SumFunction([x \in S |-> SumFunction([y \in T |-> g[<<x, y>>]])])

LEMMA SumPairs ==
  ASSUME NEW S, IsFiniteSet(S), NEW T, IsFiniteSet(T), NEW g \in [S \X T -> Int]
  PROVE  SumFunction(g) = SumOfRows(g, S, T)
<1> DEFINE row(x) == [y \in T |-> g[<<x, y>>]]
           rows == [x \in S |-> SumFunction(row(x))]
           P == {s \in SUBSET S : SumFunction(Part(g, s \X T)) = SumFunction(Part(rows, s))}
<1>1. \A x \in S : row(x) \in [T -> Int] /\ \A y \in T : row(x)[y] = g[<<x, y>>]
  OBVIOUS
<1> HIDE DEF row
<1>2. \A x \in S : SumsUp(row(x), T) /\ Part(row(x), T) = row(x)
  BY <1>1, SumOneMore
<1>3. rows \in [S -> Int] /\ \A x \in S : rows[x] = SumFunction(row(x))
  BY <1>2 DEF SumsUp
<1> HIDE DEF rows
<1>4. SumsUp(rows, S) /\ Part(rows, S) = rows
  BY <1>3, SumOneMore
<1>5. IsFiniteSet(S \X T)
  BY FS_Product
<1>6. SumsUp(g, S \X T) /\ Part(g, S \X T) = g
  BY <1>5, SumOneMore
<1>7. {} \in P
  <2>1. {} \X T = {}
    OBVIOUS
  <2>2. SumFunction(Part(g, {} \X T)) = 0
    BY <1>6, <2>1, Zenon DEF SumsUp
  <2>3. QED
    BY <1>4, <2>2 DEF SumsUp
<1>8. ASSUME NEW s \in SUBSET S, NEW x \in S \ s, s \in P
      PROVE  s \cup {x} \in P
  <2> DEFINE old == s \X T
             more(t) == old \cup ({x} \X t)
             Q == {t \in SUBSET T : SumFunction(Part(g, more(t)))
                                      = SumFunction(Part(g, old)) + SumFunction(Part(row(x), t))}
  <2>1. old \in SUBSET (S \X T) /\ \A t \in SUBSET T : more(t) \in SUBSET (S \X T)
    BY <1>8
  <2>2. SumFunction(Part(g, old)) \in Int
    BY <1>6, <2>1 DEF SumsUp
  <2>3. \A t \in SUBSET T : \A y \in T \ t :
          /\ more(t \cup {y}) = more(t) \cup {<<x, y>>}
          /\ <<x, y>> \in (S \X T) \ more(t)
    BY <1>8
  <2>4. more({}) = old
    OBVIOUS
  <2> HIDE DEF old, more
  <2>5. {} \in Q
    <3>1. SumFunction(Part(g, more({}))) = SumFunction(Part(g, old))
      BY <2>4, Zenon
    <3>2. SumFunction(Part(row(x), {})) = 0
      BY <1>2, <1>8 DEF SumsUp
    <3>3. QED
      BY <2>2, <3>1, <3>2
  <2>6. ASSUME NEW t \in SUBSET T, NEW y \in T \ t, t \in Q
        PROVE  t \cup {y} \in Q
    <3>1. SumFunction(Part(row(x), t \cup {y})) = row(x)[y] + SumFunction(Part(row(x), t))
      BY <1>2, <1>8 DEF SumsUp
    <3>2. SumFunction(Part(g, more(t) \cup {<<x, y>>})) = g[<<x, y>>] + SumFunction(Part(g, more(t)))
      BY <1>6, <2>1, <2>3 DEF SumsUp
    <3>3. SumFunction(Part(g, more(t \cup {y}))) = SumFunction(Part(g, more(t) \cup {<<x, y>>}))
      BY <2>3, Zenon
    <3>4. /\ row(x)[y] = g[<<x, y>>] /\ g[<<x, y>>] \in Int
          /\ SumFunction(Part(row(x), t)) \in Int
      BY <1>1, <1>2, <1>8 DEF SumsUp
    <3>5. QED
      BY <2>2, <2>6, <3>1, <3>2, <3>3, <3>4
  <2>7. \A t \in SUBSET T : t \in Q
    <3> HIDE DEF Q
    <3>1. QED
      BY <2>5, <2>6, OneByOne
  <2>8. SumFunction(Part(g, more(T))) = SumFunction(Part(g, old)) + SumFunction(row(x))
    BY <1>2, <1>8, <2>7
  <2>9. more(T) = (s \cup {x}) \X T
    BY DEF more, old
  <2>10. SumFunction(Part(g, more(T))) = SumFunction(Part(g, (s \cup {x}) \X T))
    BY <2>9, Zenon
  <2>11. SumFunction(Part(rows, s \cup {x})) = rows[x] + SumFunction(Part(rows, s))
    BY <1>4 DEF SumsUp
  <2>12. SumFunction(Part(g, old)) = SumFunction(Part(rows, s))
    BY <1>8 DEF old
  <2>13. rows[x] = SumFunction(row(x)) /\ rows[x] \in Int /\ SumFunction(Part(rows, s)) \in Int
    BY <1>3, <1>4, <1>8 DEF SumsUp
  <2>14. s \cup {x} \in SUBSET S
    BY <1>8
  <2>15. QED
    BY <2>8, <2>10, <2>11, <2>12, <2>13, <2>14
<1>9. \A s \in SUBSET S : s \in P
  <2> HIDE DEF P
  <2>1. QED
    BY <1>7, <1>8, OneByOne
<1>10. SumFunction(g) = SumFunction(rows)
  BY <1>4, <1>6, <1>9
<1>11. SumFunction(rows) = SumOfRows(g, S, T)
  BY Zenon DEF rows, row, SumOfRows
<1>12. QED
  BY <1>10, <1>11
=============================================================================
