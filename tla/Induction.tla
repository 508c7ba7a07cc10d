------------------------------ MODULE Induction ------------------------------
(***************************************************************************)
(* Induction over numbers, finite sets and sequences, and what rests on    *)
(* it: sums over finite sets as MapThenSumSet computes them, and sequences *)
(* as FlattenSeq puts them together.  A predicate is given as the set of   *)
(* what satisfies it, so that the statements are first-order.              *)
(***************************************************************************)
EXTENDS Integers, SequencesExt, FiniteSetTheorems, SequenceTheorems, WellFoundedInduction, TLAPS

(***************************************************************************)
(* Induction                                                               *)
(***************************************************************************)
\* A set that has 0, and with every number the next one, has them all.
LEMMA NatSetInduction ==
  ASSUME NEW S, 0 \in S, \A n \in Nat : n \in S => n + 1 \in S
  PROVE  Nat \subseteq S
<1> SUFFICES ASSUME NEW n \in Nat, n \notin S PROVE FALSE
  OBVIOUS
<1> DEFINE T == {1..m : m \in Nat \ S}
<1>1. IsWellFoundedOn(StrictSubsetOrdering(Nat), FiniteSubsetsOf(Nat))
  BY FS_StrictSubsetOrderingWellFounded
<1>2. T \subseteq FiniteSubsetsOf(Nat) /\ T # {}
  <2>1. \A m \in Nat : IsFiniteSet(1..m)
    BY FS_Interval
  <2>2. \A m \in Nat : 1..m \in SUBSET Nat
    OBVIOUS
  <2>3. \A m \in Nat \ S : 1..m \in FiniteSubsetsOf(Nat)
    BY <2>1, <2>2 DEF FiniteSubsetsOf
  <2> QED BY <2>3
<1>3. PICK M \in T : \A y \in T : ~(<<y, M>> \in StrictSubsetOrdering(Nat))
  <2> HIDE DEF T
  <2> QED BY <1>1, <1>2, WFMin, Zenon
<1>4. PICK m \in Nat \ S : M = 1..m
  OBVIOUS
<1>5. m - 1 \in Nat /\ m - 1 \notin S
  BY <1>4
<1>6. 1..m-1 \in T /\ 1..m-1 \subseteq 1..m /\ m \in 1..m /\ m \notin 1..m-1
  BY <1>4, <1>5
<1>7. <<1..m-1, M>> \in StrictSubsetOrdering(Nat)
  BY <1>2, <1>4, <1>6 DEF StrictSubsetOrdering
<1> QED BY <1>3, <1>6, <1>7

\* Sets of subsets of a finite set, from smaller ones to larger.
LEMMA FiniteSetInduction ==
  ASSUME NEW S, IsFiniteSet(S), NEW P, {} \in P,
         \A T \in SUBSET S : T # {} /\ (\A x \in T : T \ {x} \in P) => T \in P
  PROVE  SUBSET S \subseteq P
<1> SUFFICES ASSUME NEW U \in SUBSET S, U \notin P PROVE FALSE
  OBVIOUS
<1> DEFINE B == {T \in SUBSET S : T \notin P}
<1>1. IsWellFoundedOn(StrictSubsetOrdering(S), FiniteSubsetsOf(S))
  BY FS_StrictSubsetOrderingWellFounded
<1>2. B \subseteq FiniteSubsetsOf(S) /\ B # {}
  BY FS_Subset DEF FiniteSubsetsOf
<1>3. PICK M \in B : \A y \in B : ~(<<y, M>> \in StrictSubsetOrdering(S))
  <2> HIDE DEF B
  <2> QED BY <1>1, <1>2, WFMin, Zenon
<1>4. PICK x \in M : M \ {x} \notin P
  OBVIOUS
<1>5. M \ {x} \in B /\ <<M \ {x}, M>> \in StrictSubsetOrdering(S)
  BY <1>4 DEF StrictSubsetOrdering
<1> QED BY <1>3, <1>5

\* A set of numbers that is not empty has a least one.
LEMMA LeastNumber ==
  ASSUME NEW I \in SUBSET Nat, I # {}
  PROVE  \E m \in I : \A i \in I : m <= i
<1> SUFFICES ASSUME \A m \in I : \E i \in I : i < m PROVE FALSE
  OBVIOUS
<1> DEFINE S == {n \in Nat : \A i \in I : n < i}
<1>1. 0 \in S
  OBVIOUS
<1>2. ASSUME NEW n \in Nat, n \in S PROVE n + 1 \in S
  BY <1>2
<1>3. Nat \subseteq S
  <2> HIDE DEF S
  <2> QED BY <1>1, <1>2, NatSetInduction
<1>4. PICK i \in I : TRUE
  OBVIOUS
<1>5. i \in S
  BY <1>3
<1> QED BY <1>5

\* A set that has the empty sequence, and with every sequence those one longer.
LEMMA SeqSetInduction ==
  ASSUME NEW V, NEW P, <<>> \in P,
         \A s \in Seq(V), x \in V : s \in P => Append(s, x) \in P
  PROVE  Seq(V) \subseteq P
<1> DEFINE N == {n \in Nat : \A s \in Seq(V) : Len(s) = n => s \in P}
<1>1. 0 \in N
  BY EmptySeq
<1>2. ASSUME NEW n \in Nat, n \in N PROVE n + 1 \in N
  <2> SUFFICES ASSUME NEW s \in Seq(V), Len(s) = n + 1 PROVE s \in P
    OBVIOUS
  <2>1. PICK q \in Seq(V), x \in V : s = Append(q, x)
    BY SequenceEmptyOrAppend, EmptySeq
  <2>2. Len(q) = n
    BY <2>1, AppendProperties, LenProperties
  <2> QED BY <1>2, <2>1, <2>2
<1>3. Nat \subseteq N
  <2> HIDE DEF N
  <2> QED BY <1>1, <1>2, NatSetInduction
<1> QED BY <1>3, LenProperties

LEMMA AppendOfConcat ==
  ASSUME NEW V, NEW s \in Seq(V), NEW t \in Seq(V), NEW x \in V
  PROVE  s \o Append(t, x) = Append(s \o t, x)
<1>1. Append(t, x) = t \o <<x>> /\ Append(s \o t, x) = (s \o t) \o <<x>>
  BY AppendIsConcat, ConcatProperties
<1>2. <<x>> \in Seq(V)
  OBVIOUS
<1> QED BY <1>1, <1>2, ConcatAssociative

(***************************************************************************)
(* Sums.  A sum over the subsets of S takes one element at a time.         *)
(***************************************************************************)
Pick(T) == CHOOSE x \in T : TRUE

Sums(f, F, S) ==
  \A T \in SUBSET S : f[T] = IF T = {} THEN 0 ELSE F[Pick(T)] + f[T \ {Pick(T)}]

LEMMA SumExists ==
  ASSUME NEW S, IsFiniteSet(S), NEW F \in [S -> Int]
  PROVE  \E f \in [SUBSET S -> Int] : Sums(f, F, S)
<1> DEFINE D(n) == {T \in SUBSET S : Cardinality(T) <= n}
           Q(f, n) == \A T \in D(n) :
                        f[T] = IF T = {} THEN 0 ELSE F[Pick(T)] + f[T \ {Pick(T)}]
           N == {n \in Nat : \E f \in [D(n) -> Int] : Q(f, n)}
<1>1. \A T \in SUBSET S : Cardinality(T) \in Nat /\ Cardinality(T) <= Cardinality(S)
  BY FS_Subset, FS_CardinalityType
<1>2. \A T \in SUBSET S : T # {} => /\ Pick(T) \in T
                                    /\ Cardinality(T \ {Pick(T)}) = Cardinality(T) - 1
  <2> TAKE T \in SUBSET S
  <2> HAVE T # {}
  <2>1. IsFiniteSet(T)
    BY FS_Subset
  <2>2. Pick(T) \in T
    BY DEF Pick
  <2> QED BY <2>1, <2>2, FS_RemoveElement
<1>3. 0 \in N
  <2> DEFINE f == [T \in D(0) |-> 0]
  <2>1. \A T \in D(0) : T = {}
    <3> TAKE T \in D(0)
    <3>1. T \in SUBSET S /\ Cardinality(T) <= 0
      OBVIOUS
    <3>2. T # {} => Cardinality(T \ {Pick(T)}) = Cardinality(T) - 1 /\ T \ {Pick(T)} \in SUBSET S
      BY <1>2, <3>1
    <3> HIDE DEF D
    <3> QED BY <1>1, <3>1, <3>2
  <2>2. f \in [D(0) -> Int]
    OBVIOUS
  <2>3. Q(f, 0)
    BY <2>1
  <2> QED BY <2>2, <2>3
<1>4. ASSUME NEW n \in Nat, n \in N PROVE n + 1 \in N
  <2>1. PICK f \in [D(n) -> Int] : Q(f, n)
    BY <1>4
  <2> DEFINE g == [T \in D(n + 1) |-> IF T \in D(n) THEN f[T]
                                      ELSE F[Pick(T)] + f[T \ {Pick(T)}]]
  <2>2. \A T \in D(n + 1) : T # {} => /\ Pick(T) \in S /\ T \ {Pick(T)} \in D(n)
                                      /\ T \ {Pick(T)} \in D(n + 1)
    BY <1>1, <1>2
  <2>3. \A T \in D(n + 1) : T = {} => T \in D(n)
    BY <1>1, FS_EmptySet
  <2>4. g \in [D(n + 1) -> Int]
    BY <2>1, <2>2, <2>3
  <2>5. Q(g, n + 1)
    BY <2>1, <2>2, <2>3
  <2> HIDE DEF g, D, Q
  <2>6. \E h \in [D(n + 1) -> Int] : Q(h, n + 1)
    BY <2>4, <2>5
  <2> QED BY <2>6
<1>5. Cardinality(S) \in N
  <2> HIDE DEF N
  <2>1. Cardinality(S) \in Nat
    BY FS_CardinalityType
  <2> QED BY <1>3, <1>4, <2>1, NatSetInduction
<1>6. D(Cardinality(S)) = SUBSET S
  BY <1>1
<1> QED BY <1>5, <1>6 DEF Sums

\* The sum of differences is the difference of the sums, whatever functions
\* satisfy the three recursions.
LEMMA SumDifference ==
  ASSUME NEW S, IsFiniteSet(S),
         NEW F \in [S -> Int], NEW G \in [S -> Int], NEW H \in [S -> Int],
         \A x \in S : F[x] = G[x] - H[x],
         NEW f, Sums(f, F, S), NEW g, Sums(g, G, S), NEW h, Sums(h, H, S)
  PROVE  f[S] = g[S] - h[S] /\ f[S] \in Int /\ g[S] \in Int /\ h[S] \in Int
<1> DEFINE P == {T \in SUBSET S : /\ f[T] \in Int /\ g[T] \in Int /\ h[T] \in Int
                                  /\ f[T] = g[T] - h[T]}
<1>1. {} \in P
  <2>1. f[{}] = 0 /\ g[{}] = 0 /\ h[{}] = 0
    BY DEF Sums
  <2> QED BY <2>1
<1>2. ASSUME NEW T \in SUBSET S, T # {}, \A x \in T : T \ {x} \in P PROVE T \in P
  <2> DEFINE x == Pick(T)
             R == T \ {x}
  <2>1. x \in T
    BY <1>2 DEF Pick
  <2>2. R \in P
    BY <1>2, <2>1
  <2>3. f[T] = F[x] + f[R] /\ g[T] = G[x] + g[R] /\ h[T] = H[x] + h[R]
    BY <1>2 DEF Sums
  <2> HIDE DEF R, x
  <2>4. F[x] \in Int /\ G[x] \in Int /\ H[x] \in Int /\ F[x] = G[x] - H[x]
    BY <2>1
  <2> QED BY <2>2, <2>3, <2>4
<1>3. S \in P
  <2> HIDE DEF P
  <2> QED BY <1>1, <1>2, FiniteSetInduction
<1> QED BY <1>3

(***************************************************************************)
(* FlattenSeq                                                              *)
(***************************************************************************)
\* The recursion FlattenSeq uses has one solution, of sequences.
Flattens(f, s) ==
  \A i \in 1..Len(s) : f[i] = IF i = 1 THEN s[i] ELSE f[i - 1] \o s[i]

Longer(f, n, x) ==
  [i \in 1..n + 1 |-> IF i = n + 1 THEN IF n = 0 THEN x ELSE f[n] \o x ELSE f[i]]

LEMMA FlattensLonger ==
  ASSUME NEW V, NEW s \in Seq(Seq(V)), NEW x \in Seq(V),
         NEW f \in [1..Len(s) -> Seq(V)], Flattens(f, s)
  PROVE  /\ Longer(f, Len(s), x) \in [1..Len(Append(s, x)) -> Seq(V)]
         /\ Flattens(Longer(f, Len(s), x), Append(s, x))
<1> DEFINE n == Len(s)
           t == Append(s, x)
           g == [i \in 1..n + 1 |-> IF i = n + 1 THEN IF n = 0 THEN x ELSE f[n] \o x ELSE f[i]]
<1>1. /\ n \in Nat /\ t \in Seq(Seq(V)) /\ Len(t) = n + 1 /\ t[n + 1] = x
      /\ \A i \in 1..n : t[i] = s[i]
  BY AppendProperties, LenProperties
<1> HIDE DEF t
<1>2. g \in [1..n + 1 -> Seq(V)]
  <2>1. ASSUME n # 0 PROVE f[n] \o x \in Seq(V)
    <3>0. n \in 1..n
      BY <1>1, <2>1
    <3>1. f[n] \in Seq(V)
      BY <3>0
    <3> QED BY <3>1, ConcatProperties
  <2> QED BY <1>1, <2>1
<1>3. Flattens(g, t)
  <2> SUFFICES ASSUME NEW i \in 1..n + 1
               PROVE  g[i] = IF i = 1 THEN t[i] ELSE g[i - 1] \o t[i]
    BY <1>1 DEF Flattens
  <2>1. CASE i = n + 1
    BY <1>1, <2>1
  <2>2. CASE i # n + 1
    <3>1. i \in 1..n /\ (i # 1 => i - 1 \in 1..n)
      BY <1>1, <2>2
    <3>2. f[i] = IF i = 1 THEN s[i] ELSE f[i - 1] \o s[i]
      BY <3>1 DEF Flattens
    <3>3. g[i] = f[i] /\ (i # 1 => g[i - 1] = f[i - 1]) /\ t[i] = s[i]
      BY <1>1, <2>2, <3>1
    <3> QED BY <3>2, <3>3
  <2> QED BY <2>1, <2>2
<1> QED BY <1>1, <1>2, <1>3 DEF t, Longer

LEMMA FlattensExists ==
  ASSUME NEW V, NEW s \in Seq(Seq(V))
  PROVE  \E f \in [1..Len(s) -> Seq(V)] : Flattens(f, s)
<1> DEFINE P == {r \in Seq(Seq(V)) : \E f \in [1..Len(r) -> Seq(V)] : Flattens(f, r)}
<1>1. <<>> \in P
  <2> DEFINE f == [i \in 1..0 |-> <<>>]
  <2>1. <<>> \in Seq(Seq(V)) /\ Len(<<>>) = 0 /\ f \in [1..0 -> Seq(V)]
    OBVIOUS
  <2>2. Flattens(f, <<>>)
    BY <2>1 DEF Flattens
  <2> HIDE DEF f
  <2>3. \E g \in [1..Len(<<>>) -> Seq(V)] : Flattens(g, <<>>)
    BY <2>1, <2>2
  <2> QED BY <2>1, <2>3
<1>2. ASSUME NEW r \in Seq(Seq(V)), NEW x \in Seq(V), r \in P PROVE Append(r, x) \in P
  <2>1. PICK f \in [1..Len(r) -> Seq(V)] : Flattens(f, r)
    BY <1>2
  <2> QED BY <2>1, FlattensLonger, AppendProperties
<1>3. Seq(Seq(V)) \subseteq P
  <2> HIDE DEF P
  <2> QED BY <1>1, <1>2, SeqSetInduction
<1> QED BY <1>3

LEMMA FlattensUnique ==
  ASSUME NEW V, NEW s \in Seq(Seq(V)), NEW f, NEW g, Flattens(f, s), Flattens(g, s)
  PROVE  \A i \in 1..Len(s) : f[i] = g[i] /\ f[i] \in Seq(V)
<1> DEFINE S == {k \in Nat : k \in 1..Len(s) => f[k] = g[k] /\ f[k] \in Seq(V)}
<1>0. Len(s) \in Nat /\ \A i \in 1..Len(s) : s[i] \in Seq(V)
  OBVIOUS
<1>1. 0 \in S
  OBVIOUS
<1>2. ASSUME NEW k \in Nat, k \in S PROVE k + 1 \in S
  <2> SUFFICES ASSUME k + 1 \in 1..Len(s)
               PROVE  f[k + 1] = g[k + 1] /\ f[k + 1] \in Seq(V)
    OBVIOUS
  <2>1. CASE k = 0
    <3>1. f[1] = s[1] /\ g[1] = s[1]
      BY <2>1 DEF Flattens
    <3> QED BY <1>0, <2>1, <3>1
  <2>2. CASE k # 0
    <3>1. k \in 1..Len(s) /\ k + 1 # 1 /\ (k + 1) - 1 = k
      BY <1>0, <2>2
    <3>2. f[k] = g[k] /\ f[k] \in Seq(V)
      BY <1>2, <3>1
    <3>3. f[k + 1] = f[k] \o s[k + 1] /\ g[k + 1] = g[k] \o s[k + 1]
      BY <3>1 DEF Flattens
    <3> QED BY <1>0, <3>2, <3>3
  <2> QED BY <2>1, <2>2
<1>3. Nat \subseteq S
  <2> HIDE DEF S
  <2> QED BY <1>1, <1>2, NatSetInduction
<1> QED BY <1>0, <1>3

LEMMA FlattenIs ==
  ASSUME NEW V, NEW s \in Seq(Seq(V)), Len(s) # 0, NEW g, Flattens(g, s)
  PROVE  FlattenSeq(s) = g[Len(s)] /\ FlattenSeq(s) \in Seq(V)
<1> DEFINE Is(f) == f = [i \in 1..Len(s) |-> IF i = 1 THEN s[i] ELSE f[i - 1] \o s[i]]
           h == CHOOSE f : Is(f)
<1>1. \E f : Is(f)
  <2>1. PICK f \in [1..Len(s) -> Seq(V)] : Flattens(f, s)
    BY FlattensExists
  <2>2. Is(f)
    BY <2>1 DEF Flattens
  <2> QED BY <2>2
<1>2. Is(h)
  BY <1>1
<1>3. Flattens(h, s)
  BY <1>2 DEF Flattens
<1>4. FlattenSeq(s) = h[Len(s)]
  BY DEF FlattenSeq
<1> HIDE DEF h
<1>5. Len(s) \in 1..Len(s)
  OBVIOUS
<1> QED BY <1>3, <1>4, <1>5, FlattensUnique

LEMMA FlattenEmpty == FlattenSeq(<<>>) = <<>>
BY DEF FlattenSeq

LEMMA FlattenType ==
  ASSUME NEW V, NEW s \in Seq(Seq(V))
  PROVE  FlattenSeq(s) \in Seq(V)
<1>1. CASE Len(s) = 0
  <2>1. s = <<>> /\ <<>> \in Seq(V)
    BY <1>1, EmptySeq
  <2> QED BY <2>1, FlattenEmpty
<1>2. CASE Len(s) # 0
  BY <1>2, FlattensExists, FlattenIs
<1> QED BY <1>1, <1>2

LEMMA FlattenAppend ==
  ASSUME NEW V, NEW s \in Seq(Seq(V)), NEW x \in Seq(V)
  PROVE  FlattenSeq(Append(s, x)) = FlattenSeq(s) \o x
<1> DEFINE n == Len(s)
           t == Append(s, x)
<1>1. n \in Nat /\ t \in Seq(Seq(V)) /\ Len(t) = n + 1
  BY AppendProperties, LenProperties
<1>2. PICK f \in [1..n -> Seq(V)] : Flattens(f, s)
  BY FlattensExists
<1> DEFINE g == Longer(f, n, x)
<1>3. Flattens(g, t)
  BY <1>2, FlattensLonger
<1>4. FlattenSeq(t) = g[n + 1]
  <2>1. Len(t) # 0
    BY <1>1
  <2> HIDE DEF g, n
  <2> QED BY <1>1, <1>3, <2>1, FlattenIs
<1>5. CASE n = 0
  <2>1. s = <<>> /\ <<>> \o x = x /\ g[n + 1] = x
    BY <1>5, EmptySeq, ConcatEmptySeq DEF Longer
  <2> QED BY <1>4, <2>1, FlattenEmpty
<1>6. CASE n # 0
  <2>1. FlattenSeq(s) = f[n]
    BY <1>2, <1>6, FlattenIs
  <2>2. g[n + 1] = f[n] \o x
    BY <1>1, <1>6 DEF Longer
  <2> QED BY <1>4, <2>1, <2>2
<1> QED BY <1>5, <1>6

LEMMA FlattenConcat ==
  ASSUME NEW V, NEW s \in Seq(Seq(V)), NEW t \in Seq(Seq(V))
  PROVE  FlattenSeq(s \o t) = FlattenSeq(s) \o FlattenSeq(t)
<1> DEFINE P == {r \in Seq(Seq(V)) : FlattenSeq(s \o r) = FlattenSeq(s) \o FlattenSeq(r)}
<1>1. <<>> \in P
  <2>1. s \o <<>> = s /\ <<>> \in Seq(Seq(V))
    BY ConcatEmptySeq
  <2>2. FlattenSeq(s) \o <<>> = FlattenSeq(s)
    BY ConcatEmptySeq, FlattenType
  <2> QED BY <2>1, <2>2, FlattenEmpty
<1>2. ASSUME NEW q \in Seq(Seq(V)), NEW x \in Seq(V), q \in P PROVE Append(q, x) \in P
  <2>1. /\ Append(q, x) \in Seq(Seq(V)) /\ s \o q \in Seq(Seq(V))
        /\ s \o Append(q, x) = Append(s \o q, x)
    BY AppendOfConcat, AppendProperties, ConcatProperties
  <2>2. /\ FlattenSeq(Append(s \o q, x)) = FlattenSeq(s \o q) \o x
        /\ FlattenSeq(Append(q, x)) = FlattenSeq(q) \o x
    BY <2>1, FlattenAppend
  <2>3. (FlattenSeq(s) \o FlattenSeq(q)) \o x = FlattenSeq(s) \o (FlattenSeq(q) \o x)
    BY FlattenType, ConcatAssociative
  <2> QED BY <1>2, <2>1, <2>2, <2>3
<1>3. Seq(Seq(V)) \subseteq P
  <2> HIDE DEF P
  <2> QED BY <1>1, <1>2, SeqSetInduction
<1> QED BY <1>3

LEMMA FlattenOne ==
  ASSUME NEW V, NEW x \in Seq(V)
  PROVE  FlattenSeq(<<x>>) = x
<1>1. <<>> \in Seq(Seq(V)) /\ Append(<<>>, x) = <<x>> /\ <<>> \o x = x
  BY ConcatEmptySeq
<1>2. FlattenSeq(Append(<<>>, x)) = FlattenSeq(<<>>) \o x
  BY <1>1, FlattenAppend
<1> QED BY <1>1, <1>2, FlattenEmpty

\* Nothing comes of empty sequences.
LEMMA FlattenNothing ==
  ASSUME NEW s \in Seq({<<>>})
  PROVE  FlattenSeq(s) = <<>>
<1> DEFINE P == {r \in Seq({<<>>}) : FlattenSeq(r) = <<>>}
<1>1. <<>> \in P
  BY FlattenEmpty
<1>2. ASSUME NEW q \in Seq({<<>>}), NEW x \in {<<>>}, q \in P PROVE Append(q, x) \in P
  <2>1. x = <<>> /\ x \in Seq({0})
    OBVIOUS
  <2>2. q \in Seq(Seq({0}))
    BY <2>1, SeqMonotonic
  <2>3. FlattenSeq(Append(q, x)) = <<>> \o <<>> /\ <<>> \o <<>> = <<>>
    BY <1>2, <2>1, <2>2, FlattenAppend, ConcatEmptySeq
  <2> QED BY <2>3, AppendProperties
<1>3. Seq({<<>>}) \subseteq P
  <2> HIDE DEF P
  <2> QED BY <1>1, <1>2, SeqSetInduction
<1> QED BY <1>3

(***************************************************************************)
(* What a sequence gives when each element gives a few values, or none.    *)
(***************************************************************************)
Gives(P, V) == [P -> Seq(V)]
Through(g, s) == FlattenSeq([i \in DOMAIN s |-> g[s[i]]])

LEMMA ThroughTyped ==
  ASSUME NEW P, NEW V, NEW g \in Gives(P, V), NEW s \in Seq(P)
  PROVE  [i \in DOMAIN s |-> g[s[i]]] \in Seq(Seq(V)) /\ Through(g, s) \in Seq(V)
<1>1. DOMAIN s = 1..Len(s) /\ Len(s) \in Nat /\ \A i \in 1..Len(s) : s[i] \in P
  BY LenProperties, ElementOfSeq
<1>2. [i \in DOMAIN s |-> g[s[i]]] \in Seq(Seq(V))
  BY <1>1 DEF Gives
<1> QED BY <1>2, FlattenType DEF Through

LEMMA ThroughConcat ==
  ASSUME NEW P, NEW V, NEW g \in Gives(P, V), NEW s \in Seq(P), NEW t \in Seq(P)
  PROVE  Through(g, s \o t) = Through(g, s) \o Through(g, t)
<1> DEFINE G(r) == [i \in DOMAIN r |-> g[r[i]]]
<1>1. G(s) \in Seq(Seq(V)) /\ G(t) \in Seq(Seq(V)) /\ G(s \o t) \in Seq(Seq(V))
  <2>1. s \o t \in Seq(P)
    BY ConcatProperties
  <2> QED BY <2>1, ThroughTyped
<1>2. G(s \o t) = G(s) \o G(t)
  <2>1. /\ Len(G(s)) = Len(s) /\ Len(G(t)) = Len(t) /\ Len(G(s \o t)) = Len(s) + Len(t)
        /\ Len(s) \in Nat /\ Len(t) \in Nat
        /\ DOMAIN s = 1..Len(s) /\ DOMAIN t = 1..Len(t)
        /\ DOMAIN (s \o t) = 1..Len(s) + Len(t)
    BY LenProperties, ConcatProperties
  <2>2. ASSUME NEW i \in 1..Len(s) + Len(t)
        PROVE  G(s \o t)[i] = (G(s) \o G(t))[i]
    <3>1. (s \o t)[i] = IF i <= Len(s) THEN s[i] ELSE t[i - Len(s)]
      BY ConcatProperties
    <3>2. G(s \o t)[i] = g[(s \o t)[i]]
      BY <2>1
    <3>3. (G(s) \o G(t))[i] = IF i <= Len(s) THEN G(s)[i] ELSE G(t)[i - Len(s)]
      <4> HIDE DEF G
      <4> QED BY <1>1, <2>1, ConcatProperties
    <3>4. i <= Len(s) => G(s)[i] = g[s[i]]
      BY <2>1
    <3>5. ~(i <= Len(s)) => G(t)[i - Len(s)] = g[t[i - Len(s)]]
      BY <2>1
    <3> HIDE DEF G
    <3> QED BY <3>1, <3>2, <3>3, <3>4, <3>5
  <2> HIDE DEF G
  <2>3. G(s) \o G(t) \in Seq(Seq(V)) /\ Len(G(s) \o G(t)) = Len(s) + Len(t)
    <3>1. Len(G(s) \o G(t)) = Len(G(s)) + Len(G(t))
      BY <1>1, ConcatProperties
    <3> QED BY <1>1, <2>1, <3>1, ConcatProperties
  <2> QED BY <1>1, <2>1, <2>2, <2>3, SeqEqual
<1> HIDE DEF G
<1>3. FlattenSeq(G(s \o t)) = FlattenSeq(G(s)) \o FlattenSeq(G(t))
  BY <1>1, <1>2, FlattenConcat
<1> QED BY <1>3 DEF Through, G

LEMMA ThroughOne ==
  ASSUME NEW P, NEW V, NEW g \in Gives(P, V), NEW p \in P
  PROVE  Through(g, <<p>>) = g[p] /\ Through(g, <<>>) = <<>>
<1>1. [i \in DOMAIN <<p>> |-> g[<<p>>[i]]] = <<g[p]>>
  OBVIOUS
<1>2. [i \in DOMAIN <<>> |-> g[<<>>[i]]] = <<>>
  OBVIOUS
<1>3. g[p] \in Seq(V)
  BY DEF Gives
<1> QED BY <1>1, <1>2, <1>3, FlattenOne, FlattenEmpty DEF Through

LEMMA ThroughNothing ==
  ASSUME NEW P, NEW V, NEW g \in Gives(P, V), NEW s \in Seq(P),
         \A i \in 1..Len(s) : g[s[i]] = <<>>
  PROVE  Through(g, s) = <<>>
<1>1. DOMAIN s = 1..Len(s) /\ Len(s) \in Nat
  BY LenProperties
<1>2. [i \in DOMAIN s |-> g[s[i]]] \in Seq({<<>>})
  BY <1>1
<1> QED BY <1>2, FlattenNothing DEF Through

(***************************************************************************)
(* FoldLeft, which goes through the indices of a sequence from the top.    *)
(***************************************************************************)
Folds(f, Step, base, q, n) ==
  \A s \in SUBSET (1..n) : f[s] = IF s = {} THEN base ELSE Step[<<f[s \ {Max(s)}], q[Max(s)]>>]

LEMMA MaxIs ==
  ASSUME NEW n \in Nat, NEW s \in SUBSET (1..n + 1)
  PROVE  /\ n + 1 \in s => Max(s) = n + 1 /\ s \ {Max(s)} \in SUBSET (1..n)
         /\ n + 1 \notin s => s \in SUBSET (1..n)
<1>1. ASSUME n + 1 \in s PROVE Max(s) = n + 1
  <2>1. \A y \in s : n + 1 >= y /\ (y >= n + 1 => y = n + 1)
    OBVIOUS
  <2>2. Max(s) \in s /\ Max(s) >= n + 1
    BY <1>1, <2>1 DEF Max
  <2> QED BY <2>1, <2>2
<1>2. ASSUME n + 1 \in s PROVE s \ {Max(s)} \in SUBSET (1..n)
  <2>1. s \ {n + 1} \in SUBSET (1..n)
    OBVIOUS
  <2> QED BY <1>1, <1>2, <2>1
<1>3. ASSUME n + 1 \notin s PROVE s \in SUBSET (1..n)
  BY <1>3
<1> QED BY <1>1, <1>2, <1>3

LEMMA MaxWithin ==
  ASSUME NEW n \in Nat, NEW s \in SUBSET (1..n), s # {}
  PROVE  Max(s) \in s /\ Max(s) \in 1..n /\ s \ {Max(s)} \in SUBSET (1..n)
<1> DEFINE N == {i \in Nat : \A r \in SUBSET (1..i) : r # {} => Max(r) \in r}
<1>1. 0 \in N
  <2>1. \A r \in SUBSET (1..0) : r = {}
    OBVIOUS
  <2> QED BY <2>1
<1>2. ASSUME NEW i \in Nat, i \in N PROVE i + 1 \in N
  <2>1. ASSUME NEW r \in SUBSET (1..i + 1), r # {} PROVE Max(r) \in r
    <3>1. CASE i + 1 \in r
      BY <3>1, MaxIs
    <3>2. CASE i + 1 \notin r
      <4>1. r \in SUBSET (1..i)
        BY <3>2
      <4> QED BY <1>2, <2>1, <4>1
    <3> QED BY <3>1, <3>2
  <2> QED BY <2>1
<1> HIDE DEF N
<1>3. n \in N
  BY <1>1, <1>2, NatSetInduction
<1>4. Max(s) \in s
  BY <1>3 DEF N
<1> QED BY <1>4

LEMMA FoldTop ==
  ASSUME NEW n \in Nat, NEW i \in 0..n - 1
  PROVE  /\ 1..i + 1 \in SUBSET (1..n) /\ 1..i + 1 # {} /\ 1..i \in SUBSET (1..n)
         /\ Max(1..i + 1) = i + 1 /\ (1..i + 1) \ {Max(1..i + 1)} = 1..i
<1>1. 1..i + 1 \in SUBSET (1..n) /\ i + 1 \in 1..i + 1 /\ 1..i \in SUBSET (1..n)
  OBVIOUS
<1>2. Max(1..i + 1) = i + 1
  <2>1. i \in Nat /\ 1..i + 1 \in SUBSET (1..i + 1)
    OBVIOUS
  <2> QED BY <1>1, <2>1, MaxIs
<1>3. (1..i + 1) \ {i + 1} = 1..i
  OBVIOUS
<1> QED BY <1>1, <1>2, <1>3

LEMMA FoldsExist ==
  ASSUME NEW A, NEW T, NEW Step \in [A \X T -> A], NEW base \in A, NEW q \in Seq(T)
  PROVE  \E f \in [SUBSET (1..Len(q)) -> A] : Folds(f, Step, base, q, Len(q))
<1> DEFINE E(n) == \E f \in [SUBSET (1..n) -> A] : Folds(f, Step, base, q, n)
           N == {n \in Nat : n <= Len(q) => E(n)}
<1>1. 0 \in N
  <2> DEFINE f == [s \in SUBSET (1..0) |-> base]
  <2>1. \A s \in SUBSET (1..0) : s = {}
    OBVIOUS
  <2>2. f \in [SUBSET (1..0) -> A] /\ Folds(f, Step, base, q, 0)
    BY <2>1 DEF Folds
  <2>3. E(0)
    BY <2>2
  <2> HIDE DEF E
  <2> QED BY <2>3
<1>2. ASSUME NEW n \in Nat, n \in N PROVE n + 1 \in N
  <2> HIDE DEF E
  <2> SUFFICES ASSUME n + 1 <= Len(q) PROVE E(n + 1)
    OBVIOUS
  <2>0. Len(q) \in Nat
    BY LenProperties
  <2>1. PICK f \in [SUBSET (1..n) -> A] : Folds(f, Step, base, q, n)
    <3>1. E(n)
      BY <1>2, <2>0
    <3> QED BY <3>1 DEF E
  <2> DEFINE m == n + 1
             g == [s \in SUBSET (1..m) |-> IF m \in s THEN Step[<<f[s \ {m}], q[m]>>] ELSE f[s]]
  <2>2. q[m] \in T
    BY <2>0, ElementOfSeq
  <2>3. \A s \in SUBSET (1..m) :
          /\ m \in s => Max(s) = m /\ s \ {m} \in SUBSET (1..n)
          /\ m \notin s => s \in SUBSET (1..n)
          /\ s \ {m} \in SUBSET (1..m)
    BY MaxIs
  <2>4. \A s \in SUBSET (1..n) : s \in SUBSET (1..m) /\ m \notin s /\ (s # {} => Max(s) \in s)
    <3> SUFFICES ASSUME NEW s \in SUBSET (1..n)
                 PROVE  s \in SUBSET (1..m) /\ m \notin s /\ (s # {} => Max(s) \in s)
      OBVIOUS
    <3>1. s \in SUBSET (1..m) /\ m \notin s
      OBVIOUS
    <3>2. ASSUME s # {} PROVE Max(s) \in s
      <4>0. \A i \in s : n - i \in Nat
        OBVIOUS
      <4>1. {n - i : i \in s} \in SUBSET Nat /\ {n - i : i \in s} # {}
        BY <3>2, <4>0
      <4>2. PICK x \in {n - i : i \in s} : \A y \in {n - i : i \in s} : x <= y
        BY <4>1, LeastNumber
      <4>3. PICK i \in s : x = n - i
        BY <4>2
      <4>4. \A j \in s : n - i <= n - j
        BY <4>2, <4>3
      <4>5. \A j \in s : i >= j
        BY <4>4
      <4> QED BY <4>5 DEF Max
    <3> QED BY <3>1, <3>2
  <2> HIDE DEF m
  <2>5. g \in [SUBSET (1..m) -> A]
    <3> SUFFICES ASSUME NEW s \in SUBSET (1..m)
                 PROVE  (IF m \in s THEN Step[<<f[s \ {m}], q[m]>>] ELSE f[s]) \in A
      OBVIOUS
    <3>1. CASE m \in s
      <4>1. f[s \ {m}] \in A
        BY <2>1, <2>3, <3>1
      <4>2. <<f[s \ {m}], q[m]>> \in A \X T
        BY <2>2, <4>1
      <4> QED BY <3>1, <4>2
    <3>2. CASE m \notin s
      BY <2>1, <2>3, <3>2
    <3> QED BY <3>1, <3>2
  <2>6. ASSUME NEW s \in SUBSET (1..m)
        PROVE  g[s] = IF s = {} THEN base ELSE Step[<<g[s \ {Max(s)}], q[Max(s)]>>]
    <3>1. CASE m \in s
      <4>1. g[s \ {m}] = f[s \ {m}] /\ g[s] = Step[<<f[s \ {m}], q[m]>>] /\ Max(s) = m /\ s # {}
        BY <2>3, <3>1
      <4> HIDE DEF g
      <4> QED BY <4>1
    <3>2. CASE m \notin s
      <4>1. s \in SUBSET (1..n) /\ s \ {Max(s)} \in SUBSET (1..n)
        BY <2>3, <3>2
      <4>2. f[s] = IF s = {} THEN base ELSE Step[<<f[s \ {Max(s)}], q[Max(s)]>>]
        BY <2>1, <4>1 DEF Folds
      <4>3. g[s] = f[s] /\ g[s \ {Max(s)}] = f[s \ {Max(s)}]
        BY <2>4, <3>2, <4>1
      <4> HIDE DEF g
      <4> QED BY <4>2, <4>3
    <3> QED BY <3>1, <3>2
  <2> HIDE DEF g
  <2>7. Folds(g, Step, base, q, m)
    BY <2>6 DEF Folds
  <2> QED BY <2>5, <2>7 DEF m, E
<1>3. Len(q) \in N
  <2>1. Len(q) \in Nat
    BY LenProperties
  <2> HIDE DEF N
  <2> QED BY <1>1, <1>2, <2>1, NatSetInduction
<1> HIDE DEF E
<1>4. E(Len(q))
  BY <1>3, LenProperties
<1> QED BY <1>4 DEF E

\* What holds of the base, and with what is reached after some elements also of
\* what is reached after the next, holds in the end.
LEMMA FoldsInduction ==
  ASSUME NEW n \in Nat, NEW q, NEW Step, NEW base, NEW f, Folds(f, Step, base, q, n),
         NEW P, base \in P[0],
         \A i \in 0..n - 1 : \A a \in P[i] : Step[<<a, q[i + 1]>>] \in P[i + 1]
  PROVE  f[1..n] \in P[n]
<1> DEFINE N == {i \in Nat : i <= n => f[1..i] \in P[i]}
<1>1. 0 \in N
  <2>1. 1..0 = {} /\ 1..0 \in SUBSET (1..n)
    OBVIOUS
  <2>2. f[1..0] = base
    BY <2>1 DEF Folds
  <2> QED BY <2>2
<1>2. ASSUME NEW i \in Nat, i \in N PROVE i + 1 \in N
  <2> SUFFICES ASSUME i + 1 <= n PROVE f[1..i + 1] \in P[i + 1]
    OBVIOUS
  <2>1. i \in 0..n - 1 /\ f[1..i] \in P[i]
    BY <1>2
  <2>2. 1..i + 1 \in SUBSET (1..n) /\ 1..i + 1 # {} /\ i + 1 \in 1..i + 1
    <3>1. 1..i + 1 \subseteq 1..n /\ i + 1 \in 1..i + 1
      OBVIOUS
    <3> QED BY <3>1
  <2>3. Max(1..i + 1) = i + 1
    BY <2>2, MaxIs
  <2>4. (1..i + 1) \ {i + 1} = 1..i
    OBVIOUS
  <2>5. f[1..i + 1] = Step[<<f[1..i], q[i + 1]>>]
    BY <2>2, <2>3, <2>4 DEF Folds
  <2> QED BY <2>1, <2>5
<1>3. n \in N
  <2> HIDE DEF N
  <2> QED BY <1>1, <1>2, NatSetInduction
<1> QED BY <1>3
==============================================================================
