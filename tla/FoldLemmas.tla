----------------------------- MODULE FoldLemmas -----------------------------
(***************************************************************************)
(* Facts about recursion and sums that the proofs about Cr3dX rest on.     *)
(* They are first-order: an induction hypothesis is a set, so that each    *)
(* lemma can be cited for a particular set without naming a predicate.     *)
(***************************************************************************)
EXTENDS Integers, SequencesExt, WellFoundedInduction, FiniteSetTheorems, TLAPS

\* Induction: a set of naturals closed under successor holds every natural.
LEMMA NatSetInduction ==
  ASSUME NEW T, 0 \in T, \A k \in Nat : k \in T => k + 1 \in T
  PROVE  Nat \subseteq T
<1> DEFINE M == Nat \ T
<1> SUFFICES ASSUME M # {} PROVE FALSE
  OBVIOUS
<1>1. PICK k \in M : \A j \in M : ~ (<<j, k>> \in OpToRel(<, Nat))
  BY NatLessThanWellFounded, WFMin, Zenon
<1>2. k \in Nat /\ k # 0 /\ k - 1 \in Nat
  OBVIOUS
<1>3. <<k - 1, k>> \in OpToRel(<, Nat)
  <2>1. <<k - 1, k>> \in Nat \X Nat /\ <<k - 1, k>>[1] < <<k - 1, k>>[2]
    BY <1>2
  <2> QED BY <2>1 DEF OpToRel
<1>4. k - 1 \in T
  BY <1>1, <1>2, <1>3
<1> QED BY <1>2, <1>4

\* g starts at w and follows the steps st.
Follows(g, W, w, n, st) ==
    /\ g \in [0..n -> W]
    /\ g[0] = w
    /\ \A i \in 1..n : g[i] = st[i][g[i-1]]

\* A recursion along 0..n whose steps stay in W has a solution.
LEMMA RecursionExists ==
  ASSUME NEW W, NEW w \in W, NEW n \in Nat, NEW st \in [1..n -> [W -> W]]
  PROVE  \E g : Follows(g, W, w, n, st)
<1> DEFINE Upto(g, k) == g[0] = w /\ \A i \in 1..k : i <= n => g[i] = st[i][g[i-1]]
           T == {k \in Nat : \E g \in [0..n -> W] : Upto(g, k)}
<1>1. 0 \in T
  <2> DEFINE g == [i \in 0..n |-> w]
  <2>1. g \in [0..n -> W] /\ g[0] = w
    OBVIOUS
  <2>2. Upto(g, 0)
    BY <2>1
  <2> QED BY <2>1, <2>2
<1>2. ASSUME NEW k \in Nat, k \in T PROVE k + 1 \in T
  <2>1. PICK g \in [0..n -> W] : Upto(g, k)
    BY <1>2
  <2>2. CASE k + 1 <= n
    <3> DEFINE h == [g EXCEPT ![k+1] = st[k+1][g[k]]]
    <3>1. g[k] \in W /\ k + 1 \in 1..n /\ st[k+1][g[k]] \in W
      BY <2>2
    <3>2. h \in [0..n -> W] /\ h[0] = w
      BY <2>1, <3>1
    <3>3. \A i \in 1..(k+1) : i <= n => h[i] = st[i][h[i-1]]
      BY <2>1, <2>2, <3>1
    <3> HIDE DEF h
    <3> QED BY <3>2, <3>3
  <2>3. CASE ~ (k + 1 <= n)
    <3>1. Upto(g, k + 1)
      BY <2>1, <2>3
    <3> QED BY <3>1
  <2> QED BY <2>2, <2>3
<1> HIDE DEF T
<1>3. n \in T
  BY <1>1, <1>2, NatSetInduction
<1>4. PICK g \in [0..n -> W] : Upto(g, n)
  BY <1>3 DEF T
<1>5. Follows(g, W, w, n, st)
  BY <1>4 DEF Follows
<1> QED BY <1>5

\* h holds the concatenations of the first sequences of seqs.
Flattens(h, seqs) ==
    /\ h[1] = seqs[1]
    /\ \A i \in 1..Len(seqs) : i # 1 => h[i] = h[i-1] \o seqs[i]

\* FlattenSeq concatenates from the left.
LEMMA FlattenUnfolds ==
  ASSUME NEW F, NEW seqs \in Seq(Seq(F)), Len(seqs) # 0
  PROVE  \E h : Flattens(h, seqs) /\ FlattenSeq(seqs) = h[Len(seqs)]
<1> DEFINE n == Len(seqs)
           W == Seq(F)
           st == [i \in 1..(n-1) |-> [u \in W |-> u \o seqs[i+1]]]
           Body(h) == [i \in 1..n |-> IF i = 1 THEN seqs[i] ELSE h[i-1] \o seqs[i]]
           flatten == CHOOSE h : h = Body(h)
<1>1. n # 0 /\ n \in Nat /\ n - 1 \in Nat /\ \A i \in 1..n : seqs[i] \in W
  OBVIOUS
<1>2. FlattenSeq(seqs) = flatten[n]
  BY <1>1 DEF FlattenSeq
<1>3. \A u \in W, v \in W : u \o v \in W
  OBVIOUS
<1> HIDE DEF n, W
<1>4. flatten = Body(flatten)
  <2>1. /\ st \in [1..(n-1) -> [W -> W]]
        /\ \A i \in 1..(n-1), u \in W : st[i][u] = u \o seqs[i+1]
    BY <1>1, <1>3
  <2> HIDE DEF st
  <2>2. seqs[1] \in W
    BY <1>1
  <2> DEFINE m == n - 1
  <2> HIDE DEF m
  <2>3. m \in Nat /\ st \in [1..m -> [W -> W]]
    BY <1>1, <2>1 DEF m
  <2>4. PICK g : Follows(g, W, seqs[1], m, st)
    BY <2>2, <2>3, RecursionExists
  <2>5. g[0] = seqs[1] /\ g \in [0..(n-1) -> W] /\ \A i \in 1..(n-1) : g[i] = st[i][g[i-1]]
    BY <2>4 DEF Follows, m
  <2> DEFINE h == [i \in 1..n |-> g[i-1]]
  <2>6. \A i \in 1..n : i # 1 => h[i] = h[i-1] \o seqs[i]
    <3>1. TAKE i \in 1..n
    <3>2. ASSUME i # 1 PROVE h[i] = h[i-1] \o seqs[i]
      <4>1. i - 1 \in 1..(n-1) /\ i - 2 \in 0..(n-1) /\ i - 1 \in 1..n
        BY <1>1, <3>2
      <4>2. g[i-1] = st[i-1][g[(i-1)-1]] /\ (i-1)-1 = i-2 /\ (i-1)+1 = i
        BY <1>1, <2>5, <4>1
      <4>3. g[i-2] \in W
        BY <2>5, <4>1
      <4>4. g[i-1] = st[i-1][g[i-2]]
        BY <4>2
      <4>5. st[i-1][g[i-2]] = g[i-2] \o seqs[(i-1)+1]
        BY <2>1, <4>1, <4>3
      <4>6. g[i-1] = g[i-2] \o seqs[i]
        BY <4>2, <4>4, <4>5
      <4>7. h[i] = g[i-1] /\ h[i-1] = g[i-2]
        BY <1>1, <4>1, <4>2
      <4> QED BY <4>6, <4>7
    <3> QED BY <3>2
  <2>7. h[1] = seqs[1]
    BY <1>1, <2>5
  <2> HIDE DEF h
  <2>8. h = Body(h)
    <3>1. h = [i \in 1..n |-> h[i]]
      BY DEF h
    <3> QED BY <2>6, <2>7, <3>1
  <2> QED BY <2>8
<1> HIDE DEF flatten
<1>5. flatten[1] = seqs[1] /\ \A i \in 1..n : i # 1 => flatten[i] = flatten[i-1] \o seqs[i]
  <2>1. 1 \in 1..n
    BY <1>1
  <2>2. \A i \in 1..n : flatten[i] = Body(flatten)[i]
    BY <1>4, Zenon
  <2> HIDE DEF flatten
  <2> QED BY <2>1, <2>2
<1> QED BY <1>2, <1>5 DEF Flattens, n

Distinct(s) == \A i, j \in 1..Len(s) : i # j => s[i] # s[j]

\* The elements of the first k sequences.
ElementsUpto(seqs, k) == UNION {ToSet(seqs[i]) : i \in 1..k}

\* Sequences without repetition, and none in common.
Apart(seqs) ==
    /\ \A i \in 1..Len(seqs) : Distinct(seqs[i])
    /\ \A i, j \in 1..Len(seqs) : i # j => ToSet(seqs[i]) \cap ToSet(seqs[j]) = {}

\* Appending one sequence to another.
LEMMA Concatenation ==
  ASSUME NEW F, NEW s \in Seq(F), NEW t \in Seq(F)
  PROVE  /\ s \o t \in Seq(F)
         /\ ToSet(s \o t) = ToSet(s) \cup ToSet(t)
         /\ Distinct(s) /\ Distinct(t) /\ ToSet(s) \cap ToSet(t) = {} => Distinct(s \o t)
<1> DEFINE u == s \o t
<1>1. /\ Len(s) \in Nat /\ Len(t) \in Nat /\ Len(u) = Len(s) + Len(t) /\ u \in Seq(F)
      /\ \A i \in 1..Len(s) : u[i] = s[i]
      /\ \A i \in 1..Len(t) : u[Len(s) + i] = t[i]
  OBVIOUS
<1> HIDE DEF u
<1>2. /\ ToSet(s) = {s[i] : i \in 1..Len(s)} /\ ToSet(t) = {t[i] : i \in 1..Len(t)}
      /\ ToSet(u) = {u[i] : i \in 1..Len(u)}
  BY <1>1 DEF ToSet
<1>3. ASSUME NEW i \in 1..Len(u)
      PROVE  \/ i \in 1..Len(s) /\ u[i] = s[i]
             \/ i - Len(s) \in 1..Len(t) /\ u[i] = t[i - Len(s)] /\ i \notin 1..Len(s)
  <2>1. CASE i <= Len(s)
    BY <1>1, <2>1
  <2>2. CASE i > Len(s)
    <3>1. i - Len(s) \in 1..Len(t) /\ Len(s) + (i - Len(s)) = i
      BY <1>1, <2>2
    <3> QED BY <1>1, <2>2, <3>1
  <2> QED BY <1>1, <2>1, <2>2
<1>4. \A i \in 1..Len(s) : i \in 1..Len(u)
  BY <1>1
<1>5. \A i \in 1..Len(t) : Len(s) + i \in 1..Len(u)
  BY <1>1
<1>6. ToSet(u) = ToSet(s) \cup ToSet(t)
  BY <1>1, <1>2, <1>3, <1>4, <1>5
<1>7. ASSUME Distinct(s), Distinct(t), ToSet(s) \cap ToSet(t) = {}
      PROVE  Distinct(u)
  <2> SUFFICES ASSUME NEW i \in 1..Len(u), NEW j \in 1..Len(u), i # j PROVE u[i] # u[j]
    BY DEF Distinct
  <2>1. CASE i \in 1..Len(s) /\ j \in 1..Len(s)
    BY <1>1, <1>7, <2>1 DEF Distinct
  <2>2. CASE i \notin 1..Len(s) /\ j \notin 1..Len(s)
    <3>1. i - Len(s) # j - Len(s)
      BY <1>1
    <3> QED BY <1>3, <1>7, <2>2, <3>1 DEF Distinct
  <2>3. CASE i \in 1..Len(s) /\ j \notin 1..Len(s)
    BY <1>2, <1>3, <1>7, <2>3
  <2>4. CASE i \notin 1..Len(s) /\ j \in 1..Len(s)
    BY <1>2, <1>3, <1>7, <2>4
  <2> QED BY <2>1, <2>2, <2>3, <2>4
<1> QED BY <1>1, <1>6, <1>7 DEF u

\* The concatenation of sequences over F: its type, its elements, and when it
\* repeats none.
LEMMA FlattenEffect ==
  ASSUME NEW F, NEW seqs \in Seq(Seq(F))
  PROVE  LET s == FlattenSeq(seqs)
         IN  /\ s \in Seq(F)
             /\ ToSet(s) = ElementsUpto(seqs, Len(seqs))
             /\ Apart(seqs) => Distinct(s)
<1> DEFINE n == Len(seqs)
           s == FlattenSeq(seqs)
<1>1. n \in Nat /\ \A i \in 1..n : seqs[i] \in Seq(F)
  OBVIOUS
<1>2. CASE n = 0
  <2>1. s = <<>>
    BY <1>2 DEF FlattenSeq
  <2>2. 1..n = {} /\ ToSet(<<>>) = {} /\ Len(<<>>) = 0 /\ 1..Len(<<>>) = {}
    BY <1>2 DEF ToSet
  <2> HIDE DEF n, s
  <2> QED BY <2>1, <2>2 DEF ElementsUpto, Distinct, n, s
<1>3. CASE n # 0
  <2>1. PICK h : Flattens(h, seqs) /\ s = h[n]
    BY <1>3, FlattenUnfolds
  <2> HIDE DEF s
  <2> DEFINE Good(k) == /\ h[k] \in Seq(F)
                        /\ ToSet(h[k]) = ElementsUpto(seqs, k)
                        /\ Apart(seqs) => Distinct(h[k])
             T == {k \in Nat : k + 1 <= n => Good(k + 1)}
  <2>2. h[1] = seqs[1] /\ \A i \in 1..n : i # 1 => h[i] = h[i-1] \o seqs[i]
    BY <2>1 DEF Flattens
  <2>3. 0 \in T
    <3>1. 1 \in 1..n /\ 0 + 1 = 1 /\ 1..1 = {1}
      BY <1>1, <1>3
    <3>2. ElementsUpto(seqs, 1) = ToSet(seqs[1])
      BY <3>1 DEF ElementsUpto
    <3>3. Good(1)
      BY <1>1, <2>2, <3>1, <3>2 DEF Apart
    <3> HIDE DEF Good
    <3> QED BY <3>1, <3>3
  <2>4. ASSUME NEW k \in Nat, k \in T PROVE k + 1 \in T
    <3> SUFFICES ASSUME (k + 1) + 1 <= n PROVE Good((k + 1) + 1)
      BY DEF T
    <3> DEFINE p == k + 1
               q == (k + 1) + 1
    <3>1. p \in 1..n /\ q \in 1..n /\ q # 1 /\ q - 1 = p /\ 1..q = 1..p \cup {q} /\ q \notin 1..p
      BY <1>1
    <3>2. Good(p)
      BY <2>4, <3>1
    <3> HIDE DEF p, q, T, n
    <3>3. h[q] = h[p] \o seqs[q]
      BY <2>2, <3>1
    <3>4. ElementsUpto(seqs, q) = ElementsUpto(seqs, p) \cup ToSet(seqs[q])
      BY <3>1 DEF ElementsUpto
    <3>5. Apart(seqs) => ElementsUpto(seqs, p) \cap ToSet(seqs[q]) = {} /\ Distinct(seqs[q])
      <4>1. \A i \in 1..p : i \in 1..n /\ i # q
        BY <1>1, <3>1
      <4>2. ASSUME Apart(seqs)
            PROVE  Distinct(seqs[q]) /\ \A i \in 1..p : ToSet(seqs[i]) \cap ToSet(seqs[q]) = {}
        BY <3>1, <4>1, <4>2 DEF Apart, n
      <4> QED BY <4>2 DEF ElementsUpto
    <3>6. Good(q)
      BY <1>1, <3>1, <3>2, <3>3, <3>4, <3>5, Concatenation
    <3> QED BY <3>6 DEF q
  <2> HIDE DEF T
  <2>5. n - 1 \in T
    <3>1. n - 1 \in Nat
      BY <1>1, <1>3
    <3>2. Nat \subseteq T
      BY <2>3, <2>4, NatSetInduction
    <3> QED BY <3>1, <3>2
  <2>6. Good(n)
    <3>1. n - 1 \in Nat /\ (n - 1) + 1 = n
      BY <1>1, <1>3
    <3> QED BY <2>5, <3>1 DEF T
  <2>7. s = h[n]
    BY <2>1
  <2>8. s \in Seq(F) /\ ToSet(s) = ElementsUpto(seqs, n) /\ (Apart(seqs) => Distinct(s))
    BY <2>6, <2>7
  <2> QED BY <2>8 DEF s
<1> QED BY <1>2, <1>3

-----------------------------------------------------------------------------
(* Sums over finite sets. *)

\* Induction on a finite set: a set of subsets that holds the empty set and,
\* with a subset, each subset of one more element, holds the whole set.
LEMMA FiniteInduction ==
  ASSUME NEW S, IsFiniteSet(S), NEW K, {} \in K,
         \A s \in SUBSET S, x \in S : s \in K /\ x \notin s => s \cup {x} \in K
  PROVE  S \in K
<1> DEFINE N == {k \in Nat : \A s \in SUBSET S : Cardinality(s) = k => s \in K}
<1>1. \A s \in SUBSET S : IsFiniteSet(s) /\ Cardinality(s) \in Nat
  BY FS_Subset, FS_CardinalityType
<1>2. 0 \in N
  <2>1. \A s \in SUBSET S : Cardinality(s) = 0 => s = {}
    BY <1>1, FS_EmptySet
  <2> QED BY <2>1
<1>3. ASSUME NEW k \in Nat, k \in N PROVE k + 1 \in N
  <2> SUFFICES ASSUME NEW s \in SUBSET S, Cardinality(s) = k + 1 PROVE s \in K
    OBVIOUS
  <2>0. s # {}
    BY FS_EmptySet
  <2>1. PICK x \in s : TRUE
    BY <2>0
  <2>2. IsFiniteSet(s)
    BY <1>1
  <2>3. Cardinality(s \ {x}) = Cardinality(s) - 1
    BY <2>1, <2>2, FS_RemoveElement
  <2>4. s \ {x} \in SUBSET S /\ x \notin s \ {x} /\ (s \ {x}) \cup {x} = s
    BY <2>1
  <2>5. s \ {x} \in K
    BY <1>3, <2>3, <2>4
  <2> QED BY <2>4, <2>5
<1> HIDE DEF N
<1>4. Cardinality(S) \in N
  BY <1>1, <1>2, <1>3, NatSetInduction
<1> QED BY <1>1, <1>4 DEF N

\* The element a sum takes out of a set first.
Picked(s) == CHOOSE x \in s : TRUE

\* The recursion SumFunctionOnSet stands for, on the subsets of T.
SumBody(f, T, h) ==
    [s \in SUBSET T |-> IF s = {} THEN 0 ELSE f[Picked(s)] + h[s \ {Picked(s)}]]

SumRec(f, T) == CHOOSE h : h = SumBody(f, T, h)

\* SumFunctionOnSet unfolds to it.
LEMMA SumIsRec ==
  ASSUME NEW f, NEW T PROVE SumFunctionOnSet(f, T) = SumRec(f, T)[T]
BY DEF SumFunctionOnSet, FoldFunctionOnSet, MapThenFoldSet, SumRec, SumBody, Picked

\* The recursion has a solution on the subsets of a finite set.
LEMMA SumRecExists ==
  ASSUME NEW T, IsFiniteSet(T), NEW f, \A x \in T : f[x] \in Int
  PROVE  /\ SumRec(f, T) = SumBody(f, T, SumRec(f, T))
         /\ \E h \in [SUBSET T -> Int] : h = SumBody(f, T, h)
<1> DEFINE W == [SUBSET T -> Int]
           n == Cardinality(T) + 1
           st == [i \in 1..n |-> [u \in W |-> SumBody(f, T, u)]]
           w == [s \in SUBSET T |-> 0]
<1>1. /\ Cardinality(T) \in Nat /\ n \in Nat
      /\ \A s \in SUBSET T : /\ IsFiniteSet(s) /\ Cardinality(s) \in Nat
                             /\ Cardinality(s) <= Cardinality(T)
  BY FS_Subset, FS_CardinalityType
<1>2. \A s \in SUBSET T : s # {} =>
         /\ Picked(s) \in s /\ s \ {Picked(s)} \in SUBSET T
         /\ Cardinality(s \ {Picked(s)}) = Cardinality(s) - 1
  <2> SUFFICES ASSUME NEW s \in SUBSET T, s # {}
               PROVE  /\ Picked(s) \in s
                      /\ Cardinality(s \ {Picked(s)}) = Cardinality(s) - 1
    OBVIOUS
  <2>1. Picked(s) \in s
    BY DEF Picked
  <2>2. Cardinality(s \ {Picked(s)}) = Cardinality(s) - 1
    BY <1>1, <2>1, FS_RemoveElement
  <2> QED BY <2>1, <2>2
<1>3. ASSUME NEW u \in W PROVE SumBody(f, T, u) \in W
  BY <1>2 DEF SumBody
<1> HIDE DEF n
<1>4. w \in W /\ st \in [1..n -> [W -> W]]
  <2>1. w \in W
    OBVIOUS
  <2> HIDE DEF W
  <2>2. st \in [1..n -> [W -> W]]
    BY <1>3
  <2> QED BY <2>1, <2>2
<1>5. PICK g : Follows(g, W, w, n, st)
  BY <1>1, <1>4, RecursionExists
<1>6. g \in [0..n -> W] /\ g[0] = w /\ \A i \in 1..n : g[i] = SumBody(f, T, g[i-1])
  <2>1. g \in [0..n -> W] /\ g[0] = w /\ \A i \in 1..n : g[i] = st[i][g[i-1]]
    BY <1>5 DEF Follows
  <2>2. \A i \in 1..n : g[i-1] \in W
    BY <1>1, <2>1
  <2> QED BY <2>1, <2>2
<1> DEFINE K == {k \in Nat : k + 1 <= n =>
                   \A s \in SUBSET T : Cardinality(s) <= k => g[k+1][s] = g[k][s]}
<1>7. 0 \in K
  <2> SUFFICES ASSUME NEW s \in SUBSET T, Cardinality(s) <= 0, 1 <= n
               PROVE  g[1][s] = g[0][s]
    OBVIOUS
  <2>1. s = {}
    BY <1>1, FS_EmptySet
  <2>2. g[1] = SumBody(f, T, g[0])
    BY <1>1, <1>6
  <2> QED BY <1>6, <2>1, <2>2 DEF SumBody
<1>8. ASSUME NEW k \in Nat, k \in K PROVE k + 1 \in K
  <2> SUFFICES ASSUME NEW s \in SUBSET T, Cardinality(s) <= k + 1, k + 2 <= n
               PROVE  g[k+2][s] = g[k+1][s]
    OBVIOUS
  <2>1. g[k+2] = SumBody(f, T, g[k+1]) /\ g[k+1] = SumBody(f, T, g[k])
    <3>1. (k + 2) - 1 = k + 1 /\ (k + 1) - 1 = k /\ {k + 1, k + 2} \subseteq 1..n
      BY <1>1
    <3> QED BY <1>6, <3>1
  <2>2. CASE s = {}
    BY <2>1, <2>2 DEF SumBody
  <2>3. CASE s # {}
    <3> DEFINE r == s \ {Picked(s)}
    <3>1. r \in SUBSET T /\ Cardinality(r) <= k
      BY <1>1, <1>2, <2>3
    <3>2. g[k+1][r] = g[k][r]
      BY <1>1, <1>8, <3>1
    <3> QED BY <2>1, <2>3, <3>2 DEF SumBody
  <2> QED BY <2>2, <2>3
<1> HIDE DEF K
<1>9. Cardinality(T) \in K
  BY <1>1, <1>7, <1>8, NatSetInduction
<1> DEFINE h == g[Cardinality(T)]
<1>10. h \in W /\ h = SumBody(f, T, h)
  <2>1. h \in W /\ g[n] \in W /\ g[n] = SumBody(f, T, h)
    BY <1>1, <1>6 DEF n
  <2>2. \A s \in SUBSET T : g[n][s] = h[s]
    BY <1>1, <1>9 DEF K, n
  <2> HIDE DEF h
  <2>3. g[n] = h
    BY <2>1, <2>2
  <2> QED BY <2>1, <2>3
<1> HIDE DEF h
<1> QED BY <1>10 DEF SumRec

\* Two solutions agree where both are defined.
LEMMA SumRecUnique ==
  ASSUME NEW T, IsFiniteSet(T), NEW S \in SUBSET T, NEW f,
         NEW h, h = SumBody(f, S, h), NEW k, k = SumBody(f, T, k)
  PROVE  h[S] = k[S]
<1> DEFINE N == {j \in Nat : \A s \in SUBSET S : Cardinality(s) <= j => h[s] = k[s]}
<1>1. \A s \in SUBSET S : IsFiniteSet(s) /\ Cardinality(s) \in Nat /\ s \in SUBSET T
  BY FS_Subset, FS_CardinalityType
<1>2. \A s \in SUBSET S : /\ h[s] = IF s = {} THEN 0 ELSE f[Picked(s)] + h[s \ {Picked(s)}]
                          /\ k[s] = IF s = {} THEN 0 ELSE f[Picked(s)] + k[s \ {Picked(s)}]
  BY <1>1 DEF SumBody
<1>3. 0 \in N
  <2>1. \A s \in SUBSET S : Cardinality(s) <= 0 => s = {}
    BY <1>1, FS_EmptySet
  <2> QED BY <1>2, <2>1
<1>4. ASSUME NEW j \in Nat, j \in N PROVE j + 1 \in N
  <2> SUFFICES ASSUME NEW s \in SUBSET S, Cardinality(s) <= j + 1, s # {}
               PROVE  h[s] = k[s]
    BY <1>2
  <2> DEFINE r == s \ {Picked(s)}
  <2>1. Picked(s) \in s /\ IsFiniteSet(s)
    BY <1>1 DEF Picked
  <2>2. r \in SUBSET S /\ Cardinality(r) = Cardinality(s) - 1
    BY <2>1, FS_RemoveElement
  <2>3. h[r] = k[r]
    BY <1>1, <1>4, <2>2
  <2> QED BY <1>2, <2>3
<1> HIDE DEF N
<1>5. Cardinality(S) \in N
  BY <1>1, <1>3, <1>4, NatSetInduction
<1> QED BY <1>1, <1>5 DEF N

\* The sum of nothing, of a set by its first element, and its type.
LEMMA SumUnfold ==
  ASSUME NEW T, IsFiniteSet(T), NEW f, \A x \in T : f[x] \in Int
  PROVE  /\ SumFunctionOnSet(f, {}) = 0
         /\ T # {} => /\ Picked(T) \in T
                      /\ SumFunctionOnSet(f, T) =
                            f[Picked(T)] + SumFunctionOnSet(f, T \ {Picked(T)})
         /\ SumFunctionOnSet(f, T) \in Int
<1>1. SumRec(f, T) = SumBody(f, T, SumRec(f, T))
  BY SumRecExists
<1>2. ASSUME NEW S \in SUBSET T PROVE SumFunctionOnSet(f, S) = SumRec(f, T)[S]
  <2>1. IsFiniteSet(S) /\ \A x \in S : f[x] \in Int
    BY FS_Subset
  <2>2. SumRec(f, S) = SumBody(f, S, SumRec(f, S))
    BY <2>1, SumRecExists
  <2>3. SumRec(f, S)[S] = SumRec(f, T)[S]
    BY <1>1, <2>2, SumRecUnique
  <2> QED BY <2>3, SumIsRec
<1>3. SumFunctionOnSet(f, {}) = 0
  BY <1>1, <1>2 DEF SumBody
<1>4. ASSUME T # {}
      PROVE  /\ Picked(T) \in T
             /\ SumFunctionOnSet(f, T) = f[Picked(T)] + SumFunctionOnSet(f, T \ {Picked(T)})
  <2>1. Picked(T) \in T
    BY <1>4 DEF Picked
  <2>2. SumRec(f, T)[T] = f[Picked(T)] + SumRec(f, T)[T \ {Picked(T)}]
    BY <1>1, <1>4 DEF SumBody
  <2>3. SumFunctionOnSet(f, T \ {Picked(T)}) = SumRec(f, T)[T \ {Picked(T)}]
    BY <1>2
  <2> QED BY <1>2, <2>1, <2>2, <2>3
<1>5. SumFunctionOnSet(f, T) \in Int
  <2>1. PICK h \in [SUBSET T -> Int] : h = SumBody(f, T, h)
    BY SumRecExists
  <2>2. SumRec(f, T)[T] = h[T]
    BY <1>1, <2>1, SumRecUnique
  <2> QED BY <1>2, <2>1, <2>2
<1> QED BY <1>3, <1>4, <1>5

\* A sum over one element more.
LEMMA SumAdd ==
  ASSUME NEW S, IsFiniteSet(S), NEW x, x \notin S, NEW f,
         \A y \in S \cup {x} : f[y] \in Int
  PROVE  SumFunctionOnSet(f, S \cup {x}) = SumFunctionOnSet(f, S) + f[x]
<1> DEFINE N == {k \in Nat : \A s \in SUBSET (S \cup {x}) : \A y \in S \cup {x} :
                   Cardinality(s) <= k /\ y \notin s =>
                     SumFunctionOnSet(f, s \cup {y}) = SumFunctionOnSet(f, s) + f[y]}
<1>1. \A s \in SUBSET (S \cup {x}) :
         IsFiniteSet(s) /\ Cardinality(s) \in Nat /\ SumFunctionOnSet(f, s) \in Int
  <2>1. IsFiniteSet(S \cup {x})
    BY FS_AddElement
  <2> SUFFICES ASSUME NEW s \in SUBSET (S \cup {x})
               PROVE  IsFiniteSet(s) /\ Cardinality(s) \in Nat /\ SumFunctionOnSet(f, s) \in Int
    OBVIOUS
  <2>2. IsFiniteSet(s) /\ Cardinality(s) \in Nat
    BY <2>1, FS_Subset, FS_CardinalityType
  <2>3. \A y \in s : f[y] \in Int
    OBVIOUS
  <2> QED BY <2>2, <2>3, SumUnfold
<1>2. \A s \in SUBSET (S \cup {x}) : s # {} =>
         /\ Picked(s) \in s
         /\ SumFunctionOnSet(f, s) = f[Picked(s)] + SumFunctionOnSet(f, s \ {Picked(s)})
  <2> SUFFICES ASSUME NEW s \in SUBSET (S \cup {x}), s # {}
               PROVE  /\ Picked(s) \in s
                      /\ SumFunctionOnSet(f, s) =
                            f[Picked(s)] + SumFunctionOnSet(f, s \ {Picked(s)})
    OBVIOUS
  <2>1. IsFiniteSet(s) /\ \A y \in s : f[y] \in Int
    BY <1>1
  <2> QED BY <2>1, SumUnfold
<1>3. 0 \in N
  <2> SUFFICES ASSUME NEW s \in SUBSET (S \cup {x}), NEW y \in S \cup {x},
                      Cardinality(s) <= 0
               PROVE  SumFunctionOnSet(f, s \cup {y}) = SumFunctionOnSet(f, s) + f[y]
    OBVIOUS
  <2>1. s = {}
    BY <1>1, FS_EmptySet
  <2>2. Picked({y}) = y
    <3>1. \E z \in {y} : TRUE
      OBVIOUS
    <3> QED BY <3>1 DEF Picked
  <2>3. SumFunctionOnSet(f, {y}) = f[y] + SumFunctionOnSet(f, {y} \ {y})
    BY <1>2, <2>2
  <2>4. {y} \ {y} = s /\ s \cup {y} = {y}
    BY <2>1
  <2>5. SumFunctionOnSet(f, s \cup {y}) = f[y] + SumFunctionOnSet(f, s)
    BY <2>3, <2>4, Zenon
  <2>6. SumFunctionOnSet(f, s) \in Int /\ f[y] \in Int
    BY <1>1
  <2> QED BY <2>5, <2>6
<1>4. ASSUME NEW k \in Nat, k \in N PROVE k + 1 \in N
  <2> SUFFICES ASSUME NEW s \in SUBSET (S \cup {x}), NEW y \in S \cup {x},
                      Cardinality(s) <= k + 1, y \notin s
               PROVE  SumFunctionOnSet(f, s \cup {y}) = SumFunctionOnSet(f, s) + f[y]
    OBVIOUS
  <2> DEFINE t == s \cup {y}
             p == Picked(t)
  <2>1. t \in SUBSET (S \cup {x}) /\ p \in t
    BY <1>2
  <2>2. SumFunctionOnSet(f, t) = f[p] + SumFunctionOnSet(f, t \ {p})
    BY <1>2, <2>1
  <2>3. CASE p = y
    <3>1. t \ {p} = s
      BY <2>3
    <3> HIDE DEF t, p
    <3>2. SumFunctionOnSet(f, t) = f[y] + SumFunctionOnSet(f, s)
      BY <2>2, <2>3, <3>1, Zenon
    <3>3. SumFunctionOnSet(f, s) \in Int /\ f[y] \in Int
      BY <1>1
    <3>4. SumFunctionOnSet(f, t) = SumFunctionOnSet(f, s) + f[y]
      BY <3>2, <3>3
    <3> QED BY <3>4 DEF t
  <2>4. CASE p # y
    <3> DEFINE r == s \ {p}
    <3>1. p \in s /\ p \notin r /\ y \notin r /\ r \in SUBSET (S \cup {x})
          /\ r \cup {p} = s /\ t \ {p} = r \cup {y} /\ p \in S \cup {x}
      BY <2>1, <2>4
    <3>2. Cardinality(r) <= k
      <4>1. Cardinality(r) = Cardinality(s) - 1
        BY <1>1, <3>1, FS_RemoveElement
      <4> QED BY <1>1, <4>1
    <3> HIDE DEF t, p, r
    <3>3. /\ SumFunctionOnSet(f, r \cup {y}) = SumFunctionOnSet(f, r) + f[y]
          /\ SumFunctionOnSet(f, r \cup {p}) = SumFunctionOnSet(f, r) + f[p]
      BY <1>4, <3>1, <3>2
    <3>4. SumFunctionOnSet(f, r) \in Int /\ f[y] \in Int /\ f[p] \in Int
      BY <1>1, <3>1
    <3>5. /\ SumFunctionOnSet(f, t) = f[p] + (SumFunctionOnSet(f, r) + f[y])
          /\ SumFunctionOnSet(f, s) = SumFunctionOnSet(f, r) + f[p]
      BY <2>2, <3>1, <3>3, Zenon
    <3>6. SumFunctionOnSet(f, t) = SumFunctionOnSet(f, s) + f[y]
      BY <3>4, <3>5
    <3> QED BY <3>6 DEF t
  <2> QED BY <2>3, <2>4
<1> HIDE DEF N
<1>5. Cardinality(S) \in N
  BY <1>1, <1>3, <1>4, NatSetInduction
<1> QED BY <1>1, <1>5 DEF N

\* The type of a sum.
LEMMA SumInt ==
  ASSUME NEW S, IsFiniteSet(S), NEW f, \A x \in S : f[x] \in Int
  PROVE  SumFunctionOnSet(f, S) \in Int
BY SumUnfold

\* The sum of nothing.
LEMMA SumNothing == ASSUME NEW f PROVE SumFunctionOnSet(f, {}) = 0
<1>1. IsFiniteSet({}) /\ \A x \in {} : f[x] \in Int
  BY FS_EmptySet
<1> QED BY <1>1, SumUnfold

\* A sum over one element less.
LEMMA SumRemove ==
  ASSUME NEW S, IsFiniteSet(S), NEW x \in S, NEW f, \A y \in S : f[y] \in Int
  PROVE  SumFunctionOnSet(f, S \ {x}) = SumFunctionOnSet(f, S) - f[x]
<1> DEFINE r == S \ {x}
<1>1. IsFiniteSet(r) /\ x \notin r /\ r \cup {x} = S
  BY FS_Subset
<1>2. (\A y \in r : f[y] \in Int) /\ f[x] \in Int
  OBVIOUS
<1> HIDE DEF r
<1>3. SumFunctionOnSet(f, r \cup {x}) = SumFunctionOnSet(f, r) + f[x]
  BY <1>1, <1>2, SumAdd
<1>4. SumFunctionOnSet(f, r) \in Int
  BY <1>1, <1>2, SumInt
<1>5. SumFunctionOnSet(f, S) = SumFunctionOnSet(f, r) + f[x]
  BY <1>1, <1>3, Zenon
<1>6. SumFunctionOnSet(f, r) = SumFunctionOnSet(f, S) - f[x]
  BY <1>2, <1>4, <1>5
<1> QED BY <1>6 DEF r

\* Functions that agree on a set have the same sum over it.
LEMMA SumSame ==
  ASSUME NEW S, IsFiniteSet(S), NEW f, NEW g, \A x \in S : f[x] \in Int /\ g[x] = f[x]
  PROVE  SumFunctionOnSet(g, S) = SumFunctionOnSet(f, S)
<1> DEFINE K == {s \in SUBSET S : SumFunctionOnSet(g, s) = SumFunctionOnSet(f, s)}
<1>1. {} \in K
  BY SumNothing
<1>2. ASSUME NEW s \in SUBSET S, NEW x \in S, s \in K, x \notin s PROVE s \cup {x} \in K
  <2>1. IsFiniteSet(s)
    BY FS_Subset
  <2>2. \A y \in s \cup {x} : f[y] \in Int /\ g[y] \in Int
    OBVIOUS
  <2>3. /\ SumFunctionOnSet(f, s \cup {x}) = SumFunctionOnSet(f, s) + f[x]
        /\ SumFunctionOnSet(g, s \cup {x}) = SumFunctionOnSet(g, s) + g[x]
    BY <1>2, <2>1, <2>2, SumAdd
  <2> QED BY <1>2, <2>3
<1> HIDE DEF K
<1>3. S \in K
  BY <1>1, <1>2, FiniteInduction
<1> QED BY <1>3 DEF K

\* A function that differs at one element only.
LEMMA SumChange ==
  ASSUME NEW S, IsFiniteSet(S), NEW f, NEW g, NEW x \in S,
         \A y \in S : f[y] \in Int, g[x] \in Int, \A y \in S \ {x} : g[y] = f[y]
  PROVE  SumFunctionOnSet(g, S) = SumFunctionOnSet(f, S) - f[x] + g[x]
<1>1. IsFiniteSet(S \ {x})
  BY FS_Subset
<1>2. SumFunctionOnSet(g, S \ {x}) = SumFunctionOnSet(f, S \ {x})
  BY <1>1, SumSame
<1>3. /\ SumFunctionOnSet(f, S \ {x}) = SumFunctionOnSet(f, S) - f[x]
      /\ SumFunctionOnSet(g, S \ {x}) = SumFunctionOnSet(g, S) - g[x]
  BY SumRemove
<1>4. SumFunctionOnSet(f, S) \in Int /\ SumFunctionOnSet(g, S) \in Int
  BY SumInt
<1> QED BY <1>2, <1>3, <1>4

\* A sum of naturals is a natural, and at least each of its terms.
LEMMA SumNat ==
  ASSUME NEW S, IsFiniteSet(S), NEW f, \A x \in S : f[x] \in Nat
  PROVE  /\ SumFunctionOnSet(f, S) \in Nat
         /\ \A x \in S : f[x] <= SumFunctionOnSet(f, S)
<1> DEFINE K == {s \in SUBSET S : SumFunctionOnSet(f, s) \in Nat}
<1>1. {} \in K
  BY SumNothing
<1>2. ASSUME NEW s \in SUBSET S, NEW x \in S, s \in K, x \notin s PROVE s \cup {x} \in K
  <2>1. IsFiniteSet(s)
    BY FS_Subset
  <2>2. \A y \in s \cup {x} : f[y] \in Int
    OBVIOUS
  <2>3. SumFunctionOnSet(f, s \cup {x}) = SumFunctionOnSet(f, s) + f[x]
    BY <1>2, <2>1, <2>2, SumAdd
  <2> QED BY <1>2, <2>3
<1> HIDE DEF K
<1>3. \A s \in SUBSET S : s \in K
  <2> SUFFICES ASSUME NEW s \in SUBSET S PROVE s \in K
    OBVIOUS
  <2>1. IsFiniteSet(s)
    BY FS_Subset
  <2> QED BY <1>1, <1>2, <2>1, FiniteInduction
<1>4. ASSUME NEW x \in S PROVE f[x] <= SumFunctionOnSet(f, S)
  <2>1. SumFunctionOnSet(f, S \ {x}) = SumFunctionOnSet(f, S) - f[x]
    BY SumRemove
  <2>2. SumFunctionOnSet(f, S \ {x}) \in Nat /\ SumFunctionOnSet(f, S) \in Nat
    BY <1>3 DEF K
  <2> QED BY <2>1, <2>2
<1> QED BY <1>3, <1>4 DEF K

\* A function that may differ at one element, in the set or not.
LEMMA SumMoves ==
  ASSUME NEW S, IsFiniteSet(S), NEW f, NEW g, NEW x,
         \A y \in S : f[y] \in Int /\ g[y] \in Int, \A y \in S \ {x} : g[y] = f[y]
  PROVE  SumFunctionOnSet(g, S) = SumFunctionOnSet(f, S) + IF x \in S THEN g[x] - f[x] ELSE 0
<1>1. SumFunctionOnSet(f, S) \in Int
  BY SumInt
<1>2. CASE x \in S
  <2>1. SumFunctionOnSet(g, S) = SumFunctionOnSet(f, S) - f[x] + g[x]
    BY <1>2, SumChange
  <2> QED BY <1>1, <1>2, <2>1
<1>3. CASE x \notin S
  <2>1. SumFunctionOnSet(g, S) = SumFunctionOnSet(f, S)
    BY <1>3, SumSame
  <2> QED BY <1>1, <1>3, <2>1
<1> QED BY <1>2, <1>3

\* A term that was zero.
LEMMA SumNew ==
  ASSUME NEW S, IsFiniteSet(S), NEW f, NEW g, NEW x \in S, f[x] = 0,
         \A y \in S : f[y] \in Int /\ g[y] \in Int, \A y \in S \ {x} : g[y] = f[y]
  PROVE  SumFunctionOnSet(g, S) = SumFunctionOnSet(f, S) + g[x]
<1>1. SumFunctionOnSet(g, S) = SumFunctionOnSet(f, S) - f[x] + g[x]
  BY SumChange
<1>2. SumFunctionOnSet(f, S) \in Int /\ g[x] \in Int
  BY SumInt
<1> QED BY <1>1, <1>2

\* A part of a sum of naturals is at most the whole.
LEMMA SumMonotone ==
  ASSUME NEW S, IsFiniteSet(S), NEW f, \A x \in S : f[x] \in Nat, NEW T \in SUBSET S
  PROVE  SumFunctionOnSet(f, T) <= SumFunctionOnSet(f, S)
<1> DEFINE R == S \ T
           K == {s \in SUBSET R : SumFunctionOnSet(f, T) <= SumFunctionOnSet(f, T \cup s)}
<1>1. IsFiniteSet(T) /\ IsFiniteSet(R)
  BY FS_Subset
<1>2. {} \in K
  <2>1. T \cup {} = T
    OBVIOUS
  <2>2. SumFunctionOnSet(f, T \cup {}) = SumFunctionOnSet(f, T)
    BY <2>1, Zenon
  <2>3. SumFunctionOnSet(f, T) \in Int
    BY <1>1, SumInt
  <2> QED BY <2>2, <2>3
<1>3. ASSUME NEW s \in SUBSET R, NEW x \in R, s \in K, x \notin s PROVE s \cup {x} \in K
  <2> DEFINE t == T \cup s
  <2>1. t \in SUBSET S /\ x \notin t /\ x \in S /\ T \cup (s \cup {x}) = t \cup {x}
    BY <1>3
  <2>2. SumFunctionOnSet(f, T) <= SumFunctionOnSet(f, t)
    BY <1>3
  <2> HIDE DEF t
  <2>3. IsFiniteSet(t) /\ \A y \in t \cup {x} : f[y] \in Int
    BY <2>1, FS_Subset
  <2>4. SumFunctionOnSet(f, t \cup {x}) = SumFunctionOnSet(f, t) + f[x]
    BY <2>1, <2>3, SumAdd
  <2>5. SumFunctionOnSet(f, t) \in Int /\ SumFunctionOnSet(f, T) \in Int /\ f[x] \in Nat
    BY <1>1, <2>1, <2>3, SumInt
  <2>6. SumFunctionOnSet(f, T) <= SumFunctionOnSet(f, t \cup {x})
    BY <2>2, <2>4, <2>5
  <2>7. SumFunctionOnSet(f, T \cup (s \cup {x})) = SumFunctionOnSet(f, t \cup {x})
    BY <2>1, Zenon
  <2> QED BY <2>6, <2>7
<1>4. R \in K
  <2> HIDE DEF K
  <2> QED BY <1>1, <1>2, <1>3, FiniteInduction
<1>5. T \cup R = S
  OBVIOUS
<1>6. SumFunctionOnSet(f, T \cup R) = SumFunctionOnSet(f, S)
  BY <1>5, Zenon
<1> QED BY <1>4, <1>6

\* Only the terms that are not zero matter.
LEMMA SumSupport ==
  ASSUME NEW S, IsFiniteSet(S), NEW f, \A x \in S : f[x] \in Int, NEW T \in SUBSET S,
         \A x \in S \ T : f[x] = 0, NEW g, \A x \in T : g[x] = f[x]
  PROVE  SumFunctionOnSet(g, T) = SumFunctionOnSet(f, S)
<1> DEFINE R == S \ T
           K == {s \in SUBSET R : SumFunctionOnSet(f, T \cup s) = SumFunctionOnSet(f, T)}
<1>1. IsFiniteSet(T) /\ IsFiniteSet(R)
  BY FS_Subset
<1>2. {} \in K
  <2>1. T \cup {} = T
    OBVIOUS
  <2>2. SumFunctionOnSet(f, T \cup {}) = SumFunctionOnSet(f, T)
    BY <2>1, Zenon
  <2> QED BY <2>2
<1>3. ASSUME NEW s \in SUBSET R, NEW x \in R, s \in K, x \notin s PROVE s \cup {x} \in K
  <2> DEFINE t == T \cup s
  <2>1. /\ t \in SUBSET S /\ x \notin t /\ x \in S /\ T \cup (s \cup {x}) = t \cup {x}
        /\ f[x] = 0
    BY <1>3
  <2>2. SumFunctionOnSet(f, t) = SumFunctionOnSet(f, T)
    BY <1>3
  <2> HIDE DEF t
  <2>3. IsFiniteSet(t) /\ \A y \in t \cup {x} : f[y] \in Int
    BY <2>1, FS_Subset
  <2>4. SumFunctionOnSet(f, t \cup {x}) = SumFunctionOnSet(f, t) + f[x]
    BY <2>1, <2>3, SumAdd
  <2>5. SumFunctionOnSet(f, t) \in Int
    BY <2>3, SumInt
  <2>6. SumFunctionOnSet(f, t \cup {x}) = SumFunctionOnSet(f, T)
    BY <2>1, <2>2, <2>4, <2>5
  <2>7. SumFunctionOnSet(f, T \cup (s \cup {x})) = SumFunctionOnSet(f, t \cup {x})
    BY <2>1, Zenon
  <2> QED BY <2>6, <2>7
<1>4. R \in K
  <2> HIDE DEF K
  <2> QED BY <1>1, <1>2, <1>3, FiniteInduction
<1>5. T \cup R = S
  OBVIOUS
<1>6. SumFunctionOnSet(f, T \cup R) = SumFunctionOnSet(f, S)
  BY <1>5, Zenon
<1>7. SumFunctionOnSet(g, T) = SumFunctionOnSet(f, T)
  BY <1>1, SumSame
<1> QED BY <1>4, <1>6, <1>7

-----------------------------------------------------------------------------
(* Finite sets. *)

\* The values a function takes on a finite domain are finitely many.
LEMMA FiniteImage ==
  ASSUME NEW S, IsFiniteSet(S), NEW f, NEW T, T = {f[x] : x \in S}
  PROVE  IsFiniteSet(T)
<1> DEFINE g == [x \in S |-> f[x]]
<1>1. g \in [S -> T] /\ \A y \in T : \E x \in S : g[x] = y
  OBVIOUS
<1>2. g \in Surjection(S, T)
  BY <1>1 DEF Surjection
<1> HIDE DEF g
<1> QED BY <1>2, FS_Surjection

\* The elements of a sequence are finitely many.
LEMMA FiniteSequence ==
  ASSUME NEW F, NEW s \in Seq(F)
  PROVE  IsFiniteSet(ToSet(s))
<1>1. Len(s) \in Nat /\ DOMAIN s = 1..Len(s)
  OBVIOUS
<1>2. IsFiniteSet(1..Len(s))
  BY <1>1, FS_Interval
<1>3. ToSet(s) = {s[i] : i \in 1..Len(s)}
  BY <1>1 DEF ToSet
<1> QED BY <1>2, <1>3, FiniteImage

\* A sum of zeros.
LEMMA SumZeros ==
  ASSUME NEW S, IsFiniteSet(S), NEW f, \A x \in S : f[x] = 0
  PROVE  SumFunctionOnSet(f, S) = 0
<1>1. SumFunctionOnSet(f, {}) = SumFunctionOnSet(f, S)
  BY SumSupport
<1> QED BY <1>1, SumNothing

\* The sum over two sets with nothing in common.
LEMMA SumUnion ==
  ASSUME NEW S, IsFiniteSet(S), NEW T, IsFiniteSet(T), S \cap T = {},
         NEW f, \A x \in S \cup T : f[x] \in Int
  PROVE  SumFunctionOnSet(f, S \cup T) = SumFunctionOnSet(f, S) + SumFunctionOnSet(f, T)
<1> DEFINE K == {t \in SUBSET T :
                   SumFunctionOnSet(f, S \cup t) = SumFunctionOnSet(f, S) + SumFunctionOnSet(f, t)}
<1>1. SumFunctionOnSet(f, S) \in Int
  BY SumInt
<1>2. {} \in K
  <2>1. S \cup {} = S
    OBVIOUS
  <2>2. SumFunctionOnSet(f, S \cup {}) = SumFunctionOnSet(f, S)
    BY <2>1, Zenon
  <2> QED BY <1>1, <2>2, SumNothing
<1>3. ASSUME NEW t \in SUBSET T, NEW x \in T, t \in K, x \notin t PROVE t \cup {x} \in K
  <2> DEFINE u == S \cup t
  <2>1. x \notin u /\ S \cup (t \cup {x}) = u \cup {x} /\ t \cup {x} \in SUBSET T
    BY <1>3
  <2>2. IsFiniteSet(t) /\ IsFiniteSet(u)
    BY FS_Subset, FS_Union
  <2>3. /\ \A y \in u \cup {x} : f[y] \in Int
        /\ \A y \in t \cup {x} : f[y] \in Int
    OBVIOUS
  <2>4. SumFunctionOnSet(f, u) = SumFunctionOnSet(f, S) + SumFunctionOnSet(f, t)
    BY <1>3
  <2> HIDE DEF u
  <2>5. SumFunctionOnSet(f, u \cup {x}) = SumFunctionOnSet(f, u) + f[x]
    BY <2>1, <2>2, <2>3, SumAdd
  <2>6. SumFunctionOnSet(f, t \cup {x}) = SumFunctionOnSet(f, t) + f[x]
    BY <1>3, <2>2, <2>3, SumAdd
  <2>7. SumFunctionOnSet(f, t) \in Int /\ f[x] \in Int
    BY <2>2, <2>3, SumInt
  <2>8. SumFunctionOnSet(f, S \cup (t \cup {x})) = SumFunctionOnSet(f, u \cup {x})
    BY <2>1, Zenon
  <2>9. SumFunctionOnSet(f, S \cup (t \cup {x})) = SumFunctionOnSet(f, S) + SumFunctionOnSet(f, t \cup {x})
    BY <1>1, <2>4, <2>5, <2>6, <2>7, <2>8
  <2> QED BY <2>1, <2>9
<1> HIDE DEF K
<1>4. T \in K
  BY <1>2, <1>3, FiniteInduction
<1> QED BY <1>4 DEF K

\* The sum over the image of a set under a one-to-one function.
LEMMA SumImage ==
  ASSUME NEW S, IsFiniteSet(S), NEW g, \A x, y \in S : g[x] = g[y] => x = y,
         NEW f, NEW h, \A x \in S : h[x] \in Int /\ f[g[x]] = h[x]
  PROVE  SumFunctionOnSet(f, {g[x] : x \in S}) = SumFunctionOnSet(h, S)
<1> DEFINE Im(s) == {g[x] : x \in s}
           K == {s \in SUBSET S : SumFunctionOnSet(f, Im(s)) = SumFunctionOnSet(h, s)}
<1>1. {} \in K
  <2>1. Im({}) = {}
    OBVIOUS
  <2>2. SumFunctionOnSet(f, Im({})) = SumFunctionOnSet(f, {})
    BY <2>1, Zenon
  <2> QED BY <2>2, SumNothing
<1>2. ASSUME NEW s \in SUBSET S, NEW x \in S, s \in K, x \notin s PROVE s \cup {x} \in K
  <2> DEFINE t == Im(s)
  <2>1. Im(s \cup {x}) = t \cup {g[x]} /\ g[x] \notin t /\ s \cup {x} \in SUBSET S
    BY <1>2
  <2>2. IsFiniteSet(s)
    BY FS_Subset
  <2>3. IsFiniteSet(t)
    BY <2>2, FiniteImage
  <2>4. /\ \A y \in t \cup {g[x]} : f[y] \in Int
        /\ \A y \in s \cup {x} : h[y] \in Int
    OBVIOUS
  <2>5. SumFunctionOnSet(f, t) = SumFunctionOnSet(h, s)
    BY <1>2
  <2>6. SumFunctionOnSet(f, Im(s \cup {x})) = SumFunctionOnSet(f, t \cup {g[x]})
    BY <2>1, Zenon
  <2> HIDE DEF t
  <2>7. SumFunctionOnSet(f, t \cup {g[x]}) = SumFunctionOnSet(f, t) + f[g[x]]
    <3> DEFINE y == g[x]
    <3>1. y \notin t /\ \A z \in t \cup {y} : f[z] \in Int
      BY <2>1, <2>4
    <3> HIDE DEF y
    <3>2. SumFunctionOnSet(f, t \cup {y}) = SumFunctionOnSet(f, t) + f[y]
      BY <2>3, <3>1, SumAdd
    <3> QED BY <3>2 DEF y
  <2>8. SumFunctionOnSet(h, s \cup {x}) = SumFunctionOnSet(h, s) + h[x]
    BY <1>2, <2>2, <2>4, SumAdd
  <2>9. SumFunctionOnSet(f, Im(s \cup {x})) = SumFunctionOnSet(h, s \cup {x})
    BY <2>5, <2>6, <2>7, <2>8
  <2> QED BY <2>1, <2>9
<1> HIDE DEF K
<1>3. S \in K
  BY <1>1, <1>2, FiniteInduction
<1> QED BY <1>3 DEF K

\* The difference of two sums over the same set.
LEMMA SumMinus ==
  ASSUME NEW S, IsFiniteSet(S), NEW f, NEW g, NEW h,
         \A x \in S : f[x] \in Int /\ g[x] \in Int /\ h[x] = f[x] - g[x]
  PROVE  SumFunctionOnSet(h, S) = SumFunctionOnSet(f, S) - SumFunctionOnSet(g, S)
<1> DEFINE K == {s \in SUBSET S :
                   SumFunctionOnSet(h, s) = SumFunctionOnSet(f, s) - SumFunctionOnSet(g, s)}
<1>1. {} \in K
  BY SumNothing
<1>2. ASSUME NEW s \in SUBSET S, NEW x \in S, s \in K, x \notin s PROVE s \cup {x} \in K
  <2>1. IsFiniteSet(s) /\ s \cup {x} \in SUBSET S
    BY FS_Subset
  <2>2. /\ \A y \in s \cup {x} : f[y] \in Int
        /\ \A y \in s \cup {x} : g[y] \in Int
        /\ \A y \in s \cup {x} : h[y] \in Int
    OBVIOUS
  <2>3. /\ SumFunctionOnSet(f, s \cup {x}) = SumFunctionOnSet(f, s) + f[x]
        /\ SumFunctionOnSet(g, s \cup {x}) = SumFunctionOnSet(g, s) + g[x]
        /\ SumFunctionOnSet(h, s \cup {x}) = SumFunctionOnSet(h, s) + h[x]
    BY <1>2, <2>1, <2>2, SumAdd
  <2>4. /\ SumFunctionOnSet(f, s) \in Int /\ SumFunctionOnSet(g, s) \in Int
        /\ f[x] \in Int /\ g[x] \in Int /\ h[x] = f[x] - g[x]
    BY <2>1, <2>2, SumInt
  <2>5. SumFunctionOnSet(h, s) = SumFunctionOnSet(f, s) - SumFunctionOnSet(g, s)
    BY <1>2
  <2>6. SumFunctionOnSet(h, s \cup {x}) = SumFunctionOnSet(f, s \cup {x}) - SumFunctionOnSet(g, s \cup {x})
    BY <2>3, <2>4, <2>5
  <2> QED BY <2>1, <2>6
<1> HIDE DEF K
<1>3. S \in K
  BY <1>1, <1>2, FiniteInduction
<1> QED BY <1>3 DEF K
=============================================================================
