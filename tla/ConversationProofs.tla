------------------------ MODULE ConversationProofs ------------------------
(***************************************************************************)
(* Theorems about Conversation, for any limits, any batch and any answers. *)
(* The conversation is read from its opening on: after it come a           *)
(* checkpoint, perhaps, and an end of the history, in which each reply is  *)
(* followed by the results of its calls. The sums, selections and merges   *)
(* of the model are folds; what they return is proved by induction over    *)
(* sets.                                                                   *)
(***************************************************************************)
EXTENDS Conversation, FiniteSetsExt, Functions, Folds,
        FiniteSetTheorems, SequenceTheorems, WellFoundedInduction, TLAPS

---------------------------------------------------------------------------
(***************************************************************************)
(* Induction in the form the provers can use, over the elements of a set,  *)
(* and what it says of the folds of the community modules. Nothing here is *)
(* about a conversation.                                                   *)
(***************************************************************************)

(* Induction.                                                              *)

\* A set of naturals that is not empty has a least element.
LEMMA LeastOf ==
  ASSUME NEW T \in SUBSET Nat, T # {}
  PROVE  \E n \in T : \A m \in T : n <= m
<1>1. PICK n \in T : \A m \in T : ~(<<m, n>> \in OpToRel(<, Nat))
  BY NatLessThanWellFounded, WFMin, Zenon
<1>2. \A m \in T : ~(m < n)
  BY <1>1 DEF OpToRel
<1> QED BY <1>2

\* A set that holds 0 and each successor holds every natural.
LEMMA NatSetInduction ==
  ASSUME NEW G, 0 \in G, \A n \in Nat : n \in G => n + 1 \in G
  PROVE  Nat \subseteq G
<1> SUFFICES ASSUME Nat \ G # {} PROVE FALSE
  OBVIOUS
<1>1. PICK n \in Nat \ G : \A m \in Nat \ G : n <= m
  <2> DEFINE T == Nat \ G
  <2>1. T \in SUBSET Nat /\ T # {}
    OBVIOUS
  <2> HIDE DEF T
  <2>2. \E n \in T : \A m \in T : n <= m
    BY <2>1, LeastOf
  <2> QED BY <2>2 DEF T
<1>2. n # 0 /\ n - 1 \in Nat /\ ~(n <= n - 1)
  BY <1>1
<1>3. n - 1 \in G
  BY <1>1, <1>2
<1>4. (n - 1) + 1 \in G
  BY <1>2, <1>3
<1> QED BY <1>1, <1>4

\* Taking an element away from one of the subsets of a finite set.
LEMMA TakeOne ==
  ASSUME NEW S, IsFiniteSet(S), NEW s \in SUBSET S, s # {}, NEW x \in s
  PROVE  /\ s \ {x} \in SUBSET S /\ Cardinality(s) \in Nat /\ Cardinality(s \ {x}) \in Nat
         /\ Cardinality(s) = Cardinality(s \ {x}) + 1
<1>1. IsFiniteSet(s)
  BY FS_Subset
<1>2. Cardinality(s \ {x}) = Cardinality(s) - 1 /\ IsFiniteSet(s \ {x})
  BY <1>1, FS_RemoveElement
<1>3. Cardinality(s) \in Nat /\ Cardinality(s \ {x}) \in Nat
  BY <1>1, <1>2, FS_CardinalityType
<1> QED BY <1>2, <1>3

\* Over the subsets of a finite set: c names the element that is taken last.
LEMMA SubsetInduction ==
  ASSUME NEW S, IsFiniteSet(S), NEW c, \A s \in (SUBSET S) \ {{}} : c[s] \in s,
         NEW G, {} \in G,
         \A s \in (SUBSET S) \ {{}} : s \ {c[s]} \in G => s \in G
  PROVE  SUBSET S \subseteq G
<1> DEFINE N == {n \in Nat : \A s \in SUBSET S : Cardinality(s) = n => s \in G}
<1>1. 0 \in N
  BY FS_Subset, FS_EmptySet
<1>2. ASSUME NEW n \in N PROVE n + 1 \in N
  <2> SUFFICES ASSUME NEW s \in SUBSET S, Cardinality(s) = n + 1 PROVE s \in G
    OBVIOUS
  <2>1. IsFiniteSet(s) /\ s # {}
    BY FS_Subset, FS_EmptySet
  <2>2. Cardinality(s \ {c[s]}) = n
    <3>1. s \in (SUBSET S) \ {{}} /\ c[s] \in s
      BY <2>1
    <3> QED BY <2>1, <3>1, TakeOne
  <2>3. s \ {c[s]} \in SUBSET S
    OBVIOUS
  <2> QED BY <2>1, <2>2, <2>3
<1>3. Nat \subseteq N
  <2> HIDE DEF N
  <2> QED BY <1>1, <1>2, NatSetInduction
<1>4. ASSUME NEW s \in SUBSET S PROVE Cardinality(s) \in Nat
  BY FS_Subset, FS_CardinalityType
<1> QED BY <1>3, <1>4

\* c names an element of each subset, step takes it to the value so far.
Chooses(c, S) == \A s \in (SUBSET S) \ {{}} : c[s] \in s
Steps(step, S, V) == step \in [S \X V -> V]
Folds(g, c, step, base, S, V) ==
  /\ g \in [SUBSET S -> V]
  /\ \A s \in SUBSET S : g[s] = IF s = {} THEN base ELSE step[<<c[s], g[s \ {c[s]}]>>]

\* A function is defined over the subsets, one element at a time.
LEMMA FoldExists ==
  ASSUME NEW S, IsFiniteSet(S), NEW V, NEW base, base \in V,
         NEW c, Chooses(c, S), NEW step, Steps(step, S, V)
  PROVE  \E g : Folds(g, c, step, base, S, V)
<1> USE DEF Chooses, Steps, Folds
<1> DEFINE Body(g, s) == IF s = {} THEN base ELSE step[<<c[s], g[s \ {c[s]}]>>]
           G == {n \in Nat : \E g \in [SUBSET S -> V] :
                   \A s \in SUBSET S : Cardinality(s) <= n => g[s] = Body(g, s)}
<1>0. \A s \in SUBSET S : /\ IsFiniteSet(s) /\ Cardinality(s) \in Nat
                          /\ Cardinality(s) = 0 <=> s = {}
                          /\ s # {} => c[s] \in s /\ s \ {c[s]} \in SUBSET S
                                       /\ Cardinality(s) = Cardinality(s \ {c[s]}) + 1
  <2>1. \A s \in SUBSET S : IsFiniteSet(s) /\ Cardinality(s) \in Nat /\ (Cardinality(s) = 0 <=> s = {})
    BY FS_Subset, FS_CardinalityType, FS_EmptySet
  <2>2. ASSUME NEW s \in SUBSET S, s # {}
        PROVE  c[s] \in s /\ s \ {c[s]} \in SUBSET S /\ Cardinality(s) = Cardinality(s \ {c[s]}) + 1
    <3>1. s \in (SUBSET S) \ {{}} /\ c[s] \in s
      BY <2>2
    <3> QED BY <2>2, <3>1, TakeOne
  <2> QED BY <2>1, <2>2
<1>1. 0 \in G
  <2>1. [s \in SUBSET S |-> base] \in [SUBSET S -> V]
    OBVIOUS
  <2>2. ASSUME NEW s \in SUBSET S, Cardinality(s) <= 0 PROVE s = {}
    <3>1. Cardinality(s) = 0
      <4>1. Cardinality(s) \in Nat
        BY <1>0
      <4> QED BY <2>2, <4>1
    <3> QED BY <1>0, <3>1, Zenon
  <2>3. \A s \in SUBSET S : Cardinality(s) <= 0 => [r \in SUBSET S |-> base][s] = Body([r \in SUBSET S |-> base], s)
    BY <2>2
  <2> HIDE DEF Body
  <2> QED BY <2>1, <2>3
<1>2. ASSUME NEW n \in Nat, n \in G PROVE n + 1 \in G
  <2>1. PICK g \in [SUBSET S -> V] : \A s \in SUBSET S : Cardinality(s) <= n => g[s] = Body(g, s)
    BY <1>2
  <2> DEFINE h == [s \in SUBSET S |-> Body(g, s)]
  <2>2. \A s \in SUBSET S : Body(g, s) \in V
    OBVIOUS
  <2>3. h \in [SUBSET S -> V]
    BY <2>2
  <2>4. ASSUME NEW s \in SUBSET S, Cardinality(s) <= n + 1 PROVE h[s] = Body(h, s)
    <3>1. CASE s = {}
      BY <3>1
    <3>2. CASE s # {}
      <4> DEFINE r == s \ {c[s]}
      <4>1. r \in SUBSET S /\ Cardinality(r) <= n
        <5>1. s \in SUBSET S /\ Cardinality(s) = Cardinality(r) + 1 /\ r \in SUBSET S
          BY <1>0, <3>2, Zenon
        <5>2. Cardinality(r) \in Nat
          BY <1>0, <5>1
        <5> HIDE DEF r
        <5> QED BY <2>4, <5>1, <5>2
      <4>2. h[r] = g[r]
        BY <2>1, <4>1
      <4> QED BY <3>2, <4>1, <4>2
    <3> QED BY <3>1, <3>2
  <2>5. \A s \in SUBSET S : Cardinality(s) <= n + 1 => h[s] = Body(h, s)
    BY <2>4
  <2>6. n + 1 \in Nat
    OBVIOUS
  <2> HIDE DEF h, Body
  <2> QED BY <2>3, <2>5, <2>6
<1>3. Nat \subseteq G
  <2> HIDE DEF G
  <2> QED BY <1>1, <1>2, NatSetInduction
<1>4. Cardinality(S) \in G
  BY <1>0, <1>3
<1>5. PICK g \in [SUBSET S -> V] : \A s \in SUBSET S : Cardinality(s) <= Cardinality(S) => g[s] = Body(g, s)
  BY <1>4
<1>6. \A s \in SUBSET S : Cardinality(s) <= Cardinality(S)
  BY FS_Subset
<1> QED BY <1>5, <1>6

---------------------------------------------------------------------------
(* Sums of tables.                                                         *)

\* Any element will do where the order does not matter.
Some(S) == [s \in SUBSET S |-> CHOOSE x \in s : TRUE]

\* A sum of naturals is one, and is 0 only when all of them are.
LEMMA SumOf ==
  ASSUME NEW f, NEW S, IsFiniteSet(S), \A x \in S : f[x] \in Nat
  PROVE  /\ FoldFunctionOnSet(+, 0, f, S) \in Nat
         /\ S # {} /\ (\A x \in S : f[x] > 0) => FoldFunctionOnSet(+, 0, f, S) > 0
         /\ (\A x \in S : f[x] = 0) => FoldFunctionOnSet(+, 0, f, S) = 0
<1> DEFINE c == Some(S)
           step == [p \in S \X Nat |-> f[p[1]] + p[2]]
           Is(g) == g = [s \in SUBSET S |-> IF s = {} THEN 0
                                            ELSE LET x == CHOOSE x \in s : TRUE IN f[x] + g[s \ {x}]]
           iter == CHOOSE g : Is(g)
<1>1. \A s \in (SUBSET S) \ {{}} : c[s] = (CHOOSE x \in s : TRUE) /\ c[s] \in s
  BY DEF Some
<1>2. Is(iter)
  <2>1. step \in [S \X Nat -> Nat]
    OBVIOUS
  <2>2. PICK g : Folds(g, c, step, 0, S, Nat)
    <3>1. Chooses(c, S) /\ Steps(step, S, Nat) /\ 0 \in Nat
      BY <1>1, <2>1 DEF Chooses, Steps
    <3> HIDE DEF c, step
    <3>2. IsFiniteSet(S) OBVIOUS
    <3> QED BY <3>1, <3>2, FoldExists
  <2>3. ASSUME NEW s \in SUBSET S
        PROVE  g[s] = IF s = {} THEN 0 ELSE LET x == CHOOSE x \in s : TRUE IN f[x] + g[s \ {x}]
    <3>1. CASE s = {}
      BY <2>2, <3>1 DEF Folds
    <3>2. CASE s # {}
      <4>1. g[s] = step[<<c[s], g[s \ {c[s]}]>>] /\ c[s] \in S /\ g[s \ {c[s]}] \in Nat
        BY <1>1, <2>2, <3>2 DEF Folds
      <4>2. g[s] = f[c[s]] + g[s \ {c[s]}]
        BY <4>1
      <4> QED BY <1>1, <3>2, <4>2
    <3> QED BY <3>1, <3>2
  <2>4. Is(g)
    BY <2>2, <2>3 DEF Folds
  <2> HIDE DEF Is
  <2> QED BY <2>4
<1>3. FoldFunctionOnSet(+, 0, f, S) = iter[S]
  BY DEF FoldFunctionOnSet, MapThenFoldSet
<1> DEFINE G == {s \in SUBSET S : /\ iter[s] \in Nat
                                  /\ s # {} /\ (\A x \in S : f[x] > 0) => iter[s] > 0
                                  /\ (\A x \in S : f[x] = 0) => iter[s] = 0}
<1> HIDE DEF iter
<1>4. iter[{}] = 0
  BY <1>2
<1>5. ASSUME NEW s \in (SUBSET S) \ {{}}, s \ {c[s]} \in G PROVE s \in G
  <2>1. iter[s] = f[c[s]] + iter[s \ {c[s]}] /\ c[s] \in S
    BY <1>1, <1>2
  <2> HIDE DEF c
  <2>2. f[c[s]] \in Nat /\ iter[s \ {c[s]}] \in Nat
    BY <1>5, <2>1
  <2>3. (\A x \in S : f[x] = 0) => iter[s] = 0
    BY <1>5, <2>1
  <2>4. (\A x \in S : f[x] > 0) => iter[s] > 0
    BY <2>1, <2>2
  <2> QED BY <2>1, <2>2, <2>3, <2>4
<1>6. SUBSET S \subseteq G
  <2>1. {} \in G
    BY <1>4
  <2>2. \A s \in (SUBSET S) \ {{}} : c[s] \in s
    BY <1>1
  <2>3. \A s \in (SUBSET S) \ {{}} : s \ {c[s]} \in G => s \in G
    BY <1>5
  <2> HIDE DEF G, c
  <2> QED BY <2>1, <2>2, <2>3, SubsetInduction
<1> QED BY <1>3, <1>6

---------------------------------------------------------------------------
(* Folds over a sequence, item by item.                                    *)

\* Of the positions of a sequence, the last one is the greatest.
LEMMA MaxIn ==
  ASSUME NEW n \in Nat, NEW s \in SUBSET (1..n), s # {}
  PROVE  Max(s) \in s /\ \A y \in s : y <= Max(s)
<1> DEFINE T == {n - x : x \in s}
<1>1. T \in SUBSET Nat /\ T # {}
  OBVIOUS
<1> HIDE DEF T
<1>2. PICK t \in T : \A m \in T : t <= m
  BY <1>1, LeastOf
<1>3. PICK x \in s : t = n - x
  BY <1>2 DEF T
<1>4. ASSUME NEW y \in s PROVE x >= y
  <2>1. n - y \in T
    BY DEF T
  <2>2. n - x <= n - y
    BY <1>2, <1>3, <2>1
  <2>3. x \in 1..n /\ y \in 1..n
    OBVIOUS
  <2> QED BY <2>2, <2>3
<1>5. \E z \in s : \A y \in s : z >= y
  BY <1>4
<1>6. Max(s) \in s /\ \A y \in s : Max(s) >= y
  <2>1. Max(s) = CHOOSE z \in s : \A y \in s : z >= y
    BY DEF Max
  <2> QED BY <1>5, <2>1
<1>7. ASSUME NEW y \in s PROVE y <= Max(s)
  <2>1. y \in 1..n /\ Max(s) \in 1..n /\ Max(s) >= y
    BY <1>6
  <2> QED BY <2>1
<1> QED BY <1>6, <1>7

Latest(n) == [s \in SUBSET (1..n) |-> Max(s)]

\* To take the last index is a way to choose from an interval.
LEMMA LatestChooses ==
  ASSUME NEW n \in Nat
  PROVE  /\ IsFiniteSet(1..n) /\ Chooses(Latest(n), 1..n)
         /\ \A s \in (SUBSET (1..n)) \ {{}} : Latest(n)[s] = Max(s)
<1>1. IsFiniteSet(1..n)
  BY FS_Interval
<1>2. ASSUME NEW s \in (SUBSET (1..n)) \ {{}} PROVE Latest(n)[s] = Max(s) /\ Max(s) \in s
  <2>1. s \in SUBSET (1..n) /\ s # {}
    OBVIOUS
  <2> QED BY <2>1, MaxIn DEF Latest
<1> QED BY <1>1, <1>2 DEF Chooses

\* Taken by their greatest elements, the sets left are the beginnings.
LEMMA Beginnings ==
  ASSUME NEW n \in Nat, NEW k \in 1..n
  PROVE  /\ 1..k \in SUBSET (1..n) /\ 1..(k - 1) \in SUBSET (1..n) /\ 1..k # {}
         /\ Latest(n)[1..k] = k /\ (1..k) \ {k} = 1..(k - 1)
<1>1. 1..k \in SUBSET (1..n) /\ 1..k # {} /\ 1..(k - 1) \in SUBSET (1..n)
  OBVIOUS
<1> DEFINE s == 1..k
<1>2. k \in s /\ \A y \in s : y \in 1..n /\ y <= k
  OBVIOUS
<1>3. (1..k) \ {k} = 1..(k - 1)
  OBVIOUS
<1>4. s \in SUBSET (1..n) /\ s # {}
  BY <1>1
<1> HIDE DEF s
<1>5. Max(s) \in s /\ \A y \in s : y <= Max(s)
  BY <1>4, MaxIn
<1>6. Max(s) = k
  <2>1. Max(s) \in 1..n /\ Max(s) <= k /\ k <= Max(s)
    BY <1>2, <1>5
  <2> QED BY <2>1
<1>7. Latest(n)[s] = Max(s)
  BY <1>4 DEF Latest
<1> QED BY <1>1, <1>3, <1>6, <1>7 DEF s

\* What holds of the empty set and with each element taken.
LEMMA FoldValues ==
  ASSUME NEW S, IsFiniteSet(S), NEW c, Chooses(c, S), NEW f, NEW V, f[{}] \in V,
         \A s \in (SUBSET S) \ {{}} : f[s \ {c[s]}] \in V => f[s] \in V
  PROVE  \A s \in SUBSET S : f[s] \in V
<1> DEFINE G == {s \in SUBSET S : f[s] \in V}
<1>1. {} \in G
  OBVIOUS
<1>2. \A s \in (SUBSET S) \ {{}} : c[s] \in s
  BY DEF Chooses
<1>3. \A s \in (SUBSET S) \ {{}} : s \ {c[s]} \in G => s \in G
  OBVIOUS
<1>4. SUBSET S \subseteq G
  <2> HIDE DEF G
  <2> QED BY <1>1, <1>2, <1>3, SubsetInduction
<1> QED BY <1>4

\* A fold over a sequence, as the values of its beginnings.
Unfolded(g, step, base, n, V) ==
  /\ g \in [SUBSET (1..n) -> V]
  /\ \A s \in SUBSET (1..n) : g[s] = IF s = {} THEN base ELSE step[<<Max(s), g[s \ {Max(s)}]>>]

Run(h, step, base, n, V) ==
  /\ h \in [0..n -> V] /\ h[0] = base
  /\ \A k \in 1..n : h[k] = step[<<k, h[k - 1]>>]

Unwinds(iter, step, base, n, V) ==
  /\ iter[{}] = base
  /\ \A s \in (SUBSET (1..n)) \ {{}} :
       iter[s \ {Max(s)}] \in V => iter[s] = step[<<Max(s), iter[s \ {Max(s)}]>>]

\* There is a function that unfolds any number of steps.
LEMMA RunExists ==
  ASSUME NEW n \in Nat, NEW V, NEW base \in V, NEW step, Steps(step, 1..n, V)
  PROVE  \E g : Unfolded(g, step, base, n, V)
<1> DEFINE c == Latest(n)
           S == 1..n
<1>1. Chooses(c, S) /\ IsFiniteSet(S) /\ Steps(step, S, V) /\ \A s \in (SUBSET S) \ {{}} : c[s] = Max(s)
  BY LatestChooses
<1> HIDE DEF c, S
<1>2. PICK g : Folds(g, c, step, base, S, V)
  BY <1>1, FoldExists
<1>3. ASSUME NEW s \in SUBSET S
      PROVE  g[s] = IF s = {} THEN base ELSE step[<<Max(s), g[s \ {Max(s)}]>>]
  <2>1. CASE s = {}
    BY <1>2, <2>1 DEF Folds
  <2>2. CASE s # {}
    <3>1. c[s] = Max(s)
      BY <1>1, <2>2
    <3>2. g[s] = step[<<c[s], g[s \ {c[s]}]>>]
      BY <1>2, <2>2 DEF Folds
    <3> QED BY <2>2, <3>1, <3>2
  <2> QED BY <2>1, <2>2
<1>4. g \in [SUBSET S -> V]
  BY <1>2 DEF Folds
<1> QED BY <1>3, <1>4 DEF Unfolded, S

\* What a fold over an interval returns is where the run of its steps ends.
LEMMA RunOf ==
  ASSUME NEW n \in Nat, NEW V, NEW base \in V, NEW step, Steps(step, 1..n, V), NEW iter,
         Unwinds(iter, step, base, n, V)
  PROVE  \E h : Run(h, step, base, n, V) /\ h[n] = iter[1..n]
<1> DEFINE c == Latest(n)
           S == 1..n
           h == [k \in 0..n |-> iter[1..k]]
<1>1. Chooses(c, S) /\ IsFiniteSet(S) /\ \A s \in (SUBSET S) \ {{}} : c[s] = Max(s) /\ c[s] \in s
  BY LatestChooses DEF Chooses
<1>2. \A s \in (SUBSET S) \ {{}} : iter[s \ {c[s]}] \in V => iter[s] \in V
  <2> SUFFICES ASSUME NEW s \in (SUBSET S) \ {{}}, iter[s \ {c[s]}] \in V PROVE iter[s] \in V
    OBVIOUS
  <2>1. c[s] = Max(s) /\ c[s] \in S
    BY <1>1
  <2>2. iter[s] = step[<<Max(s), iter[s \ {Max(s)}]>>]
    BY <2>1 DEF Unwinds
  <2> QED BY <2>1, <2>2 DEF Steps
<1>3. \A s \in SUBSET S : iter[s] \in V
  <2>1. iter[{}] \in V
    BY DEF Unwinds
  <2> HIDE DEF c, S
  <2> QED BY <1>1, <1>2, <2>1, FoldValues
<1>4. ASSUME NEW k \in 1..n PROVE iter[1..k] = step[<<k, iter[1..(k - 1)]>>]
  <2>1. 1..k \in (SUBSET S) \ {{}} /\ Max(1..k) = k /\ (1..k) \ {k} = 1..(k - 1) /\ 1..(k - 1) \in SUBSET S
    BY Beginnings DEF Latest
  <2>2. iter[(1..k) \ {Max(1..k)}] \in V
    BY <1>3, <2>1
  <2> QED BY <2>1, <2>2 DEF Unwinds
<1>5. h \in [0..n -> V]
  <2>1. \A k \in 0..n : 1..k \in SUBSET S
    OBVIOUS
  <2> QED BY <1>3, <2>1
<1>6. h[0] = base
  <2>1. 1..0 = {}
    OBVIOUS
  <2> QED BY <2>1 DEF Unwinds
<1>7. \A k \in 1..n : h[k] = step[<<k, h[k - 1]>>]
  <2> SUFFICES ASSUME NEW k \in 1..n PROVE h[k] = step[<<k, h[k - 1]>>]
    OBVIOUS
  <2>1. k \in 0..n /\ k - 1 \in 0..n
    OBVIOUS
  <2> QED BY <1>4, <2>1
<1>8. h[n] = iter[1..n]
  OBVIOUS
<1> HIDE DEF h
<1> QED BY <1>5, <1>6, <1>7, <1>8 DEF Run

---------------------------------------------------------------------------
(***************************************************************************)
(* An answer is taken whole or not at all.                                 *)
(***************************************************************************)

(* Answers.                                                                *)

\* A count of the items of an answer is a natural number.
LEMMA CountNat ==
  ASSUME NEW r \in Seq(Items), NEW S, S \subseteq DOMAIN r
  PROVE  /\ IsFiniteSet(S) /\ Cardinality(S) \in Nat
         /\ Cardinality(S) = 0 => S = {}
<1>1. IsFiniteSet(DOMAIN r)
  <2>1. DOMAIN r = 1..Len(r) /\ Len(r) \in Nat
    OBVIOUS
  <2>2. IsFiniteSet(1..Len(r))
    BY <2>1, FS_Interval
  <2> QED BY <2>1, <2>2
<1>2. IsFiniteSet(S)
  BY <1>1, FS_Subset
<1> QED BY <1>2, FS_CardinalityType, FS_EmptySet

\* The items of some kinds are counted, and none is there when the count is 0.
LEMMA CountOf ==
  ASSUME NEW r \in Seq(Items), NEW K
  PROVE  /\ Count(r, K) \in Nat
         /\ Count(r, K) = 0 => \A i \in DOMAIN r : r[i] \notin K
<1> DEFINE S == {i \in DOMAIN r : r[i] \in K}
<1>1. S \subseteq DOMAIN r
  OBVIOUS
<1>2. Count(r, K) = Cardinality(S)
  BY DEF Count
<1> HIDE DEF S
<1>3. Cardinality(S) \in Nat /\ (Cardinality(S) = 0 => S = {})
  BY <1>1, CountNat
<1> QED BY <1>2, <1>3 DEF S

\* Kinds of which there is no item do not count.
LEMMA CountSame ==
  ASSUME NEW r \in Seq(Items), NEW K, NEW L, \A i \in DOMAIN r : r[i] \in K <=> r[i] \in L
  PROVE  Count(r, K) = Count(r, L)
<1>1. {i \in DOMAIN r : r[i] \in K} = {i \in DOMAIN r : r[i] \in L}
  OBVIOUS
<1> QED BY <1>1 DEF Count

\* The structured calls taken are all of them when the batch is within the limit.
LEMMA TakenOf ==
  ASSUME NEW r \in Seq(Items)
  PROVE  /\ Taken(r) \subseteq Structured(r) /\ Structured(r) \subseteq DOMAIN r
         /\ Cardinality(Structured(r)) \in Nat
         /\ Cardinality(Structured(r)) <= BatchLimit => Taken(r) = Structured(r)
<1>1. Taken(r) \subseteq Structured(r) /\ Structured(r) \subseteq DOMAIN r
  BY DEF Taken, Structured
<1>2. IsFiniteSet(Structured(r)) /\ Cardinality(Structured(r)) \in Nat
  BY <1>1, CountNat
<1>3. ASSUME Cardinality(Structured(r)) <= BatchLimit, NEW i \in Structured(r)
      PROVE  i \in Taken(r)
  <2> DEFINE S == {j \in Structured(r) : j <= i}
  <2>1. S \subseteq Structured(r)
    OBVIOUS
  <2>2. Cardinality(S) \in Nat /\ Cardinality(S) <= Cardinality(Structured(r))
    <3> HIDE DEF S
    <3> QED BY <2>1, <1>2, FS_Subset, FS_CardinalityType
  <2>3. Cardinality(S) <= BatchLimit
    <3> HIDE DEF S
    <3> QED BY <1>2, <1>3, <2>2, LimitsAssumption
  <2> QED BY <1>3, <2>3 DEF Taken
<1> QED BY <1>1, <1>2, <1>3

\* The same count over the calls taken.
LEMMA CountTakenNat ==
  ASSUME NEW r \in Seq(Items), NEW K
  PROVE  /\ CountTaken(r, K) \in Nat
         /\ CountTaken(r, K) = 0 => \A i \in Taken(r) : r[i] \notin K
<1> DEFINE S == {i \in Taken(r) : r[i] \in K}
<1>1. S \subseteq DOMAIN r
  BY TakenOf
<1>2. CountTaken(r, K) = Cardinality(S)
  BY DEF CountTaken
<1> HIDE DEF S
<1>3. Cardinality(S) \in Nat /\ (Cardinality(S) = 0 => S = {})
  BY <1>1, CountNat
<1> QED BY <1>2, <1>3 DEF S

Sound(answer) ==
  /\ answer.turn.calls \in Nat /\ answer.turn.invalid \in Nat /\ answer.turn.text \in BOOLEAN
  /\ answer.named \in Nat /\ answer.broken \in BOOLEAN
  /\ answer.turn.invalid = 0 /\ answer.broken = FALSE => answer.turn.calls >= answer.named

\* The calls recovered from the text are added to the structured ones.
LEMMA FallbackOf ==
  ASSUME NEW r, NEW k \in Nat
  PROVE  Fallback(r, k) \in Nat /\ Fallback(r, k) >= k
BY DEF Fallback

\* What a parser makes of an answer, and how many calls the answer names.
LEMMA AnswerOf ==
  ASSUME NEW r, NEW parsed, NEW broken \in BOOLEAN, NEW a \in Answer(r, parsed, broken)
  PROVE  /\ a.turn \in parsed /\ a.broken = broken /\ a.broken \in BOOLEAN
         /\ wire \notin {"claude", "antigravity"} => a.named = Count(r, {"call", "malformed", "unknown"}) + 0
         /\ wire \in {"claude", "antigravity"} => a.named = Count(r, {"call", "malformed", "unknown"}) + Count(r, {"junk"})
<1> DEFINE x == Count(r, {"call", "malformed", "unknown"})
           j == Count(r, {"junk"})
<1>1. a \in {[turn |-> t, broken |-> broken, named |-> x + IF wire \in {"claude", "antigravity"} THEN j ELSE 0] : t \in parsed}
  BY Zenon DEF Answer
<1> HIDE DEF x, j
<1>2. PICK t \in parsed : a = [turn |-> t, broken |-> broken, named |-> x + IF wire \in {"claude", "antigravity"} THEN j ELSE 0]
  BY <1>1
<1>3. a.turn = t /\ a.broken = broken /\ a.named = x + IF wire \in {"claude", "antigravity"} THEN j ELSE 0
  BY <1>2
<1>4. a.turn \in parsed /\ a.broken = broken /\ a.broken \in BOOLEAN
  BY <1>3
<1>5. ASSUME wire \notin {"claude", "antigravity"} PROVE a.named = x + 0
  BY <1>3, <1>5
<1>6. ASSUME wire \in {"claude", "antigravity"} PROVE a.named = x + j
  BY <1>3, <1>6
<1> QED BY <1>4, <1>5, <1>6 DEF x, j

\* An answer that has no invalid call names no more calls than it makes: as the
\* Responses and Gemini parsers read it,
LEMMA ResponsesSound ==
  ASSUME NEW r \in Seq(Items), wire \notin {"claude", "antigravity"}, NEW a \in Answer(r, ResponsesTurn(r), FALSE)
  PROVE  Sound(a)
<1> DEFINE c == Count(r, {"call", "unknown"})
           m == Count(r, {"malformed"})
           x == Count(r, {"call", "malformed", "unknown"})
<1>0. FALSE \in BOOLEAN /\ a.broken \in BOOLEAN
  <2>1. FALSE \in BOOLEAN
    OBVIOUS
  <2> QED BY <2>1, AnswerOf
<1>1. a.turn = Turn(Count(r, Texts) > 0, Fallback(r, c), m) /\ a.named = x + 0
  <2>1. a.turn \in ResponsesTurn(r) /\ a.named = x + 0
    BY <1>0, AnswerOf, Zenon
  <2> HIDE DEF x
  <2> QED BY <2>1 DEF ResponsesTurn
<1>2. c \in Nat /\ m \in Nat /\ x \in Nat /\ Count(r, Texts) \in Nat
  BY CountOf
<1>3. m = 0 => x = c
  <2> SUFFICES ASSUME m = 0 PROVE x = c
    OBVIOUS
  <2>1. \A i \in DOMAIN r : r[i] \notin {"malformed"}
    BY CountOf
  <2> QED BY <2>1, CountSame
<1> HIDE DEF c, m, x
<1>4. Fallback(r, c) \in Nat /\ Fallback(r, c) >= c
  BY <1>2, FallbackOf
<1>5. a.turn.calls = Fallback(r, c) /\ a.turn.invalid = m /\ a.turn.text = (Count(r, Texts) > 0)
  BY <1>1 DEF Turn
<1>6. a.turn.invalid = 0 => a.turn.calls >= a.named
  BY <1>1, <1>2, <1>3, <1>4, <1>5
<1>7. a.turn.text \in BOOLEAN
  BY <1>5
<1> QED BY <1>0, <1>1, <1>2, <1>4, <1>5, <1>6, <1>7 DEF Sound

\* the chat parser,
LEMMA ChatSound ==
  ASSUME NEW r \in Seq(Items), wire = "chat", NEW a \in Answer(r, ChatTurn(r), FALSE)
  PROVE  Sound(a)
<1>1. ChatTurn(r) \subseteq ResponsesTurn(r)
  BY DEF ChatTurn, ResponsesTurn
<1>2. a \in Answer(r, ResponsesTurn(r), FALSE)
  BY <1>1 DEF Answer
<1> QED BY <1>2, ResponsesSound

\* the Codex stream, wherever it ends,
LEMMA CodexSound ==
  ASSUME NEW r \in Seq(Items), wire = "codex", NEW k \in 0..Len(r), NEW pieces \in BOOLEAN,
         NEW a \in Answer(r, CodexTurn(SubSeq(r, 1, k), k = Len(r), pieces), k < Len(r))
  PROVE  Sound(a)
<1> DEFINE p == SubSeq(r, 1, k)
           x == Count(r, {"call", "malformed", "unknown"})
<1>1. p \in Seq(Items)
  OBVIOUS
<1>2. CASE k = Len(r)
  <2>1. p = r /\ (k < Len(r)) = FALSE
    BY <1>2
  <2>2. a \in Answer(r, ResponsesTurn(r), FALSE)
    BY <1>2, <2>1 DEF CodexTurn
  <2> QED BY <2>2, ResponsesSound
<1>3. CASE k < Len(r)
  <2>0. TRUE \in BOOLEAN /\ a \in Answer(r, CodexTurn(p, k = Len(r), pieces), TRUE)
    BY <1>3
  <2>1. /\ a.turn \in CodexTurn(p, k = Len(r), pieces) /\ a.named = x + 0
        /\ a.broken = TRUE
    BY <2>0, AnswerOf
  <2>2. x \in Nat
    BY CountOf
  <2> HIDE DEF x
  <2>3. a.named \in Nat
    BY <2>1, <2>2
  <2> HIDE DEF p
  <2>4. a.turn \in ResponsesTurn(p) \/ \E c \in 0..1 : a.turn = Turn(TRUE, c, 0)
    <3> DEFINE done == k = Len(r)
    <3> HIDE DEF done
    <3>1. a.turn \in CodexTurn(p, done, pieces)
      BY <2>1 DEF done
    <3>2. CASE done \/ p # <<>>
      BY <3>1, <3>2 DEF CodexTurn
    <3>3. CASE ~(done \/ p # <<>>)
      <4> DEFINE m == IF native THEN 0 ELSE 1
      <4>1. CodexTurn(p, done, pieces) = IF pieces THEN {Turn(TRUE, c, 0) : c \in 0..m} ELSE {}
        BY <3>3 DEF CodexTurn
      <4>2. m \in 0..1
        OBVIOUS
      <4> HIDE DEF m
      <4>3. PICK c \in 0..m : a.turn = Turn(TRUE, c, 0)
        BY <3>1, <4>1
      <4>4. c \in 0..1
        BY <4>2
      <4> QED BY <4>3, <4>4
    <3> QED BY <3>2, <3>3
  <2>5. /\ Count(p, Texts) \in Nat /\ Count(p, {"malformed"}) \in Nat
        /\ Fallback(p, Count(p, {"call", "unknown"})) \in Nat
    BY <1>1, CountOf, FallbackOf
  <2>6. a.turn.calls \in Nat /\ a.turn.invalid \in Nat /\ a.turn.text \in BOOLEAN
    <3>1. CASE a.turn \in ResponsesTurn(p)
      <4>1. a.turn = Turn(Count(p, Texts) > 0, Fallback(p, Count(p, {"call", "unknown"})), Count(p, {"malformed"}))
        BY <3>1 DEF ResponsesTurn
      <4> QED BY <2>5, <4>1 DEF Turn
    <3>2. CASE \E c \in 0..1 : a.turn = Turn(TRUE, c, 0)
      BY <3>2 DEF Turn
    <3> QED BY <2>4, <3>1, <3>2
  <2> QED BY <2>1, <2>3, <2>6 DEF Sound
<1> QED BY <1>2, <1>3

\* the Messages parser,
LEMMA ClaudeSound ==
  ASSUME NEW r \in Seq(Items), wire = "claude", NEW a \in Answer(r, ClaudeTurn(r), FALSE)
  PROVE  Sound(a)
<1> DEFINE c == Count(r, {"call"})
           m == Count(r, {"malformed", "unknown", "junk"})
           x == Count(r, {"call", "malformed", "unknown"})
           j == Count(r, {"junk"})
<1>0. FALSE \in BOOLEAN /\ a.broken \in BOOLEAN
  <2>1. FALSE \in BOOLEAN
    OBVIOUS
  <2> QED BY <2>1, AnswerOf
<1>1. a.turn = Turn(Count(r, Texts) > 0, c, m) /\ a.named = x + j
  <2>1. a.turn \in ClaudeTurn(r) /\ a.named = x + j
    BY <1>0, AnswerOf, Zenon
  <2> HIDE DEF x, j
  <2> QED BY <2>1 DEF ClaudeTurn
<1>2. c \in Nat /\ m \in Nat /\ x \in Nat /\ j \in Nat /\ Count(r, Texts) \in Nat
  BY CountOf
<1>3. m = 0 => x = c /\ j = 0
  <2> SUFFICES ASSUME m = 0 PROVE x = c /\ j = 0
    OBVIOUS
  <2>1. \A i \in DOMAIN r : r[i] \notin {"malformed", "unknown", "junk"}
    BY CountOf
  <2>2. x = c
    BY <2>1, CountSame
  <2>3. {i \in DOMAIN r : r[i] \in {"junk"}} = {}
    BY <2>1
  <2> QED BY <2>2, <2>3, FS_EmptySet DEF Count
<1> HIDE DEF c, m, x, j
<1>5. a.turn.calls = c /\ a.turn.invalid = m /\ a.turn.text = (Count(r, Texts) > 0)
  BY <1>1 DEF Turn
<1>6. a.turn.invalid = 0 => a.turn.calls >= a.named
  BY <1>1, <1>2, <1>3, <1>5
<1>7. a.turn.text \in BOOLEAN
  BY <1>5
<1> QED BY <1>0, <1>1, <1>2, <1>5, <1>6, <1>7 DEF Sound

\* and the Antigravity parser, beyond its limit too.
LEMMA AntigravitySound ==
  ASSUME NEW r \in Seq(Items), wire = "antigravity", NEW a \in Answer(r, AntigravityTurn(r), FALSE)
  PROVE  Sound(a)
<1> DEFINE c == CountTaken(r, {"call"})
           m == CountTaken(r, {"malformed", "unknown", "junk"})
           over == IF Cardinality(Structured(r)) > BatchLimit THEN 1 ELSE 0
           x == Count(r, {"call", "malformed", "unknown"})
           j == Count(r, {"junk"})
<1>0. FALSE \in BOOLEAN /\ a.broken \in BOOLEAN
  <2>1. FALSE \in BOOLEAN
    OBVIOUS
  <2> QED BY <2>1, AnswerOf
<1>1. a.turn = Turn(Count(r, Texts) > 0, c, m + over) /\ a.named = x + j
  <2>1. a.turn \in AntigravityTurn(r) /\ a.named = x + j
    BY <1>0, AnswerOf, Zenon
  <2> HIDE DEF x, j
  <2> QED BY <2>1 DEF AntigravityTurn
<1>2. c \in Nat /\ m \in Nat /\ x \in Nat /\ j \in Nat /\ over \in Nat
  BY CountOf, CountTakenNat
<1>3. ASSUME m = 0, over = 0 PROVE x = c /\ j = 0
  <2>1. Cardinality(Structured(r)) \in Nat /\ BatchLimit \in Nat
    BY TakenOf, LimitsAssumption
  <2>2. Cardinality(Structured(r)) <= BatchLimit
    BY <1>3, <2>1
  <2>3. Taken(r) = Structured(r)
    BY <2>2, TakenOf
  <2>4. \A i \in Structured(r) : r[i] \notin {"malformed", "unknown", "junk"}
    BY <1>3, <2>3, CountTakenNat
  <2>5. \A i \in DOMAIN r : r[i] \notin {"malformed", "unknown", "junk"}
    BY <2>4 DEF Structured, Texts
  <2>6. x = Count(r, {"call"})
    BY <2>5, CountSame
  <2>7. {i \in Taken(r) : r[i] \in {"call"}} = {i \in DOMAIN r : r[i] \in {"call"}}
    BY <2>3 DEF Structured, Texts
  <2>8. Count(r, {"call"}) = c
    BY <2>7 DEF Count, CountTaken
  <2>9. {i \in DOMAIN r : r[i] \in {"junk"}} = {}
    BY <2>5
  <2> QED BY <2>6, <2>8, <2>9, FS_EmptySet DEF Count
<1> HIDE DEF c, m, x, j, over
<1>5. a.turn.calls = c /\ a.turn.invalid = m + over /\ a.turn.text = (Count(r, Texts) > 0)
  BY <1>1 DEF Turn
<1>6. a.turn.invalid = 0 => a.turn.calls >= a.named
  BY <1>1, <1>2, <1>3, <1>5
<1>7. a.turn.text \in BOOLEAN
  BY <1>5
<1> QED BY <1>0, <1>1, <1>2, <1>5, <1>6, <1>7 DEF Sound

\* Whatever the wire, an answer is sound in this way.
LEMMA AnswersSound ==
  ASSUME wire \in Wires, NEW a \in Answers PROVE Sound(a)
<1>1. PICK r \in Responses : a \in AnswersTo(r)
  BY DEF Answers
<1>2. r \in Seq(Items)
  BY ResponsesAssumption
<1>3. CASE wire = "chat"
  <2>1. a \in Answer(r, ChatTurn(r), FALSE)
    BY <1>1, <1>3 DEF AnswersTo
  <2> QED BY <2>1, <1>2, <1>3, ChatSound
<1>4. CASE wire = "codex"
  <2>0. a \in CodexAnswers(r)
    BY <1>1, <1>4 DEF AnswersTo
  <2>1. PICK k \in 0..Len(r), pieces \in BOOLEAN :
          a \in Answer(r, CodexTurn(SubSeq(r, 1, k), k = Len(r), pieces), k < Len(r))
    BY <2>0 DEF CodexAnswers
  <2> QED BY <1>2, <1>4, <2>1, CodexSound
<1>5. CASE wire = "gemini"
  <2>1. a \in Answer(r, ResponsesTurn(r), FALSE)
    BY <1>1, <1>5 DEF AnswersTo, GeminiTurn
  <2> QED BY <2>1, <1>2, <1>5, ResponsesSound
<1>6. CASE wire = "claude"
  <2>1. a \in Answer(r, ClaudeTurn(r), FALSE)
    BY <1>1, <1>6 DEF AnswersTo
  <2> QED BY <2>1, <1>2, <1>6, ClaudeSound
<1>7. CASE wire = "antigravity"
  <2>1. a \in Answer(r, AntigravityTurn(r), FALSE)
    BY <1>1, <1>7 DEF AnswersTo
  <2> QED BY <2>1, <1>2, <1>7, AntigravitySound
<1> QED BY <1>3, <1>4, <1>5, <1>6, <1>7 DEF Wires

---------------------------------------------------------------------------
(* All of the calls of an answer are run, or none, unless it broke off or  *)
(* the loop ends in the middle of them.                                    *)

AskedInv == wire \in Wires /\ AllOrNothing

\* The answer the engine takes is such a one.
LEMMA AnsweredAll ==
  ASSUME AskedInv, Answered PROVE AskedInv'
<1>1. PICK a \in Answers : asked' = [named |-> a.named, run |-> IF a.turn.invalid > 0 THEN 0 ELSE a.turn.calls, broken |-> a.broken]
  BY DEF Answered
<1>2. Sound(a)
  BY AnswersSound DEF AskedInv
<1>3. wire' = wire
  BY DEF Answered, Kept
<1>4. a.turn.invalid \in Nat
  BY <1>2 DEF Sound
<1>5. CASE a.turn.invalid > 0
  BY <1>1, <1>3, <1>5 DEF AskedInv, AllOrNothing
<1>6. CASE a.turn.invalid = 0
  BY <1>1, <1>2, <1>3, <1>6 DEF AskedInv, AllOrNothing, Sound
<1> QED BY <1>4, <1>5, <1>6

\* An answer's calls are all run or none is, on every wire and with any batch: one call
\* cut short, unknown or beyond the limit takes the others with it (the parsers of
\* providers.py). Excepted are a stream that breaks off between two calls and a batch
\* that is cut, after which the loop makes no more requests.
THEOREM AllOrNothingTheorem == TalkSpec => []AllOrNothing
<1>1. TalkInit => AskedInv
  BY DEF TalkInit, AskedInv, AllOrNothing
<1>2. AskedInv /\ [TalkNext]_talkVars => AskedInv'
  <2> SUFFICES ASSUME AskedInv, [TalkNext]_talkVars PROVE AskedInv'
    OBVIOUS
  <2>1. CASE Answered
    BY <2>1, AnsweredAll
  <2>2. CASE BeginTurn \/ ContextRejected \/ PolicyRejected \/ TalkEnds
    <3>1. UNCHANGED <<asked, wire>> /\ (place = "done" => place' = "done")
      BY <2>2 DEF BeginTurn, ContextRejected, PolicyRejected, TalkEnds, Kept
    <3> QED BY <3>1 DEF AskedInv, AllOrNothing
  <2>3. CASE UNCHANGED talkVars
    BY <2>3 DEF talkVars, AskedInv, AllOrNothing
  <2>4. CASE BatchCut
    BY <2>4 DEF BatchCut, Kept, AskedInv, AllOrNothing
  <2> QED BY <2>1, <2>2, <2>3, <2>4 DEF TalkNext
<1>3. AskedInv => AllOrNothing
  BY DEF AskedInv
<1> QED BY <1>1, <1>2, <1>3, PTL DEF TalkSpec

---------------------------------------------------------------------------
(***************************************************************************)
(* What a conversation is sent with stays within the limits. First the     *)
(* operators it is measured with.                                          *)
(***************************************************************************)

(* The size of a conversation, and what a filter keeps of it.              *)

Msgs == [n : Nat, role : {"system", "user", "assistant", "tool"}, size : Nat, text : BOOLEAN,
         mark : BOOLEAN, calls : Nat, of : Nat \X Nat]

SizeRun(h, ms) == /\ h \in [0..Len(ms) -> Nat] /\ h[0] = 0
                  /\ \A k \in 1..Len(ms) : h[k] = h[k - 1] + ms[k].size

AmongRun(h, ms, K, X) ==
  /\ h \in [0..Len(ms) -> Seq(X)] /\ h[0] = <<>>
  /\ \A k \in 1..Len(ms) : h[k] = IF ms[k] \in K THEN Append(h[k - 1], ms[k]) ELSE h[k - 1]

\* A size is where the run of the additions ends.
LEMMA SizeRuns ==
  ASSUME NEW ms \in Seq(Msgs)
  PROVE  \E h : SizeRun(h, ms) /\ Size(ms) = h[Len(ms)]
<1> DEFINE n == Len(ms)
           V == Nat
           step == [p \in (1..n) \X V |-> p[2] + ms[p[1]].size]
           Is(g) == g = [s \in SUBSET DOMAIN ms |->
                           IF s = {} THEN 0 ELSE LET x == Max(s) IN g[s \ {x}] + ms[x].size]
           iter == CHOOSE g : Is(g)
<1>0. n \in Nat /\ DOMAIN ms = 1..n /\ \A k \in 1..n : ms[k].size \in Nat
  <2>1. n \in Nat /\ DOMAIN ms = 1..n /\ \A k \in 1..n : ms[k] \in Msgs
    OBVIOUS
  <2>2. \A m \in Msgs : m.size \in Nat
    BY DEF Msgs
  <2> QED BY <2>1, <2>2
<1>1. Steps(step, 1..n, V) /\ 0 \in V
  BY <1>0 DEF Steps
<1>2. Is(iter)
  <2>1. PICK g : Unfolded(g, step, 0, n, V)
    <3> HIDE DEF step, V
    <3> QED BY <1>0, <1>1, RunExists
  <2>2. ASSUME NEW s \in SUBSET (1..n)
        PROVE  g[s] = IF s = {} THEN 0 ELSE LET x == Max(s) IN g[s \ {x}] + ms[x].size
    <3>1. CASE s = {}
      BY <2>1, <3>1 DEF Unfolded
    <3>2. CASE s # {}
      <4>1. g[s] = step[<<Max(s), g[s \ {Max(s)}]>>] /\ g[s \ {Max(s)}] \in V
        BY <2>1, <3>2 DEF Unfolded
      <4>2. Max(s) \in 1..n
        BY <1>0, <3>2, MaxIn
      <4>3. g[s] = g[s \ {Max(s)}] + ms[Max(s)].size
        BY <4>1, <4>2
      <4> QED BY <3>2, <4>3
    <3> QED BY <3>1, <3>2
  <2>3. Is(g)
    BY <1>0, <2>1, <2>2 DEF Unfolded
  <2> HIDE DEF Is
  <2> QED BY <2>3
<1>3. Size(ms) = iter[1..n]
  BY <1>0 DEF Size, FoldLeft, MapThenFoldSet
<1> HIDE DEF iter
<1>4. iter[{}] = 0
  BY <1>2
<1>5. \A s \in (SUBSET (1..n)) \ {{}} :
        iter[s \ {Max(s)}] \in V => iter[s] = step[<<Max(s), iter[s \ {Max(s)}]>>]
  <2> SUFFICES ASSUME NEW s \in (SUBSET (1..n)) \ {{}}, iter[s \ {Max(s)}] \in V
               PROVE  iter[s] = step[<<Max(s), iter[s \ {Max(s)}]>>]
    OBVIOUS
  <2>1. Max(s) \in 1..n
    BY <1>0, MaxIn
  <2>2. iter[s] = iter[s \ {Max(s)}] + ms[Max(s)].size
    BY <1>0, <1>2
  <2> QED BY <2>1, <2>2
<1>6. PICK h : Run(h, step, 0, n, V) /\ h[n] = iter[1..n]
  <2>1. Unwinds(iter, step, 0, n, V)
    BY <1>4, <1>5 DEF Unwinds
  <2> HIDE DEF step, V, n
  <2> QED BY <1>0, <1>1, <2>1, RunOf
<1>7. h \in [0..n -> V] /\ h[0] = 0
  BY <1>6 DEF Run
<1>8. ASSUME NEW k \in 1..n PROVE h[k] = h[k - 1] + ms[k].size
  <2>1. h[k] = step[<<k, h[k - 1]>>] /\ h[k - 1] \in V
    <3> HIDE DEF step, V, n
    <3> QED BY <1>0, <1>6 DEF Run
  <2> QED BY <2>1
<1> QED BY <1>3, <1>6, <1>7, <1>8 DEF SizeRun

\* A selection is where the run of the appends ends.
LEMMA AmongRuns ==
  ASSUME NEW X, NEW ms \in Seq(X), NEW K
  PROVE  \E h : AmongRun(h, ms, K, X) /\ Among(ms, K) = h[Len(ms)]
<1> DEFINE n == Len(ms)
           V == Seq(X)
           step == [p \in (1..n) \X V |-> IF ms[p[1]] \in K THEN Append(p[2], ms[p[1]]) ELSE p[2]]
           Is(g) == g = [s \in SUBSET DOMAIN ms |->
                           IF s = {} THEN <<>> ELSE LET x == Max(s) IN IF ms[x] \in K THEN Append(g[s \ {x}], ms[x]) ELSE g[s \ {x}]]
           iter == CHOOSE g : Is(g)
<1>0. n \in Nat /\ DOMAIN ms = 1..n /\ \A k \in 1..n : ms[k] \in X
  OBVIOUS
<1>1. Steps(step, 1..n, V) /\ <<>> \in V
  BY <1>0 DEF Steps
<1>2. Is(iter)
  <2>1. PICK g : Unfolded(g, step, <<>>, n, V)
    <3> HIDE DEF step, V
    <3> QED BY <1>0, <1>1, RunExists
  <2>2. ASSUME NEW s \in SUBSET (1..n)
        PROVE  g[s] = IF s = {} THEN <<>> ELSE LET x == Max(s) IN IF ms[x] \in K THEN Append(g[s \ {x}], ms[x]) ELSE g[s \ {x}]
    <3>1. CASE s = {}
      BY <2>1, <3>1 DEF Unfolded
    <3>2. CASE s # {}
      <4>1. g[s] = step[<<Max(s), g[s \ {Max(s)}]>>] /\ g[s \ {Max(s)}] \in V
        BY <2>1, <3>2 DEF Unfolded
      <4>2. Max(s) \in 1..n
        BY <1>0, <3>2, MaxIn
      <4>3. g[s] = IF ms[Max(s)] \in K THEN Append(g[s \ {Max(s)}], ms[Max(s)]) ELSE g[s \ {Max(s)}]
        BY <4>1, <4>2
      <4> QED BY <3>2, <4>3
    <3> QED BY <3>1, <3>2
  <2>3. Is(g)
    BY <1>0, <2>1, <2>2 DEF Unfolded
  <2> HIDE DEF Is
  <2> QED BY <2>3
<1>3. Among(ms, K) = iter[1..n]
  BY <1>0 DEF Among, FoldLeft, MapThenFoldSet
<1> HIDE DEF iter
<1>4. iter[{}] = <<>>
  BY <1>2
<1>5. \A s \in (SUBSET (1..n)) \ {{}} :
        iter[s \ {Max(s)}] \in V => iter[s] = step[<<Max(s), iter[s \ {Max(s)}]>>]
  <2> SUFFICES ASSUME NEW s \in (SUBSET (1..n)) \ {{}}, iter[s \ {Max(s)}] \in V
               PROVE  iter[s] = step[<<Max(s), iter[s \ {Max(s)}]>>]
    OBVIOUS
  <2>1. Max(s) \in 1..n
    BY <1>0, MaxIn
  <2>2. iter[s] = IF ms[Max(s)] \in K THEN Append(iter[s \ {Max(s)}], ms[Max(s)]) ELSE iter[s \ {Max(s)}]
    BY <1>0, <1>2
  <2> QED BY <2>1, <2>2
<1>6. PICK h : Run(h, step, <<>>, n, V) /\ h[n] = iter[1..n]
  <2>1. Unwinds(iter, step, <<>>, n, V)
    BY <1>4, <1>5 DEF Unwinds
  <2> HIDE DEF step, V, n
  <2> QED BY <1>0, <1>1, <2>1, RunOf
<1>7. h \in [0..n -> V] /\ h[0] = <<>>
  BY <1>6 DEF Run
<1>8. ASSUME NEW k \in 1..n PROVE h[k] = IF ms[k] \in K THEN Append(h[k - 1], ms[k]) ELSE h[k - 1]
  <2>1. h[k] = step[<<k, h[k - 1]>>] /\ h[k - 1] \in V
    <3> HIDE DEF step, V, n
    <3> QED BY <1>0, <1>6 DEF Run
  <2> QED BY <2>1
<1> QED BY <1>3, <1>6, <1>7, <1>8 DEF AmongRun

\* The size of nothing, of one message, and of one part after the other.
LEMMA SizeOf ==
  /\ Size(<<>>) = 0
  /\ \A ms \in Seq(Msgs) : Size(ms) \in Nat
  /\ \A m \in Msgs : Size(<<m>>) = m.size
<1>1. Size(<<>>) = 0
  <2>1. <<>> \in Seq(Msgs) /\ Len(<<>>) = 0
    OBVIOUS
  <2>2. PICK h : SizeRun(h, <<>>) /\ Size(<<>>) = h[Len(<<>>)]
    BY <2>1, SizeRuns
  <2> QED BY <2>1, <2>2 DEF SizeRun
<1>2. ASSUME NEW ms \in Seq(Msgs) PROVE Size(ms) \in Nat
  <2>1. PICK h : SizeRun(h, ms) /\ Size(ms) = h[Len(ms)]
    BY SizeRuns
  <2> QED BY <2>1 DEF SizeRun
<1>3. ASSUME NEW m \in Msgs PROVE Size(<<m>>) = m.size
  <2> DEFINE ms == <<m>>
  <2>1. ms \in Seq(Msgs) /\ Len(ms) = 1 /\ ms[1] = m
    OBVIOUS
  <2> HIDE DEF ms
  <2>2. PICK h : SizeRun(h, ms) /\ Size(ms) = h[Len(ms)]
    BY <2>1, SizeRuns
  <2>3. h[1] = h[0] + m.size /\ h[0] = 0
    <3>1. 1 \in 1..Len(ms) /\ 1 - 1 = 0
      BY <2>1
    <3> QED BY <2>1, <2>2, <3>1 DEF SizeRun
  <2>4. m.size \in Nat
    BY DEF Msgs
  <2> QED BY <2>1, <2>2, <2>3, <2>4 DEF ms
<1> QED BY <1>1, <1>2, <1>3

\* The size of two parts is the sum of their sizes.
LEMMA SizeConcat ==
  ASSUME NEW s \in Seq(Msgs), NEW t \in Seq(Msgs)
  PROVE  Size(s \o t) = Size(s) + Size(t)
<1> DEFINE u == s \o t
           a == Len(s)
           b == Len(t)
<1>1. /\ u \in Seq(Msgs) /\ a \in Nat /\ b \in Nat /\ Len(u) = a + b
      /\ \A k \in 1..a : u[k] = s[k]
      /\ \A k \in 1..b : u[a + k] = t[k]
  OBVIOUS
<1> HIDE DEF u, a, b
<1>2. PICK hs : SizeRun(hs, s) /\ Size(s) = hs[a]
  BY SizeRuns DEF a
<1>3. PICK ht : SizeRun(ht, t) /\ Size(t) = ht[b]
  BY SizeRuns DEF b
<1>4. PICK hu : SizeRun(hu, u) /\ Size(u) = hu[a + b]
  BY <1>1, SizeRuns
<1>5. hs[0] = 0 /\ \A k \in 1..a : hs[k] = hs[k - 1] + s[k].size
  BY <1>2 DEF SizeRun, a
<1>6. ht[0] = 0 /\ ht \in [0..b -> Nat] /\ \A k \in 1..b : ht[k] = ht[k - 1] + t[k].size
  BY <1>3 DEF SizeRun, b
<1>7. hu[0] = 0 /\ \A k \in 1..(a + b) : hu[k] = hu[k - 1] + u[k].size
  BY <1>1, <1>4 DEF SizeRun
<1>8. hs \in [0..a -> Nat]
  BY <1>2 DEF SizeRun, a
<1> DEFINE G == {k \in Nat : k <= a => hu[k] = hs[k]}
<1>9. a \in G
  <2>1. 0 \in G
    BY <1>5, <1>7
  <2>2. ASSUME NEW k \in Nat, k \in G PROVE k + 1 \in G
    <3> SUFFICES ASSUME k + 1 <= a PROVE hu[k + 1] = hs[k + 1]
      OBVIOUS
    <3>1. k + 1 \in 1..a /\ k + 1 \in 1..(a + b) /\ (k + 1) - 1 = k
      BY <1>1
    <3>2. hu[k + 1] = hu[k] + u[k + 1].size /\ hs[k + 1] = hs[k] + s[k + 1].size
      BY <1>5, <1>7, <3>1
    <3> QED BY <1>1, <2>2, <3>1, <3>2
  <2>3. Nat \subseteq G
    <3> HIDE DEF G
    <3> QED BY <2>1, <2>2, NatSetInduction
  <2> QED BY <1>1, <2>3
<1> DEFINE H == {k \in Nat : k <= b => hu[a + k] = hs[a] + ht[k]}
<1>10. b \in H
  <2>1. 0 \in H
    BY <1>1, <1>6, <1>8, <1>9
  <2>2. ASSUME NEW k \in Nat, k \in H PROVE k + 1 \in H
    <3> SUFFICES ASSUME k + 1 <= b PROVE hu[a + (k + 1)] = hs[a] + ht[k + 1]
      OBVIOUS
    <3>1. k + 1 \in 1..b /\ a + (k + 1) \in 1..(a + b) /\ (k + 1) - 1 = k /\ (a + (k + 1)) - 1 = a + k /\ k \in 0..b
      BY <1>1
    <3>2. hu[a + (k + 1)] = hu[a + k] + u[a + (k + 1)].size /\ ht[k + 1] = ht[k] + t[k + 1].size
      BY <1>6, <1>7, <3>1
    <3>3. u[a + (k + 1)] = t[k + 1] /\ hu[a + k] = hs[a] + ht[k]
      BY <1>1, <2>2, <3>1
    <3>4. hs[a] \in Nat /\ ht[k] \in Nat /\ t[k + 1].size \in Nat
      <4>1. t[k + 1] \in Msgs
        BY <3>1 DEF b
      <4>2. t[k + 1].size \in Nat
        BY <4>1 DEF Msgs
      <4> QED BY <1>1, <1>6, <1>8, <3>1, <4>2
    <3> QED BY <3>2, <3>3, <3>4
  <2>3. Nat \subseteq H
    <3> HIDE DEF H
    <3> QED BY <2>1, <2>2, NatSetInduction
  <2> QED BY <1>1, <2>3
<1> QED BY <1>1, <1>2, <1>3, <1>4, <1>10 DEF u

\* What a filter keeps has passed it.
LEMMA AmongType ==
  ASSUME NEW X, NEW ms \in Seq(X), NEW K, NEW Y, \A k \in 1..Len(ms) : ms[k] \in K => ms[k] \in Y
  PROVE  Among(ms, K) \in Seq(Y)
<1>1. PICK h : AmongRun(h, ms, K, X) /\ Among(ms, K) = h[Len(ms)]
  BY AmongRuns
<1>2. h[0] = <<>> /\ \A k \in 1..Len(ms) : h[k] = IF ms[k] \in K THEN Append(h[k - 1], ms[k]) ELSE h[k - 1]
  BY <1>1 DEF AmongRun
<1> DEFINE G == {k \in Nat : k <= Len(ms) => h[k] \in Seq(Y)}
<1>3. 0 \in G
  <2>1. <<>> \in Seq(Y)
    BY EmptySeq
  <2> QED BY <1>2, <2>1
<1>4. ASSUME NEW k \in Nat, k \in G PROVE k + 1 \in G
  <2> SUFFICES ASSUME k + 1 <= Len(ms) PROVE h[k + 1] \in Seq(Y)
    OBVIOUS
  <2>1. k + 1 \in 1..Len(ms) /\ (k + 1) - 1 = k /\ h[k] \in Seq(Y)
    BY <1>4
  <2>2. h[k + 1] = IF ms[k + 1] \in K THEN Append(h[k], ms[k + 1]) ELSE h[k]
    BY <1>2, <2>1
  <2> QED BY <2>1, <2>2
<1>5. Nat \subseteq G
  <2> HIDE DEF G
  <2> QED BY <1>3, <1>4, NatSetInduction
<1>6. Len(ms) \in G
  BY <1>5
<1> QED BY <1>1, <1>6

\* It keeps all of what passes and nothing else.
LEMMA AmongAll ==
  ASSUME NEW X, NEW ms \in Seq(X), NEW K, \A k \in 1..Len(ms) : ms[k] \in K
  PROVE  Among(ms, K) = ms
<1>1. PICK h : AmongRun(h, ms, K, X) /\ Among(ms, K) = h[Len(ms)]
  BY AmongRuns
<1>2. /\ h \in [0..Len(ms) -> Seq(X)] /\ h[0] = <<>>
      /\ \A k \in 1..Len(ms) : h[k] = Append(h[k - 1], ms[k])
  BY <1>1 DEF AmongRun
<1>0. Len(ms) \in Nat /\ \A k \in 1..Len(ms) : ms[k] \in X
  OBVIOUS
<1> DEFINE G == {k \in Nat : k <= Len(ms) => Len(h[k]) = k /\ \A i \in 1..k : h[k][i] = ms[i]}
<1>3. 0 \in G
  BY <1>2
<1>4. ASSUME NEW k \in Nat, k \in G PROVE k + 1 \in G
  <2> SUFFICES ASSUME k + 1 <= Len(ms)
               PROVE  Len(h[k + 1]) = k + 1 /\ \A i \in 1..(k + 1) : h[k + 1][i] = ms[i]
    OBVIOUS
  <2>1. k + 1 \in 1..Len(ms) /\ (k + 1) - 1 = k /\ k \in 0..Len(ms)
    BY <1>0
  <2>2. h[k + 1] = Append(h[k], ms[k + 1]) /\ h[k] \in Seq(X) /\ ms[k + 1] \in X
    BY <1>0, <1>2, <2>1
  <2>3. Len(h[k]) = k /\ \A i \in 1..k : h[k][i] = ms[i]
    BY <1>4, <2>1
  <2>4. /\ Len(h[k + 1]) = k + 1 /\ h[k + 1][k + 1] = ms[k + 1]
        /\ \A i \in 1..k : h[k + 1][i] = h[k][i]
    BY <2>2, <2>3, AppendProperties
  <2> QED BY <2>3, <2>4
<1>5. Nat \subseteq G
  <2> HIDE DEF G
  <2> QED BY <1>3, <1>4, NatSetInduction
<1>6. Len(h[Len(ms)]) = Len(ms) /\ \A i \in 1..Len(ms) : h[Len(ms)][i] = ms[i]
  BY <1>0, <1>5
<1>7. h[Len(ms)] \in Seq(X)
  BY <1>0, <1>2
<1> QED BY <1>1, <1>6, <1>7, SeqEqual

\* Nothing is selected where nothing is sought.
LEMMA AmongNone ==
  ASSUME NEW X, NEW ms \in Seq(X), NEW K, \A k \in 1..Len(ms) : ms[k] \notin K
  PROVE  Among(ms, K) = <<>>
<1>1. PICK h : AmongRun(h, ms, K, X) /\ Among(ms, K) = h[Len(ms)]
  BY AmongRuns
<1>2. h[0] = <<>> /\ \A k \in 1..Len(ms) : h[k] = h[k - 1]
  BY <1>1 DEF AmongRun
<1> DEFINE G == {k \in Nat : k <= Len(ms) => h[k] = <<>>}
<1>3. 0 \in G
  BY <1>2
<1>4. ASSUME NEW k \in Nat, k \in G PROVE k + 1 \in G
  <2> SUFFICES ASSUME k + 1 <= Len(ms) PROVE h[k + 1] = <<>>
    OBVIOUS
  <2>1. k + 1 \in 1..Len(ms) /\ (k + 1) - 1 = k /\ h[k] = <<>>
    BY <1>4
  <2> QED BY <1>2, <2>1
<1>5. Nat \subseteq G
  <2> HIDE DEF G
  <2> QED BY <1>3, <1>4, NatSetInduction
<1>6. Len(ms) \in G
  BY <1>5
<1> QED BY <1>1, <1>6

\* And of two parts, what it keeps of the one and then of the other.
LEMMA AmongConcat ==
  ASSUME NEW X, NEW s \in Seq(X), NEW t \in Seq(X), NEW K
  PROVE  Among(s \o t, K) = Among(s, K) \o Among(t, K)
<1> DEFINE u == s \o t
           a == Len(s)
           b == Len(t)
<1>1. /\ u \in Seq(X) /\ a \in Nat /\ b \in Nat /\ Len(u) = a + b
      /\ \A k \in 1..a : u[k] = s[k]
      /\ \A k \in 1..b : u[a + k] = t[k]
  OBVIOUS
<1> HIDE DEF u, a, b
<1>2. PICK hs : AmongRun(hs, s, K, X) /\ Among(s, K) = hs[a]
  BY AmongRuns DEF a
<1>3. PICK ht : AmongRun(ht, t, K, X) /\ Among(t, K) = ht[b]
  BY AmongRuns DEF b
<1>4. PICK hu : AmongRun(hu, u, K, X) /\ Among(u, K) = hu[a + b]
  <2>1. u \in Seq(X) /\ Len(u) = a + b
    BY <1>1
  <2>2. \E h : AmongRun(h, u, K, X) /\ Among(u, K) = h[Len(u)]
    BY <2>1, AmongRuns
  <2> QED BY <2>1, <2>2
<1>5. hs[0] = <<>> /\ \A k \in 1..a : hs[k] = IF s[k] \in K THEN Append(hs[k - 1], s[k]) ELSE hs[k - 1]
  BY <1>2 DEF AmongRun, a
<1>6. /\ ht[0] = <<>> /\ ht \in [0..b -> Seq(X)]
      /\ \A k \in 1..b : ht[k] = IF t[k] \in K THEN Append(ht[k - 1], t[k]) ELSE ht[k - 1]
  BY <1>3 DEF AmongRun, b
<1>7. hu[0] = <<>> /\ \A k \in 1..(a + b) : hu[k] = IF u[k] \in K THEN Append(hu[k - 1], u[k]) ELSE hu[k - 1]
  BY <1>1, <1>4 DEF AmongRun
<1>8. hs \in [0..a -> Seq(X)]
  BY <1>2 DEF AmongRun, a
<1> DEFINE G == {k \in Nat : k <= a => hu[k] = hs[k]}
<1>9. a \in G
  <2>1. 0 \in G
    BY <1>5, <1>7
  <2>2. ASSUME NEW k \in Nat, k \in G PROVE k + 1 \in G
    <3> SUFFICES ASSUME k + 1 <= a PROVE hu[k + 1] = hs[k + 1]
      OBVIOUS
    <3>1. k + 1 \in 1..a /\ k + 1 \in 1..(a + b) /\ (k + 1) - 1 = k
      BY <1>1
    <3> QED BY <1>1, <1>5, <1>7, <2>2, <3>1
  <2>3. Nat \subseteq G
    <3> HIDE DEF G
    <3> QED BY <2>1, <2>2, NatSetInduction
  <2> QED BY <1>1, <2>3
<1> DEFINE cat == [k \in 0..b |-> hs[a] \o ht[k]]
<1>a. cat[0] = hs[a] \o ht[0] /\ cat[b] = hs[a] \o ht[b] /\ \A k \in 0..b : cat[k] = hs[a] \o ht[k]
  <2>1. \A k \in 0..b : cat[k] = hs[a] \o ht[k]
    BY Zenon
  <2>2. 0 \in 0..b /\ b \in 0..b
    BY <1>1
  <2> QED BY <2>1, <2>2, Zenon
<1> HIDE DEF cat
<1> DEFINE H == {k \in Nat : k <= b => hu[a + k] = cat[k]}
<1>10. b \in H
  <2>0. hs[a] \in Seq(X)
    BY <1>1, <1>8
  <2>1. 0 \in H
    <3>1. hs[a] \o <<>> = hs[a]
      BY <2>0, ConcatEmptySeq
    <3>2. hu[a] = hs[a]
      BY <1>9
    <3>3. cat[0] = hs[a]
      BY <1>a, <1>6, <3>1
    <3> QED BY <1>1, <3>2, <3>3
  <2>2. ASSUME NEW k \in Nat, k \in H PROVE k + 1 \in H
    <3> SUFFICES ASSUME k + 1 <= b
                 PROVE  hu[a + (k + 1)] = cat[k + 1]
      OBVIOUS
    <3>1. k + 1 \in 1..b /\ a + (k + 1) \in 1..(a + b) /\ (k + 1) - 1 = k /\ (a + (k + 1)) - 1 = a + k /\ k \in 0..b
      BY <1>1
    <3>2. hu[a + (k + 1)] = IF u[a + (k + 1)] \in K THEN Append(hu[a + k], u[a + (k + 1)]) ELSE hu[a + k]
      BY <1>7, <3>1
    <3>3. u[a + (k + 1)] = t[k + 1] /\ hu[a + k] = hs[a] \o ht[k] /\ t[k + 1] \in X /\ ht[k] \in Seq(X)
      <4>1. u[a + (k + 1)] = t[k + 1] /\ ht[k] \in Seq(X)
        BY <1>1, <1>6, <3>1
      <4>2. hu[a + k] = cat[k]
        BY <2>2, <1>1, <3>1
      <4>4. cat[k] = hs[a] \o ht[k]
        BY <1>a, <3>1
      <4>3. t[k + 1] \in X
        BY <3>1 DEF b
      <4> QED BY <4>1, <4>2, <4>3, <4>4
    <3>4. ht[k + 1] = IF t[k + 1] \in K THEN Append(ht[k], t[k + 1]) ELSE ht[k]
      BY <1>6, <3>1
    <3>5. Append(hs[a] \o ht[k], t[k + 1]) = hs[a] \o Append(ht[k], t[k + 1])
      <4> DEFINE p == hs[a]
                 q == ht[k]
                 x == t[k + 1]
      <4>1. p \in Seq(X) /\ q \in Seq(X) /\ x \in X
        BY <2>0, <3>3
      <4> HIDE DEF p, q, x
      <4>2. p \o q \in Seq(X) /\ <<x>> \in Seq(X)
        BY <4>1, ConcatProperties
      <4>3. Append(p \o q, x) = (p \o q) \o <<x>> /\ Append(q, x) = q \o <<x>>
        BY <4>1, <4>2, AppendIsConcat
      <4>4. (p \o q) \o <<x>> = p \o (q \o <<x>>)
        BY <4>1, <4>2, ConcatAssociative
      <4>5. Append(p \o q, x) = p \o Append(q, x)
        BY <4>3, <4>4
      <4> QED BY <4>5 DEF p, q, x
    <3>6. cat[k + 1] = hs[a] \o ht[k + 1]
      <4>1. k + 1 \in 0..b
        BY <3>1
      <4> QED BY <1>a, <4>1
    <3>7. CASE t[k + 1] \in K
      BY <3>2, <3>3, <3>4, <3>5, <3>6, <3>7
    <3>8. CASE t[k + 1] \notin K
      BY <3>2, <3>3, <3>4, <3>6, <3>8
    <3> QED BY <3>7, <3>8
  <2>3. Nat \subseteq H
    <3> HIDE DEF H
    <3> QED BY <2>1, <2>2, NatSetInduction
  <2> QED BY <1>1, <2>3
<1>11. hu[a + b] = hs[a] \o ht[b]
  <2>1. hu[a + b] = cat[b]
    BY <1>1, <1>10
  <2> QED BY <1>a, <2>1
<1> QED BY <1>2, <1>3, <1>4, <1>11 DEF u

---------------------------------------------------------------------------
(* What a compaction leaves.                                               *)

\* The same message, but for its size.
Alike(m, o) == /\ m.n = o.n /\ m.role = o.role /\ m.text = o.text /\ m.mark = o.mark
               /\ m.calls = o.calls /\ m.of = o.of

\* s is h from its i-th message on, but for the sizes.
EndOf(s, h, i) == /\ s \in Seq(Msgs) /\ i \in 1..(Len(h) + 1) /\ Len(s) = Len(h) - i + 1
                  /\ \A k \in 1..Len(s) : Alike(s[k], h[i + k - 1])

\* The fields of a message.
LEMMA MsgsOf ==
  ASSUME NEW m \in Msgs
  PROVE  /\ m.n \in Nat /\ m.role \in {"system", "user", "assistant", "tool"} /\ m.size \in Nat
         /\ m.text \in BOOLEAN /\ m.mark \in BOOLEAN /\ m.calls \in Nat /\ m.of \in Nat \X Nat
BY DEF Msgs

\* A shortened message is one, and only its text is another.
LEMMA ShortenedOf ==
  ASSUME NEW m \in Msgs, NEW a \in Nat, NEW b \in Nat
  PROVE  Shortened(m, a, b) \in Msgs /\ Alike(Shortened(m, a, b), m)
<1> DEFINE limit == [tool |-> a, assistant |-> b, user |-> m.size, system |-> m.size][m.role]
           size == IF m.size > limit THEN limit ELSE m.size
<1>1. limit \in Nat
  <2>1. m.role = "system" \/ m.role = "user" \/ m.role = "assistant" \/ m.role = "tool"
    BY MsgsOf
  <2>2. m.size \in Nat
    BY MsgsOf
  <2> QED BY <2>1, <2>2
<1>2. Shortened(m, a, b) = [m EXCEPT !.size = size]
  BY Zenon DEF Shortened
<1> HIDE DEF limit
<1>3. size \in Nat
  BY <1>1, MsgsOf
<1> HIDE DEF size
<1> QED BY <1>2, <1>3 DEF Msgs, Alike

\* A sequence of messages, each shortened.
LEMMA AllShortened ==
  ASSUME NEW s \in Seq(Msgs), NEW a \in Nat, NEW b \in Nat
  PROVE  EndOf([i \in DOMAIN s |-> Shortened(s[i], a, b)], s, 1)
<1> DEFINE t == [i \in DOMAIN s |-> Shortened(s[i], a, b)]
<1>1. \A i \in 1..Len(s) : s[i] \in Msgs /\ Shortened(s[i], a, b) \in Msgs /\ Alike(Shortened(s[i], a, b), s[i])
  BY ShortenedOf
<1>2. t \in [1..Len(s) -> Msgs] /\ \A i \in 1..Len(s) : Alike(t[i], s[i])
  BY <1>1
<1> HIDE DEF t
<1>3. t \in Seq(Msgs) /\ Len(t) = Len(s) /\ Len(s) \in Nat
  BY <1>2
<1> QED BY <1>2, <1>3 DEF EndOf, t

\* The end of a sequence.
LEMMA FromOf ==
  ASSUME NEW h \in Seq(Msgs), NEW i \in 1..(Len(h) + 1)
  PROVE  EndOf(SubSeq(h, i, Len(h)), h, i) /\ SubSeq(h, i, Len(h)) \in Seq(Msgs)
<1>1. Len(h) \in Nat /\ \A k \in i..Len(h) : h[k] \in Msgs
  OBVIOUS
<1> DEFINE s == SubSeq(h, i, Len(h))
<1>2. /\ s \in Seq(Msgs) /\ Len(s) = IF i <= Len(h) THEN Len(h) - i + 1 ELSE 0
      /\ \A k \in 1..(Len(h) - i + 1) : s[k] = h[i + k - 1]
  BY <1>1, SubSeqProperties
<1> HIDE DEF s
<1>3. Len(s) = Len(h) - i + 1
  BY <1>1, <1>2
<1>4. \A k \in 1..Len(s) : Alike(s[k], h[i + k - 1])
  BY <1>2, <1>3 DEF Alike
<1> QED BY <1>2, <1>3, <1>4 DEF EndOf, s

\* An end of an end is an end.
LEMMA EndOfTrans ==
  ASSUME NEW h \in Seq(Msgs), NEW s, NEW t, NEW i, EndOf(s, h, i), EndOf(t, s, 1)
  PROVE  EndOf(t, h, i)
<1>1. Len(t) = Len(s) /\ Len(s) \in Nat /\ t \in Seq(Msgs)
  BY DEF EndOf
<1>2. \A k \in 1..Len(t) : Alike(t[k], s[k]) /\ Alike(s[k], h[i + k - 1])
  BY <1>1 DEF EndOf
<1>3. \A k \in 1..Len(t) : Alike(t[k], h[i + k - 1])
  BY <1>2 DEF Alike
<1> QED BY <1>1, <1>3 DEF EndOf

\* What is selected is an end of the history that starts with a block; if
\* there is any, it fits with the prefix.
LEMMA SelectOf ==
  ASSUME NEW prefix \in Seq(Msgs), NEW h \in Seq(Msgs), NEW target
  PROVE  \E i \in 1..(Len(h) + 1) :
           /\ EndOf(Select(prefix, h, target), h, i)
           /\ i <= Len(h) => OpensBlock(h, i)
           /\ Select(prefix, h, target) = <<>> \/ Size(prefix \o Select(prefix, h, target)) <= target
<1> DEFINE Fits(s) == Size(prefix \o s) <= target
           From(i) == SubSeq(h, i, Len(h))
           open == {i \in 1..Len(h) : OpensBlock(h, i)}
           fit == {i \in open : Fits(From(i))}
           from == CHOOSE i \in open : \A j \in open : j <= i
           last == From(from)
           least == [i \in DOMAIN last |-> Shortened(last[i], Limits.least, Limits.least)]
           first == CHOOSE i \in fit : \A j \in fit : i <= j
<1>0. Select(prefix, h, target) = CASE fit # {} -> From(first)
                                    [] fit = {} /\ open # {} /\ Fits(least) -> least
                                    [] OTHER -> <<>>
  BY Zenon DEF Select
<1>1. Len(h) \in Nat /\ open \subseteq 1..Len(h) /\ fit \subseteq open
  OBVIOUS
<1>2. CASE fit # {}
  <2>1. first \in fit
    <3>1. fit \in SUBSET Nat
      BY <1>1
    <3> HIDE DEF fit
    <3>2. \E i \in fit : \A j \in fit : i <= j
      BY <1>2, <3>1, LeastOf
    <3> QED BY <3>2
  <2> HIDE DEF first
  <2>2. first \in 1..Len(h) /\ OpensBlock(h, first) /\ Fits(From(first))
    BY <2>1
  <2>3. Select(prefix, h, target) = From(first)
    BY <1>0, <1>2
  <2> HIDE DEF fit, open
  <2>4. first \in 1..(Len(h) + 1)
    BY <1>1, <2>2
  <2>5. EndOf(From(first), h, first)
    BY <2>4, FromOf
  <2> HIDE DEF Fits, From
  <2> QED BY <2>2, <2>3, <2>4, <2>5 DEF Fits
<1>3. CASE fit = {} /\ open # {} /\ Fits(least)
  <2>1. from \in open
    <3> DEFINE n == Len(h)
    <3>1. n \in Nat /\ open \in SUBSET (1..n)
      BY <1>1
    <3> HIDE DEF open, n
    <3>2. Max(open) \in open /\ \A y \in open : y <= Max(open)
      BY <1>3, <3>1, MaxIn
    <3>3. \E i \in open : \A j \in open : j <= i
      BY <3>2
    <3> QED BY <3>3
  <2>2. Select(prefix, h, target) = least
    BY <1>0, <1>3
  <2> HIDE DEF from
  <2>3. from \in 1..Len(h) /\ OpensBlock(h, from)
    BY <2>1
  <2> HIDE DEF open, fit
  <2>4. from \in 1..(Len(h) + 1)
    BY <1>1, <2>3
  <2>5. EndOf(last, h, from) /\ last \in Seq(Msgs)
    BY <2>4, FromOf
  <2> HIDE DEF last
  <2>6. Limits.least \in Nat
    BY LimitsAssumption
  <2>7. EndOf(least, last, 1)
    BY <2>5, <2>6, AllShortened
  <2> HIDE DEF least
  <2>8. EndOf(least, h, from)
    BY <2>5, <2>7, EndOfTrans
  <2> QED BY <1>3, <2>2, <2>3, <2>4, <2>8
<1>4. CASE ~(fit # {}) /\ ~(fit = {} /\ open # {} /\ Fits(least))
  <2>1. Select(prefix, h, target) = <<>>
    BY <1>0, <1>4
  <2> DEFINE i == Len(h) + 1
  <2>2. i \in 1..(Len(h) + 1) /\ ~(i <= Len(h))
    BY <1>1
  <2>3. EndOf(<<>>, h, i)
    <3>1. <<>> \in Seq(Msgs) /\ Len(<<>>) = 0
      BY EmptySeq
    <3> QED BY <1>1, <3>1 DEF EndOf
  <2> HIDE DEF i, fit, open
  <2> QED BY <2>1, <2>2, <2>3
<1> QED BY <1>2, <1>3, <1>4

Later == {m \in Msgs : m.role # "system" /\ (m.mark \/ m.n > 2)}
Made == {m \in Msgs : m.role # "system" /\ m.n > 2}
Fresh == {m \in Msgs : m.role # "system" /\ ~m.mark /\ m.n > 2}

\* The system message and the task, with which every conversation opens.
LEMMA OpeningOf ==
  /\ Opening \in Seq(Msgs) /\ Len(Opening) = 2 /\ Size(Opening) = 2
  /\ Opening[1].role = "system" /\ Opening[1].n = 1 /\ ~Opening[1].mark
  /\ Opening[2].role = "user" /\ Opening[2].n = 2 /\ ~Opening[2].mark
<1> DEFINE a == Message(1, "system", 1)
           b == Message(2, "user", 1)
<1>1. a \in Msgs /\ a.role = "system" /\ a.n = 1 /\ ~a.mark /\ a.size = 1
  BY DEF Message, Msgs
<1>2. b \in Msgs /\ b.role = "user" /\ b.n = 2 /\ ~b.mark /\ b.size = 1
  BY DEF Message, Msgs
<1>3. Opening = <<a, b>>
  BY DEF Opening
<1> HIDE DEF a, b
<1>4. Opening \in Seq(Msgs) /\ Len(Opening) = 2 /\ Opening[1] = a /\ Opening[2] = b
  BY <1>1, <1>2, <1>3
<1>5. Size(Opening) = 2
  <2>1. <<a>> \in Seq(Msgs) /\ <<b>> \in Seq(Msgs) /\ <<a, b>> = Append(<<a>>, b)
    <3>1. a \in Msgs /\ b \in Msgs
      BY <1>1, <1>2
    <3> QED BY <3>1
  <2>4. Append(<<a>>, b) = <<a>> \o <<b>>
    BY <1>2, <2>1, AppendIsConcat
  <2>2. Size(<<a>>) = 1 /\ Size(<<b>>) = 1
    BY <1>1, <1>2, SizeOf
  <2>3. Size(<<a>> \o <<b>>) = Size(<<a>>) + Size(<<b>>)
    BY <2>1, SizeConcat
  <2>5. Opening = <<a>> \o <<b>>
    BY <1>3, <2>1, <2>4
  <2> HIDE DEF Opening
  <2> QED BY <2>2, <2>3, <2>5
<1> QED BY <1>1, <1>2, <1>4, <1>5

\* What follows the opening.
LEMMA AfterOpening ==
  ASSUME NEW t \in Seq(Msgs), NEW ms, ms = Opening \o t
  PROVE  /\ ms \in Seq(Msgs) /\ Len(t) \in Nat /\ Len(ms) = 2 + Len(t) /\ DOMAIN ms = 1..(2 + Len(t))
         /\ \A k \in 1..2 : ms[k] = Opening[k]
         /\ \A k \in 1..Len(t) : ms[2 + k] = t[k]
<1> DEFINE o == Opening
<1>1. o \in Seq(Msgs) /\ Len(o) = 2 /\ ms = o \o t
  BY OpeningOf
<1> HIDE DEF o
<1>2. /\ ms \in Seq(Msgs) /\ Len(ms) = Len(o) + Len(t)
      /\ \A i \in 1..Len(o) + Len(t) : ms[i] = IF i <= Len(o) THEN o[i] ELSE t[i - Len(o)]
  <2>1. t \in Seq(Msgs)
    OBVIOUS
  <2>2. /\ o \o t \in Seq(Msgs) /\ Len(o \o t) = Len(o) + Len(t)
        /\ \A i \in 1..Len(o) + Len(t) : (o \o t)[i] = IF i <= Len(o) THEN o[i] ELSE t[i - Len(o)]
    BY <1>1, <2>1, ConcatProperties, Zenon
  <2> QED BY <1>1, <2>2, Zenon
<1>3. Len(t) \in Nat /\ DOMAIN ms = 1..Len(ms)
  BY <1>2
<1>4. \A k \in 1..2 : ms[k] = o[k]
  BY <1>1, <1>2, <1>3
<1>5. \A k \in 1..Len(t) : ms[2 + k] = t[k]
  BY <1>1, <1>2, <1>3
<1> QED BY <1>1, <1>2, <1>3, <1>4, <1>5 DEF o

\* The checkpoint is a user message that holds the marker.
LEMMA CheckpointOf ==
  ASSUME NEW size \in Nat
  PROVE  /\ Checkpoint(size) \in Msgs /\ Checkpoint(size).size = size /\ Checkpoint(size).n = 0
         /\ Checkpoint(size).role = "user" /\ Checkpoint(size).mark
BY DEF Checkpoint, Message, Msgs

\* What opens a block does not depend on sizes.
LEMMA OpensAlike ==
  ASSUME NEW s, NEW h \in Seq(Msgs), EndOf(s, h, 1), NEW i \in 1..Len(s)
  PROVE  OpensBlock(s, i) <=> OpensBlock(h, i)
<1>1. \A k \in 1..i : Alike(s[k], h[k])
  BY DEF EndOf
<1>2. \A k \in 1..i : /\ s[k].role = h[k].role /\ s[k].of = h[k].of
                      /\ s[k].n = h[k].n /\ s[k].calls = h[k].calls
  BY <1>1 DEF Alike
<1>3. \A j \in 1..(i - 1) : CallsOf(s[j]) = CallsOf(h[j])
  <2> SUFFICES ASSUME NEW j \in 1..(i - 1) PROVE CallsOf(s[j]) = CallsOf(h[j])
    OBVIOUS
  <2>1. s[j].n = h[j].n /\ s[j].calls = h[j].calls
    BY <1>2
  <2> QED BY <2>1 DEF CallsOf
<1>4. \A j \in 1..(i - 1) : \A k \in (j + 1)..i :
        (s[k].role = "tool" /\ s[k].of \in CallsOf(s[j])) <=> (h[k].role = "tool" /\ h[k].of \in CallsOf(h[j]))
  <2> SUFFICES ASSUME NEW j \in 1..(i - 1), NEW k \in (j + 1)..i
               PROVE  (s[k].role = "tool" /\ s[k].of \in CallsOf(s[j])) <=> (h[k].role = "tool" /\ h[k].of \in CallsOf(h[j]))
    OBVIOUS
  <2>1. k \in 1..i
    OBVIOUS
  <2> QED BY <1>2, <1>3, <2>1
<1> QED BY <1>4 DEF OpensBlock

\* A compaction leaves the opening, the checkpoint and an end of what is
\* new and unmarked.
Leaves(new, fresh, size, target, retain) ==
  \E s \in Seq(Msgs), i \in 1..(Len(fresh) + 1) :
    /\ EndOf(s, fresh, i)
    /\ i <= Len(fresh) => OpensBlock(fresh, i)
    /\ new = (Opening \o <<Checkpoint(size)>>) \o s
    /\ s = <<>> \/ Size(new) <= target
    /\ ~retain => s = <<>>

\* Compaction takes the marked messages out, pins the opening and works on the rest.
LEMMA KnownOf ==
  ASSUME NEW tail \in Seq(Later)
  PROVE  LET ms == Opening \o tail
             U == {m \in ToSet(ms) : ~m.mark}
             known == Among(ms, U)
         IN  /\ Among(tail, U) \in Seq(Fresh)
             /\ known = Opening \o Among(tail, U)
             /\ Among(known, {m \in ToSet(known) : Pinned(known, m)}) = Opening
             /\ Among(known, {m \in ToSet(known) : ~Pinned(known, m)}) = Among(tail, U)
<1> DEFINE ms == Opening \o tail
           U == {m \in ToSet(ms) : ~m.mark}
           fresh == Among(tail, U)
           known == Among(ms, U)
           P == {m \in ToSet(known) : Pinned(known, m)}
           Q == {m \in ToSet(known) : ~Pinned(known, m)}
<1>1. tail \in Seq(Msgs) /\ Len(tail) \in Nat
  <2>1. Later \subseteq Msgs
    BY DEF Later
  <2> QED BY <2>1, SeqMonotonic
<1>2. /\ ms \in Seq(Msgs) /\ Len(ms) = 2 + Len(tail) /\ DOMAIN ms = 1..(2 + Len(tail))
      /\ \A k \in 1..2 : ms[k] = Opening[k]
      /\ \A k \in 1..Len(tail) : ms[2 + k] = tail[k]
  BY <1>1, AfterOpening
<1>3. \A k \in 1..2 : Opening[k] \in U
  <2> SUFFICES ASSUME NEW k \in 1..2 PROVE Opening[k] \in U
    OBVIOUS
  <2>1. k \in DOMAIN ms /\ ms[k] = Opening[k]
    BY <1>1, <1>2
  <2>2. ~Opening[k].mark
    BY OpeningOf
  <2> HIDE DEF ms
  <2> QED BY <2>1, <2>2 DEF ToSet
<1>4. fresh \in Seq(Fresh)
  <2>1. \A k \in 1..Len(tail) : tail[k] \in U => tail[k] \in Fresh
    BY DEF Later, Fresh
  <2> HIDE DEF U
  <2> QED BY <1>1, <2>1, AmongType
<1>5. known = Opening \o fresh
  <2> HIDE DEF U
  <2>1. known = Among(Opening, U) \o Among(tail, U)
    BY <1>1, OpeningOf, AmongConcat
  <2>2. Among(Opening, U) = Opening
    BY <1>3, OpeningOf, AmongAll
  <2> QED BY <2>1, <2>2
<1> HIDE DEF fresh, known, U, ms
<1>6. fresh \in Seq(Msgs) /\ Len(fresh) \in Nat
  <2>1. Fresh \subseteq Msgs
    BY DEF Fresh
  <2> QED BY <1>4, <2>1, SeqMonotonic
<1>7. /\ known \in Seq(Msgs) /\ Len(known) = 2 + Len(fresh) /\ DOMAIN known = 1..(2 + Len(fresh))
      /\ \A k \in 1..2 : known[k] = Opening[k]
      /\ \A k \in 1..Len(fresh) : known[2 + k] = fresh[k]
  BY <1>5, <1>6, AfterOpening
<1>8. \A k \in 1..Len(fresh) : fresh[k].role # "system" /\ fresh[k].n > 2 /\ fresh[k] \in Msgs
  BY <1>4 DEF Fresh
<1>9. Pinned(known, Opening[1])
  BY OpeningOf DEF Pinned
<1>10. Pinned(known, Opening[2])
  <2> SUFFICES ASSUME NEW i \in DOMAIN known, known[i].role = "user" PROVE known[i].n >= 2
    BY OpeningOf DEF Pinned
  <2>1. CASE i = 1
    BY <1>7, <2>1, OpeningOf
  <2>2. CASE i = 2
    BY <1>7, <2>2, OpeningOf
  <2>3. CASE i > 2
    <3>1. i - 2 \in 1..Len(fresh) /\ i = 2 + (i - 2)
      BY <1>6, <1>7, <2>3
    <3>2. known[i].n > 2 /\ known[i].n \in Nat
      BY <1>7, <1>8, <3>1, MsgsOf
    <3> QED BY <3>2
  <2> QED BY <1>6, <1>7, <2>1, <2>2, <2>3
<1>11. ASSUME NEW k \in 1..Len(fresh) PROVE ~Pinned(known, fresh[k])
  <2>1. 2 \in DOMAIN known /\ known[2].role = "user" /\ known[2].n = 2
    BY <1>6, <1>7, OpeningOf
  <2>2. fresh[k].role # "system" /\ fresh[k].n > 2 /\ fresh[k].n \in Nat
    BY <1>8, MsgsOf
  <2>3. ~(2 >= fresh[k].n)
    BY <2>2
  <2> QED BY <2>1, <2>2, <2>3 DEF Pinned
<1>12. \A k \in 1..2 : Opening[k] \in ToSet(known) /\ Pinned(known, Opening[k])
  <2> SUFFICES ASSUME NEW k \in 1..2 PROVE Opening[k] \in ToSet(known) /\ Pinned(known, Opening[k])
    OBVIOUS
  <2>1. k \in DOMAIN known /\ known[k] = Opening[k]
    BY <1>6, <1>7
  <2>2. k = 1 \/ k = 2
    OBVIOUS
  <2> QED BY <1>9, <1>10, <2>1, <2>2 DEF ToSet
<1>13. \A k \in 1..Len(fresh) : fresh[k] \in ToSet(known)
  <2> SUFFICES ASSUME NEW k \in 1..Len(fresh) PROVE fresh[k] \in ToSet(known)
    OBVIOUS
  <2>1. 2 + k \in DOMAIN known /\ known[2 + k] = fresh[k]
    BY <1>6, <1>7
  <2> QED BY <2>1 DEF ToSet
<1>14. /\ \A k \in 1..Len(Opening) : Opening[k] \in P /\ Opening[k] \notin Q
       /\ \A k \in 1..Len(fresh) : fresh[k] \in Q /\ fresh[k] \notin P
  BY <1>11, <1>12, <1>13, OpeningOf
<1> HIDE DEF P, Q
<1>15. Among(known, P) = Opening
  <2>1. Among(known, P) = Among(Opening, P) \o Among(fresh, P)
    BY <1>5, <1>6, OpeningOf, AmongConcat
  <2>2. Among(Opening, P) = Opening
    BY <1>14, OpeningOf, AmongAll
  <2>3. Among(fresh, P) = <<>>
    BY <1>6, <1>14, AmongNone
  <2> QED BY <2>1, <2>2, <2>3, OpeningOf, ConcatEmptySeq
<1>16. Among(known, Q) = fresh
  <2>1. Among(known, Q) = Among(Opening, Q) \o Among(fresh, Q)
    BY <1>5, <1>6, OpeningOf, AmongConcat
  <2>2. Among(Opening, Q) = <<>>
    BY <1>14, OpeningOf, AmongNone
  <2>3. Among(fresh, Q) = fresh
    BY <1>6, <1>14, AmongAll
  <2> QED BY <1>6, <2>1, <2>2, <2>3, ConcatEmptySeq
<1> QED BY <1>4, <1>5, <1>15, <1>16 DEF fresh, known, U, ms, P, Q

\* What compaction leaves of any conversation of this form.
LEMMA CompactedOf ==
  ASSUME NEW tail \in Seq(Later), NEW size \in Nat, NEW target \in Nat, NEW limit \in Nat, NEW retain \in BOOLEAN
  PROVE  Leaves(Compacted(Opening \o tail, size, target, limit, retain),
                Among(tail, {m \in ToSet(Opening \o tail) : ~m.mark}), size, target, retain)
<1> DEFINE ms == Opening \o tail
           fresh == Among(tail, {m \in ToSet(ms) : ~m.mark})
           known == Among(ms, {m \in ToSet(ms) : ~m.mark})
           base == Among(known, {m \in ToSet(known) : Pinned(known, m)})
           rest == Among(known, {m \in ToSet(known) : ~Pinned(known, m)})
           al == IF limit > Limits.forced THEN limit ELSE Limits.forced
           history == [i \in DOMAIN rest |-> Shortened(rest[i], limit, al)]
           prefix == Append(base, Checkpoint(size))
           new == Compacted(ms, size, target, limit, retain)
<1>1. new = prefix \o (IF retain THEN Select(prefix, history, target) ELSE <<>>)
  BY Zenon DEF Compacted
<1>2. fresh \in Seq(Fresh) /\ base = Opening /\ rest = fresh
  BY KnownOf, Zenon
<1>3. al \in Nat
  BY LimitsAssumption
<1> HIDE DEF fresh, known, base, rest, al, new, ms
<1>4. fresh \in Seq(Msgs) /\ Len(fresh) \in Nat
  <2>1. Fresh \subseteq Msgs
    BY DEF Fresh
  <2> QED BY <1>2, <2>1, SeqMonotonic
<1>5. EndOf(history, fresh, 1)
  BY <1>2, <1>3, <1>4, AllShortened
<1>6. history \in Seq(Msgs) /\ Len(history) = Len(fresh)
  BY <1>4, <1>5 DEF EndOf
<1>7. prefix = Opening \o <<Checkpoint(size)>> /\ prefix \in Seq(Msgs)
  BY <1>2, OpeningOf, CheckpointOf, AppendIsConcat, AppendProperties
<1> HIDE DEF history, prefix
<1>8. CASE retain
  <2>1. PICK i \in 1..(Len(history) + 1) :
          /\ EndOf(Select(prefix, history, target), history, i)
          /\ i <= Len(history) => OpensBlock(history, i)
          /\ Select(prefix, history, target) = <<>> \/ Size(prefix \o Select(prefix, history, target)) <= target
    BY <1>6, <1>7, SelectOf
  <2> DEFINE s == Select(prefix, history, target)
  <2>2. EndOf(s, history, i) /\ s \in Seq(Msgs)
    BY <2>1 DEF EndOf
  <2>3. EndOf(s, fresh, i)
    <3> HIDE DEF s
    <3>1. /\ Len(s) = Len(fresh) - i + 1 /\ i \in 1..(Len(fresh) + 1) /\ Len(s) \in Nat
          /\ \A k \in 1..Len(s) : Alike(s[k], history[i + k - 1])
      BY <1>6, <2>2 DEF EndOf
    <3>2. \A k \in 1..Len(s) : Alike(history[i + k - 1], fresh[i + k - 1])
      <4> SUFFICES ASSUME NEW k \in 1..Len(s) PROVE Alike(history[i + k - 1], fresh[i + k - 1])
        OBVIOUS
      <4>1. i + k - 1 \in 1..Len(history) /\ 1 + (i + k - 1) - 1 = i + k - 1
        BY <1>4, <1>6, <3>1
      <4> QED BY <1>5, <4>1 DEF EndOf
    <3>3. \A k \in 1..Len(s) : Alike(s[k], fresh[i + k - 1])
      BY <3>1, <3>2 DEF Alike
    <3> QED BY <2>2, <3>1, <3>3 DEF EndOf
  <2>4. i <= Len(fresh) => OpensBlock(fresh, i)
    BY <1>4, <1>5, <1>6, <2>1, OpensAlike
  <2>5. new = prefix \o s
    BY <1>1, <1>8
  <2>6. s = <<>> \/ Size(new) <= target
    BY <2>1, <2>5
  <2> HIDE DEF s
  <2>7. i \in 1..(Len(fresh) + 1)
    BY <1>6
  <2> QED BY <1>7, <1>8, <2>2, <2>3, <2>4, <2>5, <2>6, <2>7 DEF Leaves, new, fresh, ms
<1>9. CASE ~retain
  <2> DEFINE i == Len(fresh) + 1
  <2>1. new = prefix \o <<>>
    BY <1>1, <1>9
  <2>2. i \in 1..(Len(fresh) + 1) /\ ~(i <= Len(fresh))
    BY <1>4
  <2>3. <<>> \in Seq(Msgs) /\ EndOf(<<>>, fresh, i)
    <3>1. <<>> \in Seq(Msgs) /\ Len(<<>>) = 0
      BY EmptySeq
    <3> QED BY <1>4, <3>1 DEF EndOf
  <2> HIDE DEF i
  <2> QED BY <1>7, <2>1, <2>2, <2>3 DEF Leaves, new, fresh, ms
<1> QED BY <1>8, <1>9

---------------------------------------------------------------------------
(* What is sent stays under the soft limit.                                *)

\* Fresh messages are later ones, and these are messages.
LEMMA FreshIsLater == Fresh \subseteq Later /\ Later \subseteq Msgs
BY DEF Fresh, Later

\* So are those made since the opening, quotes of the marker among them.
LEMMA MadeIsLater == Fresh \subseteq Made /\ Made \subseteq Later /\ Made \subseteq Msgs
BY DEF Fresh, Later, Made

\* An end of fresh messages is fresh.
LEMMA EndsFresh ==
  ASSUME NEW s, NEW fresh \in Seq(Fresh), NEW i, EndOf(s, fresh, i)
  PROVE  s \in Seq(Fresh)
<1>1. /\ s \in Seq(Msgs) /\ i \in 1..(Len(fresh) + 1) /\ Len(s) = Len(fresh) - i + 1
      /\ \A k \in 1..Len(s) : Alike(s[k], fresh[i + k - 1])
  BY DEF EndOf
<1>2. \A k \in 1..Len(s) : s[k] \in Fresh
  <2> SUFFICES ASSUME NEW k \in 1..Len(s) PROVE s[k] \in Fresh
    OBVIOUS
  <2>1. i + k - 1 \in 1..Len(fresh) /\ s[k] \in Msgs
    BY <1>1
  <2>2. fresh[i + k - 1] \in Fresh
    BY <2>1
  <2>3. Alike(s[k], fresh[i + k - 1])
    BY <1>1
  <2> QED BY <2>1, <2>2, <2>3 DEF Fresh, Alike
<1> QED BY <1>1, <1>2

\* and an end of what is made is made.
LEMMA EndsMade ==
  ASSUME NEW s, NEW fresh \in Seq(Made), NEW i, EndOf(s, fresh, i)
  PROVE  s \in Seq(Made)
<1>1. /\ s \in Seq(Msgs) /\ i \in 1..(Len(fresh) + 1) /\ Len(s) = Len(fresh) - i + 1
      /\ \A k \in 1..Len(s) : Alike(s[k], fresh[i + k - 1])
  BY DEF EndOf
<1>2. \A k \in 1..Len(s) : s[k] \in Made
  <2> SUFFICES ASSUME NEW k \in 1..Len(s) PROVE s[k] \in Made
    OBVIOUS
  <2>1. i + k - 1 \in 1..Len(fresh) /\ s[k] \in Msgs
    BY <1>1
  <2>2. fresh[i + k - 1] \in Made
    BY <2>1
  <2>3. Alike(s[k], fresh[i + k - 1])
    BY <1>1
  <2> QED BY <2>1, <2>2, <2>3 DEF Made, Alike
<1> QED BY <1>1, <1>2

Tailed(ms) == \E tail \in Seq(Later) : ms = Opening \o tail

\* What compaction leaves is within its target, or has nothing behind the checkpoint.
LEMMA LeavesLater ==
  ASSUME NEW fresh \in Seq(Fresh), NEW new, NEW size \in Nat, NEW target \in Nat, NEW retain \in BOOLEAN,
         Leaves(new, fresh, size, target, retain)
  PROVE  /\ Tailed(new)
         /\ new \in Seq(Msgs) /\ Len(new) >= 3 /\ Size(new) \in Nat
         /\ Size(new) <= target \/ Size(new) = 2 + size
         /\ ~retain => Size(new) = 2 + size
<1> DEFINE c == <<Checkpoint(size)>>
           o == Opening
<1>1. PICK s \in Seq(Msgs), i \in 1..(Len(fresh) + 1) :
        /\ EndOf(s, fresh, i)
        /\ new = (o \o c) \o s
        /\ s = <<>> \/ Size(new) <= target
        /\ ~retain => s = <<>>
  BY Zenon DEF Leaves
<1>2. s \in Seq(Fresh) /\ s \in Seq(Later)
  BY <1>1, EndsFresh, FreshIsLater, SeqMonotonic
<1>3. c \in Seq(Later) /\ c \in Seq(Msgs) /\ Size(c) = size /\ Len(c) = 1
  <2>1. Checkpoint(size) \in Later /\ Checkpoint(size) \in Msgs
    BY CheckpointOf DEF Later
  <2>2. Size(c) = size
    BY <2>1, CheckpointOf, SizeOf
  <2> QED BY <2>1, <2>2
<1>4. o \in Seq(Msgs) /\ Size(o) = 2 /\ Len(o) = 2
  BY OpeningOf
<1> HIDE DEF c, o
<1>5. (o \o c) \o s = o \o (c \o s)
  BY <1>3, <1>4, ConcatAssociative
<1>6. c \o s \in Seq(Later)
  BY <1>2, <1>3, ConcatProperties
<1>7. o \o c \in Seq(Msgs) /\ Len(o \o c) = 3 /\ Size(o \o c) = 2 + size
  <2>1. Size(o \o c) = Size(o) + Size(c)
    BY <1>3, <1>4, SizeConcat
  <2>2. o \o c \in Seq(Msgs) /\ Len(o \o c) = Len(o) + Len(c)
    BY <1>3, <1>4, ConcatProperties
  <2> QED BY <1>3, <1>4, <2>1, <2>2
<1> DEFINE p == o \o c
<1> HIDE DEF p
<1>8. new = p \o s /\ p \in Seq(Msgs) /\ Len(p) = 3 /\ Size(p) = 2 + size
  BY <1>1, <1>7 DEF p
<1>9. new \in Seq(Msgs) /\ Len(new) >= 3 /\ Size(new) \in Nat
  <2>1. new \in Seq(Msgs) /\ Len(new) = Len(p) + Len(s)
    BY <1>8, ConcatProperties
  <2>2. Len(s) \in Nat
    OBVIOUS
  <2>3. Len(new) >= 3
    BY <1>8, <2>1, <2>2
  <2> QED BY <2>1, <2>3, SizeOf
<1>10. s = <<>> => Size(new) = 2 + size
  BY <1>8, ConcatEmptySeq
<1>11. Size(new) <= target \/ Size(new) = 2 + size
  BY <1>1, <1>10
<1>12. ~retain => Size(new) = 2 + size
  BY <1>1, <1>10
<1>13. new = o \o (c \o s)
  BY <1>1, <1>5
<1>14. Tailed(new)
  BY <1>6, <1>13 DEF Tailed, o
<1> QED BY <1>9, <1>11, <1>12, <1>14

\* Such a conversation is one of messages, with a size.
LEMMA TailedType ==
  ASSUME NEW ms, Tailed(ms) PROVE ms \in Seq(Msgs) /\ Size(ms) \in Nat /\ Len(ms) \in Nat
<1>1. PICK tail \in Seq(Later) : ms = Opening \o tail
  BY DEF Tailed
<1>2. tail \in Seq(Msgs)
  BY FreshIsLater, SeqMonotonic
<1> QED BY <1>1, <1>2, AfterOpening, SizeOf

\* It stays one when later messages are appended.
LEMMA TailedMore ==
  ASSUME NEW ms, Tailed(ms), NEW t \in Seq(Later) PROVE Tailed(ms \o t)
<1>1. PICK tail \in Seq(Later) : ms = Opening \o tail
  BY DEF Tailed
<1>2. tail \in Seq(Msgs) /\ t \in Seq(Msgs) /\ Opening \in Seq(Msgs)
  BY FreshIsLater, SeqMonotonic, OpeningOf
<1> DEFINE o == Opening
<1> HIDE DEF o
<1>3. (o \o tail) \o t = o \o (tail \o t)
  BY <1>2, ConcatAssociative DEF o
<1>4. tail \o t \in Seq(Later)
  BY ConcatProperties
<1> QED BY <1>1, <1>3, <1>4 DEF Tailed, o

\* The notices of the engine are fresh, and short.
LEMMA ToldOf ==
  ASSUME NEW k \in Nat, stamp \in Nat, stamp >= 2
  PROVE  Told(k) \in Seq(Fresh) /\ Told(k) \in Seq(Later) /\ Size(Told(1)) = 1
<1>1. \A i \in 1..k : Message(stamp + i, "user", 1) \in Fresh
  BY DEF Message, Fresh, Msgs
<1>2. Told(k) \in Seq(Fresh)
  BY <1>1 DEF Told
<1>3. Size(Told(1)) = 1
  <2>1. Told(1) = <<Message(stamp + 1, "user", 1)>>
    BY DEF Told
  <2>2. Message(stamp + 1, "user", 1) \in Msgs /\ Message(stamp + 1, "user", 1).size = 1
    BY DEF Message, Msgs
  <2> QED BY <2>1, <2>2, SizeOf
<1> QED BY <1>2, <1>3, FreshIsLater, SeqMonotonic

\* A compaction that is made is shaped like the conversation it replaces,
\* and is smaller or nothing but the prefix.
LEMMA CompactionOf ==
  ASSUME NEW ms, Tailed(ms), NEW target \in Nat, NEW size \in CheckpointSizes(target), NEW limit \in Nat,
         NEW retain \in BOOLEAN, target <= Target
  PROVE  LET compact == Compaction(ms, size, target, limit, retain)
         IN  /\ compact # <<>> => Tailed(compact)
             /\ compact # <<>> /\ retain => Size(compact) < Size(ms)
             /\ compact # <<>> => Size(compact) <= Target
             /\ compact # <<>> /\ ~retain => Size(compact) + 1 <= Target
             /\ retain /\ Size(ms) >= Soft => compact # <<>>
<1> DEFINE new == Compacted(ms, size, target, limit, retain)
           removed == Len(ms) > Len(new) - 1
           compact == Compaction(ms, size, target, limit, retain)
<1>1. PICK tail \in Seq(Later) : ms = Opening \o tail
  BY DEF Tailed
<1> DEFINE fresh == Among(tail, {m \in ToSet(Opening \o tail) : ~m.mark})
<1>2. size \in Nat
  BY DEF CheckpointSizes
<1>3. Leaves(new, fresh, size, target, retain)
  BY <1>1, <1>2, CompactedOf, Zenon
<1>4. fresh \in Seq(Fresh)
  BY KnownOf, Zenon
<1>5. compact = IF Size(new) < Size(ms) \/ (~retain /\ removed) THEN new ELSE <<>>
  BY Zenon DEF Compaction
<1> HIDE DEF fresh, new, compact
<1>6. /\ Tailed(new) /\ new \in Seq(Msgs) /\ Len(new) >= 3 /\ Size(new) \in Nat
      /\ Size(new) <= target \/ Size(new) = 2 + size
      /\ ~retain => Size(new) = 2 + size
  BY <1>2, <1>3, <1>4, LeavesLater
<1>7. new # <<>>
  BY <1>6
<1>8. 3 + size <= Target /\ Target \in Nat /\ Soft \in Nat /\ Target < Soft
  <2>1. size <= target \div 4 \/ size <= CheckpointLeast
    <3> DEFINE quarter == target \div 4
               least == IF quarter > CheckpointLeast THEN quarter ELSE CheckpointLeast
               most == IF least < CheckpointMost THEN least ELSE CheckpointMost
    <3>1. size \in 1..most
      BY DEF CheckpointSizes
    <3>2. quarter \in Nat /\ CheckpointLeast \in Nat /\ CheckpointMost \in Nat
      BY LimitsAssumption
    <3> HIDE DEF quarter
    <3>3. size <= quarter \/ size <= CheckpointLeast
      BY <3>1, <3>2
    <3> QED BY <3>3 DEF quarter
  <2>2. Target \in Nat /\ Soft \in Nat /\ Target < Soft /\ CheckpointLeast \in Nat /\ 1 <= CheckpointLeast
        /\ 4 * CheckpointLeast <= Target
    BY LimitsAssumption
  <2>3. 4 * size <= Target /\ 4 <= Target
    BY <1>2, <2>1, <2>2
  <2> QED BY <1>2, <2>2, <2>3
<1>9. Size(ms) \in Nat
  BY TailedType
<1>10. Size(new) <= Target /\ (~retain => Size(new) + 1 <= Target)
  BY <1>2, <1>6, <1>8
<1>11. retain /\ Size(ms) >= Soft => Size(new) < Size(ms)
  BY <1>6, <1>8, <1>9, <1>10
<1> QED BY <1>5, <1>6, <1>7, <1>10, <1>11 DEF compact

TalkInv ==
  /\ wire \in Wires /\ native \in BOOLEAN
  /\ stamp \in Nat /\ stamp >= 2 /\ recoveries \in 0..2
  /\ Tailed(talk)
  /\ SentBounded

\* The top of the loop compacts where its notices would take it to the limit.
LEMMA BeginTurnBounded == ASSUME TalkInv, BeginTurn PROVE TalkInv'
<1>1. PICK notices \in 0..Notices, tokens \in BOOLEAN, size \in CheckpointSizes(Target) :
        LET said == talk \o Told(notices)
            compact == Compaction(said, size, Target, Limits.soft, TRUE)
        IN  /\ stamp' = stamp + notices
            /\ talk' = IF Reason(Size(said), tokens) /\ compact # <<>> THEN compact ELSE said
            /\ mistaken' = (mistaken \/ ((Reason(Size(said), tokens) /\ compact # <<>>) /\ Quoted(said)))
  BY Zenon DEF BeginTurn
<1> DEFINE said == talk \o Told(notices)
           compact == Compaction(said, size, Target, Limits.soft, TRUE)
<1>2. Target \in Nat /\ Soft \in Nat /\ Limits.soft \in Nat /\ Notices \in Nat /\ Target < Soft
  BY LimitsAssumption
<1>3. Tailed(said)
  BY <1>2, ToldOf, TailedMore DEF TalkInv
<1> HIDE DEF said
<1>4. /\ compact # <<>> => Tailed(compact)
      /\ compact # <<>> => Size(compact) <= Target
      /\ Size(said) >= Soft => compact # <<>>
  <2>1. TRUE \in BOOLEAN /\ Target <= Target
    BY <1>2
  <2> QED BY <1>2, <1>3, <2>1, CompactionOf, Zenon
<1>5. /\ stamp' = stamp + notices
      /\ talk' = IF Reason(Size(said), tokens) /\ compact # <<>> THEN compact ELSE said
  BY <1>1 DEF said
<1> HIDE DEF compact
<1>6. Size(said) \in Nat /\ Tailed(talk')
  BY <1>3, <1>4, <1>5, TailedType
<1>7. Size(talk') < Soft
  <2>1. CASE Reason(Size(said), tokens) /\ compact # <<>>
    <3>1. talk' = compact /\ Size(compact) \in Nat /\ Size(compact) <= Target
      BY <1>4, <1>5, <2>1, TailedType
    <3> QED BY <1>2, <3>1
  <2>2. CASE ~(Reason(Size(said), tokens) /\ compact # <<>>)
    <3>1. talk' = said /\ ~(Size(said) >= Soft)
      BY <1>4, <1>5, <2>2 DEF Reason
    <3> QED BY <1>2, <1>6, <3>1
  <2> QED BY <2>1, <2>2
<1>8. stamp' \in Nat /\ stamp' >= 2
  BY <1>2, <1>5 DEF TalkInv
<1>9. UNCHANGED <<wire, native>> /\ recoveries' = 0
  BY DEF BeginTurn, Kept
<1>10. recoveries' \in 0..2
  BY <1>9
<1> QED BY <1>6, <1>7, <1>8, <1>9, <1>10 DEF TalkInv, SentBounded, Tailed

\* The target of a compaction after a rejection.
LEMMA TargetOf ==
  ASSUME recoveries \in 0..2
  PROVE  LET half == Emergency \div 2^recoveries
             target == IF half > Floor THEN half ELSE Floor
         IN  target \in Nat /\ target <= Target
<1> DEFINE half == Emergency \div 2^recoveries
<1>1. Emergency \in Nat /\ Floor \in Nat /\ Floor <= Emergency /\ Emergency <= Target /\ Target \in Nat
  BY LimitsAssumption
<1>2. 2^recoveries \in Nat /\ 2^recoveries > 0
  <2>1. CASE recoveries = 0
    <3>1. 2^0 = 1
      OBVIOUS
    <3> QED BY <2>1, <3>1
  <2>2. CASE recoveries = 1
    <3>1. 2^1 = 2
      OBVIOUS
    <3> QED BY <2>2, <3>1
  <2>3. CASE recoveries = 2
    <3>1. 2^2 = 4
      OBVIOUS
    <3> QED BY <2>3, <3>1
  <2> QED BY <2>1, <2>2, <2>3
<1>3. half \in Nat /\ half <= Emergency
  BY <1>1, <1>2
<1> QED BY <1>1, <1>3

\* A refused context is compacted to a smaller target.
LEMMA ContextRejectedBounded == ASSUME TalkInv, ContextRejected PROVE TalkInv'
<1> DEFINE half == Emergency \div 2^recoveries
           target == IF half > Floor THEN half ELSE Floor
<1>1. PICK size \in CheckpointSizes(target) :
        LET compact == Compaction(talk, size, target, Limits.forced, TRUE) IN
        IF recoveries < 2 /\ compact # <<>>
        THEN /\ talk' = compact /\ recoveries' = recoveries + 1 /\ UNCHANGED place
             /\ mistaken' = (mistaken \/ Quoted(talk))
        ELSE place' = "done" /\ UNCHANGED <<talk, recoveries, mistaken>>
  BY Zenon DEF ContextRejected
<1>2. target \in Nat /\ target <= Target /\ Limits.forced \in Nat /\ Soft \in Nat
  BY TargetOf, LimitsAssumption DEF TalkInv
<1> HIDE DEF target
<1> DEFINE compact == Compaction(talk, size, target, Limits.forced, TRUE)
<1>3. /\ compact # <<>> => Tailed(compact)
      /\ compact # <<>> => Size(compact) < Size(talk)
  BY <1>2, CompactionOf DEF TalkInv
<1>4. IF recoveries < 2 /\ compact # <<>>
        THEN /\ talk' = compact /\ recoveries' = recoveries + 1 /\ UNCHANGED place
             /\ mistaken' = (mistaken \/ Quoted(talk))
        ELSE place' = "done" /\ UNCHANGED <<talk, recoveries, mistaken>>
  BY <1>1
<1> HIDE DEF compact
<1>5. UNCHANGED <<wire, native, stamp>> /\ place = "request"
  BY DEF ContextRejected, Kept
<1>6. CASE recoveries < 2 /\ compact # <<>>
  <2>1. talk' = compact /\ recoveries' = recoveries + 1 /\ place' = place /\ Tailed(compact)
    BY <1>3, <1>4, <1>6
  <2>2. Size(talk) < Soft /\ Size(compact) < Size(talk) /\ Size(compact) \in Nat /\ Size(talk) \in Nat
    BY <1>3, <1>5, <1>6, <2>1, TailedType DEF TalkInv, SentBounded
  <2>3. Size(talk') < Soft
    BY <1>2, <2>1, <2>2
  <2>4. recoveries' \in 0..2
    BY <1>6, <2>1 DEF TalkInv
  <2> QED BY <1>5, <2>1, <2>3, <2>4 DEF TalkInv, SentBounded, Tailed
<1>7. CASE ~(recoveries < 2 /\ compact # <<>>)
  BY <1>4, <1>5, <1>7 DEF TalkInv, SentBounded, Tailed
<1> QED BY <1>6, <1>7

\* A refused conversation is rebuilt from its checkpoint and one notice.
LEMMA PolicyRejectedBounded == ASSUME TalkInv, PolicyRejected PROVE TalkInv'
<1>1. PICK size \in CheckpointSizes(PolicyTarget) :
        LET compact == Compaction(talk, size, PolicyTarget, Limits.forced, FALSE) IN
        IF policies < 1 /\ compact # <<>>
        THEN /\ talk' = compact \o Told(1)
             /\ stamp' = stamp + 1 /\ policies' = policies + 1 /\ UNCHANGED place
        ELSE place' = "done" /\ UNCHANGED <<talk, stamp, policies>>
  BY Zenon DEF PolicyRejected
<1>2. /\ PolicyTarget \in Nat /\ PolicyTarget <= Target /\ Limits.forced \in Nat
      /\ Soft \in Nat /\ Target \in Nat /\ Target < Soft
  BY LimitsAssumption
<1> DEFINE compact == Compaction(talk, size, PolicyTarget, Limits.forced, FALSE)
<1>3. /\ compact # <<>> => Tailed(compact)
      /\ compact # <<>> => Size(compact) + 1 <= Target
  BY <1>2, CompactionOf DEF TalkInv
<1>4. IF policies < 1 /\ compact # <<>>
        THEN /\ talk' = compact \o Told(1)
             /\ stamp' = stamp + 1 /\ policies' = policies + 1 /\ UNCHANGED place
        ELSE place' = "done" /\ UNCHANGED <<talk, stamp, policies>>
  BY <1>1
<1> HIDE DEF compact
<1>5. UNCHANGED <<wire, native, recoveries>>
  BY DEF PolicyRejected, Kept
<1>6. CASE policies < 1 /\ compact # <<>>
  <2>1. talk' = compact \o Told(1) /\ stamp' = stamp + 1 /\ Tailed(compact)
    BY <1>3, <1>4, <1>6
  <2>2. Told(1) \in Seq(Later) /\ Told(1) \in Seq(Msgs) /\ Size(Told(1)) = 1
    BY ToldOf, FreshIsLater, SeqMonotonic DEF TalkInv
  <2>3. Tailed(talk')
    BY <2>1, <2>2, TailedMore
  <2>4. Size(compact \o Told(1)) = Size(compact) + 1 /\ Size(compact) \in Nat
    BY <2>1, <2>2, TailedType, SizeConcat
  <2>5. Size(talk') < Soft
    BY <1>2, <1>3, <1>6, <2>1, <2>4
  <2>6. stamp' \in Nat /\ stamp' >= 2
    BY <2>1 DEF TalkInv
  <2> QED BY <1>5, <2>3, <2>5, <2>6 DEF TalkInv, SentBounded, Tailed
<1>7. CASE ~(policies < 1 /\ compact # <<>>)
  <2>1. place' = "done" /\ UNCHANGED <<talk, stamp, wire, native, recoveries>>
    BY <1>4, <1>5, <1>7
  <2> QED BY <2>1 DEF TalkInv, SentBounded, Tailed
<1> QED BY <1>6, <1>7

\* An answer and a result are later messages, fresh where nothing is quoted.
LEMMA AssistantOf ==
  ASSUME NEW n \in Nat, n > 2, NEW size \in Nat, NEW text \in BOOLEAN, NEW mark \in BOOLEAN, NEW calls \in Nat,
         native \in BOOLEAN
  PROVE  /\ Assistant(n, size, text, mark, calls) \in Msgs
         /\ Assistant(n, size, text, mark, calls) \in Later
         /\ Assistant(n, size, text, mark, calls).mark = mark
BY DEF Assistant, Message, Msgs, Later

\* So is the result of a call.
LEMMA ResultOf ==
  ASSUME NEW n \in Nat, n > 2, NEW size \in Nat, NEW mark \in BOOLEAN, NEW from \in Nat, NEW i \in Nat
  PROVE  Result(n, size, mark, from, i) \in Later /\ Result(n, size, mark, from, i).mark = mark
<1>1. CASE native
  BY <1>1 DEF Result, Message, Msgs, Later
<1>2. CASE ~native
  BY <1>2 DEF Result, Message, Msgs, Later
<1> QED BY <1>1, <1>2

\* An answer of any size leads to the top of the loop, not to a request.
LEMMA AnsweredBounded == ASSUME TalkInv, Answered PROVE TalkInv'
<1>1. PICK answer \in Answers, size \in AnswerSizes :
       LET turn == answer.turn
           n == stamp + 1
           run == IF turn.invalid > 0 THEN 0 ELSE turn.calls
       IN
       /\ \E marks \in SUBSET (0..run), sizes \in [1..run -> ResultSizes] :
            talk' = Append(talk, Assistant(n, size, turn.text \/ turn.invalid > 0, 0 \in marks, run))
                         \o IF run = 0 THEN <<Message(n + 1, "user", 1)>>
                            ELSE [i \in 1..run |-> Result(n + i, sizes[i], i \in marks, n, i)]
       /\ stamp' = n + IF run = 0 THEN 1 ELSE run
  BY Zenon DEF Answered
<1> DEFINE n == stamp + 1
           run == IF answer.turn.invalid > 0 THEN 0 ELSE answer.turn.calls
           text == answer.turn.text \/ answer.turn.invalid > 0
<1>2. Sound(answer)
  BY AnswersSound DEF TalkInv
<1>3. run \in Nat /\ text \in BOOLEAN /\ n \in Nat /\ n > 2
  BY <1>2 DEF Sound, TalkInv
<1>4. size \in Nat /\ ResultSizes \subseteq Nat
  BY LimitsAssumption
<1>5. PICK marks \in SUBSET (0..run), sizes \in [1..run -> ResultSizes] :
        talk' = Append(talk, Assistant(n, size, text, 0 \in marks, run))
                  \o IF run = 0 THEN <<Message(n + 1, "user", 1)>>
                     ELSE [i \in 1..run |-> Result(n + i, sizes[i], i \in marks, n, i)]
  BY <1>1, Zenon
<1>6. stamp' = n + IF run = 0 THEN 1 ELSE run
  BY <1>1
<1> HIDE DEF n, run, text
<1> DEFINE said == Assistant(n, size, text, 0 \in marks, run)
           results == IF run = 0 THEN <<Message(n + 1, "user", 1)>>
                      ELSE [i \in 1..run |-> Result(n + i, sizes[i], i \in marks, n, i)]
<1>7. said \in Later
  <2>1. (0 \in marks) \in BOOLEAN /\ native \in BOOLEAN
    BY DEF TalkInv
  <2> QED BY <1>3, <1>4, <2>1, AssistantOf
<1>8. results \in Seq(Later)
  <2>1. CASE run = 0
    <3>1. Message(n + 1, "user", 1) \in Later
      BY <1>3 DEF Message, Msgs, Later
    <3> QED BY <2>1, <3>1
  <2>2. CASE run # 0
    <3>1. \A i \in 1..run : Result(n + i, sizes[i], i \in marks, n, i) \in Later
      <4> SUFFICES ASSUME NEW i \in 1..run PROVE Result(n + i, sizes[i], i \in marks, n, i) \in Later
        OBVIOUS
      <4>1. n + i \in Nat /\ n + i > 2 /\ i \in Nat
        BY <1>3
      <4>2. sizes[i] \in Nat
        BY <1>4
      <4>3. (i \in marks) \in BOOLEAN
        OBVIOUS
      <4> QED BY <1>3, <4>1, <4>2, <4>3, ResultOf
    <3> QED BY <1>3, <2>2, <3>1
  <2> QED BY <2>1, <2>2
<1>9. talk' = Append(talk, said) \o results
  BY <1>5
<1> HIDE DEF said, results
<1>10. Tailed(talk \o <<said>>)
  <2>1. <<said>> \in Seq(Later)
    BY <1>7
  <2> QED BY <2>1, TailedMore DEF TalkInv
<1>11. Append(talk, said) = talk \o <<said>>
  BY <1>7, FreshIsLater, TailedType, AppendIsConcat DEF TalkInv
<1>12. Tailed(talk')
  BY <1>8, <1>9, <1>10, <1>11, TailedMore
<1>13. stamp' \in Nat /\ stamp' >= 2
  BY <1>3, <1>6
<1>14. UNCHANGED <<wire, native, recoveries>> /\ place' = "turn"
  BY DEF Answered, Kept
<1> QED BY <1>12, <1>13, <1>14 DEF TalkInv, SentBounded, Tailed

\* It holds of the opening.
LEMMA TalkBegins == ASSUME TalkInit PROVE TalkInv
<1>1. Tailed(talk)
  <2>1. Opening = Opening \o <<>> /\ <<>> \in Seq(Later)
    BY OpeningOf, ConcatEmptySeq, EmptySeq, Zenon
  <2> QED BY <2>1, Zenon DEF TalkInit, Tailed
<1> QED BY <1>1 DEF TalkInit, TalkInv, SentBounded

\* Every step keeps it.
LEMMA TalkKept == ASSUME TalkInv, [TalkNext]_talkVars PROVE TalkInv'
<1>1. CASE BeginTurn
  BY <1>1, BeginTurnBounded
<1>2. CASE ContextRejected
  BY <1>2, ContextRejectedBounded
<1>3. CASE PolicyRejected
  BY <1>3, PolicyRejectedBounded
<1>4. CASE Answered
  BY <1>4, AnsweredBounded
<1>5. CASE BatchCut \/ TalkEnds
  BY <1>5 DEF BatchCut, TalkEnds, Kept, TalkInv, SentBounded, Tailed
<1>6. CASE UNCHANGED talkVars
  BY <1>6 DEF talkVars, TalkInv, SentBounded, Tailed
<1> QED BY <1>1, <1>2, <1>3, <1>4, <1>5, <1>6 DEF TalkNext

\* The conversation is its opening and messages made since, and a request is under the
\* soft limit (engine.py _compact_context before each request and after each refusal).
THEOREM TalkInvariant == TalkSpec => []TalkInv
<1>1. TalkInit => TalkInv
  BY TalkBegins
<1>2. TalkInv /\ [TalkNext]_talkVars => TalkInv'
  BY TalkKept
<1> QED BY <1>1, <1>2, PTL DEF TalkSpec

\* No request reaches the soft limit, however large the outputs and the notices before
\* it, and whatever was retried (engine.py run and _complete_model_turn).
THEOREM SentTheorem == TalkSpec => []SentBounded
<1>1. TalkInv => SentBounded
  BY DEF TalkInv
<1> QED BY <1>1, TalkInvariant, PTL

---------------------------------------------------------------------------
(***************************************************************************)
(* Compaction retires the oldest messages, and never parts a reply from    *)
(* its results.                                                            *)
(***************************************************************************)

(* Every call with its result.                                             *)

\* A tool's result stands among the results of the message that called it,
\* they are all there and in their order, every answer is followed by
\* something that is none, and a user says something.
ToolsCalled(h) == \A k \in 1..Len(h) : h[k].role = "tool" => \E j \in 1..(k - 1) : k - j <= h[j].calls
CallsMet(h) ==
  \A j \in 1..Len(h) : h[j].calls > 0 =>
    /\ h[j].role = "assistant" /\ j + h[j].calls <= Len(h)
    /\ \A i \in 1..h[j].calls : h[j + i].role = "tool" /\ h[j + i].of = <<h[j].n, i>>
AnswersFollowed(h) == \A j \in 1..Len(h) : h[j].role = "assistant" => j < Len(h) /\ h[j + 1].role # "assistant"
UsersSpeak(h) == \A j \in 1..Len(h) : h[j].role = "user" => h[j].text
Formed(h) == ToolsCalled(h) /\ CallsMet(h) /\ AnswersFollowed(h) /\ UsersSpeak(h)

\* One after the other.
LEMMA Joined ==
  ASSUME NEW X, NEW s \in Seq(X), NEW t \in Seq(X)
  PROVE  /\ s \o t \in Seq(X) /\ Len(s) \in Nat /\ Len(t) \in Nat /\ Len(s \o t) = Len(s) + Len(t)
         /\ \A k \in 1..Len(s) : (s \o t)[k] = s[k]
         /\ \A k \in 1..Len(t) : (s \o t)[Len(s) + k] = t[k]
         /\ \A k \in 1..(Len(s) + Len(t)) : k <= Len(s) \/ (k - Len(s) \in 1..Len(t) /\ k = Len(s) + (k - Len(s)))
<1> DEFINE a == Len(s)
           b == Len(t)
<1>1. a \in Nat /\ b \in Nat
  OBVIOUS
<1>2. /\ s \o t \in Seq(X) /\ Len(s \o t) = a + b
      /\ \A i \in 1..a + b : (s \o t)[i] = IF i <= a THEN s[i] ELSE t[i - a]
  BY ConcatProperties
<1> HIDE DEF a, b
<1>3. \A k \in 1..a : (s \o t)[k] = s[k]
  BY <1>1, <1>2
<1>4. \A k \in 1..b : (s \o t)[a + k] = t[k]
  <2> SUFFICES ASSUME NEW k \in 1..b PROVE (s \o t)[a + k] = t[k]
    OBVIOUS
  <2>1. a + k \in 1..a + b /\ ~(a + k <= a) /\ (a + k) - a = k
    BY <1>1
  <2> QED BY <1>2, <2>1
<1>5. \A k \in 1..(a + b) : k <= a \/ (k - a \in 1..b /\ k = a + (k - a))
  BY <1>1
<1> QED BY <1>1, <1>2, <1>3, <1>4, <1>5 DEF a, b

\* Two well formed parts are one.
LEMMA FormedJoined ==
  ASSUME NEW s \in Seq(Msgs), NEW t \in Seq(Msgs), Formed(s), Formed(t)
  PROVE  Formed(s \o t)
<1> DEFINE u == s \o t
           a == Len(s)
           b == Len(t)
<1>1. /\ u \in Seq(Msgs) /\ a \in Nat /\ b \in Nat /\ Len(u) = a + b
      /\ \A k \in 1..a : u[k] = s[k]
      /\ \A k \in 1..b : u[a + k] = t[k]
      /\ \A k \in 1..(a + b) : k <= a \/ (k - a \in 1..b /\ k = a + (k - a))
  BY Joined, Zenon
<1> HIDE DEF u, a, b
<1>0. /\ \A k \in 1..a : s[k] \in Msgs /\ s[k].calls \in Nat
      /\ \A k \in 1..b : t[k] \in Msgs /\ t[k].calls \in Nat
  BY MsgsOf DEF a, b
<1>2. ToolsCalled(u)
  <2> SUFFICES ASSUME NEW k \in 1..(a + b), u[k].role = "tool"
               PROVE  \E j \in 1..(k - 1) : k - j <= u[j].calls
    BY <1>1 DEF ToolsCalled
  <2>1. CASE k <= a
    <3>1. k \in 1..a /\ s[k].role = "tool"
      BY <1>1, <2>1
    <3>2. PICK j \in 1..(k - 1) : k - j <= s[j].calls
      BY <3>1 DEF Formed, ToolsCalled, a
    <3>3. j \in 1..a
      BY <3>1, <1>1
    <3> QED BY <1>1, <3>2, <3>3
  <2>2. CASE k - a \in 1..b /\ k = a + (k - a)
    <3> DEFINE l == k - a
    <3>1. l \in 1..b /\ t[l].role = "tool" /\ k = a + l
      BY <1>1, <2>2
    <3> HIDE DEF l
    <3>2. PICK j \in 1..(l - 1) : l - j <= t[j].calls
      BY <3>1 DEF Formed, ToolsCalled, b
    <3>3. j \in 1..b /\ a + j \in 1..(k - 1) /\ k - (a + j) = l - j
      BY <3>1, <1>1
    <3> QED BY <1>1, <3>2, <3>3
  <2> QED BY <1>1, <2>1, <2>2
<1>3. CallsMet(u)
  <2> SUFFICES ASSUME NEW j \in 1..(a + b), u[j].calls > 0
               PROVE  /\ u[j].role = "assistant" /\ j + u[j].calls <= a + b
                      /\ \A i \in 1..u[j].calls : u[j + i].role = "tool" /\ u[j + i].of = <<u[j].n, i>>
    BY <1>1 DEF CallsMet
  <2>1. CASE j <= a
    <3>1. j \in 1..a /\ u[j] = s[j] /\ s[j].calls \in Nat
      BY <1>0, <1>1, <2>1
    <3>2. /\ s[j].role = "assistant" /\ j + s[j].calls <= a
          /\ \A i \in 1..s[j].calls : s[j + i].role = "tool" /\ s[j + i].of = <<s[j].n, i>>
      BY <3>1 DEF Formed, CallsMet, a
    <3>3. \A i \in 1..s[j].calls : j + i \in 1..a
      BY <1>1, <3>1, <3>2
    <3>4. \A i \in 1..s[j].calls : u[j + i].role = "tool" /\ u[j + i].of = <<u[j].n, i>>
      BY <1>1, <3>1, <3>2, <3>3
    <3>5. j + s[j].calls <= a + b
      BY <1>1, <3>1, <3>2
    <3> QED BY <3>1, <3>2, <3>4, <3>5
  <2>2. CASE j - a \in 1..b /\ j = a + (j - a)
    <3> DEFINE l == j - a
    <3>1. l \in 1..b /\ u[j] = t[l] /\ j = a + l /\ t[l].calls \in Nat
      BY <1>0, <1>1, <2>2
    <3> HIDE DEF l
    <3>2. /\ t[l].role = "assistant" /\ l + t[l].calls <= b
          /\ \A i \in 1..t[l].calls : t[l + i].role = "tool" /\ t[l + i].of = <<t[l].n, i>>
      BY <3>1 DEF Formed, CallsMet, b
    <3> DEFINE calls == t[l].calls
    <3>6. calls \in Nat /\ l + calls <= b /\ l \in Nat /\ j = a + l /\ l > 0
      BY <1>1, <3>1, <3>2
    <3> HIDE DEF calls
    <3>7. \A i \in 1..calls : l + i \in 1..b /\ j + i = a + (l + i)
      BY <1>1, <3>6
    <3>3. \A i \in 1..t[l].calls : l + i \in 1..b /\ j + i = a + (l + i)
      BY <3>7 DEF calls
    <3>4. \A i \in 1..t[l].calls : u[j + i].role = "tool" /\ u[j + i].of = <<u[j].n, i>>
      BY <1>1, <3>1, <3>2, <3>3
    <3>5. j + t[l].calls <= a + b
      BY <1>1, <3>1, <3>2
    <3> QED BY <3>1, <3>2, <3>4, <3>5
  <2> QED BY <1>1, <2>1, <2>2
<1>4. AnswersFollowed(u)
  <2> SUFFICES ASSUME NEW j \in 1..(a + b), u[j].role = "assistant"
               PROVE  j < a + b /\ u[j + 1].role # "assistant"
    BY <1>1 DEF AnswersFollowed
  <2>1. CASE j <= a
    <3>1. j \in 1..a /\ s[j].role = "assistant"
      BY <1>1, <2>1
    <3>2. j < a /\ s[j + 1].role # "assistant"
      BY <3>1 DEF Formed, AnswersFollowed, a
    <3>3. j + 1 \in 1..a /\ j < a + b
      BY <1>1, <3>1, <3>2
    <3> QED BY <1>1, <3>2, <3>3
  <2>2. CASE j - a \in 1..b /\ j = a + (j - a)
    <3> DEFINE l == j - a
    <3>1. l \in 1..b /\ t[l].role = "assistant" /\ j = a + l
      BY <1>1, <2>2
    <3> HIDE DEF l
    <3>2. l < b /\ t[l + 1].role # "assistant"
      BY <3>1 DEF Formed, AnswersFollowed, b
    <3>3. l + 1 \in 1..b /\ j + 1 = a + (l + 1) /\ j < a + b
      BY <1>1, <3>1, <3>2
    <3> QED BY <1>1, <3>2, <3>3
  <2> QED BY <1>1, <2>1, <2>2
<1>5. UsersSpeak(u)
  <2> SUFFICES ASSUME NEW j \in 1..(a + b), u[j].role = "user" PROVE u[j].text
    BY <1>1 DEF UsersSpeak
  <2>1. CASE j <= a
    BY <1>1, <2>1 DEF Formed, UsersSpeak, a
  <2>2. CASE j - a \in 1..b /\ j = a + (j - a)
    BY <1>1, <2>2 DEF Formed, UsersSpeak, b
  <2> QED BY <1>1, <2>1, <2>2
<1> QED BY <1>2, <1>3, <1>4, <1>5 DEF Formed, u

\* What begins a block and runs to the end is as well formed as the whole.
LEMMA FormedEnd ==
  ASSUME NEW h \in Seq(Msgs), Formed(h), NEW s, NEW i, EndOf(s, h, i), i <= Len(h) => OpensBlock(h, i)
  PROVE  Formed(s)
<1> DEFINE b == Len(s)
           c == Len(h)
           p(k) == i + k - 1
<1>1. /\ s \in Seq(Msgs) /\ b \in Nat /\ c \in Nat /\ i \in 1..(c + 1) /\ b = c - i + 1
      /\ \A k \in 1..b : Alike(s[k], h[p(k)])
  BY DEF EndOf
<1> HIDE DEF b, c
<1>0. \A k \in 1..c : h[k] \in Msgs /\ h[k].calls \in Nat
  BY MsgsOf DEF c
<1>2. \A k \in 1..b : /\ p(k) \in 1..c
                      /\ s[k].role = h[p(k)].role /\ s[k].text = h[p(k)].text /\ s[k].calls = h[p(k)].calls
                      /\ s[k].n = h[p(k)].n /\ s[k].of = h[p(k)].of
  BY <1>1 DEF Alike
<1>3. ToolsCalled(s)
  <2> SUFFICES ASSUME NEW k \in 1..b, s[k].role = "tool" PROVE \E j \in 1..(k - 1) : k - j <= s[j].calls
    BY DEF ToolsCalled, b
  <2> DEFINE q == p(k)
  <2>1. q \in 1..c /\ h[q].role = "tool" /\ q = i + k - 1
    BY <1>2
  <2> HIDE DEF q
  <2>2. PICK j \in 1..(q - 1) : q - j <= h[j].calls
    BY <2>1 DEF Formed, ToolsCalled, c
  <2>6. j \in 1..c
    BY <1>1, <2>1
  <2>3. h[j].calls \in Nat /\ j < q
    BY <1>0, <2>1, <2>6
  <2> DEFINE calls == h[j].calls
  <2>7. calls \in Nat /\ calls > 0 /\ q - j <= calls
    BY <1>1, <2>1, <2>2, <2>3
  <2>4. CASE j < i
    <3>1. /\ h[j].role = "assistant" /\ j + h[j].calls <= c
          /\ \A m \in 1..h[j].calls : h[j + m].role = "tool" /\ h[j + m].of = <<h[j].n, m>>
      BY <2>6, <2>7 DEF Formed, CallsMet, c
    <3> HIDE DEF calls
    <3>6. \A l \in (j + 1)..i : l - j \in 1..calls /\ l = j + (l - j)
      BY <1>1, <2>1, <2>6, <2>7, <2>4
    <3>2. \A l \in (j + 1)..i : l - j \in 1..h[j].calls /\ l = j + (l - j)
      BY <3>6 DEF calls
    <3>3. \A l \in (j + 1)..i : h[l].role = "tool" /\ h[l].of \in CallsOf(h[j])
      <4> SUFFICES ASSUME NEW l \in (j + 1)..i PROVE h[l].role = "tool" /\ h[l].of \in CallsOf(h[j])
        OBVIOUS
      <4>1. h[l].role = "tool" /\ h[l].of = <<h[j].n, l - j>> /\ l - j \in 1..h[j].calls
        BY <3>1, <3>2
      <4> QED BY <4>1 DEF CallsOf
    <3>4. j \in 1..(i - 1) /\ i <= c
      <4>1. b \in Nat /\ c \in Nat /\ i \in 1..(c + 1) /\ b = c - i + 1
        BY <1>1
      <4> QED BY <4>1, <2>6, <2>4
    <3>5. OpensBlock(h, i)
      BY <3>4 DEF c
    <3> QED BY <3>3, <3>4, <3>5 DEF OpensBlock
  <2>5. CASE j >= i
    <3> DEFINE l == j - i + 1
    <3>1. l \in 1..(k - 1) /\ l \in 1..b /\ p(l) = j /\ k - l = q - j
      BY <1>1, <2>1, <2>3, <2>5, <2>6
    <3>2. s[l].calls = h[j].calls
      BY <1>2, <3>1
    <3> QED BY <2>2, <3>1, <3>2
  <2> QED BY <1>1, <2>6, <2>4, <2>5
<1>4. CallsMet(s)
  <2> SUFFICES ASSUME NEW j \in 1..b, s[j].calls > 0
               PROVE  /\ s[j].role = "assistant" /\ j + s[j].calls <= b
                      /\ \A m \in 1..s[j].calls : s[j + m].role = "tool" /\ s[j + m].of = <<s[j].n, m>>
    BY DEF CallsMet, b
  <2> DEFINE l == p(j)
  <2>1. l \in 1..c /\ h[l].calls > 0 /\ s[j].calls = h[l].calls /\ s[j].n = h[l].n /\ s[j].role = h[l].role /\ h[l].calls \in Nat
    BY <1>0, <1>2
  <2>2. /\ h[l].role = "assistant" /\ l + h[l].calls <= c
        /\ \A m \in 1..h[l].calls : h[l + m].role = "tool" /\ h[l + m].of = <<h[l].n, m>>
    BY <2>1 DEF Formed, CallsMet, c
  <2>3. \A m \in 1..h[l].calls : j + m \in 1..b /\ p(j + m) = l + m
    BY <1>1, <2>1, <2>2
  <2>4. j + h[l].calls <= b
    BY <1>1, <2>1, <2>2
  <2> HIDE DEF l
  <2>5. \A m \in 1..h[l].calls : s[j + m].role = h[l + m].role /\ s[j + m].of = h[l + m].of
    BY <1>2, <2>3
  <2> QED BY <2>1, <2>2, <2>4, <2>5
<1>5. AnswersFollowed(s)
  <2> SUFFICES ASSUME NEW j \in 1..b, s[j].role = "assistant" PROVE j < b /\ s[j + 1].role # "assistant"
    BY DEF AnswersFollowed, b
  <2> DEFINE l == p(j)
  <2>1. l \in 1..c /\ h[l].role = "assistant"
    BY <1>2
  <2>2. l < c /\ h[l + 1].role # "assistant"
    BY <2>1 DEF Formed, AnswersFollowed, c
  <2>3. j + 1 \in 1..b /\ p(j + 1) = l + 1 /\ j < b
    BY <1>1, <2>1, <2>2
  <2> QED BY <1>2, <2>2, <2>3
<1>6. UsersSpeak(s)
  BY <1>2 DEF UsersSpeak, Formed, b, c
<1> QED BY <1>3, <1>4, <1>5, <1>6 DEF Formed

\* The messages are numbered as they come.
Numbered(h, above, top) ==
  /\ \A k \in 1..Len(h) : h[k].n > above /\ h[k].n <= top
  /\ \A j, k \in 1..Len(h) : j < k => h[j].n < h[k].n

\* Two parts numbered one after the other are numbered as one.
LEMMA NumberedJoined ==
  ASSUME NEW s \in Seq(Msgs), NEW t \in Seq(Msgs), NEW a \in Nat, NEW b \in Nat, NEW c \in Nat,
         a <= b, b <= c, Numbered(s, a, b), Numbered(t, b, c)
  PROVE  Numbered(s \o t, a, c)
<1> DEFINE u == s \o t
           p == Len(s)
           q == Len(t)
<1>1. /\ u \in Seq(Msgs) /\ p \in Nat /\ q \in Nat /\ Len(u) = p + q
      /\ \A k \in 1..p : u[k] = s[k]
      /\ \A k \in 1..q : u[p + k] = t[k]
      /\ \A k \in 1..(p + q) : k <= p \/ (k - p \in 1..q /\ k = p + (k - p))
  BY Joined, Zenon
<1> HIDE DEF u, p, q
<1>2. /\ \A k \in 1..p : s[k].n \in Nat /\ s[k].n > a /\ s[k].n <= b
      /\ \A j, k \in 1..p : j < k => s[j].n < s[k].n
      /\ \A k \in 1..q : t[k].n \in Nat /\ t[k].n > b /\ t[k].n <= c
      /\ \A j, k \in 1..q : j < k => t[j].n < t[k].n
  BY MsgsOf DEF Numbered, p, q
<1>3. ASSUME NEW k \in 1..(p + q) PROVE u[k].n > a /\ u[k].n <= c
  <2>1. CASE k <= p
    <3>1. k \in 1..p /\ u[k] = s[k]
      BY <1>1, <2>1
    <3> QED BY <1>2, <3>1
  <2>2. CASE ~(k <= p)
    <3>1. k - p \in 1..q /\ u[k] = t[k - p]
      BY <1>1, <2>2
    <3> QED BY <1>2, <3>1
  <2> QED BY <2>1, <2>2
<1>4. ASSUME NEW j \in 1..(p + q), NEW k \in 1..(p + q), j < k PROVE u[j].n < u[k].n
  <2>1. CASE k <= p
    <3>1. j \in 1..p /\ k \in 1..p
      BY <1>1, <1>4, <2>1
    <3> QED BY <1>1, <1>2, <1>4, <3>1
  <2>2. CASE j <= p /\ ~(k <= p)
    <3>1. j \in 1..p /\ k - p \in 1..q /\ u[j] = s[j] /\ u[k] = t[k - p]
      BY <1>1, <2>2
    <3> QED BY <1>2, <3>1
  <2>3. CASE ~(j <= p)
    <3>1. j - p \in 1..q /\ k - p \in 1..q /\ j - p < k - p /\ u[j] = t[j - p] /\ u[k] = t[k - p]
      BY <1>1, <1>4, <2>3
    <3> QED BY <1>2, <3>1
  <2> QED BY <2>1, <2>2, <2>3
<1> QED BY <1>1, <1>3, <1>4 DEF Numbered, u

\* An end of a numbered part is numbered.
LEMMA NumberedEnd ==
  ASSUME NEW h \in Seq(Msgs), NEW s, NEW i, EndOf(s, h, i), NEW a, NEW b, Numbered(h, a, b)
  PROVE  Numbered(s, a, b)
<1>1. /\ Len(s) \in Nat /\ Len(h) \in Nat /\ i \in 1..(Len(h) + 1) /\ Len(s) = Len(h) - i + 1
      /\ \A k \in 1..Len(s) : s[k].n = h[i + k - 1].n
  BY DEF EndOf, Alike
<1>2. \A k \in 1..Len(s) : i + k - 1 \in 1..Len(h)
  <2>1. Len(s) \in Nat /\ Len(h) \in Nat /\ i \in 1..(Len(h) + 1) /\ Len(s) = Len(h) - i + 1
    BY <1>1
  <2> QED BY <2>1
<1>3. \A j, k \in 1..Len(s) : j < k => i + j - 1 < i + k - 1
  BY <1>1
<1> QED BY <1>1, <1>2, <1>3 DEF Numbered

---------------------------------------------------------------------------
(* What a conversation is made of, until a quote is taken for a checkpoint.*)

Checkpoints == {<<>>} \cup {<<Checkpoint(size)>> : size \in Nat}

\* The opening, at most one checkpoint, and a history made since.
Shaped(ms, top, cp, h) ==
  /\ cp \in Checkpoints /\ h \in Seq(Made) /\ ms = (Opening \o cp) \o h
  /\ Formed(h) /\ Numbered(h, 2, top)

\* What the second history has of the first is an end of it.
Kin(h, g) ==
  \A a, b \in 1..Len(h) :
    (a < b /\ \E k \in 1..Len(g) : g[k].n = h[a].n) => \E k \in 1..Len(g) : g[k].n = h[b].n

\* One checkpoint at most.
LEMMA CheckpointsOf ==
  ASSUME NEW cp \in Checkpoints
  PROVE  /\ cp \in Seq(Msgs) /\ cp \in Seq(Later) /\ Len(cp) \in 0..1
         /\ \A k \in 1..Len(cp) : cp[k].mark /\ cp[k].n = 0 /\ cp[k].role = "user"
<1>1. CASE cp = <<>>
  BY <1>1, EmptySeq
<1>2. CASE cp # <<>>
  <2>1. PICK size \in Nat : cp = <<Checkpoint(size)>>
    BY <1>2 DEF Checkpoints
  <2> DEFINE c == Checkpoint(size)
  <2>2. c \in Msgs /\ c \in Later /\ c.mark /\ c.n = 0 /\ c.role = "user"
    BY CheckpointOf DEF Later
  <2> HIDE DEF c
  <2>3. cp = <<c>>
    BY <2>1 DEF c
  <2> QED BY <2>2, <2>3
<1> QED BY <1>1, <1>2

\* The parts of a conversation, by position.
LEMMA ShapedOf ==
  ASSUME NEW ms, NEW top, NEW cp, NEW h, Shaped(ms, top, cp, h)
  PROVE  /\ cp \in Seq(Msgs) /\ h \in Seq(Msgs) /\ ms \in Seq(Msgs)
         /\ Len(cp) \in 0..1 /\ Len(h) \in Nat /\ Len(ms) = 2 + Len(cp) + Len(h)
         /\ \A k \in 1..2 : ms[k] = Opening[k]
         /\ \A k \in 1..Len(cp) : ms[2 + k] = cp[k] /\ cp[k].mark /\ cp[k].n = 0
         /\ \A k \in 1..Len(h) : /\ ms[2 + Len(cp) + k] = h[k]
                                 /\ h[k].n > 2 /\ h[k].n <= top /\ h[k].n \in Nat
<1> DEFINE o == Opening
           oc == o \o cp
<1>1. h \in Seq(Msgs) /\ cp \in Seq(Msgs) /\ o \in Seq(Msgs) /\ Len(o) = 2 /\ Len(cp) \in 0..1 /\ Len(h) \in Nat
  BY MadeIsLater, SeqMonotonic, CheckpointsOf, OpeningOf DEF Shaped
<1> HIDE DEF o
<1>2. /\ oc \in Seq(Msgs) /\ Len(oc) = Len(o) + Len(cp)
      /\ \A k \in 1..Len(o) : oc[k] = o[k]
      /\ \A k \in 1..Len(cp) : oc[Len(o) + k] = cp[k]
  <2>1. o \in Seq(Msgs) /\ cp \in Seq(Msgs)
    BY <1>1
  <2> QED BY <2>1, Joined
<1> HIDE DEF oc
<1>3. ms = oc \o h
  BY DEF Shaped, oc, o
<1>4. /\ ms \in Seq(Msgs) /\ Len(ms) = Len(oc) + Len(h)
      /\ \A k \in 1..Len(oc) : ms[k] = oc[k]
      /\ \A k \in 1..Len(h) : ms[Len(oc) + k] = h[k]
  <2>1. h \in Seq(Msgs) /\ oc \in Seq(Msgs)
    BY <1>1, <1>2
  <2> QED BY <1>3, <2>1, Joined
<1>5. Len(oc) = 2 + Len(cp) /\ Len(ms) = 2 + Len(cp) + Len(h)
  BY <1>1, <1>2, <1>4
<1>6. \A k \in 1..2 : ms[k] = o[k]
  BY <1>1, <1>2, <1>4, <1>5
<1>7. \A k \in 1..Len(cp) : ms[2 + k] = cp[k] /\ cp[k].mark /\ cp[k].n = 0
  <2> SUFFICES ASSUME NEW k \in 1..Len(cp) PROVE ms[2 + k] = cp[k] /\ cp[k].mark /\ cp[k].n = 0
    OBVIOUS
  <2>1. 2 + k \in 1..Len(oc)
    BY <1>1, <1>5
  <2>2. cp[k].mark /\ cp[k].n = 0
    BY CheckpointsOf DEF Shaped
  <2> QED BY <1>1, <1>2, <1>4, <2>1, <2>2
<1>8. ASSUME NEW k \in 1..Len(h)
      PROVE  /\ ms[2 + Len(cp) + k] = h[k]
             /\ h[k].n > 2 /\ h[k].n <= top /\ h[k].n \in Nat
  <2>1. h[k] \in Made /\ h[k].n <= top
    BY DEF Shaped, Numbered
  <2>2. h[k].n > 2 /\ h[k].n \in Nat
    BY <2>1, MsgsOf DEF Made
  <2> QED BY <1>4, <1>5, <2>1, <2>2
<1> QED BY <1>1, <1>4, <1>5, <1>6, <1>7, <1>8 DEF o

\* A conversation gone on with keeps its shape.
LEMMA ShapedMore ==
  ASSUME NEW ms, NEW top \in Nat, top >= 2, NEW cp, NEW h, Shaped(ms, top, cp, h),
         NEW up \in Nat, top <= up, NEW t \in Seq(Made), Formed(t), Numbered(t, top, up)
  PROVE  Shaped(ms \o t, up, cp, h \o t)
<1> DEFINE oc == Opening \o cp
<1>1. h \in Seq(Msgs) /\ t \in Seq(Msgs) /\ oc \in Seq(Msgs)
  <2>1. cp \in Seq(Msgs) /\ Opening \in Seq(Msgs)
    BY CheckpointsOf, OpeningOf DEF Shaped
  <2> QED BY <2>1, MadeIsLater, SeqMonotonic, ConcatProperties DEF Shaped
<1> HIDE DEF oc
<1>2. h \o t \in Seq(Made)
  BY Joined DEF Shaped
<1>3. ms \o t = oc \o (h \o t)
  <2>1. ms = oc \o h
    BY DEF Shaped, oc
  <2> QED BY <1>1, <2>1, ConcatAssociative
<1>4. Formed(h \o t)
  BY <1>1, FormedJoined DEF Shaped
<1>5. Numbered(h \o t, 2, up)
  BY <1>1, NumberedJoined DEF Shaped
<1> QED BY <1>2, <1>3, <1>4, <1>5 DEF Shaped, oc

\* What a compaction leaves is an end of the history, where it drops no quote or keeps
\* nothing recent.
LEMMA CompactionShaped ==
  ASSUME NEW ms, NEW top, NEW cp, NEW h, Shaped(ms, top, cp, h),
         NEW target \in Nat, NEW size \in CheckpointSizes(target), NEW limit \in Nat, NEW retain \in BOOLEAN,
         Compaction(ms, size, target, limit, retain) # <<>>, retain => ~Quoted(ms)
  PROVE  \E c, s, i : /\ Shaped(Compaction(ms, size, target, limit, retain), top, c, s)
                      /\ EndOf(s, h, i) /\ (~retain => s = <<>>)
<1> DEFINE o == Opening
           tail == cp \o h
           U == {m \in ToSet(o \o tail) : ~m.mark}
           new == Compacted(ms, size, target, limit, retain)
           compact == Compaction(ms, size, target, limit, retain)
           removed == Len(ms) > Len(new) - 1
<1>1. /\ cp \in Seq(Later) /\ h \in Seq(Later) /\ h \in Seq(Msgs) /\ cp \in Seq(Msgs) /\ o \in Seq(Msgs)
      /\ Len(cp) \in 0..1
      /\ \A k \in 1..Len(cp) : cp[k].mark
  BY CheckpointsOf, OpeningOf, MadeIsLater, SeqMonotonic DEF Shaped
<1>2. tail \in Seq(Later) /\ tail \in Seq(Msgs)
  BY <1>1, Joined
<1>3. ms = o \o tail
  <2>1. ms = (o \o cp) \o h
    BY DEF Shaped
  <2>2. o \in Seq(Msgs) /\ cp \in Seq(Msgs) /\ h \in Seq(Msgs)
    BY <1>1
  <2> HIDE DEF o
  <2>3. (o \o cp) \o h = o \o (cp \o h)
    BY <2>2, ConcatAssociative
  <2> QED BY <2>1, <2>3
<1>4. size \in Nat
  BY DEF CheckpointSizes
<1>5. compact = new
  <2>1. compact = IF Size(new) < Size(ms) \/ (~retain /\ removed) THEN new ELSE <<>>
    BY Zenon DEF Compaction
  <2> HIDE DEF new, removed
  <2> QED BY <2>1
<1>6. Leaves(new, Among(tail, U), size, target, retain)
  BY <1>2, <1>3, <1>4, CompactedOf, Zenon
<1>7. ASSUME retain PROVE Among(tail, U) = h
  <2>0. \A k \in 1..Len(h) : h[k] \in U
    <3> SUFFICES ASSUME NEW k \in 1..Len(h) PROVE h[k] \in U
      OBVIOUS
    <3>0. ms[2 + Len(cp) + k] = h[k] /\ h[k].n > 2 /\ Len(ms) = 2 + Len(cp) + Len(h) /\ ms \in Seq(Msgs) /\ Len(h) \in Nat
      BY ShapedOf
    <3>2. 2 + Len(cp) + k \in DOMAIN ms
      BY <3>0, <1>1
    <3>1. ms[2 + Len(cp) + k] = h[k] /\ ~h[k].mark
      BY <1>7, <3>0, <3>2 DEF Quoted
    <3>3. h[k] \in ToSet(ms)
      BY <3>1, <3>2 DEF ToSet
    <3> HIDE DEF tail, o
    <3> QED BY <1>3, <3>1, <3>3
  <2>1. \A k \in 1..Len(cp) : cp[k] \notin U
    BY <1>1
  <2> HIDE DEF U
  <2>2. Among(tail, U) = Among(cp, U) \o Among(h, U)
    BY <1>1, AmongConcat
  <2>3. Among(cp, U) = <<>>
    BY <1>1, <2>1, AmongNone
  <2>4. Among(h, U) = h
    BY <1>1, <2>0, AmongAll
  <2> QED BY <1>1, <2>2, <2>3, <2>4, ConcatEmptySeq
<1> HIDE DEF new, compact, U, tail
<1>10. \E s \in Seq(Msgs), i \in 1..(Len(h) + 1) :
        /\ EndOf(s, h, i)
        /\ i <= Len(h) => OpensBlock(h, i)
        /\ new = (Opening \o <<Checkpoint(size)>>) \o s
        /\ ~retain => s = <<>>
  <2>1. CASE retain
    BY <1>6, <1>7, <2>1, Zenon DEF Leaves
  <2>2. CASE ~retain
    <3> DEFINE e == <<>>
    <3>1. new = (Opening \o <<Checkpoint(size)>>) \o e
      BY <1>6, <2>2, Zenon DEF Leaves
    <3>2. e = <<>> /\ e \in Seq(Msgs) /\ Len(e) = 0
      BY EmptySeq
    <3>3. EndOf(e, h, Len(h) + 1) /\ Len(h) \in Nat /\ Len(h) + 1 \in 1..(Len(h) + 1) /\ ~(Len(h) + 1 <= Len(h))
      BY <1>1, <3>2 DEF EndOf
    <3> HIDE DEF e
    <3> QED BY <3>1, <3>2, <3>3
  <2> QED BY <2>1, <2>2
<1>8. PICK s \in Seq(Msgs), i \in 1..(Len(h) + 1) :
        /\ EndOf(s, h, i)
        /\ i <= Len(h) => OpensBlock(h, i)
        /\ new = (Opening \o <<Checkpoint(size)>>) \o s
        /\ ~retain => s = <<>>
  BY <1>10
<1>9. Shaped(new, top, <<Checkpoint(size)>>, s)
  <2>1. s \in Seq(Made)
    BY <1>8, EndsMade DEF Shaped
  <2>2. Formed(s)
    BY <1>1, <1>8, FormedEnd DEF Shaped
  <2>3. Numbered(s, 2, top)
    BY <1>1, <1>8, NumberedEnd DEF Shaped
  <2>4. <<Checkpoint(size)>> \in Checkpoints
    BY <1>4 DEF Checkpoints
  <2> QED BY <1>8, <2>1, <2>2, <2>3, <2>4 DEF Shaped
<1> QED BY <1>5, <1>8, <1>9 DEF compact

\* What follows an end of the history keeps no message older than one it dropped.
LEMMA KeepsEnd ==
  ASSUME NEW h \in Seq(Msgs), NEW u \in Seq(Msgs), NEW top \in Nat, NEW low, Numbered(h \o u, low, top),
         NEW s, NEW i, EndOf(s, h \o u, i), NEW t \in Seq(Msgs), NEW up, Numbered(t, top, up)
  PROVE  Kin(h, s \o t)
<1> DEFINE g == h \o u
           v == s \o t
           p == Len(h)
           q == Len(s)
           r == Len(t)
<1>1. /\ g \in Seq(Msgs) /\ p \in Nat /\ p <= Len(g) /\ Len(g) \in Nat
      /\ \A k \in 1..p : g[k] = h[k]
  <2>1. Len(u) \in Nat /\ Len(g) = Len(h) + Len(u) /\ g \in Seq(Msgs) /\ Len(h) \in Nat /\ \A k \in 1..Len(h) : g[k] = h[k]
    BY Joined, Zenon
  <2> QED BY <2>1
<1> HIDE DEF g
<1>2. /\ s \in Seq(Msgs) /\ i \in 1..(Len(g) + 1) /\ q = Len(g) - i + 1
      /\ \A k \in 1..q : s[k].n = g[i + k - 1].n
  BY DEF EndOf, Alike, g
<1>3. /\ v \in Seq(Msgs) /\ q \in Nat /\ r \in Nat /\ Len(v) = q + r
      /\ \A k \in 1..q : v[k] = s[k]
      /\ \A k \in 1..r : v[q + k] = t[k]
      /\ \A k \in 1..(q + r) : k <= q \/ (k - q \in 1..r /\ k = q + (k - q))
  BY <1>2, Joined, Zenon
<1>4. /\ \A k \in 1..r : t[k].n > top /\ t[k].n \in Nat
      /\ \A k \in 1..Len(g) : g[k].n <= top /\ g[k].n \in Nat
      /\ \A j, k \in 1..Len(g) : j < k => g[j].n < g[k].n
  BY <1>1, MsgsOf DEF Numbered, g
<1> HIDE DEF v, p, q, r
<1>5. SUFFICES ASSUME NEW a \in 1..p, NEW b \in 1..p, a < b, NEW k \in 1..(q + r), v[k].n = h[a].n
               PROVE  \E l \in 1..(q + r) : v[l].n = h[b].n
  BY <1>3 DEF Kin, p, v
<1>6. a \in 1..Len(g) /\ b \in 1..Len(g) /\ g[a] = h[a] /\ g[b] = h[b]
  BY <1>1
<1>7. k <= q
  <2>1. SUFFICES ASSUME k - q \in 1..r, k = q + (k - q) PROVE FALSE
    BY <1>3
  <2>2. v[k].n > top /\ v[k].n \in Nat
    BY <1>3, <1>4, <2>1
  <2>3. h[a].n <= top /\ h[a].n \in Nat
    BY <1>4, <1>6
  <2> QED BY <1>5, <2>2, <2>3
<1>8. q \in Nat /\ i \in 1..(Len(g) + 1) /\ q = Len(g) - i + 1 /\ Len(g) \in Nat
  BY <1>1, <1>2, <1>3
<1>9. k \in 1..q /\ i + k - 1 \in 1..Len(g)
  BY <1>5, <1>7, <1>8
<1>10. g[i + k - 1].n = g[a].n
  BY <1>2, <1>3, <1>5, <1>6, <1>9
<1>11. i + k - 1 = a
  <2> DEFINE c == i + k - 1
  <2>1. c \in 1..Len(g) /\ g[c].n = g[a].n /\ g[a].n \in Nat
    BY <1>4, <1>6, <1>9, <1>10
  <2> HIDE DEF c
  <2>2. ~(c < a) /\ ~(a < c)
    <3>1. \A j, l \in 1..Len(g) : j < l => g[j].n < g[l].n
      BY <1>4
    <3>2. c < a => g[c].n < g[a].n
      BY <1>6, <2>1, <3>1
    <3>3. a < c => g[a].n < g[c].n
      BY <1>6, <2>1, <3>1
    <3> QED BY <2>1, <3>2, <3>3
  <2>3. c = a
    BY <1>6, <1>8, <2>1, <2>2
  <2> QED BY <2>3 DEF c
<1> DEFINE l == b - i + 1
<1>12. l \in 1..q /\ i + l - 1 = b /\ l \in 1..(q + r)
  BY <1>3, <1>5, <1>6, <1>8, <1>9, <1>11
<1> HIDE DEF l
<1>13. v[l].n = h[b].n
  BY <1>2, <1>3, <1>6, <1>12
<1> QED BY <1>12, <1>13

---------------------------------------------------------------------------
(* The oldest is retired.                                                  *)

Retired(old, new) ==
  LET kept == {new[i].n : i \in DOMAIN new}
      checkpoints == {i \in DOMAIN new : new[i].mark /\ new[i].n = 0}
  IN  /\ SubSeq(new, 1, 2) = Opening
      /\ checkpoints \subseteq {3}
      /\ \A i \in DOMAIN old : \A j \in DOMAIN old :
           (j > i /\ i > 2 /\ old[i].n \in kept \ {0}) => old[j].n \in kept

Moves(old, top, new, up) ==
  \E cp, h, c, g : Shaped(old, top, cp, h) /\ Shaped(new, up, c, g) /\ Kin(h, g)

\* A step that moves from shape to shape retires the oldest messages.
LEMMA MovesRetire ==
  ASSUME NEW old, NEW top, NEW new, NEW up, Moves(old, top, new, up)
  PROVE  Retired(old, new)
<1>1. PICK cp, h, c, g : Shaped(old, top, cp, h) /\ Shaped(new, up, c, g) /\ Kin(h, g)
  BY DEF Moves
<1> DEFINE p == Len(cp)
           q == Len(h)
           r == Len(c)
           s == Len(g)
           kept == {new[i].n : i \in DOMAIN new}
           checkpoints == {i \in DOMAIN new : new[i].mark /\ new[i].n = 0}
<1>2. /\ p \in 0..1 /\ q \in Nat /\ DOMAIN old = 1..(2 + p + q)
      /\ \A k \in 1..p : old[2 + k].n = 0
      /\ \A k \in 1..q : old[2 + p + k] = h[k] /\ h[k].n > 2 /\ h[k].n \in Nat
  <2>1. Shaped(old, top, cp, h)
    BY <1>1
  <2>2. /\ cp \in Seq(Msgs) /\ h \in Seq(Msgs) /\ old \in Seq(Msgs)
        /\ p \in 0..1 /\ q \in Nat /\ Len(old) = 2 + p + q
        /\ \A k \in 1..2 : old[k] = Opening[k]
        /\ \A k \in 1..p : old[2 + k] = cp[k] /\ cp[k].mark /\ cp[k].n = 0
        /\ \A k \in 1..q : /\ old[2 + p + k] = h[k]
                         /\ h[k].n > 2 /\ h[k].n <= top /\ h[k].n \in Nat
    BY <2>1, ShapedOf
  <2> HIDE DEF p, q
  <2> QED BY <2>2
<1>3. /\ r \in 0..1 /\ s \in Nat /\ new \in Seq(Msgs) /\ Len(new) = 2 + r + s /\ DOMAIN new = 1..(2 + r + s)
      /\ \A k \in 1..2 : new[k] = Opening[k]
      /\ \A k \in 1..r : new[2 + k].n = 0
      /\ \A k \in 1..s : new[2 + r + k] = g[k] /\ g[k].n # 0
  <2>1. Shaped(new, up, c, g)
    BY <1>1
  <2>2. /\ c \in Seq(Msgs) /\ g \in Seq(Msgs) /\ new \in Seq(Msgs)
        /\ r \in 0..1 /\ s \in Nat /\ Len(new) = 2 + r + s
        /\ \A k \in 1..2 : new[k] = Opening[k]
        /\ \A k \in 1..r : new[2 + k] = c[k] /\ c[k].mark /\ c[k].n = 0
        /\ \A k \in 1..s : /\ new[2 + r + k] = g[k]
                         /\ g[k].n > 2 /\ g[k].n <= up /\ g[k].n \in Nat
    BY <2>1, ShapedOf
  <2> HIDE DEF r, s
  <2>3. DOMAIN new = 1..(2 + r + s)
    BY <2>2
  <2> QED BY <2>2, <2>3
<1> HIDE DEF p, q, r, s
<1>4. SubSeq(new, 1, 2) = Opening
  <2>1. 2 <= Len(new) /\ Len(new) \in Nat
    BY <1>3
  <2>2. /\ SubSeq(new, 1, 2) \in Seq(Msgs) /\ Len(SubSeq(new, 1, 2)) = 2
        /\ \A k \in 1..2 : SubSeq(new, 1, 2)[k] = new[k]
    BY <1>3, <2>1
  <2>3. Opening \in Seq(Msgs) /\ Len(Opening) = 2
    BY OpeningOf
  <2> DEFINE o == Opening
             n == SubSeq(new, 1, 2)
  <2>4. o \in Seq(Msgs) /\ n \in Seq(Msgs) /\ Len(o) = 2 /\ Len(n) = 2 /\ \A k \in 1..2 : o[k] = n[k]
    BY <1>3, <2>2, <2>3
  <2> HIDE DEF o, n
  <2>5. o = n
    BY <2>4, SeqEqual
  <2> QED BY <2>5 DEF o, n
<1>5. checkpoints \subseteq {3}
  <2> SUFFICES ASSUME NEW i \in 1..(2 + r + s), new[i].mark, new[i].n = 0, i # 3 PROVE FALSE
    BY <1>3
  <2>1. CASE i <= 2
    <3>1. i = 1 \/ i = 2
      BY <2>1
    <3>2. ~new[i].mark
      BY <1>3, <3>1, OpeningOf
    <3> QED BY <3>2
  <2>2. CASE i > 2
    <3>1. r <= 1 /\ i > 2 + r
      BY <1>3, <2>2
    <3> DEFINE k == i - 2 - r
    <3>2. k \in 1..s /\ i = 2 + r + k
      BY <1>3, <3>1
    <3> HIDE DEF k
    <3>3. new[i] = g[k] /\ g[k].n # 0
      BY <1>3, <3>2
    <3> QED BY <3>3
  <2> QED BY <2>1, <2>2
<1>6. ASSUME NEW i \in DOMAIN old, NEW j \in DOMAIN old, j > i, i > 2, old[i].n \in kept \ {0}
      PROVE  old[j].n \in kept
  <2> DEFINE a == i - 2 - p
             b == j - 2 - p
  <2>1. i > 2 + p
    <3>1. SUFFICES ASSUME i <= 2 + p PROVE FALSE
      BY <1>2
    <3>2. i - 2 \in 1..p /\ i = 2 + (i - 2)
      BY <1>2, <1>6, <3>1
    <3>3. old[i].n = 0
      BY <1>2, <3>2
    <3> QED BY <1>6, <3>3
  <2>2. a \in 1..q /\ b \in 1..q /\ a < b /\ i = 2 + p + a /\ j = 2 + p + b
    BY <1>2, <1>6, <2>1
  <2> HIDE DEF a, b
  <2>3. old[i] = h[a] /\ old[j] = h[b] /\ h[a].n > 2 /\ h[a].n \in Nat
    BY <1>2, <2>2
  <2>4. PICK l \in DOMAIN new : new[l].n = h[a].n
    BY <1>6, <2>3
  <2>5. l > 2 + r
    <3>1. CASE l <= 2
      <4>1. l = 1 \/ l = 2
        BY <1>3, <3>1
      <4>2. new[l].n <= 2
        BY <1>3, <4>1, OpeningOf
      <4> QED BY <2>3, <2>4, <4>2
    <3>2. CASE l > 2 /\ l <= 2 + r
      <4>1. l - 2 \in 1..r /\ l = 2 + (l - 2)
        BY <1>3, <3>2
      <4> QED BY <1>3, <2>3, <2>4, <4>1
    <3> QED BY <1>3, <3>1, <3>2
  <2>6. l - 2 - r \in 1..s /\ l = 2 + r + (l - 2 - r)
    BY <1>3, <2>5
  <2>7. g[l - 2 - r].n = h[a].n
    BY <1>3, <2>4, <2>6
  <2>8. PICK m \in 1..s : g[m].n = h[b].n
    BY <1>1, <2>2, <2>6, <2>7 DEF Kin, q, s
  <2>9. 2 + r + m \in DOMAIN new /\ new[2 + r + m].n = old[j].n
    BY <1>3, <2>3, <2>8
  <2> QED BY <2>9
<1> QED BY <1>4, <1>5, <1>6 DEF Retired

\* What is said to the model.
LEMMA ToldFormed ==
  ASSUME NEW k \in Nat, stamp \in Nat, stamp >= 2
  PROVE  /\ Told(k) \in Seq(Made) /\ Formed(Told(k)) /\ Numbered(Told(k), stamp, stamp + k)
<1>1. Told(k) \in Seq(Made)
  BY ToldOf, MadeIsLater, SeqMonotonic
<1>2. Len(Told(k)) = k /\ \A i \in 1..k : Told(k)[i] = Message(stamp + i, "user", 1)
  BY DEF Told
<1>3. \A i \in 1..k : /\ Told(k)[i].role = "user" /\ Told(k)[i].calls = 0 /\ Told(k)[i].text
                      /\ Told(k)[i].n = stamp + i
  BY <1>2 DEF Message
<1> DEFINE t == Told(k)
<1> HIDE DEF t
<1>4. /\ Len(t) = k
      /\ \A i \in 1..k : t[i].role = "user" /\ t[i].calls = 0 /\ t[i].text /\ t[i].n = stamp + i
  BY <1>2, <1>3 DEF t
<1>5. Formed(t)
  BY <1>4 DEF Formed, ToolsCalled, CallsMet, AnswersFollowed, UsersSpeak
<1>6. Numbered(t, stamp, stamp + k)
  BY <1>4 DEF Numbered
<1> QED BY <1>1, <1>5, <1>6 DEF t

\* Two sequences joined, index by index.
LEMMA JoinedAs ==
  ASSUME NEW X, NEW s \in Seq(X), NEW t \in Seq(X), NEW u, u = s \o t
  PROVE  /\ u \in Seq(X) /\ Len(s) \in Nat /\ Len(t) \in Nat /\ Len(u) = Len(s) + Len(t)
         /\ \A k \in 1..Len(s) : u[k] = s[k]
         /\ \A k \in 1..Len(t) : u[Len(s) + k] = t[k]
         /\ \A k \in 1..(Len(s) + Len(t)) : k <= Len(s) \/ (k - Len(s) \in 1..Len(t) /\ k = Len(s) + (k - Len(s)))
<1> DEFINE w == s \o t
<1>1. /\ w \in Seq(X) /\ Len(s) \in Nat /\ Len(t) \in Nat /\ Len(w) = Len(s) + Len(t)
      /\ \A k \in 1..Len(s) : w[k] = s[k]
      /\ \A k \in 1..Len(t) : w[Len(s) + k] = t[k]
      /\ \A k \in 1..(Len(s) + Len(t)) : k <= Len(s) \/ (k - Len(s) \in 1..Len(t) /\ k = Len(s) + (k - Len(s)))
  BY Joined, Zenon
<1>2. u = w
  OBVIOUS
<1> HIDE DEF w
<1> QED BY <1>1, <1>2

\* One element and a sequence, index by index.
LEMMA After ==
  ASSUME NEW X, NEW x \in X, NEW s \in Seq(X), NEW u, u = <<x>> \o s
  PROVE  /\ u \in Seq(X) /\ Len(u) = 1 + Len(s) /\ u[1] = x
         /\ \A i \in 1..Len(s) : u[1 + i] = s[i]
<1> DEFINE one == <<x>>
<1>1. one \in Seq(X) /\ Len(one) = 1 /\ one[1] = x
  OBVIOUS
<1>0. u = one \o s
  OBVIOUS
<1> HIDE DEF one
<1>2. /\ u \in Seq(X) /\ Len(u) = Len(one) + Len(s)
      /\ \A k \in 1..Len(one) : u[k] = one[k]
      /\ \A i \in 1..Len(s) : u[Len(one) + i] = s[i]
  BY <1>0, <1>1, JoinedAs
<1>4. 1 \in 1..Len(one)
  BY <1>1
<1> QED BY <1>1, <1>2, <1>4

\* An answer and what follows it.
Group(n, b, c, said, results) ==
  /\ said \in Made /\ results \in Seq(Made) /\ Len(results) = b
  /\ said.role = "assistant" /\ said.n = n /\ said.calls = c
  /\ \A i \in 1..b : /\ results[i].n = n + i /\ results[i].calls = 0
                     /\ results[i].role = IF c > 0 THEN "tool" ELSE "user"
                     /\ results[i].role = "user" => results[i].text
                     /\ c > 0 => results[i].of = <<n, i>>

\* A reply with what answers it is well formed.
LEMMA GroupFormed ==
  ASSUME NEW n \in Nat, n > 2, NEW b \in Nat, b >= 1, NEW c, c = 0 \/ c = b, NEW said, NEW results,
         Group(n, b, c, said, results), NEW t, t = <<said>> \o results
  PROVE  t \in Seq(Made) /\ Formed(t) /\ Numbered(t, n - 1, n + b)
<1>1. /\ said \in Made /\ results \in Seq(Made) /\ Len(results) = b
      /\ said.role = "assistant" /\ said.n = n /\ said.calls = c
      /\ \A i \in 1..b : /\ results[i].n = n + i /\ results[i].calls = 0
                         /\ results[i].role = IF c > 0 THEN "tool" ELSE "user"
                         /\ results[i].role = "user" => results[i].text
                         /\ c > 0 => results[i].of = <<n, i>>
  BY DEF Group
<1>3. /\ t \in Seq(Made) /\ Len(t) = 1 + b
      /\ t[1] = said
      /\ \A i \in 1..b : t[1 + i] = results[i]
      /\ \A k \in 1..(1 + b) : k = 1 \/ (k - 1 \in 1..b /\ k = 1 + (k - 1))
  <2>1. /\ t \in Seq(Made) /\ Len(t) = 1 + Len(results) /\ t[1] = said
        /\ \A i \in 1..Len(results) : t[1 + i] = results[i]
    BY <1>1, After
  <2> QED BY <1>1, <2>1
<1>4. ToolsCalled(t)
  <2> SUFFICES ASSUME NEW k \in 1..(1 + b), t[k].role = "tool" PROVE \E j \in 1..(k - 1) : k - j <= t[j].calls
    BY <1>1, <1>3 DEF ToolsCalled
  <2>1. k - 1 \in 1..b /\ k = 1 + (k - 1)
    BY <1>1, <1>3
  <2>2. t[k] = results[k - 1]
    BY <1>1, <1>3, <2>1
  <2>3. c > 0
    BY <1>1, <2>1, <2>2
  <2>4. t[1].calls = b
    BY <1>1, <1>3, <2>3
  <2>5. 1 \in 1..(k - 1) /\ k - 1 <= t[1].calls
    BY <2>1, <2>4
  <2> QED BY <2>5
<1>5. CallsMet(t)
  <2>0. SUFFICES ASSUME NEW j \in 1..(1 + b), t[j].calls > 0
                 PROVE  /\ t[j].role = "assistant" /\ j + t[j].calls <= 1 + b
                        /\ \A i \in 1..t[j].calls : t[j + i].role = "tool" /\ t[j + i].of = <<t[j].n, i>>
    BY <1>1, <1>3 DEF CallsMet
  <2>1. j = 1
    <3>1. SUFFICES ASSUME j - 1 \in 1..b, j = 1 + (j - 1) PROVE FALSE
      BY <1>1, <1>3
    <3>2. t[j] = results[j - 1] /\ results[j - 1].calls = 0
      BY <1>1, <1>3, <3>1
    <3> QED BY <1>1, <2>0, <3>2
  <2>2. c = b /\ t[1].calls = b /\ t[1].n = n /\ t[1].role = "assistant"
    BY <1>1, <1>3, <2>0, <2>1
  <2>3. ASSUME NEW i \in 1..b PROVE t[1 + i].role = "tool" /\ t[1 + i].of = <<n, i>>
    <3>1. c > 0 /\ t[1 + i] = results[i]
      BY <1>1, <1>3, <2>2
    <3> QED BY <1>1, <3>1
  <2>4. t[j].role = "assistant" /\ t[j].calls = b /\ t[j].n = n /\ j + t[j].calls <= 1 + b
    BY <2>1, <2>2
  <2> QED BY <2>1, <2>3, <2>4
<1>6. AnswersFollowed(t)
  <2>1. ASSUME NEW j \in 1..(1 + b), t[j].role = "assistant" PROVE j = 1
    <3>1. SUFFICES ASSUME j - 1 \in 1..b, j = 1 + (j - 1) PROVE FALSE
      BY <1>1, <1>3
    <3>2. t[j] = results[j - 1] /\ results[j - 1].role # "assistant"
      BY <1>1, <1>3, <3>1
    <3> QED BY <2>1, <3>2
  <2>2. t[1 + 1].role # "assistant"
    <3>1. 1 \in 1..b
      OBVIOUS
    <3> QED BY <1>1, <1>3, <3>1
  <2> QED BY <1>1, <1>3, <2>1, <2>2 DEF AnswersFollowed
<1>7. UsersSpeak(t)
  <2> SUFFICES ASSUME NEW k \in 1..(1 + b), t[k].role = "user" PROVE t[k].text
    BY <1>1, <1>3 DEF UsersSpeak
  <2>1. SUFFICES ASSUME k - 1 \in 1..b, k = 1 + (k - 1) PROVE t[k].text
    BY <1>1, <1>3
  <2>2. t[k] = results[k - 1]
    BY <1>1, <1>3, <2>1
  <2> QED BY <1>1, <2>1, <2>2
<1>8. Numbered(t, n - 1, n + b)
  <2>1. ASSUME NEW k \in 1..(1 + b) PROVE t[k].n = n + k - 1
    <3>1. CASE k = 1
      BY <1>1, <1>3, <3>1
    <3>2. CASE k - 1 \in 1..b /\ k = 1 + (k - 1)
      <4>1. t[k] = results[k - 1] /\ results[k - 1].n = n + (k - 1)
        BY <1>1, <1>3, <3>2
      <4> QED BY <4>1
    <3> QED BY <1>1, <1>3, <3>1, <3>2
  <2>2. \A k \in 1..(1 + b) : n + k - 1 > n - 1 /\ n + k - 1 <= n + b
    OBVIOUS
  <2>3. \A j, k \in 1..(1 + b) : j < k => n + j - 1 < n + k - 1
    OBVIOUS
  <2>4. \A k \in 1..Len(t) : t[k].n > n - 1 /\ t[k].n <= n + b
    BY <1>3, <2>1, <2>2
  <2>5. \A j, k \in 1..Len(t) : j < k => t[j].n < t[k].n
    BY <1>3, <2>1, <2>3
  <2> QED BY <2>4, <2>5 DEF Numbered
<1> QED BY <1>1, <1>3, <1>4, <1>5, <1>6, <1>7, <1>8 DEF Formed

\* The reply the engine appends, with the results of its calls, is such a group.
LEMMA AnswerFormed ==
  ASSUME NEW n \in Nat, n > 2, NEW run \in Nat, NEW size \in Nat, NEW text \in BOOLEAN,
         native \in BOOLEAN, NEW sizes \in [1..run -> Nat], NEW marks
  PROVE  LET said == Assistant(n, size, text, 0 \in marks, run)
             results == IF run = 0 THEN <<Message(n + 1, "user", 1)>>
                        ELSE [i \in 1..run |-> Result(n + i, sizes[i], i \in marks, n, i)]
             b == IF run = 0 THEN 1 ELSE run
         IN  /\ said \in Made /\ results \in Seq(Made)
             /\ <<said>> \o results \in Seq(Made) /\ Formed(<<said>> \o results)
             /\ Numbered(<<said>> \o results, n - 1, n + b)
<1> DEFINE said == Assistant(n, size, text, 0 \in marks, run)
           results == IF run = 0 THEN <<Message(n + 1, "user", 1)>>
                      ELSE [i \in 1..run |-> Result(n + i, sizes[i], i \in marks, n, i)]
           b == IF run = 0 THEN 1 ELSE run
           c == IF native THEN run ELSE 0
<1>0. (0 \in marks) \in BOOLEAN /\ \A i \in 1..run : (i \in marks) \in BOOLEAN
  OBVIOUS
<1>1. said \in Made /\ said.role = "assistant" /\ said.n = n /\ said.calls = c
  BY <1>0 DEF Assistant, Message, Msgs, Made
<1>2. /\ results \in Seq(Made) /\ Len(results) = b
      /\ \A i \in 1..b : /\ results[i].n = n + i /\ results[i].calls = 0
                         /\ results[i].role = IF c > 0 THEN "tool" ELSE "user"
                         /\ results[i].role = "user" => results[i].text
                         /\ c > 0 => results[i].of = <<n, i>>
  <2>1. CASE run = 0
    <3> DEFINE m == Message(n + 1, "user", 1)
    <3>1. m \in Made /\ m.n = n + 1 /\ m.calls = 0 /\ m.role = "user" /\ m.text
      BY DEF Message, Msgs, Made
    <3> HIDE DEF m
    <3>2. results = <<m>> /\ b = 1 /\ c = 0
      BY <2>1 DEF m
    <3> HIDE DEF b, c, results
    <3>3. results \in Seq(Made) /\ Len(results) = 1 /\ results[1] = m /\ \A i \in 1..b : i = 1
      BY <3>1, <3>2
    <3> QED BY <2>1, <3>1, <3>2, <3>3
  <2>2. CASE run # 0
    <3>1. b = run /\ run > 0 /\ (c > 0 <=> native)
      BY <2>2
    <3> HIDE DEF b, c
    <3>2. ASSUME NEW i \in 1..run
          PROVE  LET m == Result(n + i, sizes[i], i \in marks, n, i) IN
                 /\ m \in Made /\ m.n = n + i /\ m.calls = 0
                 /\ m.role = IF native THEN "tool" ELSE "user"
                 /\ m.role = "user" => m.text
                 /\ native => m.of = <<n, i>>
      <4>1. sizes[i] \in Nat /\ i \in Nat /\ n + i \in Nat /\ n + i > 2
        OBVIOUS
      <4>2. CASE native
        BY <1>0, <4>1, <4>2 DEF Result, Message, Msgs, Made
      <4>3. CASE ~native
        BY <1>0, <4>1, <4>3 DEF Result, Message, Msgs, Made
      <4> QED BY <4>2, <4>3
    <3>3. results = [i \in 1..run |-> Result(n + i, sizes[i], i \in marks, n, i)]
      BY <2>2
    <3> HIDE DEF results
    <3>4. \A i \in 1..run : results[i] = Result(n + i, sizes[i], i \in marks, n, i)
      BY <3>3
    <3>7. \A i \in 1..run : Result(n + i, sizes[i], i \in marks, n, i) \in Made
      BY <3>2
    <3>5. results \in [1..run -> Made]
      BY <3>3, <3>7
    <3>6. results \in Seq(Made) /\ Len(results) = run
      <4> DEFINE X == Made
      <4> HIDE DEF X
      <4>1. results \in [1..run -> X]
        BY <3>5 DEF X
      <4>2. results \in Seq(X) /\ Len(results) = run
        BY <4>1
      <4> QED BY <4>2 DEF X
    <3>8. ASSUME NEW i \in 1..run
          PROVE  /\ results[i].n = n + i /\ results[i].calls = 0
                 /\ results[i].role = IF c > 0 THEN "tool" ELSE "user"
                 /\ results[i].role = "user" => results[i].text
                 /\ c > 0 => results[i].of = <<n, i>>
      <4> DEFINE m == Result(n + i, sizes[i], i \in marks, n, i)
      <4>1. /\ m.n = n + i /\ m.calls = 0
            /\ m.role = IF native THEN "tool" ELSE "user"
            /\ m.role = "user" => m.text
            /\ native => m.of = <<n, i>>
        BY <3>2
      <4>2. results[i] = m
        BY <3>4
      <4> HIDE DEF m
      <4> QED BY <3>1, <4>1, <4>2
    <3> QED BY <3>1, <3>6, <3>8
  <2> QED BY <2>1, <2>2
<1>3. b \in Nat /\ b >= 1 /\ (c = 0 \/ c = b)
  OBVIOUS
<1>6. Group(n, b, c, said, results)
  <2> HIDE DEF said, results, b, c
  <2> QED BY <1>1, <1>2 DEF Group
<1> HIDE DEF said, results, b, c
<1> DEFINE t == <<said>> \o results
<1>5. t = <<said>> \o results
  OBVIOUS
<1> HIDE DEF t
<1>4. t \in Seq(Made) /\ Formed(t) /\ Numbered(t, n - 1, n + b)
  BY <1>3, <1>5, <1>6, GroupFormed
<1> QED BY <1>1, <1>2, <1>4 DEF said, results, b, t

IsShaped == \E cp, h : Shaped(talk, stamp, cp, h)
ShapeInv == TalkInv /\ (mistaken \/ IsShaped)

\* A step that adds to an end of what there is.
LEMMA Moving ==
  ASSUME NEW old, NEW top \in Nat, top >= 2, NEW cp, NEW h, Shaped(old, top, cp, h),
         NEW mid \in Nat, top <= mid, NEW u \in Seq(Made), Numbered(u, top, mid),
         NEW ms, NEW c, NEW s, NEW i, Shaped(ms, mid, c, s), EndOf(s, h \o u, i),
         NEW up \in Nat, mid <= up, NEW t \in Seq(Made), Formed(t), Numbered(t, mid, up),
         NEW new, new = ms \o t
  PROVE  Moves(old, top, new, up)
<1>1. mid >= 2
  OBVIOUS
<1>2. Shaped(new, up, c, s \o t)
  BY <1>1, ShapedMore
<1>3. h \in Seq(Msgs) /\ u \in Seq(Msgs) /\ t \in Seq(Msgs)
  BY MadeIsLater, SeqMonotonic DEF Shaped
<1>4. Numbered(h \o u, 2, mid)
  BY <1>3, NumberedJoined DEF Shaped
<1>5. Kin(h, s \o t)
  BY <1>3, <1>4, KeepsEnd
<1> QED BY <1>2, <1>5 DEF Moves

\* No message at all is well formed.
LEMMA Nothing ==
  ASSUME NEW top
  PROVE  <<>> \in Seq(Made) /\ Formed(<<>>) /\ Numbered(<<>>, top, top)
<1>1. <<>> \in Seq(Made) /\ Len(<<>>) = 0
  BY EmptySeq
<1> QED BY <1>1 DEF Formed, ToolsCalled, CallsMet, AnswersFollowed, UsersSpeak, Numbered

\* The history is an end of itself.
LEMMA Whole ==
  ASSUME NEW h \in Seq(Made)
  PROVE  EndOf(h, h, 1) /\ h \o <<>> = h /\ h \in Seq(Msgs)
<1>1. h \in Seq(Msgs)
  BY MadeIsLater, SeqMonotonic
<1>2. h \o <<>> = h
  BY ConcatEmptySeq
<1>3. Len(h) \in Nat /\ 1 \in 1..(Len(h) + 1) /\ Len(h) = Len(h) - 1 + 1 /\ \A k \in 1..Len(h) : 1 + k - 1 = k
  BY <1>1
<1> QED BY <1>1, <1>2, <1>3 DEF EndOf, Alike

\* A step that changes nothing.
LEMMA Staying ==
  ASSUME NEW old, NEW top \in Nat, top >= 2, NEW cp, NEW h, Shaped(old, top, cp, h)
  PROVE  Moves(old, top, old, top)
<1> DEFINE e == <<>>
<1>1. e \in Seq(Made) /\ Formed(e) /\ Numbered(e, top, top)
  BY Nothing
<1>2. EndOf(h, h \o e, 1) /\ h \o e = h
  BY Whole DEF Shaped
<1>3. old = old \o e
  BY ShapedOf, ConcatEmptySeq
<1>4. top <= top
  OBVIOUS
<1> HIDE DEF e
<1> QED BY <1>1, <1>2, <1>3, <1>4, Moving

\* The turn warns, compacts or leaves the conversation as it is.
LEMMA BeginTurnMoves == ASSUME TalkInv, IsShaped, ~mistaken', BeginTurn PROVE Moves(talk, stamp, talk', stamp')
<1>1. PICK notices \in 0..Notices, tokens \in BOOLEAN, size \in CheckpointSizes(Target) :
        LET said == talk \o Told(notices)
            compact == Compaction(said, size, Target, Limits.soft, TRUE)
        IN  /\ stamp' = stamp + notices
            /\ talk' = IF Reason(Size(said), tokens) /\ compact # <<>> THEN compact ELSE said
            /\ mistaken' = (mistaken \/ ((Reason(Size(said), tokens) /\ compact # <<>>) /\ Quoted(said)))
  BY Zenon DEF BeginTurn
<1> DEFINE told == Told(notices)
           said == talk \o told
           compact == Compaction(said, size, Target, Limits.soft, TRUE)
           up == stamp + notices
           e == <<>>
<1>2. /\ stamp' = up
      /\ (talk' = compact /\ compact # <<>> /\ ~Quoted(said)) \/ talk' = said
  BY <1>1
<1>3. Target \in Nat /\ Limits.soft \in Nat /\ Notices \in Nat
  BY LimitsAssumption
<1>4. stamp \in Nat /\ stamp >= 2 /\ up \in Nat /\ stamp <= up /\ notices \in Nat /\ up <= up
  BY <1>3 DEF TalkInv
<1>5. PICK cp, h : Shaped(talk, stamp, cp, h)
  BY DEF IsShaped
<1>6. told \in Seq(Made) /\ Formed(told) /\ Numbered(told, stamp, up)
  BY <1>4, ToldFormed
<1>7. e \in Seq(Made) /\ Formed(e) /\ Numbered(e, up, up)
  BY Nothing
<1> HIDE DEF told, up
<1>8. Shaped(said, up, cp, h \o told)
  BY <1>4, <1>5, <1>6, ShapedMore
<1>9. h \o told \in Seq(Made)
  BY <1>8 DEF Shaped
<1> DEFINE g == h \o told
<1>10. EndOf(g, g, 1)
  BY <1>9, Whole
<1> HIDE DEF g, said, e
<1>11. CASE talk' = said
  <2>1. said = said \o e
    BY <1>8, ShapedOf, ConcatEmptySeq DEF e
  <2>2. Moves(talk, stamp, said, up)
    BY <1>4, <1>5, <1>6, <1>7, <1>8, <1>10, <2>1, Moving DEF g
  <2> QED BY <1>2, <1>11, <2>2
<1>12. CASE talk' = compact /\ compact # <<>> /\ ~Quoted(said)
  <2>1. TRUE \in BOOLEAN
    OBVIOUS
  <2>2. PICK c, s, i : Shaped(compact, up, c, s) /\ EndOf(s, g, i)
    BY <1>3, <1>8, <1>12, <2>1, CompactionShaped DEF g
  <2> HIDE DEF compact
  <2>3. compact = compact \o e
    BY <2>2, ShapedOf, ConcatEmptySeq DEF e
  <2>4. Moves(talk, stamp, compact, up)
    BY <1>4, <1>5, <1>6, <1>7, <2>2, <2>3, Moving DEF g
  <2> QED BY <1>2, <1>12, <2>4
<1> QED BY <1>2, <1>11, <1>12

\* A compaction keeps an end of the history, and its notices follow.
LEMMA CompactionMoves ==
  ASSUME TalkInv, IsShaped, NEW target \in Nat, NEW size \in CheckpointSizes(target), NEW limit \in Nat, NEW retain \in BOOLEAN,
         NEW compact, compact = Compaction(talk, size, target, limit, retain), compact # <<>>,
         retain => ~Quoted(talk), NEW t \in Seq(Made), Formed(t), NEW up \in Nat, stamp <= up, Numbered(t, stamp, up)
  PROVE  Moves(talk, stamp, compact \o t, up)
<1> DEFINE e == <<>>
<1>1. stamp \in Nat /\ stamp >= 2 /\ stamp <= stamp
  BY DEF TalkInv
<1>2. PICK cp, h : Shaped(talk, stamp, cp, h)
  BY DEF IsShaped
<1>3. PICK c, s, i : Shaped(compact, stamp, c, s) /\ EndOf(s, h, i)
  BY <1>2, CompactionShaped
<1>4. e \in Seq(Made) /\ Numbered(e, stamp, stamp) /\ h = h \o e
  BY <1>2, Nothing, Whole DEF Shaped
<1> DEFINE new == compact \o t
<1>5. new = compact \o t
  OBVIOUS
<1> HIDE DEF e, new
<1>6. EndOf(s, h \o e, i)
  BY <1>3, <1>4
<1>7. Moves(talk, stamp, new, up)
  BY <1>1, <1>2, <1>3, <1>4, <1>5, <1>6, Moving
<1> QED BY <1>7 DEF new

\* A refused context is compacted, whatever it drops,
LEMMA ContextRejectedMoves == ASSUME TalkInv, IsShaped, ~mistaken', ContextRejected PROVE Moves(talk, stamp, talk', stamp')
<1> DEFINE half == Emergency \div 2^recoveries
           target == IF half > Floor THEN half ELSE Floor
<1>1. PICK size \in CheckpointSizes(target) :
        LET compact == Compaction(talk, size, target, Limits.forced, TRUE) IN
        IF recoveries < 2 /\ compact # <<>>
        THEN /\ talk' = compact /\ recoveries' = recoveries + 1 /\ UNCHANGED place
             /\ mistaken' = (mistaken \/ Quoted(talk))
        ELSE place' = "done" /\ UNCHANGED <<talk, recoveries, mistaken>>
  BY Zenon DEF ContextRejected
<1>2. target \in Nat /\ target <= Target /\ Limits.forced \in Nat
  BY TargetOf, LimitsAssumption DEF TalkInv
<1> HIDE DEF target
<1> DEFINE compact == Compaction(talk, size, target, Limits.forced, TRUE)
           e == <<>>
<1>3. (compact # <<>> /\ talk' = compact /\ ~Quoted(talk)) \/ talk' = talk
  BY <1>1
<1>4. stamp' = stamp
  BY DEF ContextRejected
<1>5. stamp \in Nat /\ stamp >= 2 /\ stamp <= stamp /\ TRUE \in BOOLEAN
  BY DEF TalkInv
<1>6. e \in Seq(Made) /\ Formed(e) /\ Numbered(e, stamp, stamp)
  BY Nothing
<1>7. CASE talk' = talk
  BY <1>4, <1>5, <1>7, Staying DEF IsShaped
<1>8. CASE compact # <<>> /\ talk' = compact /\ ~Quoted(talk)
  <2> DEFINE new == compact
  <2>1. new = compact /\ new # <<>> /\ ~Quoted(talk)
    BY <1>8
  <2>5. Tailed(talk)
    BY DEF TalkInv
  <2>3. Tailed(compact)
    BY <1>2, <1>5, <1>8, <2>5, CompactionOf, Zenon
  <2> HIDE DEF e
  <2>2. Moves(talk, stamp, compact \o e, stamp)
    BY <1>2, <1>5, <1>6, <2>1, CompactionMoves
  <2>4. compact \in Seq(Msgs)
    BY <2>3, TailedType
  <2> HIDE DEF compact
  <2>6. compact \o e = compact
    BY <2>4, ConcatEmptySeq DEF e
  <2> QED BY <1>4, <1>8, <2>2, <2>6
<1> QED BY <1>3, <1>7, <1>8

\* and so is a refused conversation.
LEMMA PolicyRejectedMoves == ASSUME TalkInv, IsShaped, PolicyRejected PROVE Moves(talk, stamp, talk', stamp')
<1>1. PICK size \in CheckpointSizes(PolicyTarget) :
        LET compact == Compaction(talk, size, PolicyTarget, Limits.forced, FALSE) IN
        IF policies < 1 /\ compact # <<>>
        THEN /\ talk' = compact \o Told(1)
             /\ stamp' = stamp + 1 /\ policies' = policies + 1 /\ UNCHANGED place
        ELSE place' = "done" /\ UNCHANGED <<talk, stamp, policies>>
  BY Zenon DEF PolicyRejected
<1> DEFINE compact == Compaction(talk, size, PolicyTarget, Limits.forced, FALSE)
           told == Told(1)
           up == stamp + 1
<1>2. \/ compact # <<>> /\ talk' = compact \o told /\ stamp' = up
      \/ talk' = talk /\ stamp' = stamp
  BY <1>1
<1>3. PolicyTarget \in Nat /\ Limits.forced \in Nat /\ FALSE \in BOOLEAN
  BY LimitsAssumption
<1>4. stamp \in Nat /\ stamp >= 2 /\ up \in Nat /\ stamp <= up
  BY DEF TalkInv
<1>5. told \in Seq(Made) /\ Formed(told) /\ Numbered(told, stamp, up)
  BY <1>4, ToldFormed
<1> HIDE DEF told, up
<1>6. CASE compact # <<>> /\ talk' = compact \o told /\ stamp' = up
  <2>1. Moves(talk, stamp, compact \o told, up)
    BY <1>3, <1>4, <1>5, <1>6, CompactionMoves
  <2> HIDE DEF compact
  <2> QED BY <1>6, <2>1
<1>7. CASE talk' = talk /\ stamp' = stamp
  BY <1>4, <1>7, Staying DEF IsShaped
<1> QED BY <1>2, <1>6, <1>7

\* A reply adds a group at the end.
LEMMA AnsweredMoves == ASSUME TalkInv, IsShaped, Answered PROVE Moves(talk, stamp, talk', stamp')
<1>1. PICK answer \in Answers, size \in AnswerSizes :
       LET turn == answer.turn
           n == stamp + 1
           run == IF turn.invalid > 0 THEN 0 ELSE turn.calls
       IN
       /\ \E marks \in SUBSET (0..run), sizes \in [1..run -> ResultSizes] :
            talk' = Append(talk, Assistant(n, size, turn.text \/ turn.invalid > 0, 0 \in marks, run))
                         \o IF run = 0 THEN <<Message(n + 1, "user", 1)>>
                            ELSE [i \in 1..run |-> Result(n + i, sizes[i], i \in marks, n, i)]
       /\ stamp' = n + IF run = 0 THEN 1 ELSE run
  BY Zenon DEF Answered
<1> DEFINE n == stamp + 1
           run == IF answer.turn.invalid > 0 THEN 0 ELSE answer.turn.calls
           text == answer.turn.text \/ answer.turn.invalid > 0
<1>2. Sound(answer)
  BY AnswersSound DEF TalkInv
<1>3. run \in Nat /\ text \in BOOLEAN /\ n \in Nat /\ n > 2 /\ n - 1 = stamp /\ stamp \in Nat /\ stamp >= 2 /\ native \in BOOLEAN
  BY <1>2 DEF Sound, TalkInv
<1>4. size \in Nat /\ ResultSizes \subseteq Nat
  BY LimitsAssumption
<1>5. PICK marks \in SUBSET (0..run), sizes \in [1..run -> ResultSizes] :
        talk' = Append(talk, Assistant(n, size, text, 0 \in marks, run))
                     \o IF run = 0 THEN <<Message(n + 1, "user", 1)>>
                        ELSE [i \in 1..run |-> Result(n + i, sizes[i], i \in marks, n, i)]
  BY <1>1, Zenon
<1>6. stamp' = n + IF run = 0 THEN 1 ELSE run
  BY <1>1
<1> HIDE DEF n, run, text
<1> DEFINE b == IF run = 0 THEN 1 ELSE run
           up == n + b
           said == Assistant(n, size, text, 0 \in marks, run)
           results == IF run = 0 THEN <<Message(n + 1, "user", 1)>>
                      ELSE [i \in 1..run |-> Result(n + i, sizes[i], i \in marks, n, i)]
           t == <<said>> \o results
           e == <<>>
<1>8. talk' = Append(talk, said) \o results
  BY <1>5, Zenon
<1>9. sizes \in [1..run -> Nat]
  BY <1>4
<1>10. said \in Made /\ results \in Seq(Made) /\ t \in Seq(Made) /\ Formed(t) /\ Numbered(t, stamp, up)
  <2>3. n \in Nat /\ n > 2 /\ run \in Nat /\ size \in Nat /\ text \in BOOLEAN /\ native \in BOOLEAN /\ sizes \in [1..run -> Nat]
    BY <1>3, <1>4, <1>9
  <2>4. /\ said \in Made /\ results \in Seq(Made)
        /\ t \in Seq(Made) /\ Formed(t)
        /\ Numbered(t, n - 1, n + b)
    BY <2>3, AnswerFormed, ZenonT(60)
  <2>1. said \in Made /\ results \in Seq(Made) /\ t \in Seq(Made) /\ Formed(t) /\ Numbered(t, n - 1, n + b)
    BY <2>4
  <2> HIDE DEF said, results, t, b
  <2> QED BY <1>3, <2>1
<1>11. said \in Msgs /\ results \in Seq(Msgs)
  <2> HIDE DEF said, results
  <2> QED BY <1>10, MadeIsLater, SeqMonotonic
<1>12. stamp' = up /\ up \in Nat /\ stamp <= up /\ stamp <= stamp
  BY <1>3, <1>6
<1> HIDE DEF said, results, up, b
<1>13. talk' = talk \o t
  <2>1. talk \in Seq(Msgs)
    BY TailedType DEF TalkInv
  <2>2. Append(talk, said) = talk \o <<said>>
    BY <1>11, <2>1, AppendIsConcat
  <2> DEFINE one == <<said>>
  <2>3. one \in Seq(Msgs)
    BY <1>11
  <2> HIDE DEF one
  <2>4. (talk \o one) \o results = talk \o (one \o results)
    BY <1>11, <2>1, <2>3, ConcatAssociative
  <2> QED BY <1>8, <2>2, <2>4 DEF one
<1> HIDE DEF t
<1>14. PICK cp, h : Shaped(talk, stamp, cp, h)
  BY DEF IsShaped
<1>15. e \in Seq(Made) /\ Numbered(e, stamp, stamp) /\ EndOf(h, h \o e, 1)
  BY <1>14, Nothing, Whole DEF Shaped
<1> HIDE DEF e
<1>16. Moves(talk, stamp, talk \o t, up)
  BY <1>3, <1>10, <1>12, <1>14, <1>15, Moving
<1> QED BY <1>12, <1>13, <1>16

\* Every step moves from shape to shape.
LEMMA TalkMoves ==
  ASSUME ShapeInv, [TalkNext]_talkVars
  PROVE  ShapeInv' /\ (mistaken' \/ Moves(talk, stamp, talk', stamp'))
<1>0. TalkInv /\ TalkInv'
  BY TalkKept DEF ShapeInv
<1>5. mistaken => mistaken'
  <2>1. CASE BeginTurn
    BY <2>1, Zenon DEF BeginTurn
  <2>2. CASE ContextRejected
    BY <2>2, Zenon DEF ContextRejected
  <2>3. CASE PolicyRejected \/ Answered \/ BatchCut \/ TalkEnds \/ UNCHANGED talkVars
    BY <2>3 DEF PolicyRejected, Answered, BatchCut, TalkEnds, talkVars
  <2> QED BY <2>1, <2>2, <2>3 DEF TalkNext
<1>1. CASE mistaken'
  BY <1>0, <1>1 DEF ShapeInv
<1>6. SUFFICES ASSUME ~mistaken' PROVE ShapeInv' /\ Moves(talk, stamp, talk', stamp')
  BY <1>1
<1>7. TalkInv /\ IsShaped
  BY <1>0, <1>5, <1>6 DEF ShapeInv
<1>2. Moves(talk, stamp, talk', stamp')
  <2>0. stamp \in Nat /\ stamp >= 2
    BY <1>7 DEF TalkInv
  <2>1. CASE BeginTurn
    BY <1>6, <1>7, <2>1, BeginTurnMoves
  <2>2. CASE ContextRejected
    BY <1>6, <1>7, <2>2, ContextRejectedMoves
  <2>3. CASE PolicyRejected
    BY <1>6, <1>7, <2>3, PolicyRejectedMoves
  <2>4. CASE Answered
    BY <1>6, <1>7, <2>4, AnsweredMoves
  <2>5. CASE BatchCut \/ TalkEnds \/ UNCHANGED talkVars
    <3>1. talk' = talk /\ stamp' = stamp
      BY <2>5 DEF BatchCut, TalkEnds, talkVars
    <3> QED BY <1>7, <2>0, <3>1, Staying DEF IsShaped
  <2> QED BY <2>1, <2>2, <2>3, <2>4, <2>5 DEF TalkNext
<1>3. \E cp, h : Shaped(talk', stamp', cp, h)
  BY <1>2 DEF Moves
<1>4. IsShaped'
  BY <1>3 DEF IsShaped, Shaped, Numbered
<1> QED BY <1>0, <1>2, <1>4 DEF ShapeInv

\* The conversation is its opening, a checkpoint perhaps, and an end of the history in
\* which every call is followed by its result (compact_message_history keeps
\* protocol_message_blocks whole), until a compaction drops from its block a message that
\* quotes the marker.
THEOREM ShapeInvariant == TalkSpec => []ShapeInv
<1>1. TalkInit => ShapeInv
  <2> SUFFICES ASSUME TalkInit PROVE ShapeInv
    OBVIOUS
  <2>1. TalkInv
    BY TalkBegins
  <2>2. Shaped(talk, stamp, <<>>, <<>>)
    <3>1. <<>> \in Seq(Made) /\ Formed(<<>>) /\ Numbered(<<>>, 2, 2) /\ <<>> \in Checkpoints
      BY Nothing DEF Checkpoints
    <3>2. Numbered(<<>>, 2, stamp) /\ talk = Opening
      BY <3>1 DEF TalkInit
    <3>3. Opening = (Opening \o <<>>) \o <<>>
      BY OpeningOf, ConcatEmptySeq, Zenon
    <3> QED BY <3>1, <3>2, <3>3, Zenon DEF Shaped
  <2> QED BY <2>1, <2>2 DEF ShapeInv, IsShaped
<1>2. ShapeInv /\ [TalkNext]_talkVars => ShapeInv'
  BY TalkMoves
<1> QED BY <1>1, <1>2, PTL DEF TalkSpec

\* A compaction retires the oldest: where a message is kept, so is every later one
\* (engine.py compact_message_history), until a quote of the marker has been dropped.
THEOREM OldestTheorem == TalkSpec => RetiresOldest
<1>1. ShapeInv /\ [TalkNext]_talkVars => [~mistaken' => Retired(talk, talk')]_talkVars
  BY TalkMoves, MovesRetire
<1>2. TalkSpec => [][~mistaken' => Retired(talk, talk')]_talkVars
  BY <1>1, ShapeInvariant, PTL DEF TalkSpec
<1>3. RetiresOldest <=> [][~mistaken' => Retired(talk, talk')]_talkVars
  BY DEF RetiresOldest, Retired
<1> QED BY <1>2, <1>3

---------------------------------------------------------------------------
(***************************************************************************)
(* Whatever the wire, each call that is sent has its result and each       *)
(* result its call. First the Responses input.                             *)
(***************************************************************************)

(* The parts of a message, and all of them in one list.                    *)

Kinds == {"text", "use", "result"}
PartsSet == Kinds \X (Nat \X Nat)

\* A reply has a part for each of its calls.
LEMMA UsesOf ==
  ASSUME NEW m \in Msgs
  PROVE  /\ Uses(m) \in Seq(PartsSet) /\ Len(Uses(m)) = m.calls /\ m.calls \in Nat
         /\ \A i \in 1..m.calls : Uses(m)[i] = <<"use", <<m.n, i>>>>
<1>1. m.calls \in Nat /\ m.n \in Nat
  BY MsgsOf
<1>2. \A i \in 1..m.calls : <<"use", <<m.n, i>>>> \in PartsSet
  BY <1>1 DEF PartsSet, Kinds
<1> DEFINE P == PartsSet
           c == m.calls
<1> HIDE DEF P
<1>3. Uses(m) \in [1..c -> P] /\ \A i \in 1..c : Uses(m)[i] = <<"use", <<m.n, i>>>>
  BY <1>2 DEF Uses, P
<1> HIDE DEF c
<1>4. c \in Nat
  BY <1>1 DEF c
<1>5. Uses(m) \in Seq(P) /\ Len(Uses(m)) = c
  BY <1>3, <1>4
<1> QED BY <1>1, <1>3, <1>5 DEF P, c

\* It has a part for its text, if it has any.
LEMMA SaidOf ==
  ASSUME NEW m \in Msgs
  PROVE  /\ Said(m) \in Seq(PartsSet) /\ Len(Said(m)) = IF m.text THEN 1 ELSE 0
         /\ \A i \in 1..Len(Said(m)) : Said(m)[i] = <<"text", <<0, 0>>>>
<1>1. <<"text", <<0, 0>>>> \in PartsSet
  BY DEF PartsSet, Kinds
<1> DEFINE P == PartsSet
           t == <<"text", <<0, 0>>>>
<1>2. Said(m) = IF m.text THEN <<t>> ELSE <<>>
  BY DEF Said
<1>3. t \in P
  BY <1>1
<1> HIDE DEF P, t
<1>4. m.text \in BOOLEAN
  BY MsgsOf
<1>5. Said(m) \in Seq(P) /\ Len(Said(m)) = IF m.text THEN 1 ELSE 0
  BY <1>2, <1>3, <1>4
<1>6. \A i \in 1..Len(Said(m)) : Said(m)[i] = t
  BY <1>2, <1>3, <1>4
<1> QED BY <1>5, <1>6 DEF P, t

\* A tool's message is its result, any other its text and its calls.
LEMMA PartsOf ==
  ASSUME NEW m \in Msgs
  PROVE  /\ Parts(m) \in Seq(PartsSet) /\ Len(Parts(m)) \in Nat
         /\ m.role = "tool" => Len(Parts(m)) = 1 /\ Parts(m)[1] = <<"result", m.of>>
         /\ m.role # "tool" =>
              /\ \A i \in 1..Len(Parts(m)) :
                   \/ Parts(m)[i] = <<"text", <<0, 0>>>>
                   \/ \E k \in 1..m.calls : Parts(m)[i] = <<"use", <<m.n, k>>>>
              /\ \A k \in 1..m.calls : \E i \in 1..Len(Parts(m)) : Parts(m)[i] = <<"use", <<m.n, k>>>>
              /\ m.calls = 0 => Len(Parts(m)) = IF m.text THEN 1 ELSE 0
<1>1. CASE m.role = "tool"
  <2> DEFINE r == <<"result", m.of>>
             P == PartsSet
  <2>1. r \in P
    BY MsgsOf DEF PartsSet, Kinds
  <2>2. Parts(m) = <<r>>
    BY <1>1 DEF Parts
  <2> HIDE DEF r, P
  <2>3. Parts(m) \in Seq(P) /\ Len(Parts(m)) = 1 /\ Parts(m)[1] = r
    BY <2>1, <2>2
  <2> QED BY <1>1, <2>3 DEF r, P
<1>2. CASE m.role # "tool"
  <2> DEFINE s == Said(m)
             u == Uses(m)
             p == Parts(m)
             a == Len(s)
             t == <<"text", <<0, 0>>>>
  <2>1. p = s \o u
    BY <1>2 DEF Parts
  <2>2. /\ s \in Seq(PartsSet) /\ u \in Seq(PartsSet) /\ a = IF m.text THEN 1 ELSE 0
        /\ Len(u) = m.calls /\ m.calls \in Nat
        /\ \A i \in 1..a : s[i] = t
        /\ \A i \in 1..m.calls : u[i] = <<"use", <<m.n, i>>>>
    BY UsesOf, SaidOf
  <2> HIDE DEF s, u, p
  <2>3. /\ p \in Seq(PartsSet) /\ a \in Nat /\ Len(u) \in Nat /\ Len(p) = a + Len(u)
        /\ \A k \in 1..a : p[k] = s[k]
        /\ \A k \in 1..Len(u) : p[a + k] = u[k]
        /\ \A k \in 1..(a + Len(u)) : k <= a \/ (k - a \in 1..Len(u) /\ k = a + (k - a))
    <3>1. p = s \o u /\ s \in Seq(PartsSet) /\ u \in Seq(PartsSet)
      BY <2>1, <2>2
    <3> HIDE DEF a
    <3>2. /\ p \in Seq(PartsSet) /\ Len(s) \in Nat /\ Len(u) \in Nat /\ Len(p) = Len(s) + Len(u)
          /\ \A k \in 1..Len(s) : p[k] = s[k]
          /\ \A k \in 1..Len(u) : p[Len(s) + k] = u[k]
          /\ \A k \in 1..(Len(s) + Len(u)) : k <= Len(s) \/ (k - Len(s) \in 1..Len(u) /\ k = Len(s) + (k - Len(s)))
      BY <3>1, JoinedAs
    <3> QED BY <3>2 DEF a
  <2> HIDE DEF a
  <2>4. ASSUME NEW i \in 1..Len(p)
        PROVE  p[i] = t \/ \E k \in 1..m.calls : p[i] = <<"use", <<m.n, k>>>>
    <3>1. CASE i <= a
      BY <2>2, <2>3, <3>1
    <3>2. CASE i - a \in 1..Len(u) /\ i = a + (i - a)
      <4> DEFINE k == i - a
      <4>1. k \in 1..m.calls /\ i = a + k
        BY <2>2, <3>2
      <4> HIDE DEF k
      <4>2. p[i] = <<"use", <<m.n, k>>>>
        BY <2>2, <2>3, <4>1
      <4> QED BY <4>1, <4>2
    <3> QED BY <2>3, <3>1, <3>2
  <2>5. ASSUME NEW k \in 1..m.calls PROVE \E i \in 1..Len(p) : p[i] = <<"use", <<m.n, k>>>>
    <3>1. a + k \in 1..Len(p)
      BY <2>2, <2>3
    <3>2. p[a + k] = <<"use", <<m.n, k>>>>
      BY <2>2, <2>3
    <3> QED BY <3>1, <3>2
  <2>6. m.calls = 0 => Len(p) = IF m.text THEN 1 ELSE 0
    BY <2>2, <2>3
  <2> QED BY <1>2, <2>3, <2>4, <2>5, <2>6 DEF p
<1> QED BY <1>1, <1>2

\* The list, message by message.
Joint(items, m) == items \o Parts(m)
ListRun(h, ms) == /\ h \in [0..Len(ms) -> Seq(PartsSet)] /\ h[0] = <<>>
                  /\ \A k \in 1..Len(ms) : h[k] = Joint(h[k - 1], ms[k])

\* The items of a Responses input are where the run of the messages ends.
LEMMA ListRuns ==
  ASSUME NEW ms \in Seq(Msgs)
  PROVE  \E h : ListRun(h, ms) /\ ResponsesInput(ms) = h[Len(ms)]
<1> DEFINE n == Len(ms)
           V == Seq(PartsSet)
           step == [p \in (1..n) \X V |-> Joint(p[2], ms[p[1]])]
           Is(g) == g = [s \in SUBSET DOMAIN ms |->
                           IF s = {} THEN <<>> ELSE LET x == Max(s) IN Joint(g[s \ {x}], ms[x])]
           iter == CHOOSE g : Is(g)
<1>0. n \in Nat /\ DOMAIN ms = 1..n /\ \A k \in 1..n : \A v \in V : Joint(v, ms[k]) \in V
  <2>1. n \in Nat /\ DOMAIN ms = 1..n /\ \A k \in 1..n : ms[k] \in Msgs
    OBVIOUS
  <2>2. ASSUME NEW v \in V, NEW m \in Msgs PROVE Joint(v, m) \in V
    <3>1. Parts(m) \in Seq(PartsSet)
      BY PartsOf
    <3> QED BY <3>1, Joined DEF Joint
  <2> QED BY <2>1, <2>2
<1>1. Steps(step, 1..n, V) /\ <<>> \in V
  BY <1>0, EmptySeq DEF Steps
<1>2. Is(iter)
  <2>1. PICK g : Unfolded(g, step, <<>>, n, V)
    <3> HIDE DEF step, V
    <3> QED BY <1>0, <1>1, RunExists
  <2>2. ASSUME NEW s \in SUBSET (1..n)
        PROVE  g[s] = IF s = {} THEN <<>> ELSE LET x == Max(s) IN Joint(g[s \ {x}], ms[x])
    <3>1. CASE s = {}
      BY <2>1, <3>1 DEF Unfolded
    <3>2. CASE s # {}
      <4>1. g[s] = step[<<Max(s), g[s \ {Max(s)}]>>] /\ g[s \ {Max(s)}] \in V
        BY <2>1, <3>2 DEF Unfolded
      <4>2. Max(s) \in 1..n
        BY <1>0, <3>2, MaxIn
      <4>3. g[s] = Joint(g[s \ {Max(s)}], ms[Max(s)])
        BY <4>1, <4>2
      <4> QED BY <3>2, <4>3
    <3> QED BY <3>1, <3>2
  <2>3. Is(g)
    BY <1>0, <2>1, <2>2 DEF Unfolded
  <2> HIDE DEF Is
  <2> QED BY <2>3
<1>3. ResponsesInput(ms) = iter[1..n]
  BY <1>0, Zenon DEF ResponsesInput, FoldLeft, MapThenFoldSet, Joint
<1> HIDE DEF iter
<1>4. iter[{}] = <<>>
  BY <1>2
<1>5. \A s \in (SUBSET (1..n)) \ {{}} :
        iter[s \ {Max(s)}] \in V => iter[s] = step[<<Max(s), iter[s \ {Max(s)}]>>]
  <2> SUFFICES ASSUME NEW s \in (SUBSET (1..n)) \ {{}}, iter[s \ {Max(s)}] \in V
               PROVE  iter[s] = step[<<Max(s), iter[s \ {Max(s)}]>>]
    OBVIOUS
  <2>1. Max(s) \in 1..n
    BY <1>0, MaxIn
  <2>2. iter[s] = Joint(iter[s \ {Max(s)}], ms[Max(s)])
    BY <1>0, <1>2
  <2> QED BY <2>1, <2>2
<1>6. PICK h : Run(h, step, <<>>, n, V) /\ h[n] = iter[1..n]
  <2>1. Unwinds(iter, step, <<>>, n, V)
    BY <1>4, <1>5 DEF Unwinds
  <2> HIDE DEF step, V, n
  <2> QED BY <1>0, <1>1, <2>1, RunOf
<1>7. h \in [0..n -> V] /\ h[0] = <<>>
  BY <1>6 DEF Run
<1>8. ASSUME NEW k \in 1..n PROVE h[k] = Joint(h[k - 1], ms[k])
  <2>1. h[k] = step[<<k, h[k - 1]>>] /\ h[k - 1] \in V
    <3> HIDE DEF step, V, n
    <3> QED BY <1>0, <1>6 DEF Run
  <2> QED BY <2>1
<1> QED BY <1>3, <1>6, <1>7, <1>8 DEF ListRun

\* Where the parts of each message are.
Listed(items, l, ms) ==
  /\ l \in [0..Len(ms) -> Nat] /\ l[0] = 0 /\ l[Len(ms)] = Len(items)
  /\ \A k \in 1..Len(ms) :
       /\ l[k] = l[k - 1] + Len(Parts(ms[k])) /\ l[k] <= Len(items)
       /\ \A p \in 1..Len(Parts(ms[k])) : items[l[k - 1] + p] = Parts(ms[k])[p]
  /\ \A j \in 0..Len(ms) : \A k \in j..Len(ms) : l[j] <= l[k]
  /\ \A i \in 1..Len(items) : \E k \in 1..Len(ms) : l[k - 1] < i /\ i <= l[k]

\* They are the parts of the messages, one message after the other.
LEMMA ListedOf ==
  ASSUME NEW ms \in Seq(Msgs)
  PROVE  ResponsesInput(ms) \in Seq(PartsSet) /\ \E l : Listed(ResponsesInput(ms), l, ms)
<1> DEFINE n == Len(ms)
           P(k) == Parts(ms[k])
<1>1. PICK h : ListRun(h, ms) /\ ResponsesInput(ms) = h[n]
  BY ListRuns
<1>2. n \in Nat /\ \A k \in 1..n : P(k) \in Seq(PartsSet) /\ Len(P(k)) \in Nat
  <2>1. n \in Nat /\ \A k \in 1..n : ms[k] \in Msgs
    OBVIOUS
  <2> QED BY <2>1, PartsOf
<1>3. h \in [0..n -> Seq(PartsSet)] /\ h[0] = <<>> /\ \A k \in 1..n : h[k] = h[k - 1] \o P(k)
  BY <1>1 DEF ListRun, Joint
<1> DEFINE l == [k \in 0..n |-> Len(h[k])]
<1> HIDE DEF n, P
<1>4. l \in [0..n -> Nat] /\ l[0] = 0 /\ \A k \in 0..n : l[k] = Len(h[k]) /\ h[k] \in Seq(PartsSet)
  <2>1. \A k \in 0..n : h[k] \in Seq(PartsSet)
    BY <1>3
  <2>2. \A k \in 0..n : Len(h[k]) \in Nat
    BY <2>1
  <2>3. 0 \in 0..n /\ Len(<<>>) = 0
    BY <1>2
  <2> QED BY <1>3, <2>1, <2>2, <2>3
<1> HIDE DEF l
<1>5. ASSUME NEW k \in 1..n
      PROVE  /\ k - 1 \in 0..n /\ k \in 0..n /\ l[k] = l[k - 1] + Len(P(k)) /\ l[k - 1] \in Nat /\ l[k] \in Nat
             /\ \A i \in 1..l[k - 1] : h[k][i] = h[k - 1][i]
             /\ \A p \in 1..Len(P(k)) : h[k][l[k - 1] + p] = P(k)[p]
             /\ \A i \in 1..l[k] : i <= l[k - 1] \/ (l[k - 1] < i /\ i <= l[k])
  <2>1. k - 1 \in 0..n /\ k \in 0..n
    BY <1>2
  <2> DEFINE s == h[k - 1]
             t == P(k)
             u == h[k]
  <2>2. s \in Seq(PartsSet) /\ t \in Seq(PartsSet) /\ u = s \o t
    BY <1>2, <1>3, <1>4, <2>1
  <2>3. l[k - 1] = Len(s) /\ l[k] = Len(u)
    BY <1>4, <2>1
  <2> HIDE DEF s, t, u
  <2>4. /\ Len(s) \in Nat /\ Len(t) \in Nat /\ Len(u) = Len(s) + Len(t)
        /\ \A i \in 1..Len(s) : u[i] = s[i]
        /\ \A i \in 1..Len(t) : u[Len(s) + i] = t[i]
    BY <2>2, JoinedAs
  <2>5. l[k] = l[k - 1] + Len(t) /\ l[k - 1] \in Nat /\ l[k] \in Nat
    BY <2>3, <2>4
  <2>6. \A i \in 1..l[k] : i <= l[k - 1] \/ (l[k - 1] < i /\ i <= l[k])
    BY <2>5
  <2> QED BY <2>1, <2>3, <2>4, <2>5, <2>6 DEF s, t, u
<1> DEFINE Good(k) ==
      /\ \A j \in 0..k : l[j] <= l[k]
      /\ \A j \in 1..k : \A p \in 1..Len(P(j)) : h[k][l[j - 1] + p] = P(j)[p]
      /\ \A i \in 1..l[k] : \E j \in 1..k : l[j - 1] < i /\ i <= l[j]
<1> DEFINE G == {k \in Nat : k <= n => Good(k)}
<1>6. 0 \in G
  <2>1. \A j \in 0..0 : j = 0
    OBVIOUS
  <2> QED BY <1>4, <2>1
<1>7. ASSUME NEW k \in Nat, k \in G PROVE k + 1 \in G
  <2> SUFFICES ASSUME k + 1 <= n PROVE Good(k + 1)
    OBVIOUS
  <2>1. k + 1 \in 1..n /\ (k + 1) - 1 = k /\ k <= n /\ k \in 0..n
    BY <1>2
  <2>2. Good(k)
    BY <1>7, <2>1
  <2> DEFINE m == k + 1
  <2>3. /\ l[m] = l[k] + Len(P(m)) /\ l[k] \in Nat /\ l[m] \in Nat /\ Len(P(m)) \in Nat
        /\ \A i \in 1..l[k] : h[m][i] = h[k][i]
        /\ \A p \in 1..Len(P(m)) : h[m][l[k] + p] = P(m)[p]
        /\ \A i \in 1..l[m] : i <= l[k] \/ (l[k] < i /\ i <= l[m])
    BY <1>2, <1>5, <2>1
  <2>4. m \in 1..n /\ m - 1 = k /\ \A j \in 0..m : j \in 0..k \/ j = m
    BY <2>1
  <2> HIDE DEF m
  <2>9. \A j \in 0..k : j \in 0..n
    BY <1>2, <2>1
  <2>5. \A j \in 0..k : l[j] \in Nat
    BY <1>4, <2>9
  <2>6. \A j \in 0..m : l[j] <= l[m]
    <3> SUFFICES ASSUME NEW j \in 0..m PROVE l[j] <= l[m]
      OBVIOUS
    <3>1. CASE j = m
      BY <2>3, <3>1
    <3>2. CASE j \in 0..k
      BY <2>2, <2>3, <2>5, <3>2
    <3> QED BY <2>4, <3>1, <3>2
  <2>7. ASSUME NEW j \in 1..m, NEW p \in 1..Len(P(j)) PROVE h[m][l[j - 1] + p] = P(j)[p]
    <3>1. CASE j = m
      BY <2>3, <2>4, <3>1
    <3>2. CASE j \in 1..k
      <4>1. j \in 1..n /\ j \in 0..k /\ j - 1 \in 0..k
        BY <1>2, <2>1, <3>2
      <4>2. l[j] = l[j - 1] + Len(P(j)) /\ Len(P(j)) \in Nat /\ l[j] <= l[k] /\ l[j - 1] \in Nat
        BY <1>2, <1>5, <2>2, <4>1
      <4>3. l[j - 1] + p \in 1..l[k]
        BY <2>3, <2>5, <4>1, <4>2
      <4> QED BY <2>2, <2>3, <3>2, <4>3
    <3>3. j = m \/ j \in 1..k
      BY <2>4
    <3> QED BY <3>1, <3>2, <3>3
  <2>8. ASSUME NEW i \in 1..l[m] PROVE \E j \in 1..m : l[j - 1] < i /\ i <= l[j]
    <3>1. CASE i <= l[k]
      <4>1. i \in 1..l[k]
        BY <2>3, <3>1
      <4>2. PICK j \in 1..k : l[j - 1] < i /\ i <= l[j]
        BY <2>2, <4>1
      <4>3. j \in 1..m
        BY <2>4
      <4> QED BY <4>2, <4>3
    <3>2. CASE l[k] < i /\ i <= l[m]
      <4>1. m \in 1..m
        BY <2>4
      <4> QED BY <2>4, <3>2, <4>1
    <3> QED BY <2>3, <3>1, <3>2
  <2> QED BY <2>6, <2>7, <2>8 DEF m
<1>8. Nat \subseteq G
  <2> HIDE DEF G
  <2> QED BY <1>6, <1>7, NatSetInduction
<1>9. \A k \in 0..n : Good(k)
  BY <1>2, <1>8
<1>10. n \in 0..n
  BY <1>2
<1> DEFINE items == h[n]
<1>11. items \in Seq(PartsSet) /\ Len(items) = l[n] /\ l[n] \in Nat
  BY <1>4, <1>10
<1>12. Good(n)
  BY <1>9, <1>10
<1>13. \A k \in 1..n : /\ l[k] = l[k - 1] + Len(P(k)) /\ l[k] <= Len(items)
                       /\ \A p \in 1..Len(P(k)) : items[l[k - 1] + p] = P(k)[p]
  BY <1>5, <1>11, <1>12
<1>14. \A j \in 0..n : \A k \in j..n : l[j] <= l[k]
  <2> SUFFICES ASSUME NEW j \in 0..n, NEW k \in j..n PROVE l[j] <= l[k]
    OBVIOUS
  <2>1. k \in 0..n /\ j \in 0..k
    BY <1>2
  <2> HIDE DEF Good
  <2>2. Good(k)
    BY <1>9, <2>1
  <2> QED BY <2>1, <2>2 DEF Good
<1>15. \A i \in 1..Len(items) : \E k \in 1..n : l[k - 1] < i /\ i <= l[k]
  BY <1>11, <1>12
<1>16. Listed(items, l, ms)
  <2> HIDE DEF items, Good
  <2> QED BY <1>4, <1>11, <1>13, <1>14, <1>15 DEF Listed, n, P
<1> QED BY <1>1, <1>11, <1>16

\* An item is a part of one of the messages.
LEMMA ItemAt ==
  ASSUME NEW ms \in Seq(Msgs), NEW items \in Seq(PartsSet), NEW l, Listed(items, l, ms), NEW i \in 1..Len(items)
  PROVE  \E k \in 1..Len(ms) : \E p \in 1..Len(Parts(ms[k])) : i = l[k - 1] + p /\ items[i] = Parts(ms[k])[p]
<1>1. PICK k \in 1..Len(ms) : l[k - 1] < i /\ i <= l[k]
  BY DEF Listed
<1>2. Len(ms) \in Nat /\ ms[k] \in Msgs
  OBVIOUS
<1>7. k - 1 \in 0..Len(ms)
  BY <1>2
<1>3. l[k - 1] \in Nat
  BY <1>7 DEF Listed
<1>4. Len(Parts(ms[k])) \in Nat
  BY <1>2, PartsOf
<1>5. /\ l[k] = l[k - 1] + Len(Parts(ms[k]))
      /\ \A p \in 1..Len(Parts(ms[k])) : items[l[k - 1] + p] = Parts(ms[k])[p]
  BY DEF Listed
<1> DEFINE p == i - l[k - 1]
           c == Len(Parts(ms[k]))
           b == l[k - 1]
<1>6. p \in 1..c /\ i = b + p
  <2> HIDE DEF c, b
  <2>1. b \in Nat /\ c \in Nat /\ b < i /\ i <= b + c /\ i \in Nat
    BY <1>1, <1>3, <1>4, <1>5 DEF b, c
  <2>2. i - b \in 1..c /\ i = b + (i - b)
    BY <2>1
  <2> QED BY <2>2 DEF b
<1> HIDE DEF p
<1> QED BY <1>5, <1>6

\* A part of a message is one of the items.
LEMMA ItemPlaced ==
  ASSUME NEW ms \in Seq(Msgs), NEW items \in Seq(PartsSet), NEW l, Listed(items, l, ms),
         NEW k \in 1..Len(ms), NEW p \in 1..Len(Parts(ms[k]))
  PROVE  l[k - 1] + p \in 1..Len(items) /\ items[l[k - 1] + p] = Parts(ms[k])[p]
<1>1. Len(ms) \in Nat /\ ms[k] \in Msgs
  OBVIOUS
<1>6. k - 1 \in 0..Len(ms)
  BY <1>1
<1>2. l[k - 1] \in Nat
  BY <1>6 DEF Listed
<1>3. Len(Parts(ms[k])) \in Nat
  BY <1>1, PartsOf
<1>4. l[k] = l[k - 1] + Len(Parts(ms[k])) /\ l[k] <= Len(items) /\ Len(items) \in Nat
  BY DEF Listed
<1>5. l[k - 1] + p \in 1..Len(items)
  BY <1>2, <1>3, <1>4
<1> QED BY <1>5 DEF Listed

\* What a message says comes before what a later one does.
LEMMA ItemBefore ==
  ASSUME NEW ms \in Seq(Msgs), NEW items \in Seq(PartsSet), NEW l, Listed(items, l, ms),
         NEW j \in 1..Len(ms), NEW k \in 1..Len(ms), j < k, NEW p \in 1..Len(Parts(ms[j])), NEW q \in Nat, q >= 1
  PROVE  l[j - 1] + p < l[k - 1] + q
<1>1. Len(ms) \in Nat /\ ms[j] \in Msgs
  OBVIOUS
<1>2. Len(Parts(ms[j])) \in Nat
  BY <1>1, PartsOf
<1>3. j - 1 \in 0..Len(ms) /\ j \in 0..Len(ms) /\ k - 1 \in j..Len(ms) /\ k - 1 \in 0..Len(ms)
  BY <1>1
<1>4. l[j - 1] \in Nat /\ l[j] \in Nat /\ l[k - 1] \in Nat /\ l[j] <= l[k - 1] /\ l[j] = l[j - 1] + Len(Parts(ms[j]))
  BY <1>3 DEF Listed
<1> QED BY <1>2, <1>4

\* In the flat list every call stands before its result, and has one.
LEMMA ListPaired ==
  ASSUME NEW ms \in Seq(Msgs), Formed(ms)
  PROVE  ItemsPaired(ResponsesInput(ms))
<1> DEFINE items == ResponsesInput(ms)
           n == Len(ms)
<1>1. items \in Seq(PartsSet) /\ n \in Nat
  BY ListedOf
<1>2. PICK l : Listed(items, l, ms)
  BY ListedOf
<1> HIDE DEF items
<1>3. \A k \in 1..n : ms[k] \in Msgs /\ ms[k].calls \in Nat /\ ms[k].n \in Nat
  BY MsgsOf
<1>4. ASSUME NEW i \in 1..Len(items), items[i][1] = "result"
      PROVE  \E j \in 1..(i - 1) : items[j] = <<"use", items[i][2]>>
  <2>1. PICK k \in 1..n : \E p \in 1..Len(Parts(ms[k])) : i = l[k - 1] + p /\ items[i] = Parts(ms[k])[p]
    BY <1>1, <1>2, ItemAt
  <2>2. PICK p \in 1..Len(Parts(ms[k])) : i = l[k - 1] + p /\ items[i] = Parts(ms[k])[p]
    BY <2>1
  <2>3. ms[k].role = "tool"
    <3>1. SUFFICES ASSUME ms[k].role # "tool" PROVE FALSE
      OBVIOUS
    <3>2. Parts(ms[k])[p] = <<"text", <<0, 0>>>> \/ \E c \in 1..ms[k].calls : Parts(ms[k])[p] = <<"use", <<ms[k].n, c>>>>
      BY <1>3, <3>1, PartsOf
    <3> QED BY <1>4, <2>2, <3>2
  <2>4. Len(Parts(ms[k])) = 1 /\ Parts(ms[k])[1] = <<"result", ms[k].of>>
    BY <1>3, <2>3, PartsOf
  <2>5. items[i] = <<"result", ms[k].of>> /\ p = 1
    BY <2>2, <2>4
  <2>6. PICK j \in 1..(k - 1) : k - j <= ms[j].calls
    BY <2>3 DEF Formed, ToolsCalled
  <2>14. j \in 1..n /\ j < k
    BY <1>1
  <2>15. ms[j].calls \in Nat
    BY <1>3, <2>14
  <2>7. j \in 1..n /\ j < k /\ k - j \in 1..ms[j].calls /\ ms[j].calls \in Nat /\ k = j + (k - j) /\ ms[j].calls > 0
    BY <2>6, <2>14, <2>15
  <2>8. ms[j].role = "assistant" /\ ms[j + (k - j)].of = <<ms[j].n, k - j>>
    BY <2>7 DEF Formed, CallsMet
  <2>9. ms[k].of = <<ms[j].n, k - j>>
    BY <2>7, <2>8
  <2>10. PICK q \in 1..Len(Parts(ms[j])) : Parts(ms[j])[q] = <<"use", <<ms[j].n, k - j>>>>
    BY <1>3, <2>7, <2>8, PartsOf
  <2>16. j \in 1..Len(ms)
    BY <2>7
  <2>11. l[j - 1] + q \in 1..Len(items) /\ items[l[j - 1] + q] = Parts(ms[j])[q]
    BY <1>1, <1>2, <2>16, ItemPlaced
  <2>12. l[j - 1] + q < l[k - 1] + 1
    <3>1. 1 \in Nat /\ 1 >= 1
      OBVIOUS
    <3> QED BY <1>1, <1>2, <2>7, <3>1, ItemBefore
  <2>13. l[j - 1] + q \in 1..(i - 1)
    BY <2>2, <2>5, <2>11, <2>12
  <2>17. items[l[j - 1] + q] = <<"use", items[i][2]>>
    BY <2>5, <2>9, <2>10, <2>11
  <2> QED BY <2>13, <2>17
<1>5. ASSUME NEW i \in 1..Len(items), items[i][1] = "use"
      PROVE  \E j \in (i + 1)..Len(items) : items[j] = <<"result", items[i][2]>>
  <2>1. PICK k \in 1..n : \E p \in 1..Len(Parts(ms[k])) : i = l[k - 1] + p /\ items[i] = Parts(ms[k])[p]
    BY <1>1, <1>2, ItemAt
  <2>2. PICK p \in 1..Len(Parts(ms[k])) : i = l[k - 1] + p /\ items[i] = Parts(ms[k])[p]
    BY <2>1
  <2>3. ms[k].role # "tool"
    <3>1. SUFFICES ASSUME ms[k].role = "tool" PROVE FALSE
      OBVIOUS
    <3>2. Parts(ms[k])[p] = <<"result", ms[k].of>>
      BY <1>3, <3>1, PartsOf
    <3> QED BY <1>5, <2>2, <3>2
  <2>4. PICK c \in 1..ms[k].calls : items[i] = <<"use", <<ms[k].n, c>>>>
    <3>1. Parts(ms[k])[p] = <<"text", <<0, 0>>>> \/ \E c \in 1..ms[k].calls : Parts(ms[k])[p] = <<"use", <<ms[k].n, c>>>>
      BY <1>3, <2>3, PartsOf
    <3>2. Parts(ms[k])[p] # <<"text", <<0, 0>>>>
      BY <1>5, <2>2
    <3> QED BY <2>2, <3>1, <3>2
  <2>5. ms[k].calls > 0 /\ ms[k].calls \in Nat
    BY <1>3
  <2>6. /\ k + ms[k].calls <= n
        /\ ms[k + c].role = "tool" /\ ms[k + c].of = <<ms[k].n, c>>
    BY <2>5 DEF Formed, CallsMet
  <2> DEFINE t == k + c
  <2>7. t \in 1..n /\ k < t
    BY <1>1, <2>5, <2>6
  <2>8. Len(Parts(ms[t])) = 1 /\ Parts(ms[t])[1] = <<"result", <<ms[k].n, c>>>>
    BY <1>3, <2>6, <2>7, PartsOf
  <2> HIDE DEF t
  <2>9. 1 \in 1..Len(Parts(ms[t])) /\ 1 \in Nat /\ 1 >= 1
    BY <2>8
  <2>10. l[t - 1] + 1 \in 1..Len(items) /\ items[l[t - 1] + 1] = Parts(ms[t])[1]
    BY <1>1, <1>2, <2>7, <2>9, ItemPlaced
  <2>11. l[k - 1] + p < l[t - 1] + 1
    BY <1>1, <1>2, <2>7, <2>9, ItemBefore
  <2>12. l[t - 1] + 1 \in (i + 1)..Len(items)
    BY <2>2, <2>10, <2>11
  <2> QED BY <2>4, <2>8, <2>10, <2>12
<1>6. DOMAIN items = 1..Len(items)
  BY <1>1
<1> QED BY <1>4, <1>5, <1>6 DEF ItemsPaired, items

---------------------------------------------------------------------------
(***************************************************************************)
(* The wires that merge the messages of a side into turns.                 *)
(***************************************************************************)

(* Messages of one side become one.                                        *)

Turns == [role : {"system", "user", "assistant"}, parts : Seq(PartsSet)]

\* A message joins the last turn if that is of its side, and opens one if not.
LEMMA MergedOf ==
  ASSUME NEW out \in Seq(Turns), NEW m \in Msgs
  PROVE  LET l == Len(out)
             new == Merged(out, m)
         IN  /\ new \in Seq(Turns) /\ l \in Nat
             /\ \/ /\ l > 0 /\ out[l].role = Side(m) /\ Len(new) = l
                   /\ \A g \in 1..l : g < l => new[g] = out[g]
                   /\ new[l].role = Side(m) /\ new[l].parts = out[l].parts \o Parts(m)
                \/ /\ l = 0 \/ out[l].role # Side(m)
                   /\ Len(new) = l + 1
                   /\ \A g \in 1..l : new[g] = out[g]
                   /\ new[l + 1].role = Side(m) /\ new[l + 1].parts = Parts(m)
<1> DEFINE l == Len(out)
           new == Merged(out, m)
           P == PartsSet
<1>1. l \in Nat /\ (out # <<>> <=> l > 0) /\ Last(out) = out[l] /\ \A g \in 1..l : out[g] \in Turns
  BY DEF Last
<1>2. Side(m) \in {"system", "user", "assistant"} /\ Parts(m) \in Seq(P)
  BY MsgsOf, PartsOf DEF Side
<1> HIDE DEF P
<1>0. Turns = [role : {"system", "user", "assistant"}, parts : Seq(P)]
  BY DEF Turns, P
<1>3. CASE l > 0 /\ out[l].role = Side(m)
  <2> DEFINE joined == out[l].parts \o Parts(m)
             turn == [out[l] EXCEPT !.parts = joined]
  <2>1. out[l] \in Turns /\ l \in 1..l
    BY <1>1, <1>3
  <2>2. out[l].parts \in Seq(P)
    BY <1>0, <2>1
  <2>3. joined \in Seq(P)
    BY <1>2, <2>2, Joined
  <2>4. new = [out EXCEPT ![l] = turn]
    BY <1>1, <1>3, Zenon DEF Merged
  <2> HIDE DEF joined
  <2>5. turn \in Turns /\ turn.role = out[l].role /\ turn.parts = joined
    BY <1>0, <2>1, <2>3
  <2> HIDE DEF turn, new, l
  <2>6. new \in Seq(Turns) /\ Len(new) = l /\ new[l] = turn /\ \A g \in 1..l : g < l => new[g] = out[g]
    <3> DEFINE T == Turns
    <3> HIDE DEF T
    <3>1. out \in Seq(T) /\ turn \in T /\ l \in 1..Len(out) /\ Len(out) = l
      BY <2>1, <2>5 DEF T, l
    <3>2. [out EXCEPT ![l] = turn] \in Seq(T)
      BY <3>1
    <3>3. Len([out EXCEPT ![l] = turn]) = Len(out)
      BY <3>1
    <3>4. [out EXCEPT ![l] = turn][l] = turn /\ \A g \in 1..l : g < l => [out EXCEPT ![l] = turn][g] = out[g]
      BY <3>1
    <3> QED BY <2>4, <3>1, <3>2, <3>3, <3>4 DEF T
  <2>7. new[l].role = Side(m) /\ new[l].parts = joined
    BY <1>3, <2>5, <2>6
  <2> QED BY <1>1, <1>3, <2>6, <2>7 DEF joined, new, l
<1>4. CASE l = 0 \/ out[l].role # Side(m)
  <2> DEFINE turn == [role |-> Side(m), parts |-> Parts(m)]
  <2>1. turn \in Turns
    BY <1>0, <1>2
  <2>2. new = Append(out, turn)
    BY <1>1, <1>4 DEF Merged
  <2>3. turn.role = Side(m) /\ turn.parts = Parts(m)
    OBVIOUS
  <2> HIDE DEF turn, new, l
  <2>4. new \in Seq(Turns) /\ Len(new) = l + 1 /\ new[l + 1] = turn /\ \A g \in 1..l : new[g] = out[g]
    BY <2>1, <2>2, AppendProperties DEF l
  <2> QED BY <1>1, <1>4, <2>3, <2>4 DEF new, l
<1> QED BY <1>1, <1>3, <1>4

MergeRun(h, ms) == /\ h \in [0..Len(ms) -> Seq(Turns)] /\ h[0] = <<>>
                   /\ \A k \in 1..Len(ms) : h[k] = Merged(h[k - 1], ms[k])

\* The turns are where the run of the messages ends.
LEMMA MergeRuns ==
  ASSUME NEW ms \in Seq(Msgs)
  PROVE  \E h : MergeRun(h, ms) /\ Merge(ms) = h[Len(ms)]
<1> DEFINE n == Len(ms)
           V == Seq(Turns)
           step == [p \in (1..n) \X V |-> Merged(p[2], ms[p[1]])]
           Is(g) == g = [s \in SUBSET DOMAIN ms |->
                           IF s = {} THEN <<>> ELSE LET x == Max(s) IN Merged(g[s \ {x}], ms[x])]
           iter == CHOOSE g : Is(g)
<1>0. n \in Nat /\ DOMAIN ms = 1..n /\ \A k \in 1..n : \A v \in V : Merged(v, ms[k]) \in V
  <2>1. n \in Nat /\ DOMAIN ms = 1..n /\ \A k \in 1..n : ms[k] \in Msgs
    OBVIOUS
  <2> QED BY <2>1, MergedOf
<1>1. Steps(step, 1..n, V) /\ <<>> \in V
  BY <1>0, EmptySeq DEF Steps
<1>2. Is(iter)
  <2>1. PICK g : Unfolded(g, step, <<>>, n, V)
    <3> HIDE DEF step, V
    <3> QED BY <1>0, <1>1, RunExists
  <2>2. ASSUME NEW s \in SUBSET (1..n)
        PROVE  g[s] = IF s = {} THEN <<>> ELSE LET x == Max(s) IN Merged(g[s \ {x}], ms[x])
    <3>1. CASE s = {}
      BY <2>1, <3>1 DEF Unfolded
    <3>2. CASE s # {}
      <4>1. g[s] = step[<<Max(s), g[s \ {Max(s)}]>>] /\ g[s \ {Max(s)}] \in V
        BY <2>1, <3>2 DEF Unfolded
      <4>2. Max(s) \in 1..n
        BY <1>0, <3>2, MaxIn
      <4>3. g[s] = Merged(g[s \ {Max(s)}], ms[Max(s)])
        BY <4>1, <4>2
      <4> QED BY <3>2, <4>3
    <3> QED BY <3>1, <3>2
  <2>3. Is(g)
    BY <1>0, <2>1, <2>2 DEF Unfolded
  <2> HIDE DEF Is
  <2> QED BY <2>3
<1>3. Merge(ms) = iter[1..n]
  BY <1>0 DEF Merge, FoldLeft, MapThenFoldSet
<1> HIDE DEF iter
<1>4. iter[{}] = <<>>
  BY <1>2
<1>5. \A s \in (SUBSET (1..n)) \ {{}} :
        iter[s \ {Max(s)}] \in V => iter[s] = step[<<Max(s), iter[s \ {Max(s)}]>>]
  <2> SUFFICES ASSUME NEW s \in (SUBSET (1..n)) \ {{}}, iter[s \ {Max(s)}] \in V
               PROVE  iter[s] = step[<<Max(s), iter[s \ {Max(s)}]>>]
    OBVIOUS
  <2>1. Max(s) \in 1..n
    BY <1>0, MaxIn
  <2>2. iter[s] = Merged(iter[s \ {Max(s)}], ms[Max(s)])
    BY <1>0, <1>2
  <2> QED BY <2>1, <2>2
<1>6. PICK h : Run(h, step, <<>>, n, V) /\ h[n] = iter[1..n]
  <2>1. Unwinds(iter, step, <<>>, n, V)
    BY <1>4, <1>5 DEF Unwinds
  <2> HIDE DEF step, V, n
  <2> QED BY <1>0, <1>1, <2>1, RunOf
<1>7. h \in [0..n -> V] /\ h[0] = <<>>
  BY <1>6 DEF Run
<1>8. ASSUME NEW k \in 1..n PROVE h[k] = Merged(h[k - 1], ms[k])
  <2>1. h[k] = step[<<k, h[k - 1]>>] /\ h[k - 1] \in V
    <3> HIDE DEF step, V, n
    <3> QED BY <1>0, <1>6 DEF Run
  <2> QED BY <2>1
<1> QED BY <1>3, <1>6, <1>7, <1>8 DEF MergeRun

\* Turn by turn.
LEMMA MergeMore ==
  /\ Merge(<<>>) = <<>>
  /\ \A s \in Seq(Msgs) : \A m \in Msgs : Merge(Append(s, m)) = Merged(Merge(s), m) /\ Merge(s) \in Seq(Turns)
<1>1. Merge(<<>>) = <<>>
  <2>1. <<>> \in Seq(Msgs) /\ Len(<<>>) = 0
    BY EmptySeq
  <2>2. PICK h : MergeRun(h, <<>>) /\ Merge(<<>>) = h[Len(<<>>)]
    BY <2>1, MergeRuns
  <2> QED BY <2>1, <2>2 DEF MergeRun
<1>2. ASSUME NEW s \in Seq(Msgs), NEW m \in Msgs
      PROVE  Merge(Append(s, m)) = Merged(Merge(s), m) /\ Merge(s) \in Seq(Turns)
  <2> DEFINE t == Append(s, m)
             n == Len(s)
  <2>1. /\ t \in Seq(Msgs) /\ n \in Nat /\ Len(t) = n + 1 /\ t[n + 1] = m
        /\ \A k \in 1..n : t[k] = s[k]
    BY AppendProperties
  <2> HIDE DEF t
  <2>2. PICK f : MergeRun(f, s) /\ Merge(s) = f[n]
    BY MergeRuns
  <2>3. PICK h : MergeRun(h, t) /\ Merge(t) = h[n + 1]
    BY <2>1, MergeRuns
  <2>4. /\ f \in [0..n -> Seq(Turns)] /\ f[0] = <<>>
        /\ \A k \in 1..n : f[k] = Merged(f[k - 1], s[k])
    BY <2>2 DEF MergeRun
  <2>5. /\ h[0] = <<>> /\ \A k \in 1..(n + 1) : h[k] = Merged(h[k - 1], t[k])
    BY <2>1, <2>3 DEF MergeRun
  <2> HIDE DEF n
  <2> DEFINE G == {k \in Nat : k <= n => h[k] = f[k]}
  <2>6. 0 \in G
    BY <2>4, <2>5
  <2>7. ASSUME NEW k \in Nat, k \in G PROVE k + 1 \in G
    <3> SUFFICES ASSUME k + 1 <= n PROVE h[k + 1] = f[k + 1]
      OBVIOUS
    <3>1. k + 1 \in 1..n /\ k + 1 \in 1..(n + 1) /\ (k + 1) - 1 = k /\ h[k] = f[k]
      BY <2>1, <2>7
    <3> QED BY <2>1, <2>4, <2>5, <3>1
  <2>8. Nat \subseteq G
    <3> HIDE DEF G
    <3> QED BY <2>6, <2>7, NatSetInduction
  <2>9. h[n] = f[n]
    BY <2>1, <2>8
  <2>10. n + 1 \in 1..(n + 1) /\ (n + 1) - 1 = n /\ n \in 0..n
    BY <2>1
  <2>11. h[n + 1] = Merged(h[n], m)
    BY <2>1, <2>5, <2>10
  <2> QED BY <2>2, <2>3, <2>4, <2>9, <2>10, <2>11 DEF t
<1> QED BY <1>1, <1>2

\* What is sent, message by message.
SentRun(f, ms, K) ==
  /\ f \in [0..Len(ms) -> Seq(Turns)] /\ f[0] = <<>>
  /\ \A k \in 1..Len(ms) : f[k] = IF ms[k] \in K THEN Merged(f[k - 1], ms[k]) ELSE f[k - 1]

\* The same for the messages that are said.
LEMMA SentRuns ==
  ASSUME NEW ms \in Seq(Msgs), NEW K
  PROVE  \E f : SentRun(f, ms, K) /\ Merge(Among(ms, K)) = f[Len(ms)]
<1> DEFINE n == Len(ms)
<1>1. PICK a : AmongRun(a, ms, K, Msgs) /\ Among(ms, K) = a[n]
  BY AmongRuns
<1>2. n \in Nat /\ \A k \in 1..n : ms[k] \in Msgs
  OBVIOUS
<1>3. /\ a \in [0..n -> Seq(Msgs)] /\ a[0] = <<>>
      /\ \A k \in 1..n : a[k] = IF ms[k] \in K THEN Append(a[k - 1], ms[k]) ELSE a[k - 1]
  BY <1>1 DEF AmongRun
<1> DEFINE f == [k \in 0..n |-> Merge(a[k])]
<1> HIDE DEF n
<1>4. f \in [0..n -> Seq(Turns)] /\ \A k \in 0..n : f[k] = Merge(a[k]) /\ a[k] \in Seq(Msgs)
  <2>1. \A k \in 0..n : a[k] \in Seq(Msgs)
    BY <1>3
  <2>2. \A s \in Seq(Msgs) : Merge(s) \in Seq(Turns)
    <3> SUFFICES ASSUME NEW s \in Seq(Msgs) PROVE Merge(s) \in Seq(Turns)
      OBVIOUS
    <3>1. PICK h : MergeRun(h, s) /\ Merge(s) = h[Len(s)]
      BY MergeRuns
    <3>2. Len(s) \in 0..Len(s)
      OBVIOUS
    <3> QED BY <3>1, <3>2 DEF MergeRun
  <2> QED BY <2>1, <2>2
<1> HIDE DEF f
<1>5. f[0] = <<>>
  BY <1>2, <1>3, <1>4, MergeMore
<1>6. ASSUME NEW k \in 1..n
      PROVE  f[k] = IF ms[k] \in K THEN Merged(f[k - 1], ms[k]) ELSE f[k - 1]
  <2>1. k \in 0..n /\ k - 1 \in 0..n
    BY <1>2
  <2>2. a[k] = IF ms[k] \in K THEN Append(a[k - 1], ms[k]) ELSE a[k - 1]
    BY <1>3
  <2>3. f[k] = Merge(a[k]) /\ f[k - 1] = Merge(a[k - 1]) /\ a[k - 1] \in Seq(Msgs) /\ ms[k] \in Msgs
    BY <1>2, <1>4, <2>1
  <2>4. Merge(Append(a[k - 1], ms[k])) = Merged(Merge(a[k - 1]), ms[k])
    BY <2>3, MergeMore
  <2> QED BY <2>2, <2>3, <2>4
<1>7. n \in 0..n
  BY <1>2
<1> QED BY <1>1, <1>4, <1>5, <1>6, <1>7 DEF SentRun, n

---------------------------------------------------------------------------
(* What the turns of a merged conversation hold.                           *)

\* What the parts of a kind name.
LEMMA NamedOf ==
  ASSUME NEW parts \in Seq(PartsSet), NEW kind, NEW x
  PROVE  x \in Named(parts, kind) <=> \E i \in 1..Len(parts) : parts[i] = <<kind, x>>
<1>1. \A i \in 1..Len(parts) : parts[i] \in PartsSet
  OBVIOUS
<1>2. ToSet(parts) = {parts[i] : i \in 1..Len(parts)}
  BY DEF ToSet
<1>3. ASSUME x \in Named(parts, kind) PROVE \E i \in 1..Len(parts) : parts[i] = <<kind, x>>
  <2>1. PICK p \in ToSet(parts) : p[1] = kind /\ x = p[2]
    BY <1>3 DEF Named
  <2>2. PICK i \in 1..Len(parts) : p = parts[i]
    BY <1>2, <2>1
  <2>3. p \in PartsSet
    BY <1>1, <2>2
  <2>4. p = <<p[1], p[2]>>
    BY <2>3 DEF PartsSet
  <2> QED BY <2>1, <2>2, <2>4
<1>4. ASSUME NEW i \in 1..Len(parts), parts[i] = <<kind, x>> PROVE x \in Named(parts, kind)
  <2>1. parts[i] \in ToSet(parts) /\ parts[i][1] = kind /\ parts[i][2] = x
    BY <1>2, <1>4
  <2> QED BY <2>1 DEF Named
<1> QED BY <1>3, <1>4

\* A reply has as many calls as it counts.
LEMMA CallsCounted ==
  ASSUME NEW m \in Msgs
  PROVE  /\ Cardinality(CallsOf(m)) = m.calls
         /\ \A x : x \in CallsOf(m) <=> \E k \in 1..m.calls : x = <<m.n, k>>
<1>1. m.calls \in Nat
  BY MsgsOf
<1> DEFINE c == m.calls
           f == [i \in 1..c |-> <<m.n, i>>]
<1>2. \A x : x \in CallsOf(m) <=> \E k \in 1..c : x = <<m.n, k>>
  BY DEF CallsOf
<1>3. f \in Bijection(1..c, CallsOf(m))
  <2>1. f \in [1..c -> CallsOf(m)]
    BY <1>2
  <2>2. \A a, b \in 1..c : f[a] = f[b] => a = b
    OBVIOUS
  <2>3. \A x \in CallsOf(m) : \E a \in 1..c : f[a] = x
    BY <1>2
  <2> HIDE DEF f
  <2>4. IsInjective(f)
    BY <2>1, <2>2 DEF IsInjective
  <2> QED BY <2>1, <2>3, <2>4 DEF Bijection, Injection, Surjection
<1>4. ExistsBijection(1..c, CallsOf(m))
  BY <1>3 DEF ExistsBijection
<1>5. Cardinality(CallsOf(m)) = c
  <2> HIDE DEF c
  <2>1. c \in Nat
    BY <1>1 DEF c
  <2> QED BY <1>4, <2>1, FS_CountingElements
<1> QED BY <1>2, <1>5

\* The turn after a message that called: some of the results, then all of
\* them and text behind them.
Begins(parts, m, d) == Len(parts) = d /\ \A i \in 1..d : parts[i] = <<"result", <<m.n, i>>>>
Filled(parts, m) == /\ m.calls <= Len(parts)
                    /\ \A i \in 1..m.calls : parts[i] = <<"result", <<m.n, i>>>>
                    /\ \A i \in 1..Len(parts) : i > m.calls => parts[i][1] = "text"

\* A turn filled with the results of a reply holds these and no call.
LEMMA FilledMeets ==
  ASSUME NEW parts \in Seq(PartsSet), NEW m \in Msgs, Filled(parts, m)
  PROVE  /\ Named(parts, "result") = CallsOf(m) /\ Named(parts, "use") = {}
         /\ \A k \in 1..Cardinality(CallsOf(m)) : parts[k][1] = "result"
<1>1. m.calls \in Nat /\ Len(parts) \in Nat
  BY MsgsOf
<1>2. ASSUME NEW x PROVE x \in Named(parts, "result") <=> x \in CallsOf(m)
  <2>1. ASSUME x \in Named(parts, "result") PROVE x \in CallsOf(m)
    <3>1. PICK i \in 1..Len(parts) : parts[i] = <<"result", x>>
      BY <2>1, NamedOf
    <3>2. i \in 1..m.calls
      BY <1>1, <3>1 DEF Filled
    <3>3. x = <<m.n, i>>
      BY <3>1, <3>2 DEF Filled
    <3> QED BY <3>2, <3>3, CallsCounted
  <2>2. ASSUME x \in CallsOf(m) PROVE x \in Named(parts, "result")
    <3>1. PICK k \in 1..m.calls : x = <<m.n, k>>
      BY <2>2, CallsCounted
    <3>2. k \in 1..Len(parts) /\ parts[k] = <<"result", x>>
      BY <1>1, <3>1 DEF Filled
    <3> QED BY <3>2, NamedOf
  <2> QED BY <2>1, <2>2
<1>3. ASSUME NEW x \in Named(parts, "use") PROVE FALSE
  <2>1. PICK i \in 1..Len(parts) : parts[i] = <<"use", x>>
    BY <1>3, NamedOf
  <2>2. CASE i <= m.calls
    BY <1>1, <2>1, <2>2 DEF Filled
  <2>3. CASE i > m.calls
    BY <2>1, <2>3 DEF Filled
  <2> QED BY <1>1, <2>2, <2>3
<1>4. \A k \in 1..Cardinality(CallsOf(m)) : parts[k][1] = "result"
  BY CallsCounted DEF Filled
<1> QED BY <1>2, <1>3, <1>4

\* A reply holds its calls and no result.
LEMMA AnswerHolds ==
  ASSUME NEW m \in Msgs, m.role = "assistant"
  PROVE  Named(Parts(m), "result") = {} /\ Named(Parts(m), "use") = CallsOf(m)
<1> DEFINE p == Parts(m)
<1>1. /\ p \in Seq(PartsSet)
      /\ \A i \in 1..Len(p) : p[i] = <<"text", <<0, 0>>>> \/ \E k \in 1..m.calls : p[i] = <<"use", <<m.n, k>>>>
      /\ \A k \in 1..m.calls : \E i \in 1..Len(p) : p[i] = <<"use", <<m.n, k>>>>
  BY PartsOf
<1> HIDE DEF p
<1>2. ASSUME NEW x \in Named(p, "result") PROVE FALSE
  <2>1. PICK i \in 1..Len(p) : p[i] = <<"result", x>>
    BY <1>1, <1>2, NamedOf
  <2> QED BY <1>1, <2>1
<1>3. ASSUME NEW x PROVE x \in Named(p, "use") <=> x \in CallsOf(m)
  <2>1. ASSUME x \in Named(p, "use") PROVE x \in CallsOf(m)
    <3>1. PICK i \in 1..Len(p) : p[i] = <<"use", x>>
      BY <1>1, <2>1, NamedOf
    <3>2. PICK k \in 1..m.calls : p[i] = <<"use", <<m.n, k>>>>
      BY <1>1, <3>1
    <3>3. x = <<m.n, k>>
      BY <3>1, <3>2
    <3> QED BY <3>3, CallsCounted
  <2>2. ASSUME x \in CallsOf(m) PROVE x \in Named(p, "use")
    <3>1. PICK k \in 1..m.calls : x = <<m.n, k>>
      BY <2>2, CallsCounted
    <3>2. PICK i \in 1..Len(p) : p[i] = <<"use", x>>
      BY <1>1, <3>1
    <3> QED BY <1>1, <3>2, NamedOf
  <2> QED BY <2>1, <2>2
<1> QED BY <1>2, <1>3 DEF p

\* One more part.
LEMMA OneMore ==
  ASSUME NEW parts \in Seq(PartsSet), NEW m \in Msgs, Len(Parts(m)) = 1, NEW more, more = parts \o Parts(m)
  PROVE  /\ more \in Seq(PartsSet) /\ Len(parts) \in Nat /\ Len(more) = Len(parts) + 1
         /\ \A i \in 1..Len(parts) : more[i] = parts[i]
         /\ more[Len(parts) + 1] = Parts(m)[1]
<1> DEFINE t == Parts(m)
<1>1. t \in Seq(PartsSet) /\ Len(t) = 1 /\ more = parts \o t
  BY PartsOf
<1> HIDE DEF t
<1>2. /\ more \in Seq(PartsSet) /\ Len(parts) \in Nat /\ Len(more) = Len(parts) + Len(t)
      /\ \A i \in 1..Len(parts) : more[i] = parts[i]
      /\ \A k \in 1..Len(t) : more[Len(parts) + k] = t[k]
  <2> DEFINE P == PartsSet
  <2> HIDE DEF P
  <2>1. parts \in Seq(P) /\ t \in Seq(P) /\ more = parts \o t
    BY <1>1 DEF P
  <2> QED BY <2>1, JoinedAs DEF P
<1>3. 1 \in 1..Len(t)
  BY <1>1
<1> QED BY <1>1, <1>2, <1>3 DEF t

\* A text behind the results, and a result behind those before it.
LEMMA TextMore ==
  ASSUME NEW parts \in Seq(PartsSet), NEW c \in Msgs, Filled(parts, c),
         NEW m \in Msgs, m.role = "user", m.text, m.calls = 0, NEW more, more = parts \o Parts(m)
  PROVE  Filled(more, c)
<1>1. Len(Parts(m)) = 1 /\ Parts(m)[1] = <<"text", <<0, 0>>>>
  <2>1. Len(Parts(m)) = 1 /\ \A i \in 1..Len(Parts(m)) :
           Parts(m)[i] = <<"text", <<0, 0>>>> \/ \E k \in 1..m.calls : Parts(m)[i] = <<"use", <<m.n, k>>>>
    BY PartsOf
  <2> QED BY <2>1
<1>2. /\ Len(parts) \in Nat /\ Len(more) = Len(parts) + 1
      /\ \A i \in 1..Len(parts) : more[i] = parts[i]
      /\ more[Len(parts) + 1] = <<"text", <<0, 0>>>>
  BY <1>1, OneMore
<1>3. c.calls \in Nat
  BY MsgsOf
<1>4. \A i \in 1..c.calls : i \in 1..Len(parts)
  BY <1>2, <1>3 DEF Filled
<1>5. \A i \in 1..Len(more) : i \in 1..Len(parts) \/ i = Len(parts) + 1
  BY <1>2
<1>6. c.calls <= Len(more)
  BY <1>2, <1>3 DEF Filled
<1> QED BY <1>2, <1>4, <1>5, <1>6 DEF Filled

\* The next result is one more.
LEMMA ResultMore ==
  ASSUME NEW parts \in Seq(PartsSet), NEW c \in Msgs, NEW d \in Nat, Begins(parts, c, d), d < c.calls,
         NEW m \in Msgs, m.role = "tool", m.of = <<c.n, d + 1>>, NEW more, more = parts \o Parts(m)
  PROVE  Begins(more, c, d + 1) /\ (d + 1 = c.calls => Filled(more, c))
<1>1. Len(Parts(m)) = 1 /\ Parts(m)[1] = <<"result", <<c.n, d + 1>>>>
  BY PartsOf
<1>2. /\ Len(more) = d + 1
      /\ \A i \in 1..d : more[i] = parts[i]
      /\ more[d + 1] = <<"result", <<c.n, d + 1>>>>
  BY <1>1, OneMore DEF Begins
<1>3. \A i \in 1..(d + 1) : i \in 1..d \/ i = d + 1
  OBVIOUS
<1>4. Begins(more, c, d + 1)
  BY <1>2, <1>3 DEF Begins
<1>5. d + 1 = c.calls => Filled(more, c)
  BY <1>2, <1>4 DEF Begins, Filled
<1> QED BY <1>4, <1>5

\* The results so far of the calls of a message d messages ago.
Holds(parts, m, d) == \/ d < m.calls /\ Begins(parts, m, d)
                      \/ m.calls <= d /\ Filled(parts, m)

\* What may come d + 1 messages after a message that is no result.
Follows(x, m, d) == \/ x.role = "tool" /\ d < m.calls /\ x.of = <<m.n, d + 1>>
                    \/ x.role = "user" /\ x.text /\ x.calls = 0 /\ m.calls <= d

\* Nothing holds no result.
LEMMA HoldsNone == ASSUME NEW m \in Msgs PROVE Holds(<<>>, m, 0)
<1>1. m.calls \in Nat /\ Len(<<>>) = 0
  BY MsgsOf
<1> QED BY <1>1 DEF Holds, Begins, Filled

\* What follows a reply adds to the turn that answers it.
LEMMA HoldsMore ==
  ASSUME NEW parts \in Seq(PartsSet), NEW m \in Msgs, NEW d \in Nat, Holds(parts, m, d),
         NEW x \in Msgs, Follows(x, m, d), NEW more, more = Joint(parts, x)
  PROVE  Holds(more, m, d + 1)
<1>0. m.calls \in Nat
  BY MsgsOf
<1>3. more = parts \o Parts(x)
  BY DEF Joint
<1>1. CASE x.role = "tool" /\ d < m.calls /\ x.of = <<m.n, d + 1>>
  <2>1. Begins(parts, m, d)
    BY <1>0, <1>1 DEF Holds
  <2>2. Begins(more, m, d + 1) /\ (d + 1 = m.calls => Filled(more, m))
    BY <1>1, <1>3, <2>1, ResultMore
  <2>3. d + 1 < m.calls \/ d + 1 = m.calls
    BY <1>0, <1>1
  <2>4. d + 1 = m.calls => m.calls <= d + 1
    BY <1>0
  <2> QED BY <2>2, <2>3, <2>4 DEF Holds
<1>2. CASE x.role = "user" /\ x.text /\ x.calls = 0 /\ m.calls <= d
  <2>1. Filled(parts, m)
    BY <1>0, <1>2 DEF Holds
  <2>2. Filled(more, m)
    BY <1>2, <1>3, <2>1, TextMore
  <2>3. m.calls <= d + 1
    BY <1>0, <1>2
  <2> QED BY <2>2, <2>3 DEF Holds
<1> QED BY <1>1, <1>2 DEF Follows

---------------------------------------------------------------------------
(* The turns, one after the other.                                         *)

\* What turn g answers, and that it does.
Before(out, g) == IF g = 1 THEN {} ELSE Named(out[g - 1].parts, "use")
Opened(out, g) ==
  /\ g > 1 => out[g].role # out[g - 1].role
  /\ Named(out[g].parts, "result") = Before(out, g)
  /\ \A k \in 1..Cardinality(Before(out, g)) : out[g].parts[k][1] = "result"

\* Every turn does but perhaps the last.
Begun(out, l) ==
  /\ out \in Seq(Turns) /\ Len(out) = l /\ l >= 1 /\ out[1].role = "user"
  /\ \A g \in 1..l : g < l => Opened(out, g)
  /\ l > 1 => out[l].role # out[l - 1].role

\* A turn and the one before it are all that matters to whether it opens well.
LEMMA OpenedSame ==
  ASSUME NEW out, NEW new, NEW g \in Nat, g >= 1, new[g] = out[g], g > 1 => new[g - 1] = out[g - 1], Opened(out, g)
  PROVE  Opened(new, g)
<1>1. Before(new, g) = Before(out, g)
  BY DEF Before
<1> QED BY <1>1 DEF Opened

\* A message that joins the last turn leaves the others as they are.
LEMMA TurnGrows ==
  ASSUME NEW l \in Nat, NEW out, Begun(out, l), NEW new \in Seq(Turns), Len(new) = l,
         \A g \in 1..l : g < l => new[g] = out[g], new[l].role = out[l].role
  PROVE  Begun(new, l) /\ Before(new, l) = Before(out, l)
<1>1. l >= 1 /\ (l > 1 => l - 1 \in 1..l /\ l - 1 < l /\ 1 \in 1..l)
  BY DEF Begun
<1>2. ASSUME NEW g \in 1..l, g < l PROVE Opened(new, g)
  <2>1. g \in Nat /\ g >= 1 /\ new[g] = out[g] /\ (g > 1 => g - 1 \in 1..l /\ g - 1 < l)
    BY <1>2
  <2>2. g > 1 => new[g - 1] = out[g - 1]
    BY <2>1
  <2>3. Opened(out, g)
    BY <1>2 DEF Begun
  <2> QED BY <2>1, <2>2, <2>3, OpenedSame
<1>3. new[1].role = "user"
  <2>1. l = 1 \/ 1 < l
    BY <1>1
  <2> QED BY <1>1, <2>1 DEF Begun
<1>4. l > 1 => new[l].role # new[l - 1].role
  BY <1>1 DEF Begun
<1>5. Before(new, l) = Before(out, l)
  <2>1. l = 1 \/ l > 1
    BY <1>1
  <2> QED BY <1>1, <2>1 DEF Before
<1> QED BY <1>1, <1>2, <1>3, <1>4, <1>5 DEF Begun

\* A turn of the other side follows what has been opened.
LEMMA TurnFollows ==
  ASSUME NEW l \in Nat, NEW out, Begun(out, l), Opened(out, l), NEW new \in Seq(Turns), Len(new) = l + 1,
         \A g \in 1..l : new[g] = out[g], new[l + 1].role # out[l].role
  PROVE  Begun(new, l + 1) /\ Before(new, l + 1) = Named(out[l].parts, "use")
<1>1. l >= 1 /\ (l + 1) - 1 = l /\ l \in 1..l /\ 1 \in 1..l /\ l + 1 > 1 /\ l + 1 # 1
  BY DEF Begun
<1>2. ASSUME NEW g \in 1..(l + 1), g < l + 1 PROVE Opened(new, g)
  <2>1. g \in Nat /\ g >= 1 /\ g \in 1..l /\ (g > 1 => g - 1 \in 1..l)
    BY <1>2
  <2>2. new[g] = out[g] /\ (g > 1 => new[g - 1] = out[g - 1])
    BY <2>1
  <2>3. g < l \/ g = l
    BY <2>1
  <2>4. Opened(out, g)
    BY <2>1, <2>3 DEF Begun
  <2> QED BY <2>1, <2>2, <2>4, OpenedSame
<1>3. new[1].role = "user" /\ new[l + 1].role # new[(l + 1) - 1].role
  BY <1>1 DEF Begun
<1>4. Before(new, l + 1) = Named(out[l].parts, "use")
  BY <1>1 DEF Before
<1> QED BY <1>1, <1>2, <1>3, <1>4 DEF Begun

\* A turn with all the results answers the one before it.
LEMMA FilledOpens ==
  ASSUME NEW l \in Nat, NEW out, Begun(out, l), NEW m \in Msgs, Before(out, l) = CallsOf(m), Filled(out[l].parts, m)
  PROVE  Opened(out, l) /\ Named(out[l].parts, "use") = {}
<1>1. out[l].parts \in Seq(PartsSet)
  <2>1. out[l] \in Turns
    BY DEF Begun
  <2> DEFINE P == Seq(PartsSet)
  <2> HIDE DEF P
  <2>2. Turns = [role : {"system", "user", "assistant"}, parts : P]
    BY DEF Turns, P
  <2> QED BY <2>1, <2>2 DEF P
<1>2. /\ Named(out[l].parts, "result") = CallsOf(m) /\ Named(out[l].parts, "use") = {}
      /\ \A k \in 1..Cardinality(CallsOf(m)) : out[l].parts[k][1] = "result"
  BY <1>1, FilledMeets
<1>3. l > 1 => out[l].role # out[l - 1].role
  BY DEF Begun
<1> QED BY <1>2, <1>3 DEF Opened

---------------------------------------------------------------------------
(* The conversation, one message after the other.                          *)

Talked(ms) ==
  /\ ms \in Seq(Msgs) /\ Len(ms) >= 2 /\ Formed(ms)
  /\ ms[1].role = "system" /\ \A k \in 1..Len(ms) : k > 1 => ms[k].role # "system"
  /\ ms[2].role = "user"

\* A provider passes over the system's messages and over answers that say nothing.
Heard(ms, K) ==
  /\ ms[1] \notin K
  /\ \A k \in 1..Len(ms) : k > 1 /\ ms[k] \notin K => ms[k].role = "assistant" /\ ms[k].calls = 0

\* After an answer come its results, then what the user says.
LEMMA NextFollows ==
  ASSUME NEW ms, Talked(ms), NEW k \in Nat, k >= 1, k < Len(ms), NEW a \in 1..k, ms[a].role # "tool",
         \A i \in 1..k : i > a => ms[i].calls = 0, ms[k + 1].role # "assistant"
  PROVE  Follows(ms[k + 1], ms[a], k - a)
<1>1. /\ Len(ms) \in Nat /\ k + 1 \in 1..Len(ms) /\ k + 1 > 1 /\ a \in 1..Len(ms)
      /\ (k + 1) - 1 = k /\ k - a \in Nat /\ (k - a) + 1 = (k + 1) - a
  BY DEF Talked
<1>2. \A i \in 1..Len(ms) : ms[i] \in Msgs /\ ms[i].calls \in Nat
  BY MsgsOf DEF Talked
<1>3. /\ ToolsCalled(ms) /\ CallsMet(ms) /\ UsersSpeak(ms)
      /\ ms[k + 1].role # "system"
  BY <1>1 DEF Talked, Formed
<1>4. ms[k + 1].role \in {"user", "tool"}
  BY <1>1, <1>2, <1>3, MsgsOf
<1> DEFINE r == k + 1
           c == ms[a].calls
<1>5. c \in Nat
  BY <1>1, <1>2
<1>6. CASE ms[r].role = "tool"
  <2>1. PICK j \in 1..(r - 1) : r - j <= ms[j].calls
    BY <1>1, <1>3, <1>6 DEF ToolsCalled
  <2>2. j \in 1..k /\ j \in 1..Len(ms)
    BY <1>1, <2>1
  <2> DEFINE cj == ms[j].calls
  <2>3. cj \in Nat
    BY <1>2, <2>2
  <2>4. cj > 0 /\ r - j <= cj /\ j < r /\ j \in Nat
    BY <2>1, <2>2, <2>3
  <2>5. \A i \in 1..ms[j].calls : ms[j + i].role = "tool" /\ ms[j + i].of = <<ms[j].n, i>>
    BY <1>3, <2>2, <2>4 DEF CallsMet
  <2>6. ~(j > a)
    BY <2>2, <2>4
  <2>7. ~(j < a)
    <3> SUFFICES ASSUME j < a PROVE FALSE
      OBVIOUS
    <3> HIDE DEF cj
    <3>1. a - j \in 1..cj /\ j + (a - j) = a
      BY <2>2, <2>3, <2>4
    <3>2. ms[j + (a - j)].role = "tool"
      BY <2>5, <3>1 DEF cj
    <3> QED BY <3>1, <3>2
  <2>8. j = a
    BY <1>1, <2>2, <2>6, <2>7
  <2> HIDE DEF c
  <2>9. k - a < c /\ (k - a) + 1 \in 1..c /\ a + ((k - a) + 1) = r
    <3>1. c \in Nat /\ a \in 1..k /\ r - a <= c /\ k \in Nat
      BY <1>5, <2>1, <2>8 DEF c
    <3> QED BY <3>1
  <2>10. ms[r].of = <<ms[a].n, (k - a) + 1>>
    <3>1. ms[a + ((k - a) + 1)].of = <<ms[a].n, (k - a) + 1>>
      BY <2>5, <2>8, <2>9 DEF c
    <3> QED BY <2>9, <3>1
  <2> QED BY <1>6, <2>9, <2>10 DEF Follows, c
<1>7. CASE ms[r].role = "user"
  <2>1. ms[r].text
    BY <1>1, <1>3, <1>7 DEF UsersSpeak
  <2>2. ms[r].calls = 0
    <3>1. ms[r].calls > 0 => ms[r].role = "assistant"
      BY <1>1, <1>3 DEF CallsMet
    <3> QED BY <1>1, <1>2, <1>7, <3>1
  <2>3. c <= k - a
    <3> SUFFICES ASSUME ~(c <= k - a) PROVE FALSE
      OBVIOUS
    <3>0. c > 0
      BY <1>1, <1>5
    <3>1. \A i \in 1..ms[a].calls : ms[a + i].role = "tool"
      BY <1>1, <1>3, <3>0 DEF CallsMet
    <3> HIDE DEF c
    <3>2. (k - a) + 1 \in 1..c /\ a + ((k - a) + 1) = r
      BY <1>1, <1>5
    <3>3. ms[a + ((k - a) + 1)].role = "tool"
      BY <3>1, <3>2 DEF c
    <3> QED BY <1>7, <3>2, <3>3
  <2> QED BY <1>7, <2>1, <2>2, <2>3 DEF Follows
<1> QED BY <1>4, <1>6, <1>7

\* The last turn is an answer, or the user's after message a.
Asks(out, l, m) == out[l].role = "assistant" /\ Opened(out, l) /\ Named(out[l].parts, "use") = CallsOf(m)
Hears(out, l, ms, a, k) ==
  /\ a \in 1..k /\ ms[a].role # "tool" /\ \A i \in 1..k : i > a => ms[i].calls = 0
  /\ out[l].role = "user" /\ Before(out, l) = CallsOf(ms[a]) /\ Holds(out[l].parts, ms[a], k - a)
Following(out, ms, k) ==
  \E l \in Nat : /\ Begun(out, l)
                 /\ \/ ms[k].role = "assistant" /\ Asks(out, l, ms[k])
                    \/ \E a \in 1..k : Hears(out, l, ms, a, k)

\* The messages of a conversation.
LEMMA TalkedOf ==
  ASSUME NEW ms, Talked(ms)
  PROVE  /\ ms \in Seq(Msgs) /\ Len(ms) \in Nat /\ Len(ms) >= 2
         /\ \A k \in 1..Len(ms) : /\ ms[k] \in Msgs /\ ms[k].calls \in Nat
                                  /\ ms[k].role # "assistant" => ms[k].calls = 0
                                  /\ ms[k].role = "assistant" => k < Len(ms) /\ ms[k + 1].role # "assistant"
<1>1. ms \in Seq(Msgs) /\ Len(ms) \in Nat /\ Len(ms) >= 2
  BY DEF Talked
<1>2. \A k \in 1..Len(ms) : ms[k] \in Msgs /\ ms[k].calls \in Nat
  BY <1>1, MsgsOf
<1>3. \A k \in 1..Len(ms) : ms[k].calls > 0 => ms[k].role = "assistant"
  BY DEF Talked, Formed, CallsMet
<1>4. \A k \in 1..Len(ms) : ms[k].role # "assistant" => ms[k].calls = 0
  BY <1>2, <1>3
<1>5. \A k \in 1..Len(ms) : ms[k].role = "assistant" => k < Len(ms) /\ ms[k + 1].role # "assistant"
  BY DEF Talked, Formed, AnswersFollowed
<1> QED BY <1>1, <1>2, <1>4, <1>5

\* Before anything but a result, all results are there.
LEMMA AllHeard ==
  ASSUME NEW ms, Talked(ms), NEW k \in Nat, k >= 1, k <= Len(ms), NEW a \in 1..k,
         k = Len(ms) \/ ms[k + 1].role # "tool"
  PROVE  ms[a].calls <= k - a
<1> DEFINE c == ms[a].calls
<1>0. a \in 1..Len(ms) /\ Len(ms) \in Nat
  BY TalkedOf
<1>1. c \in Nat
  BY <1>0, TalkedOf
<1> SUFFICES ASSUME ~(c <= k - a) PROVE FALSE
  OBVIOUS
<1>2. c > 0
  BY <1>1
<1>3. /\ a + ms[a].calls <= Len(ms)
      /\ \A i \in 1..ms[a].calls : ms[a + i].role = "tool"
  BY <1>0, <1>2 DEF Talked, Formed, CallsMet
<1> HIDE DEF c
<1>4. (k - a) + 1 \in 1..c /\ a + ((k - a) + 1) = k + 1 /\ ~(a + c <= k)
  BY <1>1
<1>5. ms[a + ((k - a) + 1)].role = "tool"
  BY <1>3, <1>4 DEF c
<1> QED BY <1>3, <1>4, <1>5 DEF c

\* The last turn has parts.
LEMMA PartsTyped ==
  ASSUME NEW l, NEW out, Begun(out, l)
  PROVE  out \in Seq(Turns) /\ Len(out) = l /\ l >= 1 /\ out[l].parts \in Seq(PartsSet)
<1>1. out \in Seq(Turns) /\ Len(out) = l /\ l >= 1
  BY DEF Begun
<1>2. out[l] \in Turns
  BY <1>1
<1> DEFINE P == Seq(PartsSet)
<1> HIDE DEF P
<1>3. Turns = [role : {"system", "user", "assistant"}, parts : P]
  BY DEF Turns, P
<1>4. out[l].parts \in P
  BY <1>2, <1>3
<1> QED BY <1>1, <1>4 DEF P

\* Some facts of MergedOf, by side.
LEMMA MergedGrows ==
  ASSUME NEW out \in Seq(Turns), NEW m \in Msgs, NEW l \in Nat, l = Len(out), l >= 1, out[l].role = Side(m), NEW new, new = Merged(out, m)
  PROVE  /\ new \in Seq(Turns) /\ Len(new) = l /\ \A g \in 1..l : g < l => new[g] = out[g]
         /\ new[l].role = Side(m) /\ new[l].parts = Joint(out[l].parts, m)
<1> DEFINE Grown(w) == /\ l > 0 /\ out[l].role = Side(m) /\ Len(w) = l
                       /\ \A g \in 1..l : g < l => w[g] = out[g]
                       /\ w[l].role = Side(m) /\ w[l].parts = out[l].parts \o Parts(m)
           Added(w) == /\ l = 0 \/ out[l].role # Side(m)
                       /\ Len(w) = l + 1
                       /\ \A g \in 1..l : w[g] = out[g]
                       /\ w[l + 1].role = Side(m) /\ w[l + 1].parts = Parts(m)
<1>1. new \in Seq(Turns) /\ (Grown(new) \/ Added(new))
  BY MergedOf, Zenon
<1>2. ~Added(new)
  BY DEF Added
<1> QED BY <1>1, <1>2 DEF Joint

\* A message of the other side opens a turn.
LEMMA MergedAdds ==
  ASSUME NEW out \in Seq(Turns), NEW m \in Msgs, NEW l \in Nat, l = Len(out), l = 0 \/ out[l].role # Side(m), NEW new, new = Merged(out, m)
  PROVE  /\ new \in Seq(Turns) /\ Len(new) = l + 1 /\ \A g \in 1..l : new[g] = out[g]
         /\ new[l + 1].role = Side(m) /\ new[l + 1].parts = Parts(m)
<1> DEFINE Grown(w) == /\ l > 0 /\ out[l].role = Side(m) /\ Len(w) = l
                       /\ \A g \in 1..l : g < l => w[g] = out[g]
                       /\ w[l].role = Side(m) /\ w[l].parts = out[l].parts \o Parts(m)
           Added(w) == /\ l = 0 \/ out[l].role # Side(m)
                       /\ Len(w) = l + 1
                       /\ \A g \in 1..l : w[g] = out[g]
                       /\ w[l + 1].role = Side(m) /\ w[l + 1].parts = Parts(m)
<1>1. new \in Seq(Turns) /\ (Grown(new) \/ Added(new))
  BY MergedOf, Zenon
<1>2. ~Grown(new)
  BY DEF Grown
<1> QED BY <1>1, <1>2

\* Whose results or texts come first in a turn of the user.
LEMMA HoldsFirst ==
  ASSUME NEW m \in Msgs, NEW x \in Msgs, Follows(x, m, 0)
  PROVE  Holds(Parts(x), m, 1)
<1> DEFINE e == <<>>
           p == Parts(x)
<1>1. e \in Seq(PartsSet) /\ Holds(e, m, 0) /\ p \in Seq(PartsSet)
  BY HoldsNone, PartsOf, EmptySeq
<1>2. p = Joint(e, x)
  BY <1>1, ConcatEmptySeq DEF Joint
<1> HIDE DEF e
<1>3. Holds(p, m, 0 + 1)
  BY <1>1, <1>2, HoldsMore DEF p
<1> QED BY <1>3 DEF p

\* A message of the user side joins the turn that answers,
LEMMA UserJoins ==
  ASSUME NEW ms, Talked(ms), NEW k \in Nat, k >= 1, k < Len(ms), NEW l \in Nat, NEW out, Begun(out, l),
         NEW a \in 1..k, Hears(out, l, ms, a, k), ms[k + 1].role # "assistant", NEW new, new = Merged(out, ms[k + 1])
  PROVE  Following(new, ms, k + 1)
<1> DEFINE x == ms[k + 1]
<1>1. k + 1 \in 1..Len(ms) /\ a \in 1..Len(ms) /\ a \in 1..(k + 1) /\ k - a \in Nat /\ (k - a) + 1 = (k + 1) - a
  BY TalkedOf
<1>2. x \in Msgs /\ ms[a] \in Msgs /\ x.calls = 0
  BY <1>1, TalkedOf
<1>3. Follows(x, ms[a], k - a)
  <2>1. ms[a].role # "tool" /\ \A i \in 1..k : i > a => ms[i].calls = 0
    BY DEF Hears
  <2> QED BY <2>1, NextFollows
<1>4. Side(x) = "user"
  BY <1>3 DEF Follows, Side
<1> HIDE DEF x
<1>5. out \in Seq(Turns) /\ Len(out) = l /\ l >= 1 /\ out[l].parts \in Seq(PartsSet) /\ out[l].role = "user"
  BY PartsTyped DEF Hears
<1>6. /\ new \in Seq(Turns) /\ Len(new) = l /\ \A g \in 1..l : g < l => new[g] = out[g]
      /\ new[l].role = "user" /\ new[l].parts = Joint(out[l].parts, x)
  <2>1. new = Merged(out, x)
    BY DEF x
  <2> QED BY <1>2, <1>4, <1>5, <2>1, MergedGrows
<1>7. Begun(new, l) /\ Before(new, l) = Before(out, l)
  BY <1>5, <1>6, TurnGrows
<1>8. Holds(new[l].parts, ms[a], (k - a) + 1)
  <2>1. Holds(out[l].parts, ms[a], k - a)
    BY DEF Hears
  <2> QED BY <1>1, <1>2, <1>3, <1>5, <1>6, <2>1, HoldsMore
<1>9. \A i \in 1..(k + 1) : i > a => ms[i].calls = 0
  <2>1. \A i \in 1..(k + 1) : i \in 1..k \/ i = k + 1
    OBVIOUS
  <2> QED BY <1>2, <2>1 DEF Hears, x
<1>10. Hears(new, l, ms, a, k + 1)
  BY <1>1, <1>6, <1>7, <1>8, <1>9 DEF Hears
<1> QED BY <1>1, <1>7, <1>10 DEF Following

\* or opens it after the reply,
LEMMA UserTurns ==
  ASSUME NEW ms, Talked(ms), NEW k \in Nat, k >= 1, k < Len(ms), NEW l \in Nat, NEW out, Begun(out, l),
         ms[k].role = "assistant", Asks(out, l, ms[k]), NEW new, new = Merged(out, ms[k + 1])
  PROVE  Following(new, ms, k + 1)
<1> DEFINE x == ms[k + 1]
<1>1. k + 1 \in 1..Len(ms) /\ k \in 1..Len(ms) /\ k \in 1..k /\ k \in 1..(k + 1) /\ k - k = 0 /\ (k + 1) - k = 1
  BY TalkedOf
<1>2. x \in Msgs /\ ms[k] \in Msgs /\ x.role # "assistant" /\ x.calls = 0
  BY <1>1, TalkedOf
<1>3. Follows(x, ms[k], 0)
  <2>1. \A i \in 1..k : i > k => ms[i].calls = 0
    OBVIOUS
  <2> QED BY <1>1, <1>2, <2>1, NextFollows
<1>4. Side(x) = "user"
  BY <1>3 DEF Follows, Side
<1> HIDE DEF x
<1>5. out \in Seq(Turns) /\ Len(out) = l /\ l >= 1 /\ out[l].role = "assistant" /\ Opened(out, l)
  BY PartsTyped DEF Asks
<1>6. /\ new \in Seq(Turns) /\ Len(new) = l + 1 /\ \A g \in 1..l : new[g] = out[g]
      /\ new[l + 1].role = "user" /\ new[l + 1].parts = Parts(x)
  <2>1. new = Merged(out, x)
    BY DEF x
  <2> QED BY <1>2, <1>4, <1>5, <2>1, MergedAdds
<1>7. Begun(new, l + 1) /\ Before(new, l + 1) = CallsOf(ms[k])
  BY <1>5, <1>6, TurnFollows DEF Asks
<1>8. Holds(new[l + 1].parts, ms[k], 1)
  BY <1>2, <1>3, <1>6, HoldsFirst
<1>9. \A i \in 1..(k + 1) : i > k => ms[i].calls = 0
  <2>1. \A i \in 1..(k + 1) : i > k => i = k + 1
    OBVIOUS
  <2> QED BY <1>2, <2>1 DEF x
<1>10. Hears(new, l + 1, ms, k, k + 1)
  BY <1>1, <1>6, <1>7, <1>8, <1>9 DEF Hears
<1>11. l + 1 \in Nat
  OBVIOUS
<1> QED BY <1>1, <1>7, <1>10, <1>11 DEF Following

\* and a reply opens a turn once all the results are there.
LEMMA AnswerTurns ==
  ASSUME NEW ms, Talked(ms), NEW k \in Nat, k >= 1, k < Len(ms), NEW l \in Nat, NEW out, Begun(out, l),
         NEW a \in 1..k, Hears(out, l, ms, a, k), ms[k + 1].role = "assistant", NEW new, new = Merged(out, ms[k + 1])
  PROVE  Following(new, ms, k + 1)
<1> DEFINE x == ms[k + 1]
<1>1. k + 1 \in 1..Len(ms) /\ a \in 1..Len(ms)
  BY TalkedOf
<1>2. x \in Msgs /\ ms[a] \in Msgs /\ x.role = "assistant" /\ Side(x) = "assistant" /\ ms[a].calls \in Nat
  BY <1>1, TalkedOf DEF Side
<1>3. ms[a].calls <= k - a
  BY AllHeard
<1> HIDE DEF x
<1>4. out \in Seq(Turns) /\ Len(out) = l /\ l >= 1 /\ out[l].role = "user"
  BY PartsTyped DEF Hears
<1>5. Filled(out[l].parts, ms[a])
  <2>1. Holds(out[l].parts, ms[a], k - a)
    BY DEF Hears
  <2>2. ~(k - a < ms[a].calls)
    BY <1>2, <1>3
  <2> QED BY <2>1, <2>2 DEF Holds
<1>6. Opened(out, l) /\ Named(out[l].parts, "use") = {}
  <2>1. Before(out, l) = CallsOf(ms[a])
    BY DEF Hears
  <2> QED BY <1>2, <1>5, <2>1, FilledOpens
<1>7. /\ new \in Seq(Turns) /\ Len(new) = l + 1 /\ \A g \in 1..l : new[g] = out[g]
      /\ new[l + 1].role = "assistant" /\ new[l + 1].parts = Parts(x)
  <2>1. new = Merged(out, x)
    BY DEF x
  <2> QED BY <1>2, <1>4, <2>1, MergedAdds
<1>8. Begun(new, l + 1) /\ Before(new, l + 1) = {}
  BY <1>4, <1>6, <1>7, TurnFollows
<1>9. Named(new[l + 1].parts, "result") = {} /\ Named(new[l + 1].parts, "use") = CallsOf(x)
  BY <1>2, <1>7, AnswerHolds
<1>10. Opened(new, l + 1)
  <2>1. l + 1 > 1 => new[l + 1].role # new[(l + 1) - 1].role
    BY <1>8 DEF Begun
  <2>2. \A i \in 1..Cardinality({}) : FALSE
    BY FS_EmptySet
  <2> QED BY <1>8, <1>9, <2>1, <2>2 DEF Opened
<1>11. Asks(new, l + 1, x) /\ l + 1 \in Nat
  BY <1>7, <1>9, <1>10 DEF Asks
<1> QED BY <1>2, <1>8, <1>11 DEF Following, x

\* An answer that calls nothing may be passed over.
LEMMA AnswerPassed ==
  ASSUME NEW ms, Talked(ms), NEW k \in Nat, k >= 1, k < Len(ms), NEW l \in Nat, NEW out, Begun(out, l),
         NEW a \in 1..k, Hears(out, l, ms, a, k), ms[k + 1].role = "assistant", ms[k + 1].calls = 0
  PROVE  Following(out, ms, k + 1)
<1>1. a \in 1..(k + 1) /\ a \in 1..Len(ms) /\ k - a \in Nat /\ (k + 1) - a = (k - a) + 1
  BY TalkedOf
<1>2. ms[a].calls <= k - a /\ ms[a].calls \in Nat
  <2>0. (k = Len(ms) \/ ms[k + 1].role # "tool") /\ k <= Len(ms)
    BY TalkedOf
  <2>1. ms[a].calls <= k - a
    BY <2>0, AllHeard, Zenon
  <2> QED BY <1>1, <2>1, TalkedOf
<1>3. Holds(out[l].parts, ms[a], (k + 1) - a)
  <2>1. Holds(out[l].parts, ms[a], k - a)
    BY DEF Hears
  <2>2. ~(k - a < ms[a].calls) /\ ms[a].calls <= (k + 1) - a
    BY <1>1, <1>2
  <2> QED BY <2>1, <2>2 DEF Holds
<1>4. \A i \in 1..(k + 1) : i > a => ms[i].calls = 0
  <2>1. \A i \in 1..(k + 1) : i \in 1..k \/ i = k + 1
    OBVIOUS
  <2> QED BY <2>1 DEF Hears
<1>5. Hears(out, l, ms, a, k + 1)
  BY <1>1, <1>3, <1>4 DEF Hears
<1> QED BY <1>1, <1>5 DEF Following

\* The turns follow the messages, one by one,
LEMMA FollowingNext ==
  ASSUME NEW ms, Talked(ms), NEW K, Heard(ms, K), NEW k \in Nat, k >= 1, k < Len(ms), NEW out, Following(out, ms, k),
         NEW new, new = IF ms[k + 1] \in K THEN Merged(out, ms[k + 1]) ELSE out
  PROVE  Following(new, ms, k + 1)
<1>1. PICK l \in Nat : /\ Begun(out, l)
                       /\ \/ ms[k].role = "assistant" /\ Asks(out, l, ms[k])
                          \/ \E a \in 1..k : Hears(out, l, ms, a, k)
  BY DEF Following
<1>2. k \in 1..Len(ms) /\ k + 1 \in 1..Len(ms) /\ k + 1 > 1
  BY TalkedOf
<1>3. ms[k + 1] \notin K => ms[k + 1].role = "assistant" /\ ms[k + 1].calls = 0
  BY <1>2 DEF Heard
<1>4. CASE ms[k].role = "assistant" /\ Asks(out, l, ms[k])
  <2>1. ms[k + 1].role # "assistant"
    BY <1>2, <1>4, TalkedOf
  <2>2. new = Merged(out, ms[k + 1])
    BY <1>3, <2>1
  <2> QED BY <1>1, <1>4, <2>2, UserTurns
<1>5. CASE \E a \in 1..k : Hears(out, l, ms, a, k)
  <2>1. PICK a \in 1..k : Hears(out, l, ms, a, k)
    BY <1>5
  <2>2. CASE ms[k + 1].role # "assistant"
    <3>1. new = Merged(out, ms[k + 1])
      BY <1>3, <2>2
    <3> QED BY <1>1, <2>1, <2>2, <3>1, UserJoins
  <2>3. CASE ms[k + 1].role = "assistant" /\ ms[k + 1] \in K
    <3>1. new = Merged(out, ms[k + 1])
      BY <2>3
    <3> QED BY <1>1, <2>1, <2>3, <3>1, AnswerTurns
  <2>4. CASE ms[k + 1] \notin K
    <3>1. new = out /\ ms[k + 1].role = "assistant" /\ ms[k + 1].calls = 0
      BY <1>3, <2>4
    <3>2. Following(out, ms, k + 1)
      BY <1>1, <2>1, <3>1, AnswerPassed
    <3> QED BY <3>1, <3>2
  <2> QED BY <2>2, <2>3, <2>4
<1> QED BY <1>1, <1>4, <1>5

\* from the task on,
LEMMA FollowingFirst ==
  ASSUME NEW ms, Talked(ms), NEW new, new = Merged(<<>>, ms[2])
  PROVE  Following(new, ms, 2)
<1> DEFINE x == ms[2]
           e == <<>>
<1>1. 1 \in 1..Len(ms) /\ 2 \in 1..Len(ms) /\ 1 \in Nat /\ 1 < Len(ms) /\ 1 \in 1..1 /\ 1 \in 1..2 /\ 1 + 1 = 2 /\ 1 - 1 = 0 /\ 2 - 1 = 1
  BY TalkedOf
<1>2. x \in Msgs /\ ms[1] \in Msgs /\ x.role = "user" /\ ms[1].role = "system" /\ ms[1].calls = 0 /\ x.calls = 0
  BY <1>1, TalkedOf DEF Talked
<1>3. Follows(x, ms[1], 0)
  <2>1. \A i \in 1..1 : i > 1 => ms[i].calls = 0
    OBVIOUS
  <2>2. x.text
    BY <1>1, <1>2 DEF Talked, Formed, UsersSpeak
  <2>3. ms[1].calls <= 0
    BY <1>2
  <2> QED BY <1>2, <2>2, <2>3 DEF Follows
<1>4. Side(x) = "user"
  BY <1>2 DEF Side
<1> HIDE DEF x
<1>5. e \in Seq(Turns) /\ Len(e) = 0 /\ 0 \in Nat
  BY EmptySeq
<1>6. new \in Seq(Turns) /\ Len(new) = 1 /\ new[1].role = "user" /\ new[1].parts = Parts(x)
  <2>1. new = Merged(e, x)
    BY DEF x
  <2> HIDE DEF e
  <2>2. PICK z \in Nat : z = 0 /\ z = Len(e)
    BY <1>5
  <2>5. z = 0 \/ e[z].role # Side(x)
    BY <2>2
  <2>6. z = Len(e) /\ e \in Seq(Turns)
    BY <1>5, <2>2
  <2>3. new \in Seq(Turns) /\ Len(new) = z + 1 /\ new[z + 1].role = Side(x) /\ new[z + 1].parts = Parts(x)
    BY <1>2, <2>1, <2>5, <2>6, MergedAdds
  <2>4. z + 1 = 1
    BY <2>2
  <2> QED BY <1>4, <2>3, <2>4
<1>7. Begun(new, 1)
  BY <1>6 DEF Begun
<1>8. Holds(new[1].parts, ms[1], 1)
  BY <1>2, <1>3, <1>6, HoldsFirst
<1>9. Before(new, 1) = CallsOf(ms[1])
  <2>1. CallsOf(ms[1]) = {}
    BY <1>2, CallsCounted
  <2> QED BY <2>1 DEF Before
<1>10. \A i \in 1..2 : i > 1 => ms[i].calls = 0
  <2>1. \A i \in 1..2 : i > 1 => i = 2
    OBVIOUS
  <2> QED BY <1>2, <2>1 DEF x
<1>11. Hears(new, 1, ms, 1, 2)
  BY <1>1, <1>2, <1>6, <1>8, <1>9, <1>10 DEF Hears
<1> QED BY <1>1, <1>7, <1>11 DEF Following

\* and are paired at the end.
LEMMA FollowingPaired ==
  ASSUME NEW ms, Talked(ms), NEW out, Following(out, ms, Len(ms))
  PROVE  TurnsPaired(out)
<1> DEFINE n == Len(ms)
<1>0. n \in Nat /\ n >= 1 /\ n <= n /\ n \in 1..n
  BY TalkedOf
<1>1. PICK l \in Nat : /\ Begun(out, l)
                       /\ \/ ms[n].role = "assistant" /\ Asks(out, l, ms[n])
                          \/ \E a \in 1..n : Hears(out, l, ms, a, n)
  BY DEF Following
<1>2. ms[n].role # "assistant"
  <2>1. ms[n].role = "assistant" => n < n
    BY <1>0, TalkedOf
  <2> QED BY <1>0, <2>1
<1>3. PICK a \in 1..n : Hears(out, l, ms, a, n)
  BY <1>1, <1>2
<1>4. ms[a].calls <= n - a
  BY <1>0, AllHeard
<1>5. ms[a] \in Msgs /\ ms[a].calls \in Nat
  BY TalkedOf
<1>6. Filled(out[l].parts, ms[a])
  <2>1. Holds(out[l].parts, ms[a], n - a)
    BY <1>3 DEF Hears
  <2>2. ~(n - a < ms[a].calls)
    BY <1>0, <1>4, <1>5
  <2> QED BY <2>1, <2>2 DEF Holds
<1>7. Opened(out, l) /\ Named(out[l].parts, "use") = {}
  <2>1. Before(out, l) = CallsOf(ms[a])
    BY <1>3 DEF Hears
  <2> QED BY <1>1, <1>5, <1>6, <2>1, FilledOpens
<1>8. out \in Seq(Turns) /\ Len(out) = l /\ l >= 1 /\ out[1].role = "user"
  BY <1>1 DEF Begun
<1>9. \A g \in 1..l : Opened(out, g)
  <2>1. \A g \in 1..l : g < l \/ g = l
    OBVIOUS
  <2> QED BY <1>1, <1>7, <2>1 DEF Begun
<1>10. out # <<>> /\ DOMAIN out = 1..l /\ Last(out) = out[l]
  BY <1>8 DEF Last
<1> QED BY <1>7, <1>8, <1>9, <1>10 DEF TurnsPaired, Opened, Before

\* Merged message by message, a conversation is one of turns.
LEMMA MergePaired ==
  ASSUME NEW ms, Talked(ms), NEW K, Heard(ms, K)
  PROVE  TurnsPaired(Merge(Among(ms, K)))
<1> DEFINE n == Len(ms)
<1>1. ms \in Seq(Msgs) /\ n \in Nat /\ n >= 2 /\ 1 \in 1..n /\ 2 \in 1..n /\ 1 - 1 = 0 /\ 2 - 1 = 1
  BY TalkedOf
<1>2. PICK f : SentRun(f, ms, K) /\ Merge(Among(ms, K)) = f[n]
  BY <1>1, SentRuns
<1>3. f[0] = <<>> /\ \A k \in 1..n : f[k] = IF ms[k] \in K THEN Merged(f[k - 1], ms[k]) ELSE f[k - 1]
  BY <1>2 DEF SentRun
<1>4. f[1] = <<>>
  BY <1>1, <1>3 DEF Heard
<1>5. Following(f[2], ms, 2)
  <2>1. ms[2] \in K
    <3>1. ms[2].role = "user" /\ 2 > 1
      BY DEF Talked
    <3> QED BY <1>1, <3>1 DEF Heard
  <2>2. f[2] = Merged(<<>>, ms[2])
    BY <1>1, <1>3, <1>4, <2>1
  <2> QED BY <2>2, FollowingFirst
<1> HIDE DEF n
<1> DEFINE G == {i \in Nat : 2 + i <= n => Following(f[2 + i], ms, 2 + i)}
<1>6. 0 \in G
  BY <1>5
<1>7. ASSUME NEW i \in Nat, i \in G PROVE i + 1 \in G
  <2> SUFFICES ASSUME 2 + (i + 1) <= n PROVE Following(f[2 + (i + 1)], ms, 2 + (i + 1))
    OBVIOUS
  <2> DEFINE k == 2 + i
  <2>1. k \in Nat /\ k >= 1 /\ k < Len(ms) /\ k + 1 \in 1..n /\ (k + 1) - 1 = k /\ 2 + (i + 1) = k + 1 /\ k <= n
    BY <1>1 DEF n
  <2>2. Following(f[k], ms, k)
    BY <1>7, <2>1
  <2> HIDE DEF k
  <2>3. f[k + 1] = IF ms[k + 1] \in K THEN Merged(f[k], ms[k + 1]) ELSE f[k]
    BY <1>3, <2>1
  <2>4. Following(f[k + 1], ms, k + 1)
    BY <2>1, <2>2, <2>3, FollowingNext
  <2> QED BY <2>1, <2>4
<1>8. Nat \subseteq G
  <2> HIDE DEF G
  <2> QED BY <1>6, <1>7, NatSetInduction
<1>9. n - 2 \in Nat /\ 2 + (n - 2) = n
  BY <1>1
<1>10. Following(f[n], ms, n)
  BY <1>8, <1>9
<1> QED BY <1>2, <1>10, FollowingPaired DEF n

---------------------------------------------------------------------------
(* Each provider is sent a well formed conversation.                       *)

\* Every conversation of the loop is one that may be followed so.
LEMMA ShapedTalked ==
  ASSUME NEW ms, NEW top, NEW cp, NEW h, Shaped(ms, top, cp, h)
  PROVE  Talked(ms)
<1> DEFINE o == Opening
           oc == o \o cp
<1>1. /\ cp \in Seq(Msgs) /\ h \in Seq(Msgs) /\ o \in Seq(Msgs) /\ Len(o) = 2
      /\ \A k \in 1..Len(cp) : cp[k] = cp[1] /\ cp[k].role = "user" /\ cp[k].text /\ cp[k].calls = 0
  <2>1. cp \in Seq(Msgs) /\ h \in Seq(Msgs) /\ o \in Seq(Msgs) /\ Len(o) = 2
    BY ShapedOf, OpeningOf
  <2>2. cp = <<>> \/ \E size \in Nat : cp = <<Checkpoint(size)>>
    BY DEF Shaped, Checkpoints
  <2>3. \A size : Checkpoint(size).role = "user" /\ Checkpoint(size).text /\ Checkpoint(size).calls = 0
    BY DEF Checkpoint, Message
  <2> QED BY <2>1, <2>2, <2>3
<1>2. Formed(o)
  <2>1. /\ o[1].role = "system" /\ o[1].calls = 0 /\ o[2].role = "user" /\ o[2].calls = 0 /\ o[2].text
    BY DEF Opening, Message
  <2>2. \A k \in 1..Len(o) : k = 1 \/ k = 2
    BY <1>1
  <2> HIDE DEF o
  <2>3. ToolsCalled(o) /\ CallsMet(o) /\ AnswersFollowed(o) /\ UsersSpeak(o)
    BY <2>1, <2>2 DEF ToolsCalled, CallsMet, AnswersFollowed, UsersSpeak
  <2> QED BY <2>3 DEF Formed
<1>3. Formed(cp)
  BY <1>1 DEF Formed, ToolsCalled, CallsMet, AnswersFollowed, UsersSpeak
<1> HIDE DEF o
<1>4. Formed(oc) /\ oc \in Seq(Msgs)
  BY <1>1, <1>2, <1>3, FormedJoined, Joined
<1>5. Formed(h) /\ ms = oc \o h
  BY DEF Shaped, oc, o
<1> HIDE DEF oc
<1>6. Formed(ms)
  BY <1>1, <1>4, <1>5, FormedJoined
<1>7. /\ ms \in Seq(Msgs) /\ Len(cp) \in 0..1 /\ Len(h) \in Nat /\ Len(ms) = 2 + Len(cp) + Len(h)
      /\ \A k \in 1..2 : ms[k] = Opening[k]
      /\ \A k \in 1..Len(cp) : ms[2 + k] = cp[k]
      /\ \A k \in 1..Len(h) : ms[2 + Len(cp) + k] = h[k]
  BY ShapedOf
<1>8. ms[1].role = "system" /\ ms[2].role = "user"
  BY <1>7, OpeningOf
<1>9. ASSUME NEW k \in 1..Len(ms), k > 1 PROVE ms[k].role # "system"
  <2>1. CASE k = 2
    BY <1>8, <2>1
  <2>2. CASE k > 2 /\ k <= 2 + Len(cp)
    <3>1. k - 2 \in 1..Len(cp) /\ 2 + (k - 2) = k
      BY <1>7, <2>2
    <3>2. ms[k] = cp[k - 2]
      BY <1>7, <3>1
    <3> QED BY <1>1, <3>1, <3>2
  <2>3. CASE k > 2 + Len(cp)
    <3> DEFINE i == k - (2 + Len(cp))
    <3>1. i \in 1..Len(h) /\ 2 + Len(cp) + i = k
      BY <1>7, <2>3
    <3> HIDE DEF i
    <3>2. ms[k] = h[i]
      BY <1>7, <3>1
    <3>3. h[i] \in Made
      BY <3>1 DEF Shaped
    <3> QED BY <3>2, <3>3 DEF Made
  <2> QED BY <1>7, <1>9, <2>1, <2>2, <2>3
<1> QED BY <1>6, <1>7, <1>8, <1>9 DEF Talked

\* anthropic_input passes over the system message alone,
LEMMA SpokenHeard == ASSUME NEW ms, Talked(ms) PROVE Heard(ms, Spoken(ms))
<1>1. \A k \in 1..Len(ms) : ms[k] \in ToSet(ms)
  BY TalkedOf DEF ToSet
<1> QED BY <1>1 DEF Talked, Heard, Spoken

\* and gemini_input over what says nothing, too.
LEMMA SayingHeard == ASSUME NEW ms, Talked(ms) PROVE Heard(ms, {m \in Spoken(ms) : Parts(m) # <<>>})
<1> DEFINE K == {m \in Spoken(ms) : Parts(m) # <<>>}
<1>1. \A k \in 1..Len(ms) : ms[k] \in ToSet(ms)
  BY TalkedOf DEF ToSet
<1>2. ms[1] \notin K
  BY DEF Talked, Spoken
<1>3. ASSUME NEW k \in 1..Len(ms), k > 1, ms[k] \notin K PROVE ms[k].role = "assistant" /\ ms[k].calls = 0
  <2> DEFINE m == ms[k]
             p == Parts(m)
  <2>1. m \in Spoken(ms)
    BY <1>1, <1>3 DEF Talked, Spoken
  <2>2. p = <<>>
    BY <1>3, <2>1
  <2>3. m \in Msgs /\ (m.role # "assistant" => m.calls = 0) /\ m.calls \in Nat
    BY TalkedOf
  <2>4. m.role # "system" /\ (m.role = "user" => m.text)
    BY <1>3 DEF Talked, Formed, UsersSpeak
  <2> HIDE DEF m
  <2>5. Len(p) = 0
    BY <2>2
  <2>6. m.role # "tool"
    BY <2>3, <2>5, PartsOf
  <2>7. m.calls = 0
    <3> SUFFICES ASSUME m.calls # 0 PROVE FALSE
      OBVIOUS
    <3>1. 1 \in 1..m.calls
      BY <2>3
    <3>2. PICK i \in 1..Len(Parts(m)) : Parts(m)[i] = <<"use", <<m.n, 1>>>>
      BY <2>3, <2>6, <3>1, PartsOf
    <3> QED BY <2>5, <3>2
  <2>8. m.role # "user"
    <3>1. m.calls = 0 => Len(Parts(m)) = IF m.text THEN 1 ELSE 0
      BY <2>3, <2>6, PartsOf
    <3> QED BY <2>4, <2>5, <2>7, <3>1
  <2> QED BY <2>3, <2>4, <2>6, <2>7, <2>8, MsgsOf DEF m
<1> QED BY <1>2, <1>3 DEF Heard

\* Whatever was compacted, shortened, repaired or refused before, each provider is sent
\* every call with its one result where it wants it (openai_responses_input,
\* anthropic_input and gemini_input of providers.py), until a compaction has dropped a
\* message that quotes the marker of a checkpoint.
THEOREM WiresTheorem == TalkSpec => []WiresPaired
<1>1. ShapeInv => WiresPaired
  <2> SUFFICES ASSUME ShapeInv, ~mistaken PROVE Paired
    BY DEF WiresPaired
  <2>1. PICK cp, h : Shaped(talk, stamp, cp, h)
    BY DEF ShapeInv, IsShaped
  <2>2. Talked(talk)
    BY <2>1, ShapedTalked
  <2>3. ItemsPaired(ResponsesInput(talk))
    BY <2>2, ListPaired DEF Talked
  <2>4. TurnsPaired(AnthropicInput(talk))
    BY <2>2, SpokenHeard, MergePaired DEF AnthropicInput
  <2>5. TurnsPaired(GeminiInput(talk))
    BY <2>2, SayingHeard, MergePaired DEF GeminiInput
  <2> QED BY <2>3, <2>4, <2>5 DEF Paired
<1> QED BY <1>1, ShapeInvariant, PTL
===========================================================================
