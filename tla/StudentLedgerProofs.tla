-------------------------- MODULE StudentLedgerProofs --------------------------
(***************************************************************************)
(* Theorems about StudentLedger, for every number of invoices, payments,   *)
(* enrollments, receipts, links and callbacks, and all sums of money.      *)
(*                                                                         *)
(* LedgerInv is the inductive invariant.  Its heart is MoneyInv: the rows  *)
(* of allocations are the only record of what went where, and the sums in  *)
(* the other two tables are sums over them.  The loops of the code are     *)
(* functions along 1 .. n here (Shares, Issue); what they compute is found *)
(* first, then what each action makes of the invariant, then what follows. *)
(*                                                                         *)
(* The facts on sums come before: sums over finite sets, as the model      *)
(* writes them (SumFunction of the community modules), and what is         *)
(* computed along 1 .. n.  Induction is over the subsets of the set,       *)
(* ordered by strict inclusion, or over the intervals 0 .. k: a family of  *)
(* sets that is not empty has a smallest one.                              *)
(***************************************************************************)
EXTENDS StudentLedger, FiniteSetTheorems, Functions, TLAPS

-----------------------------------------------------------------------------
(* Sums over finite sets *)

Sum(f, S) == SumFunctionOnSet(f, S)

(* A family of subsets of a finite set has a member that includes no other. *)
LEMMA MinimalSubset ==
    ASSUME NEW S, IsFiniteSet(S), NEW F, F \subseteq SUBSET S, F # {}
    PROVE  \E T \in F : \A U \in F : U \subseteq T => U = T
<1>1. IsWellFoundedOn(StrictSubsetOrdering(S), SUBSET S)
    BY FS_StrictSubsetOrderingWellFounded, FS_FiniteSubsetsOfFinite
<1>2. \E T \in F : \A U \in F : ~ (<<U, T>> \in StrictSubsetOrdering(S))
    BY <1>1, WFMin
<1> QED BY <1>2 DEF StrictSubsetOrdering

(* Induction over the subsets of a finite set: G are those with the property. *)
LEMMA SubsetInduction ==
    ASSUME NEW S, IsFiniteSet(S), NEW G,
           \A T \in SUBSET S : (\A U \in SUBSET T : U # T => U \in G) => T \in G
    PROVE  \A T \in SUBSET S : T \in G
<1> DEFINE Bad == {T \in SUBSET S : T \notin G}
<1>1. CASE Bad = {}
    BY <1>1
<1>2. CASE Bad # {}
    <2>0. Bad \subseteq SUBSET S
        OBVIOUS
    <2> HIDE DEF Bad
    <2>1. PICK T \in Bad : \A U \in Bad : U \subseteq T => U = T
        BY <1>2, <2>0, MinimalSubset
    <2> USE DEF Bad
    <2> QED BY <2>1
<1> QED BY <1>1, <1>2

(* Induction along 0 .. n. *)
LEMMA CountInduction ==
    ASSUME NEW n \in Nat, NEW G, 0 \in G, \A k \in 1 .. n : k - 1 \in G => k \in G
    PROVE  \A k \in 0 .. n : k \in G
<1> SUFFICES ASSUME NEW m \in 0 .. n, m \notin G PROVE FALSE
    OBVIOUS
<1> DEFINE Up == {T \in SUBSET (0 .. n) : \E k \in 0 .. n : k \notin G /\ T = 0 .. k}
<1>1. IsFiniteSet(0 .. n)
    BY FS_Interval
<1>2. (0 .. m) \in Up
    OBVIOUS
<1>3. PICK T \in Up : \A U \in Up : U \subseteq T => U = T
    <2> DEFINE N == 0 .. n
    <2>1. IsFiniteSet(N) /\ Up \subseteq SUBSET N /\ Up # {}
        BY <1>1, <1>2
    <2> HIDE DEF Up, N
    <2> QED BY <2>1, MinimalSubset
<1>4. PICK k \in 0 .. n : k \notin G /\ T = 0 .. k
    BY <1>3
<1>5. k # 0 /\ k - 1 \notin G
    BY <1>4
<1>6. (0 .. (k - 1)) \in Up /\ (0 .. (k - 1)) \subseteq T /\ k \in T /\ k \notin 0 .. (k - 1)
    BY <1>4, <1>5
<1> QED BY <1>3, <1>6

-----------------------------------------------------------------------------
(* What the fold of a sum unfolds to. *)
Picked(s) == CHOOSE y \in s : TRUE

IterOf(f, S, g) ==
    g = [s \in SUBSET S |-> IF s = {} THEN 0
                            ELSE LET x == CHOOSE y \in s : TRUE IN f[x] + g[s \ {x}]]

LEMMA PickedIn == ASSUME NEW s, s # {} PROVE Picked(s) \in s
<1> QED BY Zenon DEF Picked

LEMMA IterDoes ==
    ASSUME NEW f, NEW S, NEW g, IterOf(f, S, g)
    PROVE  \A s \in SUBSET S :
             g[s] = IF s = {} THEN 0 ELSE f[Picked(s)] + g[s \ {Picked(s)}]
<1> QED BY DEF IterOf, Picked

LEMMA IterIs ==
    ASSUME NEW f, NEW S, NEW g, g = [s \in SUBSET S |-> g[s]],
           \A s \in SUBSET S :
             g[s] = IF s = {} THEN 0 ELSE f[Picked(s)] + g[s \ {Picked(s)}]
    PROVE  IterOf(f, S, g)
<1> QED BY DEF IterOf, Picked

(* Two of them agree where both are defined, so the CHOOSE of the fold is what it should be. *)
LEMMA IterUnique ==
    ASSUME NEW f, NEW S, IsFiniteSet(S), NEW U \in SUBSET S, NEW g, NEW h,
           IterOf(f, S, g), IterOf(f, U, h)
    PROVE  \A T \in SUBSET U : g[T] = h[T]
<1> DEFINE G == {T \in SUBSET U : g[T] = h[T]}
<1>1. IsFiniteSet(U)
    BY FS_Subset
<1>2. ASSUME NEW T \in SUBSET U, \A V \in SUBSET T : V # T => V \in G
      PROVE  T \in G
    <2>1. CASE T = {}
        BY <2>1, IterDoes
    <2>2. CASE T # {}
        <3>1. Picked(T) \in T
            BY <2>2, PickedIn
        <3>2. g[T \ {Picked(T)}] = h[T \ {Picked(T)}]
            BY <1>2, <3>1
        <3>3. g[T] = f[Picked(T)] + g[T \ {Picked(T)}]
            BY <2>2, IterDoes
        <3>4. h[T] = f[Picked(T)] + h[T \ {Picked(T)}]
            BY <2>2, IterDoes
        <3> QED BY <3>2, <3>3, <3>4
    <2> QED BY <2>1, <2>2
<1> HIDE DEF G
<1>3. \A T \in SUBSET U : T \in G
    BY <1>1, <1>2, SubsetInduction
<1> QED BY <1>3 DEF G

(* There is one: it is built set by set. *)
LEMMA IterExists ==
    ASSUME NEW f, NEW S, IsFiniteSet(S)
    PROVE  \E g : IterOf(f, S, g)
<1> DEFINE G == {T \in SUBSET S : \E g : IterOf(f, T, g)}
<1>1. ASSUME NEW T \in SUBSET S, \A U \in SUBSET T : U # T => U \in G
      PROVE  T \in G
    <2> DEFINE H(U) == CHOOSE g : IterOf(f, U, g)
               g == [s \in SUBSET T |->
                       IF s = {} THEN 0
                       ELSE f[Picked(s)] + H(s \ {Picked(s)})[s \ {Picked(s)}]]
    <2>0. IsFiniteSet(T)
        BY FS_Subset
    <2>1. ASSUME NEW U \in SUBSET T, U # T PROVE IterOf(f, U, H(U))
        <3>1. \E k : IterOf(f, U, k)
            BY <1>1, <2>1
        <3> QED BY <3>1, Zenon
    <2> HIDE DEF H
    <2>2. ASSUME NEW u \in SUBSET T, u # T PROVE g[u] = H(u)[u]
        <3>1. IterOf(f, u, H(u)) /\ IsFiniteSet(u)
            BY <2>0, <2>1, <2>2, FS_Subset
        <3>2. CASE u = {}
            BY <3>1, <3>2, IterDoes
        <3>3. CASE u # {}
            <4> DEFINE v == u \ {Picked(u)}
            <4>1. Picked(u) \in u
                BY <3>3, PickedIn
            <4>2. v \in SUBSET T /\ v # T /\ v \in SUBSET u
                BY <4>1
            <4>3. IterOf(f, v, H(v))
                BY <2>1, <4>2
            <4>4. H(u)[v] = H(v)[v]
                BY <3>1, <4>2, <4>3, IterUnique
            <4>5. H(u)[u] = f[Picked(u)] + H(u)[v]
                BY <3>1, <3>3, IterDoes
            <4>6. g[u] = f[Picked(u)] + H(v)[v]
                BY <3>3
            <4> QED BY <4>4, <4>5, <4>6
        <3> QED BY <3>2, <3>3
    <2>3. ASSUME NEW s \in SUBSET T
          PROVE  g[s] = IF s = {} THEN 0 ELSE f[Picked(s)] + g[s \ {Picked(s)}]
        <3>1. CASE s = {}
            BY <3>1
        <3>2. CASE s # {}
            <4> DEFINE v == s \ {Picked(s)}
            <4>1. Picked(s) \in s
                BY <3>2, PickedIn
            <4>2. v \in SUBSET T /\ v # T
                BY <4>1
            <4>3. g[v] = H(v)[v]
                BY <2>2, <4>2
            <4>4. g[s] = f[Picked(s)] + H(v)[v]
                BY <3>2
            <4> QED BY <3>2, <4>3, <4>4
        <3> QED BY <3>1, <3>2
    <2>4. g = [s \in SUBSET T |-> g[s]]
        OBVIOUS
    <2> HIDE DEF g
    <2>5. IterOf(f, T, g)
        BY <2>3, <2>4, IterIs
    <2> QED BY <2>5
<1> HIDE DEF G
<1>2. S \in G
    <2>1. \A T \in SUBSET S : T \in G
        BY <1>1, SubsetInduction
    <2> QED BY <2>1
<1> QED BY <1>2 DEF G

LEMMA SumIs ==
    ASSUME NEW f, NEW S, IsFiniteSet(S)
    PROVE  \E g : IterOf(f, S, g) /\ Sum(f, S) = g[S]
<1> DEFINE it == CHOOSE g : IterOf(f, S, g)
<1>1. IterOf(f, S, it)
    BY IterExists, Zenon
<1>2. SumFunctionOnSet(f, S) = it[S]
    BY DEF SumFunctionOnSet, FoldFunctionOnSet, MapThenFoldSet, IterOf
<1> QED BY <1>1, <1>2, Zenon DEF Sum

(* The sum over the empty set, and over another one. *)
LEMMA SumUnfolds ==
    ASSUME NEW f, NEW S, IsFiniteSet(S)
    PROVE  Sum(f, S) = IF S = {} THEN 0 ELSE f[Picked(S)] + Sum(f, S \ {Picked(S)})
<1>1. PICK g : IterOf(f, S, g) /\ Sum(f, S) = g[S]
    BY SumIs
<1>2. CASE S = {}
    BY <1>1, <1>2, IterDoes
<1>3. CASE S # {}
    <2> DEFINE T == S \ {Picked(S)}
    <2>1. PICK h : IterOf(f, T, h) /\ Sum(f, T) = h[T]
        BY FS_Subset, SumIs
    <2>2. g[T] = h[T]
        BY <1>1, <2>1, IterUnique
    <2> QED BY <1>1, <1>3, <2>1, <2>2, IterDoes
<1> QED BY <1>2, <1>3

LEMMA SumEmpty == ASSUME NEW f PROVE Sum(f, {}) = 0
<1> QED BY SumUnfolds, FS_EmptySet

(* A sum of integers is one, whatever the order of the fold. *)
LEMMA SumInt ==
    ASSUME NEW S, IsFiniteSet(S), NEW f, \A x \in S : f[x] \in Int
    PROVE  Sum(f, S) \in Int
<1> DEFINE G == {T \in SUBSET S : Sum(f, T) \in Int}
<1>1. ASSUME NEW T \in SUBSET S, \A U \in SUBSET T : U # T => U \in G
      PROVE  T \in G
    <2>1. CASE T = {}
        BY <2>1, SumEmpty
    <2>2. CASE T # {}
        <3>1. Picked(T) \in T
            BY <2>2, PickedIn
        <3>2. Sum(f, T) = f[Picked(T)] + Sum(f, T \ {Picked(T)})
            BY <2>2, SumUnfolds, FS_Subset
        <3> QED BY <1>1, <3>1, <3>2
    <2> QED BY <2>1, <2>2
<1> HIDE DEF G
<1>2. \A T \in SUBSET S : T \in G
    BY <1>1, SubsetInduction
<1> QED BY <1>2 DEF G

(* The elements may be taken out in any order. *)
LEMMA SumTakeOut ==
    ASSUME NEW S, IsFiniteSet(S), NEW f, \A x \in S : f[x] \in Int, NEW e \in S
    PROVE  Sum(f, S) = f[e] + Sum(f, S \ {e})
<1> DEFINE G == {T \in SUBSET S : \A x \in T : Sum(f, T) = f[x] + Sum(f, T \ {x})}
<1>1. ASSUME NEW T \in SUBSET S, \A U \in SUBSET T : U # T => U \in G
      PROVE  T \in G
    <2> SUFFICES ASSUME NEW x \in T PROVE Sum(f, T) = f[x] + Sum(f, T \ {x})
        OBVIOUS
    <2> DEFINE c == Picked(T)
               U == T \ {c}
               V == T \ {x}
    <2>1. c \in T
        BY PickedIn
    <2>2. Sum(f, T) = f[c] + Sum(f, U)
        BY SumUnfolds, FS_Subset
    <2>3. CASE x = c
        BY <2>2, <2>3
    <2>4. CASE x # c
        <3> DEFINE W == T \ {c, x}
        <3>1. U \in G /\ V \in G
            BY <1>1, <2>1
        <3>2. U \ {x} = W /\ V \ {c} = W /\ x \in U /\ c \in V
            BY <2>1, <2>4
        <3>3. Sum(f, U) = f[x] + Sum(f, W)
            BY <3>1, <3>2
        <3>4. Sum(f, V) = f[c] + Sum(f, W)
            BY <3>1, <3>2
        <3>5. Sum(f, W) \in Int /\ f[x] \in Int /\ f[c] \in Int
            BY <2>1, FS_Subset, SumInt
        <3>6. Sum(f, T) = f[x] + Sum(f, V)
            <4> HIDE DEF W, U, V, c
            <4> QED BY <2>2, <3>3, <3>4, <3>5
        <3> QED BY <3>6
    <2> QED BY <2>3, <2>4
<1> HIDE DEF G
<1>2. \A T \in SUBSET S : T \in G
    BY <1>1, SubsetInduction
<1> QED BY <1>2 DEF G

(* One more, one less, term by term, in two parts: what a proof does with a sum. *)
LEMMA SumAdds ==
    ASSUME NEW S, IsFiniteSet(S), NEW e, e \notin S, NEW f, \A x \in S \cup {e} : f[x] \in Int
    PROVE  Sum(f, S \cup {e}) = Sum(f, S) + f[e]
<1> DEFINE T == S \cup {e}
<1>1. IsFiniteSet(T) /\ e \in T /\ T \ {e} = S
    BY FS_AddElement
<1>2. Sum(f, S) \in Int /\ f[e] \in Int
    BY SumInt
<1>3. Sum(f, T) = f[e] + Sum(f, T \ {e})
    BY <1>1, SumTakeOut
<1>4. Sum(f, T) = f[e] + Sum(f, S)
    <2>1. T \ {e} = S
        BY <1>1
    <2> HIDE DEF T
    <2> QED BY <1>3, <2>1, Zenon
<1>5. Sum(f, T) = Sum(f, S) + f[e]
    <2> HIDE DEF T
    <2> QED BY <1>2, <1>4
<1> QED BY <1>5

(* Sums of the same summands; sums compared; sums of sums. *)
LEMMA SumSame ==
    ASSUME NEW S, IsFiniteSet(S), NEW f, NEW g, \A x \in S : f[x] = g[x]
    PROVE  Sum(f, S) = Sum(g, S)
<1> DEFINE G == {T \in SUBSET S : Sum(f, T) = Sum(g, T)}
<1>1. ASSUME NEW T \in SUBSET S, \A U \in SUBSET T : U # T => U \in G
      PROVE  T \in G
    <2>1. CASE T = {}
        BY <2>1, SumEmpty
    <2>2. CASE T # {}
        <3>1. Picked(T) \in T
            BY <2>2, PickedIn
        <3>2. Sum(f, T) = f[Picked(T)] + Sum(f, T \ {Picked(T)})
            BY <2>2, SumUnfolds, FS_Subset
        <3>3. Sum(g, T) = g[Picked(T)] + Sum(g, T \ {Picked(T)})
            BY <2>2, SumUnfolds, FS_Subset
        <3> QED BY <1>1, <3>1, <3>2, <3>3
    <2> QED BY <2>1, <2>2
<1> HIDE DEF G
<1>2. \A T \in SUBSET S : T \in G
    BY <1>1, SubsetInduction
<1> QED BY <1>2 DEF G

LEMMA SumLeq ==
    ASSUME NEW S, IsFiniteSet(S), NEW f, NEW g,
           \A x \in S : f[x] \in Int /\ g[x] \in Int /\ f[x] <= g[x]
    PROVE  Sum(f, S) <= Sum(g, S)
<1> DEFINE G == {T \in SUBSET S : Sum(f, T) <= Sum(g, T)}
<1>1. ASSUME NEW T \in SUBSET S, \A U \in SUBSET T : U # T => U \in G
      PROVE  T \in G
    <2>1. CASE T = {}
        BY <2>1, SumEmpty
    <2>2. CASE T # {}
        <3> DEFINE c == Picked(T)
                   U == T \ {c}
        <3>1. c \in T
            BY <2>2, PickedIn
        <3>2. Sum(f, T) = f[c] + Sum(f, U)
            BY <2>2, SumUnfolds, FS_Subset
        <3>3. Sum(g, T) = g[c] + Sum(g, U)
            BY <2>2, SumUnfolds, FS_Subset
        <3>4. Sum(f, U) <= Sum(g, U)
            BY <1>1, <3>1
        <3>5. Sum(f, U) \in Int /\ Sum(g, U) \in Int
            BY FS_Subset, SumInt
        <3>6. f[c] \in Int /\ g[c] \in Int /\ f[c] <= g[c]
            BY <3>1
        <3> HIDE DEF c, U
        <3> QED BY <3>2, <3>3, <3>4, <3>5, <3>6
    <2> QED BY <2>1, <2>2
<1> HIDE DEF G
<1>2. \A T \in SUBSET S : T \in G
    BY <1>1, SubsetInduction
<1> QED BY <1>2 DEF G

LEMMA SumPlus ==
    ASSUME NEW S, IsFiniteSet(S), NEW f, NEW g, NEW h,
           \A x \in S : f[x] \in Int /\ g[x] \in Int /\ h[x] = f[x] + g[x]
    PROVE  Sum(h, S) = Sum(f, S) + Sum(g, S)
<1> DEFINE G == {T \in SUBSET S : Sum(h, T) = Sum(f, T) + Sum(g, T)}
<1>1. ASSUME NEW T \in SUBSET S, \A U \in SUBSET T : U # T => U \in G
      PROVE  T \in G
    <2>1. CASE T = {}
        BY <2>1, SumEmpty
    <2>2. CASE T # {}
        <3> DEFINE c == Picked(T)
                   U == T \ {c}
        <3>1. c \in T
            BY <2>2, PickedIn
        <3>2. Sum(f, T) = f[c] + Sum(f, U)
            BY <2>2, SumUnfolds, FS_Subset
        <3>3. Sum(g, T) = g[c] + Sum(g, U)
            BY <2>2, SumUnfolds, FS_Subset
        <3>4. Sum(h, T) = h[c] + Sum(h, U)
            BY <2>2, SumUnfolds, FS_Subset
        <3>5. Sum(h, U) = Sum(f, U) + Sum(g, U)
            BY <1>1, <3>1
        <3>6. Sum(f, U) \in Int /\ Sum(g, U) \in Int
            BY FS_Subset, SumInt
        <3>7. f[c] \in Int /\ g[c] \in Int /\ h[c] = f[c] + g[c]
            BY <3>1
        <3> HIDE DEF c, U
        <3> QED BY <3>2, <3>3, <3>4, <3>5, <3>6, <3>7
    <2> QED BY <2>1, <2>2
<1> HIDE DEF G
<1>2. \A T \in SUBSET S : T \in G
    BY <1>1, SubsetInduction
<1> QED BY <1>2 DEF G

LEMMA SumUnion ==
    ASSUME NEW S, IsFiniteSet(S), NEW U, IsFiniteSet(U), S \cap U = {},
           NEW f, \A x \in S \cup U : f[x] \in Int
    PROVE  Sum(f, S \cup U) = Sum(f, S) + Sum(f, U)
<1> DEFINE G == {T \in SUBSET U : Sum(f, S \cup T) = Sum(f, S) + Sum(f, T)}
<1>1. ASSUME NEW T \in SUBSET U, \A V \in SUBSET T : V # T => V \in G
      PROVE  T \in G
    <2>0. Sum(f, S) \in Int
        BY SumInt
    <2>1. CASE T = {}
        <3>1. S \cup T = S
            BY <2>1
        <3> QED BY <2>0, <2>1, <3>1, SumEmpty
    <2>2. CASE T # {}
        <3> DEFINE c == Picked(T)
                   V == T \ {c}
                   R == S \cup T
        <3>1. c \in T
            BY <2>2, PickedIn
        <3>2. IsFiniteSet(T) /\ IsFiniteSet(V) /\ IsFiniteSet(R)
            BY FS_Subset, FS_Union
        <3>3. Sum(f, T) = f[c] + Sum(f, V)
            BY <2>2, <3>2, SumUnfolds
        <3>4. c \in R /\ R \ {c} = S \cup V /\ \A x \in R : f[x] \in Int
            BY <3>1
        <3>5. Sum(f, R) = f[c] + Sum(f, S \cup V)
            <4>1. Sum(f, R) = f[c] + Sum(f, R \ {c})
                <5> HIDE DEF c, R, V
                <5> QED BY <3>2, <3>4, SumTakeOut
            <4> HIDE DEF c, R, V
            <4> QED BY <4>1, <3>4
        <3>6. Sum(f, S \cup V) = Sum(f, S) + Sum(f, V)
            BY <1>1, <3>1
        <3>7. Sum(f, V) \in Int /\ f[c] \in Int
            BY <3>1, <3>2, SumInt
        <3>8. Sum(f, R) = Sum(f, S) + Sum(f, T)
            <4> HIDE DEF c, R, V
            <4> QED BY <2>0, <3>3, <3>4, <3>5, <3>6, <3>7
        <3> QED BY <3>8
    <2> QED BY <2>1, <2>2
<1> HIDE DEF G
<1>2. \A T \in SUBSET U : T \in G
    BY <1>1, SubsetInduction
<1>3. U \in G
    BY <1>2
<1> QED BY <1>3 DEF G

LEMMA SumOfPart ==
    ASSUME NEW S, IsFiniteSet(S), NEW T \in SUBSET S, NEW f, \A x \in S : f[x] \in Int
    PROVE  Sum(f, S) = Sum(f, T) + Sum(f, S \ T)
<1>1. IsFiniteSet(T) /\ IsFiniteSet(S \ T) /\ T \cap (S \ T) = {} /\ T \cup (S \ T) = S
    BY FS_Subset
<1> QED BY <1>1, SumUnion

LEMMA SumOfNothing ==
    ASSUME NEW S, IsFiniteSet(S), NEW f, \A x \in S : f[x] = 0
    PROVE  Sum(f, S) = 0
<1> DEFINE G == {T \in SUBSET S : Sum(f, T) = 0}
<1>1. ASSUME NEW T \in SUBSET S, \A U \in SUBSET T : U # T => U \in G
      PROVE  T \in G
    <2>1. CASE T = {}
        BY <2>1, SumEmpty
    <2>2. CASE T # {}
        <3>1. Picked(T) \in T
            BY <2>2, PickedIn
        <3>2. Sum(f, T) = f[Picked(T)] + Sum(f, T \ {Picked(T)})
            BY <2>2, SumUnfolds, FS_Subset
        <3> QED BY <1>1, <3>1, <3>2
    <2> QED BY <2>1, <2>2
<1> HIDE DEF G
<1>2. \A T \in SUBSET S : T \in G
    BY <1>1, SubsetInduction
<1> QED BY <1>2 DEF G

(* Sums of naturals: none of the terms is more than the sum. *)
LEMMA SumNat ==
    ASSUME NEW S, IsFiniteSet(S), NEW f, \A x \in S : f[x] \in Nat
    PROVE  Sum(f, S) \in Nat /\ \A e \in S : f[e] <= Sum(f, S)
<1> DEFINE zero == [x \in S |-> 0]
<1>2. \A T \in SUBSET S : Sum(zero, T) = 0
    BY FS_Subset, SumOfNothing
<1>3. ASSUME NEW T \in SUBSET S PROVE Sum(f, T) \in Nat
    <2>1. Sum(zero, T) <= Sum(f, T)
        <3>1. \A x \in T : zero[x] \in Int /\ f[x] \in Int /\ zero[x] <= f[x]
            OBVIOUS
        <3> HIDE DEF zero
        <3> QED BY <3>1, FS_Subset, SumLeq
    <2>2. Sum(f, T) \in Int
        BY FS_Subset, SumInt
    <2> QED BY <1>2, <2>1, <2>2
<1>4. ASSUME NEW e \in S PROVE f[e] <= Sum(f, S)
    <2>1. Sum(f, S) = f[e] + Sum(f, S \ {e})
        BY SumTakeOut
    <2>2. Sum(f, S \ {e}) \in Nat
        BY <1>3
    <2> QED BY <2>1, <2>2
<1> QED BY <1>3, <1>4

(* A sum is nothing exactly when nothing is summed. *)
LEMMA SumZero ==
    ASSUME NEW S, IsFiniteSet(S), NEW f, \A x \in S : f[x] \in Nat
    PROVE  Sum(f, S) = 0 <=> \A x \in S : f[x] = 0
<1>1. ASSUME Sum(f, S) = 0 PROVE \A x \in S : f[x] = 0
    <2>1. \A x \in S : f[x] <= 0
        BY <1>1, SumNat
    <2> QED BY <2>1
<1>2. ASSUME \A x \in S : f[x] = 0 PROVE Sum(f, S) = 0
    BY <1>2, SumOfNothing
<1> QED BY <1>1, <1>2

(* Sums by key, added up, are the sum of all. *)
Part(A, key, k) == {a \in A : key[a] = k}

LEMMA SumByKey ==
    ASSUME NEW A, IsFiniteSet(A), NEW f, \A a \in A : f[a] \in Int,
           NEW K, IsFiniteSet(K), NEW key, \A a \in A : key[a] \in K,
           NEW g, \A k \in K : g[k] = Sum(f, Part(A, key, k))
    PROVE  Sum(g, K) = Sum(f, A)
<1> DEFINE With(T) == {a \in A : key[a] \in T}
           G == {T \in SUBSET K : Sum(g, T) = Sum(f, With(T))}
<1>1. ASSUME NEW T \in SUBSET K, \A U \in SUBSET T : U # T => U \in G
      PROVE  T \in G
    <2>1. CASE T = {}
        <3>1. With(T) = {}
            BY <2>1
        <3>2. Sum(g, T) = 0 /\ Sum(f, With(T)) = 0
            BY <2>1, <3>1, SumEmpty
        <3> QED BY <3>2
    <2>2. CASE T # {}
        <3> DEFINE c == Picked(T)
                   U == T \ {c}
                   Of == {a \in A : key[a] = c}
        <3>1. c \in T
            BY <2>2, PickedIn
        <3>2. Sum(g, T) = g[c] + Sum(g, U)
            BY <2>2, SumUnfolds, FS_Subset
        <3>3. Sum(g, U) = Sum(f, With(U))
            BY <1>1, <3>1
        <3>4. g[c] = Sum(f, Of)
            BY <3>1 DEF Part
        <3>5. With(T) = With(U) \cup Of /\ With(U) \cap Of = {}
            BY <3>1
        <3>6. With(U) \subseteq A /\ Of \subseteq A
            OBVIOUS
        <3>7. IsFiniteSet(With(U)) /\ IsFiniteSet(Of)
            BY <3>6, FS_Subset
        <3>8. Sum(f, With(T)) = Sum(f, With(U)) + Sum(f, Of)
            <4> HIDE DEF With, Of, U, c
            <4> QED BY <3>5, <3>6, <3>7, SumUnion
        <3>9. Sum(f, With(U)) \in Int /\ Sum(f, Of) \in Int
            <4> HIDE DEF With, Of, U, c
            <4> QED BY <3>6, <3>7, SumInt
        <3>10. Sum(g, T) = Sum(f, With(T))
            <4> HIDE DEF With, Of, U, c
            <4> QED BY <3>2, <3>3, <3>4, <3>8, <3>9
        <3> QED BY <3>10
    <2> QED BY <2>1, <2>2
<1>2. K \in G
    <2> HIDE DEF G
    <2>1. \A T \in SUBSET K : T \in G
        BY <1>1, SubsetInduction
    <2> QED BY <2>1
<1>3. With(K) = A
    OBVIOUS
<1> QED BY <1>2, <1>3

(* A function defined along 0 .. n exists. *)
Along(f, n, c, next) ==
    f = [i \in 0 .. n |-> IF i = 0 THEN c ELSE next[<<i, f[i - 1]>>]]

(* What a step by step definition along 1 .. n defines. *)
LEMMA AlongExists ==
    ASSUME NEW n \in Nat, NEW S, NEW c \in S, NEW next,
           \A i \in 1 .. n, s \in S : next[<<i, s>>] \in S
    PROVE  \E f : Along(f, n, c, next)
<1> DEFINE G == {m \in 0 .. n : \E f : Along(f, m, c, next)}
<1>1. 0 \in G
    <2> DEFINE f == [i \in 0 .. 0 |-> c]
    <2>1. f = [i \in 0 .. 0 |-> IF i = 0 THEN c ELSE next[<<i, f[i - 1]>>]]
        OBVIOUS
    <2> HIDE DEF f
    <2>2. Along(f, 0, c, next)
        BY <2>1 DEF Along
    <2> QED BY <2>2
<1>2. ASSUME NEW m \in 1 .. n, m - 1 \in G PROVE m \in G
    <2>1. PICK h : Along(h, m - 1, c, next)
        BY <1>2
    <2> DEFINE f == [i \in 0 .. m |-> IF i = m THEN next[<<m, h[m - 1]>>] ELSE h[i]]
    <2>2. \A i \in 0 .. (m - 1) : h[i] = IF i = 0 THEN c ELSE next[<<i, h[i - 1]>>]
        BY <2>1 DEF Along
    <2>3. ASSUME NEW i \in 0 .. m
          PROVE  f[i] = IF i = 0 THEN c ELSE next[<<i, f[i - 1]>>]
        <3>1. CASE i = m
            <4>1. m - 1 \in 0 .. m /\ m - 1 # m /\ m # 0
                OBVIOUS
            <4>2. f[m - 1] = h[m - 1] /\ f[m] = next[<<m, h[m - 1]>>]
                BY <4>1
            <4> QED BY <3>1, <4>1, <4>2
        <3>2. CASE i # m /\ i # 0
            <4>1. i - 1 \in 0 .. m /\ i - 1 # m /\ i \in 0 .. (m - 1)
                BY <3>2
            <4>2. f[i - 1] = h[i - 1] /\ f[i] = h[i]
                BY <3>2, <4>1
            <4> QED BY <2>2, <3>2, <4>1, <4>2
        <3>3. CASE i # m /\ i = 0
            <4>1. f[i] = h[i] /\ i \in 0 .. (m - 1)
                BY <3>3
            <4> QED BY <2>2, <3>3, <4>1
        <3> QED BY <3>1, <3>2, <3>3
    <2>4. f = [i \in 0 .. m |-> f[i]]
        OBVIOUS
    <2> HIDE DEF f
    <2>5. f = [i \in 0 .. m |-> IF i = 0 THEN c ELSE next[<<i, f[i - 1]>>]]
        BY <2>3, <2>4
    <2>6. Along(f, m, c, next)
        BY <2>5 DEF Along
    <2> QED BY <2>6
<1>3. n \in G
    <2> HIDE DEF G
    <2>1. \A k \in 0 .. n : k \in G
        BY <1>1, <1>2, CountInduction
    <2> QED BY <2>1
<1> QED BY <1>3

Runs(f, n, S, c, next) ==
    /\ f \in [0 .. n -> S]
    /\ f[0] = c
    /\ \A i \in 1 .. n : f[i] = next[<<i, f[i - 1]>>]

LEMMA AlongDoes ==
    ASSUME NEW n \in Nat, NEW S, NEW c \in S, NEW next,
           \A i \in 1 .. n, s \in S : next[<<i, s>>] \in S,
           NEW f, Along(f, n, c, next)
    PROVE  Runs(f, n, S, c, next)
<1>1. \A i \in 0 .. n : f[i] = IF i = 0 THEN c ELSE next[<<i, f[i - 1]>>]
    BY DEF Along
<1>2. f[0] = c
    BY <1>1, 0 \in 0 .. n
<1>5. ASSUME NEW i \in 1 .. n PROVE f[i] = next[<<i, f[i - 1]>>]
    <2>1. i \in 0 .. n /\ i # 0
        OBVIOUS
    <2> QED BY <1>1, <2>1, Zenon
<1>3. \A i \in 0 .. n : f[i] \in S
    <2> DEFINE G == {i \in 0 .. n : f[i] \in S}
    <2>1. 0 \in G
        BY <1>2
    <2>2. ASSUME NEW k \in 1 .. n, k - 1 \in G PROVE k \in G
        <3>1. f[k] = next[<<k, f[k - 1]>>] /\ f[k - 1] \in S
            BY <1>5, <2>2
        <3>2. f[k] \in S
            BY <3>1
        <3> QED BY <3>2
    <2> HIDE DEF G
    <2>3. \A i \in 0 .. n : i \in G
        BY <2>1, <2>2, CountInduction
    <2> QED BY <2>3 DEF G
<1>4. f = [i \in 0 .. n |-> f[i]]
    BY DEF Along
<1> QED BY <1>2, <1>3, <1>4, <1>5 DEF Runs

(* The form the models' recursive functions are found in: it exists, and its values are in S. *)
LEMMA Recursion ==
    ASSUME NEW n \in Nat, NEW S, NEW c \in S, NEW next,
           \A i \in 1 .. n, s \in S : next[<<i, s>>] \in S
    PROVE  \E f : Runs(f, n, S, c, next)
<1>1. PICK f : Along(f, n, c, next)
    BY AlongExists
<1>2. Runs(f, n, S, c, next)
    BY <1>1, AlongDoes
<1> QED BY <1>2

(* What is left after taking n times is what there was, less the sum taken. *)
LEMMA SumTelescopes ==
    ASSUME NEW n \in Nat, NEW f, NEW left, left[0] \in Int,
           \A i \in 1 .. n : f[i] \in Int /\ left[i] = left[i - 1] - f[i]
    PROVE  Sum(f, 1 .. n) = left[0] - left[n]
<1> DEFINE G == {k \in 0 .. n : left[k] \in Int /\ Sum(f, 1 .. k) = left[0] - left[k]}
<1>1. 0 \in G
    <2>1. 1 .. 0 = {}
        OBVIOUS
    <2>2. Sum(f, 1 .. 0) = 0
        BY <2>1, SumEmpty
    <2> QED BY <2>2
<1>2. ASSUME NEW k \in 1 .. n, k - 1 \in G PROVE k \in G
    <2> DEFINE K == 1 .. (k - 1)
    <2>1. 1 .. k = K \cup {k} /\ k \notin K
        OBVIOUS
    <2>2. IsFiniteSet(K)
        BY FS_Interval
    <2>3. \A x \in K \cup {k} : f[x] \in Int
        OBVIOUS
    <2>4. Sum(f, K \cup {k}) = Sum(f, K) + f[k]
        <3> HIDE DEF K
        <3> QED BY <2>1, <2>2, <2>3, SumAdds
    <2>5. Sum(f, 1 .. k) = Sum(f, K) + f[k]
        <3> HIDE DEF K
        <3> QED BY <2>1, <2>4, Zenon
    <2>6. left[k - 1] \in Int /\ Sum(f, K) = left[0] - left[k - 1]
        BY <1>2
    <2>7. f[k] \in Int /\ left[k] = left[k - 1] - f[k]
        OBVIOUS
    <2>8. left[k] \in Int /\ Sum(f, 1 .. k) = left[0] - left[k]
        <3> HIDE DEF K
        <3> QED BY <2>5, <2>6, <2>7
    <2> QED BY <2>8
<1>3. n \in G
    <2> HIDE DEF G
    <2>1. \A k \in 0 .. n : k \in G
        BY <1>1, <1>2, CountInduction
    <2> QED BY <2>1
<1> QED BY <1>3

LEMMA SumSingle == ASSUME NEW f, NEW e, f[e] \in Int PROVE Sum(f, {e}) = f[e]
<1>1. Sum(f, {} \cup {e}) = Sum(f, {}) + f[e]
    BY SumAdds, FS_EmptySet
<1>2. {} \cup {e} = {e} /\ Sum(f, {}) = 0
    BY SumEmpty
<1>3. Sum(f, {e}) = 0 + f[e]
    BY <1>1, <1>2, Zenon
<1> QED BY <1>3

(* The form in which the model writes a sum. *)
LEMMA SumFunctionIs ==
    ASSUME NEW S, IsFiniteSet(S), NEW g, DOMAIN g = S, NEW f, \A x \in S : f[x] = g[x]
    PROVE  SumFunction(g) = Sum(f, S)
<1>1. Sum(g, S) = Sum(f, S)
    BY SumSame
<1> QED BY <1>1 DEF SumFunction, Sum

-----------------------------------------------------------------------------
(* The ledger *)


(* What is taken is no more than there is, and no more than is asked. *)
LEMMA AtMostIs ==
    ASSUME NEW s \in Nat, NEW b \in Nat
    PROVE  /\ AtMost(s, b) \in Nat
           /\ AtMost(s, b) = IF s <= b THEN s ELSE b
           /\ AtMost(s, b) <= s /\ AtMost(s, b) <= b
<1> QED BY DEF AtMost

Sums2 == [amount : Nat, waived : Nat]

(* What an invoice takes is no more than there is, and no more than it lacks. *)
LEMMA TakesNoMore ==
    ASSUME NEW i \in Invoices, invoices[i].remaining \in Nat, NEW left \in Sums2
    PROVE  /\ Takes(i, left) \in Sums2
           /\ Takes(i, left).amount <= left.amount /\ Takes(i, left).waived <= left.waived
           /\ Takes(i, left).amount + Takes(i, left).waived <= invoices[i].remaining
<1> DEFINE paid == AtMost(left.amount, invoices[i].remaining)
           rest == invoices[i].remaining - paid
           waived == AtMost(left.waived, rest)
<1>1. left.amount \in Nat /\ left.waived \in Nat
    BY DEF Sums2
<1>2. paid \in Nat /\ paid <= left.amount /\ paid <= invoices[i].remaining
    BY <1>1, AtMostIs
<1>3. rest \in Nat /\ paid + rest = invoices[i].remaining
    <2> HIDE DEF paid
    <2> QED BY <1>2
<1>4. waived \in Nat /\ waived <= left.waived /\ waived <= rest
    <2> HIDE DEF rest
    <2> QED BY <1>1, <1>3, AtMostIs
<1>5. paid + waived <= invoices[i].remaining
    <2> HIDE DEF paid, waived, rest
    <2> QED BY <1>2, <1>3, <1>4
<1>6. Takes(i, left) = [amount |-> paid, waived |-> waived]
    BY DEF Takes
<1> HIDE DEF paid, waived, rest
<1> QED BY <1>2, <1>4, <1>5, <1>6 DEF Sums2

(* The money and the discount that are left after each invoice. *)
LeftAlong(left, targets, amount, discount) ==
    left = [i \in 0 .. NumInvoices |->
              IF i = 0 THEN [amount |-> amount, waived |-> discount]
              ELSE IF i \notin targets THEN left[i - 1]
              ELSE LET t == Takes(i, left[i - 1]) IN
                   [amount |-> left[i - 1].amount - t.amount, waived |-> left[i - 1].waived - t.waived]]

(* The shares of a payment, by what was left before each invoice. *)
SharesTaken(left, targets, amount, discount, shares) ==
    /\ left \in [0 .. NumInvoices -> Sums2]
    /\ left[0] = [amount |-> amount, waived |-> discount]
    /\ \A i \in Invoices :
         /\ shares[i] = IF i \in targets THEN Takes(i, left[i - 1]) ELSE Nothing
         /\ left[i].amount = left[i - 1].amount - shares[i].amount
         /\ left[i].waived = left[i - 1].waived - shares[i].waived

(* allocateToInvoices: the recursive function of the model is one that goes along the due dates. *)
LEMMA SharesAre ==
    ASSUME LedgerAssumption, \A i \in Invoices : invoices[i].remaining \in Nat,
           NEW targets \in SUBSET Invoices, NEW amount \in Nat, NEW discount \in Nat,
           NEW shares, shares = Shares(targets, amount, discount)
    PROVE  \E left : SharesTaken(left, targets, amount, discount, shares)
<1> DEFINE After(i, s) == IF i \notin targets THEN s
                          ELSE [amount |-> s.amount - Takes(i, s).amount,
                                waived |-> s.waived - Takes(i, s).waived]
           next == [x \in (1 .. NumInvoices) \X Sums2 |-> After(x[1], x[2])]
           first == [amount |-> amount, waived |-> discount]
           it == CHOOSE left : LeftAlong(left, targets, amount, discount)
<1>0. NumInvoices \in Nat /\ Invoices = 1 .. NumInvoices
    BY DEF LedgerAssumption, Invoices
<1>1. first \in Sums2
    BY DEF Sums2
<1>2. ASSUME NEW i \in 1 .. NumInvoices, NEW s \in Sums2
      PROVE  next[<<i, s>>] = After(i, s) /\ After(i, s) \in Sums2
    <2>1. i \in targets => /\ Takes(i, s) \in Sums2
                           /\ Takes(i, s).amount <= s.amount /\ Takes(i, s).waived <= s.waived
        BY <1>0, TakesNoMore
    <2>2. After(i, s) \in Sums2
        BY <2>1 DEF Sums2
    <2> QED BY <2>2
<1>6. \A i \in 1 .. NumInvoices, s \in Sums2 : next[<<i, s>>] \in Sums2
    <2> HIDE DEF next, After
    <2> QED BY <1>2
<1>3. PICK h : Runs(h, NumInvoices, Sums2, first, next)
    <2> HIDE DEF next, first
    <2> QED BY <1>0, <1>1, <1>6, Recursion
<1>4. LeftAlong(it, targets, amount, discount)
    <2>1. \A i \in 1 .. NumInvoices : h[i] = next[<<i, h[i - 1]>>] /\ h[i - 1] \in Sums2
        <3> HIDE DEF next, first
        <3>1. \A i \in 1 .. NumInvoices : i - 1 \in 0 .. NumInvoices
            BY <1>0
        <3>2. h \in [0 .. NumInvoices -> Sums2]
            BY <1>3 DEF Runs
        <3> QED BY <1>3, <3>1, <3>2 DEF Runs
    <2>2. h[0] = first /\ h = [i \in 0 .. NumInvoices |-> h[i]]
        BY <1>3 DEF Runs
    <2>3. \A i \in 1 .. NumInvoices : h[i] = After(i, h[i - 1])
        <3> HIDE DEF next, After
        <3> QED BY <1>2, <2>1
    <2>4. \A i \in 0 .. NumInvoices : h[i] = IF i = 0 THEN first ELSE After(i, h[i - 1])
        <3>1. \A i \in 0 .. NumInvoices : i # 0 => i \in 1 .. NumInvoices
            BY <1>0
        <3> HIDE DEF After, first
        <3> QED BY <2>2, <2>3, <3>1, Zenon
    <2>5. h = [i \in 0 .. NumInvoices |-> IF i = 0 THEN first ELSE After(i, h[i - 1])]
        <3> HIDE DEF After, first
        <3> QED BY <2>2, <2>4
    <2>6. LeftAlong(h, targets, amount, discount)
        BY <2>5 DEF LeftAlong
    <2> QED BY <2>6, Zenon
<1>5. shares =
        [i \in Invoices |-> IF i \in targets THEN Takes(i, it[i - 1]) ELSE Nothing]
    BY DEF Shares, LeftAlong
<1> HIDE DEF it
<1>7. /\ it[0] = first
      /\ \A i \in 1 .. NumInvoices : it[i] = After(i, it[i - 1])
    <2>1. \A i \in 0 .. NumInvoices : it[i] = IF i = 0 THEN first ELSE After(i, it[i - 1])
        BY <1>4 DEF LeftAlong
    <2> HIDE DEF first, After
    <2> QED BY <1>0, <2>1
<1>8. it \in [0 .. NumInvoices -> Sums2]
    <2> DEFINE G == {i \in 0 .. NumInvoices : it[i] \in Sums2}
    <2>1. 0 \in G
        BY <1>0, <1>1, <1>7
    <2>2. ASSUME NEW k \in 1 .. NumInvoices, k - 1 \in G PROVE k \in G
        <3>1. it[k] = After(k, it[k - 1]) /\ it[k - 1] \in Sums2 /\ k \in 0 .. NumInvoices
            BY <1>0, <1>7, <2>2
        <3>2. it[k] \in Sums2
            <4> HIDE DEF After, it
            <4> QED BY <1>2, <3>1
        <3> QED BY <3>1, <3>2
    <2>3. \A i \in 0 .. NumInvoices : it[i] \in Sums2
        <3>1. \A i \in 0 .. NumInvoices : i \in G
            <4> HIDE DEF G
            <4> QED BY <1>0, <2>1, <2>2, CountInduction
        <3> QED BY <3>1
    <2>4. it = [i \in 0 .. NumInvoices |-> it[i]]
        BY <1>4 DEF LeftAlong
    <2> QED BY <2>3, <2>4
<1>9. ASSUME NEW i \in Invoices
      PROVE  /\ shares[i] = IF i \in targets THEN Takes(i, it[i - 1]) ELSE Nothing
             /\ it[i].amount = it[i - 1].amount - shares[i].amount
             /\ it[i].waived = it[i - 1].waived - shares[i].waived
    <2>1. shares[i] = IF i \in targets THEN Takes(i, it[i - 1]) ELSE Nothing
        BY <1>5
    <2>2. it[i] = After(i, it[i - 1]) /\ it[i - 1] \in Sums2
        BY <1>0, <1>7, <1>8
    <2>3. CASE i \in targets
        BY <2>1, <2>2, <2>3
    <2>4. CASE i \notin targets
        BY <2>1, <2>2, <2>4 DEF Nothing, Sums2
    <2> QED BY <2>1, <2>3, <2>4
<1>10. SharesTaken(it, targets, amount, discount, shares)
    BY <1>7, <1>8, <1>9 DEF SharesTaken
<1> QED BY <1>10

(* Shares of a payment are no more than the payment, and no more than each invoice still lacks. *)
Fit(shares, targets, amount, discount) ==
    /\ \A i \in Invoices :
         /\ shares[i] \in Sums2
         /\ shares[i].amount + shares[i].waived <= invoices[i].remaining
         /\ i \notin targets => shares[i] = Nothing
    /\ Sum([i \in Invoices |-> shares[i].amount], Invoices) <= amount
    /\ Sum([i \in Invoices |-> shares[i].waived], Invoices) <= discount

(* A payment's shares come out of its money and its discount and go to its targets alone. *)
LEMMA SharesFit ==
    ASSUME LedgerAssumption, \A i \in Invoices : invoices[i].remaining \in Nat,
           NEW targets \in SUBSET Invoices, NEW amount \in Nat, NEW discount \in Nat,
           NEW shares, shares = Shares(targets, amount, discount)
    PROVE  Fit(shares, targets, amount, discount)
<1>0. NumInvoices \in Nat /\ Invoices = 1 .. NumInvoices
    BY DEF LedgerAssumption, Invoices
<1>t. PICK left : SharesTaken(left, targets, amount, discount, shares)
    BY SharesAre
<1>1. /\ left \in [0 .. NumInvoices -> Sums2]
      /\ left[0] = [amount |-> amount, waived |-> discount]
      /\ \A i \in Invoices :
           /\ shares[i] = IF i \in targets THEN Takes(i, left[i - 1]) ELSE Nothing
           /\ left[i].amount = left[i - 1].amount - shares[i].amount
           /\ left[i].waived = left[i - 1].waived - shares[i].waived
    BY <1>t DEF SharesTaken
<1>2. ASSUME NEW i \in Invoices
      PROVE  /\ shares[i] \in Sums2
             /\ shares[i].amount + shares[i].waived <= invoices[i].remaining
             /\ i \notin targets => shares[i] = Nothing
    <2>1. left[i - 1] \in Sums2
        BY <1>0, <1>1
    <2>2. CASE i \in targets
        BY <1>1, <2>1, <2>2, TakesNoMore
    <2>3. CASE i \notin targets
        <3>1. shares[i] = [amount |-> 0, waived |-> 0] /\ shares[i] = Nothing
            BY <1>1, <2>3 DEF Nothing
        <3> QED BY <2>3, <3>1 DEF Sums2
    <2> QED BY <2>2, <2>3
<1>3. ASSUME NEW f, NEW rest, rest[0] \in Nat, rest[NumInvoices] \in Nat,
             \A i \in Invoices : f[i] \in Nat /\ rest[i] = rest[i - 1] - f[i]
      PROVE  Sum(f, Invoices) <= rest[0]
    <2>1. Sum(f, 1 .. NumInvoices) = rest[0] - rest[NumInvoices]
        <3>1. \A i \in 1 .. NumInvoices : f[i] \in Int /\ rest[i] = rest[i - 1] - f[i]
            BY <1>0, <1>3
        <3>2. rest[0] \in Int
            BY <1>3
        <3> QED BY <1>0, <3>1, <3>2, SumTelescopes, Zenon
    <2> QED BY <1>0, <1>3, <2>1
<1>4. Sum([i \in Invoices |-> shares[i].amount], Invoices) <= amount
    <2> DEFINE f == [i \in Invoices |-> shares[i].amount]
               rest == [i \in 0 .. NumInvoices |-> left[i].amount]
    <2>1. \A i \in Invoices : f[i] \in Nat /\ rest[i] = rest[i - 1] - f[i]
        BY <1>0, <1>1, <1>2 DEF Sums2
    <2>2. rest[0] = amount /\ rest[NumInvoices] \in Nat
        BY <1>0, <1>1 DEF Sums2
    <2>3. Sum(f, Invoices) <= amount
        <3> HIDE DEF f, rest
        <3> QED BY <1>3, <2>1, <2>2
    <2> QED BY <2>3
<1>5. Sum([i \in Invoices |-> shares[i].waived], Invoices) <= discount
    <2> DEFINE f == [i \in Invoices |-> shares[i].waived]
               rest == [i \in 0 .. NumInvoices |-> left[i].waived]
    <2>1. \A i \in Invoices : f[i] \in Nat /\ rest[i] = rest[i - 1] - f[i]
        BY <1>0, <1>1, <1>2 DEF Sums2
    <2>2. rest[0] = discount /\ rest[NumInvoices] \in Nat
        BY <1>0, <1>1 DEF Sums2
    <2>3. Sum(f, Invoices) <= discount
        <3> HIDE DEF f, rest
        <3> QED BY <1>3, <2>1, <2>2
    <2> QED BY <2>3
<1> QED BY <1>2, <1>4, <1>5 DEF Fit

(* What is left of a new invoice after each of the loose payments. *)
OwedAlong(left, amount) ==
    left = [p \in 0 .. NumPayments |->
              IF p = 0 THEN amount
              ELSE IF p \in Loose THEN left[p - 1] - AtMost(left[p - 1], payments[p].amount)
              ELSE left[p - 1]]

(* applyUnallocatedPayments: what a new invoice and its rows are, by what was owed before each payment. *)
Issued(left, i, enrollment, amount) ==
    LET used == {p \in Loose : left[p - 1] > 0}
        remaining == AtMost(left[NumPayments], amount) IN
    /\ left \in [0 .. NumPayments -> Nat]
    /\ left[0] = amount
    /\ \A p \in Payments :
         left[p] = IF p \in Loose
                   THEN left[p - 1] - AtMost(left[p - 1], payments[p].amount)
                   ELSE left[p - 1]
    /\ invoices[i].status = "NONE"
    /\ invoices' = [invoices EXCEPT ![i] =
                      [status |-> IF used = {} THEN "OPEN"
                                  ELSE IF remaining = 0 THEN "PAID" ELSE "PARTIALLY_PAID",
                       enrollment |-> enrollment, amount |-> amount,
                       amountPaid |-> amount - remaining, remaining |-> remaining]]
    /\ allocations' = allocations \cup
         {[payment |-> p, invoice |-> i, amount |-> AtMost(left[p - 1], payments[p].amount),
           waived |-> 0] : p \in used}

(* The recursive function of Issue is one that goes along the payments. *)
LEMMA IssueIs ==
    ASSUME LedgerAssumption, \A p \in Payments : payments[p].amount \in Nat,
           NEW i \in Invoices, NEW enrollment, NEW amount \in Nat, Issue(i, enrollment, amount)
    PROVE  \E left : Issued(left, i, enrollment, amount)
<1> DEFINE After(p, s) == IF p \in Loose THEN s - AtMost(s, payments[p].amount) ELSE s
           next == [x \in (1 .. NumPayments) \X Nat |-> After(x[1], x[2])]
           it == CHOOSE left : OwedAlong(left, amount)
<1>0. NumPayments \in Nat /\ Payments = 1 .. NumPayments
    BY DEF LedgerAssumption, Payments
<1>2. ASSUME NEW p \in 1 .. NumPayments, NEW s \in Nat
      PROVE  next[<<p, s>>] = After(p, s) /\ After(p, s) \in Nat
    <2>1. p \in Payments /\ payments[p].amount \in Nat
        BY <1>0
    <2>2. AtMost(s, payments[p].amount) \in Nat /\ AtMost(s, payments[p].amount) <= s
        BY <2>1 DEF AtMost
    <2>3. After(p, s) \in Nat
        BY <2>2
    <2>4. <<p, s>> \in (1 .. NumPayments) \X Nat
        OBVIOUS
    <2> QED BY <2>3, <2>4
<1>6. \A p \in 1 .. NumPayments, s \in Nat : next[<<p, s>>] \in Nat
    <2> HIDE DEF next, After
    <2> QED BY <1>2
<1>3. PICK h : Runs(h, NumPayments, Nat, amount, next)
    <2> HIDE DEF next
    <2> QED BY <1>0, <1>6, Recursion
<1>4. OwedAlong(it, amount)
    <2>1. \A p \in 1 .. NumPayments : h[p] = next[<<p, h[p - 1]>>] /\ h[p - 1] \in Nat
        <3> HIDE DEF next
        <3>1. \A p \in 1 .. NumPayments : p - 1 \in 0 .. NumPayments
            BY <1>0
        <3>2. h \in [0 .. NumPayments -> Nat]
            BY <1>3 DEF Runs
        <3> QED BY <1>3, <3>1, <3>2 DEF Runs
    <2>2. h[0] = amount /\ h = [p \in 0 .. NumPayments |-> h[p]]
        BY <1>3 DEF Runs
    <2>3. \A p \in 1 .. NumPayments : h[p] = After(p, h[p - 1])
        <3> HIDE DEF next, After
        <3> QED BY <1>2, <2>1
    <2>4. \A p \in 0 .. NumPayments : h[p] = IF p = 0 THEN amount ELSE After(p, h[p - 1])
        <3>1. \A p \in 0 .. NumPayments : p # 0 => p \in 1 .. NumPayments
            BY <1>0
        <3> HIDE DEF After
        <3> QED BY <2>2, <2>3, <3>1, Zenon
    <2>5. h = [p \in 0 .. NumPayments |-> IF p = 0 THEN amount ELSE After(p, h[p - 1])]
        <3> HIDE DEF After
        <3> QED BY <2>2, <2>4
    <2>6. OwedAlong(h, amount)
        BY <2>5 DEF OwedAlong
    <2> QED BY <2>6, Zenon
<1>5. LET used == {p \in Loose : it[p - 1] > 0}
          remaining == AtMost(it[NumPayments], amount) IN
      /\ invoices[i].status = "NONE"
      /\ invoices' = [invoices EXCEPT ![i] =
                        [status |-> IF used = {} THEN "OPEN"
                                    ELSE IF remaining = 0 THEN "PAID" ELSE "PARTIALLY_PAID",
                         enrollment |-> enrollment, amount |-> amount,
                         amountPaid |-> amount - remaining, remaining |-> remaining]]
      /\ allocations' = allocations \cup
           {[payment |-> p, invoice |-> i, amount |-> AtMost(it[p - 1], payments[p].amount),
             waived |-> 0] : p \in used}
    BY DEF Issue, OwedAlong
<1> HIDE DEF it
<1>7. it[0] = amount /\ \A p \in 1 .. NumPayments : it[p] = After(p, it[p - 1])
    <2>1. \A p \in 0 .. NumPayments : it[p] = IF p = 0 THEN amount ELSE After(p, it[p - 1])
        BY <1>4 DEF OwedAlong
    <2> HIDE DEF After
    <2> QED BY <1>0, <2>1
<1>8. it \in [0 .. NumPayments -> Nat]
    <2> DEFINE G == {p \in 0 .. NumPayments : it[p] \in Nat}
    <2>1. 0 \in G
        BY <1>0, <1>7
    <2>2. ASSUME NEW k \in 1 .. NumPayments, k - 1 \in G PROVE k \in G
        <3>1. it[k] = After(k, it[k - 1]) /\ it[k - 1] \in Nat /\ k \in 0 .. NumPayments
            BY <1>0, <1>7, <2>2
        <3>2. it[k] \in Nat
            <4> HIDE DEF After, it
            <4> QED BY <1>2, <3>1
        <3> QED BY <3>1, <3>2
    <2>3. \A p \in 0 .. NumPayments : it[p] \in Nat
        <3>1. \A p \in 0 .. NumPayments : p \in G
            <4> HIDE DEF G
            <4> QED BY <1>0, <2>1, <2>2, CountInduction
        <3> QED BY <3>1
    <2>4. it = [p \in 0 .. NumPayments |-> it[p]]
        BY <1>4 DEF OwedAlong
    <2> QED BY <2>3, <2>4
<1>9. \A p \in Payments :
        it[p] = IF p \in Loose THEN it[p - 1] - AtMost(it[p - 1], payments[p].amount)
                ELSE it[p - 1]
    BY <1>0, <1>7
<1>10. Issued(it, i, enrollment, amount)
    BY <1>5, <1>7, <1>8, <1>9 DEF Issued
<1> QED BY <1>10

-----------------------------------------------------------------------------
TablesOK ==
    /\ invoices \in [Invoices -> InvoiceRows]
    /\ payments \in [Payments -> PaymentRows]
    /\ allocations \subseteq AllocationRows

(* The columns of the table of allocations. *)
AmountOf == [a \in AllocationRows |-> a.amount]
WaivedOf == [a \in AllocationRows |-> a.waived]
InvoiceOf == [a \in AllocationRows |-> a.invoice]
PaymentOf == [a \in AllocationRows |-> a.payment]

OnInvoice(i) == {a \in allocations : a.invoice = i}

(* Rows stand on invoices that exist, on cancelled ones with no money, and are of paid payments. *)
RowsStand ==
    /\ IsFiniteSet(allocations)
    /\ \A a \in allocations :
         /\ invoices[a.invoice].status # "NONE"
         /\ invoices[a.invoice].status = "CANCELLED" => a.amount = 0
         /\ payments[a.payment].status = "PAID"

(* An invoice's sums are those of its rows, and its status says whether it is paid. *)
InvoicesAddUp ==
    \A i \in Invoices : invoices[i].status # "NONE" =>
        /\ invoices[i].amountPaid = Sum(AmountOf, OnInvoice(i))
        /\ invoices[i].amount
             = invoices[i].remaining + invoices[i].amountPaid + Sum(WaivedOf, OnInvoice(i))
        /\ invoices[i].status = "PAID"
             <=> invoices[i].remaining = 0 /\ invoices[i].status # "CANCELLED"

(* A payment's rows use no more than it is. *)
PaymentsSuffice ==
    \A p \in Payments :
        /\ Sum(AmountOf, RowsOf(p)) <= payments[p].amount
        /\ Sum(WaivedOf, RowsOf(p)) <= payments[p].discount

MoneyInv == TablesOK /\ RowsStand /\ InvoicesAddUp /\ PaymentsSuffice

LEMMA RowTypes ==
    /\ \A a \in AllocationRows :
         /\ a.payment \in Payments /\ a.invoice \in Invoices /\ a.amount \in Nat /\ a.waived \in Nat
         /\ AmountOf[a] = a.amount /\ WaivedOf[a] = a.waived
         /\ InvoiceOf[a] = a.invoice /\ PaymentOf[a] = a.payment
    /\ \A p \in Payments, i \in Invoices, m \in Nat, w \in Nat :
         [payment |-> p, invoice |-> i, amount |-> m, waived |-> w] \in AllocationRows
<1> QED BY DEF AllocationRows, AmountOf, WaivedOf, InvoiceOf, PaymentOf

LEMMA RowSums ==
    ASSUME NEW T, T \subseteq AllocationRows, IsFiniteSet(T)
    PROVE  /\ Sum(AmountOf, T) \in Nat /\ Sum(WaivedOf, T) \in Nat
           /\ \A U \in SUBSET T : IsFiniteSet(U) /\ Sum(AmountOf, U) \in Nat /\ Sum(WaivedOf, U) \in Nat
<1>1. ASSUME NEW U \in SUBSET T
      PROVE  IsFiniteSet(U) /\ Sum(AmountOf, U) \in Nat /\ Sum(WaivedOf, U) \in Nat
    <2>1. IsFiniteSet(U)
        BY FS_Subset
    <2>2. \A a \in U : AmountOf[a] \in Nat /\ WaivedOf[a] \in Nat
        BY RowTypes
    <2>3. Sum(AmountOf, U) \in Nat
        BY <2>1, <2>2, SumNat
    <2>4. Sum(WaivedOf, U) \in Nat
        BY <2>1, <2>2, SumNat
    <2> QED BY <2>1, <2>3, <2>4
<1> QED BY <1>1

LEMMA RowsUnite ==
    ASSUME NEW T, T \subseteq AllocationRows, IsFiniteSet(T),
           NEW U, U \subseteq AllocationRows, IsFiniteSet(U), T \cap U = {}
    PROVE  /\ Sum(AmountOf, T \cup U) = Sum(AmountOf, T) + Sum(AmountOf, U)
           /\ Sum(WaivedOf, T \cup U) = Sum(WaivedOf, T) + Sum(WaivedOf, U)
<1>1. \A a \in T \cup U : AmountOf[a] \in Int /\ WaivedOf[a] \in Int
    BY RowTypes
<1>2. Sum(AmountOf, T \cup U) = Sum(AmountOf, T) + Sum(AmountOf, U)
    BY <1>1, SumUnion
<1>3. Sum(WaivedOf, T \cup U) = Sum(WaivedOf, T) + Sum(WaivedOf, U)
    BY <1>1, SumUnion
<1> QED BY <1>2, <1>3

(* A payment and its rows, in whichever of the three ways it comes. *)
LEMMA PayKeeps ==
    ASSUME LedgerAssumption, MoneyInv, NEW p \in Payments, NEW payment \in PaymentRows,
           NEW targets \in SUBSET {i \in Invoices : invoices[i].status \notin {"NONE", "CANCELLED"}},
           payment.status = "PAID" \/ targets = {}, Pay(p, payment, targets)
    PROVE  MoneyInv'
<1> DEFINE shares == Shares(targets, payment.amount, payment.discount)
           touched == {i \in targets : shares[i] # Nothing}
           Row(i) == [payment |-> p, invoice |-> i, amount |-> shares[i].amount,
                      waived |-> shares[i].waived]
           new == {Row(i) : i \in touched}
           NewOn(i) == {a \in new : a.invoice = i}
<1>1. /\ payments[p].status = "NONE"
      /\ payments' = [payments EXCEPT ![p] = payment]
      /\ allocations' = allocations \cup new
      /\ invoices' = [i \in Invoices |->
                        IF i \in touched THEN Credited(invoices[i], shares[i]) ELSE invoices[i]]
    BY DEF Pay
<1>2. /\ targets \in SUBSET Invoices
      /\ payment.amount \in Nat /\ payment.discount \in Nat
      /\ \A i \in Invoices : /\ invoices[i].remaining \in Nat /\ invoices[i].amountPaid \in Nat
                             /\ invoices[i].amount \in Nat
    BY DEF MoneyInv, TablesOK, PaymentRows, InvoiceRows
<1>3. /\ \A i \in Invoices :
           /\ shares[i] \in Sums2
           /\ shares[i].amount + shares[i].waived <= invoices[i].remaining
           /\ i \notin targets => shares[i] = Nothing
      /\ Sum([i \in Invoices |-> shares[i].amount], Invoices) <= payment.amount
      /\ Sum([i \in Invoices |-> shares[i].waived], Invoices) <= payment.discount
    <2> HIDE DEF shares
    <2>1. shares = Shares(targets, payment.amount, payment.discount)
        BY DEF shares
    <2>2. Fit(shares, targets, payment.amount, payment.discount)
        BY <1>2, <2>1, SharesFit
    <2> QED BY <2>2 DEF Fit
<1> HIDE DEF shares
<1>4. \A i \in Invoices : shares[i].amount \in Nat /\ shares[i].waived \in Nat
    BY <1>3 DEF Sums2
<1>5. \A i \in Invoices : i \notin touched => shares[i].amount = 0 /\ shares[i].waived = 0
    BY <1>3 DEF Nothing
<1>6. touched \in SUBSET Invoices /\ IsFiniteSet(touched)
    <2>1. IsFiniteSet(Invoices)
        BY FS_Interval DEF LedgerAssumption, Invoices
    <2> QED BY <1>2, <2>1, FS_Subset
<1> HIDE DEF touched
<1>7. \A i \in touched : /\ Row(i) \in AllocationRows /\ Row(i).invoice = i /\ Row(i).payment = p
                         /\ Row(i).amount = shares[i].amount /\ Row(i).waived = shares[i].waived
    BY <1>4, <1>6, RowTypes
<1>8. new \subseteq AllocationRows /\ IsFiniteSet(new) /\ \A a \in new : a.payment = p
    <2> DEFINE f == [i \in touched |-> Row(i)]
    <2>1. f \in Surjection(touched, new)
        BY DEF Surjection
    <2>2. IsFiniteSet(new)
        <3> HIDE DEF f, new
        <3> QED BY <1>6, <2>1, FS_Surjection
    <2>3. \A a \in new : a \in AllocationRows /\ a.payment = p
        <3> HIDE DEF Row
        <3> QED BY <1>7
    <2> QED BY <2>2, <2>3
<1>9. \A i \in Invoices : NewOn(i) = IF i \in touched THEN {Row(i)} ELSE {}
    <2> HIDE DEF Row
    <2> QED BY <1>6, <1>7
<1>10. ASSUME NEW i \in Invoices
       PROVE  Sum(AmountOf, NewOn(i)) = shares[i].amount /\ Sum(WaivedOf, NewOn(i)) = shares[i].waived
    <2>1. CASE i \in touched
        <3>1. NewOn(i) = {Row(i)}
            BY <1>9, <2>1
        <3>2. AmountOf[Row(i)] = shares[i].amount /\ WaivedOf[Row(i)] = shares[i].waived
            <4> HIDE DEF Row
            <4> QED BY <1>7, <2>1, RowTypes
        <3>3. AmountOf[Row(i)] \in Int /\ WaivedOf[Row(i)] \in Int
            <4> HIDE DEF Row
            <4> QED BY <1>4, <3>2
        <3>4. Sum(AmountOf, {Row(i)}) = AmountOf[Row(i)] /\ Sum(WaivedOf, {Row(i)}) = WaivedOf[Row(i)]
            <4> HIDE DEF Row
            <4> QED BY <3>3, SumSingle
        <3> HIDE DEF Row, NewOn
        <3> QED BY <3>1, <3>2, <3>4
    <2>2. CASE i \notin touched
        <3>1. NewOn(i) = {}
            BY <1>9, <2>2
        <3> HIDE DEF Row, NewOn
        <3> QED BY <1>5, <2>2, <3>1, SumEmpty
    <2> QED BY <2>1, <2>2
<1> HIDE DEF Row, new
<1>11. Sum(AmountOf, new) <= payment.amount /\ Sum(WaivedOf, new) <= payment.discount
    <2> DEFINE m == [i \in Invoices |-> shares[i].amount]
               w == [i \in Invoices |-> shares[i].waived]
    <2>1. \A a \in new : /\ AmountOf[a] \in Int /\ WaivedOf[a] \in Int
                         /\ InvoiceOf[a] \in Invoices /\ InvoiceOf[a] = a.invoice
        BY <1>8, RowTypes
    <2>2. \A i \in Invoices : Part(new, InvoiceOf, i) = NewOn(i)
        BY <2>1 DEF Part
    <2>3. \A i \in Invoices : /\ m[i] = Sum(AmountOf, Part(new, InvoiceOf, i))
                              /\ w[i] = Sum(WaivedOf, Part(new, InvoiceOf, i))
        <3> HIDE DEF NewOn
        <3> QED BY <1>10, <2>2
    <2>4. IsFiniteSet(Invoices)
        BY FS_Interval DEF LedgerAssumption, Invoices
    <2>5. Sum(m, Invoices) = Sum(AmountOf, new)
        <3> HIDE DEF m, w, NewOn
        <3> QED BY <1>8, <2>1, <2>3, <2>4, SumByKey
    <2>6. Sum(w, Invoices) = Sum(WaivedOf, new)
        <3> HIDE DEF m, w, NewOn
        <3> QED BY <1>8, <2>1, <2>3, <2>4, SumByKey
    <2> QED BY <1>3, <2>5, <2>6
<1>12. \A a \in allocations : a \in AllocationRows /\ a.payment # p
    BY <1>1, RowTypes DEF MoneyInv, TablesOK, RowsStand
<1>13. allocations \subseteq AllocationRows /\ IsFiniteSet(allocations) /\ allocations \cap new = {}
    BY <1>8, <1>12 DEF MoneyInv, RowsStand
<1>14. TablesOK'
    <2>1. payments' \in [Payments -> PaymentRows]
        BY <1>1 DEF MoneyInv, TablesOK
    <2>2. ASSUME NEW i \in touched PROVE Credited(invoices[i], shares[i]) \in InvoiceRows
        <3>1. invoices[i] \in InvoiceRows /\ i \in Invoices
            BY <1>6 DEF MoneyInv, TablesOK
        <3>2. /\ invoices[i].amountPaid + shares[i].amount \in Nat
              /\ invoices[i].remaining - shares[i].amount - shares[i].waived \in Nat
            BY <1>2, <1>3, <1>4, <3>1
        <3> QED BY <3>1, <3>2 DEF Credited, InvoiceRows
    <2>3. invoices' \in [Invoices -> InvoiceRows]
        BY <1>1, <2>2 DEF MoneyInv, TablesOK
    <2> QED BY <1>1, <1>8, <1>13, <2>1, <2>3 DEF TablesOK
<1>15. ASSUME NEW i \in Invoices
       PROVE  /\ i \in touched => /\ invoices'[i].status = IF invoices'[i].remaining = 0
                                                           THEN "PAID" ELSE "PARTIALLY_PAID"
                                  /\ invoices[i].status \notin {"NONE", "CANCELLED"}
              /\ i \notin touched => invoices'[i].status = invoices[i].status
              /\ invoices'[i].amount = invoices[i].amount
              /\ invoices'[i].amountPaid = invoices[i].amountPaid + shares[i].amount
              /\ invoices'[i].remaining = invoices[i].remaining - shares[i].amount - shares[i].waived
    <2>1. CASE i \in touched
        <3>1. invoices[i] \in InvoiceRows /\ invoices'[i] = Credited(invoices[i], shares[i])
            BY <1>1, <2>1 DEF MoneyInv, TablesOK
        <3>2. /\ invoices'[i].amount = invoices[i].amount
              /\ invoices'[i].amountPaid = invoices[i].amountPaid + shares[i].amount
              /\ invoices'[i].remaining = invoices[i].remaining - shares[i].amount - shares[i].waived
              /\ invoices'[i].status = IF invoices[i].remaining = shares[i].amount + shares[i].waived
                                       THEN "PAID" ELSE "PARTIALLY_PAID"
            BY <3>1 DEF Credited, InvoiceRows
        <3>3. invoices[i].status \notin {"NONE", "CANCELLED"}
            BY <2>1 DEF touched
        <3> QED BY <1>2, <1>4, <2>1, <3>2, <3>3
    <2>2. CASE i \notin touched
        <3>1. invoices'[i] = invoices[i] /\ shares[i].amount = 0 /\ shares[i].waived = 0
            BY <1>1, <1>5, <2>2
        <3> QED BY <1>2, <2>2, <3>1
    <2> QED BY <2>1, <2>2
<1>16. RowsStand'
    <2>1. IsFiniteSet(allocations')
        BY <1>1, <1>8, <1>13, FS_Union
    <2>2. ASSUME NEW a \in allocations
          PROVE  /\ invoices'[a.invoice].status # "NONE"
                 /\ invoices'[a.invoice].status = "CANCELLED" => a.amount = 0
                 /\ payments'[a.payment].status = "PAID"
        <3>1. a.invoice \in Invoices /\ a.payment \in Payments /\ a.payment # p
            BY <1>12, RowTypes
        <3>2. /\ invoices[a.invoice].status # "NONE"
              /\ invoices[a.invoice].status = "CANCELLED" => a.amount = 0
              /\ payments[a.payment].status = "PAID"
            BY DEF MoneyInv, RowsStand
        <3>3. payments'[a.payment] = payments[a.payment]
            BY <1>1, <3>1
        <3> QED BY <1>15, <3>1, <3>2, <3>3
    <2>3. ASSUME NEW a \in new
          PROVE  /\ invoices'[a.invoice].status # "NONE"
                 /\ invoices'[a.invoice].status # "CANCELLED"
                 /\ payments'[a.payment].status = "PAID"
        <3>1. PICK i \in touched : a = Row(i)
            BY DEF new
        <3>2. a.invoice = i /\ a.payment = p /\ i \in Invoices /\ i \in targets
            BY <1>6, <1>7, <3>1 DEF touched
        <3>3. payments'[p] = payment /\ payment.status = "PAID"
            BY <1>1, <3>2 DEF MoneyInv, TablesOK
        <3> QED BY <1>15, <3>1, <3>2, <3>3
    <2> QED BY <1>1, <2>1, <2>2, <2>3 DEF RowsStand
<1>17. InvoicesAddUp'
    <2> SUFFICES ASSUME NEW i \in Invoices, invoices'[i].status # "NONE"
                 PROVE  /\ invoices'[i].amountPaid = Sum(AmountOf, OnInvoice(i)')
                        /\ invoices'[i].amount = invoices'[i].remaining + invoices'[i].amountPaid
                                                   + Sum(WaivedOf, OnInvoice(i)')
                        /\ invoices'[i].status = "PAID"
                             <=> invoices'[i].remaining = 0 /\ invoices'[i].status # "CANCELLED"
        BY DEF InvoicesAddUp
    <2>1. OnInvoice(i)' = OnInvoice(i) \cup NewOn(i)
        BY <1>1 DEF OnInvoice
    <2>2. /\ OnInvoice(i) \subseteq AllocationRows /\ IsFiniteSet(OnInvoice(i))
          /\ NewOn(i) \subseteq AllocationRows /\ IsFiniteSet(NewOn(i))
          /\ OnInvoice(i) \cap NewOn(i) = {}
        <3>1. OnInvoice(i) \in SUBSET allocations /\ NewOn(i) \in SUBSET new
            BY DEF OnInvoice
        <3>2. IsFiniteSet(OnInvoice(i))
            BY <1>13, <3>1, FS_Subset
        <3> HIDE DEF NewOn
        <3>3. IsFiniteSet(NewOn(i))
            BY <1>8, <3>1, FS_Subset
        <3> QED BY <1>8, <1>13, <3>1, <3>2, <3>3
    <2>3. /\ Sum(AmountOf, OnInvoice(i)') = Sum(AmountOf, OnInvoice(i)) + shares[i].amount
          /\ Sum(WaivedOf, OnInvoice(i)') = Sum(WaivedOf, OnInvoice(i)) + shares[i].waived
        <3>1. Sum(AmountOf, NewOn(i)) = shares[i].amount /\ Sum(WaivedOf, NewOn(i)) = shares[i].waived
            BY <1>10
        <3> DEFINE old == OnInvoice(i)
                   added == NewOn(i)
        <3> HIDE DEF NewOn, old, added
        <3>2. /\ old \subseteq AllocationRows /\ IsFiniteSet(old)
              /\ added \subseteq AllocationRows /\ IsFiniteSet(added) /\ old \cap added = {}
            BY <2>2 DEF old, added
        <3>3. /\ Sum(AmountOf, old \cup added) = Sum(AmountOf, old) + Sum(AmountOf, added)
              /\ Sum(WaivedOf, old \cup added) = Sum(WaivedOf, old) + Sum(WaivedOf, added)
            BY <3>2, RowsUnite
        <3>4. OnInvoice(i)' = old \cup added
            BY <2>1 DEF old, added
        <3> QED BY <3>1, <3>3, <3>4 DEF old, added
    <2>4. Sum(AmountOf, OnInvoice(i)) \in Nat /\ Sum(WaivedOf, OnInvoice(i)) \in Nat
        BY <2>2, RowSums
    <2>5. invoices[i].status # "NONE"
        BY <1>15
    <2>6. /\ invoices[i].amountPaid = Sum(AmountOf, OnInvoice(i))
          /\ invoices[i].amount
               = invoices[i].remaining + invoices[i].amountPaid + Sum(WaivedOf, OnInvoice(i))
          /\ invoices[i].status = "PAID"
               <=> invoices[i].remaining = 0 /\ invoices[i].status # "CANCELLED"
        BY <2>5 DEF MoneyInv, InvoicesAddUp
    <2>7. invoices'[i].amountPaid = Sum(AmountOf, OnInvoice(i)')
        BY <1>15, <2>3, <2>6
    <2>8. invoices'[i].amount
            = invoices'[i].remaining + invoices'[i].amountPaid + Sum(WaivedOf, OnInvoice(i)')
        BY <1>2, <1>4, <1>15, <2>3, <2>4, <2>6
    <2>9. invoices'[i].status = "PAID"
            <=> invoices'[i].remaining = 0 /\ invoices'[i].status # "CANCELLED"
        <3>1. CASE i \in touched
            BY <1>15, <3>1
        <3>2. CASE i \notin touched
            BY <1>2, <1>5, <1>15, <2>6, <3>2
        <3> QED BY <3>1, <3>2
    <2> QED BY <2>7, <2>8, <2>9
<1>18. PaymentsSuffice'
    <2> SUFFICES ASSUME NEW q \in Payments
                 PROVE  /\ Sum(AmountOf, RowsOf(q)') <= payments'[q].amount
                        /\ Sum(WaivedOf, RowsOf(q)') <= payments'[q].discount
        BY DEF PaymentsSuffice
    <2>1. CASE q = p
        <3>1. RowsOf(q)' = new
            BY <1>1, <1>8, <1>12, <2>1 DEF RowsOf
        <3>2. payments'[q] = payment
            BY <1>1, <2>1 DEF MoneyInv, TablesOK
        <3> QED BY <1>11, <3>1, <3>2
    <2>2. CASE q # p
        <3>1. RowsOf(q)' = RowsOf(q)
            BY <1>1, <1>8, <2>2 DEF RowsOf
        <3>2. payments'[q] = payments[q]
            BY <1>1, <2>2
        <3> QED BY <3>1, <3>2 DEF MoneyInv, PaymentsSuffice
    <2> QED BY <2>1, <2>2
<1> QED BY <1>14, <1>16, <1>17, <1>18 DEF MoneyInv

-----------------------------------------------------------------------------
LEMMA RowSumFunctions ==
    ASSUME NEW T, T \subseteq AllocationRows, IsFiniteSet(T)
    PROVE  /\ SumFunction([a \in T |-> a.amount]) = Sum(AmountOf, T)
           /\ SumFunction([a \in T |-> a.waived]) = Sum(WaivedOf, T)
<1> DEFINE m == [a \in T |-> a.amount]
           w == [a \in T |-> a.waived]
<1>1. \A a \in T : AmountOf[a] = m[a] /\ WaivedOf[a] = w[a]
    BY RowTypes
<1>2. DOMAIN m = T /\ DOMAIN w = T
    OBVIOUS
<1>3. SumFunction(m) = Sum(AmountOf, T)
    <2> HIDE DEF m, w
    <2> QED BY <1>1, <1>2, SumFunctionIs
<1>4. SumFunction(w) = Sum(WaivedOf, T)
    <2> HIDE DEF m, w
    <2> QED BY <1>1, <1>2, SumFunctionIs
<1> QED BY <1>3, <1>4

(* What taking rows off an invoice gives, when they are among its own. *)
LEMMA UncreditedIs ==
    ASSUME NEW invoice \in InvoiceRows, NEW rows, rows \subseteq AllocationRows, IsFiniteSet(rows),
           Sum(AmountOf, rows) <= invoice.amountPaid,
           invoice.remaining + Sum(AmountOf, rows) + Sum(WaivedOf, rows) <= invoice.amount,
           NEW it, it = Uncredited(invoice, rows)
    PROVE  /\ it \in InvoiceRows
           /\ it.amount = invoice.amount
           /\ it.amountPaid = invoice.amountPaid - Sum(AmountOf, rows)
           /\ it.remaining = invoice.remaining + Sum(AmountOf, rows) + Sum(WaivedOf, rows)
           /\ it.status = "CANCELLED" <=> invoice.status = "CANCELLED"
           /\ it.status = "PAID" <=> it.remaining = 0 /\ invoice.status # "CANCELLED"
           /\ it.status # "NONE"
<1> DEFINE m == SumFunction([a \in rows |-> a.amount])
           w == SumFunction([a \in rows |-> a.waived])
           paid == IF m \in 0 .. invoice.amountPaid THEN invoice.amountPaid - m ELSE 0
           remaining == AtMost(invoice.remaining + m + w, invoice.amount)
<1>1. m = Sum(AmountOf, rows) /\ w = Sum(WaivedOf, rows) /\ m \in Nat /\ w \in Nat
    BY RowSums, RowSumFunctions
<1>2. invoice.amount \in Nat /\ invoice.amountPaid \in Nat /\ invoice.remaining \in Nat
    BY DEF InvoiceRows
<1>3. it = [invoice EXCEPT !.amountPaid = paid, !.remaining = remaining,
                           !.status = IF @ = "CANCELLED" THEN @
                                      ELSE IF remaining = 0 THEN "PAID"
                                      ELSE IF paid > 0 \/ remaining < invoice.amount
                                      THEN "PARTIALLY_PAID" ELSE "OPEN"]
    BY DEF Uncredited
<1> HIDE DEF m, w
<1>4. paid \in Nat /\ paid = invoice.amountPaid - m
    BY <1>1, <1>2
<1>5. remaining \in Nat /\ remaining = invoice.remaining + m + w
    <2> DEFINE back == invoice.remaining + m + w
    <2>1. back \in Nat /\ back <= invoice.amount
        BY <1>1, <1>2
    <2> HIDE DEF back
    <2>2. AtMost(back, invoice.amount) = back
        BY <1>2, <2>1, AtMostIs
    <2> QED BY <2>1, <2>2 DEF back
<1> HIDE DEF paid, remaining
<1>6. /\ it.amount = invoice.amount /\ it.amountPaid = paid /\ it.remaining = remaining
      /\ it.status = IF invoice.status = "CANCELLED" THEN "CANCELLED"
                     ELSE IF remaining = 0 THEN "PAID"
                     ELSE IF paid > 0 \/ remaining < invoice.amount
                     THEN "PARTIALLY_PAID" ELSE "OPEN"
      /\ it \in InvoiceRows
    BY <1>3, <1>4, <1>5 DEF InvoiceRows
<1> QED BY <1>1, <1>4, <1>5, <1>6

(* Voiding takes a payment's rows off every invoice. *)
LEMMA VoidKeeps ==
    ASSUME LedgerAssumption, MoneyInv, NEW p \in Payments, VoidPayment(p)
    PROVE  MoneyInv'
<1> DEFINE rows(i) == {a \in RowsOf(p) : a.invoice = i}
<1>1. /\ invoices' = [i \in Invoices |->
                        IF rows(i) = {} THEN invoices[i] ELSE Uncredited(invoices[i], rows(i))]
      /\ allocations' = allocations \ RowsOf(p)
      /\ payments' = [payments EXCEPT ![p].status = "VOIDED"]
    BY DEF VoidPayment
<1>2. allocations \subseteq AllocationRows /\ IsFiniteSet(allocations)
    BY DEF MoneyInv, TablesOK, RowsStand
<1>3. ASSUME NEW i \in Invoices
      PROVE  /\ rows(i) \subseteq AllocationRows /\ IsFiniteSet(rows(i))
             /\ OnInvoice(i)' \subseteq AllocationRows /\ IsFiniteSet(OnInvoice(i)')
             /\ OnInvoice(i) = OnInvoice(i)' \cup rows(i) /\ OnInvoice(i)' \cap rows(i) = {}
    BY <1>1, <1>2, FS_Subset DEF RowsOf, OnInvoice
<1>4. ASSUME NEW i \in Invoices
      PROVE  /\ Sum(AmountOf, OnInvoice(i)) = Sum(AmountOf, OnInvoice(i)') + Sum(AmountOf, rows(i))
             /\ Sum(WaivedOf, OnInvoice(i)) = Sum(WaivedOf, OnInvoice(i)') + Sum(WaivedOf, rows(i))
             /\ Sum(AmountOf, OnInvoice(i)') \in Nat /\ Sum(WaivedOf, OnInvoice(i)') \in Nat
             /\ Sum(AmountOf, rows(i)) \in Nat /\ Sum(WaivedOf, rows(i)) \in Nat
    <2> DEFINE rest == OnInvoice(i)'
    <2>1. /\ rows(i) \subseteq AllocationRows /\ IsFiniteSet(rows(i))
          /\ rest \subseteq AllocationRows /\ IsFiniteSet(rest)
          /\ OnInvoice(i) = rest \cup rows(i) /\ rest \cap rows(i) = {}
        BY <1>3
    <2>2. /\ Sum(AmountOf, OnInvoice(i)) = Sum(AmountOf, rest) + Sum(AmountOf, rows(i))
          /\ Sum(WaivedOf, OnInvoice(i)) = Sum(WaivedOf, rest) + Sum(WaivedOf, rows(i))
          /\ Sum(AmountOf, rest) \in Nat /\ Sum(WaivedOf, rest) \in Nat
          /\ Sum(AmountOf, rows(i)) \in Nat /\ Sum(WaivedOf, rows(i)) \in Nat
        <3> HIDE DEF rest, rows
        <3> QED BY <2>1, RowsUnite, RowSums
    <2> QED BY <2>2
<1>5. ASSUME NEW i \in Invoices
      PROVE  /\ invoices[i] \in InvoiceRows /\ invoices[i].amount \in Nat
             /\ invoices[i].amountPaid \in Nat /\ invoices[i].remaining \in Nat
    BY DEF MoneyInv, TablesOK, InvoiceRows
<1>6. ASSUME NEW i \in Invoices, invoices[i].status # "NONE"
      PROVE  /\ invoices[i].amountPaid = Sum(AmountOf, OnInvoice(i))
             /\ invoices[i].amount
                  = invoices[i].remaining + invoices[i].amountPaid + Sum(WaivedOf, OnInvoice(i))
             /\ invoices[i].status = "PAID"
                  <=> invoices[i].remaining = 0 /\ invoices[i].status # "CANCELLED"
    BY <1>6 DEF MoneyInv, InvoicesAddUp
<1>7. ASSUME NEW i \in Invoices, rows(i) # {} PROVE invoices[i].status # "NONE"
    BY <1>7 DEF MoneyInv, RowsStand, RowsOf
<1>8. ASSUME NEW i \in Invoices, rows(i) # {}
      PROVE  /\ invoices'[i] \in InvoiceRows
             /\ invoices'[i].amount = invoices[i].amount
             /\ invoices'[i].amountPaid = Sum(AmountOf, OnInvoice(i)')
             /\ invoices'[i].amount
                  = invoices'[i].remaining + invoices'[i].amountPaid + Sum(WaivedOf, OnInvoice(i)')
             /\ invoices'[i].status = "CANCELLED" <=> invoices[i].status = "CANCELLED"
             /\ invoices'[i].status = "PAID"
                  <=> invoices'[i].remaining = 0 /\ invoices[i].status # "CANCELLED"
             /\ invoices'[i].status # "NONE"
    <2>1. invoices'[i] = Uncredited(invoices[i], rows(i))
        BY <1>1, <1>8
    <2>2. /\ Sum(AmountOf, rows(i)) <= invoices[i].amountPaid
          /\ invoices[i].remaining + Sum(AmountOf, rows(i)) + Sum(WaivedOf, rows(i))
               <= invoices[i].amount
        <3> HIDE DEF rows
        <3> QED BY <1>4, <1>5, <1>6, <1>7, <1>8
    <2>3. /\ invoices'[i] \in InvoiceRows
          /\ invoices'[i].amount = invoices[i].amount
          /\ invoices'[i].amountPaid = invoices[i].amountPaid - Sum(AmountOf, rows(i))
          /\ invoices'[i].remaining
               = invoices[i].remaining + Sum(AmountOf, rows(i)) + Sum(WaivedOf, rows(i))
          /\ invoices'[i].status = "CANCELLED" <=> invoices[i].status = "CANCELLED"
          /\ invoices'[i].status = "PAID"
               <=> invoices'[i].remaining = 0 /\ invoices[i].status # "CANCELLED"
          /\ invoices'[i].status # "NONE"
        <3> HIDE DEF rows
        <3> QED BY <1>3, <1>5, <2>1, <2>2, UncreditedIs
    <2> HIDE DEF rows
    <2> QED BY <1>4, <1>5, <1>6, <1>7, <1>8, <2>3
<1>9. ASSUME NEW i \in Invoices, rows(i) = {}
      PROVE  invoices'[i] = invoices[i] /\ OnInvoice(i)' = OnInvoice(i)
    <2>1. invoices'[i] = invoices[i]
        BY <1>1, <1>9
    <2>2. OnInvoice(i)' = OnInvoice(i)
        BY <1>3, <1>9
    <2> QED BY <2>1, <2>2
<1>10. payments[p] \in PaymentRows /\ payments[p].status = "PAID"
    BY DEF MoneyInv, TablesOK, VoidPayment, Voidable
<1>11. payments' \in [Payments -> PaymentRows]
    BY <1>1, <1>10 DEF MoneyInv, TablesOK, PaymentRows
<1>12. \A q \in Payments : /\ q # p => payments'[q] = payments[q]
                           /\ payments'[q].amount = payments[q].amount
                           /\ payments'[q].discount = payments[q].discount
    BY <1>1, <1>10 DEF MoneyInv, TablesOK, PaymentRows
<1>13. TablesOK'
    <2>1. \A i \in Invoices : invoices'[i] \in InvoiceRows
        <3> HIDE DEF rows
        <3> QED BY <1>5, <1>8, <1>9
    <2>2. invoices' = [i \in Invoices |-> invoices'[i]]
        BY <1>1
    <2> QED BY <1>1, <1>2, <1>11, <2>1, <2>2 DEF TablesOK
<1>14. RowsStand'
    <2> SUFFICES ASSUME NEW a \in allocations'
                 PROVE  /\ invoices'[a.invoice].status # "NONE"
                        /\ invoices'[a.invoice].status = "CANCELLED" => a.amount = 0
                        /\ payments'[a.payment].status = "PAID"
        <3>1. IsFiniteSet(allocations')
            BY <1>1, <1>2, FS_Subset
        <3> QED BY <3>1 DEF RowsStand
    <2>1. a \in allocations /\ a.payment # p /\ a.invoice \in Invoices /\ a.payment \in Payments
        BY <1>1, <1>2, RowTypes DEF RowsOf
    <2>2. /\ invoices[a.invoice].status # "NONE"
          /\ invoices[a.invoice].status = "CANCELLED" => a.amount = 0
          /\ payments[a.payment].status = "PAID"
        BY <2>1 DEF MoneyInv, RowsStand
    <2> HIDE DEF rows
    <2> QED BY <1>8, <1>9, <1>12, <2>1, <2>2
<1>15. InvoicesAddUp'
    <2> SUFFICES ASSUME NEW i \in Invoices, invoices'[i].status # "NONE"
                 PROVE  /\ invoices'[i].amountPaid = Sum(AmountOf, OnInvoice(i)')
                        /\ invoices'[i].amount = invoices'[i].remaining + invoices'[i].amountPaid
                                                   + Sum(WaivedOf, OnInvoice(i)')
                        /\ invoices'[i].status = "PAID"
                             <=> invoices'[i].remaining = 0 /\ invoices'[i].status # "CANCELLED"
        BY DEF InvoicesAddUp
    <2>1. CASE rows(i) = {}
        <3> HIDE DEF rows
        <3> QED BY <1>6, <1>9, <2>1
    <2>2. CASE rows(i) # {}
        <3> HIDE DEF rows
        <3> QED BY <1>8, <2>2
    <2> QED BY <2>1, <2>2
<1>16. PaymentsSuffice'
    <2> SUFFICES ASSUME NEW q \in Payments
                 PROVE  /\ Sum(AmountOf, RowsOf(q)') <= payments'[q].amount
                        /\ Sum(WaivedOf, RowsOf(q)') <= payments'[q].discount
        BY DEF PaymentsSuffice
    <2>1. CASE q = p
        <3>1. RowsOf(q)' = {}
            BY <1>1, <2>1 DEF RowsOf
        <3>2. payments'[q].amount \in Nat /\ payments'[q].discount \in Nat
            BY <1>11 DEF PaymentRows
        <3> QED BY <3>1, <3>2, SumEmpty
    <2>2. CASE q # p
        <3>1. RowsOf(q)' = RowsOf(q)
            BY <1>1, <2>2 DEF RowsOf
        <3> QED BY <1>12, <3>1 DEF MoneyInv, PaymentsSuffice
    <2> QED BY <2>1, <2>2
<1> QED BY <1>13, <1>14, <1>15, <1>16 DEF MoneyInv

-----------------------------------------------------------------------------
(* Cancelling: no money has come, so no row holds any. *)
LEMMA CancelKeeps ==
    ASSUME LedgerAssumption, MoneyInv, NEW i \in Invoices, CancelInvoice(i)
    PROVE  MoneyInv'
<1>1. /\ invoices[i].status \notin {"NONE", "CANCELLED", "PAID"} /\ invoices[i].amountPaid = 0
      /\ invoices' = [invoices EXCEPT ![i].status = "CANCELLED"]
      /\ payments' = payments /\ allocations' = allocations
    BY DEF CancelInvoice, Cancellable
<1>2. /\ invoices \in [Invoices -> InvoiceRows] /\ invoices[i] \in InvoiceRows
      /\ allocations \subseteq AllocationRows
    BY DEF MoneyInv, TablesOK
<1>3. invoices' \in [Invoices -> InvoiceRows]
    BY <1>1, <1>2 DEF InvoiceRows
<1>4. \A j \in Invoices : /\ j # i => invoices'[j] = invoices[j]
                          /\ invoices'[j].amount = invoices[j].amount
                          /\ invoices'[j].amountPaid = invoices[j].amountPaid
                          /\ invoices'[j].remaining = invoices[j].remaining
    BY <1>1, <1>2 DEF InvoiceRows
<1>5. invoices'[i].status = "CANCELLED"
    BY <1>1, <1>2 DEF InvoiceRows
<1>6. \A a \in OnInvoice(i) : a.amount = 0
    <2>1. Sum(AmountOf, OnInvoice(i)) = 0
        BY <1>1 DEF MoneyInv, InvoicesAddUp
    <2>2. IsFiniteSet(OnInvoice(i)) /\ OnInvoice(i) \subseteq AllocationRows
        BY <1>2, FS_Subset DEF OnInvoice, MoneyInv, RowsStand
    <2>3. \A a \in OnInvoice(i) : AmountOf[a] = a.amount /\ AmountOf[a] \in Nat
        BY <2>2, RowTypes
    <2>4. \A a \in OnInvoice(i) : AmountOf[a] = 0
        BY <2>1, <2>2, <2>3, SumZero
    <2> QED BY <2>3, <2>4
<1>7. RowsStand'
    <2> SUFFICES ASSUME NEW a \in allocations
                 PROVE  /\ invoices'[a.invoice].status # "NONE"
                        /\ invoices'[a.invoice].status = "CANCELLED" => a.amount = 0
        BY <1>1 DEF MoneyInv, RowsStand
    <2>1. a.invoice \in Invoices
        BY <1>2, RowTypes
    <2>2. CASE a.invoice = i
        <3>1. a \in OnInvoice(i)
            BY <2>2 DEF OnInvoice
        <3> QED BY <1>5, <1>6, <2>2, <3>1
    <2>3. CASE a.invoice # i
        BY <1>4, <2>1, <2>3 DEF MoneyInv, RowsStand
    <2> QED BY <2>2, <2>3
<1>8. InvoicesAddUp'
    <2>1. \A j \in Invoices : OnInvoice(j)' = OnInvoice(j)
        BY <1>1 DEF OnInvoice
    <2> QED BY <1>1, <1>4, <1>5, <2>1 DEF MoneyInv, InvoicesAddUp
<1>9. PaymentsSuffice'
    <2>1. \A q \in Payments : RowsOf(q)' = RowsOf(q)
        BY <1>1 DEF RowsOf
    <2> QED BY <1>1, <2>1 DEF MoneyInv, PaymentsSuffice
<1> QED BY <1>1, <1>3, <1>7, <1>8, <1>9 DEF MoneyInv, TablesOK

(* markOverdueInvoices changes a status and no sum. *)
LEMMA OverdueKeeps ==
    ASSUME LedgerAssumption, MoneyInv, NEW k \in Invoices, MarkOverdue(k)
    PROVE  MoneyInv'
<1>1. /\ invoices' = [i \in Invoices |->
                        IF i <= k /\ invoices[i].status \in {"OPEN", "PARTIALLY_PAID"}
                        THEN [invoices[i] EXCEPT !.status = "OVERDUE"] ELSE invoices[i]]
      /\ payments' = payments /\ allocations' = allocations
    BY DEF MarkOverdue
<1>2. allocations \subseteq AllocationRows
    BY DEF MoneyInv, TablesOK
<1>3. ASSUME NEW i \in Invoices
      PROVE  /\ invoices'[i] \in InvoiceRows
             /\ invoices'[i].amount = invoices[i].amount
             /\ invoices'[i].amountPaid = invoices[i].amountPaid
             /\ invoices'[i].remaining = invoices[i].remaining
             /\ \A s \in {"NONE", "CANCELLED", "PAID"} :
                  invoices'[i].status = s <=> invoices[i].status = s
    <2>1. invoices[i] \in InvoiceRows
        BY DEF MoneyInv, TablesOK
    <2>2. CASE i <= k /\ invoices[i].status \in {"OPEN", "PARTIALLY_PAID"}
        <3>1. invoices'[i] = [invoices[i] EXCEPT !.status = "OVERDUE"]
            BY <1>1, <2>2
        <3> QED BY <2>1, <2>2, <3>1 DEF InvoiceRows
    <2>3. CASE ~ (i <= k /\ invoices[i].status \in {"OPEN", "PARTIALLY_PAID"})
        <3>1. invoices'[i] = invoices[i]
            BY <1>1, <2>3
        <3> QED BY <2>1, <3>1
    <2> QED BY <2>2, <2>3
<1>4. invoices' \in [Invoices -> InvoiceRows]
    <2>1. invoices' = [i \in Invoices |-> invoices'[i]]
        BY <1>1
    <2> QED BY <1>3, <2>1
<1>5. RowsStand'
    <2>1. \A a \in allocations : a.invoice \in Invoices
        BY <1>2, RowTypes
    <2> QED BY <1>1, <1>3, <2>1 DEF MoneyInv, RowsStand
<1>6. InvoicesAddUp'
    <2>1. \A j \in Invoices : OnInvoice(j)' = OnInvoice(j)
        BY <1>1 DEF OnInvoice
    <2> QED BY <1>3, <2>1 DEF MoneyInv, InvoicesAddUp
<1>7. PaymentsSuffice'
    <2>1. \A q \in Payments : RowsOf(q)' = RowsOf(q)
        BY <1>1 DEF RowsOf
    <2> QED BY <1>1, <2>1 DEF MoneyInv, PaymentsSuffice
<1> QED BY <1>1, <1>4, <1>5, <1>6, <1>7 DEF MoneyInv, TablesOK

-----------------------------------------------------------------------------
(* A new invoice and what it takes of the payments that no invoice had. *)
LEMMA IssueKeeps ==
    ASSUME LedgerAssumption, MoneyInv, NEW i \in Invoices, NEW enrollment \in Enrollments \cup {NoId},
           NEW amount \in Nat, amount > 0, Issue(i, enrollment, amount)
    PROVE  MoneyInv'
<1>0. NumPayments \in Nat /\ Payments = 1 .. NumPayments /\ IsFiniteSet(Payments)
    <2>1. NumPayments \in Nat /\ Payments = 1 .. NumPayments
        BY DEF LedgerAssumption, Payments
    <2>2. IsFiniteSet(1 .. NumPayments)
        BY <2>1, FS_Interval
    <2> QED BY <2>1, <2>2
<1>1. \A p \in Payments : payments[p].amount \in Nat /\ payments[p].discount \in Nat
    BY DEF MoneyInv, TablesOK, PaymentRows
<1>2. PICK left : Issued(left, i, enrollment, amount)
    BY <1>1, IssueIs
<1> DEFINE used == {p \in Loose : left[p - 1] > 0}
           remaining == AtMost(left[NumPayments], amount)
           took(p) == AtMost(left[p - 1], payments[p].amount)
           Row(p) == [payment |-> p, invoice |-> i, amount |-> took(p), waived |-> 0]
           new == {Row(p) : p \in used}
           NewOf(p) == {a \in new : a.payment = p}
           invoice == [status |-> IF used = {} THEN "OPEN"
                                  ELSE IF remaining = 0 THEN "PAID" ELSE "PARTIALLY_PAID",
                       enrollment |-> enrollment, amount |-> amount,
                       amountPaid |-> amount - remaining, remaining |-> remaining]
           drawn == [p \in Payments |-> IF p \in used THEN took(p) ELSE 0]
<1>3. /\ left \in [0 .. NumPayments -> Nat]
      /\ left[0] = amount
      /\ \A p \in Payments : left[p] = IF p \in Loose THEN left[p - 1] - took(p) ELSE left[p - 1]
      /\ invoices[i].status = "NONE"
      /\ invoices' = [invoices EXCEPT ![i] = invoice]
      /\ allocations' = allocations \cup new
    BY <1>2 DEF Issued
<1>4. payments' = payments
    BY DEF Issue
<1>5. \A p \in Payments : left[p - 1] \in Nat /\ left[p] \in Nat
    BY <1>0, <1>3
<1>6. \A p \in Payments : /\ took(p) \in Nat /\ took(p) <= payments[p].amount
                          /\ left[p - 1] = 0 => took(p) = 0
    <2> SUFFICES ASSUME NEW p \in Payments
                 PROVE  /\ took(p) \in Nat /\ took(p) <= payments[p].amount
                        /\ left[p - 1] = 0 => took(p) = 0
        OBVIOUS
    <2> DEFINE there == left[p - 1]
               most == payments[p].amount
    <2>1. there \in Nat /\ most \in Nat
        BY <1>1, <1>5
    <2>2. /\ AtMost(there, most) \in Nat /\ AtMost(there, most) <= most
          /\ there = 0 => AtMost(there, most) = 0
        <3> HIDE DEF there, most
        <3>1. AtMost(there, most) \in Nat /\ AtMost(there, most) <= there
            BY <2>1, AtMostIs
        <3>2. AtMost(there, most) <= most
            BY <2>1, AtMostIs
        <3> QED BY <3>1, <3>2
    <2> QED BY <2>2
<1> HIDE DEF took
<1>7. /\ used \in SUBSET Payments /\ IsFiniteSet(used)
      /\ \A p \in used : payments[p].status = "PAID" /\ RowsOf(p) = {}
    BY <1>0, FS_Subset DEF Loose
<1>8. \A p \in Payments : drawn[p] \in Nat /\ left[p] = left[p - 1] - drawn[p]
    BY <1>3, <1>5, <1>6
<1>9. /\ remaining \in Nat /\ remaining <= amount
      /\ Sum(drawn, Payments) = amount - remaining
    <2>1. Sum(drawn, 1 .. NumPayments) = left[0] - left[NumPayments]
        <3>1. \A p \in 1 .. NumPayments : drawn[p] \in Int /\ left[p] = left[p - 1] - drawn[p]
            BY <1>0, <1>8
        <3>2. left[0] \in Int
            BY <1>3
        <3> HIDE DEF drawn
        <3> QED BY <1>0, <3>1, <3>2, SumTelescopes, Zenon
    <2>2. Sum(drawn, Payments) \in Nat
        <3> HIDE DEF drawn
        <3> QED BY <1>0, <1>8, SumNat
    <2>3. left[NumPayments] \in Nat
        BY <1>0, <1>3
    <2>4. Sum(drawn, Payments) = amount - left[NumPayments]
        <3> HIDE DEF drawn
        <3> QED BY <1>0, <1>3, <2>1
    <2>5. left[NumPayments] <= amount
        <3> HIDE DEF drawn
        <3> QED BY <2>2, <2>3, <2>4
    <2>6. remaining = left[NumPayments]
        BY <2>3, <2>5, AtMostIs
    <2> HIDE DEF drawn, remaining
    <2> QED BY <2>3, <2>4, <2>5, <2>6
<1> HIDE DEF remaining
<1>10. used = {} => remaining = amount
    <2> SUFFICES ASSUME used = {} PROVE remaining = amount
        OBVIOUS
    <2>1. \A p \in Payments : drawn[p] = 0
        OBVIOUS
    <2>2. Sum(drawn, Payments) = 0
        <3> HIDE DEF drawn
        <3> QED BY <1>0, <2>1, SumOfNothing
    <2> HIDE DEF drawn
    <2> QED BY <1>9, <2>2
<1> HIDE DEF used
<1>11. \A p \in used : /\ Row(p) \in AllocationRows /\ Row(p).invoice = i /\ Row(p).payment = p
                       /\ Row(p).amount = took(p) /\ Row(p).waived = 0
    BY <1>6, <1>7, RowTypes
<1>12. new \subseteq AllocationRows /\ IsFiniteSet(new) /\ \A a \in new : a.invoice = i
    <2> DEFINE f == [p \in used |-> Row(p)]
    <2>1. f \in Surjection(used, new)
        BY DEF Surjection
    <2>2. IsFiniteSet(new)
        <3> HIDE DEF f, new
        <3> QED BY <1>7, <2>1, FS_Surjection
    <2>3. \A a \in new : a \in AllocationRows /\ a.invoice = i
        <3> HIDE DEF Row
        <3> QED BY <1>11
    <2> QED BY <2>2, <2>3
<1>13. \A p \in Payments : NewOf(p) = IF p \in used THEN {Row(p)} ELSE {}
    <2> HIDE DEF Row
    <2> QED BY <1>7, <1>11
<1>14. ASSUME NEW p \in Payments
       PROVE  Sum(AmountOf, NewOf(p)) = drawn[p] /\ Sum(WaivedOf, NewOf(p)) = 0
    <2>1. CASE p \in used
        <3>1. NewOf(p) = {Row(p)} /\ drawn[p] = took(p)
            BY <1>13, <2>1
        <3>2. AmountOf[Row(p)] = took(p) /\ WaivedOf[Row(p)] = 0
            <4> HIDE DEF Row
            <4> QED BY <1>11, <2>1, RowTypes
        <3>3. AmountOf[Row(p)] \in Int /\ WaivedOf[Row(p)] \in Int
            <4> HIDE DEF Row
            <4> QED BY <1>6, <3>2
        <3>4. Sum(AmountOf, {Row(p)}) = AmountOf[Row(p)] /\ Sum(WaivedOf, {Row(p)}) = WaivedOf[Row(p)]
            <4> HIDE DEF Row
            <4> QED BY <3>3, SumSingle
        <3> HIDE DEF Row, NewOf, drawn
        <3> QED BY <3>1, <3>2, <3>4
    <2>2. CASE p \notin used
        <3>1. NewOf(p) = {} /\ drawn[p] = 0
            BY <1>13, <2>2
        <3> HIDE DEF Row, NewOf, drawn
        <3> QED BY <3>1, SumEmpty
    <2> QED BY <2>1, <2>2
<1> HIDE DEF Row, new
<1>15. Sum(AmountOf, new) = amount - remaining /\ Sum(WaivedOf, new) = 0
    <2> DEFINE none == [p \in Payments |-> 0]
    <2>1. \A a \in new : /\ AmountOf[a] \in Int /\ WaivedOf[a] \in Int
                         /\ PaymentOf[a] \in Payments /\ PaymentOf[a] = a.payment
        BY <1>12, RowTypes
    <2>2. \A p \in Payments : Part(new, PaymentOf, p) = NewOf(p)
        BY <2>1 DEF Part
    <2>3. \A p \in Payments : /\ drawn[p] = Sum(AmountOf, Part(new, PaymentOf, p))
                              /\ none[p] = Sum(WaivedOf, Part(new, PaymentOf, p))
        <3> HIDE DEF NewOf, drawn
        <3> QED BY <1>14, <2>2
    <2>7. \A p \in Payments : none[p] = 0
        OBVIOUS
    <2>8. new \subseteq AllocationRows /\ IsFiniteSet(new) /\ IsFiniteSet(Payments)
        BY <1>0, <1>12
    <2>4. Sum(drawn, Payments) = Sum(AmountOf, new)
        <3> HIDE DEF none, drawn, NewOf
        <3> QED BY <2>1, <2>3, <2>8, SumByKey
    <2>5. Sum(none, Payments) = Sum(WaivedOf, new)
        <3> HIDE DEF none, drawn, NewOf
        <3> QED BY <2>1, <2>3, <2>8, SumByKey
    <2>6. Sum(none, Payments) = 0
        <3> HIDE DEF none, drawn, NewOf
        <3> QED BY <2>7, <2>8, SumOfNothing
    <2> HIDE DEF none, drawn
    <2> QED BY <1>9, <2>4, <2>5, <2>6
<1>16. \A a \in allocations : a \in AllocationRows /\ a.invoice # i
    BY <1>3, RowTypes DEF MoneyInv, TablesOK, RowsStand
<1>17. allocations \subseteq AllocationRows /\ IsFiniteSet(allocations) /\ allocations \cap new = {}
    BY <1>12, <1>16 DEF MoneyInv, RowsStand
<1>18. invoice \in InvoiceRows /\ invoice.status \notin {"NONE", "CANCELLED"}
    BY <1>9 DEF InvoiceRows
<1>19. /\ \A j \in Invoices : j # i => invoices'[j] = invoices[j]
       /\ invoices'[i] = invoice
       /\ invoices' \in [Invoices -> InvoiceRows]
    <2> HIDE DEF invoice
    <2> QED BY <1>3, <1>18 DEF MoneyInv, TablesOK
<1>20. TablesOK'
    BY <1>3, <1>4, <1>12, <1>17, <1>19 DEF MoneyInv, TablesOK
<1>21. RowsStand'
    <2>1. IsFiniteSet(allocations')
        BY <1>3, <1>12, <1>17, FS_Union
    <2>2. ASSUME NEW a \in allocations
          PROVE  /\ invoices'[a.invoice].status # "NONE"
                 /\ invoices'[a.invoice].status = "CANCELLED" => a.amount = 0
                 /\ payments'[a.payment].status = "PAID"
        <3>1. a.invoice \in Invoices /\ a.invoice # i
            BY <1>16, RowTypes
        <3> HIDE DEF invoice
        <3> QED BY <1>4, <1>19, <3>1 DEF MoneyInv, RowsStand
    <2>3. ASSUME NEW a \in new
          PROVE  /\ invoices'[a.invoice].status # "NONE"
                 /\ invoices'[a.invoice].status # "CANCELLED"
                 /\ payments'[a.payment].status = "PAID"
        <3>1. PICK p \in used : a = Row(p)
            BY DEF new
        <3>2. a.invoice = i /\ a.payment = p /\ payments[p].status = "PAID"
            BY <1>7, <1>11, <3>1
        <3> HIDE DEF invoice
        <3> QED BY <1>4, <1>18, <1>19, <3>2
    <2> QED BY <1>3, <2>1, <2>2, <2>3 DEF RowsStand
<1>22. InvoicesAddUp'
    <2> SUFFICES ASSUME NEW j \in Invoices, invoices'[j].status # "NONE"
                 PROVE  /\ invoices'[j].amountPaid = Sum(AmountOf, OnInvoice(j)')
                        /\ invoices'[j].amount = invoices'[j].remaining + invoices'[j].amountPaid
                                                   + Sum(WaivedOf, OnInvoice(j)')
                        /\ invoices'[j].status = "PAID"
                             <=> invoices'[j].remaining = 0 /\ invoices'[j].status # "CANCELLED"
        BY DEF InvoicesAddUp
    <2>1. CASE j = i
        <3>1. OnInvoice(j)' = new
            BY <1>3, <1>12, <1>16, <2>1 DEF OnInvoice
        <3>2. /\ invoices'[j].amount = amount /\ invoices'[j].amountPaid = amount - remaining
              /\ invoices'[j].remaining = remaining
              /\ invoices'[j].status = IF used = {} THEN "OPEN"
                                       ELSE IF remaining = 0 THEN "PAID" ELSE "PARTIALLY_PAID"
            BY <1>19, <2>1
        <3> HIDE DEF invoice
        <3> QED BY <1>9, <1>10, <1>15, <3>1, <3>2
    <2>2. CASE j # i
        <3>1. OnInvoice(j)' = OnInvoice(j)
            BY <1>3, <1>12, <2>2 DEF OnInvoice
        <3>2. invoices'[j] = invoices[j]
            BY <1>19, <2>2
        <3> QED BY <3>1, <3>2 DEF MoneyInv, InvoicesAddUp
    <2> QED BY <2>1, <2>2
<1>23. PaymentsSuffice'
    <2> SUFFICES ASSUME NEW q \in Payments
                 PROVE  /\ Sum(AmountOf, RowsOf(q)') <= payments[q].amount
                        /\ Sum(WaivedOf, RowsOf(q)') <= payments[q].discount
        BY <1>4 DEF PaymentsSuffice
    <2>1. RowsOf(q)' = RowsOf(q) \cup NewOf(q)
        BY <1>3 DEF RowsOf
    <2>2. CASE q \in used
        <3>1. RowsOf(q)' = NewOf(q)
            BY <1>7, <2>1, <2>2
        <3>2. drawn[q] <= payments[q].amount
            BY <1>6, <2>2
        <3> HIDE DEF NewOf, drawn
        <3> QED BY <1>1, <1>14, <3>1, <3>2
    <2>3. CASE q \notin used
        <3>1. RowsOf(q)' = RowsOf(q)
            BY <1>13, <2>1, <2>3
        <3> QED BY <3>1 DEF MoneyInv, PaymentsSuffice
    <2> QED BY <2>2, <2>3
<1> QED BY <1>20, <1>21, <1>22, <1>23 DEF MoneyInv

(* Steps that leave the three tables alone. *)
LEMMA MoneyStays ==
    ASSUME MoneyInv, UNCHANGED <<invoices, payments, allocations>>
    PROVE  MoneyInv'
<1>1. /\ \A i \in Invoices : OnInvoice(i)' = OnInvoice(i)
      /\ \A p \in Payments : RowsOf(p)' = RowsOf(p)
    BY DEF OnInvoice, RowsOf
<1>2. TablesOK' /\ RowsStand'
    BY DEF MoneyInv, TablesOK, RowsStand
<1>3. InvoicesAddUp'
    BY <1>1 DEF MoneyInv, InvoicesAddUp
<1>4. PaymentsSuffice'
    BY <1>1 DEF MoneyInv, PaymentsSuffice
<1> QED BY <1>2, <1>3, <1>4 DEF MoneyInv

LEMMA MoneyAtFirst == ASSUME LedgerAssumption, LedgerInit PROVE MoneyInv
<1>1. NoInvoiceRow \in InvoiceRows /\ NoInvoiceRow.status = "NONE"
    BY DEF NoInvoiceRow, InvoiceRows
<1>2. /\ NoPaymentRow \in PaymentRows
      /\ NoPaymentRow.amount = 0 /\ NoPaymentRow.discount = 0
    BY DEF NoPaymentRow, PaymentRows
<1>3. payments \in [Payments -> PaymentRows]
    <2>1. PICK legacy \in LegacyReceipts \cup {NoId}, a \in Amounts :
            payments = [p \in Payments |->
                          IF p = 1 /\ legacy # NoId
                          THEN [NoPaymentRow EXCEPT !.status = "PAID", !.amount = a,
                                            !.method = "BANK_TRANSFER", !.key = legacy]
                          ELSE NoPaymentRow]
        BY DEF LedgerInit
    <2>2. legacy \in Receipts \cup {NoId} /\ a \in Nat
        BY DEF LedgerAssumption
    <2>3. [NoPaymentRow EXCEPT !.status = "PAID", !.amount = a, !.method = "BANK_TRANSFER",
                               !.key = legacy] \in PaymentRows
        BY <2>2 DEF NoPaymentRow, PaymentRows
    <2> QED BY <1>2, <2>1, <2>3
<1>4. invoices = [i \in Invoices |-> NoInvoiceRow] /\ allocations = {}
    BY DEF LedgerInit
<1>5. TablesOK
    BY <1>1, <1>3, <1>4 DEF TablesOK
<1>6. RowsStand
    BY <1>4, FS_EmptySet DEF RowsStand
<1>7. InvoicesAddUp
    BY <1>1, <1>4 DEF InvoicesAddUp
<1>8. PaymentsSuffice
    <2> SUFFICES ASSUME NEW p \in Payments
                 PROVE  Sum(AmountOf, RowsOf(p)) <= payments[p].amount
                        /\ Sum(WaivedOf, RowsOf(p)) <= payments[p].discount
        BY DEF PaymentsSuffice
    <2>1. RowsOf(p) = {}
        BY <1>4 DEF RowsOf
    <2>2. payments[p].amount \in Nat /\ payments[p].discount \in Nat
        BY <1>3 DEF PaymentRows
    <2> QED BY <2>1, <2>2, SumEmpty
<1> QED BY <1>5, <1>6, <1>7, <1>8 DEF MoneyInv

-----------------------------------------------------------------------------
OthersOK ==
    /\ receipts \in [Receipts -> ReceiptRows]
    /\ links \in [Links -> LinkRows]
    /\ callbacks \in [Requests -> Callbacks]
    /\ accepted \subseteq Ids
    /\ taken \subseteq Ids
    /\ crossed \subseteq Links
    /\ dayClosed \in BOOLEAN

(* A payment's key names a receipt only if the receipt is decided for it, or waits beside it. *)
KeysStand ==
    /\ \A p \in Payments : payments[p].status = "NONE" => payments[p].key = NoId
    /\ \A p \in Payments : payments[p].key \in Receipts =>
         \/ receipts[payments[p].key].status = "CONFIRMED"
         \/ receipts[payments[p].key].status = "PENDING" /\ payments[p].key \in LegacyReceipts
    /\ \A r \in Receipts : receipts[r].status = "CONFIRMED" =>
         /\ receipts[r].payment \in Payments
         /\ payments[receipts[r].payment].key = r
         /\ payments[receipts[r].payment].status = "PAID" \/ r \in LegacyReceipts

(* A payment through a link and the link know of each other, and such a payment stands. *)
PaidThrough(p) ==
    \/ payments[p].id = NoId /\ payments[p].link = NoId
    \/ /\ payments[p].link \in Links /\ payments[p].id \in IdOf[payments[p].link]
       /\ payments[p].status = "PAID" /\ payments[p].method = "ONLINE"
       /\ links[payments[p].link].payment # NoPayment

(* A provider's id makes one payment; what a link says of its payment is so. *)
LinksStand ==
    /\ \A p \in Payments : PaidThrough(p)
    /\ \A p, q \in Payments : payments[p].id # NoId /\ payments[p].id = payments[q].id => p = q
    /\ \A l \in Links :
         /\ links[l].payment # NoPayment => payments[links[l].payment].link = l
         /\ links[l].status = "NONE" => links[l].payment = NoPayment
         /\ links[l].status = "PAID" => links[l].payment # NoPayment

(* A link is for an invoice that exists; a callback is for a link that does. *)
LinkedExist ==
    /\ \A l \in Links : links[l].invoice # NoInvoice => invoices[links[l].invoice].status # "NONE"
    /\ \A q \in Requests :
         \/ callbacks[q] = NoCallback
         \/ /\ callbacks[q].link \in Links /\ callbacks[q].id \in IdOf[callbacks[q].link]
            /\ links[callbacks[q].link].status # "NONE"

(* Callbacks of one link that do not overlap are one callback; once it has paid, it is all there is. *)
PaidOnce(l) ==
    /\ \A q, r \in Requests : callbacks[q].link = l /\ callbacks[r].link = l =>
         callbacks[q].kind = callbacks[r].kind /\ callbacks[q].id = callbacks[r].id
    /\ links[l].payment # NoPayment =>
         /\ links[l].status = "PAID"
         /\ payments[links[l].payment].id = links[l].id
         /\ \A q \in Requests : callbacks[q].link = l =>
              callbacks[q].kind = "SETTLE" /\ callbacks[q].id = links[l].id
         /\ \A p \in Payments : payments[p].link = l => p = links[l].payment
    /\ \A x \in taken \cap IdOf[l] : \E p \in Payments : payments[p].id = x

UncrossedPaidOnce == \A l \in Links \ crossed : PaidOnce(l)

(* The inductive invariant. *)
LedgerInv ==
    MoneyInv /\ OthersOK /\ KeysStand /\ LinksStand /\ LinkedExist /\ UncrossedPaidOnce

-----------------------------------------------------------------------------
LEMMA IdFacts ==
    ASSUME LedgerAssumption
    PROVE  /\ \A l \in Links : l # NoId /\ \A x \in IdOf[l] : x \in Ids /\ x # NoId
           /\ \A l, m \in Links, x \in Ids : x \in IdOf[l] /\ x \in IdOf[m] => l = m
           /\ NoId \notin Receipts /\ NoId \notin Keys /\ Keys \cap Receipts = {}
           /\ LegacyReceipts \subseteq Receipts
<1> QED BY DEF LedgerAssumption, Ids

LEMMA RowFacts ==
    /\ NoPaymentRow \in PaymentRows /\ NoPaymentRow.status = "NONE" /\ NoPaymentRow.key = NoId
    /\ NoPaymentRow.id = NoId /\ NoPaymentRow.link = NoId
    /\ NoCallback.link = NoId /\ NoCallback.kind = "NONE" /\ NoCallback \in Callbacks
    /\ NoInvoiceRow.status = "NONE"
<1> QED BY DEF NoPaymentRow, PaymentRows, NoCallback, Callbacks, NoInvoiceRow

(* A new payment leaves the others and uses a row that was free. *)
LEMMA PayLeaves ==
    ASSUME MoneyInv, NEW p \in Payments, NEW payment, NEW targets, Pay(p, payment, targets)
    PROVE  \A i \in Invoices : invoices[i].status # "NONE" => invoices'[i].status # "NONE"
<1> DEFINE shares == Shares(targets, payment.amount, payment.discount)
           touched == {i \in targets : shares[i] # Nothing}
<1> SUFFICES ASSUME NEW i \in Invoices, invoices[i].status # "NONE"
             PROVE  invoices'[i].status # "NONE"
    OBVIOUS
<1>1. invoices' = [j \in Invoices |->
                     IF j \in touched THEN Credited(invoices[j], shares[j]) ELSE invoices[j]]
    BY DEF Pay
<1> HIDE DEF shares, touched
<1>2. invoices[i] \in InvoiceRows
    BY DEF MoneyInv, TablesOK
<1>3. Credited(invoices[i], shares[i]).status \in {"PAID", "PARTIALLY_PAID"}
    BY <1>2 DEF Credited, InvoiceRows
<1> QED BY <1>1, <1>3

(* Making a payment, at the desk, of a receipt or through a link: what it does to the payments. *)
LEMMA CreatePays ==
    ASSUME LedgerAssumption, MoneyInv, NEW p \in Payments, NEW payment \in PaymentRows,
           NEW invoice \in Invoices \cup {NoInvoice}, CreateInTx(p, payment, invoice)
    PROVE  /\ payments[p].status = "NONE"
           /\ payments' = [payments EXCEPT ![p] = payment]
           /\ payment.key # NoId => ~KeyUsed(payment.key)
           /\ \A i \in Invoices : invoices[i].status # "NONE" => invoices'[i].status # "NONE"
           /\ MoneyInv'
<1> DEFINE targets == IF payment.status # "PAID" THEN {}
                      ELSE IF invoice = NoInvoice THEN OpenInvoices ELSE {invoice}
<1>1. Pay(p, payment, targets)
    BY DEF CreateInTx
<1>2. NoInvoice \notin Invoices
    BY DEF Invoices, NoInvoice, LedgerAssumption
<1>3. targets \in SUBSET {i \in Invoices : invoices[i].status \notin {"NONE", "CANCELLED"}}
    BY <1>2 DEF CreateInTx, OpenInvoices
<1>4. payment.status = "PAID" \/ targets = {}
    OBVIOUS
<1> HIDE DEF targets
<1>5. MoneyInv'
    BY <1>1, <1>3, <1>4, PayKeeps
<1>6. \A i \in Invoices : invoices[i].status # "NONE" => invoices'[i].status # "NONE"
    BY <1>1, PayLeaves
<1> QED BY <1>1, <1>5, <1>6 DEF Pay, CreateInTx

-----------------------------------------------------------------------------
(* A step that touches no link and no payment through one. *)
LEMMA LinksStay ==
    ASSUME LedgerAssumption, LinksStand, UncrossedPaidOnce, links \in [Links -> LinkRows],
           UNCHANGED <<links, callbacks, taken, crossed>>,
           \A p \in Payments : /\ payments'[p].id = payments[p].id
                               /\ payments'[p].link = payments[p].link
                               /\ payments[p].link # NoId => payments'[p] = payments[p]
    PROVE  LinksStand' /\ UncrossedPaidOnce'
<1>1. \A l \in Links : links[l].payment # NoPayment => links[l].payment \in Payments
    BY DEF LinkRows, NoPayment, Payments, LedgerAssumption
<1>2. \A l \in Links : l # NoId
    BY IdFacts
<1>3. ASSUME NEW p \in Payments PROVE PaidThrough(p)'
    <2>1. PaidThrough(p)
        BY DEF LinksStand
    <2> QED BY <1>2, <2>1 DEF PaidThrough
<1>4. LinksStand'
    BY <1>1, <1>3 DEF LinksStand
<1>5. ASSUME NEW l \in Links \ crossed PROVE PaidOnce(l)'
    <2>1. PaidOnce(l)
        BY DEF UncrossedPaidOnce
    <2> QED BY <1>1, <2>1 DEF PaidOnce
<1> QED BY <1>4, <1>5 DEF UncrossedPaidOnce

LEMMA EmptyHasNoLink ==
    ASSUME LinksStand, NEW p \in Payments, payments[p].status = "NONE"
    PROVE  payments[p].id = NoId /\ payments[p].link = NoId
<1> QED BY DEF LinksStand, PaidThrough

(* A payment that names no link keeps the links' agreement with the payments. *)
LEMMA PlainPaymentKeepsLinks ==
    ASSUME LedgerAssumption, LinksStand, UncrossedPaidOnce, links \in [Links -> LinkRows],
           payments \in [Payments -> PaymentRows],
           UNCHANGED <<links, callbacks, taken, crossed>>,
           NEW p \in Payments, payments[p].status = "NONE", NEW payment,
           payment.id = NoId, payment.link = NoId, payments' = [payments EXCEPT ![p] = payment]
    PROVE  LinksStand' /\ UncrossedPaidOnce'
<1>1. payments[p].id = NoId /\ payments[p].link = NoId
    BY EmptyHasNoLink
<1>2. \A q \in Payments : /\ payments'[q].id = payments[q].id
                          /\ payments'[q].link = payments[q].link
                          /\ payments[q].link # NoId => payments'[q] = payments[q]
    BY <1>1
<1> QED BY <1>2, LinksStay

LEMMA SamePaymentsKeepLinks ==
    ASSUME LedgerAssumption, LinksStand, UncrossedPaidOnce, links \in [Links -> LinkRows],
           UNCHANGED <<payments, links, callbacks, taken, crossed>>
    PROVE  LinksStand' /\ UncrossedPaidOnce'
<1> QED BY LinksStay

LEMMA ExistStay ==
    ASSUME LedgerAssumption, LinkedExist, links \in [Links -> LinkRows], UNCHANGED <<links, callbacks>>,
           \A i \in Invoices : invoices[i].status # "NONE" => invoices'[i].status # "NONE"
    PROVE  LinkedExist'
<1>1. \A l \in Links : links[l].invoice # NoInvoice => links[l].invoice \in Invoices
    BY DEF LinkRows, NoInvoice, Invoices, LedgerAssumption
<1> QED BY <1>1 DEF LinkedExist

(* Keys, when the receipts stay as they are. *)
LEMMA KeysStay ==
    ASSUME KeysStand, UNCHANGED receipts,
           \A p \in Payments : /\ payments'[p].key = payments[p].key
                               /\ payments'[p].status = "NONE" => payments[p].status = "NONE"
                               /\ payments[p].status = "PAID" /\ payments'[p].status # "PAID" =>
                                    \A r \in Receipts : receipts[r].payment # p
    PROVE  KeysStand'
<1> QED BY DEF KeysStand

LEMMA PlainPaymentKeepsKeys ==
    ASSUME LedgerAssumption, KeysStand, UNCHANGED receipts, payments \in [Payments -> PaymentRows],
           NEW p \in Payments, payments[p].status = "NONE", NEW payment \in PaymentRows,
           payment.key \notin Receipts, payment.status # "NONE",
           payments' = [payments EXCEPT ![p] = payment]
    PROVE  KeysStand'
<1>1. /\ payments'[p] = payment
      /\ \A q \in Payments : q # p => payments'[q] = payments[q]
    OBVIOUS
<1>2. payments[p].key = NoId /\ NoId \notin Receipts
    BY IdFacts DEF KeysStand
<1>3. \A r \in Receipts : receipts[r].status = "CONFIRMED" => receipts[r].payment # p
    BY <1>2 DEF KeysStand
<1> QED BY <1>1, <1>3 DEF KeysStand

-----------------------------------------------------------------------------
LEMMA MoneyTypes ==
    ASSUME MoneyInv
    PROVE  /\ invoices \in [Invoices -> InvoiceRows] /\ payments \in [Payments -> PaymentRows]
           /\ allocations \subseteq AllocationRows
<1> QED BY DEF MoneyInv, TablesOK

(* createInTx at the desk. *)
LEMMA TakeKeeps ==
    ASSUME LedgerAssumption, LedgerInv, NEW p \in Payments, NEW amount \in Amounts \cup {0},
           NEW discount \in Discounts \cup {0}, NEW method \in Methods, NEW status \in DeskStatuses,
           NEW key \in Keys \cup {NoId}, NEW invoice \in Invoices \cup {NoInvoice},
           TakePayment(p, amount, discount, method, status, key, invoice)
    PROVE  LedgerInv'
<1> DEFINE row == [NoPaymentRow EXCEPT !.status = status, !.amount = amount,
                     !.discount = discount, !.method = method, !.key = key]
<1>1. /\ CreateInTx(p, row, invoice)
      /\ UNCHANGED <<receipts, links, callbacks, accepted, taken, crossed, dayClosed>>
    BY DEF TakePayment
<1>2. /\ status \in {"PAID", "PENDING", "FAILED"} /\ amount \in Nat /\ discount \in Nat
      /\ method \in {"CASH", "BANK_TRANSFER", "ONLINE"} /\ key \in Keys \cup Receipts \cup {NoId}
      /\ key \notin Receipts
    BY DEF LedgerAssumption
<1> HIDE DEF row
<1>3. /\ row \in PaymentRows /\ row.status = status /\ row.key = key
      /\ row.id = NoId /\ row.link = NoId
    BY <1>2 DEF row, NoPaymentRow, PaymentRows
<1>4. MoneyInv /\ OthersOK /\ KeysStand /\ LinksStand /\ LinkedExist /\ UncrossedPaidOnce
    BY DEF LedgerInv
<1>5. /\ payments[p].status = "NONE"
      /\ payments' = [payments EXCEPT ![p] = row]
      /\ \A i \in Invoices : invoices[i].status # "NONE" => invoices'[i].status # "NONE"
      /\ MoneyInv'
    BY <1>1, <1>3, <1>4, CreatePays
<1>6. OthersOK' /\ links \in [Links -> LinkRows]
    BY <1>1, <1>4 DEF OthersOK
<1>7. KeysStand'
    BY <1>1, <1>2, <1>3, <1>4, <1>5, MoneyTypes, PlainPaymentKeepsKeys
<1>8. LinksStand' /\ UncrossedPaidOnce'
    BY <1>1, <1>3, <1>4, <1>5, <1>6, MoneyTypes, PlainPaymentKeepsLinks
<1>9. LinkedExist'
    BY <1>1, <1>4, <1>5, <1>6, ExistStay
<1> QED BY <1>5, <1>6, <1>7, <1>8, <1>9 DEF LedgerInv

(* voidPayment: rows are taken off, and no receipt or link loses its payment. *)
LEMMA VoidKeepsAll ==
    ASSUME LedgerAssumption, LedgerInv, NEW p \in Payments, VoidPayment(p)
    PROVE  LedgerInv'
<1>1. /\ payments' = [payments EXCEPT ![p].status = "VOIDED"]
      /\ UNCHANGED <<receipts, links, callbacks, accepted, taken, crossed, dayClosed>>
    BY DEF VoidPayment
<1>2. /\ payments[p].status = "PAID" /\ payments[p].method # "ONLINE"
      /\ \A r \in Receipts : receipts[r].payment # p
    BY DEF VoidPayment, Voidable
<1>3. MoneyInv /\ OthersOK /\ KeysStand /\ LinksStand /\ LinkedExist /\ UncrossedPaidOnce
    BY DEF LedgerInv
<1>4. MoneyInv'
    BY <1>3, VoidKeeps
<1>5. OthersOK' /\ links \in [Links -> LinkRows]
    BY <1>1, <1>3 DEF OthersOK
<1>6. /\ payments'[p].status = "VOIDED" /\ payments'[p].key = payments[p].key
      /\ payments'[p].id = payments[p].id /\ payments'[p].link = payments[p].link
      /\ \A q \in Payments : q # p => payments'[q] = payments[q]
    <2>1. payments \in [Payments -> PaymentRows]
        BY <1>3, MoneyTypes
    <2> QED BY <1>1, <2>1 DEF PaymentRows
<1>7. KeysStand'
    <2>1. \A q \in Payments : /\ payments'[q].key = payments[q].key
                              /\ payments'[q].status = "NONE" => payments[q].status = "NONE"
                              /\ payments[q].status = "PAID" /\ payments'[q].status # "PAID" =>
                                   \A r \in Receipts : receipts[r].payment # q
        BY <1>2, <1>6
    <2> QED BY <1>1, <1>3, <2>1, KeysStay
<1>8. LinksStand' /\ UncrossedPaidOnce'
    <2>1. payments[p].link = NoId
        BY <1>2, <1>3 DEF LinksStand, PaidThrough
    <2>2. \A q \in Payments : /\ payments'[q].id = payments[q].id
                              /\ payments'[q].link = payments[q].link
                              /\ payments[q].link # NoId => payments'[q] = payments[q]
        BY <1>6, <2>1
    <2> QED BY <1>1, <1>3, <1>5, <2>2, LinksStay
<1>9. LinkedExist'
    <2> DEFINE rows(i) == {a \in RowsOf(p) : a.invoice = i}
    <2>1. ASSUME NEW i \in Invoices, invoices[i].status # "NONE"
          PROVE  invoices'[i].status # "NONE"
        <3>1. invoices'[i] = IF rows(i) = {} THEN invoices[i] ELSE Uncredited(invoices[i], rows(i))
            BY DEF VoidPayment
        <3> HIDE DEF rows
        <3>2. invoices[i] \in InvoiceRows
            BY <1>3, MoneyTypes
        <3>3. Uncredited(invoices[i], rows(i)).status \in {"CANCELLED", "PAID", "PARTIALLY_PAID", "OPEN"}
            BY <3>2 DEF Uncredited, InvoiceRows
        <3> QED BY <2>1, <3>1, <3>3
    <2> QED BY <1>1, <1>3, <1>5, <2>1, ExistStay
<1> QED BY <1>4, <1>5, <1>7, <1>8, <1>9 DEF LedgerInv

(* The steps of the invoices change nothing but invoices and their rows. *)
LEMMA InvoiceStepKeeps ==
    ASSUME LedgerAssumption, LedgerInv, MoneyInv',
           \A i \in Invoices : invoices[i].status # "NONE" => invoices'[i].status # "NONE",
           UNCHANGED <<payments, receipts, links, callbacks, accepted, taken, crossed>>,
           dayClosed' \in BOOLEAN
    PROVE  LedgerInv'
<1>1. MoneyInv /\ OthersOK /\ KeysStand /\ LinksStand /\ LinkedExist /\ UncrossedPaidOnce
    BY DEF LedgerInv
<1>2. OthersOK' /\ links \in [Links -> LinkRows]
    BY <1>1 DEF OthersOK
<1>3. KeysStand'
    BY <1>1 DEF KeysStand
<1>4. LinksStand' /\ UncrossedPaidOnce'
    BY <1>1, <1>2, SamePaymentsKeepLinks
<1>5. LinkedExist'
    BY <1>1, <1>2, ExistStay
<1> QED BY <1>2, <1>3, <1>4, <1>5 DEF LedgerInv

(* createInvoice, generateMonthly. *)
LEMMA IssueKeepsAll ==
    ASSUME LedgerAssumption, LedgerInv, NEW i \in Invoices, NEW enrollment \in Enrollments \cup {NoId},
           NEW amount \in Nat \ {0}, Issue(i, enrollment, amount)
    PROVE  LedgerInv'
<1>1. MoneyInv /\ invoices \in [Invoices -> InvoiceRows]
    BY MoneyTypes DEF LedgerInv
<1>2. MoneyInv'
    BY <1>1, IssueKeeps
<1>3. /\ invoices[i].status = "NONE"
      /\ UNCHANGED <<payments, receipts, links, callbacks, accepted, taken, crossed, dayClosed>>
      /\ \A j \in Invoices : j # i => invoices'[j] = invoices[j]
    BY <1>1 DEF Issue
<1>4. dayClosed' \in BOOLEAN
    BY <1>3 DEF LedgerInv, OthersOK
<1> QED BY <1>2, <1>3, <1>4, InvoiceStepKeeps

(* cancel, by its UPDATE's own condition. *)
LEMMA CancelKeepsAll ==
    ASSUME LedgerAssumption, LedgerInv, NEW i \in Invoices, CancelInvoice(i)
    PROVE  LedgerInv'
<1>1. MoneyInv /\ invoices \in [Invoices -> InvoiceRows]
    BY MoneyTypes DEF LedgerInv
<1>2. MoneyInv'
    BY <1>1, CancelKeeps
<1>3. /\ invoices' = [invoices EXCEPT ![i].status = "CANCELLED"]
      /\ UNCHANGED <<payments, receipts, links, callbacks, accepted, taken, crossed, dayClosed>>
    BY DEF CancelInvoice
<1>4. \A j \in Invoices : invoices[j].status # "NONE" => invoices'[j].status # "NONE"
    BY <1>1, <1>3 DEF InvoiceRows
<1>5. dayClosed' \in BOOLEAN
    BY <1>3 DEF LedgerInv, OthersOK
<1> QED BY <1>2, <1>3, <1>4, <1>5, InvoiceStepKeeps

(* markOverdueInvoices. *)
LEMMA OverdueKeepsAll ==
    ASSUME LedgerAssumption, LedgerInv, NEW k \in Invoices, MarkOverdue(k)
    PROVE  LedgerInv'
<1>1. MoneyInv /\ invoices \in [Invoices -> InvoiceRows]
    BY MoneyTypes DEF LedgerInv
<1>2. MoneyInv'
    BY <1>1, OverdueKeeps
<1>3. UNCHANGED <<payments, receipts, links, callbacks, accepted, taken, crossed, dayClosed>>
    BY DEF MarkOverdue
<1>4. ASSUME NEW j \in Invoices, invoices[j].status # "NONE" PROVE invoices'[j].status # "NONE"
    <2>1. invoices'[j] = IF j <= k /\ invoices[j].status \in {"OPEN", "PARTIALLY_PAID"}
                         THEN [invoices[j] EXCEPT !.status = "OVERDUE"] ELSE invoices[j]
        BY DEF MarkOverdue
    <2>2. invoices[j] \in InvoiceRows
        BY <1>1
    <2>3. [invoices[j] EXCEPT !.status = "OVERDUE"].status = "OVERDUE"
        BY <2>2 DEF InvoiceRows
    <2> QED BY <1>4, <2>1, <2>3
<1>5. dayClosed' \in BOOLEAN
    BY <1>3 DEF LedgerInv, OthersOK
<1> QED BY <1>2, <1>3, <1>4, <1>5, InvoiceStepKeeps

LEMMA CloseKeepsAll == ASSUME LedgerAssumption, LedgerInv, CloseDay PROVE LedgerInv'
<1>1. /\ UNCHANGED <<invoices, payments, allocations, receipts, links, callbacks, accepted, taken,
                     crossed>>
      /\ dayClosed' \in BOOLEAN
    BY DEF CloseDay
<1>2. MoneyInv'
    BY <1>1, MoneyStays DEF LedgerInv
<1> QED BY <1>1, <1>2, InvoiceStepKeeps

LEMMA StutterKeepsAll == ASSUME LedgerAssumption, LedgerInv, UNCHANGED ledgerVars PROVE LedgerInv'
<1>1. UNCHANGED <<invoices, payments, allocations, receipts, links, callbacks, accepted, taken,
                  crossed, dayClosed>>
    BY DEF ledgerVars
<1>2. MoneyInv' /\ dayClosed' \in BOOLEAN
    BY <1>1, MoneyStays DEF LedgerInv, OthersOK
<1> QED BY <1>1, <1>2, InvoiceStepKeeps

-----------------------------------------------------------------------------
LEMMA SubmitKeeps ==
    ASSUME LedgerAssumption, LedgerInv, NEW r \in Receipts, NEW amount \in Amounts,
           NEW invoice \in Invoices \cup {NoInvoice}, SubmitReceipt(r, amount, invoice)
    PROVE  LedgerInv'
<1> DEFINE row == [NoReceiptRow EXCEPT !.status = "PENDING", !.amount = amount, !.invoice = invoice]
<1>1. /\ receipts[r].status = "NONE"
      /\ receipts' = [receipts EXCEPT ![r] = row]
      /\ UNCHANGED <<invoices, payments, allocations, links, callbacks, accepted, taken, crossed,
                     dayClosed>>
    BY DEF SubmitReceipt
<1>2. row \in ReceiptRows /\ row.status = "PENDING"
    <2>1. amount \in Nat /\ invoice \in 0 .. NumInvoices /\ 0 \in 0 .. NumPayments
        BY DEF LedgerAssumption, Invoices, NoInvoice
    <2> QED BY <2>1 DEF NoReceiptRow, ReceiptRows, NoPayment
<1> HIDE DEF row
<1>3. MoneyInv /\ OthersOK /\ KeysStand /\ LinksStand /\ LinkedExist /\ UncrossedPaidOnce
    BY DEF LedgerInv
<1>4. MoneyInv' /\ OthersOK' /\ links \in [Links -> LinkRows]
    BY <1>1, <1>2, <1>3, MoneyStays DEF OthersOK
<1>5. \A s \in Receipts : s # r => receipts'[s] = receipts[s]
    BY <1>1, <1>3 DEF OthersOK
<1>6. receipts'[r].status = "PENDING"
    BY <1>1, <1>2, <1>3 DEF OthersOK
<1>7. \A p \in Payments : payments[p].key # r
    BY <1>1, <1>3 DEF KeysStand
<1>8. KeysStand'
    BY <1>1, <1>3, <1>5, <1>6, <1>7 DEF KeysStand
<1>9. LinksStand' /\ UncrossedPaidOnce'
    BY <1>1, <1>3, <1>4, SamePaymentsKeepLinks
<1>10. LinkedExist'
    BY <1>1, <1>3, <1>4, ExistStay
<1> QED BY <1>4, <1>8, <1>9, <1>10 DEF LedgerInv

(* reject: no payment of that key is there. *)
LEMMA RejectKeeps ==
    ASSUME LedgerAssumption, LedgerInv, NEW r \in Receipts, RejectReceipt(r)
    PROVE  LedgerInv'
<1>1. /\ receipts[r].status = "PENDING" /\ ~KeyUsed(r)
      /\ receipts' = [receipts EXCEPT ![r].status = "REJECTED"]
      /\ UNCHANGED <<invoices, payments, allocations, links, callbacks, accepted, taken, crossed,
                     dayClosed>>
    BY DEF RejectReceipt, Rejectable
<1>2. MoneyInv /\ OthersOK /\ KeysStand /\ LinksStand /\ LinkedExist /\ UncrossedPaidOnce
    BY DEF LedgerInv
<1>3. receipts' \in [Receipts -> ReceiptRows]
    BY <1>1, <1>2 DEF OthersOK, ReceiptRows
<1>4. MoneyInv' /\ OthersOK' /\ links \in [Links -> LinkRows]
    BY <1>1, <1>2, <1>3, MoneyStays DEF OthersOK
<1>5. /\ \A s \in Receipts : s # r => receipts'[s] = receipts[s]
      /\ receipts'[r].status = "REJECTED"
    BY <1>1, <1>2 DEF OthersOK, ReceiptRows
<1>6. \A p \in Payments : payments[p].key # r
    BY <1>1, <1>2, IdFacts DEF KeysStand, KeyUsed
<1>7. KeysStand'
    BY <1>1, <1>2, <1>5, <1>6 DEF KeysStand
<1>8. LinksStand' /\ UncrossedPaidOnce'
    BY <1>1, <1>2, <1>4, SamePaymentsKeepLinks
<1>9. LinkedExist'
    BY <1>1, <1>2, <1>4, ExistStay
<1> QED BY <1>4, <1>7, <1>8, <1>9 DEF LedgerInv

(* Confirming, with the payment that is there or with a new one. *)
LEMMA ConfirmedReceipts ==
    ASSUME OthersOK, NEW r \in Receipts, NEW amount \in Nat, NEW p \in Payments,
           LedgerAssumption, Confirmed(r, amount, p)
    PROVE  /\ receipts' \in [Receipts -> ReceiptRows]
           /\ \A s \in Receipts : s # r => receipts'[s] = receipts[s]
           /\ receipts'[r].status = "CONFIRMED" /\ receipts'[r].payment = p
<1>1. receipts' = [receipts EXCEPT ![r].status = "CONFIRMED", ![r].amount = amount,
                                   ![r].payment = p]
    BY DEF Confirmed
<1>2. receipts \in [Receipts -> ReceiptRows] /\ p \in 0 .. NumPayments
    BY DEF OthersOK, Payments, LedgerAssumption
<1> DEFINE row == [receipts[r] EXCEPT !.status = "CONFIRMED", !.amount = amount, !.payment = p]
<1>3. row \in ReceiptRows /\ row.status = "CONFIRMED" /\ row.payment = p
    <2>1. receipts[r] \in ReceiptRows
        BY <1>2
    <2> QED BY <1>2, <2>1 DEF ReceiptRows
<1>4. receipts' = [receipts EXCEPT ![r] = row]
    BY <1>1, <1>2
<1> HIDE DEF row
<1> QED BY <1>2, <1>3, <1>4

(* confirm. *)
LEMMA ConfirmKeeps ==
    ASSUME LedgerAssumption, LedgerInv, NEW r \in Receipts, NEW seen \in Amounts, NEW p \in Payments,
           ConfirmReceipt(r, seen, p)
    PROVE  LedgerInv'
<1>1. MoneyInv /\ OthersOK /\ KeysStand /\ LinksStand /\ LinkedExist /\ UncrossedPaidOnce
    BY DEF LedgerInv
<1>2. /\ receipts[r].status = "PENDING"
      /\ UNCHANGED <<links, callbacks, accepted, taken, crossed, dayClosed>>
    BY DEF ConfirmReceipt
<1>3. links \in [Links -> LinkRows] /\ payments \in [Payments -> PaymentRows]
    BY <1>1, MoneyTypes DEF OthersOK
<1>4. CASE /\ payments[p].status # "NONE" /\ payments[p].key = r
           /\ Confirmed(r, payments[p].amount, p)
           /\ UNCHANGED <<invoices, payments, allocations>>
    <2>1. payments[p].amount \in Nat
        BY <1>3 DEF PaymentRows
    <2>2. /\ receipts' \in [Receipts -> ReceiptRows]
          /\ \A s \in Receipts : s # r => receipts'[s] = receipts[s]
          /\ receipts'[r].status = "CONFIRMED" /\ receipts'[r].payment = p
        BY <1>1, <1>4, <2>1, ConfirmedReceipts
    <2>3. MoneyInv' /\ OthersOK'
        BY <1>1, <1>2, <1>4, <2>2, MoneyStays DEF OthersOK
    <2>4. r \in LegacyReceipts
        BY <1>1, <1>2, <1>4 DEF KeysStand
    <2>5. KeysStand'
        BY <1>1, <1>4, <2>2, <2>4 DEF KeysStand
    <2>6. LinksStand' /\ UncrossedPaidOnce'
        BY <1>1, <1>2, <1>3, <1>4, SamePaymentsKeepLinks
    <2>7. LinkedExist'
        BY <1>1, <1>2, <1>3, <1>4, ExistStay
    <2> QED BY <2>3, <2>5, <2>6, <2>7 DEF LedgerInv
<1> DEFINE row == [NoPaymentRow EXCEPT !.status = "PAID", !.amount = seen,
                     !.method = "BANK_TRANSFER", !.key = ReceiptKey(r)]
<1>5. CASE /\ ~KeyUsed(r)
           /\ CreateInTx(p, row, receipts[r].invoice)
           /\ Confirmed(r, seen, p)
    <2>0. seen \in Nat
        BY DEF LedgerAssumption
    <2>1. /\ row \in PaymentRows /\ row.status = "PAID" /\ row.key = r
          /\ row.id = NoId /\ row.link = NoId
        BY <2>0 DEF NoPaymentRow, PaymentRows, ReceiptKey
    <2> HIDE DEF row
    <2>2. receipts[r].invoice \in Invoices \cup {NoInvoice}
        BY <1>1 DEF OthersOK, ReceiptRows, Invoices, NoInvoice, LedgerAssumption
    <2>3. /\ payments[p].status = "NONE"
          /\ payments' = [payments EXCEPT ![p] = row]
          /\ \A i \in Invoices : invoices[i].status # "NONE" => invoices'[i].status # "NONE"
          /\ MoneyInv'
        BY <1>1, <1>5, <2>1, <2>2, CreatePays
    <2>4. /\ receipts' \in [Receipts -> ReceiptRows]
          /\ \A s \in Receipts : s # r => receipts'[s] = receipts[s]
          /\ receipts'[r].status = "CONFIRMED" /\ receipts'[r].payment = p
        BY <1>1, <1>5, <2>0, ConfirmedReceipts
    <2>5. OthersOK'
        BY <1>1, <1>2, <2>4 DEF OthersOK
    <2>6. /\ payments'[p] = row
          /\ \A q \in Payments : q # p => payments'[q] = payments[q]
        BY <1>3, <2>3
    <2>7. \A s \in Receipts : receipts[s].status = "CONFIRMED" => receipts[s].payment # p
        BY <1>1, <2>3, IdFacts DEF KeysStand
    <2>8. KeysStand'
        BY <1>1, <1>2, <2>1, <2>4, <2>6, <2>7 DEF KeysStand
    <2>9. LinksStand' /\ UncrossedPaidOnce'
        BY <1>1, <1>2, <1>3, <2>1, <2>3, PlainPaymentKeepsLinks
    <2>10. LinkedExist'
        BY <1>1, <1>2, <1>3, <2>3, ExistStay
    <2> QED BY <2>3, <2>5, <2>8, <2>9, <2>10 DEF LedgerInv
<1> QED BY <1>4, <1>5 DEF ConfirmReceipt

-----------------------------------------------------------------------------
(* createPendingTx. *)
LEMMA MakeLinkKeeps ==
    ASSUME LedgerAssumption, LedgerInv, NEW l \in Links, NEW amount \in Amounts,
           NEW invoice \in Invoices \cup {NoInvoice}, MakeLink(l, amount, invoice)
    PROVE  LedgerInv'
<1> DEFINE row == [NoLinkRow EXCEPT !.status = "CREATED", !.amount = amount, !.invoice = invoice]
<1>1. /\ links[l].status = "NONE"
      /\ invoice # NoInvoice => invoices[invoice].status # "NONE"
      /\ links' = [links EXCEPT ![l] = row]
      /\ UNCHANGED <<invoices, payments, allocations, receipts, callbacks, accepted, taken, crossed,
                     dayClosed>>
    BY DEF MakeLink
<1>2. /\ row \in LinkRows /\ row.status = "CREATED" /\ row.invoice = invoice
      /\ row.payment = NoPayment
    <2>0. Amounts \subseteq Nat /\ NumPayments \in Nat /\ NumInvoices \in Nat
        BY DEF LedgerAssumption
    <2>1. amount \in Nat /\ 0 \in 0 .. NumPayments
        BY <2>0
    <2>2. invoice \in 0 .. NumInvoices
        BY <2>0 DEF Invoices, NoInvoice
    <2>3. NoLinkRow \in LinkRows /\ NoLinkRow.payment = NoPayment
        BY <2>1, LedgerAssumption DEF NoLinkRow, LinkRows, NoPayment, NoInvoice, LedgerAssumption
    <2> QED BY <2>1, <2>2, <2>3 DEF LinkRows, NoPayment
<1> HIDE DEF row
<1>3. MoneyInv /\ OthersOK /\ KeysStand /\ LinksStand /\ LinkedExist /\ UncrossedPaidOnce
    BY DEF LedgerInv
<1>4. MoneyInv' /\ OthersOK' /\ links \in [Links -> LinkRows]
    BY <1>1, <1>2, <1>3, MoneyStays DEF OthersOK
<1>5. KeysStand'
    BY <1>1, <1>3 DEF KeysStand
<1>6. links'[l] = row /\ \A m \in Links : m # l => links'[m] = links[m]
    BY <1>1, <1>4
<1>7. links[l].payment = NoPayment
    BY <1>1, <1>3 DEF LinksStand
<1>8. \A p \in Payments : payments[p].link # l
    BY <1>3, <1>7, IdFacts DEF LinksStand, PaidThrough
<1>9. LinksStand'
    <2>1. \A p \in Payments : PaidThrough(p)'
        BY <1>1, <1>3, <1>6, <1>8 DEF LinksStand, PaidThrough
    <2>2. \A m \in Links :
            /\ links'[m].payment # NoPayment => payments'[links'[m].payment].link = m
            /\ links'[m].status = "NONE" => links'[m].payment = NoPayment
            /\ links'[m].status = "PAID" => links'[m].payment # NoPayment
        BY <1>1, <1>2, <1>3, <1>6 DEF LinksStand
    <2> QED BY <1>1, <1>3, <2>1, <2>2 DEF LinksStand
<1>10. LinkedExist'
    BY <1>1, <1>2, <1>3, <1>6 DEF LinkedExist
<1>11. UncrossedPaidOnce'
    BY <1>1, <1>2, <1>3, <1>6 DEF UncrossedPaidOnce, PaidOnce
<1> QED BY <1>4, <1>5, <1>9, <1>10, <1>11 DEF LedgerInv

(* A callback that comes. *)
LEMMA ReceiveKeeps ==
    ASSUME LedgerAssumption, LedgerInv, NEW q \in Requests, NEW kind \in {"PREPARE", "SETTLE", "CANCEL"},
           NEW l \in Links, NEW x \in Ids, Receive(q, kind, l, x)
    PROVE  LedgerInv'
<1> DEFINE row == [kind |-> kind, link |-> l, id |-> x]
<1>1. /\ callbacks[q] = NoCallback
      /\ links[l].status # "NONE" /\ x \in IdOf[l] /\ Proceeds(kind, l, x)
      /\ callbacks' = [callbacks EXCEPT ![q] = row]
      /\ crossed' = IF Overlaps(kind, l, x) THEN crossed \cup {l} ELSE crossed
      /\ UNCHANGED <<invoices, payments, allocations, receipts, links, accepted, taken, dayClosed>>
    BY DEF Receive
<1>2. row \in Callbacks /\ row.kind = kind /\ row.link = l /\ row.id = x
    BY DEF Callbacks
<1> HIDE DEF row
<1>3. MoneyInv /\ OthersOK /\ KeysStand /\ LinksStand /\ LinkedExist /\ UncrossedPaidOnce
    BY DEF LedgerInv
<1>4. MoneyInv'
    BY <1>1, <1>3, MoneyStays
<1>5. OthersOK'
    BY <1>1, <1>2, <1>3 DEF OthersOK
<1>6. KeysStand'
    BY <1>1, <1>3 DEF KeysStand
<1>7. LinksStand'
    BY <1>1, <1>3 DEF LinksStand, PaidThrough
<1>8. callbacks'[q] = row /\ \A r \in Requests : r # q => callbacks'[r] = callbacks[r]
    BY <1>1, <1>3 DEF OthersOK
<1>9. LinkedExist'
    BY <1>1, <1>2, <1>3, <1>8 DEF LinkedExist
<1>10. UncrossedPaidOnce'
    <2> SUFFICES ASSUME NEW m \in Links \ crossed' PROVE PaidOnce(m)'
        BY DEF UncrossedPaidOnce
    <2>1. m \in Links \ crossed /\ PaidOnce(m)
        BY <1>1, <1>3 DEF UncrossedPaidOnce
    <2>2. CASE m # l
        BY <1>1, <1>2, <1>8, <2>1, <2>2 DEF PaidOnce
    <2>3. CASE m = l
        <3>1. ~Overlaps(kind, l, x)
            BY <1>1, <2>3
        <3>2. \A r \in Requests : callbacks[r].link = l => callbacks[r].kind = kind /\ callbacks[r].id = x
            BY <3>1 DEF Overlaps
        <3>3. links[l].payment = NoPayment
            <4>1. links[l].payment # NoPayment => links[l].status = "PAID"
                BY <2>1, <2>3 DEF PaidOnce
            <4>2. kind # "CANCEL" => links[l].status # "PAID"
                BY <1>1 DEF Proceeds
            <4>3. kind = "CANCEL" => links[l].payment = NoPayment
                BY <3>1 DEF Overlaps
            <4> QED BY <4>1, <4>2, <4>3
        <3>4. \A r \in Requests : callbacks'[r].link = l =>
                callbacks'[r].kind = kind /\ callbacks'[r].id = x
            BY <1>2, <1>8, <3>2
        <3> QED BY <1>1, <2>1, <2>3, <3>3, <3>4 DEF PaidOnce
    <2> QED BY <2>2, <2>3
<1> QED BY <1>4, <1>5, <1>6, <1>7, <1>9, <1>10 DEF LedgerInv

-----------------------------------------------------------------------------
(* A callback that is done leaves the others as they were. *)
LEMMA DoneLeaves ==
    ASSUME OthersOK, NEW q \in Requests, Done(q)
    PROVE  /\ callbacks' \in [Requests -> Callbacks]
           /\ callbacks'[q] = NoCallback
           /\ \A r \in Requests : r # q => callbacks'[r] = callbacks[r]
<1> QED BY RowFacts DEF OthersOK, Done

(* Prepare, CreateTransaction: a late one may overwrite the status, never the payment. *)
LEMMA PrepareKeeps ==
    ASSUME LedgerAssumption, LedgerInv, NEW q \in Requests, Prepare(q)
    PROVE  LedgerInv'
<1> DEFINE l == callbacks[q].link
           x == callbacks[q].id
<1>1. /\ callbacks[q].kind = "PREPARE"
      /\ links' = [links EXCEPT ![l].status = "PENDING", ![l].id = x]
      /\ accepted' = accepted \cup {x}
      /\ Done(q)
      /\ UNCHANGED <<invoices, payments, allocations, receipts, taken, crossed, dayClosed>>
    BY DEF Prepare
<1>2. MoneyInv /\ OthersOK /\ KeysStand /\ LinksStand /\ LinkedExist /\ UncrossedPaidOnce
    BY DEF LedgerInv
<1>3. l \in Links /\ x \in IdOf[l] /\ x \in Ids /\ x # NoId /\ links[l].status # "NONE" /\ l # NoId
    <2>1. callbacks[q] # NoCallback
        BY <1>1, RowFacts
    <2>2. l \in Links /\ x \in IdOf[l] /\ links[l].status # "NONE"
        BY <1>2, <2>1 DEF LinkedExist
    <2> QED BY <2>2, IdFacts
<1>4. /\ callbacks' \in [Requests -> Callbacks]
      /\ callbacks'[q] = NoCallback
      /\ \A r \in Requests : r # q => callbacks'[r] = callbacks[r]
    BY <1>1, <1>2, DoneLeaves
<1>5. callbacks[q].link = l /\ callbacks[q].id = x
    OBVIOUS
<1> HIDE DEF l, x
<1>6. /\ links' \in [Links -> LinkRows]
      /\ links'[l].status = "PENDING" /\ links'[l].id = x
      /\ links'[l].payment = links[l].payment /\ links'[l].invoice = links[l].invoice
      /\ \A m \in Links : m # l => links'[m] = links[m]
    <2> DEFINE row == [links[l] EXCEPT !.status = "PENDING", !.id = x]
    <2>1. links[l] \in LinkRows /\ links \in [Links -> LinkRows]
        BY <1>2, <1>3 DEF OthersOK
    <2>2. /\ row \in LinkRows /\ row.status = "PENDING" /\ row.id = x
          /\ row.payment = links[l].payment /\ row.invoice = links[l].invoice
        BY <1>3, <2>1 DEF LinkRows
    <2>3. links' = [links EXCEPT ![l] = row]
        BY <1>1, <1>3, <2>1
    <2> HIDE DEF row
    <2> QED BY <1>3, <2>1, <2>2, <2>3
<1>7. MoneyInv'
    BY <1>1, <1>2, MoneyStays
<1>8. OthersOK'
    BY <1>1, <1>2, <1>3, <1>4, <1>6 DEF OthersOK
<1>9. KeysStand'
    BY <1>1, <1>2 DEF KeysStand
<1>10. LinksStand'
    <2>1. \A p \in Payments : PaidThrough(p)'
        BY <1>1, <1>2, <1>6 DEF LinksStand, PaidThrough
    <2>2. \A m \in Links :
            /\ links'[m].payment # NoPayment => payments'[links'[m].payment].link = m
            /\ links'[m].status = "NONE" => links'[m].payment = NoPayment
            /\ links'[m].status = "PAID" => links'[m].payment # NoPayment
        BY <1>1, <1>2, <1>6 DEF LinksStand
    <2> QED BY <1>1, <1>2, <2>1, <2>2 DEF LinksStand
<1>11. LinkedExist'
    BY <1>1, <1>2, <1>4, <1>6 DEF LinkedExist
<1>12. UncrossedPaidOnce'
    <2> SUFFICES ASSUME NEW m \in Links \ crossed PROVE PaidOnce(m)'
        BY <1>1 DEF UncrossedPaidOnce
    <2>1. PaidOnce(m)
        BY <1>2 DEF UncrossedPaidOnce
    <2>2. \A r \in Requests : callbacks'[r].link = m => callbacks'[r] = callbacks[r]
        BY <1>4, RowFacts, IdFacts
    <2>3. CASE m # l
        BY <1>1, <1>6, <2>1, <2>2, <2>3 DEF PaidOnce
    <2>4. CASE m = l
        <3>1. links[l].payment = NoPayment
            BY <1>1, <1>5, <2>1, <2>4 DEF PaidOnce
        <3> QED BY <1>1, <1>6, <2>1, <2>2, <2>4, <3>1 DEF PaidOnce
    <2> QED BY <2>3, <2>4
<1> QED BY <1>7, <1>8, <1>9, <1>10, <1>11, <1>12 DEF LedgerInv

(* CancelTransaction. *)
LEMMA CallbackCancelKeeps ==
    ASSUME LedgerAssumption, LedgerInv, NEW q \in Requests, Cancel(q)
    PROVE  LedgerInv'
<1> DEFINE l == callbacks[q].link
<1>1. /\ callbacks[q].kind = "CANCEL"
      /\ links' = [links EXCEPT ![l].status = "CANCELLED"]
      /\ Done(q)
      /\ UNCHANGED <<invoices, payments, allocations, receipts, accepted, taken, crossed, dayClosed>>
    BY DEF Cancel
<1>2. MoneyInv /\ OthersOK /\ KeysStand /\ LinksStand /\ LinkedExist /\ UncrossedPaidOnce
    BY DEF LedgerInv
<1>3. l \in Links
    BY <1>1, <1>2, RowFacts DEF LinkedExist
<1>4. /\ callbacks' \in [Requests -> Callbacks]
      /\ callbacks'[q] = NoCallback
      /\ \A r \in Requests : r # q => callbacks'[r] = callbacks[r]
    BY <1>1, <1>2, DoneLeaves
<1>5. callbacks[q].link = l
    OBVIOUS
<1> HIDE DEF l
<1>6. /\ links' \in [Links -> LinkRows]
      /\ links'[l].status = "CANCELLED"
      /\ links'[l].payment = links[l].payment /\ links'[l].invoice = links[l].invoice
      /\ \A m \in Links : m # l => links'[m] = links[m]
    BY <1>1, <1>2, <1>3 DEF OthersOK, LinkRows
<1>7. MoneyInv'
    BY <1>1, <1>2, MoneyStays
<1>8. OthersOK'
    BY <1>1, <1>2, <1>4, <1>6 DEF OthersOK
<1>9. KeysStand'
    BY <1>1, <1>2 DEF KeysStand
<1>10. LinksStand'
    <2>1. \A p \in Payments : PaidThrough(p)'
        BY <1>1, <1>2, <1>6 DEF LinksStand, PaidThrough
    <2>2. \A m \in Links :
            /\ links'[m].payment # NoPayment => payments'[links'[m].payment].link = m
            /\ links'[m].status = "NONE" => links'[m].payment = NoPayment
            /\ links'[m].status = "PAID" => links'[m].payment # NoPayment
        BY <1>1, <1>2, <1>6 DEF LinksStand
    <2> QED BY <1>1, <1>2, <2>1, <2>2 DEF LinksStand
<1>11. LinkedExist'
    BY <1>1, <1>2, <1>4, <1>6 DEF LinkedExist
<1>12. UncrossedPaidOnce'
    <2> SUFFICES ASSUME NEW m \in Links \ crossed PROVE PaidOnce(m)'
        BY <1>1 DEF UncrossedPaidOnce
    <2>1. PaidOnce(m)
        BY <1>2 DEF UncrossedPaidOnce
    <2>2. \A r \in Requests : callbacks'[r].link = m => callbacks'[r] = callbacks[r]
        BY <1>4, RowFacts, IdFacts
    <2>3. CASE m # l
        BY <1>1, <1>6, <2>1, <2>2, <2>3 DEF PaidOnce
    <2>4. CASE m = l
        <3>1. links[l].payment = NoPayment
            BY <1>1, <1>5, <2>1, <2>4 DEF PaidOnce
        <3> QED BY <1>1, <1>6, <2>1, <2>2, <2>4, <3>1 DEF PaidOnce
    <2> QED BY <2>3, <2>4
<1> QED BY <1>7, <1>8, <1>9, <1>10, <1>11, <1>12 DEF LedgerInv

-----------------------------------------------------------------------------
(* The invoices a link's money may go to are there. *)
LEMMA LinkTargetsLive ==
    ASSUME LedgerAssumption, LinkedExist, links \in [Links -> LinkRows], NEW l \in Links
    PROVE  LinkTargets(links[l])
             \in SUBSET {i \in Invoices : invoices[i].status \notin {"NONE", "CANCELLED"}}
<1>1. links[l].invoice # NoInvoice => /\ links[l].invoice \in Invoices
                                      /\ invoices[links[l].invoice].status # "NONE"
    <2>1. links[l] \in LinkRows
        OBVIOUS
    <2>2. links[l].invoice \in 0 .. NumInvoices
        BY <2>1 DEF LinkRows
    <2> QED BY <2>2 DEF LinkedExist, Invoices, NoInvoice, LedgerAssumption
<1> QED BY <1>1 DEF LinkTargets, OpenInvoices

(* The provider has taken the money: the link is paid already, or its id is known, or a payment *)
(* is made.                                                                                     *)
LEMMA SettleKeeps ==
    ASSUME LedgerAssumption, LedgerInv, NEW q \in Requests, NEW p \in Payments, Settle(q, p)
    PROVE  LedgerInv'
<1> DEFINE l == callbacks[q].link
           x == callbacks[q].id
           row == [NoPaymentRow EXCEPT !.status = "PAID", !.amount = links[l].amount,
                     !.method = "ONLINE", !.id = x, !.link = l]
<1>1. /\ callbacks[q].kind = "SETTLE"
      /\ taken' = taken \cup {x}
      /\ Done(q)
      /\ UNCHANGED <<receipts, accepted, crossed, dayClosed>>
    BY DEF Settle
<1>2. \/ /\ links[l].status = "PAID"
         /\ UNCHANGED <<invoices, payments, allocations, links>>
      \/ /\ links[l].status # "PAID" /\ Recorded(x)
         /\ links' = [links EXCEPT ![l].status = "PAID"]
         /\ UNCHANGED <<invoices, payments, allocations>>
      \/ /\ links[l].status # "PAID" /\ ~Recorded(x)
         /\ Pay(p, row, LinkTargets(links[l]))
         /\ links' = [links EXCEPT ![l].status = "PAID", ![l].id = x, ![l].payment = p]
    BY DEF Settle
<1>3. MoneyInv /\ OthersOK /\ KeysStand /\ LinksStand /\ LinkedExist /\ UncrossedPaidOnce
    BY DEF LedgerInv
<1>4. l \in Links /\ x \in IdOf[l] /\ x \in Ids /\ x # NoId /\ l # NoId /\ links[l].status # "NONE"
    <2>1. callbacks[q] # NoCallback
        BY <1>1, RowFacts
    <2>2. l \in Links /\ x \in IdOf[l] /\ links[l].status # "NONE"
        BY <1>3, <2>1 DEF LinkedExist
    <2> QED BY <2>2, IdFacts
<1>5. /\ callbacks' \in [Requests -> Callbacks]
      /\ callbacks'[q] = NoCallback
      /\ \A r \in Requests : r # q => callbacks'[r] = callbacks[r]
    BY <1>1, <1>3, DoneLeaves
<1>6. callbacks[q].link = l /\ callbacks[q].id = x
    OBVIOUS
<1>7. row \in PaymentRows /\ row.status = "PAID" /\ row.key = NoId /\ row.id = x /\ row.link = l
      /\ row.method = "ONLINE"
    <2>1. links[l].amount \in Nat
        BY <1>3, <1>4 DEF OthersOK, LinkRows
    <2> HIDE DEF l, x
    <2> QED BY <1>4, <2>1 DEF NoPaymentRow, PaymentRows
<1> HIDE DEF l, x, row
<1>8. links \in [Links -> LinkRows] /\ links[l] \in LinkRows /\ payments \in [Payments -> PaymentRows]
    BY <1>3, <1>4, MoneyTypes DEF OthersOK
<1>9. \A m \in Links : links[m].payment # NoPayment => links[m].payment \in Payments
    BY <1>8 DEF LinkRows, NoPayment, Payments, LedgerAssumption
<1>10. \A m \in Links, r \in Requests : callbacks'[r].link = m => callbacks'[r] = callbacks[r]
    BY <1>5, RowFacts, IdFacts
<1>11. \A m \in Links : x \in IdOf[m] => m = l
    BY <1>4, IdFacts
<1>12. \A s \in Payments : payments[s].id = x => payments[s].link = l
    BY <1>3, <1>4, <1>11 DEF LinksStand, PaidThrough
<1>13. CASE /\ links[l].status = "PAID"
            /\ UNCHANGED <<invoices, payments, allocations, links>>
    <2>1. MoneyInv' /\ OthersOK' /\ KeysStand'
        BY <1>1, <1>3, <1>4, <1>5, <1>13, MoneyStays DEF OthersOK, KeysStand
    <2>2. LinksStand'
        BY <1>3, <1>13 DEF LinksStand, PaidThrough
    <2>3. LinkedExist'
        BY <1>3, <1>5, <1>13 DEF LinkedExist
    <2>4. ASSUME NEW m \in Links \ crossed PROVE PaidOnce(m)'
        <3>1. PaidOnce(m)
            BY <1>3 DEF UncrossedPaidOnce
        <3>2. \A y \in taken' \cap IdOf[m] : \E s \in Payments : payments[s].id = y
            <4>1. m = l => /\ links[l].payment \in Payments
                           /\ payments[links[l].payment].id = x
                BY <1>3, <1>4, <1>6, <1>9, <1>13, <3>1 DEF LinksStand, PaidOnce
            <4> QED BY <1>1, <1>11, <3>1, <4>1 DEF PaidOnce
        <3> QED BY <1>10, <1>13, <3>1, <3>2 DEF PaidOnce
    <2>5. UncrossedPaidOnce'
        BY <1>1, <2>4 DEF UncrossedPaidOnce
    <2> QED BY <2>1, <2>2, <2>3, <2>5 DEF LedgerInv
<1>14. CASE /\ links[l].status # "PAID" /\ Recorded(x)
            /\ links' = [links EXCEPT ![l].status = "PAID"]
            /\ UNCHANGED <<invoices, payments, allocations>>
    <2>1. /\ links' \in [Links -> LinkRows]
          /\ links'[l].status = "PAID" /\ links'[l].id = links[l].id
          /\ links'[l].payment = links[l].payment /\ links'[l].invoice = links[l].invoice
          /\ \A m \in Links : m # l => links'[m] = links[m]
        BY <1>4, <1>8, <1>14 DEF LinkRows
    <2>2. PICK s \in Payments : payments[s].id = x /\ payments[s].link = l
        BY <1>12, <1>14 DEF Recorded
    <2>3. links[l].payment # NoPayment
        BY <1>3, <1>4, <2>2 DEF LinksStand, PaidThrough
    <2>4. MoneyInv' /\ OthersOK' /\ KeysStand'
        BY <1>1, <1>3, <1>4, <1>5, <1>14, <2>1, MoneyStays DEF OthersOK, KeysStand
    <2>5. LinksStand'
        <3>1. \A r \in Payments : PaidThrough(r)'
            BY <1>3, <1>14, <2>1 DEF LinksStand, PaidThrough
        <3>2. \A m \in Links :
                /\ links'[m].payment # NoPayment => payments'[links'[m].payment].link = m
                /\ links'[m].status = "NONE" => links'[m].payment = NoPayment
                /\ links'[m].status = "PAID" => links'[m].payment # NoPayment
            BY <1>3, <1>14, <2>1, <2>3 DEF LinksStand
        <3> QED BY <1>3, <1>14, <3>1, <3>2 DEF LinksStand
    <2>6. LinkedExist'
        BY <1>3, <1>5, <1>14, <2>1 DEF LinkedExist
    <2>7. ASSUME NEW m \in Links \ crossed PROVE PaidOnce(m)'
        <3>1. PaidOnce(m)
            BY <1>3 DEF UncrossedPaidOnce
        <3>2. m # l
            BY <1>14, <2>3, <3>1 DEF PaidOnce
        <3>3. \A y \in taken' \cap IdOf[m] : \E r \in Payments : payments[r].id = y
            BY <1>1, <1>11, <3>1, <3>2 DEF PaidOnce
        <3> QED BY <1>10, <1>14, <2>1, <3>1, <3>2, <3>3 DEF PaidOnce
    <2>8. UncrossedPaidOnce'
        BY <1>1, <2>7 DEF UncrossedPaidOnce
    <2> QED BY <2>4, <2>5, <2>6, <2>8 DEF LedgerInv
<1>15. CASE /\ links[l].status # "PAID" /\ ~Recorded(x)
            /\ Pay(p, row, LinkTargets(links[l]))
            /\ links' = [links EXCEPT ![l].status = "PAID", ![l].id = x, ![l].payment = p]
    <2>1. /\ links' \in [Links -> LinkRows]
          /\ links'[l].status = "PAID" /\ links'[l].id = x
          /\ links'[l].payment = p /\ links'[l].invoice = links[l].invoice
          /\ \A m \in Links : m # l => links'[m] = links[m]
        <3> DEFINE link == [links[l] EXCEPT !.status = "PAID", !.id = x, !.payment = p]
        <3>1. p \in 0 .. NumPayments
            BY DEF Payments, LedgerAssumption
        <3>2. /\ link \in LinkRows /\ link.status = "PAID" /\ link.id = x
              /\ link.payment = p /\ link.invoice = links[l].invoice
            BY <1>4, <1>8, <3>1 DEF LinkRows
        <3>3. links' = [links EXCEPT ![l] = link]
            BY <1>4, <1>8, <1>15
        <3> HIDE DEF link
        <3> QED BY <1>4, <1>8, <3>2, <3>3
    <2>2. /\ payments[p].status = "NONE"
          /\ payments' = [payments EXCEPT ![p] = row]
        BY <1>15 DEF Pay
    <2>3. /\ payments'[p] = row /\ \A s \in Payments : s # p => payments'[s] = payments[s]
          /\ payments[p].id = NoId /\ payments[p].link = NoId /\ p # NoPayment
        BY <1>3, <1>8, <2>2, EmptyHasNoLink DEF Payments, NoPayment, LedgerAssumption
    <2>4. MoneyInv'
        BY <1>3, <1>4, <1>7, <1>8, <1>15, LinkTargetsLive, PayKeeps
    <2>5. \A i \in Invoices : invoices[i].status # "NONE" => invoices'[i].status # "NONE"
        BY <1>3, <1>15, PayLeaves
    <2>6. OthersOK'
        BY <1>1, <1>3, <1>4, <1>5, <2>1 DEF OthersOK
    <2>7. KeysStand'
        BY <1>1, <1>3, <1>7, <1>8, <2>2, IdFacts, PlainPaymentKeepsKeys
    <2>8. \A s \in Payments : payments[s].id # x
        BY <1>3, <1>4, <1>15, EmptyHasNoLink DEF Recorded
    <2>9. LinksStand'
        <3>1. ASSUME NEW s \in Payments PROVE PaidThrough(s)'
            <4>1. CASE s = p
                BY <1>4, <1>7, <2>1, <2>3, <4>1 DEF PaidThrough
            <4>2. CASE s # p
                BY <1>3, <2>1, <2>3, <4>2 DEF LinksStand, PaidThrough
            <4> QED BY <4>1, <4>2
        <3>2. \A m \in Links : m # l =>
                /\ links'[m].payment # NoPayment => payments'[links'[m].payment].link = m
            BY <1>3, <1>9, <2>1, <2>3, IdFacts DEF LinksStand
        <3>3. \A m \in Links :
                /\ links'[m].payment # NoPayment => payments'[links'[m].payment].link = m
                /\ links'[m].status = "NONE" => links'[m].payment = NoPayment
                /\ links'[m].status = "PAID" => links'[m].payment # NoPayment
            BY <1>3, <1>7, <2>1, <2>3, <3>2 DEF LinksStand
        <3>4. \A s, r \in Payments : payments'[s].id # NoId /\ payments'[s].id = payments'[r].id => s = r
            BY <1>3, <1>7, <2>3, <2>8 DEF LinksStand
        <3> QED BY <3>1, <3>3, <3>4 DEF LinksStand
    <2>10. LinkedExist'
        <3>1. \A m \in Links : links[m].invoice # NoInvoice => links[m].invoice \in Invoices
            BY <1>8 DEF LinkRows, NoInvoice, Invoices, LedgerAssumption
        <3>2. \A m \in Links : /\ links'[m].invoice = links[m].invoice
                               /\ links[m].status # "NONE" => links'[m].status # "NONE"
            BY <2>1
        <3> QED BY <1>3, <1>5, <2>5, <3>1, <3>2 DEF LinkedExist
    <2>11. ASSUME NEW m \in Links \ crossed PROVE PaidOnce(m)'
        <3>1. PaidOnce(m)
            BY <1>3 DEF UncrossedPaidOnce
        <3>2. CASE m = l
            <4>1. links[l].payment = NoPayment
                BY <1>15, <3>1, <3>2 DEF PaidOnce
            <4>2. \A s \in Payments : payments[s].link # l
                BY <1>3, <1>4, <4>1 DEF LinksStand, PaidThrough
            <4>3. \A r \in Requests : callbacks'[r].link = l =>
                    callbacks'[r].kind = "SETTLE" /\ callbacks'[r].id = x
                BY <1>1, <1>4, <1>6, <1>10, <3>1, <3>2 DEF PaidOnce
            <4>4. \A s \in Payments : payments'[s].link = l => s = p
                BY <2>3, <4>2
            <4>5. \A y \in taken' \cap IdOf[l] : \E s \in Payments : payments'[s].id = y
                <5>1. payments'[p].id = x
                    BY <1>7, <2>3
                <5>2. \A y \in taken \cap IdOf[l] : \E s \in Payments : s # p /\ payments[s].id = y
                    BY <2>3, <3>1, <3>2, <1>4, IdFacts DEF PaidOnce
                <5> QED BY <1>1, <2>3, <5>1, <5>2
            <4> QED BY <1>7, <2>1, <2>3, <3>2, <4>3, <4>4, <4>5 DEF PaidOnce
        <3>3. CASE m # l
            <4>1. \A y \in taken' \cap IdOf[m] : \E s \in Payments : payments'[s].id = y
                <5>1. \A y \in taken \cap IdOf[m] : \E s \in Payments : s # p /\ payments[s].id = y
                    BY <2>3, <3>1, IdFacts DEF PaidOnce
                <5> QED BY <1>1, <1>11, <2>3, <3>3, <5>1
            <4>2. \A s \in Payments : payments'[s].link = m => s # p /\ payments[s].link = m
                BY <1>7, <2>3, <3>3
            <4>3. links[m].payment # NoPayment => links[m].payment # p /\ links[m].payment \in Payments
                BY <1>3, <1>9, <2>3, IdFacts DEF LinksStand
            <4> QED BY <1>10, <2>1, <2>3, <3>1, <3>3, <4>1, <4>2, <4>3 DEF PaidOnce
        <3> QED BY <3>2, <3>3
    <2>12. UncrossedPaidOnce'
        BY <1>1, <2>11 DEF UncrossedPaidOnce
    <2> QED BY <2>4, <2>6, <2>7, <2>9, <2>10, <2>12 DEF LedgerInv
<1> QED BY <1>2, <1>13, <1>14, <1>15

-----------------------------------------------------------------------------
(* The inductive invariant holds at first, with a receipt of the earlier code or without, *)
LEMMA InvAtFirst == ASSUME LedgerAssumption, LedgerInit PROVE LedgerInv
<1>1. PICK legacy \in LegacyReceipts \cup {NoId}, a \in Amounts :
        /\ payments = [p \in Payments |->
                         IF p = 1 /\ legacy # NoId
                         THEN [NoPaymentRow EXCEPT !.status = "PAID", !.amount = a,
                                           !.method = "BANK_TRANSFER", !.key = legacy]
                         ELSE NoPaymentRow]
        /\ receipts = [r \in Receipts |->
                         IF r = legacy
                         THEN [NoReceiptRow EXCEPT !.status = "PENDING", !.amount = a]
                         ELSE NoReceiptRow]
    BY DEF LedgerInit
<1>2. /\ links = [l \in Links |-> NoLinkRow]
      /\ callbacks = [q \in Requests |-> NoCallback]
      /\ accepted = {} /\ taken = {} /\ crossed = {} /\ dayClosed = FALSE
    BY DEF LedgerInit
<1>3. a \in Nat /\ legacy \in Receipts \cup {NoId} /\ NumInvoices \in Nat /\ NumPayments \in Nat
      /\ NoId \notin Receipts
    BY IdFacts DEF LedgerAssumption
<1>4. MoneyInv
    BY MoneyAtFirst
<1>5. \A p \in Payments :
        /\ payments[p].id = NoId /\ payments[p].link = NoId
        /\ payments[p].status = "NONE" => payments[p].key = NoId
        /\ payments[p].key # NoId => payments[p].key = legacy /\ legacy # NoId
    <2> DEFINE row == [NoPaymentRow EXCEPT !.status = "PAID", !.amount = a,
                         !.method = "BANK_TRANSFER", !.key = legacy]
    <2>1. /\ row.id = NoId /\ row.link = NoId /\ row.status = "PAID" /\ row.key = legacy
          /\ NoPaymentRow.id = NoId /\ NoPaymentRow.link = NoId /\ NoPaymentRow.key = NoId
        BY DEF NoPaymentRow
    <2>2. \A p \in Payments : payments[p] = IF p = 1 /\ legacy # NoId THEN row ELSE NoPaymentRow
        BY <1>1
    <2> SUFFICES ASSUME NEW p \in Payments
                 PROVE  /\ payments[p].id = NoId /\ payments[p].link = NoId
                        /\ payments[p].status = "NONE" => payments[p].key = NoId
                        /\ payments[p].key # NoId => payments[p].key = legacy /\ legacy # NoId
        OBVIOUS
    <2>3. CASE p = 1 /\ legacy # NoId
        <3>1. payments[p] = row
            BY <2>2, <2>3
        <3> HIDE DEF row
        <3> QED BY <2>1, <2>3, <3>1
    <2>4. CASE ~(p = 1 /\ legacy # NoId)
        <3>1. payments[p] = NoPaymentRow
            BY <2>2, <2>4
        <3> HIDE DEF row
        <3> QED BY <2>1, <3>1
    <2> QED BY <2>3, <2>4
<1>6. /\ receipts \in [Receipts -> ReceiptRows]
      /\ \A r \in Receipts : receipts[r].status = IF r = legacy THEN "PENDING" ELSE "NONE"
    <2>0. 0 \in 0 .. NumInvoices /\ 0 \in 0 .. NumPayments
        BY <1>3
    <2>1. NoReceiptRow \in ReceiptRows /\ NoReceiptRow.status = "NONE"
        BY <1>3, <2>0 DEF NoReceiptRow, ReceiptRows, NoInvoice, NoPayment
    <2>2. /\ [NoReceiptRow EXCEPT !.status = "PENDING", !.amount = a] \in ReceiptRows
          /\ [NoReceiptRow EXCEPT !.status = "PENDING", !.amount = a].status = "PENDING"
        BY <1>3, <2>0 DEF NoReceiptRow, ReceiptRows, NoInvoice, NoPayment
    <2> QED BY <1>1, <2>1, <2>2
<1>7. /\ links \in [Links -> LinkRows]
      /\ \A l \in Links : /\ links[l].status = "NONE" /\ links[l].payment = NoPayment
                          /\ links[l].invoice = NoInvoice
    <2>1. /\ NoLinkRow \in LinkRows /\ NoLinkRow.status = "NONE"
          /\ NoLinkRow.payment = NoPayment /\ NoLinkRow.invoice = NoInvoice
        BY <1>3 DEF NoLinkRow, LinkRows, NoInvoice, NoPayment
    <2> QED BY <1>2, <2>1
<1>8. OthersOK
    BY <1>2, <1>6, <1>7, RowFacts DEF OthersOK
<1>9. KeysStand
    <2>1. legacy # NoId => legacy \in LegacyReceipts
        OBVIOUS
    <2> QED BY <1>3, <1>5, <1>6, <2>1 DEF KeysStand
<1>10. LinksStand
    BY <1>5, <1>7 DEF LinksStand, PaidThrough
<1>11. LinkedExist
    BY <1>2, <1>7 DEF LinkedExist
<1>12. UncrossedPaidOnce
    BY <1>2, <1>7, RowFacts, IdFacts DEF UncrossedPaidOnce, PaidOnce
<1> QED BY <1>4, <1>8, <1>9, <1>10, <1>11, <1>12 DEF LedgerInv

(* and every action keeps it. *)
LEMMA InvStep == ASSUME LedgerAssumption, LedgerInv, [LedgerNext]_ledgerVars PROVE LedgerInv'
<1>1. CASE DeskNext
    <2>1. ASSUME NEW p \in Payments, NEW a \in Amounts \cup {0}, NEW d \in Discounts \cup {0},
                 NEW m \in Methods, NEW s \in DeskStatuses, NEW k \in Keys \cup {NoId},
                 NEW i \in Invoices \cup {NoInvoice}, TakePayment(p, a, d, m, s, k, i)
          PROVE  LedgerInv'
        BY <2>1, TakeKeeps
    <2>2. ASSUME NEW p \in Payments, VoidPayment(p) PROVE LedgerInv'
        BY <2>2, VoidKeepsAll
    <2>3. CASE CloseDay
        BY <2>3, CloseKeepsAll
    <2> QED BY <1>1, <2>1, <2>2, <2>3 DEF DeskNext
<1>2. CASE InvoiceNext
    <2>1. ASSUME NEW i \in Invoices, NEW e \in Enrollments \cup {NoId}, NEW a \in Amounts,
                 CreateInvoice(i, e, a)
          PROVE  LedgerInv'
        <3>1. a \in Nat \ {0} /\ Issue(i, e, a)
            BY <2>1 DEF CreateInvoice, LedgerAssumption
        <3> QED BY <3>1, IssueKeepsAll
    <2>2. ASSUME NEW i \in Invoices, NEW e \in Enrollments, GenerateMonthly(i, e)
          PROVE  LedgerInv'
        <3>1. Price[e] \in Nat \ {0} /\ Issue(i, e, Price[e])
            BY <2>2 DEF GenerateMonthly, LedgerAssumption
        <3> QED BY <3>1, IssueKeepsAll
    <2>3. ASSUME NEW i \in Invoices, CancelInvoice(i) PROVE LedgerInv'
        BY <2>3, CancelKeepsAll
    <2>4. ASSUME NEW i \in Invoices, MarkOverdue(i) PROVE LedgerInv'
        BY <2>4, OverdueKeepsAll
    <2> QED BY <1>2, <2>1, <2>2, <2>3, <2>4 DEF InvoiceNext
<1>3. CASE ReceiptNext
    <2>1. ASSUME NEW r \in Receipts, NEW a \in Amounts, NEW i \in Invoices \cup {NoInvoice},
                 SubmitReceipt(r, a, i)
          PROVE  LedgerInv'
        BY <2>1, SubmitKeeps
    <2>2. ASSUME NEW r \in Receipts, NEW a \in Amounts, NEW p \in Payments, ConfirmReceipt(r, a, p)
          PROVE  LedgerInv'
        BY <2>2, ConfirmKeeps
    <2>3. ASSUME NEW r \in Receipts, RejectReceipt(r) PROVE LedgerInv'
        BY <2>3, RejectKeeps
    <2> QED BY <1>3, <2>1, <2>2, <2>3 DEF ReceiptNext
<1>4. CASE GatewayNext
    <2>1. ASSUME NEW l \in Links, NEW a \in Amounts, NEW i \in Invoices \cup {NoInvoice},
                 MakeLink(l, a, i)
          PROVE  LedgerInv'
        BY <2>1, MakeLinkKeeps
    <2>2. ASSUME NEW q \in Requests, NEW kind \in {"PREPARE", "SETTLE", "CANCEL"}, NEW l \in Links,
                 NEW x \in Ids, Receive(q, kind, l, x)
          PROVE  LedgerInv'
        BY <2>2, ReceiveKeeps
    <2>3. ASSUME NEW q \in Requests, Prepare(q) PROVE LedgerInv'
        BY <2>3, PrepareKeeps
    <2>4. ASSUME NEW q \in Requests, Cancel(q) PROVE LedgerInv'
        BY <2>4, CallbackCancelKeeps
    <2>5. ASSUME NEW q \in Requests, NEW p \in Payments, Settle(q, p) PROVE LedgerInv'
        BY <2>5, SettleKeeps
    <2> QED BY <1>4, <2>1, <2>2, <2>3, <2>4, <2>5 DEF GatewayNext
<1>5. CASE UNCHANGED ledgerVars
    BY <1>5, StutterKeepsAll
<1> QED BY <1>1, <1>2, <1>3, <1>4, <1>5 DEF LedgerNext

(* LedgerInv is an invariant of the ledger, for all constants. *)
THEOREM Inductive == LedgerSpec => []LedgerInv
<1>1. LedgerInit => LedgerInv
    BY LedgerAssumption, InvAtFirst
<1>2. LedgerInv /\ [LedgerNext]_ledgerVars => LedgerInv'
    BY LedgerAssumption, InvStep
<1> QED BY <1>1, <1>2, PTL DEF LedgerSpec

(* The types of the variables: the sums stay natural numbers, so nothing is taken off *)
(* that is not there (voidPayment, allocateToInvoices).                               *)
THEOREM Types == LedgerSpec => []LedgerTypeOK
<1>1. LedgerInv => LedgerTypeOK
    BY DEF LedgerInv, MoneyInv, TablesOK, OthersOK, LedgerTypeOK
<1> QED BY <1>1, Inductive, PTL

(* The three tables agree after any sequence of payments, voids, invoices and callbacks: *)
(* an invoice's sums are those of its allocations, and its status says so.               *)
THEOREM Books == LedgerSpec => []BooksAgree
<1>1. ASSUME LedgerInv PROVE BooksAgree
    <2> SUFFICES ASSUME NEW i \in Invoices, invoices[i].status # "NONE"
                 PROVE  LET rows == {a \in allocations : a.invoice = i}
                            paid == SumFunction([a \in rows |-> a.amount])
                            waived == SumFunction([a \in rows |-> a.waived]) IN
                        /\ invoices[i].amountPaid = paid
                        /\ invoices[i].remaining = invoices[i].amount - paid - waived
                        /\ invoices[i].remaining >= 0
                        /\ invoices[i].status = "PAID" <=> invoices[i].remaining = 0 /\ i \in Live
        BY DEF BooksAgree, Exists
    <2>1. MoneyInv /\ invoices[i] \in InvoiceRows
        BY <1>1, MoneyTypes DEF LedgerInv
    <2>2. OnInvoice(i) \subseteq AllocationRows /\ IsFiniteSet(OnInvoice(i))
        BY <2>1, FS_Subset DEF OnInvoice, MoneyInv, TablesOK, RowsStand
    <2>3. /\ SumFunction([a \in OnInvoice(i) |-> a.amount]) = Sum(AmountOf, OnInvoice(i))
          /\ SumFunction([a \in OnInvoice(i) |-> a.waived]) = Sum(WaivedOf, OnInvoice(i))
          /\ Sum(AmountOf, OnInvoice(i)) \in Nat /\ Sum(WaivedOf, OnInvoice(i)) \in Nat
        BY <2>2, RowSumFunctions, RowSums
    <2>4. /\ invoices[i].amountPaid = Sum(AmountOf, OnInvoice(i))
          /\ invoices[i].amount
               = invoices[i].remaining + invoices[i].amountPaid + Sum(WaivedOf, OnInvoice(i))
          /\ invoices[i].status = "PAID"
               <=> invoices[i].remaining = 0 /\ invoices[i].status # "CANCELLED"
        BY <2>1 DEF MoneyInv, InvoicesAddUp
    <2>5. invoices[i].remaining \in Nat /\ invoices[i].amount \in Nat
        BY <2>1 DEF InvoiceRows
    <2>6. i \in Live <=> invoices[i].status # "CANCELLED"
        BY DEF Live
    <2> DEFINE m == SumFunction([a \in OnInvoice(i) |-> a.amount])
               w == SumFunction([a \in OnInvoice(i) |-> a.waived])
    <2>7. /\ invoices[i].amountPaid = m
          /\ invoices[i].remaining = invoices[i].amount - m - w
          /\ invoices[i].remaining >= 0
          /\ invoices[i].status = "PAID" <=> invoices[i].remaining = 0 /\ i \in Live
        <3>1. m = Sum(AmountOf, OnInvoice(i)) /\ w = Sum(WaivedOf, OnInvoice(i))
            BY <2>3
        <3> HIDE DEF m, w
        <3> QED BY <2>3, <2>4, <2>5, <2>6, <3>1
    <2> QED BY <2>7 DEF OnInvoice
<1> QED BY <1>1, Inductive, PTL

(* A payment's money and its discount go to invoices at most once, whether it was   *)
(* allocated when it came (allocateToInvoices) or later (applyUnallocatedPayments). *)
THEOREM UsedOnce == LedgerSpec => []MoneyUsedOnce
<1>1. ASSUME LedgerInv PROVE MoneyUsedOnce
    <2> SUFFICES ASSUME NEW p \in Payments
                 PROVE  /\ Allocated(p) <= payments[p].amount /\ Waived(p) <= payments[p].discount
                        /\ RowsOf(p) # {} => payments[p].status = "PAID"
        BY DEF MoneyUsedOnce
    <2>1. MoneyInv
        BY <1>1 DEF LedgerInv
    <2>2. RowsOf(p) \subseteq AllocationRows /\ IsFiniteSet(RowsOf(p))
        BY <2>1, FS_Subset DEF RowsOf, MoneyInv, TablesOK, RowsStand
    <2>3. Allocated(p) = Sum(AmountOf, RowsOf(p)) /\ Waived(p) = Sum(WaivedOf, RowsOf(p))
        BY <2>2, RowSumFunctions DEF Allocated, Waived
    <2>4. RowsOf(p) # {} => payments[p].status = "PAID"
        BY <2>1 DEF RowsOf, MoneyInv, RowsStand
    <2> QED BY <2>1, <2>3, <2>4 DEF MoneyInv, PaymentsSuffice
<1> QED BY <1>1, Inductive, PTL

(* cancel takes no ledger lock, and still no money sits on a cancelled invoice. *)
THEOREM NoMoneyOnCancelled == LedgerSpec => []CancelledHoldsNoMoney
<1>1. LedgerInv => CancelledHoldsNoMoney
    BY DEF LedgerInv, MoneyInv, RowsStand, CancelledHoldsNoMoney
<1> QED BY <1>1, Inductive, PTL

(* A card receipt is CONFIRMED with its payment or REJECTED without one, though a payment *)
(* of the earlier code may be there already (confirm, reject).                            *)
THEOREM ReceiptsDecided == LedgerSpec => []ReceiptsAgree
<1>1. ASSUME LedgerInv PROVE ReceiptsAgree
    BY <1>1 DEF LedgerInv, KeysStand, ReceiptsAgree, KeyUsed
<1> QED BY <1>1, Inductive, PTL

(* A link that says PAID has a payment of its own that stands, and a provider's id makes *)
(* one payment - in every order of repeated, late and crossed callbacks.                 *)
THEOREM LinksRight == LedgerSpec => []LinksAgree
<1>1. ASSUME LedgerInv PROVE LinksAgree
    <2>1. LinksStand /\ links \in [Links -> LinkRows]
        BY <1>1 DEF LedgerInv, OthersOK
    <2>2. \A l \in Links : links[l].payment # NoPayment => links[l].payment \in Payments
        BY <2>1, LedgerAssumption DEF LinkRows, NoPayment, Payments, LedgerAssumption
    <2>3. \A l \in Links : l # NoId
        BY LedgerAssumption, IdFacts
    <2>4. ASSUME NEW l \in Links, links[l].status = "PAID"
          PROVE  /\ links[l].payment \in Payments
                 /\ payments[links[l].payment].status = "PAID"
                 /\ payments[links[l].payment].link = l
        BY <2>1, <2>2, <2>3, <2>4 DEF LinksStand, PaidThrough
    <2> QED BY <2>1, <2>4 DEF LinksStand, LinksAgree
<1> QED BY <1>1, Inductive, PTL

(* A link no two different callbacks overlapped on is paid once, and what the provider *)
(* took is recorded (executeFinalizePayment).                                          *)
THEOREM OncePaid == LedgerSpec => []LinkPaidOnce
<1>1. ASSUME LedgerInv PROVE LinkPaidOnce
    <2> SUFFICES ASSUME NEW l \in Links \ crossed
                 PROVE  /\ \A p, q \in Payments : payments[p].link = l /\ payments[q].link = l => p = q
                        /\ \A x \in taken \cap IdOf[l] : \E p \in Payments : payments[p].id = x
        BY DEF LinkPaidOnce
    <2>1. LinksStand /\ PaidOnce(l) /\ l # NoId
        BY <1>1, LedgerAssumption, IdFacts DEF LedgerInv, UncrossedPaidOnce
    <2> QED BY <2>1 DEF LinksStand, PaidThrough, PaidOnce
<1> QED BY <1>1, Inductive, PTL

-----------------------------------------------------------------------------
LEMMA LedgerFinite ==
    ASSUME LedgerAssumption
    PROVE  /\ IsFiniteSet(Invoices) /\ IsFiniteSet(Payments)
           /\ IsFiniteSet(Live) /\ IsFiniteSet(Received) /\ IsFiniteSet(Uninvoiced)
           /\ Live \subseteq Invoices /\ Received \subseteq Payments /\ Uninvoiced \subseteq Enrollments
<1>1. IsFiniteSet(Invoices) /\ IsFiniteSet(Payments)
    BY FS_Interval DEF LedgerAssumption, Invoices, Payments
<1>2. Live \subseteq Invoices /\ Received \subseteq Payments
    BY DEF Live, Received
<1>3. Uninvoiced \subseteq Enrollments
    BY DEF Uninvoiced
<1>4. IsFiniteSet(Live) /\ IsFiniteSet(Received)
    BY <1>1, <1>2, FS_Subset
<1>5. IsFiniteSet(Uninvoiced)
    BY <1>3, FS_Subset DEF LedgerAssumption
<1> QED BY <1>1, <1>2, <1>3, <1>4, <1>5

(* The columns whose sums the debt is made of. *)
RestOf == [i \in Invoices |-> invoices[i].remaining]
AskedOf == [i \in Invoices |-> invoices[i].amount]
MoneyOn == [i \in Invoices |-> Sum(AmountOf, OnInvoice(i))]
WaivedOn == [i \in Invoices |-> Sum(WaivedOf, OnInvoice(i))]
GivenOf == [p \in Payments |-> payments[p].amount]
DiscountOf == [p \in Payments |-> payments[p].discount]
UsedOf == [p \in Payments |-> Sum(AmountOf, RowsOf(p))]
UsedDiscount == [p \in Payments |-> Sum(WaivedOf, RowsOf(p))]
FreeDiscount == [p \in Payments |-> IF RowsOf(p) = {} THEN payments[p].discount ELSE 0]
CreditOf == [p \in Payments |-> Credit(p)]

(* They are numbers. *)
LEMMA Columns ==
    ASSUME MoneyInv
    PROVE  /\ \A i \in Invoices : /\ RestOf[i] \in Nat /\ AskedOf[i] \in Nat
                                  /\ MoneyOn[i] \in Nat /\ WaivedOn[i] \in Nat
           /\ \A p \in Payments : /\ GivenOf[p] \in Nat /\ DiscountOf[p] \in Nat
                                  /\ UsedOf[p] \in Nat /\ UsedDiscount[p] \in Nat
                                  /\ FreeDiscount[p] \in Nat
<1>1. \A i \in Invoices : invoices[i].remaining \in Nat /\ invoices[i].amount \in Nat
    BY DEF MoneyInv, TablesOK, InvoiceRows
<1>2. \A p \in Payments : payments[p].amount \in Nat /\ payments[p].discount \in Nat
    BY DEF MoneyInv, TablesOK, PaymentRows
<1>3. allocations \subseteq AllocationRows /\ IsFiniteSet(allocations)
    BY DEF MoneyInv, TablesOK, RowsStand
<1>4. ASSUME NEW i \in Invoices
      PROVE  Sum(AmountOf, OnInvoice(i)) \in Nat /\ Sum(WaivedOf, OnInvoice(i)) \in Nat
    <2>1. OnInvoice(i) \in SUBSET allocations
        BY DEF OnInvoice
    <2> QED BY <1>3, <2>1, RowSums
<1>5. ASSUME NEW p \in Payments
      PROVE  Sum(AmountOf, RowsOf(p)) \in Nat /\ Sum(WaivedOf, RowsOf(p)) \in Nat
    <2>1. RowsOf(p) \in SUBSET allocations
        BY DEF RowsOf
    <2> QED BY <1>3, <2>1, RowSums
<1>6. \A i \in Invoices : /\ RestOf[i] \in Nat /\ AskedOf[i] \in Nat
                          /\ MoneyOn[i] \in Nat /\ WaivedOn[i] \in Nat
    BY <1>1, <1>4 DEF RestOf, AskedOf, MoneyOn, WaivedOn
<1>7. \A p \in Payments : GivenOf[p] \in Nat /\ DiscountOf[p] \in Nat /\ FreeDiscount[p] \in Nat
    BY <1>2 DEF GivenOf, DiscountOf, FreeDiscount
<1>8. \A p \in Payments : UsedOf[p] \in Nat /\ UsedDiscount[p] \in Nat
    BY <1>5 DEF UsedOf, UsedDiscount
<1> QED BY <1>6, <1>7, <1>8

(* All the money that was put on invoices is on the ones that are owed. *)
LEMMA MoneyIsOnLive ==
    ASSUME LedgerAssumption, MoneyInv
    PROVE  /\ Sum(MoneyOn, Live) = Sum(AmountOf, allocations)
           /\ Sum(WaivedOn, Live) <= Sum(WaivedOf, allocations)
           /\ Sum(WaivedOn, Live) \in Nat
<1>1. /\ allocations \subseteq AllocationRows /\ IsFiniteSet(allocations)
      /\ \A a \in allocations : /\ AmountOf[a] \in Int /\ WaivedOf[a] \in Int
                                /\ InvoiceOf[a] \in Invoices /\ InvoiceOf[a] = a.invoice
                                /\ AmountOf[a] = a.amount
    BY RowTypes DEF MoneyInv, TablesOK, RowsStand
<1>2. \A i \in Invoices : Part(allocations, InvoiceOf, i) = OnInvoice(i)
    BY <1>1 DEF Part, OnInvoice
<1>3. \A i \in Invoices : /\ MoneyOn[i] = Sum(AmountOf, Part(allocations, InvoiceOf, i))
                          /\ WaivedOn[i] = Sum(WaivedOf, Part(allocations, InvoiceOf, i))
    BY <1>2 DEF MoneyOn, WaivedOn
<1>4. IsFiniteSet(Invoices) /\ Live \in SUBSET Invoices /\ IsFiniteSet(Live)
    BY LedgerFinite
<1>5. Sum(MoneyOn, Invoices) = Sum(AmountOf, allocations)
    BY <1>1, <1>3, <1>4, SumByKey
<1>6. Sum(WaivedOn, Invoices) = Sum(WaivedOf, allocations)
    BY <1>1, <1>3, <1>4, SumByKey
<1>7. \A i \in Invoices : MoneyOn[i] \in Nat /\ WaivedOn[i] \in Nat
    BY Columns
<1>8. \A i \in Invoices : MoneyOn[i] \in Int /\ WaivedOn[i] \in Int
    BY <1>7
<1>9. Invoices \ Live \subseteq Invoices /\ IsFiniteSet(Invoices \ Live)
    BY <1>4, FS_Subset
<1>10. ASSUME NEW i \in Invoices \ Live PROVE MoneyOn[i] = 0
    <2>1. \A a \in OnInvoice(i) : AmountOf[a] = 0
        BY <1>1 DEF OnInvoice, Live, MoneyInv, RowsStand
    <2>2. IsFiniteSet(OnInvoice(i))
        BY <1>1, FS_Subset DEF OnInvoice
    <2>3. Sum(AmountOf, OnInvoice(i)) = 0
        BY <2>1, <2>2, SumOfNothing
    <2> QED BY <2>3 DEF MoneyOn
<1>11. Sum(MoneyOn, Invoices \ Live) = 0
    BY <1>9, <1>10, SumOfNothing
<1>12. Sum(MoneyOn, Invoices) = Sum(MoneyOn, Live) + Sum(MoneyOn, Invoices \ Live)
    BY <1>4, <1>8, SumOfPart
<1>13. Sum(WaivedOn, Invoices) = Sum(WaivedOn, Live) + Sum(WaivedOn, Invoices \ Live)
    BY <1>4, <1>8, SumOfPart
<1>14. Sum(WaivedOn, Live) \in Nat /\ Sum(MoneyOn, Live) \in Nat
    BY <1>4, <1>7, SumNat
<1>15. Sum(WaivedOn, Invoices \ Live) \in Nat
    BY <1>7, <1>9, SumNat
<1> QED BY <1>5, <1>6, <1>11, <1>12, <1>13, <1>14, <1>15

(* What is owed on invoices: what they ask, less what was put on them. *)
LEMMA RestsAddUp ==
    ASSUME LedgerAssumption, MoneyInv
    PROVE  /\ Sum(AskedOf, Live)
                = Sum(RestOf, Live) + Sum(AmountOf, allocations) + Sum(WaivedOn, Live)
           /\ Sum(RestOf, Live) \in Int /\ Sum(AmountOf, allocations) \in Int
<1> DEFINE both == [i \in Invoices |-> RestOf[i] + MoneyOn[i]]
<1>1. IsFiniteSet(Live) /\ Live \subseteq Invoices
    BY LedgerFinite
<1>2. \A i \in Live : RestOf[i] \in Int /\ AskedOf[i] \in Int /\ MoneyOn[i] \in Int /\ WaivedOn[i] \in Int
    BY <1>1, Columns
<1>3. \A i \in Live : both[i] = RestOf[i] + MoneyOn[i] /\ both[i] \in Int
    BY <1>1, <1>2
<1>4. ASSUME NEW i \in Live PROVE AskedOf[i] = both[i] + WaivedOn[i]
    <2>1. i \in Invoices /\ invoices[i].status # "NONE"
        BY DEF Live
    <2>2. /\ invoices[i].amountPaid = Sum(AmountOf, OnInvoice(i))
          /\ invoices[i].amount
               = invoices[i].remaining + invoices[i].amountPaid + Sum(WaivedOf, OnInvoice(i))
        BY <2>1 DEF MoneyInv, InvoicesAddUp
    <2> QED BY <2>1, <2>2 DEF AskedOf, RestOf, MoneyOn, WaivedOn
<1> HIDE DEF both
<1>5. Sum(both, Live) = Sum(RestOf, Live) + Sum(MoneyOn, Live)
    BY <1>1, <1>2, <1>3, SumPlus
<1>6. Sum(AskedOf, Live) = Sum(both, Live) + Sum(WaivedOn, Live)
    BY <1>1, <1>2, <1>3, <1>4, SumPlus
<1>7. Sum(RestOf, Live) \in Int /\ Sum(MoneyOn, Live) \in Int
    BY <1>1, <1>2, SumInt
<1> QED BY <1>5, <1>6, <1>7, MoneyIsOnLive

(* What payments still count for: what was given, less what was put on invoices. *)
LEMMA CreditsAddUp ==
    ASSUME LedgerAssumption, MoneyInv
    PROVE  /\ Sum(CreditOf, Received) + Sum(AmountOf, allocations)
                = Sum(GivenOf, Received) + Sum(FreeDiscount, Received)
           /\ Sum(WaivedOf, allocations) + Sum(FreeDiscount, Received) <= Sum(DiscountOf, Received)
           /\ Sum(FreeDiscount, Received) \in Nat
           /\ Sum(CreditOf, Received) \in Int /\ Sum(GivenOf, Received) \in Int
           /\ Sum(DiscountOf, Received) \in Int /\ Sum(WaivedOf, allocations) \in Int
<1> DEFINE open == [p \in Payments |-> GivenOf[p] - UsedOf[p]]
           shown == [p \in Payments |-> UsedDiscount[p] + FreeDiscount[p]]
<1>1. IsFiniteSet(Received) /\ Received \subseteq Payments
    BY LedgerFinite
<1>2. \A p \in Received : /\ GivenOf[p] \in Int /\ UsedOf[p] \in Int /\ UsedDiscount[p] \in Int
                          /\ DiscountOf[p] \in Int
    BY <1>1, Columns
<1>3. \A p \in Received : FreeDiscount[p] \in Nat /\ FreeDiscount[p] \in Int
    BY <1>1, Columns
<1>4. /\ allocations \subseteq AllocationRows /\ IsFiniteSet(allocations)
      /\ \A a \in allocations : /\ AmountOf[a] \in Int /\ WaivedOf[a] \in Int
                                /\ PaymentOf[a] \in Received /\ PaymentOf[a] = a.payment
    BY RowTypes DEF MoneyInv, TablesOK, RowsStand, Received
<1>5. \A p \in Received : Part(allocations, PaymentOf, p) = RowsOf(p)
    BY <1>4 DEF Part, RowsOf
<1>6. \A p \in Received : /\ UsedOf[p] = Sum(AmountOf, Part(allocations, PaymentOf, p))
                          /\ UsedDiscount[p] = Sum(WaivedOf, Part(allocations, PaymentOf, p))
    BY <1>1, <1>5 DEF UsedOf, UsedDiscount
<1>7. Sum(UsedOf, Received) = Sum(AmountOf, allocations)
    BY <1>1, <1>4, <1>6, SumByKey
<1>8. Sum(UsedDiscount, Received) = Sum(WaivedOf, allocations)
    BY <1>1, <1>4, <1>6, SumByKey
<1>9. \A p \in Received : open[p] \in Int /\ GivenOf[p] = open[p] + UsedOf[p]
    BY <1>1, <1>2
<1>10. \A p \in Received : shown[p] \in Int /\ shown[p] = UsedDiscount[p] + FreeDiscount[p]
    BY <1>1, <1>2, <1>3
<1>11. ASSUME NEW p \in Received PROVE CreditOf[p] = open[p] + FreeDiscount[p]
    <2>1. p \in Payments /\ RowsOf(p) \subseteq AllocationRows /\ IsFiniteSet(RowsOf(p))
        BY <1>1, <1>4, FS_Subset DEF RowsOf
    <2>2. Allocated(p) = Sum(AmountOf, RowsOf(p))
        BY <2>1, RowSumFunctions DEF Allocated
    <2>3. Sum(AmountOf, RowsOf(p)) <= payments[p].amount
        BY <2>1 DEF MoneyInv, PaymentsSuffice
    <2>4. GivenOf[p] = payments[p].amount /\ UsedOf[p] = Sum(AmountOf, RowsOf(p))
        BY <2>1 DEF GivenOf, UsedOf
    <2>5. Positive(payments[p].amount - Allocated(p)) = GivenOf[p] - UsedOf[p]
        BY <1>2, <2>2, <2>3, <2>4 DEF Positive
    <2>6. CreditOf[p] = (GivenOf[p] - UsedOf[p]) + FreeDiscount[p]
        BY <2>1, <2>5 DEF CreditOf, Credit, FreeDiscount
    <2> QED BY <2>1, <2>6
<1>12. ASSUME NEW p \in Received PROVE shown[p] <= DiscountOf[p]
    <2>1. p \in Payments /\ UsedDiscount[p] = Sum(WaivedOf, RowsOf(p))
          /\ DiscountOf[p] = payments[p].discount
        BY <1>1 DEF UsedDiscount, DiscountOf
    <2>2. UsedDiscount[p] <= DiscountOf[p]
        BY <2>1 DEF MoneyInv, PaymentsSuffice
    <2>3. RowsOf(p) = {} => UsedDiscount[p] = 0
        BY <2>1, SumEmpty
    <2>4. FreeDiscount[p] = IF RowsOf(p) = {} THEN DiscountOf[p] ELSE 0
        BY <2>1 DEF FreeDiscount
    <2> HIDE DEF shown
    <2> QED BY <1>2, <1>10, <2>2, <2>3, <2>4
<1> HIDE DEF open, shown
<1>13. Sum(GivenOf, Received) = Sum(open, Received) + Sum(UsedOf, Received)
    BY <1>1, <1>2, <1>9, SumPlus
<1>14. Sum(CreditOf, Received) = Sum(open, Received) + Sum(FreeDiscount, Received)
    BY <1>1, <1>3, <1>9, <1>11, SumPlus
<1>15. Sum(shown, Received) = Sum(UsedDiscount, Received) + Sum(FreeDiscount, Received)
    BY <1>1, <1>2, <1>3, <1>10, SumPlus
<1>16. Sum(shown, Received) <= Sum(DiscountOf, Received)
    BY <1>1, <1>2, <1>10, <1>12, SumLeq
<1>17. /\ Sum(open, Received) \in Int /\ Sum(UsedOf, Received) \in Int
       /\ Sum(UsedDiscount, Received) \in Int /\ Sum(DiscountOf, Received) \in Int
    BY <1>1, <1>2, <1>9, SumInt
<1>18. Sum(FreeDiscount, Received) \in Nat
    BY <1>1, <1>3, SumNat
<1> QED BY <1>7, <1>8, <1>13, <1>14, <1>15, <1>16, <1>17, <1>18

(* The sums as the model writes them. *)
LEMMA DebtSums ==
    ASSUME LedgerAssumption
    PROVE  /\ SumFunction([i \in Live |-> invoices[i].remaining]) = Sum(RestOf, Live)
           /\ SumFunction([i \in Live |-> invoices[i].amount]) = Sum(AskedOf, Live)
           /\ SumFunction([e \in Uninvoiced |-> Price[e]]) \in Int
           /\ SumFunction([p \in Received |-> payments[p].amount]) = Sum(GivenOf, Received)
           /\ SumFunction([p \in Received |-> payments[p].discount]) = Sum(DiscountOf, Received)
           /\ SumFunction([p \in Received |-> Credit(p)]) = Sum(CreditOf, Received)
<1>1. /\ IsFiniteSet(Live) /\ IsFiniteSet(Received) /\ IsFiniteSet(Uninvoiced)
      /\ Live \subseteq Invoices /\ Received \subseteq Payments /\ Uninvoiced \subseteq Enrollments
    BY LedgerFinite
<1> DEFINE rest == [i \in Live |-> invoices[i].remaining]
           asked == [i \in Live |-> invoices[i].amount]
           prices == [e \in Uninvoiced |-> Price[e]]
           given == [p \in Received |-> payments[p].amount]
           discount == [p \in Received |-> payments[p].discount]
           credit == [p \in Received |-> Credit(p)]
<1>2. DOMAIN rest = Live /\ \A i \in Live : RestOf[i] = rest[i]
    BY <1>1 DEF RestOf
<1>3. DOMAIN asked = Live /\ \A i \in Live : AskedOf[i] = asked[i]
    BY <1>1 DEF AskedOf
<1>4. DOMAIN prices = Uninvoiced /\ \A e \in Uninvoiced : Price[e] = prices[e] /\ Price[e] \in Int
    BY <1>1 DEF LedgerAssumption
<1>5. DOMAIN given = Received /\ \A p \in Received : GivenOf[p] = given[p]
    BY <1>1 DEF GivenOf
<1>6. DOMAIN discount = Received /\ \A p \in Received : DiscountOf[p] = discount[p]
    BY <1>1 DEF DiscountOf
<1>7. DOMAIN credit = Received /\ \A p \in Received : CreditOf[p] = credit[p]
    BY <1>1 DEF CreditOf
<1> HIDE DEF rest, asked, prices, given, discount, credit
<1>8. SumFunction(rest) = Sum(RestOf, Live)
    BY <1>1, <1>2, SumFunctionIs
<1>9. SumFunction(asked) = Sum(AskedOf, Live)
    BY <1>1, <1>3, SumFunctionIs
<1>10. SumFunction(prices) = Sum(Price, Uninvoiced)
    BY <1>1, <1>4, SumFunctionIs
<1>11. Sum(Price, Uninvoiced) \in Int
    BY <1>1, <1>4, SumInt
<1>12. SumFunction(given) = Sum(GivenOf, Received)
    BY <1>1, <1>5, SumFunctionIs
<1>13. SumFunction(discount) = Sum(DiscountOf, Received)
    BY <1>1, <1>6, SumFunctionIs
<1>14. SumFunction(credit) = Sum(CreditOf, Received)
    BY <1>1, <1>7, SumFunctionIs
<1>15. SumFunction(prices) \in Int
    BY <1>10, <1>11
<1> QED BY <1>8, <1>9, <1>12, <1>13, <1>14, <1>15 DEF rest, asked, prices, given, discount, credit

(* monthDue: the debt counts every received sum once, whether or not an invoice took it, *)
(* and every discount at most once.                                                      *)
THEOREM DebtRight == LedgerSpec => []DebtIsWhatIsLeft
<1>1. ASSUME LedgerInv PROVE DebtIsWhatIsLeft
    <2> DEFINE rest == SumFunction([i \in Live |-> invoices[i].remaining])
               asked == SumFunction([i \in Live |-> invoices[i].amount])
               prices == SumFunction([e \in Uninvoiced |-> Price[e]])
               money == SumFunction([p \in Received |-> payments[p].amount])
               discounts == SumFunction([p \in Received |-> payments[p].discount])
               credit == SumFunction([p \in Received |-> Credit(p)])
               waived == Sum(WaivedOn, Live)
               free == Sum(FreeDiscount, Received)
               used == Sum(AmountOf, allocations)
    <2>1. MoneyInv
        BY <1>1 DEF LedgerInv
    <2>2. /\ rest = Sum(RestOf, Live) /\ asked = Sum(AskedOf, Live) /\ prices \in Int
          /\ money = Sum(GivenOf, Received) /\ discounts = Sum(DiscountOf, Received)
          /\ credit = Sum(CreditOf, Received)
        BY LedgerAssumption, DebtSums
    <2>3. Debt = Positive(rest + prices - credit)
        BY DEF Debt
    <2>4. Expected = asked + prices
        BY DEF Expected
    <2> HIDE DEF rest, asked, prices, money, discounts, credit
    <2>5. /\ asked = rest + used + waived /\ rest \in Int /\ used \in Int
          /\ waived \in Nat /\ waived <= Sum(WaivedOf, allocations)
        BY <2>1, <2>2, LedgerAssumption, RestsAddUp, MoneyIsOnLive
    <2>6. /\ credit + used = money + free /\ free \in Nat
          /\ Sum(WaivedOf, allocations) + free <= discounts
          /\ credit \in Int /\ money \in Int /\ discounts \in Int
          /\ Sum(WaivedOf, allocations) \in Int
        BY <2>1, <2>2, LedgerAssumption, CreditsAddUp
    <2> HIDE DEF waived, free, used
    <2>7. /\ rest + prices - credit <= Expected - money
          /\ rest + prices - credit >= Expected - money - discounts
          /\ Expected \in Int
        BY <2>2, <2>4, <2>5, <2>6
    <2>8. /\ Debt <= Positive(Expected - money)
          /\ Debt >= Positive(Expected - money - discounts)
        BY <2>2, <2>3, <2>5, <2>6, <2>7 DEF Positive
    <2> QED BY <2>8 DEF DebtIsWhatIsLeft, money, discounts
<1> QED BY <1>1, Inductive, PTL
================================================================================
