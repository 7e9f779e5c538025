---------------------------- MODULE TradingProofs ----------------------------
(***************************************************************************)
(* Proofs about paper trading: the books of an account (PaperTrading), for *)
(* any orders, prices, depths and fees and any number of generations and   *)
(* lots; and the permissions to trade in a market (MarketPermissions), for *)
(* any requests, applications, keys, markets and rules.  They share no     *)
(* state; their proofs only share this module.                             *)
(***************************************************************************)
EXTENDS PaperTrading, MarketPermissions, Folds, FiniteSetTheorems, WellFoundedInduction, TLAPS

-----------------------------------------------------------------------------
(* The books.                                                              *)

\* Every order that was proposed belongs to an account, and one that never
\* reached the books has not traded.
OrdersFit ==
  \A o \in Order :
    /\ order[o].status # "none" =>
         order[o].generation \in Generation /\ account[order[o].generation].status # "none"
    /\ order[o].status \in {"none", "awaiting_confirmation"} =>
         order[o].filled = 0 /\ order[o].gross = 0

\* Generations follow one another: only after an archived one comes another.
AccountsInOrder ==
  \A g, h \in Generation :
    g < h /\ account[g].status # "archived" => account[h].status = "none"

\* What is set aside is in a lot of the order's generation, bought earlier.
LotsReserved ==
  \A o \in Order : \A i \in LotIndex : reserved[o][i] > 0 =>
    LET g == order[o].generation IN
    i \in DOMAIN lots[g] /\ lots[g][i].day < Day

\* An order passes a snapshot once, and has filled what it took.
PassesFit ==
  /\ Len(books) <= MaxQuotes
  /\ \A o \in Order :
       /\ \A p \in DOMAIN passes[o] :
            LET s == passes[o][p].snapshot IN
            s \in DOMAIN books /\ passes[o][p].quantity <= books[s].depth
       /\ \A p, q \in DOMAIN passes[o] :
            passes[o][p].snapshot = passes[o][q].snapshot => p = q
       /\ order[o].filled = SumFunction([p \in DOMAIN passes[o] |-> passes[o][p].quantity])

BooksInvariant ==
  /\ BooksBalance
  /\ OrdersFit
  /\ AccountsInOrder
  /\ LotsReserved
  /\ PassesFit

-----------------------------------------------------------------------------
(* Sums over finite sets.                                                  *)

\* Induction over the subsets of a finite set.
LEMMA SetInduction ==
  ASSUME NEW S, IsFiniteSet(S), NEW P,
         {} \in P,
         \A T \in SUBSET S : T # {} /\ (\A x \in T : T \ {x} \in P) => T \in P
  PROVE  S \in P
<1> DEFINE B == {T \in SUBSET S : T \notin P}
<1>1. SUFFICES ASSUME B # {} PROVE FALSE
  OBVIOUS
<1>2. IsWellFoundedOn(StrictSubsetOrdering(S), SUBSET S)
  BY FS_StrictSubsetOrderingWellFounded, FS_FiniteSubsetsOfFinite
<1>3. B \subseteq SUBSET S
  OBVIOUS
<1>4. PICK T \in B : \A U \in B : ~(<<U, T>> \in StrictSubsetOrdering(S))
  <2> HIDE DEF B
  <2> QED BY <1>1, <1>2, <1>3, WFMin
<1>5. T # {} /\ T \in SUBSET S
  OBVIOUS
<1>6. ASSUME NEW x \in T PROVE T \ {x} \in P
  <2>1. T \ {x} \in SUBSET S /\ <<T \ {x}, T>> \in StrictSubsetOrdering(S)
    BY <1>5 DEF StrictSubsetOrdering
  <2> QED BY <2>1, <1>4
<1> QED BY <1>5, <1>6

\* The first element a sum takes, and the equation that defines it.
First(T) == CHOOSE x \in T : TRUE
IsSum(sum, f, S) ==
  sum = [T \in SUBSET S |-> IF T = {} THEN 0 ELSE f[First(T)] + sum[T \ {First(T)}]]

LEMMA FirstIsElement == \A T : T # {} => First(T) \in T
BY DEF First

\* Two functions that satisfy the equation agree where both are defined.
LEMMA SumsAgree ==
  ASSUME NEW f, NEW S, NEW T, NEW g, NEW h, IsSum(g, f, S), IsSum(h, f, T),
         NEW U, U \subseteq S, U \subseteq T, IsFiniteSet(U)
  PROVE  g[U] = h[U]
<1> DEFINE P == {V \in SUBSET U : g[V] = h[V]}
<1>1. /\ \A V \in SUBSET U : g[V] = IF V = {} THEN 0 ELSE f[First(V)] + g[V \ {First(V)}]
      /\ \A V \in SUBSET U : h[V] = IF V = {} THEN 0 ELSE f[First(V)] + h[V \ {First(V)}]
  BY DEF IsSum
<1>2. {} \in P
  BY <1>1
<1>3. ASSUME NEW V \in SUBSET U, V # {}, \A x \in V : V \ {x} \in P PROVE V \in P
  BY <1>1, <1>3, FirstIsElement
<1>4. U \in P
  <2> HIDE DEF P
  <2> QED BY <1>2, <1>3, SetInduction
<1> QED BY <1>4

LEMMA SumExists ==
  ASSUME NEW f, NEW S, IsFiniteSet(S)
  PROVE  \E g : IsSum(g, f, S)
<1> DEFINE P == {T \in SUBSET S : \E g : IsSum(g, f, T)}
<1>1. {} \in P
  <2>1. IsSum([T \in SUBSET {} |-> 0], f, {})
    BY DEF IsSum
  <2> QED BY <2>1
<1>2. ASSUME NEW T \in SUBSET S, T # {}, \A x \in T : T \ {x} \in P PROVE T \in P
  <2> DEFINE G(x) == CHOOSE g : IsSum(g, f, T \ {x})
             h == [U \in SUBSET T |->
                    IF U = {} THEN 0
                    ELSE IF U = T THEN f[First(T)] + G(First(T))[T \ {First(T)}]
                    ELSE G(First(T \ U))[U]]
  <2>1. \A x \in T : IsSum(G(x), f, T \ {x})
    BY <1>2
  <2>2. \A U \in SUBSET T : IsFiniteSet(U)
    BY FS_Subset
  <2> HIDE DEF G
  <2>3. ASSUME NEW U \in SUBSET T, U # {}, U # T
        PROVE  h[U] = f[First(U)] + h[U \ {First(U)}]
    <3> DEFINE x == First(T \ U)
               V == U \ {First(U)}
    <3>1. x \in T /\ x \notin U /\ U \subseteq T \ {x}
      BY <2>3, FirstIsElement
    <3>2. First(U) \in U /\ V \subseteq T \ {x} /\ V # T /\ V \in SUBSET T
      BY <2>3, <3>1, FirstIsElement
    <3>3. h[U] = G(x)[U]
      BY <2>3
    <3>4. G(x)[U] = f[First(U)] + G(x)[V]
      BY <2>1, <2>3, <3>1 DEF IsSum
    <3>5. G(x)[V] = h[V]
      <4>1. CASE V = {}
        <5>1. G(x)[V] = 0
          BY <4>1, <2>1, <3>1 DEF IsSum
        <5>2. h[V] = 0
          BY <4>1
        <5> QED BY <5>1, <5>2
      <4>2. CASE V # {}
        <5> DEFINE y == First(T \ V)
        <5>1. y \in T /\ V \subseteq T \ {y}
          BY <3>2, FirstIsElement
        <5>2. h[V] = G(y)[V]
          BY <4>2, <3>2
        <5> HIDE DEF x, V, y, h
        <5>3. IsSum(G(x), f, T \ {x}) /\ IsSum(G(y), f, T \ {y})
          BY <2>1, <3>1, <5>1
        <5>4. V \subseteq T \ {x} /\ IsFiniteSet(V)
          BY <2>2, <3>2
        <5>5. G(x)[V] = G(y)[V]
          BY <5>1, <5>3, <5>4, SumsAgree
        <5> QED BY <5>2, <5>5
      <4> QED BY <4>1, <4>2
    <3> QED BY <3>3, <3>4, <3>5
  <2>4. h[T] = f[First(T)] + h[T \ {First(T)}]
    <3> DEFINE x == First(T)
               V == T \ {x}
    <3>1. x \in T /\ V \in SUBSET T /\ V # T
      BY <1>2, FirstIsElement
    <3>2. h[T] = f[x] + G(x)[V]
      BY <1>2
    <3>3. G(x)[V] = h[V]
      <4>1. CASE V = {}
        <5>1. G(x)[V] = 0
          BY <4>1, <2>1, <3>1 DEF IsSum
        <5>2. h[V] = 0
          BY <4>1
        <5> QED BY <5>1, <5>2
      <4>2. CASE V # {}
        <5> DEFINE y == First(T \ V)
        <5>1. y \in T /\ V \subseteq T \ {y}
          BY <3>1, FirstIsElement
        <5>2. h[V] = G(y)[V]
          BY <4>2, <3>1
        <5> HIDE DEF x, V, y, h
        <5>3. IsSum(G(x), f, T \ {x}) /\ IsSum(G(y), f, T \ {y})
          BY <2>1, <3>1, <5>1
        <5>4. V \subseteq T \ {x} /\ IsFiniteSet(V)
          BY <2>2, <3>1 DEF V
        <5>5. G(x)[V] = G(y)[V]
          BY <5>1, <5>3, <5>4, SumsAgree
        <5> QED BY <5>2, <5>5
      <4> QED BY <4>1, <4>2
    <3> QED BY <3>2, <3>3
  <2>5. h[{}] = 0
    OBVIOUS
  <2>6. h = [U \in SUBSET T |-> IF U = {} THEN 0 ELSE f[First(U)] + h[U \ {First(U)}]]
    <3>1. \A U \in SUBSET T : h[U] = IF U = {} THEN 0 ELSE f[First(U)] + h[U \ {First(U)}]
      <4> HIDE DEF h
      <4> QED BY <2>3, <2>4, <2>5
    <3>2. h = [U \in SUBSET T |-> h[U]]
      OBVIOUS
    <3> HIDE DEF h
    <3> QED BY <3>1, <3>2
  <2>7. IsSum(h, f, T)
    <3> HIDE DEF h
    <3> QED BY <2>6 DEF IsSum
  <2> QED BY <2>7
<1>3. S \in P
  <2> HIDE DEF P
  <2> QED BY <1>1, <1>2, SetInduction
<1> QED BY <1>3

\* The sum of the community modules is the value of such a function.
LEMMA SumIsSum ==
  ASSUME NEW f, NEW S, IsFiniteSet(S)
  PROVE  \E g : IsSum(g, f, S) /\ SumFunctionOnSet(f, S) = g[S]
<1> DEFINE g == CHOOSE sum : IsSum(sum, f, S)
<1>1. IsSum(g, f, S)
  BY SumExists
<1>2. SumFunctionOnSet(f, S) = g[S]
  BY DEF SumFunctionOnSet, FoldFunctionOnSet, MapThenFoldSet, IsSum, First
<1> QED BY <1>1, <1>2

LEMMA SumFirst ==
  ASSUME NEW f, NEW S, IsFiniteSet(S)
  PROVE  SumFunctionOnSet(f, S) =
           IF S = {} THEN 0 ELSE f[First(S)] + SumFunctionOnSet(f, S \ {First(S)})
<1>1. PICK g : IsSum(g, f, S) /\ SumFunctionOnSet(f, S) = g[S]
  BY SumIsSum
<1>2. CASE S = {}
  BY <1>1, <1>2 DEF IsSum
<1>3. CASE S # {}
  <2> DEFINE V == S \ {First(S)}
  <2>1. IsFiniteSet(V)
    BY FS_Subset
  <2>2. PICK h : IsSum(h, f, V) /\ SumFunctionOnSet(f, V) = h[V]
    BY <2>1, SumIsSum
  <2>3. g[V] = h[V]
    BY <1>1, <2>1, <2>2, SumsAgree
  <2>4. g[S] = f[First(S)] + g[V]
    BY <1>1, <1>3 DEF IsSum
  <2> QED BY <1>1, <1>3, <2>2, <2>3, <2>4
<1> QED BY <1>2, <1>3

LEMMA SumEmpty == \A f : SumFunctionOnSet(f, {}) = 0
BY SumFirst, FS_EmptySet


LEMMA SumInt ==
  ASSUME NEW S, IsFiniteSet(S), NEW f, \A x \in S : f[x] \in Int
  PROVE  SumFunctionOnSet(f, S) \in Int
<1> DEFINE Sum(T) == SumFunctionOnSet(f, T)
           P == {T \in SUBSET S : Sum(T) \in Int}
<1>0. \A T \in SUBSET S : IsFiniteSet(T)
  BY FS_Subset
<1>1. {} \in P
  BY SumEmpty
<1>2. ASSUME NEW T \in SUBSET S, T # {}, \A x \in T : T \ {x} \in P PROVE T \in P
  <2>1. First(T) \in T /\ Sum(T) = f[First(T)] + Sum(T \ {First(T)})
    BY <1>0, <1>2, FirstIsElement, SumFirst
  <2>2. Sum(T \ {First(T)}) \in Int
    BY <2>1, <1>2
  <2> QED BY <2>1, <2>2
<1>3. S \in P
  <2> HIDE DEF P
  <2> QED BY <1>1, <1>2, SetInduction
<1> QED BY <1>3

\* Any element may be the first.
LEMMA SumElement ==
  ASSUME NEW S, IsFiniteSet(S), NEW f, \A x \in S : f[x] \in Int
  PROVE  \A x \in S : SumFunctionOnSet(f, S) = f[x] + SumFunctionOnSet(f, S \ {x})
<1> DEFINE Sum(T) == SumFunctionOnSet(f, T)
           P == {T \in SUBSET S : \A x \in T : Sum(T) = f[x] + Sum(T \ {x})}
<1>0. \A T \in SUBSET S : IsFiniteSet(T) /\ Sum(T) \in Int
  BY FS_Subset, SumInt
<1>1. {} \in P
  OBVIOUS
<1>2. ASSUME NEW T \in SUBSET S, T # {}, \A x \in T : T \ {x} \in P PROVE T \in P
  <2> DEFINE c == First(T)
  <2>1. c \in T /\ Sum(T) = f[c] + Sum(T \ {c})
    BY <1>0, <1>2, FirstIsElement, SumFirst
  <2> HIDE DEF c, Sum
  <2>3. \A x \in T : \A y \in T \ {x} : Sum(T \ {x}) = f[y] + Sum((T \ {x}) \ {y})
    BY <1>2
  <2>4. ASSUME NEW x \in T PROVE Sum(T) = f[x] + Sum(T \ {x})
    <3>1. CASE x = c
      BY <3>1, <2>1
    <3>2. CASE x # c
      <4>1. Sum(T \ {c}) = f[x] + Sum((T \ {c}) \ {x})
        BY <2>1, <2>3, <3>2
      <4>2. Sum(T \ {x}) = f[c] + Sum((T \ {x}) \ {c})
        BY <2>1, <2>3, <3>2
      <4>3. (T \ {c}) \ {x} = (T \ {x}) \ {c}
        OBVIOUS
      <4>4. f[x] \in Int /\ f[c] \in Int /\ Sum((T \ {c}) \ {x}) \in Int
        BY <1>0, <2>1
      <4>5. Sum((T \ {c}) \ {x}) = Sum((T \ {x}) \ {c})
        BY <4>3
      <4> QED BY <2>1, <4>1, <4>2, <4>4, <4>5
    <3> QED BY <3>1, <3>2
  <2> QED BY <2>4
<1>3. S \in P
  <2> HIDE DEF P
  <2> QED BY <1>1, <1>2, SetInduction
<1> QED BY <1>3

LEMMA SumSingle ==
  ASSUME NEW f, NEW x, f[x] \in Int
  PROVE  SumFunctionOnSet(f, {x}) = f[x]
<1>1. IsFiniteSet({x}) /\ \A y \in {x} : f[y] \in Int
  BY FS_Singleton
<1>2. SumFunctionOnSet(f, {x}) = f[x] + SumFunctionOnSet(f, {x} \ {x})
  BY <1>1, SumElement
<1>3. {x} \ {x} = {}
  OBVIOUS
<1>4. SumFunctionOnSet(f, {x} \ {x}) = 0
  BY <1>3, SumEmpty
<1> QED BY <1>2, <1>4

LEMMA SumNat ==
  ASSUME NEW S, IsFiniteSet(S), NEW f, \A x \in S : f[x] \in Nat
  PROVE  SumFunctionOnSet(f, S) \in Nat
<1> DEFINE Sum(T) == SumFunctionOnSet(f, T)
           P == {T \in SUBSET S : Sum(T) \in Nat}
<1>1. {} \in P
  BY SumEmpty
<1>2. ASSUME NEW T \in SUBSET S, T # {}, \A x \in T : T \ {x} \in P PROVE T \in P
  <2>1. First(T) \in T /\ Sum(T) = f[First(T)] + Sum(T \ {First(T)})
    BY <1>2, FS_Subset, FirstIsElement, SumFirst
  <2>2. Sum(T \ {First(T)}) \in Nat
    BY <2>1, <1>2
  <2> QED BY <2>1, <2>2
<1>3. S \in P
  <2> HIDE DEF P
  <2> QED BY <1>1, <1>2, SetInduction
<1> QED BY <1>3

\* A sum of naturals is at least every term.
LEMMA SumMember ==
  ASSUME NEW S, IsFiniteSet(S), NEW f, \A x \in S : f[x] \in Nat, NEW x \in S
  PROVE  f[x] <= SumFunctionOnSet(f, S)
<1>1. SumFunctionOnSet(f, S) = f[x] + SumFunctionOnSet(f, S \ {x})
  BY SumElement
<1>2. SumFunctionOnSet(f, S \ {x}) \in Nat
  BY FS_Subset, SumNat
<1> QED BY <1>1, <1>2

\* Only the terms matter.
LEMMA SumSame ==
  ASSUME NEW S, IsFiniteSet(S), NEW f, NEW h, \A x \in S : f[x] = h[x]
  PROVE  SumFunctionOnSet(f, S) = SumFunctionOnSet(h, S)
<1> DEFINE P == {T \in SUBSET S : SumFunctionOnSet(f, T) = SumFunctionOnSet(h, T)}
<1>1. {} \in P
  BY SumEmpty
<1>2. ASSUME NEW T \in SUBSET S, T # {}, \A x \in T : T \ {x} \in P PROVE T \in P
  <2>1. /\ First(T) \in T
        /\ SumFunctionOnSet(f, T) = f[First(T)] + SumFunctionOnSet(f, T \ {First(T)})
        /\ SumFunctionOnSet(h, T) = h[First(T)] + SumFunctionOnSet(h, T \ {First(T)})
    BY <1>2, FS_Subset, FirstIsElement, SumFirst
  <2>2. SumFunctionOnSet(f, T \ {First(T)}) = SumFunctionOnSet(h, T \ {First(T)})
    BY <2>1, <1>2
  <2> QED BY <2>1, <2>2
<1>3. S \in P
  <2> HIDE DEF P
  <2> QED BY <1>1, <1>2, SetInduction
<1> QED BY <1>3

LEMMA SumZero ==
  ASSUME NEW S, IsFiniteSet(S), NEW f, \A x \in S : f[x] = 0
  PROVE  SumFunctionOnSet(f, S) = 0
<1> DEFINE P == {T \in SUBSET S : SumFunctionOnSet(f, T) = 0}
<1>1. {} \in P
  BY SumEmpty
<1>2. ASSUME NEW T \in SUBSET S, T # {}, \A x \in T : T \ {x} \in P PROVE T \in P
  <2>1. First(T) \in T /\ SumFunctionOnSet(f, T) = f[First(T)] + SumFunctionOnSet(f, T \ {First(T)})
    BY <1>2, FS_Subset, FirstIsElement, SumFirst
  <2>2. SumFunctionOnSet(f, T \ {First(T)}) = 0 /\ f[First(T)] = 0
    BY <2>1, <1>2
  <2> QED BY <2>1, <2>2
<1>3. S \in P
  <2> HIDE DEF P
  <2> QED BY <1>1, <1>2, SetInduction
<1> QED BY <1>3

\* One element comes, goes, or changes its term.
LEMMA SumChange ==
  ASSUME NEW S, NEW T, IsFiniteSet(S), IsFiniteSet(T), NEW f, NEW h, NEW x,
         \A y \in S : f[y] \in Int, \A y \in T : h[y] \in Int,
         S \ {x} = T \ {x}, \A y \in S \ {x} : f[y] = h[y]
  PROVE  SumFunctionOnSet(h, T) = SumFunctionOnSet(f, S)
           + (IF x \in T THEN h[x] ELSE 0) - (IF x \in S THEN f[x] ELSE 0)
<1> DEFINE U == S \ {x}
<1>1. IsFiniteSet(U) /\ SumFunctionOnSet(f, U) = SumFunctionOnSet(h, U)
  BY FS_Subset, SumSame
<1>2. SumFunctionOnSet(f, U) \in Int
  BY <1>1, SumInt
<1>3. SumFunctionOnSet(f, S) = SumFunctionOnSet(f, U) + (IF x \in S THEN f[x] ELSE 0)
  <2>1. CASE x \in S
    BY <2>1, <1>2, SumElement
  <2>2. CASE x \notin S
    <3>1. SumFunctionOnSet(f, S) = SumFunctionOnSet(f, U)
      <4>1. U = S
        BY <2>2
      <4> QED BY <4>1
    <3> QED BY <3>1, <2>2, <1>2
  <2> QED BY <2>1, <2>2
<1>4. SumFunctionOnSet(h, T) = SumFunctionOnSet(h, U) + (IF x \in T THEN h[x] ELSE 0)
  <2>0. U = T \ {x}
    OBVIOUS
  <2>1. CASE x \in T
    BY <2>0, <2>1, <1>1, <1>2, SumElement
  <2>2. CASE x \notin T
    <3>1. SumFunctionOnSet(h, T) = SumFunctionOnSet(h, U)
      <4>1. U = T
        BY <2>0, <2>2
      <4> QED BY <4>1
    <3> QED BY <3>1, <2>2, <1>1, <1>2
  <2> QED BY <2>1, <2>2
<1>5. /\ x \in S => f[x] \in Int
      /\ x \in T => h[x] \in Int
  OBVIOUS
<1> HIDE DEF U
<1> QED BY <1>1, <1>2, <1>3, <1>4, <1>5

\* One element changes its term.
LEMMA SumOne ==
  ASSUME NEW S, IsFiniteSet(S), NEW f, NEW h, NEW x,
         \A y \in S : f[y] \in Int, \A y \in S : h[y] \in Int,
         \A y \in S \ {x} : f[y] = h[y]
  PROVE  SumFunctionOnSet(h, S) =
           SumFunctionOnSet(f, S) + (IF x \in S THEN h[x] - f[x] ELSE 0)
<1>1. SumFunctionOnSet(f, S) \in Int
  BY SumInt
<1>2. SumFunctionOnSet(h, S) = SumFunctionOnSet(f, S)
         + (IF x \in S THEN h[x] ELSE 0) - (IF x \in S THEN f[x] ELSE 0)
  <2> DEFINE T == S
  <2>1. IsFiniteSet(T) /\ S \ {x} = T \ {x} /\ \A y \in T : h[y] \in Int
    OBVIOUS
  <2> HIDE DEF T
  <2>2. SumFunctionOnSet(h, T) = SumFunctionOnSet(f, S)
          + (IF x \in T THEN h[x] ELSE 0) - (IF x \in S THEN f[x] ELSE 0)
    BY <2>1, SumChange
  <2> QED BY <2>2 DEF T
<1> QED BY <1>1, <1>2

\* A sum is the sum over a part and over the rest.
LEMMA SumSplit ==
  ASSUME NEW S, IsFiniteSet(S), NEW f, \A x \in S : f[x] \in Int, NEW B \in SUBSET S
  PROVE  SumFunctionOnSet(f, S) = SumFunctionOnSet(f, B) + SumFunctionOnSet(f, S \ B)
<1> DEFINE Sum(T) == SumFunctionOnSet(f, T)
           P == {T \in SUBSET S : Sum(T) = Sum(T \cap B) + Sum(T \ B)}
<1>0. \A T \in SUBSET S : Sum(T) \in Int /\ \A x \in T : Sum(T) = f[x] + Sum(T \ {x})
  BY FS_Subset, SumInt, SumElement
<1>1. {} \in P
  BY SumEmpty
<1>2. ASSUME NEW T \in SUBSET S, T # {}, \A x \in T : T \ {x} \in P PROVE T \in P
  <2> HIDE DEF Sum
  <2>1. PICK x \in T : TRUE
    BY <1>2
  <2>2. Sum(T \ {x}) = Sum((T \ {x}) \cap B) + Sum((T \ {x}) \ B)
    BY <1>2
  <2>3. Sum(T) = f[x] + Sum(T \ {x})
    BY <1>0
  <2>4. CASE x \in B
    <3>1. (T \ {x}) \cap B = (T \cap B) \ {x} /\ (T \ {x}) \ B = T \ B
      BY <2>4
    <3>2. Sum(T \cap B) = f[x] + Sum((T \cap B) \ {x})
      BY <1>0, <2>4
    <3>3. f[x] \in Int /\ Sum((T \cap B) \ {x}) \in Int /\ Sum(T \ B) \in Int
      BY <1>0
    <3>4. Sum((T \ {x}) \cap B) = Sum((T \cap B) \ {x}) /\ Sum((T \ {x}) \ B) = Sum(T \ B)
      BY <3>1
    <3> QED BY <2>2, <2>3, <3>2, <3>3, <3>4
  <2>5. CASE x \notin B
    <3>1. (T \ {x}) \ B = (T \ B) \ {x} /\ (T \ {x}) \cap B = T \cap B
      BY <2>5
    <3>2. Sum(T \ B) = f[x] + Sum((T \ B) \ {x})
      BY <1>0, <2>5
    <3>3. f[x] \in Int /\ Sum((T \ B) \ {x}) \in Int /\ Sum(T \cap B) \in Int
      BY <1>0
    <3>4. Sum((T \ {x}) \ B) = Sum((T \ B) \ {x}) /\ Sum((T \ {x}) \cap B) = Sum(T \cap B)
      BY <3>1
    <3> QED BY <2>2, <2>3, <3>2, <3>3, <3>4
  <2> QED BY <2>4, <2>5
<1>3. S \in P
  <2> HIDE DEF P
  <2> QED BY <1>1, <1>2, SetInduction
<1>4. S \cap B = B
  OBVIOUS
<1> QED BY <1>3, <1>4

\* A part of a sum of naturals is no more than the whole.
LEMMA SumPart ==
  ASSUME NEW S, IsFiniteSet(S), NEW f, \A x \in S : f[x] \in Nat, NEW B \in SUBSET S
  PROVE  SumFunctionOnSet(f, B) <= SumFunctionOnSet(f, S)
<1>1. IsFiniteSet(B) /\ IsFiniteSet(S \ B)
  BY FS_Subset
<1>2. SumFunctionOnSet(f, B) \in Nat /\ SumFunctionOnSet(f, S \ B) \in Nat
  BY <1>1, SumNat
<1> QED BY <1>2, SumSplit

\* Differences add up to the difference.
LEMMA SumDifference ==
  ASSUME NEW S, IsFiniteSet(S), NEW f, NEW h, NEW d,
         \A x \in S : f[x] \in Int /\ h[x] \in Int /\ d[x] = f[x] - h[x]
  PROVE  SumFunctionOnSet(d, S) = SumFunctionOnSet(f, S) - SumFunctionOnSet(h, S)
<1> DEFINE P == {T \in SUBSET S :
                  SumFunctionOnSet(d, T) = SumFunctionOnSet(f, T) - SumFunctionOnSet(h, T)}
<1>1. {} \in P
  BY SumEmpty
<1>2. ASSUME NEW T \in SUBSET S, T # {}, \A x \in T : T \ {x} \in P PROVE T \in P
  <2> DEFINE x == First(T)
             U == T \ {x}
  <2>1. /\ x \in T
        /\ SumFunctionOnSet(f, T) = f[x] + SumFunctionOnSet(f, U)
        /\ SumFunctionOnSet(h, T) = h[x] + SumFunctionOnSet(h, U)
        /\ SumFunctionOnSet(d, T) = d[x] + SumFunctionOnSet(d, U)
    BY <1>2, FS_Subset, FirstIsElement, SumFirst
  <2>2. SumFunctionOnSet(d, U) = SumFunctionOnSet(f, U) - SumFunctionOnSet(h, U)
    BY <2>1, <1>2
  <2>3. IsFiniteSet(U) /\ U \subseteq S
    BY FS_Subset
  <2>4. SumFunctionOnSet(f, U) \in Int /\ SumFunctionOnSet(h, U) \in Int
    BY <2>3, SumInt
  <2>5. f[x] \in Int /\ h[x] \in Int /\ d[x] = f[x] - h[x]
    BY <2>1
  <2> HIDE DEF x, U
  <2> QED BY <2>1, <2>2, <2>4, <2>5
<1>3. S \in P
  <2> HIDE DEF P
  <2> QED BY <1>1, <1>2, SetInduction
<1> QED BY <1>3

\* The terms of a part are given up.
LEMMA SumReleased ==
  ASSUME NEW S, IsFiniteSet(S), NEW f, NEW h, NEW T \in SUBSET S,
         \A x \in S : f[x] \in Int,
         \A x \in T : h[x] = 0,
         \A x \in S \ T : h[x] = f[x]
  PROVE  SumFunctionOnSet(h, S) = SumFunctionOnSet(f, S) - SumFunctionOnSet(f, T)
<1> DEFINE U == S \ T
<1>1. IsFiniteSet(T) /\ IsFiniteSet(U)
  BY FS_Subset
<1>2. /\ \A x \in T : h[x] = 0 /\ f[x] \in Int
      /\ \A x \in U : h[x] = f[x] /\ f[x] \in Int
      /\ \A x \in S : h[x] \in Int
  OBVIOUS
<1>3. /\ SumFunctionOnSet(f, S) = SumFunctionOnSet(f, T) + SumFunctionOnSet(f, U)
      /\ SumFunctionOnSet(h, S) = SumFunctionOnSet(h, T) + SumFunctionOnSet(h, U)
  BY <1>2, SumSplit
<1> HIDE DEF U
<1>4. SumFunctionOnSet(h, T) = 0 /\ SumFunctionOnSet(h, U) = SumFunctionOnSet(f, U)
  BY <1>1, <1>2, SumZero, SumSame
<1>5. SumFunctionOnSet(f, T) \in Int /\ SumFunctionOnSet(f, U) \in Int
  BY <1>1, <1>2, SumInt
<1> QED BY <1>3, <1>4, <1>5

\* Terms that are zero may come and go.
LEMMA SumAlike ==
  ASSUME NEW S, NEW T, IsFiniteSet(S), IsFiniteSet(T), NEW f,
         \A x \in S \cup T : f[x] \in Int,
         \A x \in (S \ T) \cup (T \ S) : f[x] = 0
  PROVE  SumFunctionOnSet(f, T) = SumFunctionOnSet(f, S)
<1> DEFINE U == S \cap T
<1>1. IsFiniteSet(U) /\ IsFiniteSet(S \ U) /\ IsFiniteSet(T \ U)
  BY FS_Subset
<1>2. /\ SumFunctionOnSet(f, S) = SumFunctionOnSet(f, U) + SumFunctionOnSet(f, S \ U)
      /\ SumFunctionOnSet(f, T) = SumFunctionOnSet(f, U) + SumFunctionOnSet(f, T \ U)
  BY SumSplit
<1>3. SumFunctionOnSet(f, S \ U) = 0 /\ SumFunctionOnSet(f, T \ U) = 0
  BY <1>1, SumZero
<1>4. SumFunctionOnSet(f, U) \in Int
  BY <1>1, SumInt
<1> QED BY <1>2, <1>3, <1>4

-----------------------------------------------------------------------------
(* Numbers.                                                                *)

LEMMA NatInductionOnSet ==
  ASSUME NEW P, 0 \in P, \A k \in Nat : k \in P => k + 1 \in P
  PROVE  Nat \subseteq P
<1> SUFFICES ASSUME NEW n \in Nat PROVE n \in P
  OBVIOUS
<1> DEFINE Q == {T \in SUBSET (1..n) : Cardinality(T) \in P}
<1>1. IsFiniteSet(1..n) /\ Cardinality(1..n) = n
  BY FS_Interval
<1>2. {} \in Q
  BY FS_EmptySet
<1>3. ASSUME NEW T \in SUBSET (1..n), T # {}, \A x \in T : T \ {x} \in Q PROVE T \in Q
  <2>1. PICK x \in T : Cardinality(T \ {x}) \in P
    BY <1>3
  <2>2. IsFiniteSet(T) /\ IsFiniteSet(T \ {x})
    BY <1>1, FS_Subset
  <2>3. Cardinality(T \ {x}) \in Nat /\ Cardinality(T) \in Nat
    BY <2>2, FS_CardinalityType
  <2>4. Cardinality(T \ {x}) = Cardinality(T) - 1
    BY <2>2, FS_RemoveElement
  <2>5. Cardinality(T) = Cardinality(T \ {x}) + 1
    BY <2>3, <2>4
  <2> QED BY <2>1, <2>3, <2>5
<1>4. 1..n \in Q
  <2> HIDE DEF Q
  <2> QED BY <1>1, <1>2, <1>3, SetInduction
<1> QED BY <1>1, <1>4

LEMMA MaxOfTwo == \A a, b \in Int : Max({a, b}) = IF a >= b THEN a ELSE b
<1> TAKE a, b \in Int
<1> DEFINE m == IF a >= b THEN a ELSE b
<1>1. m \in {a, b} /\ \A y \in {a, b} : m >= y
  OBVIOUS
<1>2. \A x \in {a, b} : (\A y \in {a, b} : x >= y) => x = m
  OBVIOUS
<1> QED BY <1>1, <1>2 DEF Max

LEMMA MinOfTwo == \A a, b \in Int : Min({a, b}) = IF a <= b THEN a ELSE b
<1> TAKE a, b \in Int
<1> DEFINE m == IF a <= b THEN a ELSE b
<1>1. m \in {a, b} /\ \A y \in {a, b} : m <= y
  OBVIOUS
<1>2. \A x \in {a, b} : (\A y \in {a, b} : x <= y) => x = m
  OBVIOUS
<1> QED BY <1>1, <1>2 DEF Min

\* Fees are never negative and grow with what was traded.
LEMMA FeeGrows ==
  /\ \A a \in Nat : Fee(a) \in Nat
  /\ \A a, b \in Nat : a <= b => Fee(a) <= Fee(b)
<1>1. MinimumFee \in Nat /\ GrossPerFee \in Nat \ {0}
  BY PaperAssumption
<1>2. \A a \in Nat : a \div GrossPerFee \in Nat
  BY <1>1
<1>3. \A a, b \in Nat : a <= b => a \div GrossPerFee <= b \div GrossPerFee
  BY <1>1
<1>4. \A a \in Nat : Fee(a) = IF a = 0 THEN 0
                     ELSE IF MinimumFee >= a \div GrossPerFee THEN MinimumFee
                     ELSE a \div GrossPerFee
  BY <1>1, <1>2, MaxOfTwo DEF Fee
<1> QED BY <1>1, <1>2, <1>3, <1>4

LEMMA WorstCostIsNat ==
  ASSUME NEW draft, draft.limit \in Nat, draft.quantity \in Nat,
         NEW filled \in Nat, filled <= draft.quantity, NEW gross \in Nat
  PROVE  /\ WorstCost(draft, filled, gross) \in Nat
         /\ filled = draft.quantity => WorstCost(draft, filled, gross) = 0
<1> DEFINE rest == draft.limit * (draft.quantity - filled)
<1>1. rest \in Nat /\ (filled = draft.quantity => rest = 0)
  <2>1. draft.quantity - filled \in Nat
    OBVIOUS
  <2>2. \A a, b \in Nat : a * b \in Nat /\ a * 0 = 0
    OBVIOUS
  <2> QED BY <2>1, <2>2
<1>2. WorstCost(draft, filled, gross) = rest + Fee(gross + rest) - Fee(gross)
  BY DEF WorstCost
<1> HIDE DEF rest
<1>3. /\ gross + rest \in Nat /\ gross <= gross + rest
      /\ Fee(gross) \in Nat /\ Fee(gross + rest) \in Nat
      /\ Fee(gross) <= Fee(gross + rest)
  BY <1>1, FeeGrows
<1>4. rest = 0 => Fee(gross + rest) = Fee(gross)
  <2>1. rest = 0 => gross + rest = gross
    OBVIOUS
  <2> QED BY <2>1
<1> QED BY <1>1, <1>2, <1>3, <1>4

\* What is taken in turn is there, and is all that is asked for.
LEMMA Taken ==
  ASSUME NEW free \in [LotIndex -> Nat], NEW n \in Nat
  PROVE  /\ TakeInTurn(free, n) \in [LotIndex -> Nat]
         /\ \A i \in LotIndex : TakeInTurn(free, n)[i] <= free[i]
         /\ n <= SumFunction(free) => SumFunction(TakeInTurn(free, n)) = n
<1> DEFINE older(i) == SumFunctionOnSet(free, 1..(i - 1))
           least(i) == IF free[i] <= n - older(i) THEN free[i] ELSE n - older(i)
           take(i) == IF 0 >= least(i) THEN 0 ELSE least(i)
           taken == TakeInTurn(free, n)
<1>1. MaxLots \in Nat /\ LotIndex = 1..MaxLots
  BY PaperAssumption DEF LotIndex
<1>2. \A k \in 0..MaxLots : IsFiniteSet(1..k) /\ 1..k \subseteq LotIndex
  BY <1>1, FS_Interval
<1>3. \A k \in 0..MaxLots : SumFunctionOnSet(free, 1..k) \in Nat
  BY <1>2, SumNat
<1>4. \A i \in LotIndex : older(i) \in Nat /\ free[i] \in Nat /\ least(i) \in Int
  BY <1>1, <1>3
<1>5. taken = [i \in LotIndex |-> take(i)]
  <2>1. taken = [i \in LotIndex |-> Max({0, Min({free[i], n - older(i)})})]
    BY DEF TakeInTurn
  <2>2. \A i \in LotIndex : Max({0, Min({free[i], n - older(i)})}) = take(i)
    <3> SUFFICES ASSUME NEW i \in LotIndex
                 PROVE  Max({0, Min({free[i], n - older(i)})}) = take(i)
      OBVIOUS
    <3>1. n - older(i) \in Int /\ free[i] \in Int /\ 0 \in Int
      BY <1>4
    <3>2. Min({free[i], n - older(i)}) = least(i)
      BY <3>1, MinOfTwo
    <3>3. Max({0, least(i)}) = take(i)
      <4> HIDE DEF least
      <4> QED BY <1>4, <3>1, MaxOfTwo
    <3> QED BY <3>2, <3>3
  <2> QED BY <2>1, <2>2
<1>6. \A i \in LotIndex : taken[i] \in Nat /\ taken[i] <= free[i]
  <2> HIDE DEF older
  <2> QED BY <1>4, <1>5
<1>7. n <= SumFunction(free) => SumFunction(taken) = n
  <2> DEFINE S(k) == SumFunctionOnSet(free, 1..k)
             T(k) == SumFunctionOnSet(taken, 1..k)
             P == {k \in Nat : k <= MaxLots => T(k) = IF n <= S(k) THEN n ELSE S(k)}
  <2>1. 0 \in P
    <3>1. 1..0 = {}
      OBVIOUS
    <3>2. S(0) = 0 /\ T(0) = 0
      BY <3>1, SumEmpty
    <3> QED BY <3>2
  <2>2. ASSUME NEW k \in Nat, k \in P PROVE k + 1 \in P
    <3> SUFFICES ASSUME k + 1 <= MaxLots
                 PROVE  T(k + 1) = IF n <= S(k + 1) THEN n ELSE S(k + 1)
      OBVIOUS
    <3>1. /\ 1..(k + 1) \subseteq LotIndex /\ IsFiniteSet(1..(k + 1))
          /\ k + 1 \in 1..(k + 1) /\ (1..(k + 1)) \ {k + 1} = 1..k
      BY <1>1, <1>2
    <3>2. S(k + 1) = free[k + 1] + S(k)
      BY <3>1, SumElement
    <3>3. T(k + 1) = taken[k + 1] + T(k)
      <4>1. \A x \in 1..(k + 1) : taken[x] \in Int
        <5> HIDE DEF taken
        <5> QED BY <1>6, <3>1
      <4> HIDE DEF taken
      <4> DEFINE U == 1..(k + 1)
      <4>2. IsFiniteSet(U) /\ (\A x \in U : taken[x] \in Int) /\ k + 1 \in U
        BY <3>1, <4>1
      <4>3. U \ {k + 1} = 1..k
        BY <3>1
      <4> HIDE DEF U
      <4>4. SumFunctionOnSet(taken, U) = taken[k + 1] + SumFunctionOnSet(taken, U \ {k + 1})
        BY <4>2, SumElement
      <4> QED BY <4>3, <4>4 DEF U
    <3>4. older(k + 1) = S(k)
      OBVIOUS
    <3>5. T(k) = IF n <= S(k) THEN n ELSE S(k)
      <4>1. k <= MaxLots
        BY <1>1
      <4> HIDE DEF T, S
      <4> QED BY <2>2, <4>1
    <3>6. S(k) \in Nat /\ free[k + 1] \in Nat
      BY <1>1, <1>3, <3>1
    <3>7. taken[k + 1] = take(k + 1)
      <4> HIDE DEF taken, take
      <4> QED BY <1>5, <3>1
    <3> HIDE DEF S, T, older, taken
    <3> QED BY <3>2, <3>3, <3>4, <3>5, <3>6, <3>7
  <2>3. MaxLots \in P
    <3> HIDE DEF P
    <3> QED BY <1>1, <2>1, <2>2, NatInductionOnSet
  <2>4. DOMAIN free = 1..MaxLots /\ DOMAIN taken = 1..MaxLots
    BY <1>1, <1>5
  <2>5. S(MaxLots) \in Nat
    BY <1>1, <1>3
  <2> QED BY <1>1, <2>3, <2>4, <2>5 DEF SumFunction
<1> QED BY <1>5, <1>6, <1>7

-----------------------------------------------------------------------------
(* What the sums of the books do when orders change.                       *)

LEMMA LotsAreFinite == IsFiniteSet(LotIndex)
<1>1. MaxLots \in Nat
  BY PaperAssumption
<1> QED BY <1>1, FS_Interval DEF LotIndex

LEMMA OrdersAreFinite ==
  /\ IsFiniteSet(Order) /\ \A S \in SUBSET Order : IsFiniteSet(S)
  /\ \A g : OrdersOf(g) \subseteq Order /\ BuysOf(g) \subseteq Order /\ SellsOf(g) \subseteq Order
BY PaperAssumption, FS_Subset DEF OrdersOf, BuysOf, SellsOf

LEMMA OrderTypes ==
  ASSUME PaperTypeOK, NEW o \in Order
  PROVE  /\ order[o].filled \in Nat /\ order[o].gross \in Nat /\ order[o].cash \in Nat
         /\ order[o].shares \in Nat /\ Fee(order[o].gross) \in Nat
         /\ order[o].draft.quantity \in Nat /\ order[o].draft.limit \in Nat
         /\ order[o].draft.side \in Side
         /\ reserved[o] \in [LotIndex -> Nat] /\ Held(o) \in Nat
         /\ \A i \in LotIndex : reserved[o][i] <= Held(o)
<1>1. /\ order[o].filled \in Nat /\ order[o].gross \in Nat /\ order[o].cash \in Nat
      /\ order[o].shares \in Nat /\ order[o].draft \in Draft \cup {NoDraft}
  BY DEF PaperTypeOK
<1>2. /\ order[o].draft.quantity \in Nat /\ order[o].draft.limit \in Nat
      /\ order[o].draft.side \in Side
  BY <1>1, PaperAssumption DEF NoDraft, Side
<1>3. reserved[o] \in [LotIndex -> Nat] /\ IsFiniteSet(LotIndex)
  BY PaperAssumption, FS_Interval DEF PaperTypeOK, LotIndex
<1>4. Held(o) = SumFunctionOnSet(reserved[o], LotIndex)
  BY <1>3 DEF Held, SumFunction
<1>5. Held(o) \in Nat /\ \A i \in LotIndex : reserved[o][i] <= Held(o)
  BY <1>3, <1>4, SumNat, SumMember
<1> QED BY <1>1, <1>2, <1>3, <1>5, FeeGrows

\* No order trades: the audit's totals stay.
LEMMA TradesKept ==
  ASSUME PaperTypeOK, PaperTypeOK', NEW g \in Generation,
         \A o \in Order :
           /\ order'[o].gross = order[o].gross /\ order'[o].filled = order[o].filled
           /\ \/ /\ o \in BuysOf(g)' <=> o \in BuysOf(g)
                 /\ o \in SellsOf(g)' <=> o \in SellsOf(g)
              \/ order[o].gross = 0 /\ order[o].filled = 0
  PROVE  /\ Spent(g)' = Spent(g) /\ Earned(g)' = Earned(g)
         /\ Traded(BuysOf(g))' = Traded(BuysOf(g))
         /\ Traded(SellsOf(g))' = Traded(SellsOf(g))
<1> DEFINE B == BuysOf(g)
           S == SellsOf(g)
           spent == [o \in Order |-> order[o].gross + Fee(order[o].gross)]
           earned == [o \in Order |-> order[o].gross - Fee(order[o].gross)]
           filled == [o \in Order |-> order[o].filled]
<1>1. /\ \A T \in SUBSET Order : IsFiniteSet(T)
      /\ B \subseteq Order /\ B' \subseteq Order /\ S \subseteq Order /\ S' \subseteq Order
  BY OrdersAreFinite DEF OrdersOf, BuysOf, SellsOf
<1>2. \A o \in Order : order[o].gross \in Nat /\ order[o].filled \in Nat /\ Fee(order[o].gross) \in Nat
  BY OrderTypes
<1>3. /\ spent' = spent /\ earned' = earned /\ filled' = filled
  BY DEF Fee
<1>4. Fee(0) = 0
  BY DEF Fee
<1>5. \A o \in Order : /\ spent[o] \in Int /\ earned[o] \in Int /\ filled[o] \in Int
                       /\ \/ (o \in B' <=> o \in B) /\ (o \in S' <=> o \in S)
                          \/ spent[o] = 0 /\ earned[o] = 0 /\ filled[o] = 0
  BY <1>2, <1>4
<1> HIDE DEF B, S, spent, earned, filled
<1>6. /\ SumFunctionOnSet(spent', B') = SumFunctionOnSet(spent, B)
      /\ SumFunctionOnSet(filled', B') = SumFunctionOnSet(filled, B)
  <2>1. IsFiniteSet(B) /\ IsFiniteSet(B')
    BY <1>1
  <2>2. \A o \in B \cup B' : spent[o] \in Int /\ filled[o] \in Int
    BY <1>1, <1>5
  <2>3. \A o \in (B \ B') \cup (B' \ B) : spent[o] = 0 /\ filled[o] = 0
    BY <1>1, <1>5
  <2> QED BY <1>3, <2>1, <2>2, <2>3, SumAlike
<1>7. /\ SumFunctionOnSet(earned', S') = SumFunctionOnSet(earned, S)
      /\ SumFunctionOnSet(filled', S') = SumFunctionOnSet(filled, S)
  <2>1. IsFiniteSet(S) /\ IsFiniteSet(S')
    BY <1>1
  <2>2. \A o \in S \cup S' : earned[o] \in Int /\ filled[o] \in Int
    BY <1>1, <1>5
  <2>3. \A o \in (S \ S') \cup (S' \ S) : earned[o] = 0 /\ filled[o] = 0
    BY <1>1, <1>5
  <2> QED BY <1>3, <2>1, <2>2, <2>3, SumAlike
<1> QED BY <1>6, <1>7 DEF Spent, Earned, Traded, B, S, spent, earned, filled

\* One order trades: the totals of its side grow by what it has traded.
LEMMA OneOrderTrades ==
  ASSUME PaperTypeOK, PaperTypeOK', NEW g \in Generation, NEW o \in Order,
         \A p \in Order \ {o} : order'[p] = order[p],
         o \in BuysOf(g)' <=> o \in BuysOf(g),
         o \in SellsOf(g)' <=> o \in SellsOf(g)
  PROVE  /\ Spent(g)' = Spent(g) + (IF o \in BuysOf(g)
              THEN order'[o].gross + Fee(order'[o].gross) - (order[o].gross + Fee(order[o].gross))
              ELSE 0)
         /\ Earned(g)' = Earned(g) + (IF o \in SellsOf(g)
              THEN order'[o].gross - Fee(order'[o].gross) - (order[o].gross - Fee(order[o].gross))
              ELSE 0)
         /\ Traded(BuysOf(g))' = Traded(BuysOf(g)) +
              (IF o \in BuysOf(g) THEN order'[o].filled - order[o].filled ELSE 0)
         /\ Traded(SellsOf(g))' = Traded(SellsOf(g)) +
              (IF o \in SellsOf(g) THEN order'[o].filled - order[o].filled ELSE 0)
         /\ Spent(g) \in Int /\ Earned(g) \in Int
         /\ Traded(BuysOf(g)) \in Int /\ Traded(SellsOf(g)) \in Int
<1> DEFINE B == BuysOf(g)
           S == SellsOf(g)
           spent == [p \in Order |-> order[p].gross + Fee(order[p].gross)]
           earned == [p \in Order |-> order[p].gross - Fee(order[p].gross)]
           filled == [p \in Order |-> order[p].filled]
<1>1. IsFiniteSet(B) /\ IsFiniteSet(S) /\ B \subseteq Order /\ S \subseteq Order
  BY OrdersAreFinite
<1>2. B' = B /\ S' = S
  BY DEF OrdersOf, BuysOf, SellsOf
<1>3. \A p \in Order :
        /\ order[p].gross \in Nat /\ order[p].filled \in Nat /\ Fee(order[p].gross) \in Nat
        /\ order'[p].gross \in Nat /\ order'[p].filled \in Nat /\ Fee(order'[p].gross) \in Nat
  BY FeeGrows, OrderTypes DEF PaperTypeOK
<1>4. \A p \in Order :
        /\ spent[p] = order[p].gross + Fee(order[p].gross)
        /\ earned[p] = order[p].gross - Fee(order[p].gross)
        /\ filled[p] = order[p].filled
        /\ spent'[p] = order'[p].gross + Fee(order'[p].gross)
        /\ earned'[p] = order'[p].gross - Fee(order'[p].gross)
        /\ filled'[p] = order'[p].filled
  BY DEF Fee
<1>5. \A p \in Order : /\ spent[p] \in Int /\ earned[p] \in Int /\ filled[p] \in Int
                       /\ spent'[p] \in Int /\ earned'[p] \in Int /\ filled'[p] \in Int
  <2> HIDE DEF spent, earned, filled
  <2> QED BY <1>3, <1>4
<1>6. \A p \in Order \ {o} : spent'[p] = spent[p] /\ earned'[p] = earned[p] /\ filled'[p] = filled[p]
  <2> HIDE DEF spent, earned, filled
  <2> QED BY <1>4
<1> HIDE DEF spent, earned, filled, B, S
<1>7. /\ SumFunctionOnSet(spent', B) = SumFunctionOnSet(spent, B)
           + (IF o \in B THEN spent'[o] - spent[o] ELSE 0)
      /\ SumFunctionOnSet(filled', B) = SumFunctionOnSet(filled, B)
           + (IF o \in B THEN filled'[o] - filled[o] ELSE 0)
      /\ SumFunctionOnSet(spent, B) \in Int /\ SumFunctionOnSet(filled, B) \in Int
  <2>1. /\ \A p \in B : spent[p] \in Int
        /\ \A p \in B : spent'[p] \in Int
        /\ \A p \in B \ {o} : spent[p] = spent'[p]
    BY <1>1, <1>5, <1>6
  <2>2. /\ \A p \in B : filled[p] \in Int
        /\ \A p \in B : filled'[p] \in Int
        /\ \A p \in B \ {o} : filled[p] = filled'[p]
    BY <1>1, <1>5, <1>6
  <2>3. SumFunctionOnSet(spent', B) = SumFunctionOnSet(spent, B)
           + (IF o \in B THEN spent'[o] - spent[o] ELSE 0)
    BY <1>1, <2>1, SumOne
  <2>4. SumFunctionOnSet(filled', B) = SumFunctionOnSet(filled, B)
           + (IF o \in B THEN filled'[o] - filled[o] ELSE 0)
    BY <1>1, <2>2, SumOne
  <2>5. SumFunctionOnSet(spent, B) \in Int /\ SumFunctionOnSet(filled, B) \in Int
    BY <1>1, <2>1, <2>2, SumInt
  <2> QED BY <2>3, <2>4, <2>5
<1>8. /\ SumFunctionOnSet(earned', S) = SumFunctionOnSet(earned, S)
           + (IF o \in S THEN earned'[o] - earned[o] ELSE 0)
      /\ SumFunctionOnSet(filled', S) = SumFunctionOnSet(filled, S)
           + (IF o \in S THEN filled'[o] - filled[o] ELSE 0)
      /\ SumFunctionOnSet(earned, S) \in Int /\ SumFunctionOnSet(filled, S) \in Int
  <2>1. /\ \A p \in S : earned[p] \in Int
        /\ \A p \in S : earned'[p] \in Int
        /\ \A p \in S \ {o} : earned[p] = earned'[p]
    BY <1>1, <1>5, <1>6
  <2>2. /\ \A p \in S : filled[p] \in Int
        /\ \A p \in S : filled'[p] \in Int
        /\ \A p \in S \ {o} : filled[p] = filled'[p]
    BY <1>1, <1>5, <1>6
  <2>3. SumFunctionOnSet(earned', S) = SumFunctionOnSet(earned, S)
           + (IF o \in S THEN earned'[o] - earned[o] ELSE 0)
    BY <1>1, <2>1, SumOne
  <2>4. SumFunctionOnSet(filled', S) = SumFunctionOnSet(filled, S)
           + (IF o \in S THEN filled'[o] - filled[o] ELSE 0)
    BY <1>1, <2>2, SumOne
  <2>5. SumFunctionOnSet(earned, S) \in Int /\ SumFunctionOnSet(filled, S) \in Int
    BY <1>1, <2>1, <2>2, SumInt
  <2> QED BY <2>3, <2>4, <2>5
<1>9. /\ Spent(g) = SumFunctionOnSet(spent, B) /\ Spent(g)' = SumFunctionOnSet(spent', B)
      /\ Earned(g) = SumFunctionOnSet(earned, S) /\ Earned(g)' = SumFunctionOnSet(earned', S)
      /\ Traded(BuysOf(g)) = SumFunctionOnSet(filled, B)
      /\ Traded(BuysOf(g))' = SumFunctionOnSet(filled', B)
      /\ Traded(SellsOf(g)) = SumFunctionOnSet(filled, S)
      /\ Traded(SellsOf(g))' = SumFunctionOnSet(filled', S)
  BY <1>2 DEF Spent, Earned, Traded, spent, earned, filled, B, S
<1>10. /\ o \in BuysOf(g) <=> o \in B
       /\ o \in SellsOf(g) <=> o \in S
  BY DEF B, S
<1>11. /\ spent[o] \in Int /\ earned[o] \in Int /\ filled[o] \in Int
       /\ spent'[o] \in Int /\ earned'[o] \in Int /\ filled'[o] \in Int
  BY <1>5
<1>12. /\ order[o].gross \in Int /\ order[o].filled \in Int /\ Fee(order[o].gross) \in Int
       /\ order'[o].gross \in Int /\ order'[o].filled \in Int /\ Fee(order'[o].gross) \in Int
  BY <1>3
<1> QED BY <1>4, <1>7, <1>8, <1>9, <1>10, <1>11, <1>12

\* What the sells of a generation hold in a lot, when one order changes.
LEMMA OneOrderReserves ==
  ASSUME PaperTypeOK, PaperTypeOK', NEW g \in Generation, NEW i \in LotIndex, NEW o \in Order,
         \A p \in Order \ {o} : order'[p] = order[p] /\ reserved'[p] = reserved[p]
  PROVE  /\ ReservedIn(i, SellsOf(g))' = ReservedIn(i, SellsOf(g))
              + (IF o \in SellsOf(g)' THEN reserved'[o][i] ELSE 0)
              - (IF o \in SellsOf(g) THEN reserved[o][i] ELSE 0)
         /\ ReservedIn(i, SellsOf(g)) \in Nat
<1> DEFINE S == SellsOf(g)
           r == [p \in Order |-> reserved[p][i]]
<1>1. IsFiniteSet(S) /\ IsFiniteSet(S') /\ S \subseteq Order /\ S' \subseteq Order
  BY OrdersAreFinite DEF SellsOf, OrdersOf
<1>2. S \ {o} = S' \ {o}
  BY DEF OrdersOf, BuysOf, SellsOf
<1>3. \A p \in Order : r[p] = reserved[p][i] /\ r'[p] = reserved'[p][i]
  OBVIOUS
<1>4. \A p \in Order : r[p] \in Nat /\ r'[p] \in Nat
  BY <1>3 DEF PaperTypeOK
<1> HIDE DEF S, r
<1>5. SumFunctionOnSet(r', S') = SumFunctionOnSet(r, S)
        + (IF o \in S' THEN r'[o] ELSE 0) - (IF o \in S THEN r[o] ELSE 0)
  <2>1. /\ \A p \in S : r[p] \in Int
        /\ \A p \in S' : r'[p] \in Int
        /\ \A p \in S \ {o} : r[p] = r'[p]
    BY <1>1, <1>3, <1>4
  <2> QED BY <1>1, <1>2, <2>1, SumChange
<1>6. SumFunctionOnSet(r, S) \in Nat
  BY <1>1, <1>4, SumNat
<1> QED BY <1>3, <1>5, <1>6 DEF ReservedIn, S, r

LEMMA ReservedKept ==
  ASSUME PaperTypeOK, NEW g \in Generation, NEW i \in LotIndex, reserved' = reserved,
         \A o \in Order : (o \in SellsOf(g)' <=> o \in SellsOf(g)) \/ reserved[o][i] = 0
  PROVE  ReservedIn(i, SellsOf(g))' = ReservedIn(i, SellsOf(g))
<1> DEFINE S == SellsOf(g)
           r == [p \in Order |-> reserved[p][i]]
<1>1. IsFiniteSet(S) /\ IsFiniteSet(S') /\ S \subseteq Order /\ S' \subseteq Order
  BY OrdersAreFinite DEF SellsOf, OrdersOf
<1>2. /\ r' = r
      /\ \A p \in Order : r[p] \in Int
      /\ \A p \in (S \ S') \cup (S' \ S) : r[p] = 0
  BY <1>1 DEF PaperTypeOK
<1> HIDE DEF S, r
<1>3. SumFunctionOnSet(r', S') = SumFunctionOnSet(r, S)
  BY <1>1, <1>2, SumAlike
<1> QED BY <1>3 DEF ReservedIn, S, r

\* An order that is not on the books holds nothing.
LEMMA IdleOrder ==
  ASSUME BooksInvariant, NEW o \in Order, order[o].status \notin Resting
  PROVE  /\ order[o].cash = 0 /\ order[o].shares = 0 /\ Held(o) = 0
         /\ \A i \in LotIndex : reserved[o][i] = 0
<1>1. order[o].cash = 0 /\ order[o].shares = 0 /\ Held(o) = 0
  BY DEF BooksInvariant, BooksBalance, ReservationsFitOrders
<1>2. \A i \in LotIndex : reserved[o][i] \in Nat /\ reserved[o][i] <= 0
  BY <1>1, OrderTypes DEF BooksInvariant, BooksBalance
<1> QED BY <1>1, <1>2

LEMMA HolderIsResting ==
  ASSUME BooksInvariant, NEW o \in Order, NEW i \in LotIndex, reserved[o][i] > 0
  PROVE  /\ order[o].status \in Resting /\ order[o].draft.side = "SELL"
         /\ order[o].generation \in Generation /\ account[order[o].generation].status # "none"
         /\ o \in SellsOf(order[o].generation)
<1>1. reserved[o][i] \in Nat /\ reserved[o][i] <= Held(o) /\ Held(o) \in Nat /\ order[o].draft.side \in Side
  BY OrderTypes DEF BooksInvariant, BooksBalance
<1>2. Held(o) # 0
  BY <1>1
<1>3. order[o].status \in Resting /\ order[o].draft.side = "SELL"
  BY <1>1, <1>2 DEF BooksInvariant, BooksBalance, ReservationsFitOrders, Side
<1>4. order[o].status # "none"
  BY <1>3 DEF Resting, Matchable
<1> QED BY <1>3, <1>4 DEF BooksInvariant, OrdersFit, OrdersOf, SellsOf, BuysOf

LEMMA NothingTraded ==
  ASSUME NEW g \in Generation, OrdersOf(g) = {}
  PROVE  Spent(g) = 0 /\ Earned(g) = 0
<1>1. BuysOf(g) = {} /\ SellsOf(g) = {}
  BY DEF BuysOf, SellsOf
<1> QED BY <1>1, SumEmpty DEF Spent, Earned

LEMMA LotTypes ==
  ASSUME PaperTypeOK, NEW g \in Generation
  PROVE  /\ Len(lots[g]) \in 0..MaxLots /\ DOMAIN lots[g] = 1..Len(lots[g])
         /\ DOMAIN lots[g] \subseteq LotIndex /\ IsFiniteSet(DOMAIN lots[g])
         /\ \A i \in DOMAIN lots[g] :
              /\ lots[g][i] \in [day : Nat, remaining : Nat, frozen : Nat]
              /\ lots[g][i].frozen <= lots[g][i].remaining
<1>1. lots[g] \in Seq([day : Nat, remaining : Nat, frozen : Nat]) /\ Len(lots[g]) <= MaxLots
  BY DEF PaperTypeOK
<1>2. \A i \in DOMAIN lots[g] : lots[g][i].frozen <= lots[g][i].remaining
  BY DEF PaperTypeOK
<1>3. MaxLots \in Nat
  BY PaperAssumption
<1>4. Len(lots[g]) \in 0..MaxLots /\ DOMAIN lots[g] = 1..Len(lots[g])
  BY <1>1, <1>3
<1>5. DOMAIN lots[g] \subseteq LotIndex /\ IsFiniteSet(DOMAIN lots[g])
  BY <1>3, <1>4, FS_Interval DEF LotIndex
<1>6. \A i \in DOMAIN lots[g] : lots[g][i] \in [day : Nat, remaining : Nat, frozen : Nat]
  <2> DEFINE R == [day : Nat, remaining : Nat, frozen : Nat]
  <2>1. lots[g] \in Seq(R)
    BY <1>1
  <2> HIDE DEF R
  <2>2. \A i \in 1..Len(lots[g]) : lots[g][i] \in R
    BY <2>1
  <2> QED BY <1>4, <2>2 DEF R
<1> QED BY <1>2, <1>4, <1>5, <1>6

\* The shares and what is set aside of them, while nothing of it changes.
LEMMA SharesKept ==
  ASSUME BooksBalance, UNCHANGED <<order, lots, reserved>>
  PROVE  /\ SharesConserved' /\ ReservationsFitOrders'
         /\ \A g \in Generation : Spent(g)' = Spent(g) /\ Earned(g)' = Earned(g)
<1>1. /\ \A g : /\ OrdersOf(g)' = OrdersOf(g) /\ BuysOf(g)' = BuysOf(g)
                /\ SellsOf(g)' = SellsOf(g)
      /\ \A o : Held(o)' = Held(o)
  BY DEF OrdersOf, BuysOf, SellsOf, Held
<1>2. \A g \in Generation : ShareConservation(g)'
  <2> SUFFICES ASSUME NEW g \in Generation PROVE ShareConservation(g)'
    OBVIOUS
  <2>1. Holding(g)' = Holding(g)
    BY DEF Holding
  <2>2. Traded(BuysOf(g))' = Traded(BuysOf(g)) /\ Traded(SellsOf(g))' = Traded(SellsOf(g))
    BY <1>1 DEF Traded
  <2> QED BY <2>1, <2>2 DEF BooksBalance, SharesConserved, ShareConservation
<1>3. \A g \in Generation : ShareReservations(g)'
  <2> SUFFICES ASSUME NEW g \in Generation PROVE ShareReservations(g)'
    OBVIOUS
  <2>1. \A i : ReservedIn(i, SellsOf(g))' = ReservedIn(i, SellsOf(g))
    BY <1>1 DEF ReservedIn
  <2> QED BY <1>1, <2>1 DEF BooksBalance, SharesConserved, ShareReservations
<1>4. ReservationsFitOrders'
  <2>1. \A d, n, a : WorstCost(d, n, a)' = WorstCost(d, n, a)
    BY DEF WorstCost, Fee
  <2> QED BY <1>1, <2>1 DEF BooksBalance, ReservationsFitOrders
<1>5. \A g \in Generation : Spent(g)' = Spent(g) /\ Earned(g)' = Earned(g)
  BY <1>1 DEF Spent, Earned, Fee
<1> QED BY <1>2, <1>3, <1>4, <1>5 DEF SharesConserved

-----------------------------------------------------------------------------
(* Steps that move neither shares nor reservations.                        *)

LEMMA AccountStep ==
  ASSUME BooksInvariant, UNCHANGED <<time, order, passes, lots, reserved, books>>,
         account' \in [Generation ->
           [status : AccountStatus, initial : Nat, available : Nat, frozen : Nat, edited : BOOLEAN]],
         \A g \in Generation : account'[g].status = "none" => account[g].status = "none",
         \A g \in Generation :
           \/ /\ account'[g].available = account[g].available
              /\ account'[g].frozen = account[g].frozen
              /\ account'[g].initial = account[g].initial
           \/ /\ OrdersOf(g) = {}
              /\ account'[g].frozen = 0
              /\ account'[g].available = account'[g].initial,
         AccountsInOrder'
  PROVE  BooksInvariant'
<1>1. PaperTypeOK'
  BY DEF BooksInvariant, BooksBalance, PaperTypeOK
<1>2. CashConserved'
  <2> SUFFICES ASSUME NEW g \in Generation PROVE CashAuthority(g)'
    BY DEF CashConserved
  <2>1. Spent(g)' = Spent(g) /\ Earned(g)' = Earned(g)
    BY SharesKept DEF BooksInvariant
  <2>2. CashAuthority(g)
    BY DEF BooksInvariant, BooksBalance, CashConserved
  <2>3. account'[g].available \in Nat
    OBVIOUS
  <2> QED BY <2>1, <2>2, <2>3, NothingTraded DEF CashAuthority
<1>3. SharesConserved' /\ ReservationsFitOrders'
  BY SharesKept DEF BooksInvariant
<1>4. OrdersFit' /\ LotsReserved' /\ PassesFit'
  BY DEF BooksInvariant, OrdersFit, LotsReserved, PassesFit, Day
<1> QED BY <1>1, <1>2, <1>3, <1>4 DEF BooksInvariant, BooksBalance

LEMMA OpenAccountKeeps ==
  ASSUME BooksInvariant, NEW cash \in Cash, OpenAccount(cash)
  PROVE  BooksInvariant'
<1>1. /\ cash \in Nat /\ 1 \in Generation /\ Generation \subseteq Nat
      /\ \A g \in Generation : account[g].status = "none"
      /\ account' = [account EXCEPT ![1] = NewAccount(cash)]
      /\ UNCHANGED <<time, order, passes, lots, reserved, books>>
  BY PaperAssumption DEF OpenAccount, Generation
<1>2. account \in [Generation ->
        [status : AccountStatus, initial : Nat, available : Nat, frozen : Nat, edited : BOOLEAN]]
  BY DEF BooksInvariant, BooksBalance, PaperTypeOK
<1>3. OrdersOf(1) = {}
  BY <1>1 DEF OrdersOf, BooksInvariant, OrdersFit
<1>4. \A h \in Generation : 1 <= h
  BY DEF Generation
<1>5. AccountsInOrder'
  BY <1>1, <1>2, <1>4 DEF AccountsInOrder
<1> QED BY <1>1, <1>2, <1>3, <1>5, AccountStep DEF NewAccount, AccountStatus

LEMMA EditInitialCashKeeps ==
  ASSUME BooksInvariant, NEW cash \in Cash, EditInitialCash(cash)
  PROVE  BooksInvariant'
<1>1. /\ cash \in Nat /\ 1 \in Generation
      /\ account[1].status = "active" /\ OrdersOf(1) = {}
      /\ account' = [account EXCEPT ![1] = [NewAccount(cash) EXCEPT !.edited = TRUE]]
      /\ UNCHANGED <<time, order, passes, lots, reserved, books>>
  BY PaperAssumption DEF EditInitialCash, Generation, Active
<1>2. account \in [Generation ->
        [status : AccountStatus, initial : Nat, available : Nat, frozen : Nat, edited : BOOLEAN]]
  BY DEF BooksInvariant, BooksBalance, PaperTypeOK
<1>3. AccountsInOrder'
  BY <1>1, <1>2 DEF AccountsInOrder, BooksInvariant, NewAccount
<1> QED BY <1>1, <1>2, <1>3, AccountStep DEF NewAccount, AccountStatus

LEMMA ResetKeeps ==
  ASSUME BooksInvariant, NEW g \in Generation, NEW cash \in Cash, Reset(g, cash)
  PROVE  BooksInvariant'
<1>1. /\ cash \in Nat /\ g + 1 \in Generation /\ Generation \subseteq Nat
      /\ account[g].status = "active"
      /\ account' = [account EXCEPT ![g].status = "archived", ![g + 1] = NewAccount(cash)]
      /\ UNCHANGED <<time, order, passes, lots, reserved, books>>
  BY PaperAssumption DEF Reset, Generation, Active
<1>2. account \in [Generation ->
        [status : AccountStatus, initial : Nat, available : Nat, frozen : Nat, edited : BOOLEAN]]
  BY DEF BooksInvariant, BooksBalance, PaperTypeOK
<1>3. g # g + 1 /\ g < g + 1
  BY <1>1
<1>4. account[g + 1].status = "none"
  BY <1>1, <1>3 DEF AccountsInOrder, BooksInvariant
<1>5. OrdersOf(g + 1) = {}
  BY <1>4 DEF OrdersOf, BooksInvariant, OrdersFit
<1>6. account' = [h \in Generation |->
         IF h = g THEN [account[g] EXCEPT !.status = "archived"]
         ELSE IF h = g + 1 THEN NewAccount(cash) ELSE account[h]]
  BY <1>1, <1>2, <1>3
<1>7. AccountsInOrder'
  <2> SUFFICES ASSUME NEW x \in Generation, NEW y \in Generation, x < y, account'[x].status # "archived"
               PROVE  account'[y].status = "none"
    BY DEF AccountsInOrder
  <2>1. x # g
    BY <1>1, <1>2, <1>6
  <2>2. CASE x = g + 1
    <3>1. g < y /\ y # g + 1 /\ y # g
      BY <1>1, <2>2
    <3> QED BY <1>1, <1>6, <3>1 DEF AccountsInOrder, BooksInvariant
  <2>3. CASE x # g + 1
    <3>1. account[x].status # "archived" /\ account[y].status = "none"
      BY <1>6, <2>1, <2>3 DEF AccountsInOrder, BooksInvariant
    <3>2. y # g /\ (y = g + 1 => x < g)
      BY <1>1, <2>1, <3>1
    <3>3. y # g + 1
      BY <1>1, <3>1, <3>2 DEF AccountsInOrder, BooksInvariant
    <3> QED BY <1>6, <3>1, <3>2, <3>3
  <2> QED BY <2>2, <2>3
<1> QED BY <1>1, <1>2, <1>3, <1>5, <1>6, <1>7, AccountStep DEF NewAccount, AccountStatus

LEMMA ReconcileKeeps ==
  ASSUME BooksInvariant, NEW g \in Generation, Reconcile(g)
  PROVE  BooksInvariant'
<1>1. /\ account[g].status = "active"
      /\ \E status \in {"active", "suspended"} : account' = [account EXCEPT ![g].status = status]
      /\ UNCHANGED <<time, order, passes, lots, reserved, books>>
  BY DEF Reconcile, Active
<1>2. account \in [Generation ->
        [status : AccountStatus, initial : Nat, available : Nat, frozen : Nat, edited : BOOLEAN]]
  BY DEF BooksInvariant, BooksBalance, PaperTypeOK
<1>3. AccountsInOrder'
  BY <1>1, <1>2 DEF AccountsInOrder, BooksInvariant
<1> QED BY <1>1, <1>2, <1>3, AccountStep DEF AccountStatus

\* The clock and the market.
LEMMA TickKeeps ==
  ASSUME BooksInvariant, Tick
  PROVE  BooksInvariant'
<1>1. /\ time < MaxTime /\ time' = time + 1 /\ time \in Nat /\ MaxTime \in Nat
      /\ UNCHANGED <<account, order, passes, lots, reserved, books>>
  BY PaperAssumption DEF Tick, BooksInvariant, BooksBalance, PaperTypeOK
<1>2. PaperTypeOK'
  <2>1. time' \in 0..MaxTime
    BY <1>1
  <2> QED BY <1>1, <2>1 DEF BooksInvariant, BooksBalance, PaperTypeOK
<1>3. CashConserved' /\ SharesConserved' /\ ReservationsFitOrders'
  BY <1>1, SharesKept DEF BooksInvariant, BooksBalance, CashConserved, CashAuthority
<1>4. OrdersFit' /\ AccountsInOrder' /\ PassesFit'
  BY <1>1 DEF BooksInvariant, OrdersFit, AccountsInOrder, PassesFit
<1>5. Day \in Nat /\ Day' \in Nat /\ Day <= Day'
  BY <1>1 DEF Day
<1>6. LotsReserved'
  <2> SUFFICES ASSUME NEW o \in Order, NEW i \in LotIndex, reserved[o][i] > 0
               PROVE  LET g == order[o].generation IN i \in DOMAIN lots[g] /\ lots[g][i].day < Day'
    BY <1>1 DEF LotsReserved
  <2> DEFINE g == order[o].generation
  <2>1. i \in DOMAIN lots[g] /\ lots[g][i].day < Day
    BY DEF BooksInvariant, LotsReserved
  <2>2. order[o].status \in Resting
    BY IdleOrder
  <2>3. g \in Generation
    BY <2>2 DEF BooksInvariant, OrdersFit, Resting, Matchable
  <2>4. lots[g][i].day \in Nat
    BY <2>1, <2>3, LotTypes DEF BooksInvariant, BooksBalance
  <2> QED BY <1>5, <2>1, <2>4
<1> QED BY <1>2, <1>3, <1>4, <1>6 DEF BooksInvariant, BooksBalance

LEMMA QuoteKeeps ==
  ASSUME BooksInvariant, NEW level \in Level, Quote(level)
  PROVE  BooksInvariant'
<1> DEFINE book == [side |-> level.side, price |-> level.price, depth |-> level.depth, at |-> time]
<1>1. /\ Len(books) < MaxQuotes /\ books' = Append(books, book)
      /\ UNCHANGED <<time, account, order, passes, lots, reserved>>
  BY DEF Quote
<1>2. /\ book \in [side : Side, price : Nat, depth : Nat, at : Nat] /\ MaxQuotes \in Nat
      /\ books \in Seq([side : Side, price : Nat, depth : Nat, at : Nat])
  BY PaperAssumption DEF BooksInvariant, BooksBalance, PaperTypeOK
<1> HIDE DEF book
<1>3. PaperTypeOK'
  <2>1. books' \in Seq([side : Side, price : Nat, depth : Nat, at : Nat])
    BY <1>1, <1>2
  <2> QED BY <1>1, <2>1 DEF BooksInvariant, BooksBalance, PaperTypeOK
<1>4. CashConserved' /\ SharesConserved' /\ ReservationsFitOrders'
  BY <1>1, SharesKept DEF BooksInvariant, BooksBalance, CashConserved, CashAuthority
<1>5. OrdersFit' /\ AccountsInOrder' /\ LotsReserved'
  BY <1>1 DEF BooksInvariant, OrdersFit, AccountsInOrder, LotsReserved, Day
<1>6. \A s \in DOMAIN books : s \in DOMAIN books' /\ books'[s] = books[s]
  BY <1>1, <1>2
<1>7. Len(books') <= MaxQuotes
  BY <1>1, <1>2
<1>8. PassesFit'
  BY <1>1, <1>6, <1>7 DEF BooksInvariant, PassesFit
<1> QED BY <1>3, <1>4, <1>5, <1>8 DEF BooksInvariant, BooksBalance

-----------------------------------------------------------------------------
(* Steps of orders that set nothing aside.                                 *)

LEMMA StatusStep ==
  ASSUME BooksInvariant, PaperTypeOK',
         UNCHANGED <<time, account, passes, lots, reserved, books>>,
         \A o \in Order :
           /\ order'[o].draft = order[o].draft
           /\ order'[o].cash = order[o].cash /\ order'[o].shares = order[o].shares
           /\ order'[o].filled = order[o].filled /\ order'[o].gross = order[o].gross
           /\ \/ order'[o].status = order[o].status /\ order'[o].generation = order[o].generation
              \/ /\ order[o].status = "queued" /\ order'[o].status = "open"
                 /\ order'[o].generation = order[o].generation
              \/ /\ order[o].status \in {"none", "awaiting_confirmation"}
                 /\ order'[o].status \in {"awaiting_confirmation", "cancelled"}
                 /\ order'[o].generation \in Generation
                 /\ account[order'[o].generation].status # "none"
  PROVE  BooksInvariant'
<1> DEFINE Early(o) == order[o].status \in {"none", "awaiting_confirmation"}
<1>1. PaperTypeOK
  BY DEF BooksInvariant, BooksBalance
<1>2. \A o \in Order : Early(o) =>
        /\ order[o].gross = 0 /\ order[o].filled = 0 /\ order[o].cash = 0 /\ order[o].shares = 0
        /\ Held(o) = 0 /\ \A i \in LotIndex : reserved[o][i] = 0
  BY IdleOrder DEF BooksInvariant, OrdersFit, Resting, Matchable
<1>3. \A o \in Order : Held(o)' = Held(o)
  BY DEF Held
<1>4. \A g \in Generation : \A o \in Order : ~Early(o) =>
        /\ o \in BuysOf(g)' <=> o \in BuysOf(g)
        /\ o \in SellsOf(g)' <=> o \in SellsOf(g)
  BY DEF OrdersOf, BuysOf, SellsOf
<1>5. \A g \in Generation :
        /\ Spent(g)' = Spent(g) /\ Earned(g)' = Earned(g)
        /\ Traded(BuysOf(g))' = Traded(BuysOf(g))
        /\ Traded(SellsOf(g))' = Traded(SellsOf(g))
  <2> HIDE DEF Early
  <2> QED BY <1>1, <1>2, <1>4, TradesKept
<1>6. CashConserved'
  BY <1>5 DEF BooksInvariant, BooksBalance, CashConserved, CashAuthority
<1>7. ASSUME NEW g \in Generation PROVE ShareConservation(g)'
  <2>1. Holding(g)' = Holding(g)
    BY DEF Holding
  <2> QED BY <2>1, <1>5 DEF BooksInvariant, BooksBalance, SharesConserved, ShareConservation
<1>8. ASSUME NEW g \in Generation PROVE ShareReservations(g)'
  <2>1. ShareReservations(g)
    BY DEF BooksInvariant, BooksBalance, SharesConserved
  <2>2. ASSUME NEW o \in SellsOf(g)' PROVE order'[o].shares = Held(o)'
    <3>1. o \in Order
      BY DEF SellsOf, OrdersOf
    <3>2. CASE Early(o)
      BY <1>2, <1>3, <3>1, <3>2
    <3>3. CASE ~Early(o)
      <4>1. o \in SellsOf(g)
        BY <1>4, <2>2, <3>1, <3>3
      <4> QED BY <1>3, <2>1, <3>1, <4>1 DEF ShareReservations
    <3> QED BY <3>2, <3>3
  <2>3. ASSUME NEW o \in OrdersOf(g)', order'[o].status \in Terminal
        PROVE  Held(o)' = 0 /\ order'[o].cash = 0
    <3>1. o \in Order
      BY DEF OrdersOf
    <3>2. CASE Early(o)
      BY <1>2, <1>3, <3>1, <3>2
    <3>3. CASE ~Early(o)
      <4>1. o \in OrdersOf(g) /\ order[o].status \in Terminal
        BY <2>3, <3>1, <3>3 DEF OrdersOf, Terminal
      <4> QED BY <1>3, <2>1, <3>1, <4>1 DEF ShareReservations
    <3> QED BY <3>2, <3>3
  <2>4. ASSUME NEW i \in DOMAIN lots[g] PROVE lots[g][i].frozen = ReservedIn(i, SellsOf(g))'
    <3>1. i \in LotIndex
      BY <1>1, LotTypes
    <3>2. \A o \in Order : (o \in SellsOf(g)' <=> o \in SellsOf(g)) \/ reserved[o][i] = 0
      BY <1>2, <1>4, <3>1
    <3>3. ReservedIn(i, SellsOf(g))' = ReservedIn(i, SellsOf(g))
      BY <1>1, <3>1, <3>2, ReservedKept
    <3> QED BY <2>1, <3>3 DEF ShareReservations
  <2> QED BY <2>2, <2>3, <2>4 DEF ShareReservations
<1>9. ReservationsFitOrders'
  <2>1. \A d, n, a : WorstCost(d, n, a)' = WorstCost(d, n, a)
    BY DEF WorstCost, Fee
  <2>2. \A o \in Order : order'[o].status \in Resting <=> order[o].status \in Resting
    BY DEF Resting, Matchable
  <2> QED BY <1>3, <2>1, <2>2 DEF BooksInvariant, BooksBalance, ReservationsFitOrders
<1>10. OrdersFit'
  BY <1>2 DEF BooksInvariant, OrdersFit
<1>11. AccountsInOrder' /\ PassesFit'
  BY DEF BooksInvariant, AccountsInOrder, PassesFit
<1>12. LotsReserved'
  <2>1. \A o \in Order : \A i \in LotIndex : reserved[o][i] > 0 =>
          order'[o].generation = order[o].generation
    BY <1>2
  <2> QED BY <2>1 DEF BooksInvariant, LotsReserved, Day
<1> QED BY <1>6, <1>7, <1>8, <1>9, <1>10, <1>11, <1>12
        DEF BooksInvariant, BooksBalance, SharesConserved

LEMMA TimeTypes ==
  ASSUME PaperTypeOK
  PROVE  time \in Nat /\ Day \in Nat /\ ExpiresAt \in Nat
<1>1. time \in Nat
  BY DEF PaperTypeOK
<1> QED BY <1>1 DEF ExpiresAt, Day

LEMMA PrepareKeeps ==
  ASSUME BooksInvariant, NEW o \in Order, NEW g \in Generation, NEW draft \in Draft,
         Prepare(o, g, draft)
  PROVE  BooksInvariant'
<1>1. /\ order[o].status = "none" /\ account[g].status = "active"
      /\ order' = [order EXCEPT ![o].status = "awaiting_confirmation",
                                ![o].generation = g, ![o].expires = ExpiresAt]
      /\ UNCHANGED <<time, account, passes, lots, reserved, books>>
  BY DEF Prepare, Active
<1>2. PaperTypeOK /\ ExpiresAt \in Nat
  BY TimeTypes DEF BooksInvariant, BooksBalance
<1>4. order \in [Order -> [status : OrderStatus, generation : Generation \cup {0},
                           draft : Draft \cup {NoDraft}, cash : Nat, shares : Nat,
                           expires : Nat, filled : Nat, gross : Nat]]
  BY <1>2 DEF PaperTypeOK
<1>3. PaperTypeOK'
  <2>1. order' \in [Order -> [status : OrderStatus, generation : Generation \cup {0},
                              draft : Draft \cup {NoDraft}, cash : Nat, shares : Nat,
                              expires : Nat, filled : Nat, gross : Nat]]
    <3> DEFINE R == [status : OrderStatus, generation : Generation \cup {0},
                     draft : Draft \cup {NoDraft}, cash : Nat, shares : Nat,
                     expires : Nat, filled : Nat, gross : Nat]
               r == [order[o] EXCEPT !.status = "awaiting_confirmation",
                                     !.generation = g, !.expires = ExpiresAt]
    <3>1. order \in [Order -> R] /\ order' = [order EXCEPT ![o] = r]
      BY <1>1, <1>4
    <3>2. r \in R
      <4>1. order[o] \in R
        BY <3>1
      <4> QED BY <1>2, <4>1 DEF OrderStatus
    <3> HIDE DEF r, R
    <3>3. order' \in [Order -> R]
      BY <3>1, <3>2
    <3> QED BY <3>3 DEF R
  <2>2. \A p \in Order : order'[p].filled <= order'[p].draft.quantity
    BY <1>1, <1>2, <1>4 DEF PaperTypeOK
  <2> QED BY <1>1, <1>2, <2>1, <2>2 DEF PaperTypeOK
<1> QED BY <1>1, <1>3, <1>4, StatusStep

LEMMA ConfirmTooLateKeeps ==
  ASSUME BooksInvariant, NEW o \in Order, ConfirmTooLate(o)
  PROVE  BooksInvariant'
<1>1. /\ order[o].status = "awaiting_confirmation"
      /\ order' = [order EXCEPT ![o].status = "cancelled"]
      /\ UNCHANGED <<time, account, passes, lots, reserved, books>>
  BY DEF ConfirmTooLate
<1>2. PaperTypeOK /\ order[o].generation \in Generation /\ account[order[o].generation].status # "none"
  BY <1>1 DEF BooksInvariant, BooksBalance, OrdersFit
<1>3. PaperTypeOK'
  BY <1>1, <1>2, ZenonT(30) DEF PaperTypeOK, OrderStatus
<1>4. order \in [Order -> [status : OrderStatus, generation : Generation \cup {0},
                           draft : Draft \cup {NoDraft}, cash : Nat, shares : Nat,
                           expires : Nat, filled : Nat, gross : Nat]]
  BY <1>2 DEF PaperTypeOK
<1> QED BY <1>1, <1>2, <1>3, <1>4, StatusStep

LEMMA OpenQueuedKeeps ==
  ASSUME BooksInvariant, NEW B \in SUBSET Order, OpenQueued(B)
  PROVE  BooksInvariant'
<1>1. /\ \A o \in B : order[o].status = "queued"
      /\ order' = [o \in Order |->
           IF o \in B THEN [order[o] EXCEPT !.status = "open"] ELSE order[o]]
      /\ UNCHANGED <<time, account, passes, lots, reserved, books>>
  BY DEF OpenQueued
<1>2. PaperTypeOK
  BY DEF BooksInvariant, BooksBalance
<1>3. PaperTypeOK'
  BY <1>1, <1>2, ZenonT(30) DEF PaperTypeOK, OrderStatus
<1>4. order \in [Order -> [status : OrderStatus, generation : Generation \cup {0},
                           draft : Draft \cup {NoDraft}, cash : Nat, shares : Nat,
                           expires : Nat, filled : Nat, gross : Nat]]
  BY <1>2 DEF PaperTypeOK
<1> QED BY <1>1, <1>3, <1>4, StatusStep

-----------------------------------------------------------------------------
(* Matching.                                                               *)

\* One more pass, over a snapshot the order has not used.
LEMMA PassRecorded ==
  ASSUME BooksInvariant, NEW o \in Order, NEW s \in DOMAIN books, NEW n \in Nat,
         MayMatch(o, s), RecordPass(o, s, n), n <= books[s].depth, books' = books,
         \A p \in Order \ {o} : order'[p].filled = order[p].filled,
         order'[o].filled = order[o].filled + n
  PROVE  PassesFit' /\ passes' \in [Order -> Seq([snapshot : 1..MaxQuotes, quantity : Nat])]
<1> DEFINE Pass == [snapshot : 1..MaxQuotes, quantity : Nat]
           pass == [snapshot |-> s, quantity |-> n]
           old == passes[o]
           new == passes'[o]
           N == Len(old)
<1>1. /\ passes \in [Order -> Seq(Pass)] /\ Len(books) <= MaxQuotes /\ MaxQuotes \in Nat
      /\ books \in Seq([side : Side, price : Nat, depth : Nat, at : Nat])
  BY PaperAssumption DEF BooksInvariant, BooksBalance, PaperTypeOK, PassesFit
<1>2. DOMAIN books \subseteq 1..MaxQuotes
  BY <1>1
<1>3. pass \in Pass
  BY <1>2
<1>4. passes' = [passes EXCEPT ![o] = Append(old, pass)]
  BY DEF RecordPass
<1> HIDE DEF Pass, pass
<1>5. /\ old \in Seq(Pass) /\ new = Append(old, pass) /\ N \in Nat
      /\ passes' \in [Order -> Seq(Pass)]
      /\ \A p \in Order \ {o} : passes'[p] = passes[p]
  BY <1>1, <1>3, <1>4
<1> HIDE DEF old, new
<1>6. /\ DOMAIN old = 1..N /\ DOMAIN new = 1..(N + 1) /\ new[N + 1] = pass
      /\ \A p \in 1..N : new[p] = old[p] /\ old[p] \in Pass
  BY <1>3, <1>5
<1>7. /\ \A p \in DOMAIN old : old[p].snapshot \in DOMAIN books
                               /\ old[p].quantity <= books[old[p].snapshot].depth
      /\ \A p, q \in DOMAIN old : old[p].snapshot = old[q].snapshot => p = q
      /\ order[o].filled = SumFunction([p \in DOMAIN old |-> old[p].quantity])
      /\ \A p \in DOMAIN old : old[p].snapshot # s
  BY DEF BooksInvariant, PassesFit, MayMatch, old
<1>8. pass.snapshot = s /\ pass.quantity = n
  BY DEF pass
<1>9. \A p \in DOMAIN new : new[p].snapshot \in DOMAIN books
                            /\ new[p].quantity <= books[new[p].snapshot].depth
  <2> SUFFICES ASSUME NEW p \in DOMAIN new
               PROVE  new[p].snapshot \in DOMAIN books
                      /\ new[p].quantity <= books[new[p].snapshot].depth
    OBVIOUS
  <2>1. p \in 1..N \/ p = N + 1
    BY <1>5, <1>6
  <2> QED BY <1>6, <1>7, <1>8, <2>1
<1>10. \A p, q \in DOMAIN new : new[p].snapshot = new[q].snapshot => p = q
  <2> SUFFICES ASSUME NEW p \in DOMAIN new, NEW q \in DOMAIN new,
                      new[p].snapshot = new[q].snapshot
               PROVE  p = q
    OBVIOUS
  <2>1. (p \in 1..N \/ p = N + 1) /\ (q \in 1..N \/ q = N + 1)
    BY <1>5, <1>6
  <2> QED BY <1>6, <1>7, <1>8, <2>1
<1>11. order'[o].filled = SumFunction([p \in DOMAIN new |-> new[p].quantity])
  <2> DEFINE f == [p \in 1..N |-> old[p].quantity]
             h == [p \in 1..(N + 1) |-> new[p].quantity]
  <2>1. /\ \A p \in 1..N : f[p] = h[p] /\ f[p] \in Int
        /\ h[N + 1] = n
        /\ DOMAIN f = 1..N /\ DOMAIN h = 1..(N + 1)
    BY <1>5, <1>6, <1>8 DEF Pass
  <2>2. IsFiniteSet(1..N) /\ IsFiniteSet(1..(N + 1))
    <3>1. 1 \in Int /\ N \in Int /\ N + 1 \in Int
      BY <1>5
    <3> QED BY <3>1, FS_Interval
  <2>3. /\ N + 1 \in 1..(N + 1) /\ (1..(N + 1)) \ {N + 1} = 1..N
    BY <1>5
  <2> HIDE DEF f, h
  <2>4. \A p \in 1..(N + 1) : h[p] \in Int
    BY <2>1, <1>5
  <2>5. SumFunctionOnSet(h, 1..(N + 1)) = h[N + 1] + SumFunctionOnSet(h, 1..N)
    <3> DEFINE S == 1..(N + 1)
    <3>1. IsFiniteSet(S) /\ N + 1 \in S /\ S \ {N + 1} = 1..N /\ \A p \in S : h[p] \in Int
      BY <2>2, <2>3, <2>4
    <3> HIDE DEF S
    <3>2. SumFunctionOnSet(h, S) = h[N + 1] + SumFunctionOnSet(h, S \ {N + 1})
      BY <3>1, SumElement
    <3> QED BY <3>1, <3>2 DEF S
  <2>6. SumFunctionOnSet(f, 1..N) = SumFunctionOnSet(h, 1..N) /\ SumFunctionOnSet(f, 1..N) \in Int
    BY <2>1, <2>2, SumSame, SumInt
  <2>7. order[o].filled = SumFunctionOnSet(f, 1..N)
    BY <1>6, <1>7, <2>1 DEF SumFunction, f
  <2>8. SumFunction([p \in DOMAIN new |-> new[p].quantity]) = SumFunctionOnSet(h, 1..(N + 1))
    BY <1>6, <2>1 DEF SumFunction, h
  <2> QED BY <2>1, <2>5, <2>6, <2>7, <2>8
<1>12. PassesFit'
  <2> SUFFICES ASSUME NEW p \in Order
               PROVE  /\ \A q \in DOMAIN passes'[p] :
                           /\ passes'[p][q].snapshot \in DOMAIN books
                           /\ passes'[p][q].quantity <= books[passes'[p][q].snapshot].depth
                      /\ \A q, r \in DOMAIN passes'[p] :
                           passes'[p][q].snapshot = passes'[p][r].snapshot => q = r
                      /\ order'[p].filled = SumFunction([q \in DOMAIN passes'[p] |-> passes'[p][q].quantity])
    BY <1>1 DEF PassesFit
  <2>1. CASE p = o
    BY <1>9, <1>10, <1>11, <2>1 DEF new
  <2>2. CASE p # o
    <3>1. passes'[p] = passes[p] /\ order'[p].filled = order[p].filled
      BY <1>5, <2>2
    <3> QED BY <3>1 DEF BooksInvariant, PassesFit
  <2> QED BY <2>1, <2>2
<1> QED BY <1>5, <1>12 DEF Pass

LEMMA BookTypes ==
  ASSUME PaperTypeOK, NEW s \in DOMAIN books
  PROVE  books[s] \in [side : Side, price : Nat, depth : Nat, at : Nat]
<1> DEFINE R == [side : Side, price : Nat, depth : Nat, at : Nat]
<1>1. books \in Seq(R)
  BY DEF PaperTypeOK
<1> HIDE DEF R
<1>2. books[s] \in R
  BY <1>1
<1> QED BY <1>2 DEF R

LEMMA ExecutableFits ==
  ASSUME PaperTypeOK, NEW o \in Order, NEW s \in DOMAIN books
  PROVE  LET n == Executable(o, books[s]) IN
         /\ n \in Nat /\ n <= books[s].depth /\ n <= order[o].draft.quantity - order[o].filled
         /\ books[s].price \in Nat
<1>1. books[s] \in [side : Side, price : Nat, depth : Nat, at : Nat]
  BY BookTypes
<1>2. /\ order[o].draft.quantity \in Nat /\ order[o].filled \in Nat
      /\ order[o].filled <= order[o].draft.quantity
  BY OrderTypes DEF PaperTypeOK
<1> DEFINE rest == order[o].draft.quantity - order[o].filled
<1>3. rest \in Nat /\ books[s].depth \in Nat /\ books[s].price \in Nat
  BY <1>1, <1>2
<1> HIDE DEF rest
<1>4. Min({rest, books[s].depth}) = IF rest <= books[s].depth THEN rest ELSE books[s].depth
  BY <1>3, MinOfTwo
<1>5. Executable(o, books[s]) \in {0, Min({rest, books[s].depth})}
  BY DEF Executable, rest
<1> QED BY <1>3, <1>4, <1>5 DEF rest

LEMMA MatchNothingKeeps ==
  ASSUME BooksInvariant, NEW o \in Order, NEW s \in DOMAIN books, MatchNothing(o, s)
  PROVE  BooksInvariant'
<1>1. /\ MayMatch(o, s) /\ RecordPass(o, s, 0)
      /\ UNCHANGED <<time, account, order, lots, reserved, books>>
  BY DEF MatchNothing
<1>2. PaperTypeOK /\ order[o].filled \in Nat /\ books[s].depth \in Nat
  <2>1. PaperTypeOK
    BY DEF BooksInvariant, BooksBalance
  <2>2. books[s].depth \in Nat
    BY <2>1, BookTypes
  <2> QED BY <2>1, <2>2, OrderTypes
<1>3. PassesFit' /\ passes' \in [Order -> Seq([snapshot : 1..MaxQuotes, quantity : Nat])]
  <2>1. 0 <= books[s].depth /\ order[o].filled = order[o].filled + 0
    BY <1>2
  <2> QED BY <1>1, <2>1, PassRecorded
<1>4. PaperTypeOK'
  BY <1>1, <1>2, <1>3 DEF PaperTypeOK
<1>5. CashConserved' /\ SharesConserved' /\ ReservationsFitOrders'
  BY <1>1, SharesKept DEF BooksInvariant, BooksBalance, CashConserved, CashAuthority
<1>6. OrdersFit' /\ AccountsInOrder' /\ LotsReserved'
  BY <1>1 DEF BooksInvariant, OrdersFit, AccountsInOrder, LotsReserved, Day
<1> QED BY <1>3, <1>4, <1>5, <1>6 DEF BooksInvariant, BooksBalance

-----------------------------------------------------------------------------
(* Placing an order.                                                       *)

\* Lots that are rewritten one by one.
LEMMA LotsRewritten ==
  ASSUME PaperTypeOK, NEW g \in Generation, NEW L, L = [i \in DOMAIN lots[g] |-> L[i]],
         \A i \in DOMAIN lots[g] : L[i] \in [day : Nat, remaining : Nat, frozen : Nat]
  PROVE  /\ L \in Seq([day : Nat, remaining : Nat, frozen : Nat])
         /\ Len(L) = Len(lots[g]) /\ DOMAIN L = DOMAIN lots[g]
<1> DEFINE R == [day : Nat, remaining : Nat, frozen : Nat]
           N == Len(lots[g])
<1>1. N \in Nat /\ DOMAIN lots[g] = 1..N
  BY LotTypes, PaperAssumption
<1>2. \A i \in 1..N : L[i] \in R
  BY <1>1
<1>3. L = [i \in 1..N |-> L[i]]
  BY <1>1
<1> HIDE DEF R, N
<1>4. L \in Seq(R)
  BY <1>1, <1>2, <1>3
<1>5. DOMAIN L = 1..N
  BY <1>3
<1>6. Len(L) = N
  BY <1>1, <1>4, <1>5
<1> QED BY <1>1, <1>4, <1>5, <1>6 DEF R, N

LEMMA HoldingKept ==
  ASSUME NEW g \in Generation, DOMAIN lots'[g] = DOMAIN lots[g],
         \A i \in DOMAIN lots[g] : lots'[g][i].remaining = lots[g][i].remaining
  PROVE  Holding(g)' = Holding(g)
<1>1. [i \in DOMAIN lots'[g] |-> lots'[g][i].remaining] = [i \in DOMAIN lots[g] |-> lots[g][i].remaining]
  OBVIOUS
<1> QED BY <1>1 DEF Holding

\* What can be taken is in lots of an earlier day, and not set aside.
LEMMA SellableFits ==
  ASSUME PaperTypeOK, NEW g \in Generation
  PROVE  /\ Sellable(g) \in [LotIndex -> Nat]
         /\ \A i \in LotIndex : Sellable(g)[i] > 0 =>
              /\ i \in DOMAIN lots[g] /\ lots[g][i].day < Day
              /\ Sellable(g)[i] = lots[g][i].remaining - lots[g][i].frozen
<1>1. \A i \in DOMAIN lots[g] : lots[g][i].remaining - lots[g][i].frozen \in Nat
  BY LotTypes
<1> QED BY <1>1 DEF Sellable

\* An order goes on the books with t[i] shares of every lot i set aside.
PlacedWith(o, new, t) ==
  /\ order' = [order EXCEPT ![o] = new]
  /\ reserved' = [reserved EXCEPT ![o] = t]
  /\ UNCHANGED <<time, passes, books>>

NewOrderFits(g, new, t) ==
  /\ new \in [status : {"open", "queued"}, generation : {g}, draft : Draft, cash : Nat,
              shares : Nat, expires : Nat, filled : {0}, gross : {0}]
  /\ t \in [LotIndex -> Nat]
  /\ SumFunction(t) = new.shares
  /\ new.draft.side = "BUY" =>
       new.cash = WorstCost(new.draft, 0, 0) /\ \A i \in LotIndex : t[i] = 0
  /\ new.draft.side = "SELL" => new.cash = 0 /\ new.shares = new.draft.quantity
  /\ \A i \in LotIndex : t[i] > 0 =>
       /\ i \in DOMAIN lots[g] /\ lots[g][i].day < Day
       /\ t[i] <= lots[g][i].remaining - lots[g][i].frozen

LotsFrozenFor(g, t) ==
  /\ lots' \in [Generation -> Seq([day : Nat, remaining : Nat, frozen : Nat])]
  /\ \A h \in Generation :
       /\ DOMAIN lots'[h] = DOMAIN lots[h] /\ Len(lots'[h]) = Len(lots[h])
       /\ \A i \in DOMAIN lots[h] :
            /\ lots'[h][i].day = lots[h][i].day
            /\ lots'[h][i].remaining = lots[h][i].remaining
            /\ lots'[h][i].frozen = lots[h][i].frozen + (IF h = g THEN t[i] ELSE 0)

CashOnlyMoves ==
  /\ account' \in [Generation ->
       [status : AccountStatus, initial : Nat, available : Nat, frozen : Nat, edited : BOOLEAN]]
  /\ \A h \in Generation :
       /\ account'[h].status = account[h].status /\ account'[h].initial = account[h].initial
       /\ account'[h].available + account'[h].frozen = account[h].available + account[h].frozen

LEMMA PlaceStep ==
  ASSUME BooksInvariant, NEW o \in Order, NEW g \in Generation, account[g].status # "none",
         order[o].status \in {"none", "awaiting_confirmation"},
         NEW new, NEW t,
         NewOrderFits(g, new, t), PlacedWith(o, new, t), LotsFrozenFor(g, t), CashOnlyMoves
  PROVE  BooksInvariant'
<1>1. PaperTypeOK
  BY DEF BooksInvariant, BooksBalance
<1>2. /\ order[o].gross = 0 /\ order[o].filled = 0 /\ order[o].cash = 0 /\ order[o].shares = 0
      /\ Held(o) = 0 /\ \A i \in LotIndex : reserved[o][i] = 0
  BY IdleOrder DEF BooksInvariant, OrdersFit, Resting, Matchable
<1>3. /\ order'[o] = new /\ reserved'[o] = t
      /\ \A p \in Order \ {o} : order'[p] = order[p] /\ reserved'[p] = reserved[p]
  BY <1>1 DEF PaperTypeOK, PlacedWith
<1>4. /\ new.status \in {"open", "queued"} /\ new.generation = g /\ new.draft \in Draft
      /\ new.filled = 0 /\ new.gross = 0 /\ new.draft.side \in Side
      /\ new.draft.quantity \in Nat
  BY PaperAssumption DEF NewOrderFits
<1>5. PaperTypeOK'
  <2>1. order' \in [Order -> [status : OrderStatus, generation : Generation \cup {0},
                              draft : Draft \cup {NoDraft}, cash : Nat, shares : Nat,
                              expires : Nat, filled : Nat, gross : Nat]]
    <3> DEFINE R == [status : OrderStatus, generation : Generation \cup {0},
                     draft : Draft \cup {NoDraft}, cash : Nat, shares : Nat,
                     expires : Nat, filled : Nat, gross : Nat]
    <3>1. new \in R
      BY DEF OrderStatus, NewOrderFits
    <3>2. order \in [Order -> R]
      BY <1>1 DEF PaperTypeOK
    <3> HIDE DEF R
    <3>3. order' \in [Order -> R]
      BY <3>1, <3>2 DEF PlacedWith
    <3> QED BY <3>3 DEF R
  <2>2. \A p \in Order : order'[p].filled <= order'[p].draft.quantity
    <3> SUFFICES ASSUME NEW p \in Order PROVE order'[p].filled <= order'[p].draft.quantity
      OBVIOUS
    <3>1. CASE p = o
      BY <1>3, <1>4, <3>1
    <3>2. CASE p # o
      BY <1>1, <1>3, <3>2 DEF PaperTypeOK
    <3> QED BY <3>1, <3>2
  <2>3. reserved' \in [Order -> [LotIndex -> Nat]]
    BY <1>1 DEF PaperTypeOK, PlacedWith, NewOrderFits
  <2>4. \A h \in Generation : /\ Len(lots'[h]) <= MaxLots
                              /\ \A i \in DOMAIN lots'[h] : lots'[h][i].frozen <= lots'[h][i].remaining
    <3>0. \A h \in Generation : Len(lots'[h]) <= MaxLots /\ DOMAIN lots'[h] = DOMAIN lots[h]
      BY <1>1 DEF PaperTypeOK, LotsFrozenFor
    <3> SUFFICES ASSUME NEW h \in Generation, NEW i \in DOMAIN lots[h]
                 PROVE  lots'[h][i].frozen <= lots'[h][i].remaining
      BY <3>0
    <3>1. /\ lots[h][i].frozen \in Nat /\ lots[h][i].remaining \in Nat
          /\ lots[h][i].frozen <= lots[h][i].remaining /\ i \in LotIndex
      BY <1>1, LotTypes
    <3>2. t[i] \in Nat
      BY <3>1 DEF NewOrderFits
    <3>3. h = g /\ t[i] > 0 => t[i] <= lots[h][i].remaining - lots[h][i].frozen
      BY <3>1 DEF NewOrderFits
    <3>4. /\ lots'[h][i].remaining = lots[h][i].remaining
          /\ lots'[h][i].frozen = lots[h][i].frozen + (IF h = g THEN t[i] ELSE 0)
      BY DEF LotsFrozenFor
    <3>5. CASE h = g /\ t[i] > 0
      BY <3>1, <3>2, <3>3, <3>4, <3>5
    <3>6. CASE ~(h = g /\ t[i] > 0)
      BY <3>1, <3>2, <3>4, <3>6
    <3> QED BY <3>5, <3>6
  <2> QED BY <1>1, <2>1, <2>2, <2>3, <2>4
          DEF PaperTypeOK, PlacedWith, LotsFrozenFor, CashOnlyMoves
<1>6. \A h \in Generation :
        /\ Spent(h)' = Spent(h) /\ Earned(h)' = Earned(h)
        /\ Traded(BuysOf(h))' = Traded(BuysOf(h))
        /\ Traded(SellsOf(h))' = Traded(SellsOf(h))
  <2> SUFFICES ASSUME NEW h \in Generation, NEW p \in Order
               PROVE  /\ order'[p].gross = order[p].gross /\ order'[p].filled = order[p].filled
                      /\ \/ /\ p \in BuysOf(h)' <=> p \in BuysOf(h)
                            /\ p \in SellsOf(h)' <=> p \in SellsOf(h)
                         \/ order[p].gross = 0 /\ order[p].filled = 0
    BY <1>1, <1>5, TradesKept
  <2>1. CASE p = o
    BY <1>2, <1>3, <1>4, <2>1
  <2>2. CASE p # o
    BY <1>3, <2>2 DEF OrdersOf, BuysOf, SellsOf
  <2> QED BY <2>1, <2>2
<1>7. CashConserved'
  BY <1>6 DEF BooksInvariant, BooksBalance, CashConserved, CashAuthority, CashOnlyMoves
<1>8. ASSUME NEW h \in Generation PROVE ShareConservation(h)'
  <2>1. Holding(h)' = Holding(h)
    BY HoldingKept DEF LotsFrozenFor
  <2> QED BY <2>1, <1>6 DEF BooksInvariant, BooksBalance, SharesConserved, ShareConservation
<1>9. /\ \A p \in Order \ {o} : Held(p)' = Held(p)
      /\ Held(o)' = new.shares
  BY <1>3 DEF Held, NewOrderFits
<1>10. new.draft.side = "BUY" => new.shares = 0
  <2>1. DOMAIN t = LotIndex /\ IsFiniteSet(LotIndex)
    BY LotsAreFinite DEF NewOrderFits
  <2>2. ASSUME new.draft.side = "BUY" PROVE SumFunctionOnSet(t, LotIndex) = 0
    BY <2>1, <2>2, SumZero DEF NewOrderFits
  <2> QED BY <2>1, <2>2 DEF SumFunction, NewOrderFits
<1>11. ASSUME NEW h \in Generation PROVE ShareReservations(h)'
  <2>1. ShareReservations(h)
    BY DEF BooksInvariant, BooksBalance, SharesConserved
  <2>2. \A p \in Order \ {o} : /\ p \in OrdersOf(h)' <=> p \in OrdersOf(h)
                               /\ p \in SellsOf(h)' <=> p \in SellsOf(h)
    BY <1>3 DEF OrdersOf, BuysOf, SellsOf
  <2>3. SellsOf(h)' \subseteq Order /\ OrdersOf(h)' \subseteq Order
    BY DEF OrdersOf, SellsOf
  <2>4. \A p \in SellsOf(h)' : order'[p].shares = Held(p)'
    BY <1>3, <1>9, <2>1, <2>2, <2>3 DEF ShareReservations
  <2>5. \A p \in OrdersOf(h)' : order'[p].status \in Terminal => Held(p)' = 0 /\ order'[p].cash = 0
    BY <1>3, <1>4, <1>9, <2>1, <2>2, <2>3 DEF ShareReservations, Terminal
  <2>6. ASSUME NEW i \in DOMAIN lots'[h]
        PROVE  lots'[h][i].frozen = ReservedIn(i, SellsOf(h))'
    <3>1. /\ i \in DOMAIN lots[h] /\ i \in LotIndex /\ lots[h][i].frozen \in Nat
      <4>1. i \in DOMAIN lots[h]
        BY DEF LotsFrozenFor
      <4> QED BY <1>1, <4>1, LotTypes
    <3>2. lots[h][i].frozen = ReservedIn(i, SellsOf(h))
      BY <2>1, <3>1 DEF ShareReservations
    <3>3. /\ ReservedIn(i, SellsOf(h))' = ReservedIn(i, SellsOf(h))
               + (IF o \in SellsOf(h)' THEN reserved'[o][i] ELSE 0)
               - (IF o \in SellsOf(h) THEN reserved[o][i] ELSE 0)
          /\ reserved'[o][i] = t[i] /\ reserved[o][i] = 0
      BY <1>1, <1>2, <1>3, <1>5, <3>1, OneOrderReserves
    <3>4. o \in SellsOf(h)' <=> h = g /\ new.draft.side # "BUY"
      BY <1>3, <1>4 DEF OrdersOf, BuysOf, SellsOf
    <3>5. t[i] \in Nat /\ (new.draft.side = "BUY" => t[i] = 0)
      BY <3>1 DEF NewOrderFits
    <3>6. lots'[h][i].frozen = lots[h][i].frozen + (IF h = g THEN t[i] ELSE 0)
      BY <3>1 DEF LotsFrozenFor
    <3>7. ReservedIn(i, SellsOf(h)) \in Nat
      BY <3>1, <3>2
    <3> QED BY <3>2, <3>3, <3>4, <3>5, <3>6, <3>7
  <2> QED BY <2>4, <2>5, <2>6 DEF ShareReservations
<1>12. ReservationsFitOrders'
  <2>1. \A d, n, a : WorstCost(d, n, a)' = WorstCost(d, n, a)
    BY DEF WorstCost, Fee
  <2>2. new.status \in Resting /\ new.draft.quantity - 0 = new.draft.quantity
    BY <1>4 DEF Resting, Matchable
  <2> SUFFICES ASSUME NEW p \in Order
               PROVE  LET r == order'[p]
                          rest == r.draft.quantity - r.filled
                      IN IF r.status \in Resting
                         THEN IF r.draft.side = "BUY"
                              THEN r.cash = WorstCost(r.draft, r.filled, r.gross) /\ Held(p)' = 0
                              ELSE r.shares = rest /\ Held(p)' = rest /\ r.cash = 0
                         ELSE r.cash = 0 /\ r.shares = 0 /\ Held(p)' = 0
    BY <2>1 DEF ReservationsFitOrders
  <2>3. CASE p = o
    BY <1>3, <1>4, <1>9, <1>10, <2>2, <2>3 DEF Side, NewOrderFits
  <2>4. CASE p # o
    BY <1>3, <1>9, <2>4 DEF BooksInvariant, BooksBalance, ReservationsFitOrders
  <2> QED BY <2>3, <2>4
<1>13. OrdersFit'
  <2> SUFFICES ASSUME NEW p \in Order
               PROVE  /\ order'[p].status # "none" =>
                           /\ order'[p].generation \in Generation
                           /\ account'[order'[p].generation].status # "none"
                      /\ order'[p].status \in {"none", "awaiting_confirmation"} =>
                           order'[p].filled = 0 /\ order'[p].gross = 0
    BY DEF OrdersFit
  <2>1. CASE p = o
    BY <1>3, <1>4, <2>1 DEF CashOnlyMoves
  <2>2. CASE p # o
    BY <1>3, <2>2 DEF BooksInvariant, OrdersFit, CashOnlyMoves
  <2> QED BY <2>1, <2>2
<1>14. AccountsInOrder'
  BY DEF BooksInvariant, AccountsInOrder, CashOnlyMoves
<1>15. PassesFit'
  <2>1. \A p \in Order : order'[p].filled = order[p].filled
    BY <1>2, <1>3, <1>4
  <2> QED BY <2>1 DEF BooksInvariant, PassesFit, PlacedWith
<1>16. LotsReserved'
  <2> SUFFICES ASSUME NEW p \in Order, NEW i \in LotIndex, reserved'[p][i] > 0
               PROVE  LET h == order'[p].generation IN
                      i \in DOMAIN lots'[h] /\ lots'[h][i].day < Day
    BY DEF LotsReserved, Day, PlacedWith
  <2>1. CASE p = o
    <3>1. t[i] > 0 /\ order'[p].generation = g
      BY <1>3, <1>4, <2>1
    <3>2. i \in DOMAIN lots[g] /\ lots[g][i].day < Day
      BY <3>1 DEF NewOrderFits
    <3> QED BY <3>1, <3>2 DEF LotsFrozenFor
  <2>2. CASE p # o
    <3>1. reserved[p][i] > 0 /\ order'[p] = order[p]
      BY <1>3, <2>2
    <3>2. order[p].generation \in Generation
      BY <3>1, HolderIsResting
    <3>3. i \in DOMAIN lots[order[p].generation] /\ lots[order[p].generation][i].day < Day
      BY <3>1 DEF BooksInvariant, LotsReserved
    <3> QED BY <3>1, <3>2, <3>3 DEF LotsFrozenFor
  <2> QED BY <2>1, <2>2
<1> QED BY <1>5, <1>7, <1>8, <1>11, <1>12, <1>13, <1>14, <1>15, <1>16
        DEF BooksInvariant, BooksBalance, SharesConserved

LEMMA PlaceKeeps ==
  ASSUME BooksInvariant, NEW o \in Order, NEW g \in Generation, NEW draft \in Draft,
         NEW expires \in Nat, Active(g),
         order[o].status \in {"none", "awaiting_confirmation"},
         Place(o, g, draft, expires)
  PROVE  BooksInvariant'
<1> DEFINE new == [status |-> IF Continuous THEN "open" ELSE "queued",
                   generation |-> g, draft |-> draft, expires |-> expires,
                   filled |-> 0, gross |-> 0,
                   cash |-> IF draft.side = "BUY" THEN WorstCost(draft, 0, 0) ELSE 0,
                   shares |-> IF draft.side = "SELL" THEN draft.quantity ELSE 0]
           zero == [i \in LotIndex |-> 0]
           taken == TakeInTurn(Sellable(g), draft.quantity)
<1>1. PaperTypeOK /\ account[g].status # "none"
  BY DEF BooksInvariant, BooksBalance, Active
<1>2. /\ draft.side \in Side /\ draft.quantity \in Nat /\ draft.limit \in Nat
      /\ WorstCost(draft, 0, 0) \in Nat
  <2>1. draft.side \in Side /\ draft.quantity \in Nat /\ draft.limit \in Nat
    BY PaperAssumption
  <2>2. 0 <= draft.quantity
    BY <2>1
  <2> QED BY <2>1, <2>2, WorstCostIsNat
<1>3. order' = [order EXCEPT ![o] = new] /\ UNCHANGED <<time, passes, books>>
  BY DEF Place
<1>4. /\ new \in [status : {"open", "queued"}, generation : {g}, draft : Draft, cash : Nat,
                  shares : Nat, expires : Nat, filled : {0}, gross : {0}]
      /\ new.draft = draft
      /\ draft.side = "BUY" => new.cash = WorstCost(draft, 0, 0) /\ new.shares = 0
      /\ draft.side = "SELL" => new.cash = 0 /\ new.shares = draft.quantity
  BY <1>2
<1>5. /\ account \in [Generation ->
           [status : AccountStatus, initial : Nat, available : Nat, frozen : Nat, edited : BOOLEAN]]
      /\ reserved \in [Order -> [LotIndex -> Nat]]
      /\ lots \in [Generation -> Seq([day : Nat, remaining : Nat, frozen : Nat])]
  BY <1>1 DEF PaperTypeOK
<1>6. zero \in [LotIndex -> Nat] /\ SumFunction(zero) = 0 /\ \A i \in LotIndex : zero[i] = 0
  <2>1. IsFiniteSet(LotIndex) /\ DOMAIN zero = LotIndex /\ \A i \in LotIndex : zero[i] = 0
    BY LotsAreFinite
  <2> HIDE DEF zero
  <2>2. SumFunctionOnSet(zero, LotIndex) = 0
    BY <2>1, SumZero
  <2> QED BY <2>1, <2>2 DEF SumFunction, zero
<1>7. CASE draft.side = "BUY"
  <2>1. /\ WorstCost(draft, 0, 0) <= account[g].available
        /\ account' = [account EXCEPT ![g].available = @ - WorstCost(draft, 0, 0),
                                      ![g].frozen = @ + WorstCost(draft, 0, 0)]
        /\ UNCHANGED <<lots, reserved>>
    BY <1>7 DEF Place, ReserveCash
  <2> HIDE DEF new, zero, taken
  <2>2. CashOnlyMoves
    <3> DEFINE w == WorstCost(draft, 0, 0)
    <3>1. w \in Nat /\ account[g].available - w \in Nat
      BY <1>2, <1>5, <2>1
    <3>2. account' = [account EXCEPT ![g].available = @ - w, ![g].frozen = @ + w]
      BY <2>1
    <3> HIDE DEF w
    <3> DEFINE R == [status : AccountStatus, initial : Nat, available : Nat, frozen : Nat, edited : BOOLEAN]
               a == [account[g] EXCEPT !.available = @ - w, !.frozen = @ + w]
    <3>3. account \in [Generation -> R] /\ account[g] \in R /\ account[g].frozen + w \in Nat
      BY <1>5, <3>1
    <3>4. /\ a \in R /\ a.status = account[g].status /\ a.initial = account[g].initial
          /\ a.available + a.frozen = account[g].available + account[g].frozen
      <4>1. account[g].available \in Nat /\ account[g].frozen \in Nat
        BY <3>3
      <4>2. a.available = account[g].available - w /\ a.frozen = account[g].frozen + w
        BY <3>3
      <4>3. a \in R /\ a.status = account[g].status /\ a.initial = account[g].initial
        BY <3>1, <3>3
      <4> QED BY <3>1, <4>1, <4>2, <4>3
    <3>5. account' = [account EXCEPT ![g] = a]
      BY <3>2, <3>3
    <3> HIDE DEF a, R
    <3>6. /\ account' \in [Generation -> R] /\ account'[g] = a
          /\ \A h \in Generation : h # g => account'[h] = account[h]
      BY <3>3, <3>4, <3>5
    <3> QED BY <3>4, <3>6 DEF CashOnlyMoves, R
  <2>3. reserved[o] = zero
    <3>1. \A i \in LotIndex : reserved[o][i] = 0
      BY IdleOrder DEF Resting, Matchable
    <3> QED BY <1>5, <3>1 DEF zero
  <2>4. PlacedWith(o, new, zero)
    BY <1>3, <1>5, <2>1, <2>3 DEF PlacedWith
  <2>5. NewOrderFits(g, new, zero)
    BY <1>4, <1>6, <1>7 DEF NewOrderFits
  <2>6. LotsFrozenFor(g, zero)
    <3>1. \A h \in Generation : \A i \in DOMAIN lots[h] :
            i \in LotIndex /\ lots[h][i].frozen \in Nat
      BY <1>1, LotTypes
    <3>2. \A h \in Generation : \A i \in DOMAIN lots[h] :
            lots[h][i].frozen = lots[h][i].frozen + (IF h = g THEN zero[i] ELSE 0)
      BY <1>6, <3>1
    <3> QED BY <1>5, <2>1, <3>2 DEF LotsFrozenFor
  <2> QED BY <1>1, <2>2, <2>4, <2>5, <2>6, PlaceStep
<1>8. CASE draft.side = "SELL"
  <2>1. /\ draft.quantity <= SumFunction(Sellable(g))
        /\ reserved' = [reserved EXCEPT ![o] = taken]
        /\ lots' = [lots EXCEPT ![g] =
             [i \in DOMAIN lots[g] |-> [lots[g][i] EXCEPT !.frozen = @ + taken[i]]]]
        /\ UNCHANGED account
    <3>1. ReserveShares(o, g, draft)
      BY <1>8 DEF Place
    <3>2. /\ draft.quantity <= SumFunction(Sellable(g))
          /\ reserved' = [reserved EXCEPT ![o] = taken]
          /\ UNCHANGED account
      BY <3>1 DEF ReserveShares, SellableShares
    <3>3. lots' = [lots EXCEPT ![g] =
             [i \in DOMAIN lots[g] |-> [lots[g][i] EXCEPT !.frozen = @ + taken[i]]]]
      BY <3>1 DEF ReserveShares
    <3> QED BY <3>2, <3>3
  <2>2. /\ Sellable(g) \in [LotIndex -> Nat]
        /\ \A i \in LotIndex : Sellable(g)[i] > 0 =>
             /\ i \in DOMAIN lots[g] /\ lots[g][i].day < Day
             /\ Sellable(g)[i] = lots[g][i].remaining - lots[g][i].frozen
    BY <1>1, SellableFits
  <2>3. /\ taken \in [LotIndex -> Nat] /\ SumFunction(taken) = draft.quantity
        /\ \A i \in LotIndex : taken[i] <= Sellable(g)[i]
    BY <1>2, <2>1, <2>2, Taken
  <2> HIDE DEF new, zero, taken
  <2>4. CashOnlyMoves
    BY <1>5, <2>1 DEF CashOnlyMoves
  <2>5. PlacedWith(o, new, taken)
    BY <1>3, <2>1 DEF PlacedWith
  <2>6. NewOrderFits(g, new, taken)
    <3>1. ASSUME NEW i \in LotIndex, taken[i] > 0
          PROVE  /\ i \in DOMAIN lots[g] /\ lots[g][i].day < Day
                 /\ taken[i] <= lots[g][i].remaining - lots[g][i].frozen
      <4>1. taken[i] \in Nat /\ Sellable(g)[i] \in Nat /\ taken[i] <= Sellable(g)[i]
        BY <2>2, <2>3
      <4>2. Sellable(g)[i] > 0
        BY <3>1, <4>1
      <4> QED BY <2>2, <4>1, <4>2
    <3> QED BY <1>4, <1>8, <2>3, <3>1 DEF NewOrderFits
  <2>7. LotsFrozenFor(g, taken)
    <3> DEFINE L == [i \in DOMAIN lots[g] |-> [lots[g][i] EXCEPT !.frozen = @ + taken[i]]]
    <3>1. lots' = [lots EXCEPT ![g] = L]
      BY <2>1
    <3>2. \A i \in DOMAIN lots[g] :
            /\ lots[g][i] \in [day : Nat, remaining : Nat, frozen : Nat] /\ taken[i] \in Nat
      BY <1>1, <2>3, LotTypes
    <3>3. /\ L = [i \in DOMAIN lots[g] |-> L[i]]
          /\ \A i \in DOMAIN lots[g] :
               /\ L[i] \in [day : Nat, remaining : Nat, frozen : Nat]
               /\ L[i].day = lots[g][i].day /\ L[i].remaining = lots[g][i].remaining
               /\ L[i].frozen = lots[g][i].frozen + taken[i]
      BY <3>2
    <3> HIDE DEF L
    <3>4. /\ L \in Seq([day : Nat, remaining : Nat, frozen : Nat])
          /\ Len(L) = Len(lots[g]) /\ DOMAIN L = DOMAIN lots[g]
      BY <1>1, <3>3, LotsRewritten
    <3>5. /\ lots'[g] = L /\ \A h \in Generation : h # g => lots'[h] = lots[h]
          /\ lots' \in [Generation -> Seq([day : Nat, remaining : Nat, frozen : Nat])]
      BY <1>5, <3>1, <3>4
    <3>6. \A h \in Generation : \A i \in DOMAIN lots[h] : lots[h][i].frozen \in Nat
      BY <1>1, LotTypes
    <3> SUFFICES ASSUME NEW h \in Generation
                 PROVE  /\ DOMAIN lots'[h] = DOMAIN lots[h] /\ Len(lots'[h]) = Len(lots[h])
                        /\ \A i \in DOMAIN lots[h] :
                             /\ lots'[h][i].day = lots[h][i].day
                             /\ lots'[h][i].remaining = lots[h][i].remaining
                             /\ lots'[h][i].frozen =
                                  lots[h][i].frozen + (IF h = g THEN taken[i] ELSE 0)
      BY <3>5 DEF LotsFrozenFor
    <3>7. CASE h = g
      BY <3>3, <3>4, <3>5, <3>7
    <3>8. CASE h # g
      BY <3>5, <3>6, <3>8
    <3> QED BY <3>7, <3>8
  <2> QED BY <1>1, <2>4, <2>5, <2>6, <2>7, PlaceStep
<1> QED BY <1>2, <1>7, <1>8 DEF Side

LEMMA ConfirmKeeps ==
  ASSUME BooksInvariant, NEW o \in Order, NEW draft \in Draft, Confirm(o, draft)
  PROVE  BooksInvariant'
<1>1. /\ order[o].status = "awaiting_confirmation" /\ Active(order[o].generation)
      /\ Place(o, order[o].generation, draft, order[o].expires)
  BY DEF Confirm
<1>2. order[o].generation \in Generation /\ order[o].expires \in Nat
  BY <1>1 DEF BooksInvariant, BooksBalance, PaperTypeOK, OrdersFit
<1> QED BY <1>1, <1>2, PlaceKeeps

LEMMA ExecuteApprovedKeeps ==
  ASSUME BooksInvariant, NEW o \in Order, NEW g \in Generation, NEW draft \in Draft,
         ExecuteApproved(o, g, draft)
  PROVE  BooksInvariant'
<1>1. ExpiresAt \in Nat
  BY TimeTypes DEF BooksInvariant, BooksBalance
<1> QED BY <1>1, PlaceKeeps DEF ExecuteApproved

-----------------------------------------------------------------------------
(* Orders that end give back what they hold.                               *)

LEMMA ReleaseAllKeeps ==
  ASSUME BooksInvariant, NEW B \in SUBSET Order, NEW status \in {"cancelled", "expired"},
         \A o \in B : order[o].status \in Resting, ReleaseAll(B, status)
  PROVE  BooksInvariant'
<1> DEFINE C(g) == ReservedCash(B \cap BuysOf(g))
           X(g, i) == ReservedIn(i, B \cap SellsOf(g))
<1>1. PaperTypeOK
  BY DEF BooksInvariant, BooksBalance
<1>2. /\ \A g \in Generation : C(g) <= account[g].frozen
      /\ account' = [g \in Generation |->
           [account[g] EXCEPT !.available = @ + C(g), !.frozen = @ - C(g)]]
      /\ UNCHANGED <<time, passes, books>>
  BY DEF ReleaseAll
<1>3. lots' = [g \in Generation |->
        [i \in DOMAIN lots[g] |-> [lots[g][i] EXCEPT !.frozen = @ - X(g, i)]]]
  BY DEF ReleaseAll
<1>4. /\ reserved' = [o \in Order |-> IF o \in B THEN [i \in LotIndex |-> 0] ELSE reserved[o]]
      /\ order' = [o \in Order |->
           IF o \in B THEN [order[o] EXCEPT !.status = status, !.cash = 0, !.shares = 0]
           ELSE order[o]]
  BY DEF ReleaseAll
<1>5. \A g \in Generation : C(g) \in Nat
  <2> SUFFICES ASSUME NEW g \in Generation PROVE C(g) \in Nat
    OBVIOUS
  <2> DEFINE f == [o \in Order |-> order[o].cash]
  <2>1. IsFiniteSet(B \cap BuysOf(g)) /\ \A o \in B \cap BuysOf(g) : f[o] \in Nat
    BY <1>1, OrdersAreFinite, OrderTypes
  <2> HIDE DEF f
  <2>2. SumFunctionOnSet(f, B \cap BuysOf(g)) \in Nat
    BY <2>1, SumNat
  <2> QED BY <2>2 DEF ReservedCash, f
<1>6. \A g \in Generation : \A i \in LotIndex :
        /\ X(g, i) \in Nat /\ ReservedIn(i, SellsOf(g)) \in Nat
        /\ X(g, i) <= ReservedIn(i, SellsOf(g))
  <2> SUFFICES ASSUME NEW g \in Generation, NEW i \in LotIndex
               PROVE  /\ X(g, i) \in Nat /\ ReservedIn(i, SellsOf(g)) \in Nat
                      /\ X(g, i) <= ReservedIn(i, SellsOf(g))
    OBVIOUS
  <2> DEFINE f == [o \in Order |-> reserved[o][i]]
             S == SellsOf(g)
             T == B \cap S
  <2>1. /\ IsFiniteSet(S) /\ IsFiniteSet(T) /\ T \in SUBSET S
        /\ \A o \in S : f[o] \in Nat
        /\ \A o \in T : f[o] \in Nat
    BY <1>1, OrdersAreFinite, OrderTypes
  <2> HIDE DEF f, S, T
  <2>2. /\ SumFunctionOnSet(f, S) \in Nat /\ SumFunctionOnSet(f, T) \in Nat
        /\ SumFunctionOnSet(f, T) <= SumFunctionOnSet(f, S)
    BY <2>1, SumNat, SumPart
  <2> QED BY <2>2 DEF ReservedIn, f, S, T
<1>7. \A g \in Generation : \A i \in DOMAIN lots[g] :
        /\ i \in LotIndex
        /\ lots[g][i] \in [day : Nat, remaining : Nat, frozen : Nat]
        /\ lots[g][i].frozen <= lots[g][i].remaining
        /\ lots[g][i].frozen = ReservedIn(i, SellsOf(g))
  BY <1>1, LotTypes DEF BooksInvariant, BooksBalance, SharesConserved, ShareReservations
<1> HIDE DEF C, X
<1>8. ASSUME NEW g \in Generation
      PROVE  /\ lots'[g] \in Seq([day : Nat, remaining : Nat, frozen : Nat])
             /\ DOMAIN lots'[g] = DOMAIN lots[g] /\ Len(lots'[g]) = Len(lots[g])
             /\ \A i \in DOMAIN lots[g] :
                  /\ lots'[g][i].day = lots[g][i].day
                  /\ lots'[g][i].remaining = lots[g][i].remaining
                  /\ lots'[g][i].frozen = lots[g][i].frozen - X(g, i)
                  /\ lots'[g][i].frozen <= lots'[g][i].remaining
  <2> DEFINE L == [i \in DOMAIN lots[g] |-> [lots[g][i] EXCEPT !.frozen = @ - X(g, i)]]
  <2>1. lots'[g] = L
    BY <1>3
  <2>2. \A i \in DOMAIN lots[g] :
          /\ lots[g][i] \in [day : Nat, remaining : Nat, frozen : Nat]
          /\ lots[g][i].frozen - X(g, i) \in Nat
          /\ lots[g][i].frozen - X(g, i) <= lots[g][i].remaining
    <3> SUFFICES ASSUME NEW i \in DOMAIN lots[g]
                 PROVE  /\ lots[g][i].frozen - X(g, i) \in Nat
                        /\ lots[g][i].frozen - X(g, i) <= lots[g][i].remaining
      BY <1>7
    <3>1. /\ lots[g][i].frozen \in Nat /\ lots[g][i].remaining \in Nat
          /\ lots[g][i].frozen <= lots[g][i].remaining
          /\ lots[g][i].frozen = ReservedIn(i, SellsOf(g)) /\ i \in LotIndex
      BY <1>7
    <3>2. X(g, i) \in Nat /\ X(g, i) <= lots[g][i].frozen
      BY <1>6, <3>1
    <3> QED BY <3>1, <3>2
  <2>3. /\ L = [i \in DOMAIN lots[g] |-> L[i]]
        /\ \A i \in DOMAIN lots[g] :
             /\ L[i] \in [day : Nat, remaining : Nat, frozen : Nat]
             /\ L[i].day = lots[g][i].day /\ L[i].remaining = lots[g][i].remaining
             /\ L[i].frozen = lots[g][i].frozen - X(g, i)
             /\ L[i].frozen <= L[i].remaining
    BY <2>2
  <2> HIDE DEF L
  <2>4. /\ L \in Seq([day : Nat, remaining : Nat, frozen : Nat])
        /\ Len(L) = Len(lots[g]) /\ DOMAIN L = DOMAIN lots[g]
    BY <1>1, <2>3, LotsRewritten
  <2> QED BY <2>1, <2>3, <2>4
<1>9. \A o \in Order :
        /\ order'[o].generation = order[o].generation /\ order'[o].draft = order[o].draft
        /\ order'[o].filled = order[o].filled /\ order'[o].gross = order[o].gross
        /\ order[o].status = "none" <=> order'[o].status = "none"
        /\ o \in B => /\ order'[o].status \in Terminal /\ order'[o].cash = 0 /\ order'[o].shares = 0
                      /\ reserved'[o] = [i \in LotIndex |-> 0]
                      /\ order[o].status \in Resting
        /\ o \notin B => order'[o] = order[o] /\ reserved'[o] = reserved[o]
  <2> DEFINE R == [status : OrderStatus, generation : Generation \cup {0},
                   draft : Draft \cup {NoDraft}, cash : Nat, shares : Nat,
                   expires : Nat, filled : Nat, gross : Nat]
  <2>1. order \in [Order -> R]
    BY <1>1 DEF PaperTypeOK
  <2> SUFFICES ASSUME NEW o \in Order
               PROVE  /\ order'[o].generation = order[o].generation /\ order'[o].draft = order[o].draft
                      /\ order'[o].filled = order[o].filled /\ order'[o].gross = order[o].gross
                      /\ order[o].status = "none" <=> order'[o].status = "none"
                      /\ o \in B => /\ order'[o].status \in Terminal
                                    /\ order'[o].cash = 0 /\ order'[o].shares = 0
                                    /\ reserved'[o] = [i \in LotIndex |-> 0]
                                    /\ order[o].status \in Resting
                      /\ o \notin B => order'[o] = order[o] /\ reserved'[o] = reserved[o]
    OBVIOUS
  <2>2. CASE o \in B
    <3>1. order'[o] = [order[o] EXCEPT !.status = status, !.cash = 0, !.shares = 0] /\ order[o] \in R
      BY <1>4, <2>1, <2>2
    <3> QED BY <1>4, <2>2, <3>1 DEF Terminal, Resting, Matchable
  <2>3. CASE o \notin B
    BY <1>4, <2>3
  <2> QED BY <2>2, <2>3
<1>10. PaperTypeOK'
  <2>1. account' \in [Generation ->
          [status : AccountStatus, initial : Nat, available : Nat, frozen : Nat, edited : BOOLEAN]]
    <3> SUFFICES ASSUME NEW g \in Generation
                 PROVE  [account[g] EXCEPT !.available = @ + C(g), !.frozen = @ - C(g)] \in
                          [status : AccountStatus, initial : Nat, available : Nat, frozen : Nat, edited : BOOLEAN]
      BY <1>2
    <3>1. account[g] \in [status : AccountStatus, initial : Nat, available : Nat, frozen : Nat, edited : BOOLEAN]
      BY <1>1 DEF PaperTypeOK
    <3>2. account[g].available + C(g) \in Nat /\ account[g].frozen - C(g) \in Nat
      <4>1. C(g) <= account[g].frozen
        BY <1>2
      <4>2. C(g) \in Nat /\ account[g].available \in Nat /\ account[g].frozen \in Nat
        BY <1>5, <3>1
      <4> QED BY <4>1, <4>2
    <3> QED BY <3>1, <3>2
  <2>2. order' \in [Order -> [status : OrderStatus, generation : Generation \cup {0},
                              draft : Draft \cup {NoDraft}, cash : Nat, shares : Nat,
                              expires : Nat, filled : Nat, gross : Nat]]
    <3> DEFINE R == [status : OrderStatus, generation : Generation \cup {0},
                     draft : Draft \cup {NoDraft}, cash : Nat, shares : Nat,
                     expires : Nat, filled : Nat, gross : Nat]
    <3>1. order \in [Order -> R]
      BY <1>1 DEF PaperTypeOK
    <3>2. status \in OrderStatus
      BY DEF OrderStatus
    <3>3. \A r \in R : [r EXCEPT !.status = status, !.cash = 0, !.shares = 0] \in R
      BY <3>2
    <3> HIDE DEF R
    <3>4. order' \in [Order -> R]
      BY <1>4, <3>1, <3>3
    <3> QED BY <3>4 DEF R
  <2>3. \A o \in Order : order'[o].filled <= order'[o].draft.quantity
    BY <1>1, <1>9 DEF PaperTypeOK
  <2>4. reserved' \in [Order -> [LotIndex -> Nat]]
    BY <1>1, <1>4 DEF PaperTypeOK
  <2>5. lots' \in [Generation -> Seq([day : Nat, remaining : Nat, frozen : Nat])]
    BY <1>3, <1>8
  <2>6. \A g \in Generation : /\ Len(lots'[g]) <= MaxLots
                              /\ \A i \in DOMAIN lots'[g] : lots'[g][i].frozen <= lots'[g][i].remaining
    BY <1>1, <1>8 DEF PaperTypeOK
  <2> QED BY <1>1, <1>2, <2>1, <2>2, <2>3, <2>4, <2>5, <2>6 DEF PaperTypeOK
<1>11. \A g : BuysOf(g)' = BuysOf(g) /\ SellsOf(g)' = SellsOf(g) /\ OrdersOf(g)' = OrdersOf(g)
  BY <1>9 DEF OrdersOf, BuysOf, SellsOf
<1>12. \A g \in Generation :
         /\ Spent(g)' = Spent(g) /\ Earned(g)' = Earned(g)
         /\ Traded(BuysOf(g))' = Traded(BuysOf(g))
         /\ Traded(SellsOf(g))' = Traded(SellsOf(g))
  BY <1>1, <1>9, <1>10, <1>11, TradesKept
<1>13. \A g \in Generation :
         /\ account'[g].status = account[g].status /\ account'[g].initial = account[g].initial
         /\ account'[g].available + account'[g].frozen = account[g].available + account[g].frozen
  <2> SUFFICES ASSUME NEW g \in Generation
               PROVE  /\ account'[g].status = account[g].status /\ account'[g].initial = account[g].initial
                      /\ account'[g].available + account'[g].frozen = account[g].available + account[g].frozen
    OBVIOUS
  <2>1. account[g] \in [status : AccountStatus, initial : Nat, available : Nat, frozen : Nat, edited : BOOLEAN]
    BY <1>1 DEF PaperTypeOK
  <2>2. account'[g] = [account[g] EXCEPT !.available = @ + C(g), !.frozen = @ - C(g)]
    BY <1>2
  <2>3. /\ account'[g].status = account[g].status /\ account'[g].initial = account[g].initial
        /\ account'[g].available = account[g].available + C(g)
        /\ account'[g].frozen = account[g].frozen - C(g)
    BY <2>1, <2>2
  <2>4. account[g].available \in Nat /\ account[g].frozen \in Nat /\ C(g) \in Nat
    BY <1>5, <2>1
  <2> QED BY <2>3, <2>4
<1>14. CashConserved'
  BY <1>12, <1>13 DEF BooksInvariant, BooksBalance, CashConserved, CashAuthority
<1>15. ASSUME NEW g \in Generation PROVE ShareConservation(g)'
  <2>1. Holding(g)' = Holding(g)
    BY <1>8, HoldingKept
  <2> QED BY <2>1, <1>12 DEF BooksInvariant, BooksBalance, SharesConserved, ShareConservation
<1>16. \A o \in Order : /\ o \in B => Held(o)' = 0
                        /\ o \notin B => Held(o)' = Held(o)
  <2> DEFINE zero == [i \in LotIndex |-> 0]
  <2>1. IsFiniteSet(LotIndex) /\ DOMAIN zero = LotIndex /\ \A i \in LotIndex : zero[i] = 0
    BY LotsAreFinite
  <2>2. \A o \in B : reserved'[o] = zero
    BY <1>9
  <2> HIDE DEF zero
  <2>3. SumFunction(zero) = 0
    BY <2>1, SumZero DEF SumFunction
  <2> QED BY <1>9, <2>2, <2>3 DEF Held
<1>17. ASSUME NEW g \in Generation PROVE ShareReservations(g)'
  <2>1. ShareReservations(g) /\ OrdersOf(g) \subseteq Order /\ SellsOf(g) \subseteq Order
    BY OrdersAreFinite DEF BooksInvariant, BooksBalance, SharesConserved
  <2>2. \A o \in SellsOf(g) : order'[o].shares = Held(o)'
    BY <1>9, <1>16, <2>1 DEF ShareReservations
  <2>3. \A o \in OrdersOf(g) : order'[o].status \in Terminal => Held(o)' = 0 /\ order'[o].cash = 0
    BY <1>9, <1>16, <2>1 DEF ShareReservations
  <2>4. ASSUME NEW i \in DOMAIN lots'[g] PROVE lots'[g][i].frozen = ReservedIn(i, SellsOf(g))'
    <3> DEFINE f == [o \in Order |-> reserved[o][i]]
               S == SellsOf(g)
               T == B \cap S
    <3>1. i \in DOMAIN lots[g] /\ i \in LotIndex
      BY <1>7, <1>8
    <3>2. IsFiniteSet(S) /\ S \subseteq Order /\ \A o \in S : f[o] \in Int
      BY <1>1, <3>1, OrdersAreFinite, OrderTypes
    <3>3. /\ T \in SUBSET S
          /\ \A o \in T : f'[o] = 0
          /\ \A o \in S \ T : f'[o] = f[o]
      BY <1>9, <3>1, <3>2
    <3>4. S' = S
      BY <1>11
    <3> HIDE DEF f, S, T
    <3>5. SumFunctionOnSet(f', S) = SumFunctionOnSet(f, S) - SumFunctionOnSet(f, T)
      BY <3>2, <3>3, SumReleased
    <3>6. ReservedIn(i, SellsOf(g))' = ReservedIn(i, SellsOf(g)) - X(g, i)
      BY <3>4, <3>5 DEF ReservedIn, f, S, T, X
    <3> QED BY <1>7, <1>8, <3>1, <3>6
  <2> QED BY <1>11, <2>2, <2>3, <2>4 DEF ShareReservations
<1>18. ReservationsFitOrders'
  <2>1. \A d, n, a : WorstCost(d, n, a)' = WorstCost(d, n, a)
    BY DEF WorstCost, Fee
  <2> SUFFICES ASSUME NEW o \in Order
               PROVE  LET r == order'[o]
                          rest == r.draft.quantity - r.filled
                      IN IF r.status \in Resting
                         THEN IF r.draft.side = "BUY"
                              THEN r.cash = WorstCost(r.draft, r.filled, r.gross) /\ Held(o)' = 0
                              ELSE r.shares = rest /\ Held(o)' = rest /\ r.cash = 0
                         ELSE r.cash = 0 /\ r.shares = 0 /\ Held(o)' = 0
    BY <2>1 DEF ReservationsFitOrders
  <2>2. CASE o \in B
    BY <1>9, <1>16, <2>2 DEF Terminal, Resting, Matchable
  <2>3. CASE o \notin B
    BY <1>9, <1>16, <2>3 DEF BooksInvariant, BooksBalance, ReservationsFitOrders
  <2> QED BY <2>2, <2>3
<1>19. OrdersFit'
  <2> SUFFICES ASSUME NEW o \in Order
               PROVE  /\ order'[o].status # "none" =>
                           /\ order'[o].generation \in Generation
                           /\ account'[order'[o].generation].status # "none"
                      /\ order'[o].status \in {"none", "awaiting_confirmation"} =>
                           order'[o].filled = 0 /\ order'[o].gross = 0
    BY DEF OrdersFit
  <2>1. order'[o].status # "none" => /\ order'[o].generation \in Generation
                                     /\ account'[order'[o].generation].status # "none"
    BY <1>9, <1>13 DEF BooksInvariant, OrdersFit
  <2>2. CASE o \in B
    BY <1>9, <2>1, <2>2 DEF Terminal
  <2>3. CASE o \notin B
    BY <1>9, <2>1, <2>3 DEF BooksInvariant, OrdersFit
  <2> QED BY <2>2, <2>3
<1>20. AccountsInOrder'
  BY <1>13 DEF BooksInvariant, AccountsInOrder
<1>21. PassesFit'
  BY <1>2, <1>9, ZenonT(30) DEF BooksInvariant, PassesFit
<1>22. LotsReserved'
  <2> SUFFICES ASSUME NEW o \in Order, NEW i \in LotIndex, reserved'[o][i] > 0
               PROVE  LET g == order'[o].generation IN
                      i \in DOMAIN lots'[g] /\ lots'[g][i].day < Day
    BY <1>2 DEF LotsReserved, Day
  <2>1. o \notin B /\ reserved[o][i] > 0
    BY <1>9
  <2>2. order[o].generation \in Generation
    BY <2>1, HolderIsResting
  <2>3. LET g == order[o].generation IN i \in DOMAIN lots[g] /\ lots[g][i].day < Day
    BY <2>1 DEF BooksInvariant, LotsReserved
  <2>4. order'[o].generation = order[o].generation
    BY <1>9
  <2>5. PICK g \in Generation : g = order[o].generation /\ g = order'[o].generation
    BY <2>2, <2>4
  <2>6. DOMAIN lots'[g] = DOMAIN lots[g] /\ \A j \in DOMAIN lots[g] : lots'[g][j].day = lots[g][j].day
    BY <1>8
  <2> QED BY <2>3, <2>5, <2>6
<1> QED BY <1>10, <1>14, <1>15, <1>17, <1>18, <1>19, <1>20, <1>21, <1>22
        DEF BooksInvariant, BooksBalance, SharesConserved

LEMMA CancelOrderKeeps ==
  ASSUME BooksInvariant, NEW o \in Order, CancelOrder(o)
  PROVE  BooksInvariant'
BY ReleaseAllKeeps DEF CancelOrder

LEMMA ExpireKeeps ==
  ASSUME BooksInvariant, NEW B \in SUBSET Order, Expire(B)
  PROVE  BooksInvariant'
BY ReleaseAllKeeps DEF Expire

-----------------------------------------------------------------------------
(* Fills.                                                                  *)

\* What a fill of n makes of an order, and leaves of the others.
FilledTo(o, n, total, cash, shares) ==
  /\ order' \in [Order -> [status : OrderStatus, generation : Generation \cup {0},
                            draft : Draft \cup {NoDraft}, cash : Nat, shares : Nat,
                            expires : Nat, filled : Nat, gross : Nat]]
  /\ order'[o].filled = order[o].filled + n
  /\ order'[o].gross = total
  /\ order'[o].cash = cash /\ order'[o].shares = shares
  /\ order'[o].draft = order[o].draft /\ order'[o].generation = order[o].generation
  /\ order'[o].status = IF order[o].filled + n = order[o].draft.quantity
                        THEN "filled" ELSE "partially_filled"
  /\ \A p \in Order \ {o} : order'[p] = order[p]
  /\ \A p \in Order : order'[p].filled <= order'[p].draft.quantity
  /\ \A g : /\ OrdersOf(g)' = OrdersOf(g) /\ BuysOf(g)' = BuysOf(g)
            /\ SellsOf(g)' = SellsOf(g)

LEMMA FilledOrder ==
  ASSUME PaperTypeOK, NEW o \in Order, order[o].status \in Matchable,
         NEW n \in Nat, n <= order[o].draft.quantity - order[o].filled,
         NEW gross \in Nat, NEW cash \in Nat, NEW shares \in Nat,
         Filled(o, n, gross, cash, shares)
  PROVE  FilledTo(o, n, order[o].gross + gross, cash, shares)
<1> DEFINE R == [status : OrderStatus, generation : Generation \cup {0},
                 draft : Draft \cup {NoDraft}, cash : Nat, shares : Nat,
                 expires : Nat, filled : Nat, gross : Nat]
           new == [order[o] EXCEPT
                     !.filled = order[o].filled + n,
                     !.gross = order[o].gross + gross,
                     !.status = IF order[o].filled + n = order[o].draft.quantity
                                THEN "filled" ELSE "partially_filled",
                     !.cash = cash, !.shares = shares]
<1>1. order \in [Order -> R] /\ order[o] \in R
  BY DEF PaperTypeOK
<1>2. order[o].filled \in Nat /\ order[o].gross \in Nat /\ order[o].draft.quantity \in Nat
  BY OrderTypes
<1>3. order' = [order EXCEPT ![o] = new]
  BY <1>1 DEF Filled
<1>4. /\ new \in R
      /\ new.filled = order[o].filled + n /\ new.gross = order[o].gross + gross
      /\ new.cash = cash /\ new.shares = shares
      /\ new.draft = order[o].draft /\ new.generation = order[o].generation
      /\ new.status = IF order[o].filled + n = order[o].draft.quantity
                      THEN "filled" ELSE "partially_filled"
  <2>1. order[o].filled + n \in Nat /\ order[o].gross + gross \in Nat
    BY <1>2
  <2>2. (IF order[o].filled + n = order[o].draft.quantity
         THEN "filled" ELSE "partially_filled") \in OrderStatus
    BY DEF OrderStatus
  <2> QED BY <1>1, <2>1, <2>2
<1> HIDE DEF new, R
<1>5. /\ order' \in [Order -> R] /\ order'[o] = new
      /\ \A p \in Order \ {o} : order'[p] = order[p]
  BY <1>1, <1>3, <1>4
<1>6. \A p \in Order : order'[p].filled <= order'[p].draft.quantity
  <2> SUFFICES ASSUME NEW p \in Order PROVE order'[p].filled <= order'[p].draft.quantity
    OBVIOUS
  <2>1. CASE p = o
    BY <1>2, <1>4, <1>5, <2>1
  <2>2. CASE p # o
    BY <1>5, <2>2 DEF PaperTypeOK
  <2> QED BY <2>1, <2>2
<1>7. \A p \in Order : /\ order'[p].generation = order[p].generation
                       /\ order'[p].draft = order[p].draft
                       /\ order'[p].status # "none" <=> order[p].status # "none"
  <2> SUFFICES ASSUME NEW p \in Order
               PROVE  /\ order'[p].generation = order[p].generation
                      /\ order'[p].draft = order[p].draft
                      /\ order'[p].status # "none" <=> order[p].status # "none"
    OBVIOUS
  <2>1. CASE p = o
    BY <1>4, <1>5, <2>1 DEF Matchable
  <2>2. CASE p # o
    BY <1>5, <2>2
  <2> QED BY <2>1, <2>2
<1>8. \A g : /\ OrdersOf(g)' = OrdersOf(g) /\ BuysOf(g)' = BuysOf(g) /\ SellsOf(g)' = SellsOf(g)
  BY <1>7 DEF OrdersOf, BuysOf, SellsOf
<1> QED BY <1>4, <1>5, <1>6, <1>8 DEF R, FilledTo

\* What a fill needs to know of its order.
LEMMA MatchedOrder ==
  ASSUME BooksInvariant, NEW o \in Order, NEW s \in DOMAIN books, MayMatch(o, s)
  PROVE  LET g == order[o].generation
             n == Executable(o, books[s])
             gross == n * books[s].price
             total == order[o].gross + gross
         IN
         /\ order[o].status \in Matchable /\ order[o].status \in Resting
         /\ g \in Generation /\ o \in OrdersOf(g)
         /\ \A h : o \in OrdersOf(h) => h = g
         /\ n \in Nat /\ n <= books[s].depth /\ n <= order[o].draft.quantity - order[o].filled
         /\ gross \in Nat /\ total \in Nat
         /\ Fee(order[o].gross) \in Nat /\ Fee(total) \in Nat /\ Fee(order[o].gross) <= Fee(total)
<1>1. PaperTypeOK
  BY DEF BooksInvariant, BooksBalance
<1>2. order[o].status \in Matchable /\ order[o].status \in Resting
  BY DEF MayMatch, Resting
<1>3. order[o].generation \in Generation /\ o \in OrdersOf(order[o].generation)
  BY <1>2 DEF BooksInvariant, OrdersFit, Matchable, OrdersOf
<1> DEFINE n == Executable(o, books[s])
           gross == n * books[s].price
           total == order[o].gross + gross
<1>4. /\ n \in Nat /\ n <= books[s].depth /\ n <= order[o].draft.quantity - order[o].filled
      /\ books[s].price \in Nat
  BY <1>1, ExecutableFits
<1> HIDE DEF n
<1>5. gross \in Nat
  BY <1>4
<1> HIDE DEF gross
<1>6. order[o].gross \in Nat /\ total \in Nat /\ order[o].gross <= total
  BY <1>1, <1>5, OrderTypes
<1> HIDE DEF total
<1>7. Fee(order[o].gross) \in Nat /\ Fee(total) \in Nat /\ Fee(order[o].gross) <= Fee(total)
  BY <1>6, FeeGrows
<1>8. \A h : o \in OrdersOf(h) => h = order[o].generation
  BY DEF OrdersOf
<1> QED BY <1>2, <1>3, <1>4, <1>5, <1>6, <1>7, <1>8 DEF n, gross, total

\* A lot that is new adds what was bought.
LEMMA HoldingGrows ==
  ASSUME PaperTypeOK, NEW g \in Generation, NEW day \in Nat, NEW n \in Nat,
         lots'[g] = Append(lots[g], [day |-> day, remaining |-> n, frozen |-> 0])
  PROVE  /\ lots'[g] \in Seq([day : Nat, remaining : Nat, frozen : Nat])
         /\ Len(lots'[g]) = Len(lots[g]) + 1
         /\ DOMAIN lots'[g] = DOMAIN lots[g] \cup {Len(lots[g]) + 1}
         /\ Len(lots[g]) + 1 \notin DOMAIN lots[g]
         /\ \A i \in DOMAIN lots[g] : lots'[g][i] = lots[g][i]
         /\ lots'[g][Len(lots[g]) + 1] = [day |-> day, remaining |-> n, frozen |-> 0]
         /\ Holding(g)' = Holding(g) + n
<1> DEFINE R == [day : Nat, remaining : Nat, frozen : Nat]
           lot == [day |-> day, remaining |-> n, frozen |-> 0]
           L == lots[g]
           M == lots'[g]
           N == Len(L)
<1>1. L \in Seq(R) /\ lot \in R
  BY DEF PaperTypeOK
<1>2. M = Append(L, lot)
  OBVIOUS
<1>a. N \in Nat /\ DOMAIN L = 1..N /\ IsFiniteSet(1..N) /\ \A i \in 1..N : L[i] \in R
  BY LotTypes, PaperAssumption
<1> HIDE DEF R, L, M, lot
<1>3. /\ M \in Seq(R) /\ Len(M) = N + 1 /\ DOMAIN M = 1..(N + 1)
      /\ M[N + 1] = lot /\ \A i \in 1..N : M[i] = L[i]
  BY <1>1, <1>2, <1>a
<1>4. 1..(N + 1) = 1..N \cup {N + 1} /\ N + 1 \notin 1..N
  BY <1>a
<1> DEFINE f == [i \in DOMAIN L |-> L[i].remaining]
           h == [i \in DOMAIN M |-> M[i].remaining]
<1>5. /\ \A i \in 1..N : f[i] = h[i] /\ f[i] \in Int
      /\ h[N + 1] = n
      /\ DOMAIN f = 1..N /\ DOMAIN h = 1..(N + 1)
  BY <1>a, <1>3, <1>4 DEF R, lot
<1> HIDE DEF N, f, h
<1>6. SumFunctionOnSet(h, 1..(N + 1)) = SumFunctionOnSet(f, 1..N) + n
  <2> DEFINE S == 1..N
             T == 1..(N + 1)
  <2>1. /\ IsFiniteSet(S) /\ IsFiniteSet(T)
        /\ N + 1 \in T /\ T \ {N + 1} = S /\ \A i \in T : h[i] \in Int
    <3>1. IsFiniteSet(T)
      BY <1>a, FS_Interval
    <3>2. \A i \in T : h[i] \in Int
      BY <1>4, <1>5
    <3> QED BY <1>a, <1>4, <3>1, <3>2
  <2>2. \A i \in S : f[i] = h[i] /\ f[i] \in Int
    BY <1>5
  <2> HIDE DEF S, T
  <2>3. SumFunctionOnSet(h, T) = h[N + 1] + SumFunctionOnSet(h, T \ {N + 1})
    BY <2>1, SumElement
  <2>4. SumFunctionOnSet(f, S) = SumFunctionOnSet(h, S) /\ SumFunctionOnSet(f, S) \in Int
    BY <2>1, <2>2, SumSame, SumInt
  <2>5. SumFunctionOnSet(h, T) = n + SumFunctionOnSet(h, S)
    BY <1>5, <2>1, <2>3
  <2>6. SumFunctionOnSet(h, T) = SumFunctionOnSet(f, S) + n
    BY <2>4, <2>5
  <2> QED BY <2>6 DEF S, T
<1>7. Holding(g)' = Holding(g) + n
  BY <1>5, <1>6 DEF Holding, SumFunction, f, h, L, M
<1> QED BY <1>a, <1>3, <1>4, <1>7 DEF R, lot, L, M, N

LEMMA FillBuyKeeps ==
  ASSUME BooksInvariant, NEW o \in Order, NEW s \in DOMAIN books, FillBuy(o, s)
  PROVE  BooksInvariant'
<1>0. PICK g \in Generation : g = order[o].generation
  BY MatchedOrder DEF FillBuy
<1> DEFINE n == Executable(o, books[s])
           gross == n * books[s].price
           total == order[o].gross + gross
           actual == gross + Fee(total) - Fee(order[o].gross)
           required == WorstCost(order[o].draft, order[o].filled + n, total)
           R == [status : AccountStatus, initial : Nat, available : Nat, frozen : Nat, edited : BOOLEAN]
<1>1. /\ order[o].draft.side = "BUY" /\ MayMatch(o, s) /\ Len(lots[g]) < MaxLots
      /\ actual + required <= account[g].frozen
      /\ RecordPass(o, s, n) /\ Filled(o, n, gross, required, 0)
      /\ UNCHANGED <<time, reserved, books>>
  BY <1>0 DEF FillBuy
<1>2. /\ account' = [account EXCEPT ![g].frozen = required,
                         ![g].available = @ + account[g].frozen - actual - required]
      /\ lots' = [lots EXCEPT ![g] = Append(@, [day |-> Day, remaining |-> n, frozen |-> 0])]
  BY <1>0 DEF FillBuy
<1>3. PaperTypeOK /\ Day \in Nat
  BY TimeTypes DEF BooksInvariant, BooksBalance
<1>4. /\ order[o].status \in Matchable /\ order[o].status \in Resting
      /\ o \in OrdersOf(g)
      /\ \A h : o \in OrdersOf(h) => h = g
      /\ n \in Nat /\ n <= books[s].depth /\ n <= order[o].draft.quantity - order[o].filled
      /\ gross \in Nat /\ total \in Nat
      /\ Fee(order[o].gross) \in Nat /\ Fee(total) \in Nat /\ Fee(order[o].gross) <= Fee(total)
  BY <1>0, <1>1, MatchedOrder
<1>5. /\ order[o].filled \in Nat /\ order[o].gross \in Nat
      /\ order[o].draft.quantity \in Nat /\ order[o].draft.limit \in Nat
  BY <1>3, OrderTypes
<1> HIDE DEF n, gross, total
<1>6. /\ required \in Nat
      /\ order[o].filled + n = order[o].draft.quantity => required = 0
  <2>1. order[o].filled + n \in Nat /\ order[o].filled + n <= order[o].draft.quantity
    BY <1>4, <1>5
  <2> QED BY <1>4, <1>5, <2>1, WorstCostIsNat
<1>7. actual \in Nat
  BY <1>4
<1>8. /\ order' \in [Order -> [status : OrderStatus, generation : Generation \cup {0},
                               draft : Draft \cup {NoDraft}, cash : Nat, shares : Nat,
                               expires : Nat, filled : Nat, gross : Nat]]
      /\ order'[o].filled = order[o].filled + n
      /\ order'[o].gross = total
      /\ order'[o].cash = required /\ order'[o].shares = 0
      /\ order'[o].draft = order[o].draft /\ order'[o].generation = g
      /\ order'[o].status = IF order[o].filled + n = order[o].draft.quantity
                            THEN "filled" ELSE "partially_filled"
      /\ \A p \in Order \ {o} : order'[p] = order[p]
      /\ \A p \in Order : order'[p].filled <= order'[p].draft.quantity
      /\ \A h : /\ OrdersOf(h)' = OrdersOf(h) /\ BuysOf(h)' = BuysOf(h)
                /\ SellsOf(h)' = SellsOf(h)
  <2> HIDE DEF required
  <2>1. /\ PaperTypeOK /\ order[o].status \in Matchable
        /\ n \in Nat /\ n <= order[o].draft.quantity - order[o].filled
        /\ gross \in Nat /\ required \in Nat /\ 0 \in Nat
        /\ Filled(o, n, gross, required, 0)
    BY <1>1, <1>3, <1>4, <1>6
  <2>2. FilledTo(o, n, total, required, 0)
    BY <2>1, FilledOrder DEF total
  <2> QED BY <1>0, <2>2 DEF FilledTo
<1> HIDE DEF actual, required
<1>9. /\ account' \in [Generation -> R]
      /\ account'[g].status = account[g].status /\ account'[g].initial = account[g].initial
      /\ account'[g].available + account'[g].frozen =
           account[g].available + account[g].frozen - actual
      /\ \A h \in Generation : h # g => account'[h] = account[h]
  <2> DEFINE a == [account[g] EXCEPT
                     !.frozen = required,
                     !.available = account[g].available + account[g].frozen - actual - required]
  <2>1. account \in [Generation -> R] /\ account[g] \in R
    BY <1>3, <1>4 DEF PaperTypeOK
  <2>2. /\ account[g].available \in Nat /\ account[g].frozen \in Nat
        /\ account[g].available + account[g].frozen - actual - required \in Nat
    <3>1. account[g].available \in Nat /\ account[g].frozen \in Nat
      BY <2>1
    <3>2. actual + required <= account[g].frozen
      BY <1>1
    <3> QED BY <1>6, <1>7, <3>1, <3>2
  <2>3. account' = [account EXCEPT ![g] = a]
    BY <1>2, <1>4, <2>1
  <2>4. /\ a \in R /\ a.status = account[g].status /\ a.initial = account[g].initial
        /\ a.frozen = required
        /\ a.available = account[g].available + account[g].frozen - actual - required
    BY <1>6, <2>1, <2>2
  <2>5. a.available + a.frozen = account[g].available + account[g].frozen - actual
    BY <1>6, <1>7, <2>2, <2>4
  <2> HIDE DEF a, R
  <2>6. /\ account' \in [Generation -> R] /\ account'[g] = a
        /\ \A h \in Generation : h # g => account'[h] = account[h]
    BY <1>4, <2>1, <2>3, <2>4
  <2> QED BY <2>4, <2>5, <2>6
<1>10. /\ lots'[g] = Append(lots[g], [day |-> Day, remaining |-> n, frozen |-> 0])
       /\ \A h \in Generation : h # g => lots'[h] = lots[h]
  <2>1. lots \in [Generation -> Seq([day : Nat, remaining : Nat, frozen : Nat])]
    BY <1>3 DEF PaperTypeOK
  <2> QED BY <1>2, <1>4, <2>1
<1> DEFINE N == Len(lots[g]) + 1
<1>11. /\ lots'[g] \in Seq([day : Nat, remaining : Nat, frozen : Nat])
       /\ Len(lots'[g]) = N
       /\ DOMAIN lots'[g] = DOMAIN lots[g] \cup {N} /\ N \notin DOMAIN lots[g]
       /\ \A i \in DOMAIN lots[g] : lots'[g][i] = lots[g][i]
       /\ lots'[g][N] = [day |-> Day, remaining |-> n, frozen |-> 0]
       /\ Holding(g)' = Holding(g) + n
  BY <1>3, <1>4, <1>10, HoldingGrows, ZenonT(30)
<1>12. N \in LotIndex /\ N <= MaxLots
  BY <1>1, <1>3, <1>4, PaperAssumption, LotTypes DEF LotIndex
<1> HIDE DEF N
<1>13. PassesFit' /\ passes' \in [Order -> Seq([snapshot : 1..MaxQuotes, quantity : Nat])]
  BY <1>1, <1>4, <1>8, PassRecorded
<1>14. PaperTypeOK'
  <2>1. lots' \in [Generation -> Seq([day : Nat, remaining : Nat, frozen : Nat])]
    BY <1>2, <1>3, <1>4, <1>10, <1>11 DEF PaperTypeOK
  <2>2. ASSUME NEW h \in Generation
        PROVE  /\ Len(lots'[h]) <= MaxLots
               /\ \A i \in DOMAIN lots'[h] : lots'[h][i].frozen <= lots'[h][i].remaining
    <3>1. CASE h = g
      <4>1. \A i \in DOMAIN lots[g] : lots[g][i].frozen <= lots[g][i].remaining
        BY <1>3, <1>4, LotTypes
      <4>2. \A i \in DOMAIN lots'[g] : lots'[g][i].frozen <= lots'[g][i].remaining
        <5> SUFFICES ASSUME NEW i \in DOMAIN lots'[g]
                     PROVE  lots'[g][i].frozen <= lots'[g][i].remaining
          OBVIOUS
        <5>1. CASE i \in DOMAIN lots[g]
          BY <1>11, <4>1, <5>1
        <5>2. CASE i = N
          BY <1>4, <1>11, <5>2
        <5> QED BY <1>11, <5>1, <5>2
      <4> QED BY <1>11, <1>12, <3>1, <4>2
    <3>2. CASE h # g
      BY <1>3, <1>10, <3>2 DEF PaperTypeOK
    <3> QED BY <3>1, <3>2
  <2> QED BY <1>1, <1>3, <1>8, <1>9, <1>13, <2>1, <2>2 DEF PaperTypeOK
<1>15. o \in BuysOf(g) /\ \A h : h # g => o \notin BuysOf(h) /\ o \notin SellsOf(h)
  BY <1>1, <1>4 DEF BuysOf, SellsOf
<1>16. o \notin SellsOf(g)
  BY <1>15 DEF SellsOf
<1>17. \A h \in Generation :
         /\ Spent(h)' = Spent(h) + (IF h = g THEN actual ELSE 0)
         /\ Earned(h)' = Earned(h)
         /\ Traded(BuysOf(h))' = Traded(BuysOf(h)) + (IF h = g THEN n ELSE 0)
         /\ Traded(SellsOf(h))' = Traded(SellsOf(h))
         /\ Spent(h) \in Int /\ Earned(h) \in Int
         /\ Traded(BuysOf(h)) \in Int /\ Traded(SellsOf(h)) \in Int
  <2> SUFFICES ASSUME NEW h \in Generation
               PROVE  /\ Spent(h)' = Spent(h) + (IF h = g THEN actual ELSE 0)
                      /\ Earned(h)' = Earned(h)
                      /\ Traded(BuysOf(h))' = Traded(BuysOf(h)) + (IF h = g THEN n ELSE 0)
                      /\ Traded(SellsOf(h))' = Traded(SellsOf(h))
                      /\ Spent(h) \in Int /\ Earned(h) \in Int
                      /\ Traded(BuysOf(h)) \in Int /\ Traded(SellsOf(h)) \in Int
    OBVIOUS
  <2>1. /\ Spent(h)' = Spent(h) + (IF o \in BuysOf(h)
              THEN order'[o].gross + Fee(order'[o].gross) - (order[o].gross + Fee(order[o].gross))
              ELSE 0)
        /\ Earned(h)' = Earned(h) + (IF o \in SellsOf(h)
              THEN order'[o].gross - Fee(order'[o].gross) - (order[o].gross - Fee(order[o].gross))
              ELSE 0)
        /\ Traded(BuysOf(h))' = Traded(BuysOf(h)) +
              (IF o \in BuysOf(h) THEN order'[o].filled - order[o].filled ELSE 0)
        /\ Traded(SellsOf(h))' = Traded(SellsOf(h)) +
              (IF o \in SellsOf(h) THEN order'[o].filled - order[o].filled ELSE 0)
        /\ Spent(h) \in Int /\ Earned(h) \in Int
        /\ Traded(BuysOf(h)) \in Int /\ Traded(SellsOf(h)) \in Int
    BY <1>3, <1>8, <1>14, OneOrderTrades
  <2>2. o \notin SellsOf(h) /\ (o \in BuysOf(h) <=> h = g)
    BY <1>15, <1>16
  <2>3. /\ order'[o].gross + Fee(order'[o].gross) - (order[o].gross + Fee(order[o].gross)) = actual
        /\ order'[o].filled - order[o].filled = n
    <3>1. /\ order'[o].gross = total /\ total = order[o].gross + gross
          /\ actual = gross + Fee(total) - Fee(order[o].gross)
          /\ order'[o].filled = order[o].filled + n
      BY <1>8 DEF total, actual
    <3> QED BY <1>4, <1>5, <3>1
  <2> QED BY <2>1, <2>2, <2>3
<1>18. CashConserved'
  <2> SUFFICES ASSUME NEW h \in Generation PROVE CashAuthority(h)'
    BY DEF CashConserved
  <2>1. account[h].available + account[h].frozen = account[h].initial - Spent(h) + Earned(h)
    BY DEF BooksInvariant, BooksBalance, CashConserved, CashAuthority
  <2>2. account[h].initial \in Nat /\ account[h].available \in Nat /\ account[h].frozen \in Nat
    BY <1>3 DEF PaperTypeOK
  <2>3. account'[h].available + account'[h].frozen = account'[h].initial - Spent(h)' + Earned(h)'
    <3>1. CASE h = g
      <4>1. /\ account'[h].initial = account[h].initial
            /\ account'[h].available + account'[h].frozen = account[h].available + account[h].frozen - actual
            /\ Spent(h)' = Spent(h) + actual /\ Earned(h)' = Earned(h)
        BY <1>9, <1>17, <3>1
      <4> QED BY <1>7, <1>17, <2>1, <2>2, <4>1
    <3>2. CASE h # g
      <4>1. account'[h] = account[h] /\ Spent(h)' = Spent(h) /\ Earned(h)' = Earned(h)
        BY <1>9, <1>17, <3>2
      <4> QED BY <2>1, <4>1
    <3> QED BY <3>1, <3>2
  <2> QED BY <2>3 DEF CashAuthority
<1>19. ASSUME NEW h \in Generation PROVE ShareConservation(h)'
  <2>1. Holding(h) = Traded(BuysOf(h)) - Traded(SellsOf(h))
    BY DEF BooksInvariant, BooksBalance, SharesConserved, ShareConservation
  <2>2. Holding(h)' = Holding(h) + (IF h = g THEN n ELSE 0)
    <3>1. CASE h = g
      BY <1>11, <3>1
    <3>2. CASE h # g
      <4>1. Holding(h)' = Holding(h)
        BY <1>10, <3>2 DEF Holding
      <4> QED BY <1>17, <2>1, <3>2, <4>1
    <3> QED BY <3>1, <3>2
  <2>3. Holding(h)' = Traded(BuysOf(h))' - Traded(SellsOf(h))'
    BY <1>4, <1>17, <2>1, <2>2
  <2> QED BY <2>3 DEF ShareConservation
<1>20. \A p : Held(p)' = Held(p)
  BY <1>1 DEF Held
<1>21. ASSUME NEW h \in Generation PROVE ShareReservations(h)'
  <2>1. ShareReservations(h) /\ OrdersOf(h) \subseteq Order /\ SellsOf(h) \subseteq Order
    BY OrdersAreFinite DEF BooksInvariant, BooksBalance, SharesConserved
  <2>2. \A p \in SellsOf(h) : order'[p].shares = Held(p)'
    BY <1>8, <1>15, <1>16, <1>20, <2>1 DEF ShareReservations
  <2>3. \A p \in OrdersOf(h) : order'[p].status \in Terminal => Held(p)' = 0 /\ order'[p].cash = 0
    <3> SUFFICES ASSUME NEW p \in OrdersOf(h), order'[p].status \in Terminal
                 PROVE  Held(p)' = 0 /\ order'[p].cash = 0
      OBVIOUS
    <3>1. CASE p = o
      <4>1. Held(o) = 0
        BY <1>1, <1>4 DEF BooksInvariant, BooksBalance, ReservationsFitOrders
      <4>2. order[o].filled + n = order[o].draft.quantity
        BY <1>8, <3>1 DEF Terminal
      <4> QED BY <1>6, <1>8, <1>20, <3>1, <4>1, <4>2
    <3>2. CASE p # o
      BY <1>8, <1>20, <2>1, <3>2 DEF ShareReservations
    <3> QED BY <3>1, <3>2
  <2>4. ASSUME NEW i \in DOMAIN lots'[h] PROVE lots'[h][i].frozen = ReservedIn(i, SellsOf(h))'
    <3>1. ReservedIn(i, SellsOf(h))' = ReservedIn(i, SellsOf(h))
      BY <1>1, <1>8 DEF ReservedIn
    <3>2. CASE i \in DOMAIN lots[h]
      BY <1>10, <1>11, <2>1, <3>1, <3>2 DEF ShareReservations
    <3>3. CASE i \notin DOMAIN lots[h]
      <4>1. h = g /\ i = N
        BY <1>10, <1>11, <3>3
      <4>2. lots'[h][i].frozen = 0
        BY <1>11, <4>1
      <4> DEFINE f == [p \in Order |-> reserved[p][i]]
                 S == SellsOf(h)
      <4>3. \A p \in S : f[p] = 0
        <5> SUFFICES ASSUME NEW p \in S PROVE reserved[p][i] = 0
          BY <2>1
        <5>1. p \in Order /\ order[p].generation = h
          BY DEF SellsOf, OrdersOf
        <5>2. reserved[p][i] \in Nat
          BY <1>3, <1>12, <4>1, <5>1 DEF PaperTypeOK
        <5>3. ~(reserved[p][i] > 0)
          BY <1>12, <3>3, <4>1, <5>1 DEF BooksInvariant, LotsReserved
        <5> QED BY <5>2, <5>3
      <4>4. IsFiniteSet(S)
        BY OrdersAreFinite
      <4> HIDE DEF f, S
      <4>5. SumFunctionOnSet(f, S) = 0
        BY <4>3, <4>4, SumZero
      <4> QED BY <3>1, <4>2, <4>5 DEF ReservedIn, f, S
    <3> QED BY <3>2, <3>3
  <2> QED BY <1>8, <2>2, <2>3, <2>4 DEF ShareReservations
<1>22. ReservationsFitOrders'
  <2>1. \A d, k, a : WorstCost(d, k, a)' = WorstCost(d, k, a)
    BY DEF WorstCost, Fee
  <2> SUFFICES ASSUME NEW p \in Order
               PROVE  LET r == order'[p]
                          rest == r.draft.quantity - r.filled
                      IN IF r.status \in Resting
                         THEN IF r.draft.side = "BUY"
                              THEN r.cash = WorstCost(r.draft, r.filled, r.gross) /\ Held(p)' = 0
                              ELSE r.shares = rest /\ Held(p)' = rest /\ r.cash = 0
                         ELSE r.cash = 0 /\ r.shares = 0 /\ Held(p)' = 0
    BY <2>1 DEF ReservationsFitOrders
  <2>2. CASE p = o
    <3>1. Held(o)' = 0
      BY <1>1, <1>4, <1>20 DEF BooksInvariant, BooksBalance, ReservationsFitOrders
    <3>2. order'[o].cash = WorstCost(order'[o].draft, order'[o].filled, order'[o].gross)
      BY <1>8 DEF required
    <3>3. order'[o].status \notin Resting => order'[o].cash = 0
      BY <1>6, <1>8 DEF Resting, Matchable
    <3> QED BY <1>1, <1>8, <2>2, <3>1, <3>2, <3>3
  <2>3. CASE p # o
    BY <1>8, <1>20, <2>3 DEF BooksInvariant, BooksBalance, ReservationsFitOrders
  <2> QED BY <2>2, <2>3
<1>23. OrdersFit'
  <2> SUFFICES ASSUME NEW p \in Order
               PROVE  /\ order'[p].status # "none" =>
                           /\ order'[p].generation \in Generation
                           /\ account'[order'[p].generation].status # "none"
                      /\ order'[p].status \in {"none", "awaiting_confirmation"} =>
                           order'[p].filled = 0 /\ order'[p].gross = 0
    BY DEF OrdersFit
  <2>1. \A h \in Generation : account'[h].status = account[h].status
    BY <1>9
  <2>2. CASE p = o
    <3>1. account[g].status # "none" /\ order'[p].status \notin {"none", "awaiting_confirmation"}
      BY <1>0, <1>4, <1>8, <2>2 DEF BooksInvariant, OrdersFit, Matchable
    <3> QED BY <1>4, <1>8, <2>1, <2>2, <3>1
  <2>3. CASE p # o
    BY <1>8, <2>1, <2>3 DEF BooksInvariant, OrdersFit
  <2> QED BY <2>2, <2>3
<1>24. AccountsInOrder'
  <2>1. \A h \in Generation : account'[h].status = account[h].status
    BY <1>9
  <2> QED BY <2>1 DEF BooksInvariant, AccountsInOrder
<1>25. LotsReserved'
  <2> SUFFICES ASSUME NEW p \in Order, NEW i \in LotIndex, reserved[p][i] > 0
               PROVE  LET h == order'[p].generation IN
                      i \in DOMAIN lots'[h] /\ lots'[h][i].day < Day
    BY <1>1 DEF LotsReserved, Day
  <2>1. order'[p].generation = order[p].generation
    BY <1>0, <1>8
  <2>2. order[p].generation \in Generation
    BY HolderIsResting
  <2>3. LET h == order[p].generation IN i \in DOMAIN lots[h] /\ lots[h][i].day < Day
    BY DEF BooksInvariant, LotsReserved
  <2> QED BY <1>10, <1>11, <2>1, <2>2, <2>3
<1> QED BY <1>13, <1>14, <1>18, <1>19, <1>21, <1>22, <1>23, <1>24, <1>25
        DEF BooksInvariant, BooksBalance, SharesConserved

\* Shares that leave the lots leave the holding.
LEMMA HoldingShrinks ==
  ASSUME PaperTypeOK, NEW g \in Generation, NEW t \in [LotIndex -> Nat], NEW n \in Nat,
         SumFunction(t) = n,
         \A i \in LotIndex : i \notin DOMAIN lots[g] => t[i] = 0,
         DOMAIN lots'[g] = DOMAIN lots[g],
         \A i \in DOMAIN lots[g] : lots'[g][i].remaining = lots[g][i].remaining - t[i]
  PROVE  Holding(g)' = Holding(g) - n
<1> DEFINE D == DOMAIN lots[g]
           f == [i \in D |-> lots[g][i].remaining]
           h == [i \in D |-> lots'[g][i].remaining]
<1>1. /\ IsFiniteSet(LotIndex) /\ IsFiniteSet(D) /\ D \subseteq LotIndex
      /\ \A i \in D : lots[g][i].remaining \in Nat
  <2>1. IsFiniteSet(LotIndex)
    BY LotsAreFinite
  <2>2. IsFiniteSet(D) /\ D \subseteq LotIndex
    BY LotTypes
  <2>3. \A i \in D : lots[g][i] \in [day : Nat, remaining : Nat, frozen : Nat]
    BY LotTypes
  <2> QED BY <2>1, <2>2, <2>3
<1>2. /\ \A i \in D : f[i] \in Int
      /\ \A i \in D : t[i] \in Int
      /\ \A i \in D : h[i] = f[i] - t[i]
  BY <1>1
<1>3. /\ \A i \in LotIndex \cup D : t[i] \in Int
      /\ \A i \in (LotIndex \ D) \cup (D \ LotIndex) : t[i] = 0
      /\ DOMAIN t = LotIndex
  BY <1>1
<1>4. Holding(g) = SumFunctionOnSet(f, D) /\ Holding(g)' = SumFunctionOnSet(h, D)
  BY DEF Holding, SumFunction
<1> HIDE DEF D, f, h
<1>5. SumFunctionOnSet(t, D) = SumFunctionOnSet(t, LotIndex)
  BY <1>1, <1>3, SumAlike
<1>6. SumFunctionOnSet(h, D) = SumFunctionOnSet(f, D) - SumFunctionOnSet(t, D)
  BY <1>1, <1>2, SumDifference
<1>7. SumFunctionOnSet(t, LotIndex) = n
  BY <1>3 DEF SumFunction
<1> QED BY <1>4, <1>5, <1>6, <1>7

LEMMA FillSellKeeps ==
  ASSUME BooksInvariant, NEW o \in Order, NEW s \in DOMAIN books, FillSell(o, s)
  PROVE  BooksInvariant'
<1>0. PICK g \in Generation : g = order[o].generation
  BY MatchedOrder DEF FillSell
<1> DEFINE n == Executable(o, books[s])
           gross == n * books[s].price
           total == order[o].gross + gross
           fee == Fee(total) - Fee(order[o].gross)
           taken == TakeInTurn(reserved[o], n)
           R == [status : AccountStatus, initial : Nat, available : Nat, frozen : Nat, edited : BOOLEAN]
           Lot == [day : Nat, remaining : Nat, frozen : Nat]
<1>1. /\ order[o].draft.side = "SELL" /\ MayMatch(o, s)
      /\ n <= Held(o) /\ fee <= account[g].available + gross
      /\ account' = [account EXCEPT ![g].available = @ + gross - fee]
      /\ reserved' = [reserved EXCEPT ![o] = [i \in LotIndex |-> reserved[o][i] - taken[i]]]
  BY <1>0 DEF FillSell
<1>2. lots' = [lots EXCEPT ![g] =
        [i \in DOMAIN lots[g] |->
           [lots[g][i] EXCEPT !.remaining = @ - taken[i], !.frozen = @ - taken[i]]]]
  BY <1>0 DEF FillSell
<1>3. /\ RecordPass(o, s, n) /\ Filled(o, n, gross, 0, order[o].shares - n)
      /\ UNCHANGED <<time, books>>
  BY DEF FillSell
<1>4. PaperTypeOK
  BY DEF BooksInvariant, BooksBalance
<1>5. /\ order[o].status \in Matchable /\ order[o].status \in Resting
      /\ o \in OrdersOf(g)
      /\ \A h : o \in OrdersOf(h) => h = g
      /\ n \in Nat /\ n <= books[s].depth /\ n <= order[o].draft.quantity - order[o].filled
      /\ gross \in Nat /\ total \in Nat
      /\ Fee(order[o].gross) \in Nat /\ Fee(total) \in Nat /\ Fee(order[o].gross) <= Fee(total)
  BY <1>0, <1>1, MatchedOrder
<1>6. /\ order[o].filled \in Nat /\ order[o].gross \in Nat
      /\ order[o].draft.quantity \in Nat
      /\ reserved[o] \in [LotIndex -> Nat] /\ Held(o) = SumFunction(reserved[o])
  BY <1>4, OrderTypes DEF Held
<1> HIDE DEF n, gross, total
<1>7. /\ taken \in [LotIndex -> Nat] /\ SumFunction(taken) = n
      /\ \A i \in LotIndex : taken[i] <= reserved[o][i]
  BY <1>1, <1>5, <1>6, Taken
<1>8. /\ order[o].shares = order[o].draft.quantity - order[o].filled
      /\ Held(o) = order[o].draft.quantity - order[o].filled /\ order[o].cash = 0
  BY <1>1, <1>5 DEF BooksInvariant, BooksBalance, ReservationsFitOrders
<1>9. order[o].shares - n \in Nat
  BY <1>5, <1>6, <1>8
<1>10. fee \in Nat
  BY <1>5
<1>11. /\ order' \in [Order -> [status : OrderStatus, generation : Generation \cup {0},
                                draft : Draft \cup {NoDraft}, cash : Nat, shares : Nat,
                                expires : Nat, filled : Nat, gross : Nat]]
       /\ order'[o].filled = order[o].filled + n
       /\ order'[o].gross = total
       /\ order'[o].cash = 0 /\ order'[o].shares = order[o].shares - n
       /\ order'[o].draft = order[o].draft /\ order'[o].generation = g
       /\ order'[o].status = IF order[o].filled + n = order[o].draft.quantity
                             THEN "filled" ELSE "partially_filled"
       /\ \A p \in Order \ {o} : order'[p] = order[p]
       /\ \A p \in Order : order'[p].filled <= order'[p].draft.quantity
       /\ \A h : /\ OrdersOf(h)' = OrdersOf(h) /\ BuysOf(h)' = BuysOf(h)
                 /\ SellsOf(h)' = SellsOf(h)
  <2>1. /\ PaperTypeOK /\ order[o].status \in Matchable
        /\ n \in Nat /\ n <= order[o].draft.quantity - order[o].filled
        /\ gross \in Nat /\ 0 \in Nat
        /\ Filled(o, n, gross, 0, order[o].shares - n)
    BY <1>1, <1>3, <1>4, <1>5
  <2>2. FilledTo(o, n, total, 0, order[o].shares - n)
    BY <1>9, <2>1, FilledOrder DEF total
  <2> QED BY <1>0, <2>2 DEF FilledTo
<1> HIDE DEF taken, fee
<1>12. /\ account' \in [Generation -> R]
       /\ account'[g].status = account[g].status /\ account'[g].initial = account[g].initial
       /\ account'[g].available + account'[g].frozen =
            account[g].available + account[g].frozen + gross - fee
       /\ \A h \in Generation : h # g => account'[h] = account[h]
  <2> DEFINE a == [account[g] EXCEPT !.available = @ + gross - fee]
  <2>1. account \in [Generation -> R] /\ account[g] \in R
    BY <1>4 DEF PaperTypeOK
  <2>2. /\ account[g].available \in Nat /\ account[g].frozen \in Nat
        /\ account[g].available + gross - fee \in Nat
    <3>1. account[g].available \in Nat /\ account[g].frozen \in Nat
      BY <2>1
    <3>2. fee <= account[g].available + gross
      BY <1>1
    <3> QED BY <1>5, <1>10, <3>1, <3>2
  <2>3. account' = [account EXCEPT ![g] = a]
    BY <1>1, <2>1
  <2>4. /\ a \in R /\ a.status = account[g].status /\ a.initial = account[g].initial
        /\ a.frozen = account[g].frozen /\ a.available = account[g].available + gross - fee
    BY <2>1, <2>2
  <2>5. a.available + a.frozen = account[g].available + account[g].frozen + gross - fee
    BY <1>5, <1>10, <2>2, <2>4
  <2> HIDE DEF a, R
  <2>6. /\ account' \in [Generation -> R] /\ account'[g] = a
        /\ \A h \in Generation : h # g => account'[h] = account[h]
    BY <2>1, <2>3, <2>4
  <2> QED BY <2>4, <2>5, <2>6
<1>13. \A i \in LotIndex : taken[i] > 0 => i \in DOMAIN lots[g] /\ lots[g][i].day < Day
  <2> SUFFICES ASSUME NEW i \in LotIndex, taken[i] > 0
               PROVE  i \in DOMAIN lots[g] /\ lots[g][i].day < Day
    OBVIOUS
  <2>1. reserved[o][i] > 0
    BY <1>6, <1>7
  <2> QED BY <1>0, <2>1 DEF BooksInvariant, LotsReserved
<1>14. /\ reserved' \in [Order -> [LotIndex -> Nat]]
       /\ \A p \in Order \ {o} : reserved'[p] = reserved[p]
       /\ \A i \in LotIndex : reserved'[o][i] = reserved[o][i] - taken[i]
  <2> DEFINE r == [i \in LotIndex |-> reserved[o][i] - taken[i]]
  <2>1. reserved \in [Order -> [LotIndex -> Nat]]
    BY <1>4 DEF PaperTypeOK
  <2>2. r \in [LotIndex -> Nat]
    <3> SUFFICES ASSUME NEW i \in LotIndex PROVE reserved[o][i] - taken[i] \in Nat
      OBVIOUS
    <3>1. reserved[o][i] \in Nat /\ taken[i] \in Nat /\ taken[i] <= reserved[o][i]
      BY <1>6, <1>7
    <3> QED BY <3>1
  <2>3. reserved' = [reserved EXCEPT ![o] = r] /\ \A i \in LotIndex : r[i] = reserved[o][i] - taken[i]
    BY <1>1
  <2> HIDE DEF r
  <2> QED BY <2>1, <2>2, <2>3
<1>15. o \in SellsOf(g) /\ o \notin BuysOf(g) /\ \A h : h # g => o \notin BuysOf(h) /\ o \notin SellsOf(h)
  BY <1>1, <1>5 DEF BuysOf, SellsOf
<1>16. \A i \in DOMAIN lots[g] :
         /\ i \in LotIndex /\ lots[g][i] \in Lot
         /\ lots[g][i].frozen <= lots[g][i].remaining
         /\ lots[g][i].frozen = ReservedIn(i, SellsOf(g))
         /\ taken[i] \in Nat /\ taken[i] <= lots[g][i].frozen
  <2> SUFFICES ASSUME NEW i \in DOMAIN lots[g]
               PROVE  /\ i \in LotIndex /\ lots[g][i] \in Lot
                      /\ lots[g][i].frozen <= lots[g][i].remaining
                      /\ lots[g][i].frozen = ReservedIn(i, SellsOf(g))
                      /\ taken[i] \in Nat /\ taken[i] <= lots[g][i].frozen
    OBVIOUS
  <2>1. /\ i \in LotIndex /\ lots[g][i] \in Lot
        /\ lots[g][i].frozen <= lots[g][i].remaining
    BY <1>4, LotTypes
  <2>2. lots[g][i].frozen = ReservedIn(i, SellsOf(g))
    BY DEF BooksInvariant, BooksBalance, SharesConserved, ShareReservations
  <2> DEFINE f == [p \in Order |-> reserved[p][i]]
             S == SellsOf(g)
  <2>3. IsFiniteSet(S) /\ o \in S /\ f[o] = reserved[o][i] /\ \A p \in S : f[p] \in Nat
    BY <1>4, <1>15, <2>1, OrdersAreFinite, OrderTypes
  <2> HIDE DEF f, S
  <2>4. f[o] <= SumFunctionOnSet(f, S) /\ SumFunctionOnSet(f, S) \in Nat
    BY <2>3, SumMember, SumNat
  <2>5. reserved[o][i] <= lots[g][i].frozen
    BY <2>2, <2>3, <2>4 DEF ReservedIn, f, S
  <2>6. /\ taken[i] \in Nat /\ reserved[o][i] \in Nat /\ taken[i] <= reserved[o][i]
        /\ lots[g][i].frozen \in Nat
    BY <1>6, <1>7, <2>1
  <2> QED BY <2>1, <2>2, <2>5, <2>6
<1>17. /\ lots'[g] \in Seq(Lot)
       /\ DOMAIN lots'[g] = DOMAIN lots[g] /\ Len(lots'[g]) = Len(lots[g])
       /\ \A i \in DOMAIN lots[g] :
            /\ lots'[g][i].day = lots[g][i].day
            /\ lots'[g][i].remaining = lots[g][i].remaining - taken[i]
            /\ lots'[g][i].frozen = lots[g][i].frozen - taken[i]
            /\ lots'[g][i].frozen <= lots'[g][i].remaining
       /\ \A h \in Generation : h # g => lots'[h] = lots[h]
       /\ lots' \in [Generation -> Seq(Lot)]
  <2> DEFINE L == [i \in DOMAIN lots[g] |->
                     [lots[g][i] EXCEPT !.remaining = @ - taken[i], !.frozen = @ - taken[i]]]
  <2>1. lots' = [lots EXCEPT ![g] = L]
    BY <1>2
  <2>2. \A i \in DOMAIN lots[g] :
          /\ lots[g][i] \in Lot
          /\ lots[g][i].remaining - taken[i] \in Nat /\ lots[g][i].frozen - taken[i] \in Nat
          /\ lots[g][i].frozen - taken[i] <= lots[g][i].remaining - taken[i]
    <3> SUFFICES ASSUME NEW i \in DOMAIN lots[g]
                 PROVE  /\ lots[g][i].remaining - taken[i] \in Nat
                        /\ lots[g][i].frozen - taken[i] \in Nat
                        /\ lots[g][i].frozen - taken[i] <= lots[g][i].remaining - taken[i]
      BY <1>16
    <3>1. /\ lots[g][i].frozen \in Nat /\ lots[g][i].remaining \in Nat /\ taken[i] \in Nat
          /\ lots[g][i].frozen <= lots[g][i].remaining /\ taken[i] <= lots[g][i].frozen
      BY <1>16
    <3> QED BY <3>1
  <2>3. /\ L = [i \in DOMAIN lots[g] |-> L[i]]
        /\ \A i \in DOMAIN lots[g] :
             /\ L[i] \in Lot /\ L[i].day = lots[g][i].day
             /\ L[i].remaining = lots[g][i].remaining - taken[i]
             /\ L[i].frozen = lots[g][i].frozen - taken[i]
             /\ L[i].frozen <= L[i].remaining
    BY <2>2
  <2> HIDE DEF L
  <2>4. L \in Seq(Lot) /\ Len(L) = Len(lots[g]) /\ DOMAIN L = DOMAIN lots[g]
    BY <1>4, <2>3, LotsRewritten
  <2>5. lots \in [Generation -> Seq(Lot)]
    BY <1>4 DEF PaperTypeOK
  <2> HIDE DEF Lot
  <2>6. /\ lots'[g] = L /\ \A h \in Generation : h # g => lots'[h] = lots[h]
        /\ lots' \in [Generation -> Seq(Lot)]
    BY <2>1, <2>4, <2>5
  <2> QED BY <2>3, <2>4, <2>6
<1>18. PassesFit' /\ passes' \in [Order -> Seq([snapshot : 1..MaxQuotes, quantity : Nat])]
  BY <1>1, <1>3, <1>5, <1>11, PassRecorded
<1>19. PaperTypeOK'
  <2>1. ASSUME NEW h \in Generation
        PROVE  /\ Len(lots'[h]) <= MaxLots
               /\ \A i \in DOMAIN lots'[h] : lots'[h][i].frozen <= lots'[h][i].remaining
    <3>1. CASE h = g
      <4>1. Len(lots[g]) <= MaxLots
        BY <1>4 DEF PaperTypeOK
      <4> QED BY <1>17, <3>1, <4>1
    <3>2. CASE h # g
      BY <1>4, <1>17, <3>2 DEF PaperTypeOK
    <3> QED BY <3>1, <3>2
  <2> QED BY <1>3, <1>4, <1>11, <1>12, <1>14, <1>17, <1>18, <2>1 DEF PaperTypeOK
<1>20. \A h \in Generation :
         /\ Spent(h)' = Spent(h)
         /\ Earned(h)' = Earned(h) + (IF h = g THEN gross - fee ELSE 0)
         /\ Traded(BuysOf(h))' = Traded(BuysOf(h))
         /\ Traded(SellsOf(h))' = Traded(SellsOf(h)) + (IF h = g THEN n ELSE 0)
         /\ Spent(h) \in Int /\ Earned(h) \in Int
         /\ Traded(BuysOf(h)) \in Int /\ Traded(SellsOf(h)) \in Int
  <2> SUFFICES ASSUME NEW h \in Generation
               PROVE  /\ Spent(h)' = Spent(h)
                      /\ Earned(h)' = Earned(h) + (IF h = g THEN gross - fee ELSE 0)
                      /\ Traded(BuysOf(h))' = Traded(BuysOf(h))
                      /\ Traded(SellsOf(h))' = Traded(SellsOf(h)) + (IF h = g THEN n ELSE 0)
                      /\ Spent(h) \in Int /\ Earned(h) \in Int
                      /\ Traded(BuysOf(h)) \in Int /\ Traded(SellsOf(h)) \in Int
    OBVIOUS
  <2>1. /\ Spent(h)' = Spent(h) + (IF o \in BuysOf(h)
              THEN order'[o].gross + Fee(order'[o].gross) - (order[o].gross + Fee(order[o].gross))
              ELSE 0)
        /\ Earned(h)' = Earned(h) + (IF o \in SellsOf(h)
              THEN order'[o].gross - Fee(order'[o].gross) - (order[o].gross - Fee(order[o].gross))
              ELSE 0)
        /\ Traded(BuysOf(h))' = Traded(BuysOf(h)) +
              (IF o \in BuysOf(h) THEN order'[o].filled - order[o].filled ELSE 0)
        /\ Traded(SellsOf(h))' = Traded(SellsOf(h)) +
              (IF o \in SellsOf(h) THEN order'[o].filled - order[o].filled ELSE 0)
        /\ Spent(h) \in Int /\ Earned(h) \in Int
        /\ Traded(BuysOf(h)) \in Int /\ Traded(SellsOf(h)) \in Int
    BY <1>4, <1>11, <1>19, OneOrderTrades
  <2>2. o \notin BuysOf(h) /\ (o \in SellsOf(h) <=> h = g)
    BY <1>15
  <2>3. /\ order'[o].gross - Fee(order'[o].gross) - (order[o].gross - Fee(order[o].gross)) = gross - fee
        /\ order'[o].filled - order[o].filled = n
    <3>1. /\ order'[o].gross = total /\ total = order[o].gross + gross
          /\ fee = Fee(total) - Fee(order[o].gross)
          /\ order'[o].filled = order[o].filled + n
      BY <1>11 DEF total, fee
    <3> QED BY <1>5, <1>6, <3>1
  <2> QED BY <2>1, <2>2, <2>3
<1>21. CashConserved'
  <2> SUFFICES ASSUME NEW h \in Generation PROVE CashAuthority(h)'
    BY DEF CashConserved
  <2>1. account[h].available + account[h].frozen = account[h].initial - Spent(h) + Earned(h)
    BY DEF BooksInvariant, BooksBalance, CashConserved, CashAuthority
  <2>2. account[h].initial \in Nat /\ account[h].available \in Nat /\ account[h].frozen \in Nat
    BY <1>4 DEF PaperTypeOK
  <2>3. account'[h].available + account'[h].frozen = account'[h].initial - Spent(h)' + Earned(h)'
    <3>1. CASE h = g
      <4>1. /\ account'[h].initial = account[h].initial
            /\ account'[h].available + account'[h].frozen =
                 account[h].available + account[h].frozen + gross - fee
            /\ Spent(h)' = Spent(h) /\ Earned(h)' = Earned(h) + (gross - fee)
        BY <1>12, <1>20, <3>1
      <4> QED BY <1>5, <1>10, <1>20, <2>1, <2>2, <4>1
    <3>2. CASE h # g
      <4>1. account'[h] = account[h] /\ Spent(h)' = Spent(h) /\ Earned(h)' = Earned(h)
        BY <1>12, <1>20, <3>2
      <4> QED BY <2>1, <4>1
    <3> QED BY <3>1, <3>2
  <2> QED BY <2>3 DEF CashAuthority
<1>22. ASSUME NEW h \in Generation PROVE ShareConservation(h)'
  <2>1. Holding(h) = Traded(BuysOf(h)) - Traded(SellsOf(h))
    BY DEF BooksInvariant, BooksBalance, SharesConserved, ShareConservation
  <2>2. Holding(h)' = Holding(h) - (IF h = g THEN n ELSE 0)
    <3>1. CASE h = g
      <4>1. \A i \in LotIndex : i \notin DOMAIN lots[g] => taken[i] = 0
        <5> SUFFICES ASSUME NEW i \in LotIndex, i \notin DOMAIN lots[g] PROVE taken[i] = 0
          OBVIOUS
        <5>1. taken[i] \in Nat /\ ~(taken[i] > 0)
          BY <1>7, <1>13
        <5> QED BY <5>1
      <4>2. PICK t \in [LotIndex -> Nat] : t = taken
        BY <1>7
      <4>3. PICK m \in Nat : m = n
        BY <1>5
      <4>4. /\ SumFunction(t) = m
            /\ \A i \in LotIndex : i \notin DOMAIN lots[g] => t[i] = 0
            /\ DOMAIN lots'[g] = DOMAIN lots[g]
            /\ \A i \in DOMAIN lots[g] : lots'[g][i].remaining = lots[g][i].remaining - t[i]
        BY <1>7, <1>17, <4>1, <4>2, <4>3
      <4>5. Holding(g)' = Holding(g) - m
        BY <1>4, <4>4, HoldingShrinks
      <4> QED BY <3>1, <4>3, <4>5
    <3>2. CASE h # g
      <4>1. Holding(h)' = Holding(h)
        BY <1>17, <3>2 DEF Holding
      <4> QED BY <1>20, <2>1, <3>2, <4>1
    <3> QED BY <3>1, <3>2
  <2>3. Holding(h)' = Traded(BuysOf(h))' - Traded(SellsOf(h))'
    BY <1>5, <1>20, <2>1, <2>2
  <2> QED BY <2>3 DEF ShareConservation
<1>23. \A p \in Order : /\ p # o => Held(p)' = Held(p)
                        /\ Held(o)' = Held(o) - n
  <2>1. \A p \in Order \ {o} : Held(p)' = Held(p)
    BY <1>14 DEF Held
  <2> DEFINE r == reserved'[o]
             f == reserved[o]
  <2>2. /\ IsFiniteSet(LotIndex) /\ DOMAIN r = LotIndex /\ DOMAIN f = LotIndex /\ DOMAIN taken = LotIndex
        /\ \A i \in LotIndex : f[i] \in Int /\ taken[i] \in Int /\ r[i] = f[i] - taken[i]
    <3>1. IsFiniteSet(LotIndex)
      BY LotsAreFinite
    <3>2. r \in [LotIndex -> Nat]
      BY <1>14
    <3>3. \A i \in LotIndex : r[i] = f[i] - taken[i]
      BY <1>14
    <3> HIDE DEF r
    <3> QED BY <1>6, <1>7, <3>1, <3>2, <3>3
  <2>3. Held(o)' = SumFunction(r) /\ Held(o) = SumFunction(f)
    BY DEF Held
  <2> HIDE DEF r, f
  <2>4. SumFunctionOnSet(r, LotIndex) = SumFunctionOnSet(f, LotIndex) - SumFunctionOnSet(taken, LotIndex)
    BY <2>2, SumDifference
  <2>5. SumFunctionOnSet(taken, LotIndex) = n
    BY <1>7, <2>2 DEF SumFunction
  <2>6. Held(o)' = Held(o) - n
    BY <2>2, <2>3, <2>4, <2>5 DEF SumFunction
  <2> QED BY <2>1, <2>6
<1>24. ASSUME NEW h \in Generation PROVE ShareReservations(h)'
  <2>1. ShareReservations(h) /\ OrdersOf(h) \subseteq Order /\ SellsOf(h) \subseteq Order
    BY OrdersAreFinite DEF BooksInvariant, BooksBalance, SharesConserved
  <2>2. \A p \in SellsOf(h) : order'[p].shares = Held(p)'
    <3> SUFFICES ASSUME NEW p \in SellsOf(h) PROVE order'[p].shares = Held(p)'
      OBVIOUS
    <3>1. CASE p = o
      BY <1>8, <1>11, <1>23, <3>1
    <3>2. CASE p # o
      BY <1>11, <1>23, <2>1, <3>2 DEF ShareReservations
    <3> QED BY <3>1, <3>2
  <2>3. \A p \in OrdersOf(h) : order'[p].status \in Terminal => Held(p)' = 0 /\ order'[p].cash = 0
    <3> SUFFICES ASSUME NEW p \in OrdersOf(h), order'[p].status \in Terminal
                 PROVE  Held(p)' = 0 /\ order'[p].cash = 0
      OBVIOUS
    <3>1. CASE p = o
      <4>1. order[o].filled + n = order[o].draft.quantity
        BY <1>11, <3>1 DEF Terminal
      <4>2. Held(o) - n = 0
        BY <1>5, <1>6, <1>8, <4>1
      <4> QED BY <1>11, <1>23, <3>1, <4>2
    <3>2. CASE p # o
      BY <1>11, <1>23, <2>1, <3>2 DEF ShareReservations
    <3> QED BY <3>1, <3>2
  <2>4. ASSUME NEW i \in DOMAIN lots'[h] PROVE lots'[h][i].frozen = ReservedIn(i, SellsOf(h))'
    <3>1. i \in DOMAIN lots[h] /\ i \in LotIndex
      BY <1>4, <1>17, LotTypes
    <3>2. /\ ReservedIn(i, SellsOf(h))' = ReservedIn(i, SellsOf(h))
               + (IF o \in SellsOf(h)' THEN reserved'[o][i] ELSE 0)
               - (IF o \in SellsOf(h) THEN reserved[o][i] ELSE 0)
          /\ ReservedIn(i, SellsOf(h)) \in Nat
      BY <1>4, <1>11, <1>14, <1>19, <3>1, OneOrderReserves
    <3>3. o \in SellsOf(h)' <=> o \in SellsOf(h)
      BY <1>11
    <3>4. reserved'[o][i] = reserved[o][i] - taken[i] /\ reserved[o][i] \in Nat /\ taken[i] \in Nat
      BY <1>6, <1>7, <1>14, <3>1
    <3>5. lots[h][i].frozen = ReservedIn(i, SellsOf(h))
      BY <2>1, <3>1 DEF ShareReservations
    <3>6. CASE h = g
      <4>1. ReservedIn(i, SellsOf(h))' = ReservedIn(i, SellsOf(h)) - taken[i]
        BY <1>15, <3>2, <3>3, <3>4, <3>6
      <4>2. lots'[h][i].frozen = lots[h][i].frozen - taken[i]
        BY <1>17, <3>1, <3>6
      <4> QED BY <3>5, <4>1, <4>2
    <3>7. CASE h # g
      <4>1. ReservedIn(i, SellsOf(h))' = ReservedIn(i, SellsOf(h))
        BY <1>15, <3>2, <3>3, <3>7
      <4>2. lots'[h] = lots[h]
        BY <1>17, <3>7
      <4> QED BY <3>5, <4>1, <4>2
    <3> QED BY <3>6, <3>7
  <2> QED BY <1>11, <2>2, <2>3, <2>4 DEF ShareReservations
<1>25. ReservationsFitOrders'
  <2>1. \A d, k, a : WorstCost(d, k, a)' = WorstCost(d, k, a)
    BY DEF WorstCost, Fee
  <2> SUFFICES ASSUME NEW p \in Order
               PROVE  LET r == order'[p]
                          rest == r.draft.quantity - r.filled
                      IN IF r.status \in Resting
                         THEN IF r.draft.side = "BUY"
                              THEN r.cash = WorstCost(r.draft, r.filled, r.gross) /\ Held(p)' = 0
                              ELSE r.shares = rest /\ Held(p)' = rest /\ r.cash = 0
                         ELSE r.cash = 0 /\ r.shares = 0 /\ Held(p)' = 0
    BY <2>1 DEF ReservationsFitOrders
  <2>2. CASE p = o
    <3>1. /\ order'[o].shares = order'[o].draft.quantity - order'[o].filled
          /\ Held(o)' = order'[o].draft.quantity - order'[o].filled
      BY <1>5, <1>6, <1>8, <1>11, <1>23
    <3>2. order'[o].status \notin Resting => order'[o].draft.quantity - order'[o].filled = 0
      BY <1>5, <1>6, <1>11 DEF Resting, Matchable
    <3> QED BY <1>1, <1>11, <2>2, <3>1, <3>2
  <2>3. CASE p # o
    BY <1>11, <1>23, <2>3 DEF BooksInvariant, BooksBalance, ReservationsFitOrders
  <2> QED BY <2>2, <2>3
<1>26. OrdersFit'
  <2> SUFFICES ASSUME NEW p \in Order
               PROVE  /\ order'[p].status # "none" =>
                           /\ order'[p].generation \in Generation
                           /\ account'[order'[p].generation].status # "none"
                      /\ order'[p].status \in {"none", "awaiting_confirmation"} =>
                           order'[p].filled = 0 /\ order'[p].gross = 0
    BY DEF OrdersFit
  <2>1. \A h \in Generation : account'[h].status = account[h].status
    BY <1>12
  <2>2. CASE p = o
    <3>1. account[g].status # "none" /\ order'[p].status \notin {"none", "awaiting_confirmation"}
      BY <1>0, <1>5, <1>11, <2>2 DEF BooksInvariant, OrdersFit, Matchable
    <3> QED BY <1>11, <2>1, <2>2, <3>1
  <2>3. CASE p # o
    BY <1>11, <2>1, <2>3 DEF BooksInvariant, OrdersFit
  <2> QED BY <2>2, <2>3
<1>27. AccountsInOrder'
  <2>1. \A h \in Generation : account'[h].status = account[h].status
    BY <1>12
  <2> QED BY <2>1 DEF BooksInvariant, AccountsInOrder
<1>28. LotsReserved'
  <2> SUFFICES ASSUME NEW p \in Order, NEW i \in LotIndex, reserved'[p][i] > 0
               PROVE  LET h == order'[p].generation IN
                      i \in DOMAIN lots'[h] /\ lots'[h][i].day < Day
    BY <1>3 DEF LotsReserved, Day
  <2>1. order'[p].generation = order[p].generation
    BY <1>0, <1>11
  <2>2. reserved[p][i] > 0
    <3>1. CASE p = o
      <4>1. reserved'[o][i] = reserved[o][i] - taken[i] /\ reserved[o][i] \in Nat /\ taken[i] \in Nat
        BY <1>6, <1>7, <1>14
      <4> QED BY <3>1, <4>1
    <3>2. CASE p # o
      BY <1>14, <3>2
    <3> QED BY <3>1, <3>2
  <2>3. order[p].generation \in Generation
    BY <2>2, HolderIsResting
  <2>4. LET h == order[p].generation IN i \in DOMAIN lots[h] /\ lots[h][i].day < Day
    BY <2>2 DEF BooksInvariant, LotsReserved
  <2> QED BY <1>17, <2>1, <2>3, <2>4
<1> QED BY <1>18, <1>19, <1>21, <1>22, <1>24, <1>25, <1>26, <1>27, <1>28
        DEF BooksInvariant, BooksBalance, SharesConserved

-----------------------------------------------------------------------------
(* The invariant holds.                                                    *)

LEMMA InitHolds == PaperInit => BooksInvariant
<1> SUFFICES ASSUME PaperInit PROVE BooksInvariant
  OBVIOUS
<1>1. /\ time = 0 /\ account = [g \in Generation |-> NoAccount] /\ books = <<>>
      /\ order = [o \in Order |-> NoOrder] /\ passes = [o \in Order |-> <<>>]
      /\ lots = [g \in Generation |-> <<>>]
      /\ reserved = [o \in Order |-> [i \in LotIndex |-> 0]]
  BY DEF PaperInit
<1>2. \A g \in Generation : account[g] = NoAccount /\ lots[g] = <<>>
  BY <1>1
<1>3. \A o \in Order : /\ order[o] = NoOrder /\ passes[o] = <<>>
                       /\ reserved[o] = [i \in LotIndex |-> 0]
  BY <1>1
<1>4. \A g : OrdersOf(g) = {} /\ BuysOf(g) = {} /\ SellsOf(g) = {}
  BY <1>3 DEF OrdersOf, BuysOf, SellsOf, NoOrder
<1>5. \A o \in Order : Held(o) = 0
  <2> DEFINE zero == [i \in LotIndex |-> 0]
  <2>1. IsFiniteSet(LotIndex) /\ DOMAIN zero = LotIndex /\ \A i \in LotIndex : zero[i] = 0
    BY LotsAreFinite
  <2>2. \A o \in Order : reserved[o] = zero
    BY <1>3
  <2> HIDE DEF zero
  <2>3. SumFunction(zero) = 0
    BY <2>1, SumZero DEF SumFunction
  <2> QED BY <2>2, <2>3 DEF Held
<1>6. PaperTypeOK
  <2>1. NoAccount \in [status : AccountStatus, initial : Nat, available : Nat, frozen : Nat,
                       edited : BOOLEAN]
    BY DEF NoAccount, AccountStatus
  <2>2. NoOrder \in [status : OrderStatus, generation : Generation \cup {0},
                     draft : Draft \cup {NoDraft}, cash : Nat, shares : Nat,
                     expires : Nat, filled : Nat, gross : Nat]
    BY DEF NoOrder, OrderStatus
  <2>3. NoOrder.filled <= NoOrder.draft.quantity
    BY DEF NoOrder, NoDraft
  <2>4. time \in 0..MaxTime
    BY <1>1, PaperAssumption
  <2>5. passes \in [Order -> Seq([snapshot : 1..MaxQuotes, quantity : Nat])]
    BY <1>1
  <2>6. lots \in [Generation -> Seq([day : Nat, remaining : Nat, frozen : Nat])]
    BY <1>1
  <2>7. \A g \in Generation : /\ Len(lots[g]) <= MaxLots
                              /\ \A i \in DOMAIN lots[g] : lots[g][i].frozen <= lots[g][i].remaining
    BY <1>2, PaperAssumption
  <2>8. reserved \in [Order -> [LotIndex -> Nat]]
    BY <1>1
  <2>9. books \in Seq([side : Side, price : Nat, depth : Nat, at : Nat])
    BY <1>1
  <2>10. /\ account \in [Generation ->
              [status : AccountStatus, initial : Nat, available : Nat, frozen : Nat, edited : BOOLEAN]]
         /\ order \in [Order ->
              [status : OrderStatus, generation : Generation \cup {0}, draft : Draft \cup {NoDraft},
               cash : Nat, shares : Nat, expires : Nat, filled : Nat, gross : Nat]]
    BY <1>1, <2>1, <2>2
  <2> QED BY <1>3, <2>3, <2>4, <2>5, <2>6, <2>7, <2>8, <2>9, <2>10 DEF PaperTypeOK
<1>7. CashConserved
  <2> SUFFICES ASSUME NEW g \in Generation PROVE CashAuthority(g)
    BY DEF CashConserved
  <2>1. Spent(g) = 0 /\ Earned(g) = 0
    BY <1>4, SumEmpty DEF Spent, Earned
  <2>2. account[g].available = 0 /\ account[g].frozen = 0 /\ account[g].initial = 0
    BY <1>2 DEF NoAccount
  <2> QED BY <2>1, <2>2 DEF CashAuthority
<1>8. SharesConserved
  <2> SUFFICES ASSUME NEW g \in Generation PROVE ShareConservation(g) /\ ShareReservations(g)
    BY DEF SharesConserved
  <2>1. Holding(g) = 0
    <3>1. DOMAIN lots[g] = {}
      BY <1>2
    <3> QED BY <3>1, SumEmpty DEF Holding, SumFunction
  <2>2. Traded(BuysOf(g)) = 0 /\ Traded(SellsOf(g)) = 0
    BY <1>4, SumEmpty DEF Traded
  <2>3. ShareReservations(g)
    BY <1>2, <1>4 DEF ShareReservations
  <2> QED BY <2>1, <2>2, <2>3 DEF ShareConservation
<1>9. ReservationsFitOrders
  BY <1>3, <1>5 DEF ReservationsFitOrders, NoOrder, Resting, Matchable
<1>10. OrdersFit /\ AccountsInOrder /\ LotsReserved
  BY <1>2, <1>3 DEF OrdersFit, AccountsInOrder, LotsReserved, NoOrder, NoAccount
<1>11. PassesFit
  <2>1. Len(books) <= MaxQuotes
    BY <1>1, PaperAssumption
  <2> SUFFICES ASSUME NEW o \in Order
               PROVE  /\ DOMAIN passes[o] = {}
                      /\ order[o].filled = SumFunction([p \in DOMAIN passes[o] |-> passes[o][p].quantity])
    BY <2>1 DEF PassesFit
  <2>2. DOMAIN passes[o] = {}
    BY <1>3
  <2> QED BY <1>3, <2>2, SumEmpty DEF SumFunction, NoOrder
<1> QED BY <1>6, <1>7, <1>8, <1>9, <1>10, <1>11 DEF BooksInvariant, BooksBalance

LEMMA StutterKeeps ==
  ASSUME BooksInvariant, UNCHANGED paperVars
  PROVE  BooksInvariant'
<1>1. /\ account' = account
      /\ UNCHANGED <<time, order, passes, lots, reserved, books>>
  BY DEF paperVars
<1>2. /\ \A g \in Generation : account[g].status = "none" => account[g].status = "none"
      /\ account \in [Generation ->
           [status : AccountStatus, initial : Nat, available : Nat, frozen : Nat, edited : BOOLEAN]]
  BY DEF BooksInvariant, BooksBalance, PaperTypeOK
<1>3. AccountsInOrder'
  BY <1>1 DEF BooksInvariant, AccountsInOrder
<1> QED BY <1>1, <1>2, <1>3, AccountStep

LEMMA NextKeeps == BooksInvariant /\ [PaperNext]_paperVars => BooksInvariant'
<1> SUFFICES ASSUME BooksInvariant, [PaperNext]_paperVars PROVE BooksInvariant'
  OBVIOUS
<1>1. CASE UNCHANGED paperVars
  BY <1>1, StutterKeeps
<1>2. ASSUME NEW cash \in Cash, OpenAccount(cash) PROVE BooksInvariant'
  BY <1>2, OpenAccountKeeps
<1>3. ASSUME NEW cash \in Cash, EditInitialCash(cash) PROVE BooksInvariant'
  BY <1>3, EditInitialCashKeeps
<1>4. ASSUME NEW g \in Generation, NEW cash \in Cash, Reset(g, cash) PROVE BooksInvariant'
  BY <1>4, ResetKeeps
<1>5. ASSUME NEW g \in Generation, NEW o \in Order, NEW draft \in Draft, Prepare(o, g, draft)
      PROVE  BooksInvariant'
  BY <1>5, PrepareKeeps
<1>6. ASSUME NEW g \in Generation, NEW o \in Order, NEW draft \in Draft, ExecuteApproved(o, g, draft)
      PROVE  BooksInvariant'
  BY <1>6, ExecuteApprovedKeeps
<1>7. ASSUME NEW g \in Generation, Reconcile(g) PROVE BooksInvariant'
  BY <1>7, ReconcileKeeps
<1>8. ASSUME NEW o \in Order, NEW draft \in Draft, Confirm(o, draft) PROVE BooksInvariant'
  BY <1>8, ConfirmKeeps
<1>9. ASSUME NEW o \in Order, ConfirmTooLate(o) PROVE BooksInvariant'
  BY <1>9, ConfirmTooLateKeeps
<1>10. ASSUME NEW o \in Order, CancelOrder(o) PROVE BooksInvariant'
  BY <1>10, CancelOrderKeeps
<1>11. ASSUME NEW o \in Order, NEW s \in DOMAIN books, MatchNothing(o, s) PROVE BooksInvariant'
  BY <1>11, MatchNothingKeeps
<1>12. ASSUME NEW o \in Order, NEW s \in DOMAIN books, FillBuy(o, s) PROVE BooksInvariant'
  BY <1>12, FillBuyKeeps
<1>13. ASSUME NEW o \in Order, NEW s \in DOMAIN books, FillSell(o, s) PROVE BooksInvariant'
  BY <1>13, FillSellKeeps
<1>14. ASSUME NEW B \in SUBSET Order, Expire(B) PROVE BooksInvariant'
  BY <1>14, ExpireKeeps
<1>15. ASSUME NEW B \in SUBSET Order, OpenQueued(B) PROVE BooksInvariant'
  BY <1>15, OpenQueuedKeeps
<1>16. ASSUME Tick PROVE BooksInvariant'
  BY <1>16, TickKeeps
<1>17. ASSUME NEW level \in Level, Quote(level) PROVE BooksInvariant'
  BY <1>17, QuoteKeeps
<1> QED
  BY <1>1, <1>2, <1>3, <1>4, <1>5, <1>6, <1>7, <1>8, <1>9, <1>10, <1>11, <1>12, <1>13, <1>14,
     <1>15, <1>16, <1>17
     DEF PaperNext

\* The invariant of the books holds in every state: they balance, every order
\* belongs to an account, generations follow one another, what an order of
\* shares holds is in lots of an earlier day, and no order passes a snapshot twice.
THEOREM BooksInvariantHolds == PaperSpec => []BooksInvariant
<1>1. PaperInit => BooksInvariant
  BY InitHolds
<1>2. BooksInvariant /\ [PaperNext]_paperVars => BooksInvariant'
  BY NextKeeps
<1> QED BY <1>1, <1>2, PTL DEF PaperSpec

\* The books of every generation always balance, whatever the orders, prices,
\* fees and interleavings of fills, releases and resets: cash is the deposit
\* and the trades, lots are what was bought and not sold, and every open order
\* holds exactly what the rest of it may need.
THEOREM BooksAlwaysBalance == PaperSpec => []BooksBalance
<1>1. BooksInvariant => BooksBalance
  BY DEF BooksInvariant
<1> QED BY <1>1, BooksInvariantHolds, PTL

LEMMA DepthTaken == BooksInvariant => TakesDepthOnce
<1> SUFFICES ASSUME BooksInvariant, NEW o \in Order
             PROVE  LET took(S) == SumFunctionOnSet([p \in DOMAIN passes[o] |-> passes[o][p].quantity],
                                      {p \in DOMAIN passes[o] : passes[o][p].snapshot \in S})
                    IN /\ order[o].filled = took(DOMAIN books)
                       /\ \A s \in DOMAIN books : took({s}) <= books[s].depth
  BY DEF TakesDepthOnce
<1> DEFINE D == DOMAIN passes[o]
           q == [p \in D |-> passes[o][p].quantity]
           P(S) == {p \in D : passes[o][p].snapshot \in S}
<1>1. /\ passes[o] \in Seq([snapshot : 1..MaxQuotes, quantity : Nat])
      /\ books \in Seq([side : Side, price : Nat, depth : Nat, at : Nat])
  BY DEF BooksInvariant, BooksBalance, PaperTypeOK
<1>2. \A p \in D : q[p] \in Nat
  <2> SUFFICES ASSUME NEW p \in D PROVE passes[o][p].quantity \in Nat
    OBVIOUS
  <2> DEFINE Pass == [snapshot : 1..MaxQuotes, quantity : Nat]
  <2>1. passes[o] \in Seq(Pass) /\ p \in DOMAIN passes[o]
    BY <1>1
  <2> HIDE DEF Pass
  <2>2. passes[o][p] \in Pass
    BY <2>1
  <2> QED BY <2>2 DEF Pass
<1>3. /\ \A p \in D : passes[o][p].snapshot \in DOMAIN books
      /\ \A p \in D : q[p] <= books[passes[o][p].snapshot].depth
      /\ \A p, r \in D : passes[o][p].snapshot = passes[o][r].snapshot => p = r
      /\ order[o].filled = SumFunction(q)
  BY DEF BooksInvariant, PassesFit
<1>4. SumFunction(q) = SumFunctionOnSet(q, D)
  BY DEF SumFunction
<1>5. P(DOMAIN books) = D
  BY <1>3
<1>6. ASSUME NEW s \in DOMAIN books PROVE SumFunctionOnSet(q, P({s})) <= books[s].depth
  <2>1. books[s].depth \in Nat
    BY BookTypes DEF BooksInvariant, BooksBalance
  <2>2. CASE P({s}) = {}
    <3>1. SumFunctionOnSet(q, P({s})) = 0
      BY <2>2, SumEmpty
    <3> QED BY <2>1, <3>1
  <2>3. CASE P({s}) # {}
    <3>1. PICK p \in D : passes[o][p].snapshot = s
      BY <2>3
    <3>2. P({s}) = {p}
      BY <1>3, <3>1
    <3>3. q[p] \in Int /\ q[p] <= books[s].depth
      BY <1>2, <1>3, <3>1
    <3> HIDE DEF q, P, D
    <3>4. SumFunctionOnSet(q, {p}) = q[p]
      BY <3>3, SumSingle
    <3> QED BY <3>2, <3>3, <3>4
  <2> QED BY <2>2, <2>3
<1> QED BY <1>3, <1>4, <1>5, <1>6

\* However a snapshot reaches an order, late, twice or while others are filled,
\* the order takes at most what the snapshot shows, and has filled what it took.
THEOREM DepthIsTakenOnce == PaperSpec => []TakesDepthOnce
<1> QED BY DepthTaken, BooksInvariantHolds, PTL

-----------------------------------------------------------------------------
(* What no step does.                                                      *)

LEMMA SoldIsReserved ==
  ASSUME BooksInvariant, NEW o \in Order, NEW s \in DOMAIN books, FillSell(o, s),
         NEW g \in Generation, NEW i \in DOMAIN lots[g],
         lots'[g][i].remaining < lots[g][i].remaining
  PROVE  lots[g][i].day < Day
<1>0. PICK h \in Generation : h = order[o].generation
  BY MatchedOrder DEF FillSell
<1> DEFINE n == Executable(o, books[s])
           taken == TakeInTurn(reserved[o], n)
           L == [j \in DOMAIN lots[h] |->
                   [lots[h][j] EXCEPT !.remaining = @ - taken[j], !.frozen = @ - taken[j]]]
<1>1. /\ MayMatch(o, s) /\ n <= Held(o)
      /\ lots' = [lots EXCEPT ![h] = L]
  BY <1>0 DEF FillSell
<1>2. PaperTypeOK /\ n \in Nat /\ reserved[o] \in [LotIndex -> Nat] /\ Held(o) = SumFunction(reserved[o])
  BY <1>1, MatchedOrder, OrderTypes DEF BooksInvariant, BooksBalance, Held
<1>3. lots \in [Generation -> Seq([day : Nat, remaining : Nat, frozen : Nat])]
  BY <1>2 DEF PaperTypeOK
<1>4. i \in LotIndex /\ lots[g][i] \in [day : Nat, remaining : Nat, frozen : Nat]
  BY <1>2, LotTypes
<1> HIDE DEF n
<1>5. taken \in [LotIndex -> Nat] /\ \A j \in LotIndex : taken[j] <= reserved[o][j]
  BY <1>1, <1>2, Taken
<1> HIDE DEF taken
<1>6. g = h
  <2>1. SUFFICES ASSUME g # h PROVE FALSE
    OBVIOUS
  <2>2. lots'[g] = lots[g]
    BY <1>1, <1>3, <2>1
  <2>3. lots[g][i].remaining \in Nat
    BY <1>4
  <2> QED BY <2>2, <2>3
<1>7. lots'[g][i].remaining = lots[g][i].remaining - taken[i]
  <2>1. lots'[g] = L
    BY <1>1, <1>3, <1>6
  <2>2. L[i] = [lots[g][i] EXCEPT !.remaining = @ - taken[i], !.frozen = @ - taken[i]]
    BY <1>6
  <2> HIDE DEF L
  <2> QED BY <1>4, <2>1, <2>2
<1>8. reserved[o][i] > 0
  <2>1. /\ taken[i] \in Nat /\ reserved[o][i] \in Nat /\ taken[i] <= reserved[o][i]
        /\ lots[g][i].remaining \in Nat
    BY <1>2, <1>4, <1>5
  <2> QED BY <1>7, <2>1
<1> QED BY <1>0, <1>4, <1>6, <1>8 DEF BooksInvariant, LotsReserved

\* Setting shares aside sells none.
LEMMA PlaceSellsNothing ==
  ASSUME BooksInvariant, NEW o \in Order, NEW h \in Generation, NEW draft \in Draft, NEW expires,
         Place(o, h, draft, expires), NEW g \in Generation, NEW i \in DOMAIN lots[g]
  PROVE  lots'[g][i].remaining = lots[g][i].remaining
<1>1. lots \in [Generation -> Seq([day : Nat, remaining : Nat, frozen : Nat])]
  BY DEF BooksInvariant, BooksBalance, PaperTypeOK
<1>2. CASE ReserveCash(o, h, draft)
  BY <1>2 DEF ReserveCash
<1>3. CASE ReserveShares(o, h, draft)
  <2> DEFINE taken == TakeInTurn(Sellable(h), draft.quantity)
             L == [j \in DOMAIN lots[h] |-> [lots[h][j] EXCEPT !.frozen = @ + taken[j]]]
  <2>1. lots' = [lots EXCEPT ![h] = L]
    BY <1>3 DEF ReserveShares
  <2>2. lots[g][i] \in [day : Nat, remaining : Nat, frozen : Nat]
    BY LotTypes DEF BooksInvariant, BooksBalance
  <2>3. CASE g = h
    <3>1. lots'[g] = L /\ L[i] = [lots[g][i] EXCEPT !.frozen = @ + taken[i]]
      BY <1>1, <2>1, <2>3
    <3> HIDE DEF L, taken
    <3> QED BY <2>2, <3>1
  <2>4. CASE g # h
    BY <1>1, <2>1, <2>4
  <2> QED BY <2>3, <2>4
<1> QED BY <1>2, <1>3 DEF Place

\* Nor does giving back what ended orders hold.
LEMMA ReleaseSellsNothing ==
  ASSUME BooksInvariant, NEW B \in SUBSET Order, NEW status, ReleaseAll(B, status),
         NEW g \in Generation, NEW i \in DOMAIN lots[g]
  PROVE  lots'[g][i].remaining = lots[g][i].remaining
<1> DEFINE X(h, j) == ReservedIn(j, B \cap SellsOf(h))
<1>1. lots' = [h \in Generation |->
        [j \in DOMAIN lots[h] |-> [lots[h][j] EXCEPT !.frozen = @ - X(h, j)]]]
  BY DEF ReleaseAll
<1>2. lots[g][i] \in [day : Nat, remaining : Nat, frozen : Nat]
  BY LotTypes DEF BooksInvariant, BooksBalance
<1> HIDE DEF X
<1>3. lots'[g][i] = [lots[g][i] EXCEPT !.frozen = @ - X(g, i)]
  BY <1>1
<1> QED BY <1>2, <1>3

LEMMA BuyingSellsNothing ==
  ASSUME BooksInvariant, NEW o \in Order, NEW s \in DOMAIN books, FillBuy(o, s),
         NEW g \in Generation, NEW i \in DOMAIN lots[g]
  PROVE  lots'[g][i].remaining = lots[g][i].remaining
<1>1. PICK h \in Generation : h = order[o].generation
  BY MatchedOrder DEF FillBuy
<1> DEFINE lot == [day |-> Day, remaining |-> Executable(o, books[s]), frozen |-> 0]
<1>2. lots' = [lots EXCEPT ![h] = Append(lots[h], lot)]
  BY <1>1 DEF FillBuy
<1>3. lots \in [Generation -> Seq([day : Nat, remaining : Nat, frozen : Nat])]
  BY DEF BooksInvariant, BooksBalance, PaperTypeOK
<1> HIDE DEF lot
<1>4. CASE g = h
  <2>1. lots'[g] = Append(lots[g], lot) /\ i \in 1..Len(lots[g]) /\ lots[g] \in Seq([day : Nat, remaining : Nat, frozen : Nat])
    BY <1>2, <1>3, <1>4
  <2>2. lots'[g][i] = lots[g][i]
    BY <2>1
  <2> QED BY <2>2
<1>5. CASE g # h
  BY <1>2, <1>3, <1>5
<1> QED BY <1>4, <1>5

\* A share is never sold on the trading day it was bought on, however the days,
\* the reservations and the fills of several orders interleave: what a sell
\* order may take was reserved, and only lots of an earlier day are.
THEOREM SharesSettleOvernight == PaperSpec => NothingSoldOnItsFirstDay
<1> DEFINE A == \A g \in Generation : \A i \in DOMAIN lots[g] :
                  lots'[g][i].remaining < lots[g][i].remaining => lots[g][i].day < Day
<1>1. BooksInvariant /\ [PaperNext]_paperVars => [A]_paperVars
  <2> SUFFICES ASSUME BooksInvariant, PaperNext, NEW g \in Generation, NEW i \in DOMAIN lots[g],
                      lots'[g][i].remaining < lots[g][i].remaining
               PROVE  lots[g][i].day < Day
    OBVIOUS
  <2>1. lots[g][i].remaining \in Nat
    BY LotTypes DEF BooksInvariant, BooksBalance
  <2>2. lots'[g][i].remaining # lots[g][i].remaining
    BY <2>1
  <2>3. lots' # lots
    BY <2>2
  <2>4. ASSUME NEW o \in Order, NEW h \in Generation, NEW draft \in Draft, NEW expires,
               Place(o, h, draft, expires)
        PROVE  FALSE
    BY <2>2, <2>4, PlaceSellsNothing
  <2>5. ASSUME NEW B \in SUBSET Order, NEW status, ReleaseAll(B, status) PROVE FALSE
    BY <2>2, <2>5, ReleaseSellsNothing
  <2>6. ASSUME NEW h \in Generation, NEW o \in Order, NEW draft \in Draft, ExecuteApproved(o, h, draft)
        PROVE  FALSE
    BY <2>4, <2>6 DEF ExecuteApproved
  <2>7. ASSUME NEW o \in Order, NEW draft \in Draft, Confirm(o, draft) PROVE FALSE
    <3>1. order[o].generation \in Generation
      BY <2>7 DEF Confirm, BooksInvariant, OrdersFit
    <3> QED BY <2>4, <2>7, <3>1 DEF Confirm
  <2>8. ASSUME NEW o \in Order, CancelOrder(o) PROVE FALSE
    BY <2>5, <2>8 DEF CancelOrder
  <2>9. ASSUME NEW B \in SUBSET Order, Expire(B) PROVE FALSE
    BY <2>5, <2>9 DEF Expire
  <2>10. ASSUME NEW o \in Order, NEW s \in DOMAIN books, FillBuy(o, s) PROVE FALSE
    BY <2>2, <2>10, BuyingSellsNothing
  <2>11. ASSUME NEW o \in Order, NEW s \in DOMAIN books, FillSell(o, s)
         PROVE  lots[g][i].day < Day
    BY <2>11, SoldIsReserved
  <2>12. ASSUME NEW cash \in Cash, OpenAccount(cash) \/ EditInitialCash(cash) PROVE FALSE
    BY <2>3, <2>12 DEF OpenAccount, EditInitialCash
  <2>13. ASSUME NEW h \in Generation, (\E cash \in Cash : Reset(h, cash)) \/ Reconcile(h) PROVE FALSE
    BY <2>3, <2>13 DEF Reset, Reconcile
  <2>14. ASSUME NEW h \in Generation, NEW o \in Order, NEW draft \in Draft, Prepare(o, h, draft)
         PROVE  FALSE
    BY <2>3, <2>14 DEF Prepare
  <2>15. ASSUME NEW o \in Order, ConfirmTooLate(o) PROVE FALSE
    BY <2>3, <2>15 DEF ConfirmTooLate
  <2>16. ASSUME NEW o \in Order, NEW s \in DOMAIN books, MatchNothing(o, s) PROVE FALSE
    BY <2>3, <2>16 DEF MatchNothing
  <2>17. ASSUME NEW B \in SUBSET Order, OpenQueued(B) PROVE FALSE
    BY <2>3, <2>17 DEF OpenQueued
  <2>18. ~Tick /\ \A level \in Level : ~Quote(level)
    BY <2>3 DEF Tick, Quote
  <2> QED BY <2>6, <2>7, <2>8, <2>9, <2>10, <2>11, <2>12, <2>13, <2>14, <2>15, <2>16, <2>17, <2>18
          DEF PaperNext
<1> QED BY <1>1, BooksInvariantHolds, PTL DEF PaperSpec, NothingSoldOnItsFirstDay

\* What a step must leave as it is of a closed account.
LeavesClosed(g) ==
  /\ account[g].status \in {"archived", "suspended"} =>
       /\ account'[g].status = account[g].status
       /\ account'[g].available + account'[g].frozen = account[g].available + account[g].frozen
       /\ account'[g].frozen <= account[g].frozen
       /\ \A o \in OrdersOf(g) : order'[o].filled = order[o].filled
  /\ account[g].status = "suspended" =>
       /\ account'[g] = account[g]
       /\ \A o \in OrdersOf(g) : order'[o] = order[o]

\* A step that touches neither the account nor its orders does.
LEMMA UntouchedIsLeft ==
  ASSUME BooksInvariant, NEW g \in Generation,
         account[g].status \in {"archived", "suspended"} =>
           account'[g] = account[g] /\ \A o \in OrdersOf(g) : order'[o] = order[o]
  PROVE  LeavesClosed(g)
<1>1. account[g].frozen \in Nat
  BY DEF BooksInvariant, BooksBalance, PaperTypeOK
<1> QED BY <1>1 DEF LeavesClosed

LEMMA PlaceLeaves ==
  ASSUME BooksInvariant, NEW o \in Order, NEW h \in Generation, NEW draft \in Draft, NEW expires,
         Place(o, h, draft, expires), Active(h),
         order[o].status = "none" \/ order[o].generation = h, NEW g \in Generation
  PROVE  LeavesClosed(g)
<1>1. /\ account \in [Generation -> [status : AccountStatus, initial : Nat, available : Nat,
                                     frozen : Nat, edited : BOOLEAN]]
      /\ DOMAIN order = Order
  BY DEF BooksInvariant, BooksBalance, PaperTypeOK
<1>2. \A p \in Order \ {o} : order'[p] = order[p]
  BY <1>1 DEF Place
<1>3. \A k \in Generation \ {h} : account'[k] = account[k]
  BY <1>1 DEF Place, ReserveCash, ReserveShares
<1>4. account[g].status \in {"archived", "suspended"} => g # h /\ o \notin OrdersOf(g)
  BY DEF Active, OrdersOf
<1>5. OrdersOf(g) \subseteq Order
  BY DEF OrdersOf
<1> QED BY <1>2, <1>3, <1>4, <1>5, UntouchedIsLeft

LEMMA ReleaseLeaves ==
  ASSUME BooksInvariant, NEW B \in SUBSET Order, NEW status, ReleaseAll(B, status),
         NEW g \in Generation,
         \A o \in B : account[order[o].generation].status \in {"active", "archived"}
  PROVE  LeavesClosed(g)
<1> DEFINE R == [status : AccountStatus, initial : Nat, available : Nat, frozen : Nat, edited : BOOLEAN]
           f == [o \in Order |-> order[o].cash]
           C == SumFunctionOnSet(f, B \cap BuysOf(g))
<1>1. PaperTypeOK
  BY DEF BooksInvariant, BooksBalance
<1>2. /\ account'[g] = [account[g] EXCEPT !.available = @ + C, !.frozen = @ - C]
      /\ C <= account[g].frozen
      /\ order' = [o \in Order |->
           IF o \in B THEN [order[o] EXCEPT !.status = status, !.cash = 0, !.shares = 0]
           ELSE order[o]]
  BY DEF ReleaseAll, ReservedCash
<1>3. account[g] \in R
  BY <1>1 DEF PaperTypeOK
<1>4. C \in Nat
  <2>1. IsFiniteSet(B \cap BuysOf(g)) /\ \A o \in B \cap BuysOf(g) : f[o] \in Nat
    BY <1>1, OrdersAreFinite, OrderTypes
  <2> HIDE DEF f
  <2> QED BY <2>1, SumNat
<1>5. account[g].status = "suspended" => B \cap OrdersOf(g) = {}
  BY DEF OrdersOf
<1>6. account[g].status = "suspended" => C = 0
  <2>1. account[g].status = "suspended" => B \cap BuysOf(g) = {}
    BY <1>5 DEF BuysOf
  <2> HIDE DEF f
  <2> QED BY <2>1, SumEmpty
<1> HIDE DEF C
<1>7. /\ account'[g].status = account[g].status
      /\ account'[g].available = account[g].available + C
      /\ account'[g].frozen = account[g].frozen - C
      /\ account[g].available \in Nat /\ account[g].frozen \in Nat
  BY <1>2, <1>3
<1>8. C = 0 => account'[g] = account[g]
  <2>1. account[g].available + 0 = account[g].available /\ account[g].frozen - 0 = account[g].frozen
    BY <1>7
  <2> QED BY <1>2, <1>3, <2>1
<1>9. /\ account'[g].available + account'[g].frozen = account[g].available + account[g].frozen
      /\ account'[g].frozen <= account[g].frozen
  BY <1>4, <1>7
<1>10. \A o \in Order : /\ order'[o].filled = order[o].filled
                        /\ o \notin B => order'[o] = order[o]
  <2> SUFFICES ASSUME NEW o \in Order PROVE /\ order'[o].filled = order[o].filled
                                            /\ o \notin B => order'[o] = order[o]
    OBVIOUS
  <2>1. order[o] \in [status : OrderStatus, generation : Generation \cup {0},
                      draft : Draft \cup {NoDraft}, cash : Nat, shares : Nat,
                      expires : Nat, filled : Nat, gross : Nat]
    BY <1>1 DEF PaperTypeOK
  <2> QED BY <1>2, <2>1
<1>11. OrdersOf(g) \subseteq Order
  BY DEF OrdersOf
<1> QED BY <1>5, <1>6, <1>7, <1>8, <1>9, <1>10, <1>11 DEF LeavesClosed

LEMMA AccountsLeave ==
  ASSUME BooksInvariant, NEW g \in Generation, NEW h \in Generation, NEW cash,
         \/ OpenAccount(cash)
         \/ EditInitialCash(cash)
         \/ Reset(h, cash)
         \/ Reconcile(h)
  PROVE  LeavesClosed(g)
<1>1. /\ account \in [Generation -> [status : AccountStatus, initial : Nat, available : Nat,
                                     frozen : Nat, edited : BOOLEAN]]
      /\ order' = order
  BY DEF BooksInvariant, BooksBalance, PaperTypeOK, OpenAccount, EditInitialCash, Reset, Reconcile
<1>2. account[g].status \in {"archived", "suspended"} => account'[g] = account[g]
  <2>1. CASE OpenAccount(cash)
    BY <2>1 DEF OpenAccount
  <2>2. CASE EditInitialCash(cash)
    BY <1>1, <2>2 DEF EditInitialCash, Active
  <2>3. CASE Reset(h, cash)
    <3>1. h < h + 1 /\ h + 1 \in Generation /\ account[h].status = "active"
      BY <2>3 DEF Reset, Active, Generation
    <3>2. account[h + 1].status = "none"
      BY <3>1 DEF BooksInvariant, AccountsInOrder
    <3> QED BY <1>1, <2>3, <3>1, <3>2 DEF Reset
  <2>4. CASE Reconcile(h)
    BY <1>1, <2>4 DEF Reconcile, Active
  <2> QED BY <2>1, <2>2, <2>3, <2>4
<1> QED BY <1>1, <1>2, UntouchedIsLeft

LEMMA FillsLeave ==
  ASSUME BooksInvariant, NEW g \in Generation, NEW o \in Order, NEW s \in DOMAIN books,
         FillBuy(o, s) \/ FillSell(o, s)
  PROVE  LeavesClosed(g)
<1>1. /\ account \in [Generation -> [status : AccountStatus, initial : Nat, available : Nat,
                                     frozen : Nat, edited : BOOLEAN]]
      /\ order \in [Order -> [status : OrderStatus, generation : Generation \cup {0},
                              draft : Draft \cup {NoDraft}, cash : Nat, shares : Nat,
                              expires : Nat, filled : Nat, gross : Nat]]
  BY DEF BooksInvariant, BooksBalance, PaperTypeOK
<1>2. account[order[o].generation].status = "active"
  BY DEF FillBuy, FillSell, Active
<1>3. \A p \in Order \ {o} : order'[p] = order[p]
  BY <1>1 DEF FillBuy, FillSell, Filled
<1>4. \A k \in Generation \ {order[o].generation} : account'[k] = account[k]
  BY <1>1 DEF FillBuy, FillSell
<1>5. account[g].status \in {"archived", "suspended"} =>
        g # order[o].generation /\ o \notin OrdersOf(g)
  BY <1>2 DEF OrdersOf
<1>6. OrdersOf(g) \subseteq Order
  BY DEF OrdersOf
<1> QED BY <1>3, <1>4, <1>5, <1>6, UntouchedIsLeft

\* An account that was archived or suspended does no more business, whatever
\* was in flight when it was closed: an archived one only gets back what its
\* expired orders reserved, a suspended one and its orders do not change.
THEOREM ClosedAccountsStayClosed == PaperSpec => ClosedAccountsAreReadOnly
<1>1. BooksInvariant /\ [PaperNext]_paperVars => [\A g \in Generation : LeavesClosed(g)]_paperVars
  <2> SUFFICES ASSUME BooksInvariant, PaperNext, NEW g \in Generation PROVE LeavesClosed(g)
    OBVIOUS
  <2>0. DOMAIN order = Order /\ OrdersOf(g) \subseteq Order
    BY DEF BooksInvariant, BooksBalance, PaperTypeOK, OrdersOf
  <2>1. ASSUME NEW h \in Generation, NEW cash \in Cash,
               OpenAccount(cash) \/ EditInitialCash(cash) \/ Reset(h, cash)
        PROVE  LeavesClosed(g)
    BY <2>1, AccountsLeave
  <2>2. ASSUME NEW h \in Generation, Reconcile(h) PROVE LeavesClosed(g)
    BY <2>2, AccountsLeave
  <2>3. ASSUME NEW h \in Generation, NEW o \in Order, NEW draft \in Draft, Prepare(o, h, draft)
        PROVE  LeavesClosed(g)
    <3>1. o \notin OrdersOf(g) /\ account' = account /\ \A p \in Order \ {o} : order'[p] = order[p]
      BY <2>0, <2>3 DEF Prepare, OrdersOf
    <3> QED BY <2>0, <3>1, UntouchedIsLeft
  <2>4. ASSUME NEW h \in Generation, NEW o \in Order, NEW draft \in Draft, ExecuteApproved(o, h, draft)
        PROVE  LeavesClosed(g)
    BY <2>4, PlaceLeaves DEF ExecuteApproved
  <2>5. ASSUME NEW o \in Order, NEW draft \in Draft, Confirm(o, draft) PROVE LeavesClosed(g)
    <3>1. PICK h \in Generation : h = order[o].generation
      BY <2>5 DEF Confirm, BooksInvariant, OrdersFit
    <3>2. Place(o, h, draft, order[o].expires) /\ Active(h)
      BY <2>5, <3>1 DEF Confirm
    <3> QED BY <3>1, <3>2, PlaceLeaves
  <2>6. ASSUME NEW o \in Order, ConfirmTooLate(o) PROVE LeavesClosed(g)
    <3>1. /\ account' = account /\ \A p \in Order \ {o} : order'[p] = order[p]
          /\ account[g].status \in {"archived", "suspended"} => o \notin OrdersOf(g)
      BY <2>0, <2>6 DEF ConfirmTooLate, OrdersOf, Active
    <3> QED BY <2>0, <3>1, UntouchedIsLeft
  <2>7. ASSUME NEW o \in Order, CancelOrder(o) PROVE LeavesClosed(g)
    BY <2>7, ReleaseLeaves DEF CancelOrder, Active
  <2>8. ASSUME NEW B \in SUBSET Order, Expire(B) PROVE LeavesClosed(g)
    BY <2>8, ReleaseLeaves DEF Expire
  <2>9. ASSUME NEW B \in SUBSET Order, OpenQueued(B) PROVE LeavesClosed(g)
    <3>1. /\ account' = account /\ \A p \in Order : p \notin B => order'[p] = order[p]
          /\ account[g].status \in {"archived", "suspended"} => B \cap OrdersOf(g) = {}
      BY <2>9 DEF OpenQueued, OrdersOf, Active
    <3> QED BY <2>0, <3>1, UntouchedIsLeft
  <2>10. ASSUME NEW o \in Order, NEW s \in DOMAIN books, FillBuy(o, s) \/ FillSell(o, s)
         PROVE  LeavesClosed(g)
    BY <2>10, FillsLeave
  <2>11. ASSUME UNCHANGED <<account, order>> PROVE LeavesClosed(g)
    BY <2>11, UntouchedIsLeft
  <2>12. ASSUME NEW o \in Order, NEW s \in DOMAIN books, MatchNothing(o, s) PROVE LeavesClosed(g)
    BY <2>11, <2>12 DEF MatchNothing
  <2>13. ASSUME Tick \/ \E level \in Level : Quote(level) PROVE LeavesClosed(g)
    BY <2>11, <2>13 DEF Tick, Quote
  <2>14. ASSUME NEW cash \in Cash, OpenAccount(cash) \/ EditInitialCash(cash) PROVE LeavesClosed(g)
    BY <2>1, <2>14
  <2> QED BY <2>1, <2>2, <2>3, <2>4, <2>5, <2>6, <2>7, <2>8, <2>9, <2>10, <2>12, <2>13, <2>14
          DEF PaperNext
<1> DEFINE Leaves == \A g \in Generation : LeavesClosed(g)
<1>2. BooksInvariant /\ [PaperNext]_paperVars => [Leaves]_paperVars
  BY <1>1
<1>3. PaperSpec => [][Leaves]_paperVars
  <2> HIDE DEF Leaves
  <2> QED BY <1>2, BooksInvariantHolds, PTL DEF PaperSpec
<1> QED BY <1>3 DEF LeavesClosed, ClosedAccountsAreReadOnly

-----------------------------------------------------------------------------
(* The permissions.                                                        *)
(*                                                                         *)
(* PermissionFactsAgree is not inductive: a request in the middle of its   *)
(* transaction relies on what it has read.  The invariant adds what each   *)
(* lock protects from the moment it is taken: nobody else has used the     *)
(* key, the application stays open, the account stays active.              *)

\* A row is locked by one request at a time.
LocksExclude ==
  \A p, q \in Request : \A row \in Lock : row \in locked[p] /\ row \in locked[q] => p = q

\* Started applications are of an account and a market; an application has the
\* key of its confirmation if and only if it is completed.
ApplicationsFilled ==
  \A a \in Application :
    /\ applications[a].status # "none" =>
         /\ applications[a].generation \in AccountGeneration
         /\ applications[a].market \in Market
         /\ applications[a].start_key \in Key
    /\ applications[a].status = "none" => applications[a].start_key = Null
    /\ applications[a].confirm_key \in Key <=> applications[a].status = "completed"

Starting(q) ==
  /\ call[q] \in StartCall
  /\ StartKey(call[q].key) \in locked[q]
  /\ \A a \in Application : applications[a].start_key # call[q].key

\* A request to confirm has its key, which no other application has.
Keyed(q) ==
  /\ call[q] \in ConfirmCall
  /\ ConfirmKey(call[q].key) \in locked[q]
  /\ \A a \in Application : applications[a].confirm_key = call[q].key => a = call[q].app

\* A request has its application, which is open.
Opened(q) ==
  /\ call[q] \in SubmitCall \/ Keyed(q)
  /\ ApplicationRow(call[q].app) \in locked[q]
  /\ applications[call[q].app].status \in Open

\* A request has the account, which is still the one of its application.
Settled(q) ==
  /\ AccountRow \in locked[q]
  /\ applications[call[q].app].generation = active

Underway(q) ==
  /\ step[q] = "start" => Starting(q)
  /\ step[q] = "application" => Keyed(q) /\ applications[call[q].app].status # "none"
  /\ step[q] \in {"account", "rules", "write"} => Opened(q)
  /\ step[q] \in {"rules", "write"} => Settled(q)

RequestsUnderway == \A q \in Request : Underway(q)

PermissionsInvariant ==
  /\ PermissionsTypeOK /\ LocksExclude /\ ApplicationsFilled /\ RequestsUnderway
  /\ KeysNameOneApplication /\ ApplicationsEnableOnce /\ OrdersArePermitted

-----------------------------------------------------------------------------
\* The rows and keys that may be locked.
LEMMA LocksAreTyped ==
  /\ AccountRow \in Lock /\ RuleRows \in Lock
  /\ \A k \in Key : StartKey(k) \in Lock /\ ConfirmKey(k) \in Lock
  /\ \A a \in Application : ApplicationRow(a) \in Lock
  BY DEF Lock

\* What the requests are about to do does not depend on who asks for what else:
\* a request stays under way while its own columns and what it relies on stay.
LEMMA UnderwayKept ==
  ASSUME NEW q \in Request, Underway(q),
         step'[q] = step[q], call'[q] = call[q], locked'[q] = locked[q],
         applications' = applications, active' = active
  PROVE  Underway(q)'
  BY DEF Underway, Starting, Keyed, Opened, Settled

-----------------------------------------------------------------------------
(* A request that ends, or takes a lock.                                   *)

LEMMA EndKeeps ==
  ASSUME PermissionsInvariant, NEW q \in Request, EndRequest(q),
         UNCHANGED <<active, rules, applications, enabled, bought>>,
         told' \in [Application -> SUBSET {"enabled", "refused"}],
         \A a \in Application :
           "enabled" \in told'[a] => "enabled" \in told[a] \/ applications[a].status = "completed"
  PROVE  PermissionsInvariant'
<1> USE DEF PermissionsInvariant
<1>1. /\ step' = [step EXCEPT ![q] = "idle"]
      /\ call' = [call EXCEPT ![q] = NoCall]
      /\ locked' = [locked EXCEPT ![q] = {}]
  BY DEF EndRequest
<1>2. PermissionsTypeOK'
  BY <1>1 DEF PermissionsTypeOK
<1>3. LocksExclude'
  BY <1>1 DEF LocksExclude, PermissionsTypeOK
<1>4. RequestsUnderway'
  <2> SUFFICES ASSUME NEW p \in Request PROVE Underway(p)'
    BY DEF RequestsUnderway
  <2>1. CASE p = q
    <3>1. step'[p] = "idle"
      BY <1>1, <2>1 DEF PermissionsTypeOK
    <3> QED BY <3>1 DEF Underway
  <2>2. CASE p # q
    <3>1. step'[p] = step[p] /\ call'[p] = call[p] /\ locked'[p] = locked[p]
      BY <1>1, <2>2 DEF PermissionsTypeOK
    <3> QED BY <3>1, UnderwayKept DEF RequestsUnderway
  <2> QED BY <2>1, <2>2
<1>5. ApplicationsFilled' /\ KeysNameOneApplication' /\ OrdersArePermitted'
  BY DEF ApplicationsFilled, KeysNameOneApplication, OrdersArePermitted
<1>6. ApplicationsEnableOnce'
  BY DEF ApplicationsEnableOnce
<1> QED BY <1>2, <1>3, <1>4, <1>5, <1>6

\* A request that takes a lock nobody has, and is under way with it.
LEMMA LockKeeps ==
  ASSUME PermissionsInvariant, NEW q \in Request, UNCHANGED facts,
         NEW row \in Lock, Available(row),
         NEW statement \in {"start", "application", "account", "rules", "write"},
         NEW request \in StartCall \union SubmitCall \union ConfirmCall,
         NEW rows \in SUBSET locked[q],
         step' = [step EXCEPT ![q] = statement],
         call' = [call EXCEPT ![q] = request],
         locked' = [locked EXCEPT ![q] = rows \union {row}],
         Underway(q)'
  PROVE  PermissionsInvariant'
<1> USE DEF PermissionsInvariant, facts
<1>1. PermissionsTypeOK'
  BY DEF PermissionsTypeOK
<1>2. LocksExclude'
  BY DEF LocksExclude, Available, PermissionsTypeOK
<1>3. RequestsUnderway'
  <2> SUFFICES ASSUME NEW p \in Request, p # q PROVE Underway(p)'
    BY DEF RequestsUnderway
  <2>1. step'[p] = step[p] /\ call'[p] = call[p] /\ locked'[p] = locked[p]
    BY DEF PermissionsTypeOK
  <2> QED BY <2>1, UnderwayKept DEF RequestsUnderway
<1>4. ApplicationsFilled' /\ KeysNameOneApplication' /\ OrdersArePermitted'
  BY DEF ApplicationsFilled, KeysNameOneApplication, OrdersArePermitted
<1>5. ApplicationsEnableOnce'
  BY DEF ApplicationsEnableOnce
<1> QED BY <1>1, <1>2, <1>3, <1>4, <1>5

-----------------------------------------------------------------------------
(* A request that writes an application and ends.                          *)

\* One application is written: a request goes on undisturbed if the write uses
\* no key and ends no application that the request has locked.
LEMMA WriteSpares ==
  ASSUME PermissionsTypeOK, ApplicationsFilled,
         NEW p \in Request, Underway(p),
         step'[p] = step[p], call'[p] = call[p], locked'[p] = locked[p], active' = active,
         NEW a \in Application, NEW x \in ApplicationRecord,
         applications' = [applications EXCEPT ![a] = x],
         x.status # "none",
         x.start_key = applications[a].start_key \/ StartKey(x.start_key) \notin locked[p],
         x.confirm_key = applications[a].confirm_key \/ ConfirmKey(x.confirm_key) \notin locked[p],
         applications[a].status = "none" \/ x.generation = applications[a].generation,
         x.status \in Open \/ ApplicationRow(a) \notin locked[p]
  PROVE  Underway(p)'
<1>1. /\ applications'[a] = x
      /\ \A b \in Application : b # a => applications'[b] = applications[b]
  BY DEF PermissionsTypeOK
<1>2. Starting(p) => Starting(p)'
  BY <1>1 DEF Starting, StartKey
<1>3. Keyed(p) => Keyed(p)'
  BY <1>1 DEF Keyed, ConfirmKey
<1>4. call[p] \in SubmitCall \union ConfirmCall => call[p].app \in Application
  BY DEF SubmitCall, ConfirmCall
<1>5. Opened(p) => Opened(p)'
  BY <1>1, <1>3, <1>4 DEF Opened, Keyed
<1>6. Opened(p) /\ Settled(p) => Settled(p)'
  BY <1>1, <1>4 DEF Opened, Keyed, Settled, Open
<1>7. Keyed(p) /\ applications[call[p].app].status # "none" => applications'[call[p].app].status # "none"
  BY <1>1, <1>4 DEF Keyed
<1> QED BY <1>2, <1>3, <1>5, <1>6, <1>7 DEF Underway

\* A request that ends with its write disturbs nobody: what the others rely on
\* is locked by them and so not by this request.
LEMMA WriteEnds ==
  ASSUME PermissionsInvariant, NEW q \in Request, EndRequest(q), active' = active,
         NEW a \in Application, NEW x \in ApplicationRecord,
         applications' = [applications EXCEPT ![a] = x],
         x.status # "none",
         \/ x.start_key = applications[a].start_key
         \/ x.start_key \in Key /\ StartKey(x.start_key) \in locked[q],
         \/ x.confirm_key = applications[a].confirm_key
         \/ x.confirm_key \in Key /\ ConfirmKey(x.confirm_key) \in locked[q],
         applications[a].status = "none" \/ x.generation = applications[a].generation,
         x.status \in Open \/ ApplicationRow(a) \in locked[q]
  PROVE  /\ applications' \in [Application -> ApplicationRecord]
         /\ step' \in [Request -> {"idle", "start", "application", "account", "rules", "write"}]
         /\ call' \in [Request -> {NoCall} \union StartCall \union SubmitCall \union ConfirmCall]
         /\ locked' \in [Request -> SUBSET Lock]
         /\ LocksExclude' /\ RequestsUnderway'
<1> USE DEF PermissionsInvariant
<1>1. /\ step' = [step EXCEPT ![q] = "idle"]
      /\ call' = [call EXCEPT ![q] = NoCall]
      /\ locked' = [locked EXCEPT ![q] = {}]
  BY DEF EndRequest
<1>2. /\ applications' \in [Application -> ApplicationRecord]
      /\ step' \in [Request -> {"idle", "start", "application", "account", "rules", "write"}]
      /\ call' \in [Request -> {NoCall} \union StartCall \union SubmitCall \union ConfirmCall]
      /\ locked' \in [Request -> SUBSET Lock]
  BY <1>1 DEF PermissionsTypeOK
<1>3. LocksExclude'
  BY <1>1 DEF LocksExclude, PermissionsTypeOK
<1>4. ASSUME NEW p \in Request, p # q PROVE Underway(p)'
  <2>1. step'[p] = step[p] /\ call'[p] = call[p] /\ locked'[p] = locked[p]
    BY <1>1, <1>4 DEF PermissionsTypeOK
  <2>2. \A row \in Lock : row \in locked[q] => row \notin locked[p]
    BY <1>4 DEF LocksExclude
  <2>3. Underway(p)
    BY DEF RequestsUnderway
  <2>4. x.start_key = applications[a].start_key \/ StartKey(x.start_key) \notin locked[p]
    BY <2>2, LocksAreTyped
  <2>5. x.confirm_key = applications[a].confirm_key \/ ConfirmKey(x.confirm_key) \notin locked[p]
    BY <2>2, LocksAreTyped
  <2>6. x.status \in Open \/ ApplicationRow(a) \notin locked[p]
    BY <2>2, LocksAreTyped
  <2> QED BY <2>1, <2>3, <2>4, <2>5, <2>6, WriteSpares
<1>5. Underway(q)'
  BY <1>1 DEF Underway, PermissionsTypeOK
<1> QED BY <1>2, <1>3, <1>4, <1>5 DEF RequestsUnderway

\* StartCreates: the key is of no application, the new one is not completed.
LEMMA StartCreatesKeeps ==
  ASSUME PermissionsInvariant, NEW q \in Request, StartCreates(q)
  PROVE  PermissionsInvariant'
<1> USE DEF PermissionsInvariant
<1>1. /\ step[q] = "start" /\ call[q].generation = active
      /\ EndRequest(q)
      /\ UNCHANGED <<active, rules, enabled, bought, told>>
  BY DEF StartCreates
<1>2. Starting(q)
  BY <1>1 DEF RequestsUnderway, Underway
<1>3. PICK a \in Application :
        /\ applications[a].status = "none"
        /\ applications' = [applications EXCEPT ![a] =
             [NotStarted EXCEPT !.status = "in_progress", !.generation = active,
                                !.market = call[q].market, !.start_key = call[q].key]]
  BY DEF StartCreates
<1> DEFINE x == [NotStarted EXCEPT !.status = "in_progress", !.generation = active,
                                   !.market = call[q].market, !.start_key = call[q].key]
<1>4. /\ x.status = "in_progress" /\ x.generation = active /\ x.market = call[q].market
      /\ x.start_key = call[q].key /\ x.confirm_key = Null
  BY DEF NotStarted
<1>5. call[q].key \in Key /\ call[q].market \in Market
  BY <1>2 DEF Starting, StartCall
<1>6. x \in ApplicationRecord
  BY <1>5 DEF NotStarted, ApplicationRecord, ApplicationStatus, Open, PermissionsTypeOK
<1>7. applications[a].confirm_key = Null
  BY <1>3 DEF ApplicationsFilled, PermissionsTypeOK, ApplicationRecord
<1>8. /\ applications' \in [Application -> ApplicationRecord]
      /\ step' \in [Request -> {"idle", "start", "application", "account", "rules", "write"}]
      /\ call' \in [Request -> {NoCall} \union StartCall \union SubmitCall \union ConfirmCall]
      /\ locked' \in [Request -> SUBSET Lock]
      /\ LocksExclude' /\ RequestsUnderway'
  <2> HIDE DEF x
  <2>1. x.start_key \in Key /\ StartKey(x.start_key) \in locked[q]
    BY <1>2, <1>4, <1>5 DEF Starting
  <2>2. x.status # "none" /\ x.status \in Open
    BY <1>4 DEF Open
  <2>3. applications' = [applications EXCEPT ![a] = x]
    BY <1>3 DEF x
  <2> QED BY <1>1, <1>3, <1>4, <1>6, <1>7, <2>1, <2>2, <2>3, WriteEnds
<1>9. /\ applications'[a] = x
      /\ \A b \in Application : b # a => applications'[b] = applications[b]
  BY <1>3 DEF PermissionsTypeOK
<1> HIDE DEF x
<1>10. PermissionsTypeOK'
  BY <1>1, <1>8 DEF PermissionsTypeOK
<1>11. ApplicationsFilled'
  BY <1>4, <1>5, <1>9, PermissionsAssumption DEF ApplicationsFilled, PermissionsTypeOK
<1>12. KeysNameOneApplication'
  BY <1>2, <1>4, <1>9, PermissionsAssumption DEF KeysNameOneApplication, Starting
<1>13. ApplicationsEnableOnce'
  BY <1>1, <1>3, <1>4, <1>9 DEF ApplicationsEnableOnce
<1>14. OrdersArePermitted'
  BY <1>1 DEF OrdersArePermitted
<1> QED BY <1>8, <1>10, <1>11, <1>12, <1>13, <1>14

\* SubmitWrites: the application stays open, with its keys and its account.
LEMMA SubmitWritesKeeps ==
  ASSUME PermissionsInvariant, NEW q \in Request, SubmitWrites(q)
  PROVE  PermissionsInvariant'
<1> USE DEF PermissionsInvariant
<1> DEFINE a == call[q].app
           x == [applications[a] EXCEPT !.assessment = call[q].profile,
                   !.status = IF Meets(call[q].profile, rules[applications[a].market])
                              THEN "awaiting_confirmation" ELSE "awaiting_information"]
<1>1. /\ step[q] = "write" /\ call[q].kind = "submit"
      /\ EndRequest(q)
      /\ UNCHANGED <<active, rules, enabled, bought, told>>
  BY DEF SubmitWrites
<1>2. Opened(q)
  BY <1>1 DEF RequestsUnderway, Underway
<1>3. call[q] \in SubmitCall
  BY <1>1, <1>2 DEF Opened, Keyed, ConfirmCall
<1>4. a \in Application /\ call[q].profile \in Profile
  BY <1>3 DEF SubmitCall
<1>5. applications[a] \in ApplicationRecord /\ applications[a].status \in Open
  BY <1>2, <1>4 DEF Opened, PermissionsTypeOK
<1>6. /\ x \in ApplicationRecord /\ x.status \in Open
      /\ x.generation = applications[a].generation /\ x.market = applications[a].market
      /\ x.start_key = applications[a].start_key
      /\ x.confirm_key = applications[a].confirm_key
  BY <1>4, <1>5 DEF ApplicationRecord, ApplicationStatus, Open
<1>7. applications' = [applications EXCEPT ![a] = x]
  BY DEF SubmitWrites
<1> HIDE DEF x, a
<1>8. /\ applications' \in [Application -> ApplicationRecord]
      /\ step' \in [Request -> {"idle", "start", "application", "account", "rules", "write"}]
      /\ call' \in [Request -> {NoCall} \union StartCall \union SubmitCall \union ConfirmCall]
      /\ locked' \in [Request -> SUBSET Lock]
      /\ LocksExclude' /\ RequestsUnderway'
  <2>1. x.status # "none"
    BY <1>6 DEF Open
  <2> QED BY <1>1, <1>4, <1>6, <1>7, <2>1, WriteEnds
<1>9. /\ applications'[a] = x
      /\ \A b \in Application : b # a => applications'[b] = applications[b]
  BY <1>4, <1>7 DEF PermissionsTypeOK
<1>10. PermissionsTypeOK'
  BY <1>1, <1>8 DEF PermissionsTypeOK
<1>11. ApplicationsFilled'
  BY <1>5, <1>6, <1>9 DEF ApplicationsFilled, Open
<1>12. KeysNameOneApplication'
  BY <1>6, <1>9 DEF KeysNameOneApplication
<1>13. ApplicationsEnableOnce'
  BY <1>1, <1>5, <1>6, <1>9 DEF ApplicationsEnableOnce, Open
<1>14. OrdersArePermitted'
  BY <1>1 DEF OrdersArePermitted
<1> QED BY <1>8, <1>10, <1>11, <1>12, <1>13, <1>14

\* What a confirmation that enables has before it and leaves behind it: it has
\* the key, the application and the account, and the market is not enabled.
LEMMA ConfirmEnablesFacts ==
  ASSUME PermissionsInvariant, NEW q \in Request, ConfirmEnables(q)
  PROVE  LET a == call[q].app
             x == applications[a]
         IN
         /\ Keyed(q) /\ Opened(q) /\ Settled(q)
         /\ a \in Application /\ call[q].key \in Key /\ call[q].disclosure \in Disclosure
         /\ x \in ApplicationRecord /\ x.status \in Open
         /\ x.generation = active /\ active \in AccountGeneration /\ x.market \in Market
         /\ x.market \notin enabled[active]
         /\ applications' = [applications EXCEPT ![a] =
              [x EXCEPT !.status = "completed", !.confirm_key = call[q].key,
                        !.disclosure = call[q].disclosure]]
         /\ enabled' = [enabled EXCEPT ![active] = @ \union {x.market}]
         /\ told' = [told EXCEPT ![a] = @ \union {"enabled"}]
<1> USE DEF PermissionsInvariant
<1>1. step[q] = "write" /\ call[q].kind = "confirm" /\ ~AlreadyEnabled(q)
  BY DEF ConfirmEnables, Confirms
<1>2. Opened(q) /\ Settled(q)
  BY <1>1 DEF RequestsUnderway, Underway
<1>3. Keyed(q)
  BY <1>1, <1>2 DEF Opened, SubmitCall
<1>4. call[q].app \in Application /\ call[q].key \in Key /\ call[q].disclosure \in Disclosure
  BY <1>3 DEF Keyed, ConfirmCall
<1>5. applications[call[q].app] \in ApplicationRecord /\ applications[call[q].app].status \in Open
  BY <1>2, <1>4 DEF Opened, PermissionsTypeOK
<1>6. /\ applications[call[q].app].generation = active /\ active \in AccountGeneration
      /\ applications[call[q].app].market \in Market
  BY <1>2, <1>4, <1>5 DEF Settled, ApplicationsFilled, Open, PermissionsTypeOK
<1>7. applications[call[q].app].market \notin enabled[active]
  BY <1>1, <1>6 DEF AlreadyEnabled
<1> QED BY <1>2, <1>3, <1>4, <1>5, <1>6, <1>7 DEF ConfirmEnables, PermissionsTypeOK

\* ConfirmEnables: the key is used for the first time, and the market enabled
\* for the first time, by the one application that is now completed.
LEMMA ConfirmEnablesKeeps ==
  ASSUME PermissionsInvariant, NEW q \in Request, ConfirmEnables(q)
  PROVE  PermissionsInvariant'
<1> USE DEF PermissionsInvariant
<1> DEFINE a == call[q].app
           x == [applications[a] EXCEPT !.status = "completed", !.confirm_key = call[q].key,
                                        !.disclosure = call[q].disclosure]
<1>1. /\ Keyed(q) /\ Opened(q) /\ Settled(q)
      /\ a \in Application /\ call[q].key \in Key /\ call[q].disclosure \in Disclosure
      /\ applications[a] \in ApplicationRecord /\ applications[a].status \in Open
      /\ applications[a].generation = active /\ active \in AccountGeneration
      /\ applications[a].market \in Market /\ applications[a].market \notin enabled[active]
      /\ applications' = [applications EXCEPT ![a] = x]
      /\ enabled' = [enabled EXCEPT ![active] = @ \union {applications[a].market}]
      /\ told' = [told EXCEPT ![a] = @ \union {"enabled"}]
  BY ConfirmEnablesFacts
<1>2. EndRequest(q) /\ UNCHANGED <<active, rules, bought>>
  BY DEF ConfirmEnables
<1>3. /\ x \in ApplicationRecord /\ x.status = "completed" /\ x.confirm_key = call[q].key
      /\ x.generation = active /\ x.market = applications[a].market
      /\ x.start_key = applications[a].start_key
  BY <1>1 DEF ApplicationRecord, ApplicationStatus
<1>4. /\ applications'[a] = x
      /\ \A b \in Application : b # a => applications'[b] = applications[b]
  BY <1>1 DEF PermissionsTypeOK
<1>5. /\ ConfirmKey(call[q].key) \in locked[q] /\ ApplicationRow(a) \in locked[q]
      /\ \A b \in Application : applications[b].confirm_key = call[q].key => b = a
  BY <1>1 DEF Keyed, Opened
<1> HIDE DEF x, a
<1>6. /\ applications' \in [Application -> ApplicationRecord]
      /\ step' \in [Request -> {"idle", "start", "application", "account", "rules", "write"}]
      /\ call' \in [Request -> {NoCall} \union StartCall \union SubmitCall \union ConfirmCall]
      /\ locked' \in [Request -> SUBSET Lock]
      /\ LocksExclude' /\ RequestsUnderway'
  BY <1>1, <1>2, <1>3, <1>5, WriteEnds
<1>7. PermissionsTypeOK'
  BY <1>1, <1>2, <1>6 DEF PermissionsTypeOK
<1>8. ApplicationsFilled'
  BY <1>1, <1>3, <1>4 DEF ApplicationsFilled, Open
<1>9. KeysNameOneApplication'
  BY <1>3, <1>4, <1>5 DEF KeysNameOneApplication
<1>10. ApplicationsEnableOnce'
  <2>1. ASSUME NEW g \in AccountGeneration, NEW m \in Market
        PROVE  m \in enabled'[g] <=> m \in enabled[g] \/ (g = active /\ m = x.market)
    BY <1>1, <1>3 DEF PermissionsTypeOK
  <2>2. \A b \in Application : applications'[b].status = "completed" <=>
                                 applications[b].status = "completed" \/ b = a
    BY <1>3, <1>4
  <2>3. \A b \in Application : "enabled" \in told'[b] => "enabled" \in told[b] \/ b = a
    BY <1>1 DEF PermissionsTypeOK
  <2>4. applications[a].status # "completed"
    BY <1>1 DEF Open
  <2>5. \A b \in Application : applications[b].status = "completed" =>
                                 applications[b].generation # active \/ applications[b].market # x.market
    BY <1>1, <1>3 DEF ApplicationsEnableOnce
  <2> QED BY <1>1, <1>3, <1>4, <2>1, <2>2, <2>3, <2>4, <2>5 DEF ApplicationsEnableOnce
<1>11. OrdersArePermitted'
  BY <1>1, <1>2 DEF OrdersArePermitted, PermissionsTypeOK
<1> QED BY <1>6, <1>7, <1>8, <1>9, <1>10, <1>11

-----------------------------------------------------------------------------
(* The steps that take a lock.                                             *)

LEMMA FirstLocksKeep ==
  ASSUME PermissionsInvariant, NEW q \in Request,
         StartLocksKey(q) \/ SubmitLocksApplication(q) \/ ConfirmLocksKey(q)
  PROVE  PermissionsInvariant'
<1> USE DEF PermissionsInvariant
<1>1. ASSUME NEW row \in Lock, NEW statement \in {"start", "application", "account"},
             NEW request \in StartCall \union SubmitCall \union ConfirmCall,
             Available(row), UNCHANGED facts, Underway(q)',
             step' = [step EXCEPT ![q] = statement], call' = [call EXCEPT ![q] = request],
             locked' = [locked EXCEPT ![q] = {row}]
      PROVE  PermissionsInvariant'
  <2>1. {} \in SUBSET locked[q] /\ {row} = {} \union {row}
    OBVIOUS
  <2>2. locked' = [locked EXCEPT ![q] = {} \union {row}]
    BY <1>1, <2>1
  <2> QED BY <1>1, <2>1, <2>2, LockKeeps
<1>2. CASE StartLocksKey(q)
  <2>1. PICK k \in Key, m \in Market :
          /\ \A a \in Application : applications[a].start_key # k
          /\ Enter(q, "start", [kind |-> "start", key |-> k, market |-> m, generation |-> active],
                   StartKey(k))
    BY <1>2 DEF StartLocksKey
  <2> DEFINE request == [kind |-> "start", key |-> k, market |-> m, generation |-> active]
  <2>2. request \in StartCall /\ request.key = k
    BY DEF StartCall, PermissionsTypeOK
  <2> HIDE DEF request
  <2>3. /\ Available(StartKey(k)) /\ step' = [step EXCEPT ![q] = "start"]
        /\ call' = [call EXCEPT ![q] = request] /\ locked' = [locked EXCEPT ![q] = {StartKey(k)}]
    BY <2>1 DEF Enter, request
  <2>4. UNCHANGED facts
    BY <1>2 DEF StartLocksKey
  <2>5. Underway(q)'
    BY <2>1, <2>2, <2>3, <2>4 DEF Underway, Starting, facts, PermissionsTypeOK
  <2> QED BY <2>2, <2>3, <2>4, <2>5, <1>1, LocksAreTyped
<1>3. CASE SubmitLocksApplication(q)
  <2>1. PICK a \in Application, p \in Profile :
          /\ applications[a].status \in Open
          /\ Enter(q, "account", [kind |-> "submit", app |-> a, profile |-> p], ApplicationRow(a))
    BY <1>3 DEF SubmitLocksApplication
  <2> DEFINE request == [kind |-> "submit", app |-> a, profile |-> p]
  <2>2. request \in SubmitCall /\ request.app = a
    BY DEF SubmitCall
  <2> HIDE DEF request
  <2>3. /\ Available(ApplicationRow(a)) /\ step' = [step EXCEPT ![q] = "account"]
        /\ call' = [call EXCEPT ![q] = request]
        /\ locked' = [locked EXCEPT ![q] = {ApplicationRow(a)}]
    BY <2>1 DEF Enter, request
  <2>4. UNCHANGED facts
    BY <1>3 DEF SubmitLocksApplication
  <2>5. Underway(q)'
    BY <2>1, <2>2, <2>3, <2>4 DEF Underway, Opened, facts, PermissionsTypeOK
  <2> QED BY <2>2, <2>3, <2>4, <2>5, <1>1, LocksAreTyped
<1>4. CASE ConfirmLocksKey(q)
  <2>1. PICK a \in Application, k \in Key, d \in Disclosure :
          /\ applications[a].status # "none"
          /\ \A b \in Application : applications[b].confirm_key = k => b = a
          /\ Enter(q, "application", [kind |-> "confirm", app |-> a, key |-> k, disclosure |-> d],
                   ConfirmKey(k))
    BY <1>4 DEF ConfirmLocksKey
  <2> DEFINE request == [kind |-> "confirm", app |-> a, key |-> k, disclosure |-> d]
  <2>2. request \in ConfirmCall /\ request.app = a /\ request.key = k
    BY DEF ConfirmCall
  <2> HIDE DEF request
  <2>3. /\ Available(ConfirmKey(k)) /\ step' = [step EXCEPT ![q] = "application"]
        /\ call' = [call EXCEPT ![q] = request]
        /\ locked' = [locked EXCEPT ![q] = {ConfirmKey(k)}]
    BY <2>1 DEF Enter, request
  <2>4. UNCHANGED facts
    BY <1>4 DEF ConfirmLocksKey
  <2>5. Underway(q)'
    BY <2>1, <2>2, <2>3, <2>4 DEF Underway, Keyed, facts, PermissionsTypeOK
  <2> QED BY <2>2, <2>3, <2>4, <2>5, <1>1, LocksAreTyped
<1> QED BY <1>2, <1>3, <1>4

LEMMA NextLocksKeep ==
  ASSUME PermissionsInvariant, NEW q \in Request,
         ConfirmLocksApplication(q) \/ LocksAccount(q) \/ LocksRules(q)
  PROVE  PermissionsInvariant'
<1> USE DEF PermissionsInvariant
<1> DEFINE request == call[q]
<1>1. ASSUME NEW row \in Lock, NEW statement \in {"account", "rules", "write"},
             TakeLock(q, row, statement), UNCHANGED facts,
             call[q] \in StartCall \union SubmitCall \union ConfirmCall, Underway(q)'
      PROVE  PermissionsInvariant'
  <2>1. /\ Available(row) /\ step' = [step EXCEPT ![q] = statement]
        /\ call' = [call EXCEPT ![q] = request]
        /\ locked' = [locked EXCEPT ![q] = locked[q] \union {row}]
    BY <1>1 DEF TakeLock, PermissionsTypeOK
  <2>2. locked[q] \in SUBSET locked[q]
    OBVIOUS
  <2> QED BY <1>1, <2>1, <2>2, LockKeeps
<1>2. Underway(q)
  BY DEF RequestsUnderway
<1>3. CASE ConfirmLocksApplication(q)
  <2>1. /\ step[q] = "application" /\ applications[call[q].app].status \in Open
        /\ TakeLock(q, ApplicationRow(call[q].app), "account") /\ UNCHANGED facts
    BY <1>3 DEF ConfirmLocksApplication
  <2>2. Keyed(q)
    BY <1>2, <2>1 DEF Underway
  <2>3. call[q] \in ConfirmCall /\ call[q].app \in Application
    BY <2>2 DEF Keyed, ConfirmCall
  <2>4. /\ step'[q] = "account" /\ call' = call
        /\ locked'[q] = locked[q] \union {ApplicationRow(call[q].app)}
    BY <2>1 DEF TakeLock, PermissionsTypeOK
  <2>5. Underway(q)'
    BY <2>1, <2>2, <2>4 DEF Underway, Opened, Keyed, facts
  <2> QED BY <1>1, <2>1, <2>3, <2>5, LocksAreTyped
<1>4. CASE LocksAccount(q)
  <2>1. /\ step[q] = "account" /\ applications[call[q].app].generation = active
        /\ TakeLock(q, AccountRow, "rules") /\ UNCHANGED facts
    BY <1>4 DEF LocksAccount
  <2>2. Opened(q)
    BY <1>2, <2>1 DEF Underway
  <2>3. call[q] \in SubmitCall \union ConfirmCall
    BY <2>2 DEF Opened, Keyed
  <2>4. step'[q] = "rules" /\ call' = call /\ locked'[q] = locked[q] \union {AccountRow}
    BY <2>1 DEF TakeLock, PermissionsTypeOK
  <2>5. Underway(q)'
    BY <2>1, <2>2, <2>4 DEF Underway, Opened, Keyed, Settled, facts
  <2> QED BY <1>1, <2>1, <2>3, <2>5, LocksAreTyped
<1>5. CASE LocksRules(q)
  <2>1. step[q] = "rules" /\ TakeLock(q, RuleRows, "write") /\ UNCHANGED facts
    BY <1>5 DEF LocksRules
  <2>2. Opened(q) /\ Settled(q)
    BY <1>2, <2>1 DEF Underway
  <2>3. call[q] \in SubmitCall \union ConfirmCall
    BY <2>2 DEF Opened, Keyed
  <2>4. step'[q] = "write" /\ call' = call /\ locked'[q] = locked[q] \union {RuleRows}
    BY <2>1 DEF TakeLock, PermissionsTypeOK
  <2>5. Underway(q)'
    BY <2>1, <2>2, <2>4 DEF Underway, Opened, Keyed, Settled, facts
  <2> QED BY <1>1, <2>1, <2>3, <2>5, LocksAreTyped
<1> QED BY <1>3, <1>4, <1>5

-----------------------------------------------------------------------------
(* The requests that end without a write, and the other steps.             *)

LEMMA EndingsKeep ==
  ASSUME PermissionsInvariant, NEW q \in Request,
         \/ StartRefused(q) \/ ConfirmAnswersAgain(q) \/ AccountIsStale(q)
         \/ ConfirmRejected(q) \/ ConfirmRefused(q) \/ Abandon(q)
  PROVE  PermissionsInvariant'
<1> USE DEF PermissionsInvariant
<1>1. told \in [Application -> SUBSET {"enabled", "refused"}]
  BY DEF PermissionsTypeOK
<1>2. CASE \/ StartRefused(q) \/ AccountIsStale(q) \/ ConfirmRejected(q) \/ Abandon(q)
  <2>1. EndRequest(q) /\ UNCHANGED facts
    BY <1>2 DEF StartRefused, AccountIsStale, ConfirmRejected, Abandon
  <2> QED BY <1>1, <2>1, EndKeeps DEF facts
<1>3. CASE ConfirmAnswersAgain(q)
  <2>1. EndRequest(q) /\ UNCHANGED <<active, rules, applications, enabled, bought>>
    BY <1>3 DEF ConfirmAnswersAgain
  <2>2. told' \in [Application -> SUBSET {"enabled", "refused"}]
    BY <1>1, <1>3 DEF ConfirmAnswersAgain
  <2>3. \A a \in Application :
          "enabled" \in told'[a] => "enabled" \in told[a] \/ applications[a].status = "completed"
    BY <1>1, <1>3 DEF ConfirmAnswersAgain
  <2> QED BY <2>1, <2>2, <2>3, EndKeeps
<1>4. CASE ConfirmRefused(q)
  <2>1. EndRequest(q) /\ UNCHANGED <<active, rules, applications, enabled, bought>>
    BY <1>4 DEF ConfirmRefused
  <2>2. told' \in [Application -> SUBSET {"enabled", "refused"}]
    BY <1>1, <1>4 DEF ConfirmRefused
  <2>3. \A a \in Application : "enabled" \in told'[a] => "enabled" \in told[a]
    BY <1>1, <1>4 DEF ConfirmRefused
  <2> QED BY <2>1, <2>2, <2>3, EndKeeps
<1> QED BY <1>2, <1>3, <1>4

\* CancelApplication: nobody has the application, which is not completed.
LEMMA CancelKeeps ==
  ASSUME PermissionsInvariant, NEW a \in Application, CancelApplication(a)
  PROVE  PermissionsInvariant'
<1> USE DEF PermissionsInvariant
<1> DEFINE x == [applications[a] EXCEPT !.status = "cancelled_by_user"]
<1>1. /\ applications[a].status \in Open
      /\ applications' = [applications EXCEPT ![a] = x]
      /\ UNCHANGED <<active, rules, enabled, bought, told, step, call, locked>>
  BY DEF CancelApplication
<1>2. /\ x \in ApplicationRecord /\ x.status = "cancelled_by_user"
      /\ x.generation = applications[a].generation /\ x.market = applications[a].market
      /\ x.start_key = applications[a].start_key
      /\ x.confirm_key = applications[a].confirm_key
  BY DEF PermissionsTypeOK, ApplicationRecord, ApplicationStatus
<1> HIDE DEF x
<1>3. /\ applications'[a] = x
      /\ \A b \in Application : b # a => applications'[b] = applications[b]
  BY <1>1 DEF PermissionsTypeOK
<1>4. PermissionsTypeOK'
  BY <1>1, <1>2 DEF PermissionsTypeOK
<1>5. RequestsUnderway'
  <2> SUFFICES ASSUME NEW p \in Request PROVE Underway(p)'
    BY DEF RequestsUnderway
  <2>1. ApplicationRow(a) \notin locked[p]
    BY DEF CancelApplication, Available
  <2>2. Underway(p) /\ step'[p] = step[p] /\ call'[p] = call[p] /\ locked'[p] = locked[p]
    BY <1>1 DEF RequestsUnderway
  <2> QED BY <1>1, <1>2, <2>1, <2>2, WriteSpares
<1>6. LocksExclude'
  BY <1>1 DEF LocksExclude
<1>7. ApplicationsFilled'
  BY <1>1, <1>2, <1>3 DEF ApplicationsFilled, Open
<1>8. KeysNameOneApplication'
  BY <1>2, <1>3 DEF KeysNameOneApplication
<1>9. ApplicationsEnableOnce'
  BY <1>1, <1>2, <1>3 DEF ApplicationsEnableOnce, Open
<1>10. OrdersArePermitted'
  BY <1>1 DEF OrdersArePermitted
<1> QED BY <1>4, <1>5, <1>6, <1>7, <1>8, <1>9, <1>10

\* A reset waits for the account: nobody who relies on it is under way.
LEMMA AccountResetKeeps ==
  ASSUME PermissionsInvariant, ResetPermissions
  PROVE  PermissionsInvariant'
<1> USE DEF PermissionsInvariant
<1>1. /\ active' = active + 1 /\ active < MaxAccounts
      /\ UNCHANGED <<rules, applications, enabled, bought, told, step, call, locked>>
  BY DEF ResetPermissions
<1>2. PermissionsTypeOK'
  BY <1>1, PermissionsAssumption DEF PermissionsTypeOK, AccountGeneration
<1>3. RequestsUnderway'
  <2> SUFFICES ASSUME NEW p \in Request PROVE Underway(p)'
    BY DEF RequestsUnderway
  <2>1. Underway(p) /\ AccountRow \notin locked[p]
    BY DEF RequestsUnderway, ResetPermissions, Available
  <2>2. step[p] \notin {"rules", "write"}
    BY <2>1 DEF Underway, Settled
  <2> QED BY <1>1, <2>1, <2>2 DEF Underway, Starting, Keyed, Opened
<1>4. LocksExclude' /\ ApplicationsFilled' /\ KeysNameOneApplication' /\ OrdersArePermitted'
  BY <1>1 DEF LocksExclude, ApplicationsFilled, KeysNameOneApplication, OrdersArePermitted
<1>5. ApplicationsEnableOnce'
  BY <1>1 DEF ApplicationsEnableOnce
<1> QED BY <1>2, <1>3, <1>4, <1>5

\* Orders and amendments touch nothing that requests rely on.
LEMMA BuyAndAmendKeep ==
  ASSUME PermissionsInvariant, NEW m \in Market, BuyInMarket(m) \/ AmendRule(m)
  PROVE  PermissionsInvariant'
<1> USE DEF PermissionsInvariant
<1>1. UNCHANGED <<active, applications, enabled, told, step, call, locked>>
  BY DEF BuyInMarket, AmendRule
<1>2. PermissionsTypeOK'
  <2>1. CASE BuyInMarket(m)
    BY <1>1, <2>1 DEF BuyInMarket, PermissionsTypeOK
  <2>2. CASE AmendRule(m)
    <3>1. PICK r \in RulesOf[m] : rules' = [rules EXCEPT ![m] = r]
      BY <2>2 DEF AmendRule
    <3>2. r \in Rule
      BY DEF Rule
    <3>3. bought' = bought
      BY <2>2 DEF AmendRule
    <3> QED BY <1>1, <3>1, <3>2, <3>3 DEF PermissionsTypeOK
  <2> QED BY <2>1, <2>2
<1>3. RequestsUnderway'
  <2> SUFFICES ASSUME NEW p \in Request PROVE Underway(p)'
    BY DEF RequestsUnderway
  <2> QED BY <1>1, UnderwayKept DEF RequestsUnderway
<1>4. LocksExclude' /\ ApplicationsFilled' /\ KeysNameOneApplication' /\ ApplicationsEnableOnce'
  BY <1>1 DEF LocksExclude, ApplicationsFilled, KeysNameOneApplication, ApplicationsEnableOnce
<1>5. OrdersArePermitted'
  <2>1. CASE BuyInMarket(m)
    BY <1>1, <2>1 DEF BuyInMarket, OrdersArePermitted, PermissionsTypeOK
  <2>2. CASE AmendRule(m)
    BY <1>1, <2>2 DEF AmendRule, OrdersArePermitted
  <2> QED BY <2>1, <2>2
<1> QED BY <1>2, <1>3, <1>4, <1>5

-----------------------------------------------------------------------------
(* The theorems.                                                           *)

LEMMA PermissionsStart == PermissionsInit => PermissionsInvariant
<1> SUFFICES ASSUME PermissionsInit PROVE PermissionsInvariant
  OBVIOUS
<1> USE PermissionsAssumption DEF PermissionsInit, NotStarted
<1>1. /\ NotStarted \in ApplicationRecord /\ active \in AccountGeneration
      /\ rules \in [Market -> Rule]
  BY DEF ApplicationRecord, ApplicationStatus, AccountGeneration
<1>2. PermissionsTypeOK
  BY <1>1 DEF PermissionsTypeOK
<1>3. LocksExclude /\ ApplicationsFilled
  BY DEF LocksExclude, ApplicationsFilled
<1>4. RequestsUnderway
  BY DEF RequestsUnderway, Underway
<1>5. KeysNameOneApplication /\ ApplicationsEnableOnce /\ OrdersArePermitted
  BY DEF KeysNameOneApplication, ApplicationsEnableOnce, OrdersArePermitted
<1> QED BY <1>2, <1>3, <1>4, <1>5 DEF PermissionsInvariant

LEMMA PermissionsStep ==
  ASSUME PermissionsInvariant, [PermissionsNext]_permissionVars
  PROVE  PermissionsInvariant'
<1>1. CASE UNCHANGED permissionVars
  <2>1. \A q \in Request : Underway(q) => Underway(q)'
    BY <1>1 DEF permissionVars, Underway, Starting, Keyed, Opened, Settled
  <2> QED BY <1>1, <2>1 DEF permissionVars, PermissionsInvariant, PermissionsTypeOK, LocksExclude,
        ApplicationsFilled, RequestsUnderway, KeysNameOneApplication, ApplicationsEnableOnce,
        OrdersArePermitted
<1>2. \A q \in Request :
        StartLocksKey(q) \/ SubmitLocksApplication(q) \/ ConfirmLocksKey(q) => PermissionsInvariant'
  BY FirstLocksKeep
<1>3. \A q \in Request :
        ConfirmLocksApplication(q) \/ LocksAccount(q) \/ LocksRules(q) => PermissionsInvariant'
  BY NextLocksKeep
<1>4. \A q \in Request :
        \/ StartRefused(q) \/ ConfirmAnswersAgain(q) \/ AccountIsStale(q)
        \/ ConfirmRejected(q) \/ ConfirmRefused(q) \/ Abandon(q)
        => PermissionsInvariant'
  BY EndingsKeep
<1>5. \A q \in Request : StartCreates(q) \/ SubmitWrites(q) \/ ConfirmEnables(q) => PermissionsInvariant'
  BY StartCreatesKeeps, SubmitWritesKeeps, ConfirmEnablesKeeps
<1>6. \A a \in Application : CancelApplication(a) => PermissionsInvariant'
  BY CancelKeeps
<1>7. \A m \in Market : BuyInMarket(m) \/ AmendRule(m) => PermissionsInvariant'
  BY BuyAndAmendKeep
<1> QED BY <1>1, <1>2, <1>3, <1>4, <1>5, <1>6, <1>7, AccountResetKeeps, Zenon DEF PermissionsNext

\* The invariant holds in every reachable state.
THEOREM PermissionsInvariantHolds == PermissionsSpec => []PermissionsInvariant
  BY PermissionsStart, PermissionsStep, PTL DEF PermissionsSpec

\* Applications, entitlements, orders and answers agree for any number of
\* requests, applications, keys, markets, rules and generations: what start,
\* submit_profile, confirm, cancel, is_permitted and reset do together.
THEOREM PermissionFactsHold == PermissionsSpec => []PermissionFactsAgree
<1>1. PermissionsInvariant => PermissionFactsAgree
  BY DEF PermissionsInvariant, PermissionFactsAgree
<1> QED BY <1>1, PermissionsInvariantHolds, PTL

LEMMA EnablingIsEarned ==
  ASSUME PermissionsInvariant, NEW q \in Request, ConfirmEnables(q)
  PROVE  EarnedStep
<1> USE DEF PermissionsInvariant
<1> DEFINE a == call[q].app
           x == [applications[a] EXCEPT !.status = "completed", !.confirm_key = call[q].key,
                                        !.disclosure = call[q].disclosure]
<1>1. /\ a \in Application /\ applications[a] \in ApplicationRecord
      /\ applications[a].status \in Open
      /\ applications[a].generation = active /\ active \in AccountGeneration
      /\ applications' = [applications EXCEPT ![a] = x]
      /\ enabled' = [enabled EXCEPT ![active] = @ \union {applications[a].market}]
  BY ConfirmEnablesFacts
<1>2. Current(q) /\ Eligible(q) /\ UNCHANGED <<active, rules, bought>>
  BY DEF ConfirmEnables
<1>3. /\ x.status = "completed" /\ x.generation = active /\ x.market = applications[a].market
      /\ x.assessment = applications[a].assessment /\ x.disclosure = call[q].disclosure
  BY <1>1 DEF ApplicationRecord
<1>4. /\ Meets(x.assessment, rules[x.market])
      /\ x.disclosure = rules[x.market].disclosure
  BY <1>2, <1>3 DEF Current, Eligible
<1> HIDE DEF x, a
<1>5. /\ applications'[a] = x
      /\ \A b \in Application : b # a => applications'[b] = applications[b]
  BY <1>1 DEF PermissionsTypeOK
<1>6. ASSUME NEW g \in AccountGeneration, NEW m \in Market
      PROVE  m \in enabled'[g] <=> m \in enabled[g] \/ (g = active /\ m = x.market)
  BY <1>1, <1>3 DEF PermissionsTypeOK
<1>7. \A b \in Application : applications[b].status = "completed" =>
        applications'[b] = applications[b]
  BY <1>1, <1>5 DEF Open
<1>8. ASSUME NEW g \in AccountGeneration, NEW m \in Market,
             m \in enabled'[g], m \notin enabled[g]
      PROVE  /\ g = active /\ active' = active
             /\ \E b \in Application :
                  LET y == applications'[b] IN
                  /\ y.status = "completed" /\ y.generation = g /\ y.market = m
                  /\ Meets(y.assessment, rules'[m]) /\ y.disclosure = rules'[m].disclosure
  <2>1. g = active /\ m = x.market
    BY <1>6, <1>8
  <2>2. /\ applications'[a].status = "completed" /\ applications'[a].generation = g
        /\ applications'[a].market = m
        /\ Meets(applications'[a].assessment, rules'[m])
        /\ applications'[a].disclosure = rules'[m].disclosure
    BY <1>2, <1>3, <1>4, <1>5, <2>1
  <2> QED BY <1>1, <1>2, <2>1, <2>2
<1> QED BY <1>2, <1>6, <1>7, <1>8 DEF EarnedStep

\* No step enables a market, accepts an order or changes a completed
\* application except as the rules of that moment allow: confirm,
\* _require_market_permission and reset, however they interleave.
THEOREM PermissionsEarned == PermissionsSpec => PermissionsAreEarned
<1>1. PermissionsInvariant /\ [PermissionsNext]_permissionVars => [EarnedStep]_permissionVars
  <2> SUFFICES ASSUME PermissionsInvariant, PermissionsNext PROVE EarnedStep
    BY DEF EarnedStep
  <2>1. CASE \E q \in Request : ConfirmEnables(q)
    BY <2>1, EnablingIsEarned
  <2>2. CASE \E m \in Market : BuyInMarket(m)
    <3>1. PICK m \in Market : BuyInMarket(m)
      BY <2>2
    <3>2. /\ m \in enabled[active] /\ UNCHANGED <<applications, enabled>>
          /\ bought' = [bought EXCEPT ![active] = @ \union {m}]
      BY <3>1 DEF BuyInMarket
    <3> QED BY <3>2 DEF EarnedStep, PermissionsInvariant, PermissionsTypeOK
  <2>3. CASE \E q \in Request : StartCreates(q) \/ SubmitWrites(q)
    <3>1. PICK q \in Request : StartCreates(q) \/ SubmitWrites(q)
      BY <2>3
    <3>2. enabled' = enabled /\ bought' = bought
      BY <3>1 DEF StartCreates, SubmitWrites
    <3>3. ASSUME NEW a \in Application, applications[a].status = "completed"
          PROVE  applications'[a] = applications[a]
      <4>1. CASE StartCreates(q)
        BY <3>3, <4>1 DEF StartCreates, PermissionsInvariant, PermissionsTypeOK
      <4>2. CASE SubmitWrites(q)
        <5>1. Opened(q)
          BY <4>2 DEF SubmitWrites, PermissionsInvariant, RequestsUnderway, Underway
        <5>2. call[q].app # a
          BY <3>3, <5>1 DEF Opened, Open
        <5> QED BY <4>2, <5>2 DEF SubmitWrites, PermissionsInvariant, PermissionsTypeOK
      <4> QED BY <3>1, <4>1, <4>2
    <3> QED BY <3>2, <3>3 DEF EarnedStep
  <2>4. CASE \E a \in Application : CancelApplication(a)
    <3>1. PICK a \in Application : CancelApplication(a)
      BY <2>4
    <3>2. enabled' = enabled /\ bought' = bought /\ applications[a].status \in Open
          /\ applications' = [applications EXCEPT ![a].status = "cancelled_by_user"]
      BY <3>1 DEF CancelApplication
    <3> QED BY <3>2 DEF EarnedStep, Open, PermissionsInvariant, PermissionsTypeOK
  <2>5. CASE UNCHANGED <<applications, enabled, bought>>
    BY <2>5 DEF EarnedStep
  <2> QED BY <2>1, <2>2, <2>3, <2>4, <2>5
        DEF PermissionsNext, StartLocksKey, StartRefused, SubmitLocksApplication, ConfirmLocksKey,
            ConfirmAnswersAgain, ConfirmLocksApplication, AccountIsStale, LocksAccount, LocksRules,
            ConfirmRejected, ConfirmRefused, Abandon, AmendRule, ResetPermissions, facts
<1> QED BY <1>1, PermissionsInvariantHolds, PTL DEF PermissionsSpec, PermissionsAreEarned

-----------------------------------------------------------------------------
(* No deadlock among the requests.                                         *)
(*                                                                         *)
(* The database would break a circle of requests that wait for each        *)
(* other's rows by aborting one of them, an error for a client whose       *)
(* request was in order.  The services lock in one order, key,             *)
(* application, account, rules, so that no circle closes.                  *)

\* The row that the next statement of a request locks while it holds others.
Wanted(q) ==
  CASE step[q] \in {"start", "account"} -> {AccountRow}
    [] step[q] = "application" -> {ApplicationRow(call[q].app)}
    [] step[q] = "rules" -> {RuleRows}
    [] OTHER -> {}

WaitsFor(q, r) == q # r /\ Wanted(q) \intersect locked[r] # {}

\* In every group of requests, however large, there is one that waits for
\* nobody of the group: start, submit_profile and confirm never lock each other
\* out.
NobodyWaitsInACircle ==
  \A group \in SUBSET Request : group # {} =>
    \E q \in group : \A r \in group : ~WaitsFor(q, r)

\* What a request holds tells how far it has come.
LocksFollowSteps ==
  \A q \in Request :
    /\ AccountRow \in locked[q] => step[q] \in {"rules", "write"}
    /\ RuleRows \in locked[q] => step[q] = "write"
    /\ \A a \in Application :
         ApplicationRow(a) \in locked[q] => step[q] \in {"account", "rules", "write"}

LEMMA LocksDiffer ==
  /\ AccountRow # RuleRows
  /\ \A k \in Key : /\ StartKey(k) # AccountRow /\ StartKey(k) # RuleRows
                    /\ ConfirmKey(k) # AccountRow /\ ConfirmKey(k) # RuleRows
  /\ \A a \in Application :
       /\ ApplicationRow(a) # AccountRow /\ ApplicationRow(a) # RuleRows
       /\ \A k \in Key : ApplicationRow(a) # StartKey(k) /\ ApplicationRow(a) # ConfirmKey(k)
<1>1. \A s, t : <<s>>[1] = s /\ <<s, t>>[1] = s
  OBVIOUS
<1>2. /\ AccountRow[1] = "account" /\ RuleRows[1] = "rules"
      /\ \A k \in Key : StartKey(k)[1] = "start" /\ ConfirmKey(k)[1] = "confirm"
      /\ \A a \in Application : ApplicationRow(a)[1] = "application"
  BY <1>1 DEF AccountRow, RuleRows, StartKey, ConfirmKey, ApplicationRow
<1> QED BY <1>2

LEMMA LocksFollowStepsStep ==
  ASSUME PermissionsInvariant, LocksFollowSteps, [PermissionsNext]_permissionVars
  PROVE  LocksFollowSteps'
<1> USE DEF PermissionsInvariant
<1>1. ASSUME NEW q \in Request, NEW p \in Request,
             step' = [step EXCEPT ![q] = step'[q]],
             locked' = [locked EXCEPT ![q] = locked'[q]], p # q
      PROVE  step'[p] = step[p] /\ locked'[p] = locked[p]
  BY <1>1 DEF PermissionsTypeOK
<1>2. ASSUME NEW q \in Request, EndRequest(q)
      PROVE  LocksFollowSteps'
  BY <1>2 DEF EndRequest, LocksFollowSteps, PermissionsTypeOK
<1>3. ASSUME NEW q \in Request, StartLocksKey(q)
      PROVE  LocksFollowSteps'
  <2>1. PICK k \in Key : step' = [step EXCEPT ![q] = "start"]
                         /\ locked' = [locked EXCEPT ![q] = {StartKey(k)}]
    BY <1>3 DEF StartLocksKey, Enter
  <2> QED BY <2>1, LocksDiffer DEF LocksFollowSteps, PermissionsTypeOK
<1>4. ASSUME NEW q \in Request, ConfirmLocksKey(q)
      PROVE  LocksFollowSteps'
  <2>1. PICK k \in Key : step' = [step EXCEPT ![q] = "application"]
                         /\ locked' = [locked EXCEPT ![q] = {ConfirmKey(k)}]
    BY <1>4 DEF ConfirmLocksKey, Enter
  <2> QED BY <2>1, LocksDiffer DEF LocksFollowSteps, PermissionsTypeOK
<1>5. ASSUME NEW q \in Request, SubmitLocksApplication(q)
      PROVE  LocksFollowSteps'
  <2>1. PICK a \in Application : step' = [step EXCEPT ![q] = "account"]
                                 /\ locked' = [locked EXCEPT ![q] = {ApplicationRow(a)}]
    BY <1>5 DEF SubmitLocksApplication, Enter
  <2> QED BY <2>1, LocksDiffer DEF LocksFollowSteps, PermissionsTypeOK
<1>6. ASSUME NEW q \in Request, ConfirmLocksApplication(q)
      PROVE  LocksFollowSteps'
  <2>1. Keyed(q)
    BY <1>6 DEF ConfirmLocksApplication, RequestsUnderway, Underway
  <2>2. /\ call[q].app \in Application
        /\ step[q] = "application" /\ step' = [step EXCEPT ![q] = "account"]
        /\ locked' = [locked EXCEPT ![q] = @ \union {ApplicationRow(call[q].app)}]
    BY <1>6, <2>1 DEF ConfirmLocksApplication, TakeLock, Keyed, ConfirmCall
  <2> QED BY <2>2, LocksDiffer DEF LocksFollowSteps, PermissionsTypeOK
<1>7. ASSUME NEW q \in Request, LocksAccount(q)
      PROVE  LocksFollowSteps'
  <2>1. /\ step[q] = "account" /\ step' = [step EXCEPT ![q] = "rules"]
        /\ locked' = [locked EXCEPT ![q] = @ \union {AccountRow}]
    BY <1>7 DEF LocksAccount, TakeLock
  <2> QED BY <2>1, LocksDiffer DEF LocksFollowSteps, PermissionsTypeOK
<1>8. ASSUME NEW q \in Request, LocksRules(q)
      PROVE  LocksFollowSteps'
  <2>1. /\ step[q] = "rules" /\ step' = [step EXCEPT ![q] = "write"]
        /\ locked' = [locked EXCEPT ![q] = @ \union {RuleRows}]
    BY <1>8 DEF LocksRules, TakeLock
  <2> QED BY <2>1, LocksDiffer DEF LocksFollowSteps, PermissionsTypeOK
<1>9. CASE UNCHANGED <<step, locked>>
  BY <1>9 DEF LocksFollowSteps
<1>10. ASSUME NEW q \in Request,
              \/ StartRefused(q) \/ StartCreates(q) \/ ConfirmAnswersAgain(q)
              \/ AccountIsStale(q) \/ SubmitWrites(q) \/ ConfirmRejected(q) \/ ConfirmRefused(q)
              \/ ConfirmEnables(q) \/ Abandon(q)
       PROVE  EndRequest(q)
  BY <1>10 DEF StartRefused, StartCreates, ConfirmAnswersAgain, AccountIsStale, SubmitWrites,
       ConfirmRejected, ConfirmRefused, ConfirmEnables, Abandon
<1>11. ASSUME \/ \E a \in Application : CancelApplication(a)
              \/ \E m \in Market : BuyInMarket(m) \/ AmendRule(m)
              \/ ResetPermissions
       PROVE  UNCHANGED <<step, locked>>
  BY <1>11 DEF CancelApplication, BuyInMarket, AmendRule, ResetPermissions
<1> QED BY <1>2, <1>3, <1>4, <1>5, <1>6, <1>7, <1>8, <1>9, <1>10, <1>11, Zenon
      DEF PermissionsNext, permissionVars

LEMMA NoCircleCloses ==
  ASSUME PermissionsTypeOK, RequestsUnderway, LocksFollowSteps
  PROVE  NobodyWaitsInACircle
<1> SUFFICES ASSUME NEW group \in SUBSET Request, group # {}
             PROVE  \E q \in group : \A r \in group : ~WaitsFor(q, r)
  BY DEF NobodyWaitsInACircle
<1> DEFINE At(s) == {q \in group : step[q] \in s}
<1>1. \A q \in group :
        step[q] \in {"idle", "start", "application", "account", "rules", "write"}
  BY DEF PermissionsTypeOK
<1>2. ASSUME NEW q \in group, step[q] \in {"write", "idle"}
      PROVE  \A r \in group : ~WaitsFor(q, r)
  BY <1>2 DEF WaitsFor, Wanted
<1>3. ASSUME NEW q \in group, step[q] = "rules", At({"write"}) = {}
      PROVE  \A r \in group : ~WaitsFor(q, r)
  <2>1. Wanted(q) = {RuleRows}
    BY <1>3 DEF Wanted
  <2> QED BY <1>3, <2>1 DEF WaitsFor, LocksFollowSteps
<1>4. ASSUME NEW q \in group, step[q] \in {"start", "account"}, At({"write", "rules"}) = {}
      PROVE  \A r \in group : ~WaitsFor(q, r)
  <2>1. Wanted(q) = {AccountRow}
    BY <1>4 DEF Wanted
  <2> QED BY <1>4, <2>1 DEF WaitsFor, LocksFollowSteps
<1>5. ASSUME NEW q \in group, step[q] = "application", At({"write", "rules", "account"}) = {}
      PROVE  \A r \in group : ~WaitsFor(q, r)
  <2>1. Wanted(q) = {ApplicationRow(call[q].app)}
    BY <1>5 DEF Wanted
  <2>2. call[q].app \in Application
    BY <1>5 DEF RequestsUnderway, Underway, Keyed, ConfirmCall
  <2> QED BY <1>5, <2>1, <2>2 DEF WaitsFor, LocksFollowSteps
<1> QED BY <1>1, <1>2, <1>3, <1>4, <1>5

\* The requests of the permissions never deadlock, for any number of them:
\* the order of the locks in start, submit_profile and confirm.
THEOREM PermissionsNeverDeadlock == PermissionsSpec => []NobodyWaitsInACircle
<1>1. PermissionsInit => LocksFollowSteps
  BY DEF PermissionsInit, LocksFollowSteps
<1>2. PermissionsInvariant /\ LocksFollowSteps /\ [PermissionsNext]_permissionVars => LocksFollowSteps'
  BY LocksFollowStepsStep
<1>3. PermissionsInvariant /\ LocksFollowSteps => NobodyWaitsInACircle
  BY NoCircleCloses DEF PermissionsInvariant
<1> QED BY <1>1, <1>2, <1>3, PermissionsInvariantHolds, PTL DEF PermissionsSpec
=============================================================================
