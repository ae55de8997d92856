---------------------------- MODULE OrderBookProofs ----------------------------
(***************************************************************************)
(* The order book keeps its users' money, for any users and orders.  The   *)
(* first half is about sums over finite sets; an induction over the        *)
(* subsets of a finite set is a proof that no smallest subset violates the *)
(* claim.                                                                  *)
(***************************************************************************)
EXTENDS OrderBook, FiniteSetTheorems, TLAPS

-------------------------------------------------------------------------------
(* Sums.                                                                   *)

Any(s) == CHOOSE x \in s : TRUE

(* f is the fold over the subsets of S                                     *)
Folds(f, g, S) == f = [s \in SUBSET S |-> IF s = {} THEN 0 ELSE g[Any(s)] + f[s \ {Any(s)}]]

(* SumFunctionOnSet is the fold of Folds.tla over the subsets of S, taken  *)
(* at S itself.                                                            *)
LEMMA SumIsFold ==
  ASSUME NEW g, NEW S
  PROVE  SumFunctionOnSet(g, S) = (CHOOSE f : Folds(f, g, S))[S]
BY DEF SumFunctionOnSet, FoldFunctionOnSet, MapThenFoldSet, Any, Folds

(* The member a fold takes next is one of the set.                         *)
LEMMA AnyMember == ASSUME NEW s, s # {} PROVE Any(s) \in s
BY DEF Any

(* Induction over the subsets of a finite set: a set of subsets that       *)
(* is not empty has a member no strict subset of which is in it.           *)
LEMMA MinimalSubset ==
  ASSUME NEW S, IsFiniteSet(S), NEW B \in SUBSET (SUBSET S), B # {}
  PROVE  \E s \in B : \A t \in SUBSET s : t # s => t \notin B
<1>1. IsWellFoundedOn(StrictSubsetOrdering(S), SUBSET S)
  BY FS_StrictSubsetOrderingWellFounded, FS_FiniteSubsetsOfFinite
<1>2. PICK s \in B : \A t \in B : ~ (<<t, s>> \in StrictSubsetOrdering(S))
  <2>1. B \subseteq SUBSET S
    OBVIOUS
  <2> QED BY <1>1, <2>1, WFMin
<1>3. \A t \in SUBSET s : t # s => t \notin B
  BY <1>2 DEF StrictSubsetOrdering
<1> QED BY <1>2, <1>3

(* What a fold takes out of a subset leaves a smaller subset.              *)
LEMMA Below ==
  ASSUME NEW S, NEW s \in SUBSET S, s # {}
  PROVE  Any(s) \in s /\ s \ {Any(s)} \in SUBSET S /\ s \ {Any(s)} \in SUBSET s /\ s \ {Any(s)} # s
BY AnyMember

(* The recursion of a fold, at each subset.                                *)
LEMMA FoldAt ==
  ASSUME NEW f, NEW g, NEW S, Folds(f, g, S), NEW s \in SUBSET S
  PROVE  f[s] = IF s = {} THEN 0 ELSE g[Any(s)] + f[s \ {Any(s)}]
BY DEF Folds

(* Two folds agree on the subsets they share: a smallest subset on which   *)
(* they differ would have a smaller one.                                   *)
LEMMA FoldUnique ==
  ASSUME NEW g, NEW S, IsFiniteSet(S), NEW f, Folds(f, g, S),
         NEW T, NEW h, Folds(h, g, T)
  PROVE  \A s \in SUBSET S : s \in SUBSET T => f[s] = h[s]
<1> DEFINE B == {s \in SUBSET S : s \in SUBSET T /\ f[s] # h[s]}
<1> SUFFICES ASSUME B # {} PROVE FALSE
  OBVIOUS
<1>1. PICK s \in B : \A t \in SUBSET s : t # s => t \notin B
  <2>1. B \in SUBSET (SUBSET S)
    OBVIOUS
  <2> HIDE DEF B
  <2> QED BY <2>1, MinimalSubset
<1>2. CASE s = {}
  BY <1>2, FoldAt
<1>3. CASE s # {}
  <2> DEFINE t == s \ {Any(s)}
  <2>1. t \in SUBSET S /\ t \in SUBSET T /\ t \in SUBSET s /\ t # s
    BY <1>3, Below
  <2>2. f[t] = h[t]
    BY <1>1, <2>1
  <2>3. s \in SUBSET S /\ s \in SUBSET T /\ f[s] # h[s]
    OBVIOUS
  <2> HIDE DEF B
  <2>4. f[s] = g[Any(s)] + f[t]
    BY <1>3, <2>3, FoldAt
  <2>5. h[s] = g[Any(s)] + h[t]
    BY <1>3, <2>3, FoldAt
  <2> QED BY <2>2, <2>3, <2>4, <2>5
<1> QED BY <1>2, <1>3

(* Every finite set has a fold: that of a smallest subset without one can  *)
(* be put together from the folds of its subsets.                          *)
LEMMA FoldExists ==
  ASSUME NEW g, NEW S, IsFiniteSet(S)
  PROVE  \E f : Folds(f, g, S)
<1> DEFINE B == {s \in SUBSET S : ~ \E f : Folds(f, g, s)}
           Sum(t) == (CHOOSE f : Folds(f, g, t))[t]
<1> SUFFICES ASSUME B # {} PROVE FALSE
  OBVIOUS
<1>1. PICK s \in B : \A t \in SUBSET s : t # s => t \notin B
  <2>1. B \in SUBSET (SUBSET S)
    OBVIOUS
  <2> HIDE DEF B
  <2> QED BY <2>1, MinimalSubset
<1>2. \A t \in SUBSET s : t # s => Folds(CHOOSE f : Folds(f, g, t), g, t)
  BY <1>1
<1>3. \A t \in SUBSET s : t # s => Sum(t) = IF t = {} THEN 0 ELSE g[Any(t)] + Sum(t \ {Any(t)})
  <2> SUFFICES ASSUME NEW t \in SUBSET s, t # s
               PROVE  Sum(t) = IF t = {} THEN 0 ELSE g[Any(t)] + Sum(t \ {Any(t)})
    OBVIOUS
  <2> DEFINE f == CHOOSE f : Folds(f, g, t)
  <2>1. Folds(f, g, t) /\ Sum(t) = f[t]
    BY <1>2
  <2>2. CASE t = {}
    BY <2>1, <2>2, FoldAt
  <2>3. CASE t # {}
    <3> DEFINE r == t \ {Any(t)}
               h == CHOOSE h : Folds(h, g, r)
    <3>1. r \in SUBSET s /\ r # s /\ r \in SUBSET t /\ IsFiniteSet(t)
      BY <1>1, <2>3, Below, FS_Subset
    <3>2. Folds(h, g, r) /\ Sum(r) = h[r]
      BY <1>2, <3>1
    <3>3. f[r] = h[r]
      <4> HIDE DEF f, h, r
      <4> QED BY <2>1, <3>1, <3>2, FoldUnique
    <3>4. f[t] = g[Any(t)] + f[r]
      <4> HIDE DEF f
      <4> QED BY <2>1, <2>3, FoldAt
    <3> QED BY <2>1, <2>3, <3>2, <3>3, <3>4
  <2> QED BY <2>2, <2>3
<1> DEFINE F == [t \in SUBSET s |-> IF t = {} THEN 0 ELSE g[Any(t)] + Sum(t \ {Any(t)})]
<1>4. \A t \in SUBSET s : t # {} => t \ {Any(t)} \in SUBSET s /\ t \ {Any(t)} # s
  BY Below
<1>5. \A t \in SUBSET s : F[t] = IF t = {} THEN 0 ELSE g[Any(t)] + F[t \ {Any(t)}]
  <2>0. F[{}] = 0
    <3> HIDE DEF Sum
    <3> QED OBVIOUS
  <2> SUFFICES ASSUME NEW t \in SUBSET s, t # {} PROVE F[t] = g[Any(t)] + F[t \ {Any(t)}]
    <3> HIDE DEF F
    <3> QED BY <2>0
  <2> DEFINE r == t \ {Any(t)}
  <2>1. r \in SUBSET s /\ r # s
    BY <1>4
  <2>2. F[t] = g[Any(t)] + Sum(r)
    <3> HIDE DEF Sum
    <3> QED OBVIOUS
  <2>3. F[r] = IF r = {} THEN 0 ELSE g[Any(r)] + Sum(r \ {Any(r)})
    <3> HIDE DEF Sum, r
    <3> QED BY <2>1
  <2>4. Sum(r) = IF r = {} THEN 0 ELSE g[Any(r)] + Sum(r \ {Any(r)})
    <3> HIDE DEF Sum, r, F
    <3> QED BY <1>3, <2>1
  <2> HIDE DEF Sum, F
  <2> QED BY <2>2, <2>3, <2>4
<1>6. Folds(F, g, s)
  <2> HIDE DEF Sum
  <2> QED BY <1>5 DEF Folds
<1> HIDE DEF F
<1> QED BY <1>1, <1>6

(* A sum is its first summand and the sum of the others.                   *)
LEMMA SumUnfolds ==
  ASSUME NEW g, NEW S, IsFiniteSet(S)
  PROVE  SumFunctionOnSet(g, S) =
           IF S = {} THEN 0 ELSE g[Any(S)] + SumFunctionOnSet(g, S \ {Any(S)})
<1> DEFINE f == CHOOSE f : Folds(f, g, S)
           r == S \ {Any(S)}
           h == CHOOSE h : Folds(h, g, r)
<1>1. Folds(f, g, S) /\ SumFunctionOnSet(g, S) = f[S]
  BY FoldExists, SumIsFold
<1>2. CASE S = {}
  <2> HIDE DEF f
  <2> QED BY <1>1, <1>2, FoldAt
<1>3. CASE S # {}
  <2>1. r \in SUBSET S /\ IsFiniteSet(r)
    BY FS_Subset
  <2>2. Folds(h, g, r) /\ SumFunctionOnSet(g, r) = h[r]
    BY <2>1, FoldExists, SumIsFold
  <2> HIDE DEF f, h
  <2>3. f[r] = h[r]
    <3> HIDE DEF r
    <3> QED BY <1>1, <2>1, <2>2, FoldUnique
  <2>4. f[S] = g[Any(S)] + f[r]
    BY <1>1, <1>3, FoldAt
  <2> QED BY <1>1, <1>3, <2>2, <2>3, <2>4
<1> QED BY <1>2, <1>3

(* A sum of integers is one.                                               *)
LEMMA SumType ==
  ASSUME NEW g, NEW S, IsFiniteSet(S), \A x \in S : g[x] \in Int
  PROVE  SumFunctionOnSet(g, S) \in Int
<1> DEFINE B == {s \in SUBSET S : SumFunctionOnSet(g, s) \notin Int}
<1> SUFFICES ASSUME B # {} PROVE FALSE
  OBVIOUS
<1>1. PICK s \in B : \A t \in SUBSET s : t # s => t \notin B
  <2>1. B \in SUBSET (SUBSET S)
    OBVIOUS
  <2> HIDE DEF B
  <2> QED BY <2>1, MinimalSubset
<1>2. s \in SUBSET S /\ IsFiniteSet(s) /\ SumFunctionOnSet(g, s) \notin Int
  BY FS_Subset
<1>3. s # {}
  <2>1. SumFunctionOnSet(g, {}) = 0
    BY SumUnfolds, FS_EmptySet
  <2> QED BY <1>2, <2>1
<1> DEFINE t == s \ {Any(s)}
<1>4. Any(s) \in S /\ t \in SUBSET s /\ t # s /\ t \in SUBSET S
  BY <1>2, <1>3, AnyMember
<1>5. SumFunctionOnSet(g, t) \in Int
  BY <1>1, <1>4
<1>6. SumFunctionOnSet(g, s) = g[Any(s)] + SumFunctionOnSet(g, t)
  BY <1>2, <1>3, SumUnfolds
<1> QED BY <1>2, <1>4, <1>5, <1>6

(* Any member may be taken out of a sum.                                   *)
LEMMA SumTakesOut ==
  ASSUME NEW g, NEW S, IsFiniteSet(S), \A x \in S : g[x] \in Int
  PROVE  \A s \in SUBSET S : \A x \in s :
           SumFunctionOnSet(g, s) = g[x] + SumFunctionOnSet(g, s \ {x})
<1> DEFINE Sum(s) == SumFunctionOnSet(g, s)
           B == {s \in SUBSET S : ~ \A x \in s : Sum(s) = g[x] + Sum(s \ {x})}
<1> SUFFICES ASSUME B # {} PROVE FALSE
  OBVIOUS
<1>1. PICK s \in B : \A t \in SUBSET s : t # s => t \notin B
  <2>1. B \in SUBSET (SUBSET S)
    OBVIOUS
  <2> HIDE DEF B
  <2> QED BY <2>1, MinimalSubset
<1>2. PICK x \in s : Sum(s) # g[x] + Sum(s \ {x})
  OBVIOUS
<1> DEFINE y == Any(s)
<1>3. s \in SUBSET S /\ IsFiniteSet(s) /\ y \in s
  BY FS_Subset, AnyMember
<1>4. Sum(s) = g[y] + Sum(s \ {y})
  BY <1>2, <1>3, SumUnfolds
<1>5. x # y
  BY <1>2, <1>4
<1> HIDE DEF y
<1>6. Sum(s \ {y}) = g[x] + Sum((s \ {y}) \ {x})
  <2>1. s \ {y} \in SUBSET s /\ s \ {y} # s /\ s \ {y} \notin B /\ x \in s \ {y}
    BY <1>1, <1>3, <1>5
  <2> HIDE DEF Sum
  <2> QED BY <1>3, <2>1
<1>7. Sum(s \ {x}) = g[y] + Sum((s \ {x}) \ {y})
  <2>1. s \ {x} \in SUBSET s /\ s \ {x} # s /\ s \ {x} \notin B /\ y \in s \ {x}
    BY <1>1, <1>3, <1>5
  <2> HIDE DEF Sum
  <2> QED BY <1>3, <2>1
<1>8. (s \ {x}) \ {y} = (s \ {y}) \ {x}
  OBVIOUS
<1>9. Sum((s \ {y}) \ {x}) \in Int /\ g[x] \in Int /\ g[y] \in Int
  <2>1. (s \ {y}) \ {x} \in SUBSET S
    BY <1>3
  <2>2. IsFiniteSet((s \ {y}) \ {x})
    BY <2>1, FS_Subset
  <2> QED BY <1>3, <2>1, <2>2, SumType
<1>10. Sum(s) = g[y] + (g[x] + Sum((s \ {y}) \ {x}))
  BY <1>4, <1>6
<1>11. Sum(s \ {x}) = g[y] + Sum((s \ {y}) \ {x})
  BY <1>7, <1>8
<1> HIDE DEF Sum
<1> QED BY <1>2, <1>9, <1>10, <1>11

(* A sum depends on the summands alone.                                    *)
LEMMA SumSame ==
  ASSUME NEW g, NEW h, NEW S, IsFiniteSet(S), \A x \in S : g[x] = h[x]
  PROVE  SumFunctionOnSet(g, S) = SumFunctionOnSet(h, S)
<1> DEFINE B == {s \in SUBSET S : SumFunctionOnSet(g, s) # SumFunctionOnSet(h, s)}
<1> SUFFICES ASSUME B # {} PROVE FALSE
  OBVIOUS
<1>1. PICK s \in B : \A t \in SUBSET s : t # s => t \notin B
  <2>1. B \in SUBSET (SUBSET S)
    OBVIOUS
  <2> HIDE DEF B
  <2> QED BY <2>1, MinimalSubset
<1>2. s \in SUBSET S /\ IsFiniteSet(s) /\ SumFunctionOnSet(g, s) # SumFunctionOnSet(h, s)
  BY FS_Subset
<1>3. s # {}
  BY <1>2, SumUnfolds
<1> DEFINE t == s \ {Any(s)}
<1>4. Any(s) \in S /\ t \in SUBSET s /\ t # s /\ t \in SUBSET S
  BY <1>2, <1>3, AnyMember
<1>5. SumFunctionOnSet(g, t) = SumFunctionOnSet(h, t)
  BY <1>1, <1>4
<1>6. /\ SumFunctionOnSet(g, s) = g[Any(s)] + SumFunctionOnSet(g, t)
      /\ SumFunctionOnSet(h, s) = h[Any(s)] + SumFunctionOnSet(h, t)
  BY <1>2, <1>3, SumUnfolds
<1> QED BY <1>2, <1>4, <1>5, <1>6

(* A sum grows by the value of a member that is added.                     *)
LEMMA SumAdds ==
  ASSUME NEW g, NEW h, NEW S, IsFiniteSet(S), NEW x, x \notin S,
         \A y \in S : g[y] \in Int /\ h[y] = g[y], h[x] \in Int
  PROVE  SumFunctionOnSet(h, S \cup {x}) = SumFunctionOnSet(g, S) + h[x]
<1> DEFINE T == S \cup {x}
<1>1. IsFiniteSet(T) /\ T \ {x} = S /\ x \in T /\ T \in SUBSET T /\ \A y \in T : h[y] \in Int
  BY FS_AddElement
<1> HIDE DEF T
<1>2. SumFunctionOnSet(h, T) = h[x] + SumFunctionOnSet(h, T \ {x})
  BY <1>1, SumTakesOut
<1>3. SumFunctionOnSet(h, S) = SumFunctionOnSet(g, S) /\ SumFunctionOnSet(g, S) \in Int
  BY SumSame, SumType
<1>4. SumFunctionOnSet(h, T) = h[x] + SumFunctionOnSet(h, S)
  BY <1>1, <1>2
<1>5. SumFunctionOnSet(h, T) = SumFunctionOnSet(g, S) + h[x]
  BY <1>3, <1>4
<1> QED BY <1>5 DEF T

(* A sum changes by what its one changed summand does.                     *)
LEMMA SumChanges ==
  ASSUME NEW g, NEW h, NEW S, IsFiniteSet(S), NEW x \in S,
         \A y \in S : g[y] \in Int, h[x] \in Int, \A y \in S \ {x} : h[y] = g[y]
  PROVE  SumFunctionOnSet(h, S) = SumFunctionOnSet(g, S) + (h[x] - g[x])
<1>1. IsFiniteSet(S \ {x}) /\ S \in SUBSET S /\ \A y \in S : h[y] \in Int
  BY FS_RemoveElement
<1>2. /\ SumFunctionOnSet(h, S) = h[x] + SumFunctionOnSet(h, S \ {x})
      /\ SumFunctionOnSet(g, S) = g[x] + SumFunctionOnSet(g, S \ {x})
  BY <1>1, SumTakesOut
<1>3. SumFunctionOnSet(h, S \ {x}) = SumFunctionOnSet(g, S \ {x}) /\ SumFunctionOnSet(g, S \ {x}) \in Int
  BY <1>1, SumSame, SumType
<1> QED BY <1>2, <1>3

-------------------------------------------------------------------------------
(* The book.                                                               *)

(* The terms of an order differ from a fair exchange by the rounding of    *)
(* the columns at most, but for what a cancelled sell gets back.           *)
OffersFit ==
  /\ Offers \subseteq Terms
  /\ \A t \in Offers : /\ 2 * (t.payout - t.hold) <= Cent
                       /\ 2 * (t.hold - t.payout) <= Cent

States == {"absent", "pending", "completed", "cancelled"}

Wallets == [Users -> [Currency -> Int]]

(* An order is in the book exactly if it is not absent.                    *)
Listing ==
  /\ Placed \subseteq Orders
  /\ IsFiniteSet(Placed)
  /\ book \in [Placed -> Offers]
  /\ state \in [Orders -> States]
  /\ \A o \in Orders : o \in Placed <=> state[o] # "absent"
  /\ funds \in Wallets

BookInv == Listing /\ MoneyIsKept

(* The money of the wallets and of the holds, without what cancelled sells *)
(* were refunded.                                                          *)
Kept(c) == Supply(funds, c) + Held(c) - Misrefund(c)

Slack(c) == Cent * Cardinality(ResolvedIn(c))

(* What a wallet update adds to the supply of its currency.                *)
LEMMA SupplyAdds ==
  ASSUME IsFiniteSet(Users), NEW f \in Wallets,
         NEW u \in Users, NEW c \in Currency, NEW x \in Int
  PROVE  /\ Add(f, u, c, x) \in Wallets
         /\ \A d \in Currency : /\ Supply(f, d) \in Int
                                /\ d = c => Supply(Add(f, u, c, x), d) = Supply(f, d) + x
                                /\ d # c => Supply(Add(f, u, c, x), d) = Supply(f, d)
<1> DEFINE a == Add(f, u, c, x)
<1>1. /\ a \in Wallets
      /\ \A v \in Users, d \in Currency :
           a[v][d] = IF v = u /\ d = c THEN f[v][d] + x ELSE f[v][d]
  BY DEF Add, Wallets
<1> HIDE DEF a
<1>2. ASSUME NEW d \in Currency
      PROVE  /\ Supply(f, d) \in Int
             /\ d = c => Supply(a, d) = Supply(f, d) + x
             /\ d # c => Supply(a, d) = Supply(f, d)
  <2> DEFINE g == [v \in Users |-> f[v][d]]
             h == [v \in Users |-> a[v][d]]
  <2>1. Supply(f, d) = SumFunctionOnSet(g, Users) /\ Supply(a, d) = SumFunctionOnSet(h, Users)
    BY DEF Supply, SumFunction
  <2>2. \A v \in Users : g[v] \in Int
    BY DEF Wallets
  <2>3. /\ h[u] \in Int /\ \A v \in Users \ {u} : h[v] = g[v]
        /\ h[u] = IF d = c THEN g[u] + x ELSE g[u]
    BY <1>1 DEF Wallets
  <2> HIDE DEF g, h
  <2>4. SumFunctionOnSet(g, Users) \in Int
    BY <2>2, SumType
  <2>5. SumFunctionOnSet(h, Users) = SumFunctionOnSet(g, Users) + (h[u] - g[u])
    BY <2>2, <2>3, SumChanges
  <2> QED BY <2>1, <2>2, <2>3, <2>4, <2>5
<1> QED BY <1>1, <1>2 DEF a

(* What a fulfilment adds: its price only changes hands, its payout is     *)
(* new.                                                                    *)
LEMMA SupplyMoves ==
  ASSUME IsFiniteSet(Users), NEW f \in Wallets,
         NEW u \in Users, NEW v \in Users, NEW a \in Currency, NEW b \in Currency, a # b,
         NEW x \in Int, NEW y \in Int
  PROVE  LET g == Add(Add(Add(f, u, b, -x), u, a, y), v, b, x)
         IN  /\ g \in Wallets
             /\ \A d \in Currency : /\ d = a => Supply(g, d) = Supply(f, d) + y
                                    /\ d # a => Supply(g, d) = Supply(f, d)
<1>1. -x \in Int
  OBVIOUS
<1>2. PICK f1 : f1 = Add(f, u, b, -x)
  OBVIOUS
<1>3. PICK f2 : f2 = Add(f1, u, a, y)
  OBVIOUS
<1>4. PICK f3 : f3 = Add(f2, v, b, x)
  OBVIOUS
<1>5. f1 \in Wallets
  BY <1>1, <1>2, SupplyAdds
<1>6. f2 \in Wallets
  BY <1>3, <1>5, SupplyAdds
<1>7. f3 \in Wallets
  BY <1>4, <1>6, SupplyAdds
<1> SUFFICES ASSUME NEW d \in Currency
             PROVE  /\ d = a => Supply(f3, d) = Supply(f, d) + y
                    /\ d # a => Supply(f3, d) = Supply(f, d)
  BY <1>2, <1>3, <1>4, <1>7
<1>8. /\ Supply(f, d) \in Int
      /\ d = b => Supply(f1, d) = Supply(f, d) + (-x)
      /\ d # b => Supply(f1, d) = Supply(f, d)
  BY <1>1, <1>2, SupplyAdds
<1>9. /\ d = a => Supply(f2, d) = Supply(f1, d) + y
      /\ d # a => Supply(f2, d) = Supply(f1, d)
  BY <1>3, <1>5, SupplyAdds
<1>10. /\ d = b => Supply(f3, d) = Supply(f2, d) + x
       /\ d # b => Supply(f3, d) = Supply(f2, d)
  BY <1>4, <1>6, SupplyAdds
<1> QED BY <1>8, <1>9, <1>10

(* Orders of the book have terms.                                          *)
LEMMA BookType == OffersFit /\ Listing => \A o \in Placed : book[o] \in Terms
BY DEF Listing, OffersFit

(* The sums over orders are integers.                                      *)
LEMMA KeptType ==
  ASSUME OffersFit, IsFiniteSet(Users), Listing, NEW c \in Currency
  PROVE  /\ Supply(funds, c) \in Int /\ Held(c) \in Int /\ Misrefund(c) \in Int
         /\ Cardinality(ResolvedIn(c)) \in Nat
         /\ \A states : IsFiniteSet(OrdersIn(c, states))
         /\ \A o \in Placed : book[o] \in Terms
<1>1. \A states : IsFiniteSet(OrdersIn(c, states))
  <2> SUFFICES ASSUME NEW states PROVE IsFiniteSet(OrdersIn(c, states))
    OBVIOUS
  <2>1. OrdersIn(c, states) \in SUBSET Placed
    BY DEF OrdersIn
  <2> QED BY <2>1, FS_Subset DEF Listing
<1>2. \A o \in Placed : book[o] \in Terms
  BY DEF Listing, OffersFit
<1>3. Supply(funds, c) \in Int
  <2> DEFINE g == [v \in Users |-> funds[v][c]]
  <2>1. \A v \in Users : g[v] \in Int
    BY DEF Listing, Wallets
  <2>2. Supply(funds, c) = SumFunctionOnSet(g, Users)
    BY DEF Supply, SumFunction
  <2> HIDE DEF g
  <2> QED BY <2>1, <2>2, SumType
<1>4. Held(c) \in Int
  <2> DEFINE g == [o \in Placed |-> book[o].hold]
             S == OrdersIn(c, {"pending"})
  <2>1. IsFiniteSet(S) /\ \A o \in S : g[o] \in Int
    BY <1>1, <1>2 DEF OrdersIn, Terms
  <2> HIDE DEF g, S
  <2>2. SumFunctionOnSet(g, S) \in Int
    BY <2>1, SumType
  <2> QED BY <2>2 DEF Held, g, S
<1>5. Misrefund(c) \in Int
  <2> DEFINE g == [o \in Placed |-> book[o].refund - book[o].payout]
             S == OrdersIn(c, {"cancelled"})
  <2>3. \A o \in Placed : book[o].refund \in Int /\ book[o].payout \in Int
    BY <1>2 DEF Terms
  <2>4. \A o \in Placed : g[o] \in Int
    BY <2>3
  <2>1. IsFiniteSet(S) /\ \A o \in S : g[o] \in Int
    <3>1. S \subseteq Placed /\ IsFiniteSet(S)
      BY <1>1 DEF OrdersIn
    <3> HIDE DEF g, S
    <3> QED BY <2>4, <3>1
  <2> HIDE DEF g, S
  <2>2. SumFunctionOnSet(g, S) \in Int
    BY <2>1, SumType
  <2> QED BY <2>2 DEF Misrefund, g, S
<1>6. Cardinality(ResolvedIn(c)) \in Nat
  BY <1>1, FS_CardinalityType DEF ResolvedIn
<1> QED BY <1>1, <1>2, <1>3, <1>4, <1>5, <1>6

(* Half a cent for every order resolved, in either direction.              *)
Within(k, n, s) == -s <= 2 * (k - n) /\ 2 * (k - n) <= s

(* MoneyIsKept, as a bound on the distance of two integers.                *)
LEMMA KeptWithin ==
  OffersFit /\ IsFiniteSet(Users) /\ Funds \in Wallets /\ Listing
    => /\ \A c \in Currency : /\ Kept(c) \in Int /\ Supply(Funds, c) \in Int
                              /\ Slack(c) \in Int
       /\ MoneyIsKept <=> \A c \in Currency : Within(Kept(c), Supply(Funds, c), Slack(c))
<1> SUFFICES ASSUME OffersFit, IsFiniteSet(Users), Funds \in Wallets, Listing
             PROVE  /\ \A c \in Currency : /\ Kept(c) \in Int /\ Supply(Funds, c) \in Int
                                           /\ Slack(c) \in Int
                    /\ MoneyIsKept <=>
                         \A c \in Currency : Within(Kept(c), Supply(Funds, c), Slack(c))
  OBVIOUS
<1>1. \A c \in Currency : /\ Supply(funds, c) \in Int /\ Held(c) \in Int /\ Misrefund(c) \in Int
                          /\ Cardinality(ResolvedIn(c)) \in Nat
  BY KeptType
<1>2. \A c \in Currency : Supply(Funds, c) \in Int
  <2> SUFFICES ASSUME NEW c \in Currency PROVE Supply(Funds, c) \in Int
    OBVIOUS
  <2> DEFINE g == [v \in Users |-> Funds[v][c]]
  <2>1. \A v \in Users : g[v] \in Int
    BY DEF Wallets
  <2>2. Supply(Funds, c) = SumFunctionOnSet(g, Users)
    BY DEF Supply, SumFunction
  <2> HIDE DEF g
  <2> QED BY <2>1, <2>2, SumType
<1>3. \A c \in Currency : Slack(c) \in Int /\ Kept(c) \in Int
  BY <1>1, CentAssumption DEF Slack, Kept
<1>4. ASSUME NEW c \in Currency
      PROVE  Within(Kept(c), Supply(Funds, c), Slack(c)) <=>
               LET drift == Supply(funds, c) + Held(c) - Supply(Funds, c) - Misrefund(c)
                   slack == Cent * Cardinality(ResolvedIn(c))
               IN  -slack <= 2 * drift /\ 2 * drift <= slack
  <2>1. Kept(c) - Supply(Funds, c)
          = Supply(funds, c) + Held(c) - Supply(Funds, c) - Misrefund(c)
    BY <1>1, <1>2 DEF Kept
  <2> QED BY <2>1 DEF Within, Slack
<1> QED BY <1>2, <1>3, <1>4 DEF MoneyIsKept

(* An order that is placed: what its owner gives is held.                  *)
LEMMA PlaceKeeps ==
  ASSUME OffersFit, IsFiniteSet(Users), Listing, NEW o \in Orders, Place(o)
  PROVE  /\ Listing'
         /\ \A c \in Currency : Kept(c)' = Kept(c) /\ ResolvedIn(c)' = ResolvedIn(c)
<1>1. PICK t \in Offers :
        /\ state[o] = "absent"
        /\ book' = [p \in Placed \cup {o} |-> IF p = o THEN t ELSE book[p]]
        /\ state' = [state EXCEPT ![o] = "pending"]
        /\ funds' = Add(funds, t.owner, t.cur, -t.hold)
  BY DEF Place
<1>2. /\ t.owner \in Users /\ t.cur \in Currency /\ t.hold \in Int /\ -t.hold \in Int
      /\ o \notin Placed
  BY <1>1 DEF OffersFit, Terms, Listing
<1>3. /\ Placed' = Placed \cup {o} /\ book'[o] = t
      /\ \A p \in Placed : p # o /\ book'[p] = book[p] /\ state'[p] = state[p]
      /\ state'[o] = "pending"
  BY <1>1, <1>2 DEF Placed, Listing
<1>4. funds' \in Wallets
  BY <1>1, <1>2, SupplyAdds DEF Listing
<1>5. Listing'
  <2>1. IsFiniteSet(Placed')
    BY <1>3, FS_AddElement DEF Listing
  <2>2. book' \in [Placed' -> Offers]
    BY <1>1, <1>3 DEF Listing
  <2>3. /\ Placed' \subseteq Orders /\ state' \in [Orders -> States]
        /\ \A p \in Orders : p \in Placed' <=> state'[p] # "absent"
    BY <1>1, <1>3 DEF Listing, States
  <2> QED BY <1>4, <2>1, <2>2, <2>3 DEF Listing
<1>6. ASSUME NEW c \in Currency PROVE Kept(c)' = Kept(c) /\ ResolvedIn(c)' = ResolvedIn(c)
  <2>1. /\ OrdersIn(c, {"pending"})' = OrdersIn(c, {"pending"}) \cup (IF t.cur = c THEN {o} ELSE {})
        /\ OrdersIn(c, {"cancelled"})' = OrdersIn(c, {"cancelled"})
        /\ ResolvedIn(c)' = ResolvedIn(c)
    BY <1>3 DEF OrdersIn, ResolvedIn
  <2>2. Held(c)' = Held(c) + IF t.cur = c THEN t.hold ELSE 0
    <3> DEFINE S == OrdersIn(c, {"pending"})
               g == [p \in Placed |-> book[p].hold]
               h == [p \in Placed' |-> book'[p].hold]
    <3>1. IsFiniteSet(S) /\ S \subseteq Placed /\ o \notin S
      BY <1>2, KeptType DEF OrdersIn
    <3>2. \A p \in Placed : g[p] \in Int /\ h[p] = g[p]
      BY <1>3, KeptType DEF Terms
    <3>3. h[o] = t.hold
      BY <1>3
    <3>4. /\ Held(c) = SumFunctionOnSet(g, S)
          /\ Held(c)' = SumFunctionOnSet(h, S \cup (IF t.cur = c THEN {o} ELSE {}))
      BY <2>1 DEF Held
    <3> HIDE DEF S, g, h
    <3>5. SumFunctionOnSet(g, S) \in Int
      BY <3>1, <3>2, SumType
    <3>6. CASE t.cur = c
      <4>1. SumFunctionOnSet(h, S \cup {o}) = SumFunctionOnSet(g, S) + h[o]
        BY <1>2, <3>1, <3>2, <3>3, SumAdds
      <4> QED BY <3>3, <3>4, <3>6, <4>1
    <3>7. CASE t.cur # c
      <4>1. SumFunctionOnSet(h, S) = SumFunctionOnSet(g, S)
        BY <3>1, <3>2, SumSame
      <4>2. S \cup {} = S
        OBVIOUS
      <4> QED BY <3>4, <3>5, <3>7, <4>1, <4>2
    <3> QED BY <3>6, <3>7
  <2>3. Misrefund(c)' = Misrefund(c)
    <3> DEFINE S == OrdersIn(c, {"cancelled"})
               g == [p \in Placed |-> book[p].refund - book[p].payout]
               h == [p \in Placed' |-> book'[p].refund - book'[p].payout]
    <3>1. IsFiniteSet(S) /\ S \subseteq Placed
      BY KeptType DEF OrdersIn
    <3>2. \A p \in Placed : h[p] = g[p]
      BY <1>3
    <3>3. Misrefund(c) = SumFunctionOnSet(g, S) /\ Misrefund(c)' = SumFunctionOnSet(h, S)
      BY <2>1 DEF Misrefund
    <3> HIDE DEF S, g, h
    <3> QED BY <3>1, <3>2, <3>3, SumSame
  <2>4. /\ t.cur = c => Supply(funds, c)' = Supply(funds, c) + (-t.hold)
        /\ t.cur # c => Supply(funds, c)' = Supply(funds, c)
    <3> DEFINE x == -t.hold
    <3>1. funds \in Wallets /\ x \in Int
      BY <1>2 DEF Listing
    <3> HIDE DEF x
    <3>2. /\ t.cur = c => Supply(Add(funds, t.owner, t.cur, x), c) = Supply(funds, c) + x
          /\ t.cur # c => Supply(Add(funds, t.owner, t.cur, x), c) = Supply(funds, c)
      BY <1>2, <3>1, SupplyAdds
    <3>3. Supply(funds, c)' = Supply(funds', c)
      BY DEF Supply
    <3> QED BY <1>1, <3>2, <3>3 DEF x
  <2>5. Supply(funds, c) \in Int /\ Held(c) \in Int /\ Misrefund(c) \in Int
    BY KeptType
  <2>6. Kept(c)' = Kept(c)
    BY <1>2, <2>2, <2>3, <2>4, <2>5 DEF Kept
  <2> QED BY <2>1, <2>6
<1> QED BY <1>5, <1>6

(* An order leaves the pending ones; its money moves from the holds to the *)
(* wallets.                                                                *)
LEMMA PendingEnds ==
  ASSUME OffersFit, IsFiniteSet(Users), Listing, NEW o \in Orders, state[o] = "pending",
         NEW s \in {"completed", "cancelled"},
         state' = [state EXCEPT ![o] = s], book' = book,
         funds' \in Wallets,
         NEW c \in Currency
  PROVE  /\ Listing'
         /\ book[o] \in Terms /\ o \in Placed
         /\ Held(c)' = Held(c) - IF book[o].cur = c THEN book[o].hold ELSE 0
         /\ Misrefund(c)' = Misrefund(c) + IF book[o].cur = c /\ s = "cancelled"
                                           THEN book[o].refund - book[o].payout ELSE 0
         /\ Slack(c)' = Slack(c) + IF book[o].cur = c THEN Cent ELSE 0
<1> DEFINE t == book[o]
<1>1. /\ o \in Placed /\ t \in Terms /\ t.hold \in Int /\ t.refund \in Int /\ t.payout \in Int
      /\ \A p \in Placed : book[p] \in Terms
  <2>1. o \in Placed
    BY DEF Listing
  <2> QED BY <2>1, KeptType DEF Terms
<1>2. Placed' = Placed /\ \A p \in Placed : state'[p] = IF p = o THEN s ELSE state[p]
  BY DEF Placed, Listing
<1>3. Listing'
  BY <1>1, <1>2 DEF Listing, States
<1> HIDE DEF t
<1>4. Held(c)' = Held(c) - IF t.cur = c THEN t.hold ELSE 0
  <2> DEFINE S == OrdersIn(c, {"pending"})
             g == [p \in Placed |-> book[p].hold]
  <2>1. IsFiniteSet(S) /\ S \subseteq Placed /\ (o \in S <=> t.cur = c)
    BY <1>1, KeptType DEF OrdersIn, t
  <2>2. OrdersIn(c, {"pending"})' = S \ {o}
    BY <1>1, <1>2 DEF OrdersIn
  <2>3. Held(c) = SumFunctionOnSet(g, S) /\ Held(c)' = SumFunctionOnSet(g, S \ {o})
    BY <1>2, <2>2 DEF Held
  <2>4. \A p \in Placed : g[p] \in Int
    BY <1>1 DEF Terms
  <2>5. g[o] = t.hold
    BY <1>1 DEF t
  <2> HIDE DEF S, g
  <2>6. CASE o \in S
    <3>1. IsFiniteSet(S \ {o}) /\ \A p \in S \ {o} : g[p] \in Int
      BY <2>1, <2>4, FS_RemoveElement
    <3>2. SumFunctionOnSet(g, S \ {o}) \in Int
      BY <3>1, SumType
    <3>3. S \in SUBSET S /\ \A p \in S : g[p] \in Int
      BY <2>1, <2>4
    <3>4. SumFunctionOnSet(g, S) = g[o] + SumFunctionOnSet(g, S \ {o})
      BY <2>1, <2>6, <3>3, SumTakesOut
    <3> QED BY <1>1, <2>1, <2>3, <2>5, <2>6, <3>2, <3>4
  <2>7. CASE o \notin S
    <3>1. S \ {o} = S /\ t.cur # c
      BY <2>1, <2>7
    <3>2. SumFunctionOnSet(g, S) \in Int
      BY <2>1, <2>4, SumType
    <3> QED BY <2>3, <3>1, <3>2
  <2> QED BY <2>6, <2>7
<1>5. Misrefund(c)' = Misrefund(c) + IF t.cur = c /\ s = "cancelled" THEN t.refund - t.payout ELSE 0
  <2> DEFINE S == OrdersIn(c, {"cancelled"})
             g == [p \in Placed |-> book[p].refund - book[p].payout]
  <2>1. IsFiniteSet(S) /\ S \subseteq Placed /\ o \notin S
    BY <1>1, KeptType DEF OrdersIn
  <2>2. OrdersIn(c, {"cancelled"})' = IF t.cur = c /\ s = "cancelled" THEN S \cup {o} ELSE S
    BY <1>1, <1>2 DEF OrdersIn, t
  <2>3. /\ Misrefund(c) = SumFunctionOnSet(g, S)
        /\ Misrefund(c)' = SumFunctionOnSet(g, OrdersIn(c, {"cancelled"})')
    BY <1>2 DEF Misrefund
  <2>4. \A p \in Placed : g[p] \in Int
    <3>1. \A p \in Placed : book[p].refund \in Int /\ book[p].payout \in Int
      BY <1>1 DEF Terms
    <3> QED BY <3>1
  <2>5. g[o] = t.refund - t.payout
    BY <1>1 DEF t
  <2> HIDE DEF S, g
  <2>6. SumFunctionOnSet(g, S) \in Int
    BY <2>1, <2>4, SumType
  <2>7. SumFunctionOnSet(g, S \cup {o}) = SumFunctionOnSet(g, S) + g[o]
    BY <1>1, <2>1, <2>4, SumAdds
  <2> QED BY <2>2, <2>3, <2>5, <2>6, <2>7
<1>6. Slack(c)' = Slack(c) + IF t.cur = c THEN Cent ELSE 0
  <2> DEFINE n == Cardinality(ResolvedIn(c))
  <2>1. /\ IsFiniteSet(ResolvedIn(c)) /\ o \notin ResolvedIn(c)
        /\ n \in Nat /\ Cent \in Nat
    BY <1>1, KeptType, CentAssumption DEF OrdersIn, ResolvedIn
  <2>2. ResolvedIn(c)' = IF t.cur = c THEN ResolvedIn(c) \cup {o} ELSE ResolvedIn(c)
    BY <1>1, <1>2 DEF OrdersIn, ResolvedIn, t
  <2>3. Cardinality(ResolvedIn(c) \cup {o}) = n + 1
    BY <2>1, FS_AddElement
  <2>4. Slack(c) = Cent * n /\ Slack(c)' = Cent * (IF t.cur = c THEN n + 1 ELSE n)
    BY <2>2, <2>3 DEF Slack
  <2> HIDE DEF n
  <2>5. Cent * (n + 1) = Cent * n + Cent /\ Cent * n \in Int
    BY <2>1
  <2> QED BY <2>4, <2>5
<1> QED BY <1>1, <1>3, <1>4, <1>5, <1>6 DEF t

(* The price goes from the fulfiller to the owner, and what was held to    *)
(* the fulfiller, rounded.                                                 *)
LEMMA FulfilKeeps ==
  ASSUME OffersFit, IsFiniteSet(Users), Listing, NEW o \in Orders, NEW u \in Users, Fulfil(o, u)
  PROVE  /\ Listing'
         /\ \A c \in Currency :
              IF book[o].cur = c
              THEN Kept(c)' = Kept(c) + (book[o].payout - book[o].hold) /\ Slack(c)' = Slack(c) + Cent
              ELSE Kept(c)' = Kept(c) /\ Slack(c)' = Slack(c)
<1> DEFINE t == book[o]
<1>1. /\ state[o] = "pending" /\ state' = [state EXCEPT ![o] = "completed"] /\ book' = book
      /\ funds' = Add(Add(Add(funds, u, Other(t.cur), -t.price), u, t.cur, t.payout),
                      t.owner, Other(t.cur), t.price)
  BY DEF Fulfil
<1>2. o \in Placed /\ t \in Terms
  <2>1. o \in Placed
    BY <1>1 DEF Listing
  <2> QED BY <2>1, BookType
<1>3. /\ t.cur \in Currency /\ Other(t.cur) \in Currency /\ Other(t.cur) # t.cur
      /\ t.owner \in Users /\ t.price \in Int /\ t.payout \in Int /\ t.hold \in Int
  BY <1>2 DEF Terms, Currency, Other
<1> HIDE DEF t
<1>4. /\ funds' \in Wallets
      /\ \A c \in Currency : /\ c = t.cur => Supply(funds', c) = Supply(funds, c) + t.payout
                             /\ c # t.cur => Supply(funds', c) = Supply(funds, c)
  <2>1. PICK a, b, v, x, y : a = t.cur /\ b = Other(t.cur) /\ v = t.owner /\ x = t.price /\ y = t.payout
    OBVIOUS
  <2>2. /\ a \in Currency /\ b \in Currency /\ a # b /\ v \in Users /\ x \in Int /\ y \in Int
        /\ funds \in Wallets
        /\ funds' = Add(Add(Add(funds, u, b, -x), u, a, y), v, b, x)
    BY <1>1, <1>3, <2>1 DEF Listing
  <2>3. /\ funds' \in Wallets
        /\ \A c \in Currency : /\ c = a => Supply(funds', c) = Supply(funds, c) + y
                               /\ c # a => Supply(funds', c) = Supply(funds, c)
    BY <2>2, SupplyMoves
  <2> QED BY <2>1, <2>3
<1>7. ASSUME NEW c \in Currency
      PROVE  /\ Listing'
             /\ IF t.cur = c
                THEN Kept(c)' = Kept(c) + (t.payout - t.hold) /\ Slack(c)' = Slack(c) + Cent
                ELSE Kept(c)' = Kept(c) /\ Slack(c)' = Slack(c)
  <2>1. /\ Listing'
        /\ Held(c)' = Held(c) - IF t.cur = c THEN t.hold ELSE 0
        /\ Misrefund(c)' = Misrefund(c) + 0
        /\ Slack(c)' = Slack(c) + IF t.cur = c THEN Cent ELSE 0
    <3> DEFINE s == "completed"
    <3>1. s \in {"completed", "cancelled"} /\ state' = [state EXCEPT ![o] = s] /\ s # "cancelled"
      BY <1>1
    <3> HIDE DEF s
    <3> QED BY <1>1, <1>4, <3>1, PendingEnds DEF t
  <2>2. /\ Supply(funds, c) \in Int /\ Held(c) \in Int /\ Misrefund(c) \in Int
        /\ Cardinality(ResolvedIn(c)) \in Nat
    BY KeptType
  <2>3. Supply(funds, c)' = Supply(funds, c) + IF t.cur = c THEN t.payout ELSE 0
    <3>1. Supply(funds, c)' = Supply(funds', c)
      BY DEF Supply
    <3> QED BY <1>3, <1>4, <2>2, <3>1
  <2>4. Slack(c) \in Int
    BY <2>2, CentAssumption DEF Slack
  <2> QED BY <1>3, <2>1, <2>2, <2>3, <2>4 DEF Kept
<1>8. Listing'
  BY <1>3, <1>7
<1> QED BY <1>7, <1>8 DEF t

(* The refund goes to the owner.                                           *)
LEMMA CancelKeeps ==
  ASSUME OffersFit, IsFiniteSet(Users), Listing, NEW o \in Orders, Cancel(o)
  PROVE  /\ Listing'
         /\ \A c \in Currency :
              IF book[o].cur = c
              THEN Kept(c)' = Kept(c) + (book[o].payout - book[o].hold) /\ Slack(c)' = Slack(c) + Cent
              ELSE Kept(c)' = Kept(c) /\ Slack(c)' = Slack(c)
<1> DEFINE t == book[o]
           f == Add(funds, t.owner, t.cur, t.refund)
<1>1. /\ state[o] = "pending" /\ state' = [state EXCEPT ![o] = "cancelled"] /\ book' = book
      /\ funds' = f
  BY DEF Cancel
<1>2. o \in Placed /\ t \in Terms
  <2>1. o \in Placed
    BY <1>1 DEF Listing
  <2> QED BY <2>1, BookType
<1>3. /\ t.cur \in Currency /\ t.owner \in Users
      /\ t.refund \in Int /\ t.payout \in Int /\ t.hold \in Int
  BY <1>2 DEF Terms
<1> HIDE DEF t
<1>4. /\ f \in Wallets
      /\ \A c \in Currency : /\ c = t.cur => Supply(f, c) = Supply(funds, c) + t.refund
                             /\ c # t.cur => Supply(f, c) = Supply(funds, c)
  <2>1. PICK x : x = t.refund
    OBVIOUS
  <2>2. funds \in Wallets /\ f = Add(funds, t.owner, t.cur, x) /\ x \in Int
    BY <1>3, <2>1 DEF Listing
  <2> HIDE DEF f
  <2>3. /\ f \in Wallets
        /\ \A c \in Currency : /\ c = t.cur => Supply(f, c) = Supply(funds, c) + x
                               /\ c # t.cur => Supply(f, c) = Supply(funds, c)
    BY <1>3, <2>2, SupplyAdds
  <2> QED BY <2>1, <2>3
<1> HIDE DEF f
<1>7. ASSUME NEW c \in Currency
      PROVE  /\ Listing'
             /\ IF t.cur = c
                THEN Kept(c)' = Kept(c) + (t.payout - t.hold) /\ Slack(c)' = Slack(c) + Cent
                ELSE Kept(c)' = Kept(c) /\ Slack(c)' = Slack(c)
  <2>1. /\ Listing'
        /\ Held(c)' = Held(c) - IF t.cur = c THEN t.hold ELSE 0
        /\ Misrefund(c)' = Misrefund(c) + IF t.cur = c THEN t.refund - t.payout ELSE 0
        /\ Slack(c)' = Slack(c) + IF t.cur = c THEN Cent ELSE 0
    <3> DEFINE s == "cancelled"
    <3>1. s \in {"completed", "cancelled"} /\ state' = [state EXCEPT ![o] = s] /\ s = "cancelled"
      BY <1>1
    <3> HIDE DEF s
    <3> QED BY <1>1, <1>4, <3>1, PendingEnds DEF t
  <2>2. /\ Supply(funds, c) \in Int /\ Held(c) \in Int /\ Misrefund(c) \in Int
        /\ Cardinality(ResolvedIn(c)) \in Nat
    BY KeptType
  <2>3. Supply(funds, c)' = Supply(funds, c) + IF t.cur = c THEN t.refund ELSE 0
    <3>1. Supply(funds, c)' = Supply(f, c)
      BY <1>1 DEF Supply
    <3> QED BY <1>4, <2>2, <3>1
  <2>4. Slack(c) \in Int
    BY <2>2, CentAssumption DEF Slack
  <2> QED BY <1>3, <2>1, <2>2, <2>3, <2>4 DEF Kept
<1>8. Listing'
  BY <1>3, <1>7
<1> QED BY <1>7, <1>8 DEF t

(* Initially there is no order and no money has moved.                     *)
LEMMA InitBook ==
  ASSUME OffersFit, IsFiniteSet(Users), Funds \in Wallets, Init
  PROVE  BookInv
<1>1. Placed = {} /\ \A c, states : OrdersIn(c, states) = {}
  BY DEF Init, Placed, OrdersIn
<1>2. Listing
  BY <1>1, FS_EmptySet DEF Init, Listing, States
<1>3. ASSUME NEW c \in Currency PROVE Within(Kept(c), Supply(Funds, c), Slack(c))
  <2>1. \A g : SumFunctionOnSet(g, {}) = 0
    BY SumUnfolds, FS_EmptySet
  <2>2. Held(c) = 0 /\ Misrefund(c) = 0
    BY <1>1, <2>1 DEF Held, Misrefund
  <2>3. Slack(c) = 0
    BY <1>1, FS_EmptySet, CentAssumption DEF ResolvedIn, Slack
  <2>4. Supply(funds, c) = Supply(Funds, c) /\ Supply(funds, c) \in Int
    BY <1>2, KeptType DEF Init
  <2> QED BY <2>2, <2>3, <2>4 DEF Kept, Within
<1> QED BY <1>2, <1>3, KeptWithin DEF BookInv

(* KeptWithin in the next state.                                           *)
LEMMA KeptWithinNext ==
  OffersFit /\ IsFiniteSet(Users) /\ Funds \in Wallets /\ Listing'
    => /\ \A c \in Currency : /\ Kept(c)' \in Int /\ Supply(Funds, c) \in Int
                              /\ Slack(c)' \in Int
       /\ MoneyIsKept' <=> \A c \in Currency : Within(Kept(c)', Supply(Funds, c), Slack(c)')
<1>1. (OffersFit /\ IsFiniteSet(Users) /\ Funds \in Wallets /\ Listing
         => /\ \A c \in Currency : /\ Kept(c) \in Int /\ Supply(Funds, c) \in Int
                                   /\ Slack(c) \in Int
            /\ MoneyIsKept <=> \A c \in Currency : Within(Kept(c), Supply(Funds, c), Slack(c)))'
  BY KeptWithin, PTL
<1> QED BY <1>1 DEF OffersFit, Supply, Within

(* Every step of the book keeps its invariant.                             *)
LEMMA BookStep ==
  ASSUME OffersFit, IsFiniteSet(Users), Funds \in Wallets
  PROVE  BookInv /\ [Next]_vars => BookInv'
<1> SUFFICES ASSUME BookInv, [Next]_vars PROVE BookInv'
  OBVIOUS
<1> USE DEF Within
<1>1. /\ Listing
      /\ \A c \in Currency : /\ Kept(c) \in Int /\ Supply(Funds, c) \in Int /\ Slack(c) \in Int
                             /\ Within(Kept(c), Supply(Funds, c), Slack(c))
  BY KeptWithin DEF BookInv
<1>2. SUFFICES /\ Listing'
               /\ \A c \in Currency : Within(Kept(c)', Supply(Funds, c), Slack(c)')
  BY KeptWithinNext DEF BookInv
<1>3. ASSUME NEW o \in Orders, Place(o)
      PROVE  Listing' /\ \A c \in Currency : Within(Kept(c)', Supply(Funds, c), Slack(c)')
  <2>1. Listing' /\ \A c \in Currency : Kept(c)' = Kept(c) /\ Slack(c)' = Slack(c)
    BY <1>1, <1>3, PlaceKeeps DEF Slack
  <2> QED BY <1>1, <2>1
<1>4. ASSUME NEW o \in Orders,
             Cancel(o) \/ \E u \in Users : Fulfil(o, u)
      PROVE  Listing' /\ \A c \in Currency : Within(Kept(c)', Supply(Funds, c), Slack(c)')
  <2>1. /\ Listing'
        /\ \A c \in Currency :
             IF book[o].cur = c
             THEN Kept(c)' = Kept(c) + (book[o].payout - book[o].hold) /\ Slack(c)' = Slack(c) + Cent
             ELSE Kept(c)' = Kept(c) /\ Slack(c)' = Slack(c)
    BY <1>1, <1>4, CancelKeeps, FulfilKeeps
  <2>2. PICK d : d = book[o].payout - book[o].hold
    OBVIOUS
  <2>3. d \in Int /\ 2 * d <= Cent /\ -Cent <= 2 * d /\ Cent \in Int
    <3>1. book[o] \in Offers
      BY <1>1, <1>4 DEF Cancel, Fulfil, Listing
    <3>2. /\ book[o].payout \in Int /\ book[o].hold \in Int
          /\ 2 * (book[o].payout - book[o].hold) <= Cent
          /\ 2 * (book[o].hold - book[o].payout) <= Cent
      BY <3>1 DEF OffersFit, Terms
    <3> QED BY <2>2, <3>2, CentAssumption
  <2>4. ASSUME NEW c \in Currency PROVE Within(Kept(c)', Supply(Funds, c), Slack(c)')
    <3>1. \/ Kept(c)' = Kept(c) + d /\ Slack(c)' = Slack(c) + Cent
          \/ Kept(c)' = Kept(c) /\ Slack(c)' = Slack(c)
      BY <2>1, <2>2
    <3> QED BY <1>1, <2>3, <3>1
  <2> QED BY <2>1, <2>4
<1>5. CASE UNCHANGED vars
  <2>1. /\ Listing'
        /\ \A c \in Currency : Kept(c)' = Kept(c) /\ Slack(c)' = Slack(c)
    BY <1>1, <1>5 DEF vars, Listing, Placed, Kept, Slack, Held, Misrefund, ResolvedIn, OrdersIn, Supply
  <2> QED BY <1>1, <2>1
<1> QED BY <1>3, <1>4, <1>5 DEF Next

(* In each currency the wallets and the holds of the pending orders        *)
(* together stay what the users started with, up to half a cent for every  *)
(* order resolved and what cancelled sells got too much or too little.     *)
THEOREM MoneyConserved ==
  ASSUME OffersFit, IsFiniteSet(Users), Funds \in [Users -> [Currency -> Int]]
  PROVE  Spec => []MoneyIsKept
<1>1. Funds \in Wallets
  BY DEF Wallets
<1>2. Init => BookInv
  BY <1>1, InitBook
<1>3. BookInv /\ [Next]_vars => BookInv'
  BY <1>1, BookStep
<1>4. BookInv => MoneyIsKept
  BY DEF BookInv
<1> QED BY <1>2, <1>3, <1>4, PTL DEF Spec
================================================================================
