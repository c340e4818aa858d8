--------------------------- MODULE Wallet_proofs ----------------------------
(***************************************************************************)
(* What the components that use the ledger's atomic mutations need to know *)
(* of them, for any users, keys and amounts: what a posting takes and      *)
(* keeps, and that a balance is the sum of the user's rows.                *)
(***************************************************************************)
EXTENDS Wallet, FiniteSetsExt, FiniteSetTheorems, TLAPS

(* A posting keeps the wallet's type and takes its key and no other. *)
LEMMA PostOnceTakesKey ==
  ASSUME WalletTypeOK,
         NEW k \in Keys, NEW u \in Users, NEW d \in Deltas,
         PostOnce(k, u, d)
  PROVE  /\ WalletTypeOK'
         /\ HasKey(k)'
         /\ \A i : HasKey(i) => HasKey(i)'
         /\ \A i : HasKey(i)' => HasKey(i) \/ i = k
<1>1. CASE HasKey(k)
  BY <1>1 DEF PostOnce, HasKey, WalletTypeOK, walletVars
<1>2. CASE ~ HasKey(k)
  <2>. DEFINE row == [key |-> k, user |-> u, delta |-> d]
  <2>1. rows' = rows \cup {row} /\ balance' = [balance EXCEPT ![u] = @ + d]
    BY <1>2 DEF PostOnce, Post
  <2>2. row \in Row /\ row.key = k
    BY DEF Row
  <2>3. balance' \in [Users -> Int]
    BY <2>1, DeltasAssumption DEF WalletTypeOK
  <2>. QED
    BY <2>1, <2>2, <2>3 DEF WalletTypeOK, HasKey
<1>. QED
  BY <1>1, <1>2

(* A step that leaves the wallet alone leaves its keys alone. *)
LEMMA WalletKept ==
  ASSUME UNCHANGED walletVars
  PROVE  /\ WalletTypeOK => WalletTypeOK'
         /\ \A i : HasKey(i)' <=> HasKey(i)
  BY DEF walletVars, WalletTypeOK, HasKey

(* The wallet begins without a key. *)
LEMMA WalletEmpty ==
  ASSUME WalletInit
  PROVE  WalletTypeOK /\ \A i : ~ HasKey(i)
  BY DEF WalletInit, WalletTypeOK, HasKey

(* A posting is a step of the wallet, or none. *)
LEMMA PostOnceIsStep ==
  ASSUME NEW k \in Keys, NEW u \in Users, NEW d \in Deltas, PostOnce(k, u, d)
  PROVE  [WalletNext]_walletVars
  BY DEF PostOnce, WalletNext

(* Whoever moves money through the wallet only leaves no balance below     *)
(* zero, and no key with two rows.                                         *)
WalletKeeps ==
  /\ \A u \in Users : balance[u] >= 0
  /\ \A q, r \in rows : q.key = r.key => q = r

(* The wallet keeps both, whoever uses it: a balance goes down only as far *)
(* as it is covered, and a key that is taken takes no second row.          *)
THEOREM WalletIsSound == WalletSpec => [](WalletTypeOK /\ WalletKeeps)
<1>. DEFINE Inv == WalletTypeOK /\ WalletKeeps
<1>1. WalletInit => Inv
  BY DEF WalletInit, WalletTypeOK, WalletKeeps
<1>2. Inv /\ [WalletNext]_walletVars => Inv'
  <2>. SUFFICES ASSUME Inv, [WalletNext]_walletVars PROVE Inv'
    OBVIOUS
  <2>1. CASE UNCHANGED walletVars
    BY <2>1 DEF walletVars, WalletTypeOK, WalletKeeps
  <2>2. ASSUME NEW k \in Keys, NEW u \in Users, NEW d \in Deltas, Post(k, u, d) PROVE Inv'
    <3>. DEFINE row == [key |-> k, user |-> u, delta |-> d]
    <3>1. /\ rows' = rows \cup {row} /\ balance' = [balance EXCEPT ![u] = @ + d]
          /\ balance[u] + d >= 0 /\ \A r \in rows : r.key # k
      BY <2>2 DEF Post, HasKey, CanAfford
    <3>2. WalletTypeOK'
      <4>1. row \in Row
        BY DEF Row
      <4>. QED
        BY <3>1, <4>1, DeltasAssumption DEF WalletTypeOK
    <3>3. \A v \in Users : balance'[v] >= 0
      BY <3>1 DEF WalletTypeOK, WalletKeeps
    <3>4. \A q, r \in rows' : q.key = r.key => q = r
      BY <3>1 DEF WalletKeeps
    <3>. QED
      BY <3>2, <3>3, <3>4 DEF WalletKeeps
  <2>. QED
    BY <2>1, <2>2 DEF WalletNext
<1>. QED
  BY <1>1, <1>2, PTL DEF WalletSpec

-----------------------------------------------------------------------------
(* The sum over a finite set, as MapThenSumSet computes it: it takes the   *)
(* elements one after the other, each time the one CHOOSE gives, and adds  *)
(* up a number for each.  The lemmas say that the sum exists, that it does *)
(* not depend on the order, and what one more element does to it.  Every   *)
(* induction is a minimal counterexample among the subsets of the set that *)
(* is summed.                                                              *)

(* The element that a sum takes next. *)
Pick(s) == CHOOSE x \in s : TRUE

(* g holds the sum of d over every subset of S, as the recursion in        *)
(* MapThenFoldSet computes it.                                             *)
IsFold(g, S, d) ==
  g = [s \in SUBSET S |->
         IF s = {} THEN 0 ELSE d[Pick(s)] + g[s \ {Pick(s)}]]

(* The sum of d over S. *)
Total(d, S) == (CHOOSE g : IsFold(g, S, d))[S]

(* An element that is taken is in the set, and leaves a smaller one. *)
LEMMA PickTakes ==
  ASSUME NEW s, s # {}
  PROVE  Pick(s) \in s /\ s \ {Pick(s)} \subseteq s /\ s \ {Pick(s)} # s
  BY DEF Pick

(* A family of subsets of a finite set has a minimal member. *)
LEMMA MinimalSubset ==
  ASSUME NEW S, IsFiniteSet(S), NEW T, T \subseteq SUBSET S, T # {}
  PROVE  \E s \in T : \A t \in T : t \subseteq s => t = s
<1>1. IsWellFoundedOn(StrictSubsetOrdering(S), FiniteSubsetsOf(S))
  BY FS_StrictSubsetOrderingWellFounded
<1>2. FiniteSubsetsOf(S) = SUBSET S
  BY FS_Subset DEF FiniteSubsetsOf
<1>3. PICK s \in T : \A t \in T : <<t, s>> \notin StrictSubsetOrdering(S)
  BY <1>1, <1>2, WFMin, Zenon
<1>4. \A t \in T : t \subseteq s => t = s
  BY <1>3 DEF StrictSubsetOrdering
<1>. QED
  BY <1>4

(* The equation of the recursion: nothing adds up to zero, ... *)
LEMMA FoldEmpty ==
  ASSUME NEW g, NEW S, NEW d, IsFold(g, S, d)
  PROVE  g[{}] = 0
  BY DEF IsFold

(* ... and anything else to an element and the sum of the others. *)
LEMMA FoldNext ==
  ASSUME NEW g, NEW S, NEW d, IsFold(g, S, d), NEW s \in SUBSET S, s # {}
  PROVE  g[s] = d[Pick(s)] + g[s \ {Pick(s)}]
  BY DEF IsFold

(* A sum of integers is an integer. *)
LEMMA FoldIsInt ==
  ASSUME NEW g, NEW S, IsFiniteSet(S), NEW d, \A x \in S : d[x] \in Int,
         IsFold(g, S, d)
  PROVE  \A s \in SUBSET S : g[s] \in Int
<1>. DEFINE Bad == {s \in SUBSET S : g[s] \notin Int}
<1>. SUFFICES ASSUME Bad # {} PROVE FALSE
  OBVIOUS
<1>1. Bad \subseteq SUBSET S
  OBVIOUS
<1>2. \E s \in Bad : \A t \in Bad : t \subseteq s => t = s
  <2>. HIDE DEF Bad
  <2>. QED
    BY <1>1, MinimalSubset
<1>3. PICK s \in Bad : \A t \in Bad : t \subseteq s => t = s
  BY <1>2
<1>4. s \in SUBSET S
  OBVIOUS
<1>5. s # {}
  BY FoldEmpty
<1>. HIDE DEF Bad
<1>6. g[s] = d[Pick(s)] + g[s \ {Pick(s)}]
  BY <1>4, <1>5, FoldNext
<1>7. Pick(s) \in S /\ g[s \ {Pick(s)}] \in Int
  BY <1>3, <1>4, <1>5, PickTakes DEF Bad
<1>. QED
  BY <1>3, <1>6, <1>7 DEF Bad

(* Two sums of the same numbers agree on the subsets they both have. *)
LEMMA FoldsAgree ==
  ASSUME NEW S, IsFiniteSet(S), NEW T, S \subseteq T, NEW g, NEW h, NEW d, NEW e,
         IsFold(g, S, d), IsFold(h, T, e), \A x \in S : d[x] = e[x]
  PROVE  \A s \in SUBSET S : g[s] = h[s]
<1>. DEFINE Bad == {s \in SUBSET S : g[s] # h[s]}
<1>. SUFFICES ASSUME Bad # {} PROVE FALSE
  OBVIOUS
<1>1. Bad \subseteq SUBSET S
  OBVIOUS
<1>2. \E s \in Bad : \A t \in Bad : t \subseteq s => t = s
  <2>. HIDE DEF Bad
  <2>. QED
    BY <1>1, MinimalSubset
<1>3. PICK s \in Bad : \A t \in Bad : t \subseteq s => t = s
  BY <1>2
<1>4. s \in SUBSET S /\ s \in SUBSET T
  OBVIOUS
<1>5. s # {}
  BY FoldEmpty
<1>. HIDE DEF Bad
<1>6. /\ g[s] = d[Pick(s)] + g[s \ {Pick(s)}]
      /\ h[s] = e[Pick(s)] + h[s \ {Pick(s)}]
  BY <1>4, <1>5, FoldNext
<1>7. Pick(s) \in S /\ g[s \ {Pick(s)}] = h[s \ {Pick(s)}]
  BY <1>3, <1>4, <1>5, PickTakes DEF Bad
<1>. QED
  BY <1>3, <1>6, <1>7 DEF Bad

(* Which element is taken out first does not matter. *)
LEMMA FoldTakesAny ==
  ASSUME NEW S, IsFiniteSet(S), NEW g, NEW d, \A x \in S : d[x] \in Int,
         IsFold(g, S, d)
  PROVE  \A s \in SUBSET S : \A y \in s : g[s] = d[y] + g[s \ {y}]
<1>. DEFINE Bad == {s \in SUBSET S : \E y \in s : g[s] # d[y] + g[s \ {y}]}
<1>. SUFFICES ASSUME Bad # {} PROVE FALSE
  OBVIOUS
<1>1. Bad \subseteq SUBSET S
  OBVIOUS
<1>2. \E s \in Bad : \A t \in Bad : t \subseteq s => t = s
  <2>. HIDE DEF Bad
  <2>. QED
    BY <1>1, MinimalSubset
<1>3. PICK s \in Bad : \A t \in Bad : t \subseteq s => t = s
  BY <1>2
<1>4. s \in SUBSET S
  OBVIOUS
<1>5. PICK y \in s : g[s] # d[y] + g[s \ {y}]
  OBVIOUS
<1>. HIDE DEF Bad
<1>. DEFINE c == Pick(s)
<1>6. c \in s /\ g[s] = d[c] + g[s \ {c}]
  BY <1>4, <1>5, FoldNext, PickTakes
<1>7. c # y
  BY <1>5, <1>6
<1>8. \A t \in SUBSET S : t \notin Bad => \A x \in t : g[t] = d[x] + g[t \ {x}]
  BY DEF Bad
<1>. HIDE DEF c, Bad
<1>9. g[s \ {c}] = d[y] + g[(s \ {c}) \ {y}]
  BY <1>3, <1>4, <1>6, <1>7, <1>8
<1>10. g[s \ {y}] = d[c] + g[(s \ {y}) \ {c}]
  BY <1>3, <1>4, <1>5, <1>6, <1>7, <1>8
<1>11. (s \ {c}) \ {y} = (s \ {y}) \ {c}
  OBVIOUS
<1>12. /\ d[c] \in Int /\ d[y] \in Int
       /\ g[(s \ {y}) \ {c}] \in Int
  BY <1>4, <1>6, FoldIsInt
<1>13. g[s] = d[c] + (d[y] + g[(s \ {y}) \ {c}])
  BY <1>6, <1>9, <1>11
<1>. QED
  BY <1>5, <1>10, <1>12, <1>13

(* The recursion has a solution. *)
LEMMA FoldExists ==
  ASSUME NEW S, IsFiniteSet(S), NEW d
  PROVE  \E g : IsFold(g, S, d)
<1>. DEFINE Bad == {s \in SUBSET S : ~ \E g : IsFold(g, s, d)}
<1>. SUFFICES ASSUME Bad # {} PROVE FALSE
  OBVIOUS
<1>1. Bad \subseteq SUBSET S
  OBVIOUS
<1>2. \E s \in Bad : \A t \in Bad : t \subseteq s => t = s
  <2>. HIDE DEF Bad
  <2>. QED
    BY <1>1, MinimalSubset
<1>3. PICK s \in Bad : \A t \in Bad : t \subseteq s => t = s
  BY <1>2
<1>4. s \in SUBSET S /\ ~ \E g : IsFold(g, s, d)
  OBVIOUS
<1>. DEFINE G(t) == CHOOSE g : IsFold(g, t, d)
            Value(t) == IF t = {} THEN 0 ELSE d[Pick(t)] + G(t \ {Pick(t)})[t \ {Pick(t)}]
            h == [t \in SUBSET s |-> Value(t)]
<1>5. \A t \in SUBSET s : t # s => IsFold(G(t), t, d)
  BY <1>3, <1>4
<1>6. \A t \in SUBSET s : t # s => h[t] = G(t)[t]
  <2>. SUFFICES ASSUME NEW t \in SUBSET s, t # s PROVE Value(t) = G(t)[t]
    OBVIOUS
  <2>. DEFINE v == t \ {Pick(t)}
  <2>1. IsFold(G(t), t, d)
    BY <1>5
  <2>2. CASE t = {}
    <3>. HIDE DEF G
    <3>. QED
      BY <2>1, <2>2, FoldEmpty
  <2>3. CASE t # {}
    <3>1. v \in SUBSET t /\ v # s /\ v \in SUBSET s
      BY <2>3, PickTakes
    <3>2. IsFold(G(v), v, d)
      BY <1>5, <3>1
    <3>3. IsFiniteSet(v)
      BY <1>4, <3>1, FS_Subset
    <3>. HIDE DEF G
    <3>4. G(v)[v] = G(t)[v]
      <4>. HIDE DEF v
      <4>. QED
        BY <2>1, <3>1, <3>2, <3>3, FoldsAgree
    <3>5. G(t)[t] = d[Pick(t)] + G(t)[v]
      BY <2>1, <2>3, FoldNext
    <3>. QED
      BY <2>3, <3>4, <3>5
  <2>. QED
    BY <2>2, <2>3
<1>7. \A t \in SUBSET s : Value(t) = IF t = {} THEN 0 ELSE d[Pick(t)] + h[t \ {Pick(t)}]
  <2>. SUFFICES ASSUME NEW t \in SUBSET s, t # {}
                PROVE  G(t \ {Pick(t)})[t \ {Pick(t)}] = h[t \ {Pick(t)}]
    <3>. HIDE DEF G, h
    <3>. QED
      OBVIOUS
  <2>1. t \ {Pick(t)} \in SUBSET s /\ t \ {Pick(t)} # s
    BY PickTakes
  <2>. HIDE DEF G, h
  <2>. QED
    BY <1>6, <2>1
<1>8. h = [t \in SUBSET s |-> IF t = {} THEN 0 ELSE d[Pick(t)] + h[t \ {Pick(t)}]]
  <2>. HIDE DEF Value
  <2>1. h = [t \in SUBSET s |-> Value(t)]
    OBVIOUS
  <2>. HIDE DEF h
  <2>. QED
    BY <1>7, <2>1
<1>9. IsFold(h, s, d)
  <2>. HIDE DEF h
  <2>. QED
    BY <1>8 DEF IsFold
<1>. QED
  BY <1>4, <1>9

(* The sum over a set is what any solution of the recursion has for it. *)
LEMMA TotalIsFold ==
  ASSUME NEW S, IsFiniteSet(S), NEW T, S \subseteq T, NEW d, NEW e,
         \A x \in S : d[x] = e[x], NEW h, IsFold(h, T, e)
  PROVE  Total(d, S) = h[S]
<1>. DEFINE g == CHOOSE g : IsFold(g, S, d)
<1>1. IsFold(g, S, d)
  BY FoldExists
<1>2. Total(d, S) = g[S]
  BY DEF Total
<1>. HIDE DEF g
<1>3. g[S] = h[S]
  BY <1>1, FoldsAgree
<1>. QED
  BY <1>2, <1>3

(* Nothing adds up to zero. *)
LEMMA TotalEmpty ==
  ASSUME NEW d
  PROVE  Total(d, {}) = 0
<1>1. IsFiniteSet({})
  BY FS_EmptySet
<1>2. PICK g : IsFold(g, {}, d)
  BY <1>1, FoldExists
<1>3. Total(d, {}) = g[{}]
  BY <1>1, <1>2, TotalIsFold
<1>. QED
  BY <1>2, <1>3, FoldEmpty

(* Integers add up to an integer. *)
LEMMA TotalIsInt ==
  ASSUME NEW S, IsFiniteSet(S), NEW d, \A x \in S : d[x] \in Int
  PROVE  Total(d, S) \in Int
<1>1. PICK g : IsFold(g, S, d)
  BY FoldExists
<1>2. Total(d, S) = g[S]
  BY <1>1, TotalIsFold
<1>. QED
  BY <1>1, <1>2, FoldIsInt

(* The sum looks only at the numbers of the elements. *)
LEMMA TotalAgrees ==
  ASSUME NEW S, IsFiniteSet(S), NEW d, NEW e, \A x \in S : d[x] = e[x]
  PROVE  Total(d, S) = Total(e, S)
<1>1. PICK h : IsFold(h, S, e)
  BY FoldExists
<1>2. Total(d, S) = h[S]
  BY <1>1, TotalIsFold
<1>3. Total(e, S) = h[S]
  BY <1>1, TotalIsFold
<1>. QED
  BY <1>2, <1>3

(* One more element adds its number. *)
LEMMA TotalAdds ==
  ASSUME NEW S, IsFiniteSet(S), NEW y, y \notin S, NEW d,
         \A x \in S \cup {y} : d[x] \in Int
  PROVE  Total(d, S \cup {y}) = Total(d, S) + d[y]
<1>. DEFINE T == S \cup {y}
<1>1. IsFiniteSet(T)
  BY FS_AddElement
<1>2. T \ {y} = S /\ y \in T /\ S \subseteq T
  OBVIOUS
<1>3. \A x \in T : d[x] \in Int
  OBVIOUS
<1>. HIDE DEF T
<1>4. PICK g : IsFold(g, T, d)
  BY <1>1, FoldExists
<1>5. Total(d, T) = g[T] /\ Total(d, S) = g[S]
  BY <1>1, <1>2, <1>4, TotalIsFold
<1>6. g[T] = d[y] + g[T \ {y}]
  BY <1>1, <1>2, <1>3, <1>4, FoldTakesAny
<1>7. d[y] \in Int /\ g[S] \in Int
  BY <1>1, <1>2, <1>3, <1>4, FoldIsInt
<1>8. g[T] = d[y] + g[S]
  BY <1>2, <1>6
<1>9. g[T] = g[S] + d[y]
  BY <1>7, <1>8
<1>10. Total(d, T) = Total(d, S) + d[y]
  BY <1>5, <1>9
<1>. QED
  BY <1>10 DEF T

(* The image of a set under a function. *)
Image(f, S) == {f[x] : x \in S}

(* Counting the same numbers under other names changes nothing, as long as *)
(* no two elements get the same name.                                      *)
LEMMA TotalRenamed ==
  ASSUME NEW S, IsFiniteSet(S), NEW f, NEW d, NEW e,
         \A x \in S : d[x] \in Int /\ d[x] = e[f[x]],
         \A x, y \in S : f[x] = f[y] => x = y
  PROVE  IsFiniteSet(Image(f, S)) /\ Total(d, S) = Total(e, Image(f, S))
<1>. DEFINE Good(s) == IsFiniteSet(Image(f, s)) /\ Total(d, s) = Total(e, Image(f, s))
            Bad == {s \in SUBSET S : ~ Good(s)}
<1>. SUFFICES ASSUME Bad # {} PROVE FALSE
  OBVIOUS
<1>1. Bad \subseteq SUBSET S
  OBVIOUS
<1>2. \E s \in Bad : \A t \in Bad : t \subseteq s => t = s
  <2>. HIDE DEF Bad
  <2>. QED
    BY <1>1, MinimalSubset
<1>3. PICK s \in Bad : \A t \in Bad : t \subseteq s => t = s
  BY <1>2
<1>4. s \in SUBSET S /\ ~ Good(s)
  OBVIOUS
<1>5. Good({})
  <2>1. Image(f, {}) = {}
    BY DEF Image
  <2>. QED
    BY <2>1, FS_EmptySet, TotalEmpty
<1>6. PICK y : y \in s
  <2>. HIDE DEF Good, Bad
  <2>. QED
    BY <1>4, <1>5
<1>. DEFINE t == s \ {y}
<1>7. t \in SUBSET S /\ y \notin t /\ s = t \cup {y} /\ y \in S
  BY <1>4, <1>6
<1>8. Good(t)
  <2>. HIDE DEF Good
  <2>. QED
    BY <1>3, <1>6, <1>7
<1>9. IsFiniteSet(t)
  BY <1>7, FS_Subset
<1>. HIDE DEF t, Bad
<1>10. Image(f, s) = Image(f, t) \cup {f[y]} /\ f[y] \notin Image(f, t)
  BY <1>7 DEF Image
<1>11. \A z \in Image(f, t) \cup {f[y]} : e[z] \in Int
  BY <1>7 DEF Image
<1>12. IsFiniteSet(Image(f, s))
  BY <1>8, <1>10, FS_AddElement
<1>13. Total(e, Image(f, s)) = Total(e, Image(f, t)) + e[f[y]]
  <2>. DEFINE z == f[y]
              A == Image(f, t)
  <2>1. IsFiniteSet(A) /\ z \notin A /\ \A x \in A \cup {z} : e[x] \in Int
    BY <1>8, <1>10, <1>11
  <2>. HIDE DEF z, A
  <2>2. Total(e, A \cup {z}) = Total(e, A) + e[z]
    BY <2>1, TotalAdds
  <2>. QED
    BY <1>10, <2>2 DEF z, A
<1>14. Total(d, s) = Total(d, t) + d[y]
  BY <1>7, <1>9, TotalAdds
<1>15. d[y] = e[f[y]]
  BY <1>7
<1>. QED
  BY <1>4, <1>8, <1>12, <1>13, <1>14, <1>15

-----------------------------------------------------------------------------
(* The balance of a user is a sum over the rows. *)

RowsOf(u) == {r \in rows : r.user = u}

SumOfDeltas(S) == MapThenSumSet(LAMBDA r : r.delta, S)

(* Summing deltas is summing numbers that agree with them. *)
LEMMA SumIsAnyTotal ==
  ASSUME NEW S, IsFiniteSet(S), NEW d, \A r \in S : d[r] = r.delta
  PROVE  SumOfDeltas(S) = Total(d, S)
<1>. DEFINE Solves(g) ==
       g = [s \in SUBSET S |->
              IF s = {} THEN 0
              ELSE (CHOOSE x \in s : TRUE).delta + g[s \ {CHOOSE x \in s : TRUE}]]
<1>1. SumOfDeltas(S) = (CHOOSE g : Solves(g))[S]
  BY DEF SumOfDeltas, MapThenSumSet, MapThenFoldSet
<1>2. \A g : Solves(g) <=> IsFold(g, S, d)
  <2>. SUFFICES ASSUME NEW g
                PROVE  Solves(g) <=> IsFold(g, S, d)
    OBVIOUS
  <2>1. \A s \in SUBSET S : s # {} => d[Pick(s)] = Pick(s).delta
    BY PickTakes
  <2>. QED
    BY <2>1 DEF IsFold, Pick
<1>. HIDE DEF Solves
<1>3. Solves(CHOOSE g : Solves(g))
  BY <1>2, FoldExists
<1>. QED
  BY <1>1, <1>2, <1>3, TotalIsFold

DeltaOf == [r \in Row |-> r.delta]

(* Summing the deltas of rows is summing the numbers of DeltaOf. *)
LEMMA SumIsTotal ==
  ASSUME NEW S, IsFiniteSet(S), S \subseteq Row
  PROVE  SumOfDeltas(S) = Total(DeltaOf, S)
<1>1. \A r \in S : DeltaOf[r] = r.delta
  BY DEF DeltaOf
<1>. QED
  BY <1>1, SumIsAnyTotal

(* Deltas add up to an integer, and one more row adds its delta. *)
LEMMA SumAddsRow ==
  ASSUME NEW S, IsFiniteSet(S), NEW row, row \notin S,
         \A r \in S \cup {row} : r.delta \in Int
  PROVE  /\ SumOfDeltas(S) \in Int
         /\ SumOfDeltas(S \cup {row}) = SumOfDeltas(S) + row.delta
<1>. DEFINE T == S \cup {row}
            d == [r \in T |-> r.delta]
<1>1. /\ \A r \in T : d[r] = r.delta /\ d[r] \in Int
      /\ \A r \in S : d[r] = r.delta /\ d[r] \in Int
      /\ d[row] = row.delta
  OBVIOUS
<1>2. IsFiniteSet(T)
  BY FS_AddElement
<1>. HIDE DEF d
<1>3. Total(d, T) = Total(d, S) + d[row]
  BY <1>1, TotalAdds
<1>4. SumOfDeltas(S) = Total(d, S) /\ Total(d, S) \in Int
  BY <1>1, SumIsAnyTotal, TotalIsInt
<1>. HIDE DEF T
<1>5. SumOfDeltas(T) = Total(d, T)
  BY <1>1, <1>2, SumIsAnyTotal
<1>6. SumOfDeltas(T) = SumOfDeltas(S) + row.delta
  BY <1>1, <1>3, <1>4, <1>5
<1>. QED
  BY <1>1, <1>4, <1>6 DEF T

(* Deltas add up to an integer. *)
LEMMA SumIsInt ==
  ASSUME NEW S, IsFiniteSet(S), \A r \in S : r.delta \in Int
  PROVE  SumOfDeltas(S) \in Int
<1>. DEFINE d == [r \in S |-> r.delta]
<1>1. \A r \in S : d[r] = r.delta /\ d[r] \in Int
  OBVIOUS
<1>. HIDE DEF d
<1>. QED
  BY <1>1, SumIsAnyTotal, TotalIsInt

(* Nothing adds up to zero. *)
LEMMA SumEmpty == SumOfDeltas({}) = 0
  BY FS_EmptySet, SumIsTotal, TotalEmpty

(* models/ledger.py: the balance is SELECT SUM(delta_paise) over the rows  *)
(* of the user; a posting makes the rows one more.                         *)
WalletIsSum ==
  /\ IsFiniteSet(rows)
  /\ \A u \in Users : balance[u] = SumOfDeltas(RowsOf(u))

(* What a user's rows add up to is the user's balance, whoever posts them. *)
THEOREM WalletBalanced == WalletSpec => []WalletIsSum
<1>1. WalletInit => WalletIsSum
  <2>. SUFFICES ASSUME WalletInit PROVE WalletIsSum
    OBVIOUS
  <2>1. rows = {} /\ \A u \in Users : balance[u] = 0 /\ RowsOf(u) = {}
    BY DEF WalletInit, RowsOf
  <2>2. IsFiniteSet({}) /\ SumOfDeltas({}) = 0
    BY FS_EmptySet, SumEmpty
  <2>. QED
    BY <2>1, <2>2 DEF WalletIsSum
<1>2. WalletTypeOK /\ WalletIsSum /\ [WalletNext]_walletVars => WalletIsSum'
  <2>. SUFFICES ASSUME WalletTypeOK, WalletIsSum, [WalletNext]_walletVars
                PROVE  WalletIsSum'
    OBVIOUS
  <2>1. CASE UNCHANGED walletVars
    BY <2>1 DEF walletVars, WalletIsSum, RowsOf
  <2>2. ASSUME NEW k \in Keys, NEW u \in Users, NEW d \in Deltas, Post(k, u, d)
        PROVE  WalletIsSum'
    <3>. DEFINE row == [key |-> k, user |-> u, delta |-> d]
    <3>1. /\ rows' = rows \cup {row} /\ balance' = [balance EXCEPT ![u] = @ + d]
          /\ row \notin rows /\ row \in Row
      BY <2>2 DEF Post, HasKey, Row
    <3>2. IsFiniteSet(rows')
      BY <3>1, FS_AddElement DEF WalletIsSum
    <3>3. ASSUME NEW v \in Users
          PROVE  balance'[v] = SumOfDeltas({r \in rows' : r.user = v})
      <4>. DEFINE S == {r \in rows : r.user = v}
      <4>1. IsFiniteSet(S) /\ S \subseteq Row /\ row \notin S
        BY <3>1, FS_Subset DEF WalletIsSum, WalletTypeOK
      <4>2. balance[v] = SumOfDeltas(S)
        BY DEF WalletIsSum, RowsOf
      <4>3. CASE v = u
        <5>1. {r \in rows' : r.user = v} = S \cup {row}
          BY <3>1, <4>3
        <5>2. balance'[v] = balance[v] + d
          BY <3>1, <4>3 DEF WalletTypeOK
        <5>3. SumOfDeltas(S \cup {row}) = SumOfDeltas(S) + row.delta
          <6>1. \A r \in S \cup {row} : r.delta \in Int
            BY <3>1, <4>1, DeltasAssumption DEF Row
          <6>. HIDE DEF S, row
          <6>. QED
            BY <4>1, <6>1, SumAddsRow
        <5>. QED
          BY <4>2, <5>1, <5>2, <5>3
      <4>4. CASE v # u
        <5>1. {r \in rows' : r.user = v} = S
          BY <3>1, <4>4
        <5>2. balance'[v] = balance[v]
          BY <3>1, <4>4 DEF WalletTypeOK
        <5>. QED
          BY <4>2, <5>1, <5>2
      <4>. QED
        BY <4>3, <4>4
    <3>. QED
      BY <3>2, <3>3 DEF WalletIsSum, RowsOf
  <2>. QED
    BY <2>1, <2>2 DEF WalletNext
<1>. QED
  BY <1>1, <1>2, WalletIsSound, PTL DEF WalletSpec

=============================================================================
