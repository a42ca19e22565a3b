---------------------------- MODULE OrderbookSums ----------------------------
(***************************************************************************)
(* The totals of the levels, the balance of a FillOrKill order and the order *)
(* of the queues.  A sum over a finite set is what the community operators   *)
(* MapThenSumSet and FoldSeq choose: the recursive function that takes one   *)
(* element after the other off the set.  Its facts are proved by looking at *)
(* a smallest counterexample.                                               *)
(***************************************************************************)
EXTENDS OrderbookLimits, OrderbookTotals

Pick(s) == CHOOSE x \in s : TRUE

\* g is the recursive function that sums the weights w over the subsets of S.
IsSum(g, w, S) ==
    g = [s \in SUBSET S |-> IF s = {} THEN 0 ELSE w[Pick(s)] + g[s \ {Pick(s)}]]

\* The sum of the weights w over a finite set.
Total(w, S) == (CHOOSE g : IsSum(g, w, S))[S]

-----------------------------------------------------------------------------
(* Sums over a finite set.                                                  *)

\* A set that is not empty is one larger than without any of its elements.
LEMMA OneSmaller ==
    ASSUME NEW s, IsFiniteSet(s), NEW x \in s
    PROVE  /\ IsFiniteSet(s \ {x})
           /\ Cardinality(s) \in Nat /\ Cardinality(s \ {x}) \in Nat
           /\ Cardinality(s \ {x}) < Cardinality(s)
<1>1. /\ IsFiniteSet(s \ {x})
      /\ Cardinality(s \ {x}) = Cardinality(s) - 1
  BY FS_RemoveElement
<1>2. Cardinality(s) \in Nat /\ Cardinality(s \ {x}) \in Nat
  BY <1>1, FS_CardinalityType
<1> QED BY <1>1, <1>2

\* A family of sets with a finite member has a member with no smaller one.
LEMMA SmallestSet ==
    ASSUME NEW F, F # {}, \A s \in F : IsFiniteSet(s)
    PROVE  \E s \in F : \A x \in s : s \ {x} \notin F
<1> DEFINE N == {Cardinality(s) : s \in F}
<1>1. N \subseteq Nat /\ N # {}
  BY FS_CardinalityType
<1>2. PICK n \in N : \A m \in N : n <= m
  <2> HIDE DEF N
  <2> QED BY <1>1, NatMin
<1>3. PICK s \in F : n = Cardinality(s)
  BY <1>2
<1>4. ASSUME NEW x \in s, s \ {x} \in F
      PROVE  FALSE
  <2>1. /\ Cardinality(s) \in Nat /\ Cardinality(s \ {x}) \in Nat
        /\ Cardinality(s \ {x}) < Cardinality(s)
    BY OneSmaller
  <2>2. Cardinality(s) <= Cardinality(s \ {x})
    BY <1>2, <1>3, <1>4
  <2> QED BY <2>1, <2>2
<1> QED BY <1>4

\* What a sum is at the empty set and at any other.
LEMMA SumStep ==
    ASSUME NEW g, NEW w, NEW S, IsSum(g, w, S), NEW s \in SUBSET S
    PROVE  /\ s = {} => g[s] = 0
           /\ s # {} => /\ Pick(s) \in s
                        /\ g[s] = w[Pick(s)] + g[s \ {Pick(s)}]
<1>1. g[s] = IF s = {} THEN 0 ELSE w[Pick(s)] + g[s \ {Pick(s)}]
  BY DEF IsSum
<1>2. s # {} => Pick(s) \in s
  BY DEF Pick
<1> QED BY <1>1, <1>2

\* Two sums agree where their weights do.
LEMMA SumsAgree ==
    ASSUME NEW g1, NEW w1, NEW S1, IsSum(g1, w1, S1),
           NEW g2, NEW w2, NEW S2, IsSum(g2, w2, S2),
           NEW t, t \subseteq S1, t \subseteq S2, IsFiniteSet(t),
           \A x \in t : w1[x] = w2[x]
    PROVE  g1[t] = g2[t]
<1> DEFINE F == {s \in SUBSET t : g1[s] # g2[s]}
<1>1. SUFFICES ASSUME F # {} PROVE FALSE
  OBVIOUS
<1>2. \A s \in F : IsFiniteSet(s)
  BY FS_Subset
<1>3. PICK s \in F : \A x \in s : s \ {x} \notin F
  <2> HIDE DEF F
  <2> QED BY <1>1, <1>2, SmallestSet
<1>4. /\ s \in SUBSET S1 /\ s \in SUBSET S2 /\ s \subseteq t /\ g1[s] # g2[s]
  BY <1>3
<1>5. s # {} => \A x \in s : g1[s \ {x}] = g2[s \ {x}]
  BY <1>3
<1> HIDE DEF F
<1>6. /\ s = {} => g1[s] = 0 /\ g2[s] = 0
      /\ s # {} => /\ Pick(s) \in s
                   /\ g1[s] = w1[Pick(s)] + g1[s \ {Pick(s)}]
                   /\ g2[s] = w2[Pick(s)] + g2[s \ {Pick(s)}]
  BY <1>4, SumStep
<1> QED BY <1>4, <1>5, <1>6

\* A finite set has a sum.
LEMMA SumExists ==
    ASSUME NEW w, NEW S, IsFiniteSet(S)
    PROVE  \E g : IsSum(g, w, S)
<1> DEFINE F == {s \in SUBSET S : ~ \E g : IsSum(g, w, s)}
<1>1. SUFFICES ASSUME F # {} PROVE FALSE
  OBVIOUS
<1>2. \A s \in F : IsFiniteSet(s)
  BY FS_Subset
<1>3. PICK s \in F : \A x \in s : s \ {x} \notin F
  <2> HIDE DEF F
  <2> QED BY <1>1, <1>2, SmallestSet
<1>4. s \in SUBSET S /\ ~ (\E g : IsSum(g, w, s)) /\ IsFiniteSet(s)
  BY <1>2, <1>3
<1>5. \A x \in s : \E g : IsSum(g, w, s \ {x})
  BY <1>3
<1> HIDE DEF F
<1> DEFINE G(x) == CHOOSE g : IsSum(g, w, s \ {x})
<1>6. \A x \in s : IsSum(G(x), w, s \ {x})
  BY <1>5
<1> HIDE DEF G
<1> DEFINE h == [t \in SUBSET s |-> IF t = {} THEN 0
                                    ELSE w[Pick(t)] + G(Pick(t))[t \ {Pick(t)}]]
<1>7. ASSUME NEW x \in s, NEW t \in SUBSET (s \ {x})
      PROVE  h[t] = G(x)[t]
  <2>1. t \in SUBSET s /\ IsSum(G(x), w, s \ {x})
    BY <1>6
  <2>2. h[t] = IF t = {} THEN 0 ELSE w[Pick(t)] + G(Pick(t))[t \ {Pick(t)}]
    BY <2>1
  <2> HIDE DEF h
  <2>3. /\ t = {} => G(x)[t] = 0
        /\ t # {} => /\ Pick(t) \in t
                     /\ G(x)[t] = w[Pick(t)] + G(x)[t \ {Pick(t)}]
    BY <2>1, SumStep
  <2>4. CASE t # {}
    <3> DEFINE p == Pick(t)
    <3>1. p \in t /\ p \in s
      BY <2>1, <2>3, <2>4
    <3> HIDE DEF p
    <3>2. IsSum(G(p), w, s \ {p})
      BY <1>6, <3>1
    <3>3. t \ {p} \subseteq s \ {p} /\ t \ {p} \subseteq s \ {x} /\ IsFiniteSet(t \ {p})
      BY <1>4, <2>1, FS_Subset
    <3>4. G(p)[t \ {p}] = G(x)[t \ {p}]
      BY <2>1, <3>2, <3>3, SumsAgree
    <3> QED BY <2>2, <2>3, <2>4, <3>4 DEF p
  <2> QED BY <2>2, <2>3, <2>4
<1>8. ASSUME NEW t \in SUBSET s, t # {}
      PROVE  h[t] = w[Pick(t)] + h[t \ {Pick(t)}]
  <2>1. Pick(t) \in t
    BY <1>8 DEF Pick
  <2>2. Pick(t) \in s /\ t \ {Pick(t)} \in SUBSET (s \ {Pick(t)})
    BY <2>1
  <2>3. h[t \ {Pick(t)}] = G(Pick(t))[t \ {Pick(t)}]
    BY <1>7, <2>2
  <2> QED BY <1>8, <2>3
<1>9. h = [t \in SUBSET s |-> IF t = {} THEN 0 ELSE w[Pick(t)] + h[t \ {Pick(t)}]]
  <2>1. \A t \in SUBSET s : h[t] = IF t = {} THEN 0 ELSE w[Pick(t)] + h[t \ {Pick(t)}]
    BY <1>8
  <2>2. h = [t \in SUBSET s |-> h[t]]
    OBVIOUS
  <2> HIDE DEF h
  <2> QED BY <2>1, <2>2
<1>10. IsSum(h, w, s)
  <2> HIDE DEF h
  <2> QED BY <1>9 DEF IsSum
<1> QED BY <1>4, <1>10

\* The sum of a finite set is one.
LEMMA TotalIsSum ==
    ASSUME NEW w, NEW S, IsFiniteSet(S)
    PROVE  \E g : IsSum(g, w, S) /\ Total(w, S) = g[S]
<1> DEFINE g == CHOOSE g : IsSum(g, w, S)
<1>1. IsSum(g, w, S)
  BY SumExists
<1>2. Total(w, S) = g[S]
  BY DEF Total
<1> QED BY <1>1, <1>2

\* The sum of no weights is 0.
LEMMA TotalEmpty ==
    ASSUME NEW w
    PROVE  Total(w, {}) = 0
<1>1. PICK g : IsSum(g, w, {}) /\ Total(w, {}) = g[{}]
  BY TotalIsSum, FS_EmptySet
<1>2. {} \in SUBSET {}
  OBVIOUS
<1> QED BY <1>1, <1>2, SumStep

\* A sum depends on the weights of its elements only.
LEMMA TotalAgree ==
    ASSUME NEW w1, NEW w2, NEW S, IsFiniteSet(S), \A x \in S : w1[x] = w2[x]
    PROVE  Total(w1, S) = Total(w2, S)
<1>1. PICK g1 : IsSum(g1, w1, S) /\ Total(w1, S) = g1[S]
  BY TotalIsSum
<1>2. PICK g2 : IsSum(g2, w2, S) /\ Total(w2, S) = g2[S]
  BY TotalIsSum
<1>3. g1[S] = g2[S]
  BY <1>1, <1>2, SumsAgree
<1> QED BY <1>1, <1>2, <1>3

\* A sum is the weight of the element the recursion picks and the sum of the
\* others.
LEMMA TotalPick ==
    ASSUME NEW w, NEW S, IsFiniteSet(S), S # {}
    PROVE  Pick(S) \in S /\ Total(w, S) = w[Pick(S)] + Total(w, S \ {Pick(S)})
<1> DEFINE p == Pick(S)
<1>1. PICK g : IsSum(g, w, S) /\ Total(w, S) = g[S]
  BY TotalIsSum
<1>2. S \in SUBSET S
  OBVIOUS
<1>3. p \in S /\ g[S] = w[p] + g[S \ {p}]
  BY <1>1, <1>2, SumStep
<1> HIDE DEF p
<1>4. IsFiniteSet(S \ {p})
  BY FS_Subset
<1>5. PICK h : IsSum(h, w, S \ {p}) /\ Total(w, S \ {p}) = h[S \ {p}]
  BY <1>4, TotalIsSum
<1>6. g[S \ {p}] = h[S \ {p}]
  BY <1>1, <1>4, <1>5, SumsAgree
<1> QED BY <1>1, <1>3, <1>5, <1>6 DEF p

\* A sum of natural numbers is one.
LEMMA TotalType ==
    ASSUME NEW w, NEW S, IsFiniteSet(S), \A x \in S : w[x] \in Nat
    PROVE  Total(w, S) \in Nat
<1> DEFINE F == {s \in SUBSET S : Total(w, s) \notin Nat}
<1>1. SUFFICES ASSUME F # {} PROVE FALSE
  OBVIOUS
<1>2. \A s \in F : IsFiniteSet(s)
  BY FS_Subset
<1>3. PICK s \in F : \A x \in s : s \ {x} \notin F
  <2> HIDE DEF F
  <2> QED BY <1>1, <1>2, SmallestSet
<1>4. s \in SUBSET S /\ Total(w, s) \notin Nat /\ IsFiniteSet(s)
  BY <1>2, <1>3
<1>5. \A x \in s : Total(w, s \ {x}) \in Nat
  BY <1>3
<1>6. s # {}
  BY <1>4, TotalEmpty
<1>7. Pick(s) \in s /\ Total(w, s) = w[Pick(s)] + Total(w, s \ {Pick(s)})
  BY <1>4, <1>6, TotalPick
<1>8. w[Pick(s)] \in Nat /\ Total(w, s \ {Pick(s)}) \in Nat
  BY <1>4, <1>5, <1>7
<1> HIDE DEF F
<1> QED BY <1>4, <1>7, <1>8

\* Any element can be taken off a sum, not only the one the recursion picks.
LEMMA TotalWithout ==
    ASSUME NEW w, NEW S, IsFiniteSet(S), \A x \in S : w[x] \in Nat, NEW x \in S
    PROVE  /\ Total(w, S) = w[x] + Total(w, S \ {x})
           /\ Total(w, S \ {x}) \in Nat
<1> DEFINE F == {s \in SUBSET S : \E y \in s : Total(w, s) # w[y] + Total(w, s \ {y})}
<1>1. S \notin F
  <2>1. SUFFICES ASSUME F # {} PROVE FALSE
    OBVIOUS
  <2>2. \A s \in F : IsFiniteSet(s)
    BY FS_Subset
  <2>3. PICK s \in F : \A y \in s : s \ {y} \notin F
    <3> HIDE DEF F
    <3> QED BY <2>1, <2>2, SmallestSet
  <2>4. PICK y \in s : Total(w, s) # w[y] + Total(w, s \ {y})
    BY <2>3
  <2>5. s \in SUBSET S /\ IsFiniteSet(s)
    BY <2>2, <2>3
  <2>6. \A z \in s : \A v \in s \ {z} :
          Total(w, s \ {z}) = w[v] + Total(w, (s \ {z}) \ {v})
    BY <2>3
  <2> HIDE DEF F
  <2> DEFINE p == Pick(s)
  <2>7. p \in s /\ Total(w, s) = w[p] + Total(w, s \ {p})
    BY <2>5, TotalPick
  <2>8. p # y
    BY <2>4, <2>7
  <2> HIDE DEF p
  <2> DEFINE rest == (s \ {p}) \ {y}
  <2>9. (s \ {y}) \ {p} = rest
    OBVIOUS
  <2>10. Total(w, s \ {p}) = w[y] + Total(w, rest)
    BY <2>6, <2>7, <2>8
  <2>11. Total(w, s \ {y}) = w[p] + Total(w, rest)
    BY <2>6, <2>7, <2>8, <2>9
  <2>12. IsFiniteSet(rest) /\ rest \subseteq S
    BY <2>5, FS_Subset
  <2> HIDE DEF rest
  <2>13. Total(w, rest) \in Nat /\ w[p] \in Nat /\ w[y] \in Nat
    BY <2>5, <2>7, <2>12, TotalType
  <2> QED BY <2>4, <2>7, <2>10, <2>11, <2>13
<1>2. S \in SUBSET S
  OBVIOUS
<1>3. Total(w, S) = w[x] + Total(w, S \ {x})
  BY <1>1, <1>2
<1>4. IsFiniteSet(S \ {x})
  BY FS_Subset
<1> QED BY <1>3, <1>4, TotalType

\* One more element adds its weight, whatever the others weigh elsewhere.
LEMMA TotalWith ==
    ASSUME NEW w, NEW v, NEW S, IsFiniteSet(S), NEW x, x \notin S,
           \A y \in S : w[y] \in Nat /\ v[y] = w[y], v[x] \in Nat
    PROVE  Total(v, S \cup {x}) = v[x] + Total(w, S)
<1> DEFINE T == S \cup {x}
<1>1. IsFiniteSet(T) /\ T \ {x} = S /\ x \in T /\ \A y \in T : v[y] \in Nat
  BY FS_AddElement
<1>2. Total(v, T) = v[x] + Total(v, T \ {x})
  <2> HIDE DEF T
  <2> QED BY <1>1, TotalWithout
<1>3. Total(v, S) = Total(w, S)
  BY TotalAgree
<1> QED BY <1>1, <1>2, <1>3

-----------------------------------------------------------------------------
(* Sums that wrap.                                                          *)

\* Division leaves one remainder.
LEMMA RemainderOf ==
    ASSUME NEW M \in Int, M > 0, NEW k \in Int, NEW r \in 0 .. M - 1
    PROVE  (k * M + r) % M = r
OBVIOUS

\* A sum may wrap at every step or once at the end.
LEMMA WrapOnce ==
    ASSUME NEW M \in Int, M > 0, NEW a \in Int, NEW q \in Int
    PROVE  ((a % M) + q) % M = (a + q) % M
<1> DEFINE r == a % M   k == a \div M
           n == r + q   s == n % M   l == n \div M
<1>1. k \in Int /\ r \in 0 .. (M - 1) /\ a = k * M + r
  BY Division
<1>2. n \in Int /\ a + q = k * M + n
  <2> HIDE DEF r, k
  <2> QED BY <1>1
<1>3. l \in Int /\ s \in 0 .. (M - 1) /\ n = l * M + s
  <2> HIDE DEF n
  <2> QED BY <1>2, Division
<1> HIDE DEF k, l, s
<1>4. k + l \in Int /\ a + q = (k + l) * M + s
  <2>1. (k + l) * M = k * M + l * M
    BY <1>1, <1>3
  <2>2. k * M \in Int /\ l * M \in Int
    BY <1>1, <1>3
  <2> HIDE DEF n
  <2> QED BY <1>1, <1>2, <1>3, <2>1, <2>2
<1>5. (a + q) % M = s
  BY <1>3, <1>4, RemainderOf
<1> QED BY <1>5 DEF s

\* What the members do to a level's total, on a sum that is taken modulo the
\* width of Quantity: an order of quantity q joins or leaves the others, is
\* filled by m, or gets a new quantity.
LEMMA WrappedTotals ==
    ASSUME NEW t \in Nat, NEW q \in Quantity, NEW m \in Quantity
    PROVE  /\ QtyAdd(t % QuantityMod, q) = (q + t) % QuantityMod
           /\ QtySub((q + t) % QuantityMod, q) = t % QuantityMod
           /\ QtySub((q + t) % QuantityMod, m) = ((q - m) + t) % QuantityMod
           /\ QtyAdd(QtySub((q + t) % QuantityMod, q), m) = (m + t) % QuantityMod
<1>1. /\ QuantityMod \in Int /\ QuantityMod > 0 /\ t \in Int /\ q \in Int /\ m \in Int
      /\ -q \in Int /\ -m \in Int /\ q + t \in Int
  BY NumericAssumption DEF Quantity
<1>2. ((t % QuantityMod) + q) % QuantityMod = (t + q) % QuantityMod
  BY <1>1, WrapOnce
<1>3. (((q + t) % QuantityMod) + (-q)) % QuantityMod = ((q + t) + (-q)) % QuantityMod
  BY <1>1, WrapOnce
<1>4. (((q + t) % QuantityMod) + (-m)) % QuantityMod = ((q + t) + (-m)) % QuantityMod
  BY <1>1, WrapOnce
<1>5. ((t % QuantityMod) + m) % QuantityMod = (t + m) % QuantityMod
  BY <1>1, WrapOnce
<1>6. t % QuantityMod \in Int /\ (q + t) % QuantityMod \in Int
  BY <1>1
<1>7. /\ t + q = q + t /\ (q + t) + (-q) = t /\ (q + t) + (-m) = (q - m) + t /\ t + m = m + t
  BY <1>1
<1>8. QtyAdd(t % QuantityMod, q) = (q + t) % QuantityMod
  BY <1>2, <1>7 DEF QtyAdd
<1> DEFINE r == (q + t) % QuantityMod
<1>9. r - q = r + (-q) /\ r - m = r + (-m)
  <2>1. r \in Int
    BY <1>6
  <2> HIDE DEF r
  <2> QED BY <1>1, <2>1
<1>10. (r - q) % QuantityMod = t % QuantityMod /\ (r - m) % QuantityMod = ((q - m) + t) % QuantityMod
  BY <1>3, <1>4, <1>7, <1>9
<1>11. QtySub(r, q) = t % QuantityMod /\ QtySub(r, m) = ((q - m) + t) % QuantityMod
  BY <1>10 DEF QtySub
<1>12. QtyAdd(QtySub(r, q), m) = (m + t) % QuantityMod
  BY <1>5, <1>7, <1>11 DEF QtyAdd
<1> QED BY <1>8, <1>11, <1>12

-----------------------------------------------------------------------------
(* The totals of the levels.                                                *)

Quantities(b) == [i \in Idx |-> b.pool[i].quantity]

LevelSum(b, side, price) == Total(Quantities(b), Members(b, side, price))

\* totalQty is the wrapped sum of the level, for every level of a book.
Totalled(b) ==
    \A side \in Side : \A p \in DOMAIN b.levels[side] :
        b.levels[side][p].totalQty = LevelSum(b, side, p) % QuantityMod

\* The members of a level are finitely many, and have quantities.
LEMMA MemberQuantities ==
    ASSUME NEW b, NEW reserved, GoodBook(b, reserved), NEW side, NEW p
    PROVE  /\ IsFiniteSet(Members(b, side, p))
           /\ \A i \in Members(b, side, p) :
                /\ i \in Live(b) /\ i \in Idx
                /\ Quantities(b)[i] = b.pool[i].quantity
                /\ b.pool[i].quantity \in Quantity /\ b.pool[i].quantity \in Nat
           /\ LevelSum(b, side, p) \in Nat
<1>1. IsFiniteSet(Members(b, side, p))
  BY MembersFinite DEF GoodBook
<1>2. Quantity \subseteq Nat
  BY NumericAssumption DEF Quantity
<1>3. ASSUME NEW i \in Members(b, side, p)
      PROVE  /\ i \in Live(b) /\ i \in Idx
             /\ Quantities(b)[i] = b.pool[i].quantity
             /\ b.pool[i].quantity \in Quantity /\ b.pool[i].quantity \in Nat
  <2>1. i \in Live(b)
    BY DEF Members
  <2>2. i \in Idx /\ b.pool[i] \in PoolOrder
    BY <2>1, LiveSlot
  <2>3. b.pool[i].quantity \in Quantity
    BY <2>2 DEF PoolOrder
  <2>4. Quantities(b)[i] = b.pool[i].quantity
    BY <2>2 DEF Quantities
  <2> QED BY <1>2, <2>1, <2>2, <2>3, <2>4
<1>4. LevelSum(b, side, p) \in Nat
  BY <1>1, <1>3, TotalType DEF LevelSum
<1> QED BY <1>1, <1>3, <1>4

\* A level whose members and their quantities are the same has the same sum.
LEMMA SameLevelSum ==
    ASSUME NEW b, NEW u, NEW r1, NEW r2, GoodBook(b, r1), GoodBook(u, r2), NEW side, NEW p,
           Members(u, side, p) = Members(b, side, p),
           \A i \in Members(b, side, p) : u.pool[i].quantity = b.pool[i].quantity
    PROVE  LevelSum(u, side, p) = LevelSum(b, side, p)
<1>1. \A i \in Members(b, side, p) : Quantities(u)[i] = Quantities(b)[i]
  BY MemberQuantities
<1>2. IsFiniteSet(Members(b, side, p))
  BY MemberQuantities
<1> QED BY <1>1, <1>2, TotalAgree DEF LevelSum

\* The sum of a level, split at one of its orders.
LEMMA LevelSumSplit ==
    ASSUME NEW b, NEW reserved, GoodBook(b, reserved), NEW side, NEW p,
           NEW i \in Members(b, side, p)
    PROVE  LET rest == Total(Quantities(b), Members(b, side, p) \ {i})
           IN  rest \in Nat /\ LevelSum(b, side, p) = b.pool[i].quantity + rest
<1>1. /\ IsFiniteSet(Members(b, side, p))
      /\ \A j \in Members(b, side, p) : Quantities(b)[j] \in Nat
      /\ Quantities(b)[i] = b.pool[i].quantity
  BY MemberQuantities
<1> QED BY <1>1, TotalWithout DEF LevelSum

\* Unbook keeps the totals.
LEMMA UnbookTotals ==
    ASSUME NEW b, NEW reserved, GoodBook(b, reserved), Totalled(b), NEW i \in Live(b)
    PROVE  Totalled(Unbook(b, i))
<1> DEFINE u == Unbook(b, i)
           o == b.pool[i]
           lvl == b.levels[o.side][o.price]
           new == RemoveFromLevel(lvl, o)
           rest == Total(Quantities(b), Members(b, o.side, o.price) \ {i})
<1>1. Removed(b, u, i) /\ GoodBook(u, reserved)
  BY UnbookOK
<1> HIDE DEF u
<1>2. /\ Live(u) = Live(b) \ {i}
      /\ \A j \in Idx \ {i} : /\ u.pool[j].side = b.pool[j].side
                              /\ u.pool[j].price = b.pool[j].price
                              /\ u.pool[j].quantity = b.pool[j].quantity
      /\ LevelSet(b.levels, u.levels, o.side, o.price, new)
  BY <1>1 DEF Removed, Unlinked
<1>3. /\ o.side \in Side /\ o.price \in DOMAIN b.levels[o.side] /\ o.quantity \in Quantity
      /\ i \in Members(b, o.side, o.price) /\ Live(b) \subseteq Idx
  BY LiveSlot DEF PoolOrder, Members
<1>4. \A side, p : /\ Members(u, side, p) = Members(b, side, p) \ {i}
                   /\ \A j \in Members(b, side, p) \ {i} :
                        j \in Idx \ {i} /\ u.pool[j].quantity = b.pool[j].quantity
  BY <1>2, <1>3 DEF Members
<1>5. rest \in Nat /\ LevelSum(b, o.side, o.price) = o.quantity + rest
  BY <1>3, LevelSumSplit
<1>6. new.totalQty = rest % QuantityMod
  <2>1. lvl.totalQty = (o.quantity + rest) % QuantityMod
    BY <1>3, <1>5 DEF Totalled
  <2>2. new.totalQty = QtySub(lvl.totalQty, o.quantity)
    BY DEF RemoveFromLevel
  <2> HIDE DEF rest, new, lvl, o
  <2> QED BY <1>3, <1>5, <2>1, <2>2, WrappedTotals
<1>7. rest = LevelSum(u, o.side, o.price)
  <2>1. \A j \in Members(b, o.side, o.price) \ {i} : Quantities(b)[j] = Quantities(u)[j]
    BY <1>4 DEF Quantities
  <2>2. IsFiniteSet(Members(b, o.side, o.price) \ {i})
    BY MemberQuantities, FS_Subset
  <2>3. rest = Total(Quantities(u), Members(b, o.side, o.price) \ {i})
    BY <2>1, <2>2, TotalAgree
  <2> QED BY <1>4, <2>3 DEF LevelSum
<1> HIDE DEF rest, new
<1>8. ASSUME NEW side \in Side, NEW p \in DOMAIN u.levels[side]
      PROVE  u.levels[side][p].totalQty = LevelSum(u, side, p) % QuantityMod
  <2>1. CASE side = o.side /\ p = o.price
    BY <1>2, <1>3, <1>6, <1>7, <2>1 DEF LevelSet
  <2>2. CASE ~(side = o.side /\ p = o.price)
    <3>1. p \in DOMAIN b.levels[side] /\ u.levels[side][p] = b.levels[side][p]
      BY <1>2, <1>3, <2>2 DEF LevelSet
    <3>2. i \notin Members(b, side, p)
      BY <2>2 DEF Members
    <3>3. /\ Members(u, side, p) = Members(b, side, p)
          /\ \A j \in Members(b, side, p) : u.pool[j].quantity = b.pool[j].quantity
      <4>1. Members(b, side, p) \ {i} = Members(b, side, p)
        BY <3>2
      <4> QED BY <1>4, <4>1
    <3>4. LevelSum(u, side, p) = LevelSum(b, side, p)
      BY <1>1, <3>3, SameLevelSum
    <3> QED BY <3>1, <3>4 DEF Totalled
  <2> QED BY <2>1, <2>2
<1> QED BY <1>8 DEF Totalled, u

\* So does the end of an order.
LEMMA UnbookIfFilledTotals ==
    ASSUME NEW b, NEW reserved, GoodBook(b, reserved), Totalled(b), NEW i \in Live(b)
    PROVE  Totalled(UnbookIfFilled(b, i))
BY UnbookTotals DEF UnbookIfFilled

\* So does CancelOrder.
LEMMA CancelTotals ==
    ASSUME NEW b, NEW reserved, GoodBook(b, reserved), Totalled(b), NEW id
    PROVE  Totalled(CancelledBook(b, id))
BY UnbookTotals DEF CancelledBook, Live

\* What is in no level changes no total: Alloc, Free and FillInFlight.
LEMMA SameTotals ==
    ASSUME NEW b, NEW u, NEW r1, NEW r2, GoodBook(b, r1), GoodBook(u, r2), Totalled(b),
           u.levels = b.levels, Live(u) = Live(b),
           \A j \in Live(b) : /\ u.pool[j].side = b.pool[j].side
                              /\ u.pool[j].price = b.pool[j].price
                              /\ u.pool[j].quantity = b.pool[j].quantity
    PROVE  Totalled(u)
<1>1. \A side, p : /\ Members(u, side, p) = Members(b, side, p)
                   /\ \A j \in Members(b, side, p) : u.pool[j].quantity = b.pool[j].quantity
  BY DEF Members
<1>2. \A side, p : LevelSum(u, side, p) = LevelSum(b, side, p)
  BY <1>1, SameLevelSum
<1> QED BY <1>2 DEF Totalled

\* InsertIntoBook keeps the totals.
LEMMA InsertTotals ==
    ASSUME NEW b, NEW i, GoodBook(b, {i}), Totalled(b),
           b.pool[i].orderId \in OrderId \ DOMAIN b.orderMap
    PROVE  Totalled(InsertIntoBook(b, i))
<1> DEFINE u == InsertIntoBook(b, i)
           o == b.pool[i]
           lvl == LevelFor(b, o)
           new == AppendToLevel(lvl, i, o.quantity)
           old == LevelSum(b, o.side, o.price)
<1>1. Inserted(b, u, i) /\ GoodBook(u, {})
  BY InsertEffect, InsertGood
<1>2. /\ i \in Idx \ Live(b) /\ Live(b) \subseteq Idx /\ b.pool[i] \in PoolOrder
      /\ IsBook(b)
  <2>1. i \in Idx /\ i \notin Live(b) /\ b.pool \in [Idx -> PoolOrder]
    BY DEF GoodBook, Partitioned, IsBook
  <2> QED BY <2>1, LiveSlot DEF GoodBook
<1> HIDE DEF u
<1>3. /\ Live(u) = Live(b) \cup {i}
      /\ \A j \in Idx : /\ u.pool[j].side = b.pool[j].side
                        /\ u.pool[j].price = b.pool[j].price
                        /\ u.pool[j].quantity = b.pool[j].quantity
      /\ LevelSet(b.levels, u.levels, o.side, o.price, new)
  BY <1>1 DEF Inserted, ListAppended
<1>4. o.side \in Side /\ o.quantity \in Quantity
  BY <1>2 DEF PoolOrder
<1>5. old \in Nat
  BY MemberQuantities
<1>6. new.totalQty = (o.quantity + old) % QuantityMod
  <2>1. lvl.totalQty = old % QuantityMod
    <3>1. CASE o.price \in DOMAIN b.levels[o.side]
      BY <1>4, <3>1 DEF LevelFor, Totalled
    <3>2. CASE o.price \notin DOMAIN b.levels[o.side]
      <4>1. Members(b, o.side, o.price) = {}
        BY <1>2, <3>2, LevelForEffect
      <4>2. old = 0
        BY <4>1, TotalEmpty DEF LevelSum
      <4>3. lvl.totalQty = 0
        BY <3>2 DEF LevelFor, EmptyLevel
      <4>4. 0 % QuantityMod = 0
        BY NumericAssumption
      <4> QED BY <4>2, <4>3, <4>4
    <3> QED BY <3>1, <3>2
  <2>2. new.totalQty = QtyAdd(lvl.totalQty, o.quantity)
    BY DEF AppendToLevel
  <2> HIDE DEF old, new, lvl, o
  <2> QED BY <1>4, <1>5, <2>1, <2>2, WrappedTotals
<1>7. /\ Members(u, o.side, o.price) = Members(b, o.side, o.price) \cup {i}
      /\ \A side, p : ~(side = o.side /\ p = o.price) => Members(u, side, p) = Members(b, side, p)
      /\ \A side, p : \A j \in Members(b, side, p) :
            j \in Idx /\ u.pool[j].quantity = b.pool[j].quantity
  BY <1>2, <1>3 DEF Members
<1>8. LevelSum(u, o.side, o.price) = o.quantity + old
  <2>1. i \notin Members(b, o.side, o.price)
    BY <1>2 DEF Members
  <2>2. \A j \in Members(b, o.side, o.price) :
          Quantities(b)[j] \in Nat /\ Quantities(u)[j] = Quantities(b)[j]
    <3>1. \A j \in Members(b, o.side, o.price) : Quantities(b)[j] \in Nat
      BY MemberQuantities
    <3>2. \A j \in Members(b, o.side, o.price) : Quantities(u)[j] = Quantities(b)[j]
      BY <1>7 DEF Quantities
    <3> QED BY <3>1, <3>2
  <2>3. Quantities(u)[i] = o.quantity
    BY <1>2, <1>3 DEF Quantities
  <2>4. o.quantity \in Nat
    BY <1>4, NumericAssumption DEF Quantity
  <2>5. IsFiniteSet(Members(b, o.side, o.price))
    BY MemberQuantities
  <2>6. Total(Quantities(u), Members(b, o.side, o.price) \cup {i})
          = Quantities(u)[i] + Total(Quantities(b), Members(b, o.side, o.price))
    BY <2>1, <2>2, <2>3, <2>4, <2>5, TotalWith
  <2> QED BY <1>7, <2>3, <2>6 DEF LevelSum
<1> HIDE DEF old, new
<1>9. ASSUME NEW side \in Side, NEW p \in DOMAIN u.levels[side]
      PROVE  u.levels[side][p].totalQty = LevelSum(u, side, p) % QuantityMod
  <2>1. CASE side = o.side /\ p = o.price
    BY <1>3, <1>6, <1>8, <2>1 DEF LevelSet
  <2>2. CASE ~(side = o.side /\ p = o.price)
    <3>1. p \in DOMAIN b.levels[side] /\ u.levels[side][p] = b.levels[side][p]
      BY <1>3, <1>4, <2>2 DEF LevelSet
    <3>2. LevelSum(u, side, p) = LevelSum(b, side, p)
      BY <1>1, <1>7, <2>2, SameLevelSum
    <3> QED BY <3>1, <3>2 DEF Totalled
  <2> QED BY <2>1, <2>2
<1> QED BY <1>9 DEF Totalled, u

\* SetQuantity writes one total, and the total of its level.
LEMMA SetQuantityLevels ==
    ASSUME NEW b, NEW reserved, GoodBook(b, reserved), NEW i \in Live(b),
           NEW qty, NEW total, NEW side \in Side, NEW p \in DOMAIN b.levels[side]
    PROVE  SetQuantity(b, i, qty, total).levels[side][p].totalQty =
               IF side = b.pool[i].side /\ p = b.pool[i].price
               THEN total ELSE b.levels[side][p].totalQty
<1> DEFINE o == b.pool[i]
           new == [b.levels[o.side][o.price] EXCEPT !.totalQty = total]
           f == Put(b.levels[o.side], o.price, new)
<1>1. b.levels = [s \in Side |-> b.levels[s]]
  BY DEF GoodBook, IsBook
<1>2. /\ o.side \in Side /\ o.price \in DOMAIN b.levels[o.side]
      /\ b.levels[o.side][o.price] \in PriceLevel
  BY LiveSlot DEF PoolOrder
<1>3. new.totalQty = total
  BY <1>2 DEF PriceLevel
<1>4. SetQuantity(b, i, qty, total).levels = [b.levels EXCEPT ![o.side] = f]
  BY DEF SetQuantity
<1> HIDE DEF new, o
<1>5. p \in DOMAIN b.levels[o.side] => f[p] = IF p = o.price THEN new ELSE b.levels[o.side][p]
  BY DEF Put
<1> HIDE DEF f
<1>6. SetQuantity(b, i, qty, total).levels[side] = IF side = o.side THEN f ELSE b.levels[side]
  BY <1>1, <1>2, <1>4
<1> QED BY <1>3, <1>5, <1>6 DEF o

\* SetQuantity keeps the totals if the new total is that of the others and of
\* the new quantity.
LEMMA SetQuantityTotals ==
    ASSUME NEW b, NEW reserved, GoodBook(b, reserved), Totalled(b), NEW i \in Live(b),
           NEW qty \in Quantity, NEW total \in Quantity,
           \A rest \in Nat : TotalOf(b, i) = (b.pool[i].quantity + rest) % QuantityMod
                               => total = (qty + rest) % QuantityMod
    PROVE  Totalled(SetQuantity(b, i, qty, total))
<1> DEFINE a == SetQuantity(b, i, qty, total)
           o == b.pool[i]
           rest == Total(Quantities(b), Members(b, o.side, o.price) \ {i})
<1>1. Requantified(b, a, reserved, i, qty)
  BY SetQuantityGood
<1>2. \A side \in Side : \A p \in DOMAIN b.levels[side] :
        a.levels[side][p].totalQty = IF side = o.side /\ p = o.price
                                     THEN total ELSE b.levels[side][p].totalQty
  BY SetQuantityLevels
<1> HIDE DEF a
<1>3. /\ o.side \in Side /\ o.price \in DOMAIN b.levels[o.side]
      /\ i \in Members(b, o.side, o.price) /\ Live(b) \subseteq Idx
  BY LiveSlot DEF PoolOrder, Members
<1>4. /\ GoodBook(a, reserved) /\ Live(a) = Live(b)
      /\ \A side \in Side : DOMAIN a.levels[side] = DOMAIN b.levels[side]
      /\ a.pool[i].quantity = qty
      /\ \A j \in Idx : /\ a.pool[j].side = b.pool[j].side /\ a.pool[j].price = b.pool[j].price
                        /\ j # i => a.pool[j].quantity = b.pool[j].quantity
  BY <1>1 DEF Requantified
<1>5. \A side, p : Members(a, side, p) = Members(b, side, p)
  BY <1>3, <1>4 DEF Members
<1>6. rest \in Nat /\ LevelSum(b, o.side, o.price) = o.quantity + rest
  BY <1>3, LevelSumSplit
<1>7. total = (qty + rest) % QuantityMod
  <2>1. TotalOf(b, i) = (o.quantity + rest) % QuantityMod
    BY <1>3, <1>6 DEF TotalOf, Totalled
  <2> HIDE DEF rest
  <2> QED BY <1>6, <2>1
<1>8. LevelSum(a, o.side, o.price) = qty + rest
  <2> DEFINE M == Members(b, o.side, o.price)
  <2>1. \A j \in M \ {i} : Quantities(a)[j] = Quantities(b)[j]
    BY <1>3, <1>4 DEF Quantities, Members
  <2>2. IsFiniteSet(M \ {i})
    BY MemberQuantities, FS_Subset
  <2>3. Total(Quantities(a), M \ {i}) = rest
    <3>1. Total(Quantities(a), M \ {i}) = Total(Quantities(b), M \ {i})
      <4> HIDE DEF M
      <4> QED BY <2>1, <2>2, TotalAgree
    <3> QED BY <3>1
  <2>4. i \in Members(a, o.side, o.price) /\ Members(a, o.side, o.price) = M
    BY <1>3, <1>5
  <2> HIDE DEF M, rest, o
  <2>5. LevelSum(a, o.side, o.price)
          = a.pool[i].quantity + Total(Quantities(a), Members(a, o.side, o.price) \ {i})
    <3>1. GoodBook(a, reserved) /\ i \in Members(a, o.side, o.price)
      BY <1>4, <2>4
    <3> QED BY ONLY <3>1, LevelSumSplit
  <2> QED BY <1>4, <2>3, <2>4, <2>5
<1> HIDE DEF rest
<1>9. ASSUME NEW side \in Side, NEW p \in DOMAIN a.levels[side]
      PROVE  a.levels[side][p].totalQty = LevelSum(a, side, p) % QuantityMod
  <2>1. CASE side = o.side /\ p = o.price
    BY <1>2, <1>3, <1>7, <1>8, <2>1
  <2>2. CASE ~(side = o.side /\ p = o.price)
    <3>1. p \in DOMAIN b.levels[side] /\ a.levels[side][p].totalQty = b.levels[side][p].totalQty
      BY <1>2, <1>4, <2>2
    <3>2. \A j \in Members(b, side, p) : a.pool[j].quantity = b.pool[j].quantity
      BY <1>3, <1>4, <2>2 DEF Members
    <3>3. LevelSum(a, side, p) = LevelSum(b, side, p)
      BY <1>4, <1>5, <3>2, SameLevelSum
    <3> QED BY <3>1, <3>3 DEF Totalled
  <2> QED BY <2>1, <2>2
<1> QED BY <1>9 DEF Totalled, a

\* A fill of a resting order, by no more than there is of it.
LEMMA FillTotals ==
    ASSUME NEW b, NEW reserved, GoodBook(b, reserved), Totalled(b), NEW i \in Live(b),
           NEW q \in Quantity, q <= b.pool[i].quantity
    PROVE  Totalled(FillResting(b, i, q))
<1> DEFINE old == b.pool[i].quantity
           total == TotalOf(b, i)
           left == QtySub(old, q)
           new == QtySub(total, q)
<1>1. old \in Quantity /\ total \in Quantity
  BY LiveSlot DEF TotalOf, PoolOrder, PriceLevel
<1>2. FillResting(b, i, q) = SetQuantity(b, i, left, new)
  BY DEF FillResting
<1> HIDE DEF total, left, new
<1>3. Quantity \subseteq Int
  BY NumericAssumption DEF Quantity
<1>4. left \in Quantity /\ new \in Quantity
  BY <1>1, <1>3, QtyType DEF left, new
<1>5. left = old - q
  BY <1>1, FillDifference DEF left
<1>6. ASSUME NEW rest \in Nat, total = (old + rest) % QuantityMod
      PROVE  new = (left + rest) % QuantityMod
  BY <1>1, <1>5, <1>6, WrappedTotals DEF new
<1> QED BY <1>2, <1>4, <1>6, SetQuantityTotals DEF total

\* The totals at every moment: "Matches best bid against best ask" and the
\* rest of Orderbook.h adjust them in place.
TotalsInv == Totalled(book)

\* A trade of the matching loop.
LEMMA MatchStepTotals ==
    ASSUME IInv, TotalsInv, MatchStep
    PROVE  TotalsInv'
<1>1. GoodBook(book, {})
  BY PlainState DEF IInv, MatchStep
<1> DEFINE bid(bp) == book.levels["Buy"][bp].head
           ask(ap) == book.levels["Sell"][ap].head
           qty(bp, ap) == MinOf(book.pool[bid(bp)].quantity, book.pool[ask(ap)].quantity)
           filled(bp, ap) == FillResting(FillResting(book, bid(bp), qty(bp, ap)),
                                         ask(ap), qty(bp, ap))
<1>2. PICK bp \in BidPrices, ap \in AskPrices :
        book' = UnbookIfFilled(UnbookIfFilled(filled(bp, ap), bid(bp)), ask(ap))
  BY DEF MatchStep
<1> DEFINE x == bid(bp)  y == ask(ap)  q == qty(bp, ap)
           f1 == FillResting(book, x, q)
           f2 == FillResting(f1, y, q)
           u1 == UnbookIfFilled(f2, x)
           u2 == UnbookIfFilled(u1, y)
<1>3. book' = u2 /\ q = MinOf(book.pool[x].quantity, book.pool[y].quantity)
  BY <1>2
<1>4. x \in Live(book) /\ y \in Live(book) /\ x # y /\ q \in Quantity
  BY <1>1, HeadsRest DEF BidPrices, AskPrices
<1> HIDE DEF x, y, q
<1>5. /\ book.pool[x].quantity \in Quantity /\ book.pool[y].quantity \in Quantity
      /\ x \in Idx /\ y \in Idx
  BY <1>1, <1>4, LiveSlot DEF PoolOrder
<1>6. q <= book.pool[x].quantity /\ q <= book.pool[y].quantity
  BY <1>3, <1>5, NumericAssumption DEF MinOf, Quantity
<1>7. GoodBook(f1, {}) /\ Live(f1) = Live(book) /\ SameQuantity(book, f1, {x}) /\ Totalled(f1)
  BY <1>1, <1>4, <1>6, RestingFill, FillTotals DEF TotalsInv
<1> HIDE DEF f1
<1>8. y \in Live(f1) /\ q <= f1.pool[y].quantity
  BY <1>4, <1>5, <1>6, <1>7 DEF SameQuantity
<1>9. GoodBook(f2, {}) /\ Live(f2) = Live(book) /\ Totalled(f2)
  <2>1. f2 = FillResting(f1, y, q)
    OBVIOUS
  <2> HIDE DEF f2
  <2>2. GoodBook(f2, {}) /\ Live(f2) = Live(f1)
    <3>1. GoodBook(f1, {}) /\ y \in Live(f1) /\ q \in Quantity /\ q <= f1.pool[y].quantity
      BY <1>4, <1>7, <1>8
    <3> QED BY ONLY <2>1, <3>1, RestingFill
  <2>3. Totalled(f2)
    BY <1>4, <1>7, <1>8, <2>1, FillTotals
  <2> QED BY <1>7, <2>2, <2>3
<1> HIDE DEF f2
<1>10. GoodBook(u1, {}) /\ Totalled(u1) /\ y \in Live(u1)
  <2>1. x \in Live(f2) /\ y \in Live(f2)
    BY <1>4, <1>9
  <2>2. /\ GoodBook(u1, {})
        /\ Shrunk(f2, u1, IF f2.pool[x].quantity = 0 THEN {x} ELSE {})
    BY <1>9, <2>1, UnbookIfFilledShrinks
  <2>3. Totalled(u1)
    BY <1>9, <2>1, UnbookIfFilledTotals
  <2> HIDE DEF u1
  <2> QED BY <1>4, <2>1, <2>2, <2>3 DEF Shrunk
<1> HIDE DEF u1
<1>11. Totalled(u2)
  BY <1>10, UnbookIfFilledTotals
<1> HIDE DEF u2
<1> QED BY <1>3, <1>11 DEF TotalsInv

\* A trade of the replay.
LEMMA ExecuteStepTotals ==
    ASSUME IInv, TotalsInv, ExecuteStep
    PROVE  TotalsInv'
<1> DEFINE a == call.idx
           i == Head(call.matches).idx
           q == Head(call.matches).qty
           f1 == FillResting(book, i, q)
           f2 == FillInFlight(f1, a, q)
           u == UnbookIfFilled(f2, i)
<1>1. book' = u /\ call.pc = "execute"
  BY DEF ExecuteStep
<1>2. /\ GoodBook(book, {a}) /\ i \in Live(book) /\ q \in Quantity /\ q <= book.pool[i].quantity
  <2>1. ExecuteEffect(i, q)
    BY ExecuteStepEffect
  <2>2. GoodBook(book, {a})
    BY <1>1 DEF IInv, StateOK, Reserved
  <2> HIDE DEF i, q, a
  <2> QED BY <2>1, <2>2 DEF ExecuteEffect
<1> HIDE DEF a, i, q
<1>3. GoodBook(f1, {a}) /\ Live(f1) = Live(book) /\ Totalled(f1)
  BY <1>2, RestingFill, FillTotals DEF TotalsInv
<1> HIDE DEF f1
<1>4. /\ a \notin Live(f1)
      /\ Requantified(f1, f2, {a}, a, QtySub(f1.pool[a].quantity, q))
  BY <1>2, <1>3, FillInFlightGood
<1>5. f2.levels = f1.levels
  BY DEF FillInFlight
<1> HIDE DEF f2
<1>6. /\ GoodBook(f2, {a}) /\ Live(f2) = Live(f1)
      /\ \A j \in Live(f1) : /\ f2.pool[j].side = f1.pool[j].side
                             /\ f2.pool[j].price = f1.pool[j].price
                             /\ f2.pool[j].quantity = f1.pool[j].quantity
  BY <1>3, <1>4, LiveSlot DEF Requantified
<1>7. Totalled(f2)
  BY <1>3, <1>5, <1>6, SameTotals
<1>8. Totalled(u)
  BY <1>2, <1>3, <1>6, <1>7, UnbookIfFilledTotals
<1> HIDE DEF u
<1> QED BY <1>1, <1>8 DEF TotalsInv

\* AddOrder, up to its matching or its scan.
LEMMA AddOrderTotals ==
    ASSUME GoodBook(book, {}), TotalsInv,
           NEW type \in OrderType, NEW id \in OrderId, NEW side \in Side,
           NEW price \in Price, NEW qty \in Quantity,
           AddOrderBody(type, id, side, price, qty)
    PROVE  TotalsInv'
<1>1. ASSUME book.freeList # <<>>, id \notin DOMAIN book.orderMap,
             NEW kind \in OrderType, NEW limit \in Price
      PROVE  LET a == Alloc(book, kind, id, side, limit, qty)
             IN  Totalled(a) /\ Totalled(InsertIntoBook(a, AllocIdx(book)))
  <2> DEFINE a == Alloc(book, kind, id, side, limit, qty)
             i == AllocIdx(book)
             o == [ orderId |-> id, side |-> side, price |-> limit, orderType |-> kind,
                    quantity |-> qty, prev |-> NULL_IDX, next |-> NULL_IDX ]
  <2>1. Allocated(book, a, i, o)
    BY <1>1, AllocGood
  <2>2. o.orderId = id
    OBVIOUS
  <2> HIDE DEF a, i, o
  <2>3. /\ GoodBook(a, {i}) /\ a.levels = book.levels /\ Live(a) = Live(book)
        /\ \A j \in Live(book) : a.pool[j] = book.pool[j]
        /\ a.pool[i].orderId = id /\ a.orderMap = book.orderMap
    BY <2>1, <2>2 DEF Allocated
  <2>4. Totalled(a)
    BY <2>3, SameTotals DEF TotalsInv
  <2>5. Totalled(InsertIntoBook(a, i))
    BY <1>1, <2>3, <2>4, InsertTotals
  <2> QED BY <2>4, <2>5 DEF a, i
<1>2. CASE book' = book
  BY <1>2 DEF TotalsInv
<1>3. CASE /\ id \notin DOMAIN book.orderMap /\ book.freeList # <<>>
           /\ StartFillOrKill(id, side, price, qty)
  <2>1. book' = Alloc(book, "FillOrKill", id, side, price, qty) /\ "FillOrKill" \in OrderType
    BY <1>3 DEF StartFillOrKill, OrderType
  <2> QED BY <1>1, <1>3, <2>1 DEF TotalsInv
<1>4. CASE /\ id \notin DOMAIN book.orderMap /\ book.freeList # <<>>
           /\ LimitType(type) \in OrderType /\ LimitPrice(type, side, price) \in Price
           /\ StartMatching(LimitType(type), id, side, LimitPrice(type, side, price), qty)
  <2> DEFINE kind == LimitType(type)  limit == LimitPrice(type, side, price)
  <2>1. kind \in OrderType /\ limit \in Price
    BY <1>4
  <2>2. book' = InsertIntoBook(Alloc(book, kind, id, side, limit, qty), AllocIdx(book))
    BY <1>4 DEF StartMatching
  <2> HIDE DEF kind, limit
  <2> QED BY <1>1, <1>4, <2>1, <2>2 DEF TotalsInv
<1> QED BY <1>2, <1>3, <1>4, AddOrderCases

\* An in-place modification.
LEMMA ModifyTotals ==
    ASSUME GoodBook(book, {}), TotalsInv, NEW i \in Live(book), NEW qty \in Quantity,
           ModifyQuantity(i, qty)
    PROVE  TotalsInv'
<1> DEFINE old == book.pool[i].quantity
           total == TotalOf(book, i)
           rest == QtySub(total, old)
           new == QtyAdd(rest, qty)
<1>1. old \in Quantity /\ total \in Quantity
  BY LiveSlot DEF TotalOf, PoolOrder, PriceLevel
<1>2. book' = SetQuantity(book, i, qty, new)
  BY DEF ModifyQuantity
<1> HIDE DEF total, rest, new, old
<1>3. Quantity \subseteq Int
  BY NumericAssumption DEF Quantity
<1>4. rest \in Quantity
  BY <1>1, <1>3, QtyType DEF rest
<1>5. new \in Quantity
  BY <1>3, <1>4, QtyType DEF new
<1>6. ASSUME NEW r \in Nat, total = (old + r) % QuantityMod
      PROVE  new = (qty + r) % QuantityMod
  BY <1>1, <1>6, WrappedTotals DEF rest, new
<1>7. Totalled(SetQuantity(book, i, qty, new))
  BY <1>5, <1>6, SetQuantityTotals DEF total, old, TotalsInv
<1> QED BY <1>2, <1>7 DEF TotalsInv

\* Free: the slot it gives back is in no level.
LEMMA FreeTotals ==
    ASSUME IInv, TotalsInv, Kill \/ ExecuteEnd
    PROVE  TotalsInv'
<1> DEFINE i == call.idx
           a == Free(book, i)
<1>1. call.pc \in {"collect", "execute"} /\ book' = a
  BY DEF Kill, ExecuteEnd
<1>2. GoodBook(book, {i})
  BY <1>1 DEF IInv, StateOK, Reserved
<1> HIDE DEF i
<1>3. GoodBook(a, {}) /\ Live(a) = Live(book)
  BY <1>2, FreeGood
<1>4. a.levels = book.levels
  BY DEF Free
<1>5. \A j \in Live(book) : a.pool[j] = book.pool[j]
  <2>1. i \notin Live(book) /\ book.pool \in [Idx -> PoolOrder] /\ Live(book) \subseteq Idx
    BY <1>2, LiveSlot DEF GoodBook, Partitioned, IsBook
  <2> QED BY <2>1 DEF Free
<1> HIDE DEF a
<1>6. Totalled(a)
  BY <1>2, <1>3, <1>4, <1>5, SameTotals DEF TotalsInv
<1> QED BY <1>1, <1>6 DEF TotalsInv

\* Every step keeps the totals.
LEMMA NextTotals ==
    ASSUME IInv, TotalsInv, [Next]_vars
    PROVE  TotalsInv'
<1>1. ASSUME book' = book
      PROVE  TotalsInv'
  BY <1>1 DEF TotalsInv
<1>2. CASE \/ UNCHANGED vars
           \/ CancelGoodForDayOrders \/ CancelAllEnd
           \/ \E rules \in RuleSets : SetExchangeRules(rules)
           \/ CollectLevel \/ CollectOrder \/ CollectEnd
  BY <1>1, <1>2 DEF vars, CancelGoodForDayOrders, CancelAllEnd, SetExchangeRules,
                    CollectLevel, CollectOrder, CollectEnd
<1>3. ASSUME call.pc \notin {"collect", "execute"}, NEW id, book' = CancelledBook(book, id)
      PROVE  TotalsInv'
  <2>1. GoodBook(book, {})
    BY <1>3, PlainState DEF IInv
  <2> QED BY <1>3, <2>1, CancelTotals DEF TotalsInv
<1>4. call = Idle => call.pc = "idle"
  BY DEF Idle
<1>5. CASE (\E id \in OrderId : CancelOrder(id)) \/ CancelNext \/ MatchEnd
  BY <1>3, <1>4, <1>5 DEF CancelOrder, CancelNext, MatchEnd
<1>6. ASSUME NEW id \in OrderId, NEW side \in Side, NEW price \in LimitPrices,
             NEW qty \in ModifyQuantities, ModifyOrder(id, side, price, qty)
      PROVE  TotalsInv'
  <2>1. /\ call.pc = "idle"
        /\ \/ book' = book
           \/ book' = CancelledBook(book, id)
           \/ /\ id \in DOMAIN book.orderMap
              /\ ModifyQuantity(book.orderMap[id], qty)
    BY <1>4, <1>6 DEF ModifyOrder
  <2>2. GoodBook(book, {})
    BY <2>1, PlainState DEF IInv
  <2>3. CASE id \in DOMAIN book.orderMap /\ ModifyQuantity(book.orderMap[id], qty)
    <3>1. book.orderMap[id] \in Live(book) /\ qty \in Quantity
      BY <2>3, BookAssumption DEF Live
    <3> QED BY <2>2, <2>3, <3>1, ModifyTotals
  <2> QED BY <1>1, <1>3, <2>1, <2>3
<1>7. CASE \E type \in OrderType, id \in OrderId, side \in Side, price \in Price,
              qty \in Quantity : GoodBook(book, {}) /\ Adding(type, id, side, price, qty)
  BY <1>7, AddOrderTotals DEF Adding
<1> QED BY <1>2, <1>5, <1>6, <1>7, StepCases, MatchStepTotals, ExecuteStepTotals, FreeTotals

\* The sum of a level is what MapThenSumSet makes of it.
LEMMA LevelSumIsFold ==
    ASSUME NEW b, NEW reserved, GoodBook(b, reserved), NEW side, NEW p
    PROVE  MapThenSumSet(LAMBDA i : b.pool[i].quantity, Members(b, side, p))
               = LevelSum(b, side, p)
<1> DEFINE S == Members(b, side, p)
           g == CHOOSE iter : iter = [s \in SUBSET S |->
                  IF s = {} THEN 0
                  ELSE LET x == CHOOSE x \in s : TRUE IN b.pool[x].quantity + iter[s \ {x}]]
<1>1. MapThenSumSet(LAMBDA i : b.pool[i].quantity, S) = g[S]
  BY Zenon DEF MapThenSumSet, MapThenFoldSet
<1>2. IsFiniteSet(S) /\ \A i \in S : Quantities(b)[i] = b.pool[i].quantity
  BY MemberQuantities
<1>3. PICK h : IsSum(h, Quantities(b), S) /\ LevelSum(b, side, p) = h[S]
  BY <1>2, TotalIsSum DEF LevelSum
<1> HIDE DEF S
<1>4. h = [s \in SUBSET S |->
             IF s = {} THEN 0
             ELSE LET x == CHOOSE x \in s : TRUE IN b.pool[x].quantity + h[s \ {x}]]
  <2>1. h = [s \in SUBSET S |-> IF s = {} THEN 0
                                ELSE Quantities(b)[Pick(s)] + h[s \ {Pick(s)}]]
    BY <1>3 DEF IsSum
  <2>2. \A s \in SUBSET S : s # {} => Quantities(b)[Pick(s)] = b.pool[Pick(s)].quantity
    BY <1>2 DEF Pick
  <2>3. h = [s \in SUBSET S |-> IF s = {} THEN 0
                                ELSE b.pool[Pick(s)].quantity + h[s \ {Pick(s)}]]
    BY <2>1, <2>2
  <2> QED BY <2>3 DEF Pick
<1>5. g = [s \in SUBSET S |->
             IF s = {} THEN 0
             ELSE LET x == CHOOSE x \in s : TRUE IN b.pool[x].quantity + g[s \ {x}]]
  BY <1>4, Zenon
<1> HIDE DEF g
<1>6. IsSum(g, Quantities(b), S)
  <2>1. g = [s \in SUBSET S |-> IF s = {} THEN 0
                                ELSE b.pool[Pick(s)].quantity + g[s \ {Pick(s)}]]
    BY <1>5 DEF Pick
  <2>2. \A s \in SUBSET S : s # {} => Quantities(b)[Pick(s)] = b.pool[Pick(s)].quantity
    BY <1>2 DEF Pick
  <2>3. g = [s \in SUBSET S |-> IF s = {} THEN 0
                                ELSE Quantities(b)[Pick(s)] + g[s \ {Pick(s)}]]
    BY <2>1, <2>2
  <2> QED BY <2>3 DEF IsSum
<1>7. g[S] = h[S]
  BY <1>2, <1>3, <1>6, SumsAgree
<1> QED BY <1>1, <1>3, <1>7 DEF S

\* totalQty is the sum of the quantities of its level, modulo the width of
\* Quantity, after every step of every call: the increments and decrements of
\* DllAppend, DllRemove, MatchOrders, ExecuteFOK and ModifyOrder never drift
\* (Orderbook.h, 62-65).
THEOREM TotalsAgree == Spec => []TotalsInSync
<1>1. Init => TotalsInv
  BY DEF Init, TotalsInv, Totalled
<1>2. IInv /\ TotalsInv /\ [Next]_vars => TotalsInv'
  BY NextTotals
<1>3. IInv /\ TotalsInv => TotalsInSync
  <2> SUFFICES ASSUME IInv, TotalsInv PROVE TotalsInSync
    OBVIOUS
  <2>1. GoodBook(book, Reserved(call))
    BY DEF IInv, StateOK
  <2>2. \A side, p : TrueTotal(side, p) = LevelSum(book, side, p)
    BY <2>1, LevelSumIsFold DEF TrueTotal, Resting
  <2> QED BY <2>2 DEF TotalsInSync, TotalsInv, Totalled
<1> QED BY <1>1, <1>2, <1>3, Inductive, PTL DEF Spec

-----------------------------------------------------------------------------
(* The balance of a FillOrKill order.                                       *)

Amounts(s) == [k \in DOMAIN s |-> s[k].qty]

\* The quantity of a sequence of matches.
MatchSum(s) == Total(Amounts(s), DOMAIN s)

\* Its indexes are finitely many, and its entries have quantities.
LEMMA MatchAmounts ==
    ASSUME NEW s \in Seq(FokMatch)
    PROVE  /\ IsFiniteSet(DOMAIN s)
           /\ \A k \in DOMAIN s : /\ Amounts(s)[k] = s[k].qty
                                  /\ s[k].qty \in Quantity /\ Amounts(s)[k] \in Nat
           /\ MatchSum(s) \in Nat
<1>1. DOMAIN s = 1 .. Len(s) /\ Len(s) \in Nat
  OBVIOUS
<1>2. IsFiniteSet(DOMAIN s)
  BY <1>1, FS_Interval
<1>3. Quantity \subseteq Nat
  BY NumericAssumption DEF Quantity
<1>4. \A k \in DOMAIN s : /\ Amounts(s)[k] = s[k].qty
                          /\ s[k].qty \in Quantity /\ Amounts(s)[k] \in Nat
  <2>1. \A k \in DOMAIN s : s[k] \in FokMatch
    OBVIOUS
  <2>2. \A k \in DOMAIN s : s[k].qty \in Quantity
    BY <2>1 DEF FokMatch
  <2>3. \A k \in DOMAIN s : Amounts(s)[k] = s[k].qty
    BY DEF Amounts
  <2> QED BY <1>3, <2>2, <2>3
<1>5. MatchSum(s) \in Nat
  BY <1>2, <1>4, TotalType DEF MatchSum
<1> QED BY <1>2, <1>4, <1>5

\* That is what FoldSeq makes of it.
LEMMA MatchSumIsFold ==
    ASSUME NEW s \in Seq(FokMatch)
    PROVE  FoldSeq(LAMBDA m, sum : m.qty + sum, 0, s) = MatchSum(s)
<1> DEFINE S == DOMAIN s
           g == CHOOSE iter : iter = [t \in SUBSET S |->
                  IF t = {} THEN 0
                  ELSE LET x == CHOOSE x \in t : TRUE IN s[x].qty + iter[t \ {x}]]
<1>1. FoldSeq(LAMBDA m, sum : m.qty + sum, 0, s) = g[S]
  BY Zenon DEF FoldSeq, FoldFunction, FoldFunctionOnSet, MapThenFoldSet
<1>2. IsFiniteSet(S) /\ \A k \in S : Amounts(s)[k] = s[k].qty
  BY MatchAmounts
<1>3. PICK h : IsSum(h, Amounts(s), S) /\ MatchSum(s) = h[S]
  BY <1>2, TotalIsSum DEF MatchSum
<1> HIDE DEF S
<1>4. h = [t \in SUBSET S |->
             IF t = {} THEN 0
             ELSE LET x == CHOOSE x \in t : TRUE IN s[x].qty + h[t \ {x}]]
  <2>1. h = [t \in SUBSET S |-> IF t = {} THEN 0
                                ELSE Amounts(s)[Pick(t)] + h[t \ {Pick(t)}]]
    BY <1>3 DEF IsSum
  <2>2. \A t \in SUBSET S : t # {} => Amounts(s)[Pick(t)] = s[Pick(t)].qty
    BY <1>2 DEF Pick
  <2>3. h = [t \in SUBSET S |-> IF t = {} THEN 0
                                ELSE s[Pick(t)].qty + h[t \ {Pick(t)}]]
    BY <2>1, <2>2
  <2> QED BY <2>3 DEF Pick
<1>5. g = [t \in SUBSET S |->
             IF t = {} THEN 0
             ELSE LET x == CHOOSE x \in t : TRUE IN s[x].qty + g[t \ {x}]]
  BY <1>4, Zenon
<1> HIDE DEF g
<1>6. IsSum(g, Amounts(s), S)
  <2>1. g = [t \in SUBSET S |-> IF t = {} THEN 0
                                ELSE s[Pick(t)].qty + g[t \ {Pick(t)}]]
    BY <1>5 DEF Pick
  <2>2. \A t \in SUBSET S : t # {} => Amounts(s)[Pick(t)] = s[Pick(t)].qty
    BY <1>2 DEF Pick
  <2>3. g = [t \in SUBSET S |-> IF t = {} THEN 0
                                ELSE Amounts(s)[Pick(t)] + g[t \ {Pick(t)}]]
    BY <2>1, <2>2
  <2> QED BY <2>3 DEF IsSum
<1>7. g[S] = h[S]
  BY <1>2, <1>3, <1>6, SumsAgree
<1> QED BY <1>1, <1>3, <1>7

\* Nothing is matched in an empty sequence, and one more match adds its
\* quantity.
LEMMA MatchSumAppend ==
    ASSUME NEW s \in Seq(FokMatch), NEW m \in FokMatch
    PROVE  MatchSum(Append(s, m)) = m.qty + MatchSum(s)
<1> DEFINE n == Len(s) + 1
           u == Append(s, m)
<1>1. u \in Seq(FokMatch) /\ DOMAIN u = DOMAIN s \cup {n} /\ n \notin DOMAIN s
      /\ u[n] = m /\ \A k \in DOMAIN s : u[k] = s[k]
  OBVIOUS
<1> HIDE DEF u, n
<1>2. /\ IsFiniteSet(DOMAIN s)
      /\ \A k \in DOMAIN s : Amounts(s)[k] \in Nat /\ Amounts(s)[k] = s[k].qty
  BY MatchAmounts
<1>3. \A k \in DOMAIN u : Amounts(u)[k] = u[k].qty /\ Amounts(u)[k] \in Nat
  BY <1>1, MatchAmounts
<1>4. Amounts(u)[n] = m.qty /\ Amounts(u)[n] \in Nat
  BY <1>1, <1>3
<1>5. \A k \in DOMAIN s : Amounts(u)[k] = Amounts(s)[k]
  BY <1>1, <1>2, <1>3
<1>6. Total(Amounts(u), DOMAIN s \cup {n}) = Amounts(u)[n] + Total(Amounts(s), DOMAIN s)
  BY <1>1, <1>2, <1>4, <1>5, TotalWith
<1>7. MatchSum(u) = m.qty + MatchSum(s)
  BY <1>1, <1>4, <1>6 DEF MatchSum
<1> QED BY <1>7 DEF u

\* An interval from 1 without its end.
LEMMA IntervalEnd ==
    ASSUME NEW n \in Nat, n > 0
    PROVE  IsFiniteSet(1 .. n) /\ n \in 1 .. n /\ (1 .. n) \ {n} = 1 .. (n - 1)
<1>1. IsFiniteSet(1 .. n)
  BY FS_Interval
<1> QED BY <1>1

\* The quantities of weights whose indexes are moved down by one.
LEMMA TotalShift ==
    ASSUME NEW w, NEW v, NEW n \in Nat,
           \A k \in 1 .. n + 1 : w[k] \in Nat, \A k \in 1 .. n : v[k] = w[k + 1]
    PROVE  Total(w, 1 .. n + 1) = w[1] + Total(v, 1 .. n)
<1> DEFINE T == {k \in 0 .. n : Total(w, 1 .. k + 1) # w[1] + Total(v, 1 .. k)}
<1>1. SUFFICES ASSUME T # {} PROVE FALSE
  BY n \in 0 .. n
<1>2. PICK k \in T : \A j \in T : k <= j
  <2>1. T \subseteq Nat
    OBVIOUS
  <2> HIDE DEF T
  <2> QED BY <1>1, <2>1, NatMin
<1>3. k \in 0 .. n /\ Total(w, 1 .. k + 1) # w[1] + Total(v, 1 .. k)
  BY <1>2
<1>4. k > 0 => Total(w, 1 .. (k - 1) + 1) = w[1] + Total(v, 1 .. k - 1)
  BY <1>2
<1> HIDE DEF T
<1> DEFINE l == k + 1
<1>5. /\ l \in Nat /\ l > 0 /\ l - 1 = k /\ 1 .. (l - 1) = 1 .. k
      /\ \A j \in 1 .. l : w[j] \in Nat
  BY <1>3
<1>6. Total(w, 1 .. l) = w[l] + Total(w, 1 .. k) /\ Total(w, 1 .. k) \in Nat
  <2> HIDE DEF l
  <2>1. IsFiniteSet(1 .. l) /\ l \in 1 .. l /\ (1 .. l) \ {l} = 1 .. k
    BY <1>5, IntervalEnd
  <2>2. Total(w, 1 .. l) = w[l] + Total(w, (1 .. l) \ {l}) /\ Total(w, (1 .. l) \ {l}) \in Nat
    BY <1>5, <2>1, TotalWithout
  <2> QED BY <2>1, <2>2
<1>7. CASE k = 0
  <2>1. 1 .. k = {}
    BY <1>7
  <2>2. Total(w, 1 .. k) = 0 /\ Total(v, 1 .. k) = 0
    BY <2>1, TotalEmpty
  <2> QED BY <1>3, <1>5, <1>6, <1>7, <2>2
<1>8. CASE k > 0
  <2>1. /\ \A j \in 1 .. k : v[j] \in Nat
        /\ v[k] = w[l] /\ (k - 1) + 1 = k
    BY <1>3, <1>8
  <2>2. Total(v, 1 .. k) = v[k] + Total(v, 1 .. (k - 1)) /\ Total(v, 1 .. (k - 1)) \in Nat
    <3>1. IsFiniteSet(1 .. k) /\ k \in 1 .. k /\ (1 .. k) \ {k} = 1 .. (k - 1)
      BY <1>3, <1>8, IntervalEnd
    <3>2. /\ Total(v, 1 .. k) = v[k] + Total(v, (1 .. k) \ {k})
          /\ Total(v, (1 .. k) \ {k}) \in Nat
      BY <2>1, <3>1, TotalWithout
    <3> QED BY <3>1, <3>2
  <2>3. w[1] \in Nat /\ w[l] \in Nat
    BY <1>3
  <2> QED BY <1>3, <1>4, <1>6, <1>8, <2>1, <2>2, <2>3
<1> QED BY <1>3, <1>7, <1>8

\* The first match off a sequence takes its quantity off.
LEMMA MatchSumTail ==
    ASSUME NEW s \in Seq(FokMatch), s # <<>>
    PROVE  /\ Tail(s) \in Seq(FokMatch)
           /\ MatchSum(s) = Head(s).qty + MatchSum(Tail(s))
<1> DEFINE t == Tail(s)  n == Len(s) - 1
<1>1. /\ n \in Nat /\ DOMAIN s = 1 .. n + 1 /\ t \in Seq(FokMatch) /\ DOMAIN t = 1 .. n
      /\ \A k \in 1 .. n : t[k] = s[k + 1] /\ k + 1 \in 1 .. n + 1
      /\ Head(s) = s[1] /\ 1 \in 1 .. n + 1
  OBVIOUS
<1> HIDE DEF t, n
<1>2. \A k \in 1 .. n + 1 : Amounts(s)[k] \in Nat /\ Amounts(s)[k] = s[k].qty
  BY <1>1, MatchAmounts
<1>3. \A k \in 1 .. n : Amounts(t)[k] = t[k].qty
  BY <1>1, MatchAmounts
<1>4. \A k \in 1 .. n : Amounts(t)[k] = Amounts(s)[k + 1]
  BY <1>1, <1>2, <1>3
<1>5. Total(Amounts(s), 1 .. n + 1) = Amounts(s)[1] + Total(Amounts(t), 1 .. n)
  BY <1>1, <1>2, <1>4, TotalShift
<1>6. MatchSum(s) = Head(s).qty + MatchSum(t)
  BY <1>1, <1>2, <1>5 DEF MatchSum
<1> QED BY <1>1, <1>6 DEF t

\* While CollectFOK scans, what it has found and what is left to find make up
\* the order; while ExecuteFOK replays, what is left to replay is what is left
\* of the order.
Balance(b, c) ==
    /\ c.pc = "collect" => b.pool[c.idx].quantity = c.remaining + MatchSum(c.matches)
    /\ c.pc = "execute" => b.pool[c.idx].quantity = MatchSum(c.matches)

BalanceInv == Balance(book, call)

\* The start of a scan: nothing found, and all to find.
LEMMA ScanStartsBalanced ==
    ASSUME GoodBook(book, {}), book.freeList # <<>>,
           NEW id \in OrderId \ DOMAIN book.orderMap, NEW side \in Side,
           NEW price \in Price, NEW qty \in Quantity,
           StartFillOrKill(id, side, price, qty)
    PROVE  BalanceInv'
<1> DEFINE a == Alloc(book, "FillOrKill", id, side, price, qty)
           i == AllocIdx(book)
           o == [ orderId |-> id, side |-> side, price |-> price,
                  orderType |-> "FillOrKill", quantity |-> qty,
                  prev |-> NULL_IDX, next |-> NULL_IDX ]
           c == call'
<1>1. /\ book' = a
      /\ c.pc = "collect" /\ c.idx = i /\ c.remaining = qty /\ c.matches = <<>>
  BY DEF StartFillOrKill
<1>2. Allocated(book, a, i, o)
  BY AllocGood DEF OrderType
<1>3. o.quantity = qty
  OBVIOUS
<1> HIDE DEF a, i, o, c
<1>4. a.pool[c.idx].quantity = qty
  BY <1>1, <1>2, <1>3 DEF Allocated
<1>5. MatchSum(<<>>) = 0
  <2>1. DOMAIN <<>> = {}
    OBVIOUS
  <2> QED BY <2>1, TotalEmpty DEF MatchSum
<1>6. qty = qty + 0
  BY NumericAssumption DEF Quantity
<1>7. Balance(a, c)
  BY <1>1, <1>4, <1>5, <1>6 DEF Balance
<1> QED BY <1>1, <1>7 DEF BalanceInv, c

\* A step of the scan.
LEMMA ScanKeepsBalance ==
    ASSUME IInv, BalanceInv, CollectLevel \/ CollectOrder \/ CollectEnd
    PROVE  BalanceInv'
<1> DEFINE c == call'
<1>1. call.pc = "collect" /\ book' = book
  BY DEF CollectLevel, CollectOrder, CollectEnd
<1>2. /\ call \in CollectFrame /\ GoodBook(book, {call.idx}) /\ Scanning(book, call)
      /\ call.matches \in Seq(FokMatch) /\ call.idx \in Idx /\ call.remaining \in Quantity
  BY <1>1, CollectState DEF CollectFrame
<1>3. Aggressor.quantity = call.remaining + MatchSum(call.matches)
  BY <1>1 DEF BalanceInv, Balance, Aggressor
<1>4. MatchSum(call.matches) \in Nat
  BY <1>2, MatchAmounts
<1>5. CASE CollectLevel
  <2>1. \E todo, cur : c = [call EXCEPT !.todo = todo, !.cur = cur]
    BY <1>5 DEF CollectLevel
  <2> HIDE DEF c
  <2>2. c.pc = "collect" /\ c.idx = call.idx /\ c.remaining = call.remaining
        /\ c.matches = call.matches
    BY <1>2, <2>1 DEF CollectFrame
  <2>3. Balance(book, c)
    BY <1>3, <2>2 DEF Balance, Aggressor
  <2> QED BY <1>1, <2>3 DEF BalanceInv, c
<1>6. CASE CollectOrder
  <2> DEFINE q == MinOf(call.remaining, book.pool[call.cur].quantity)
             m == [idx |-> call.cur, qty |-> q]
             ms == Append(call.matches, m)
             r == call.remaining - q
             n == book.pool[call.cur].next
  <2>1. c = [call EXCEPT !.matches = ms, !.remaining = r, !.cur = n] /\ call.cur # NULL_IDX
    BY <1>6 DEF CollectOrder
  <2>2. call.cur \in Live(book)
    BY <1>2, <2>1 DEF Scanning
  <2>3. call.cur \in Idx /\ book.pool[call.cur].quantity \in Quantity
    BY <1>2, <2>2, LiveSlot DEF PoolOrder
  <2>4. q \in Quantity
    BY <1>2, <2>3 DEF MinOf
  <2> HIDE DEF q
  <2>5. m \in FokMatch /\ m.qty = q
    BY <2>3, <2>4 DEF FokMatch
  <2> HIDE DEF m
  <2>6. MatchSum(ms) = q + MatchSum(call.matches)
    BY <1>2, <2>5, MatchSumAppend
  <2> HIDE DEF ms, n, c
  <2>7. c.pc = "collect" /\ c.idx = call.idx /\ c.remaining = r /\ c.matches = ms
    <3> HIDE DEF r
    <3> QED BY <1>2, <2>1 DEF CollectFrame
  <2>8. call.remaining \in Int /\ q \in Int /\ MatchSum(call.matches) \in Int
    <3>1. call.remaining \in Int
      BY <1>2, NumericAssumption DEF Quantity
    <3>2. q \in Int
      BY <2>4, NumericAssumption DEF Quantity
    <3>3. MatchSum(call.matches) \in Int
      BY <1>4
    <3> QED BY <3>1, <3>2, <3>3
  <2>9. call.remaining + MatchSum(call.matches) = r + (q + MatchSum(call.matches))
    BY <2>8
  <2> HIDE DEF r
  <2>10. Balance(book, c)
    BY <1>3, <2>6, <2>7, <2>9 DEF Balance, Aggressor
  <2> QED BY <1>1, <2>10 DEF BalanceInv, c
<1>7. CASE CollectEnd
  <2>1. c.pc = "execute" /\ c.idx = call.idx /\ c.matches = call.matches /\ call.remaining = 0
    BY <1>7 DEF CollectEnd
  <2> HIDE DEF c
  <2>2. Aggressor.quantity = MatchSum(call.matches)
    BY <1>3, <1>4, <2>1
  <2>3. Balance(book, c)
    BY <2>1, <2>2 DEF Balance, Aggressor
  <2> QED BY <1>1, <2>3 DEF BalanceInv, c
<1> QED BY <1>5, <1>6, <1>7

\* A step of the replay: what it takes off the order is the first of its matches.
LEMMA ReplayKeepsBalance ==
    ASSUME IInv, BalanceInv, ExecuteStep
    PROVE  BalanceInv'
<1> DEFINE i == Head(call.matches).idx
           q == Head(call.matches).qty
           c == call'
           b == book'
<1>1. ExecuteEffect(i, q)
  BY ExecuteStepEffect
<1>2. /\ call.pc = "execute" /\ call.matches # <<>> /\ call \in ExecuteFrame
      /\ call.matches \in Seq(FokMatch) /\ call.idx \in Idx
      /\ c = [call EXCEPT !.matches = Tail(call.matches), !.trades = c.trades]
  <2>1. call.pc = "execute" /\ call.matches # <<>> /\ call \in ExecuteFrame
    BY FrameByPc DEF IInv, StateOK, ExecuteStep
  <2>2. c = [call EXCEPT !.matches = Tail(call.matches), !.trades = c.trades]
    <3>1. PICK trades : c = [call EXCEPT !.matches = Tail(call.matches), !.trades = trades]
      BY DEF ExecuteStep
    <3> HIDE DEF c
    <3>2. c.trades = trades
      BY <2>1, <3>1 DEF ExecuteFrame
    <3> QED BY <3>1, <3>2
  <2> QED BY <2>1, <2>2 DEF ExecuteFrame
<1>3. /\ b.pool[call.idx].quantity = QtySub(Aggressor.quantity, q)
      /\ c.pc = "execute" /\ c.idx = call.idx /\ q \in Quantity
  BY <1>1 DEF ExecuteEffect
<1> HIDE DEF b, c
<1>4. c.matches = Tail(call.matches)
  BY <1>2 DEF ExecuteFrame
<1>5. Aggressor.quantity = MatchSum(call.matches)
  BY <1>2 DEF BalanceInv, Balance, Aggressor
<1>6. /\ Tail(call.matches) \in Seq(FokMatch)
      /\ MatchSum(call.matches) = q + MatchSum(Tail(call.matches))
  BY <1>2, MatchSumTail
<1> HIDE DEF q
<1>7. MatchSum(Tail(call.matches)) \in Nat
  BY <1>6, MatchAmounts
<1>8. Aggressor.quantity \in Quantity
  <2>1. book.pool \in [Idx -> PoolOrder]
    BY DEF IInv, StateOK, GoodBook, IsBook
  <2> QED BY <1>2, <2>1 DEF Aggressor, PoolOrder
<1>9. QtySub(Aggressor.quantity, q) = MatchSum(Tail(call.matches))
  <2>1. Quantity \subseteq Nat
    BY NumericAssumption DEF Quantity
  <2>2. q <= Aggressor.quantity
    BY <1>3, <1>5, <1>6, <1>7, <1>8, <2>1
  <2>3. QtySub(Aggressor.quantity, q) = Aggressor.quantity - q
    BY <1>3, <1>8, <2>2, FillDifference
  <2> QED BY <1>3, <1>5, <1>6, <1>7, <2>1, <2>3
<1>10. Balance(b, c)
  BY <1>3, <1>4, <1>9 DEF Balance
<1> QED BY <1>10 DEF BalanceInv, b, c

\* Every step keeps the balance.
LEMMA NextBalanced ==
    ASSUME IInv, BalanceInv, [Next]_vars
    PROVE  BalanceInv'
<1>1. CASE UNCHANGED vars
  BY <1>1 DEF vars, BalanceInv
<1>2. ASSUME call'.pc \notin {"collect", "execute"}
      PROVE  BalanceInv'
  BY <1>2 DEF BalanceInv, Balance
<1>3. CASE MatchStep
  <2>1. PICK bp, ap, x, y, q : MatchEffect(bp, ap, x, y, q)
    BY <1>3, MatchStepEffect
  <2>2. call'.pc = "match"
    BY <2>1 DEF MatchEffect
  <2> QED BY <1>2, <2>2
<1>4. ASSUME GoodBook(book, {}),
             NEW type \in OrderType, NEW id \in OrderId, NEW side \in Side, NEW price \in Price,
             NEW qty \in Quantity, Adding(type, id, side, price, qty)
      PROVE  BalanceInv'
  <2>1. CASE call'.pc = "collect"
    <3>1. /\ id \in OrderId \ DOMAIN book.orderMap /\ book.freeList # <<>>
          /\ StartFillOrKill(id, side, price, qty)
      BY <1>4, <2>1, AddOrderCases DEF Adding
    <3> QED BY <1>4, <3>1, ScanStartsBalanced
  <2>2. CASE call'.pc # "collect"
    <3>1. call'.pc \in {"idle", "match"}
      BY <1>4, <2>2, AddOrderCases DEF Adding
    <3> QED BY <1>2, <3>1
  <2> QED BY <2>1, <2>2
<1>5. CASE \/ \E id \in OrderId : CancelOrder(id)
           \/ CancelGoodForDayOrders \/ CancelNext \/ CancelAllEnd
           \/ \E rules \in RuleSets : SetExchangeRules(rules)
           \/ \E id \in OrderId, side \in Side, price \in LimitPrices, qty \in ModifyQuantities :
                 ModifyOrder(id, side, price, qty)
           \/ MatchEnd \/ Kill \/ ExecuteEnd
  BY <1>2, <1>5, PlainCall
<1> QED BY <1>1, <1>3, <1>4, <1>5, StepCases, ScanKeepsBalance, ReplayKeepsBalance

\* A FillOrKill order is executed for its whole quantity or not at all: the
\* replay of ExecuteFOK ends with nothing left of the order, and what CollectFOK
\* has added up is what the matches hold.
THEOREM FillOrKillComplete == Spec => []FillOrKillBalanced
<1>1. Init => BalanceInv
  BY DEF Init, BalanceInv, Balance, Idle
<1>2. IInv /\ BalanceInv /\ [Next]_vars => BalanceInv'
  BY NextBalanced
<1>3. IInv /\ BalanceInv => FillOrKillBalanced
  <2> SUFFICES ASSUME IInv, BalanceInv, call.pc \in {"collect", "execute"}
               PROVE  FillOrKillBalanced
    BY DEF FillOrKillBalanced
  <2>1. call.matches \in Seq(FokMatch)
    BY FrameByPc DEF IInv, StateOK, CollectFrame, ExecuteFrame
  <2>2. FoldSeq(LAMBDA m, sum : m.qty + sum, 0, call.matches) = MatchSum(call.matches)
    BY <2>1, MatchSumIsFold
  <2> QED BY <2>2, Zenon DEF FillOrKillBalanced, BalanceInv, Balance, Aggressor
<1> QED BY <1>1, <1>2, <1>3, Inductive, PTL DEF Spec

-----------------------------------------------------------------------------
(* The order of the queues.                                                 *)

\* f follows the links of b from the head of lvl, for n steps.
IsWalk(f, b, lvl, n) ==
    f = [m \in 1 .. n |->
            IF m = 1 THEN lvl.head
            ELSE IF f[m - 1] = NULL_IDX THEN NULL_IDX ELSE b.pool[f[m - 1]].next]

\* There is such a function.
LEMMA WalkExists ==
    ASSUME NEW b, NEW lvl, NEW n \in Nat
    PROVE  \E f : IsWalk(f, b, lvl, n)
<1> DEFINE T == {m \in Nat : ~ \E f : IsWalk(f, b, lvl, m)}
<1>1. SUFFICES ASSUME T # {} PROVE FALSE
  OBVIOUS
<1>2. PICK m \in T : \A k \in T : m <= k
  <2>1. T \subseteq Nat
    OBVIOUS
  <2> HIDE DEF T
  <2> QED BY <1>1, <2>1, NatMin
<1>3. m \in Nat /\ ~ \E f : IsWalk(f, b, lvl, m)
  BY <1>2
<1>4. m > 0 => \E f : IsWalk(f, b, lvl, m - 1)
  <2>1. m > 0 => m - 1 \in Nat /\ ~(m <= m - 1)
    BY <1>3
  <2> QED BY <1>2, <2>1
<1> HIDE DEF T
<1> DEFINE step(f, k) == IF k = 1 THEN lvl.head
                         ELSE IF f[k - 1] = NULL_IDX THEN NULL_IDX ELSE b.pool[f[k - 1]].next
<1>5. CASE m = 0
  <2> DEFINE f == [k \in 1 .. 0 |-> 0]
  <2>1. IsWalk(f, b, lvl, m)
    BY <1>5 DEF IsWalk
  <2> HIDE DEF f
  <2> QED BY <1>3, <2>1
<1>6. CASE m > 0
  <2>1. PICK f : IsWalk(f, b, lvl, m - 1)
    BY <1>4, <1>6
  <2>2. \A k \in 1 .. (m - 1) : f[k] = step(f, k)
    BY <2>1 DEF IsWalk
  <2> DEFINE g == [k \in 1 .. m |-> IF k < m THEN f[k] ELSE step(f, k)]
  <2>3. \A k \in 1 .. m : k > 1 => g[k - 1] = f[k - 1]
    BY <1>3
  <2>4. \A k \in 1 .. m : g[k] = step(f, k)
    BY <1>3, <2>2
  <2>5. \A k \in 1 .. m : step(f, k) = step(g, k)
    <3> HIDE DEF g
    <3> QED BY <1>3, <2>3
  <2>6. g = [k \in 1 .. m |-> g[k]]
    OBVIOUS
  <2> HIDE DEF g
  <2>7. g = [k \in 1 .. m |-> step(g, k)]
    <3>1. \A k \in 1 .. m : g[k] = step(g, k)
      BY <2>4, <2>5
    <3> HIDE DEF step
    <3> QED BY <2>6, <3>1
  <2>8. IsWalk(g, b, lvl, m)
    BY <2>7, Zenon DEF IsWalk
  <2> QED BY <1>3, <2>8
<1> QED BY <1>3, <1>5, <1>6

\* A queue is such a walk, with the ids of the slots.
LEMMA QueueIsWalk ==
    ASSUME NEW b, NEW lvl
    PROVE  \E f : /\ IsWalk(f, b, lvl, PoolSize)
                  /\ \A n \in 1 .. PoolSize :
                       Queue(b, lvl)[n] = IF f[n] = NULL_IDX THEN NoOrder
                                          ELSE b.pool[f[n]].orderId
<1> DEFINE f == CHOOSE slot : slot = [n \in 1 .. PoolSize |->
                    IF n = 1 THEN lvl.head
                    ELSE IF slot[n - 1] = NULL_IDX THEN NULL_IDX ELSE b.pool[slot[n - 1]].next]
<1>1. Queue(b, lvl) = [n \in 1 .. PoolSize |->
                         IF f[n] = NULL_IDX THEN NoOrder ELSE b.pool[f[n]].orderId]
  BY Zenon DEF Queue
<1>2. PoolSize \in Nat
  BY BookAssumption
<1>3. PICK g : IsWalk(g, b, lvl, PoolSize)
  BY <1>2, WalkExists
<1>4. f = [n \in 1 .. PoolSize |->
             IF n = 1 THEN lvl.head
             ELSE IF f[n - 1] = NULL_IDX THEN NULL_IDX ELSE b.pool[f[n - 1]].next]
  BY <1>3, Zenon DEF IsWalk
<1> HIDE DEF f
<1> QED BY <1>1, <1>4 DEF IsWalk

\* The walk of a level meets its members in the order of their arrival.
LEMMA WalkInOrder ==
    ASSUME NEW b, NEW reserved, GoodBook(b, reserved), NEW side \in Side,
           NEW p \in DOMAIN b.levels[side], NEW f, IsWalk(f, b, b.levels[side][p], PoolSize)
    PROVE  \A n \in 1 .. PoolSize : f[n] # NULL_IDX =>
             /\ f[n] \in Live(b)
             /\ \A m \in 1 .. PoolSize : m < n =>
                  f[m] \in Live(b) /\ <<f[m], f[n]>> \in b.older
<1> DEFINE Good(n) == f[n] # NULL_IDX =>
               /\ f[n] \in Members(b, side, p)
               /\ \A m \in 1 .. PoolSize : m < n =>
                    f[m] \in Members(b, side, p) /\ <<f[m], f[n]>> \in b.older
           T == {n \in 1 .. PoolSize : ~Good(n)}
<1>1. T = {}
  <2>1. SUFFICES ASSUME T # {} PROVE FALSE
    OBVIOUS
  <2>2. PICK n \in T : \A k \in T : n <= k
    <3>1. T \subseteq Nat
      OBVIOUS
    <3> HIDE DEF T
    <3> QED BY <2>1, <3>1, NatMin
  <2>3. n \in 1 .. PoolSize /\ ~Good(n) /\ PoolSize \in Nat
    BY <2>2, BookAssumption
  <2>4. n > 1 => n - 1 \in 1 .. PoolSize /\ Good(n - 1)
    BY <2>2, <2>3
  <2>5. f[n] = IF n = 1 THEN b.levels[side][p].head
               ELSE IF f[n - 1] = NULL_IDX THEN NULL_IDX ELSE b.pool[f[n - 1]].next
    BY <2>3 DEF IsWalk
  <2>6. b.levels[side][p].head \in Members(b, side, p)
    BY DEF GoodBook, EndsLinked
  <2>7. CASE n = 1
    BY <2>3, <2>5, <2>6, <2>7
  <2>8. CASE n > 1 /\ f[n] # NULL_IDX
    <3> DEFINE i == f[n - 1]
    <3>1. /\ i # NULL_IDX /\ f[n] = b.pool[i].next /\ n - 1 \in 1 .. PoolSize
      BY <2>4, <2>5, <2>8
    <3>2. /\ i \in Members(b, side, p)
          /\ \A m \in 1 .. PoolSize : m < n - 1 =>
               f[m] \in Members(b, side, p) /\ <<f[m], i>> \in b.older
      BY <2>4, <2>8, <3>1
    <3> HIDE DEF i
    <3>3. i \in Live(b) /\ b.pool[i].side = side /\ b.pool[i].price = p
      BY <3>2 DEF Members
    <3>4. f[n] \in Live(b) /\ SameLevel(b, i, f[n]) /\ <<i, f[n]>> \in b.older
      BY <2>8, <3>1, <3>3 DEF GoodBook, NeighboursLinked, LinkedInOrder
    <3>5. f[n] \in Members(b, side, p)
      BY <3>3, <3>4 DEF Members, SameLevel
    <3>6. ASSUME NEW m \in 1 .. PoolSize, m < n
          PROVE  f[m] \in Members(b, side, p) /\ <<f[m], f[n]>> \in b.older
      <4>1. CASE m = n - 1
        BY <3>2, <3>4, <4>1 DEF i
      <4>2. CASE m < n - 1
        <5>1. f[m] \in Members(b, side, p) /\ <<f[m], i>> \in b.older
          BY <3>2, <4>2
        <5>2. f[m] \in Live(b)
          BY <5>1 DEF Members
        <5> QED BY <3>3, <3>4, <5>1, <5>2 DEF GoodBook, Ordered
      <4>3. m = n - 1 \/ m < n - 1
        BY <2>3, <3>6
      <4> QED BY <4>1, <4>2, <4>3
    <3> QED BY <2>3, <3>5, <3>6
  <2>9. n = 1 \/ n > 1
    BY <2>3
  <2> QED BY <2>3, <2>7, <2>8, <2>9
<1>2. \A n \in 1 .. PoolSize : Good(n)
  <2> HIDE DEF Good
  <2> QED BY <1>1
<1> QED BY <1>2 DEF Members

\* What a queue holds, in terms of slots: a resting order at every place up to
\* the end, each before the next.
LEMMA QueueInOrder ==
    ASSUME NEW b, NEW reserved, GoodBook(b, reserved), NEW side \in Side,
           NEW p \in DOMAIN b.levels[side], NEW q, q = Queue(b, b.levels[side][p])
    PROVE  /\ \A n \in 1 .. PoolSize : q[n] # NoOrder =>
                q[n] \in DOMAIN b.orderMap /\ b.orderMap[q[n]] \in Live(b)
           /\ \A m, n \in 1 .. PoolSize : m < n /\ q[n] # NoOrder =>
                q[m] # NoOrder /\ <<b.orderMap[q[m]], b.orderMap[q[n]]>> \in b.older
<1>1. PICK f : /\ IsWalk(f, b, b.levels[side][p], PoolSize)
               /\ \A n \in 1 .. PoolSize :
                    q[n] = IF f[n] = NULL_IDX THEN NoOrder ELSE b.pool[f[n]].orderId
  BY QueueIsWalk
<1>2. \A n \in 1 .. PoolSize : f[n] # NULL_IDX =>
             /\ f[n] \in Live(b)
             /\ \A m \in 1 .. PoolSize : m < n =>
                  f[m] \in Live(b) /\ <<f[m], f[n]>> \in b.older
  BY <1>1, WalkInOrder
<1>3. \A i \in Live(b) : /\ i # NULL_IDX
                         /\ b.pool[i].orderId \in DOMAIN b.orderMap
                         /\ b.orderMap[b.pool[i].orderId] = i
                         /\ b.pool[i].orderId # NoOrder
  BY LiveSlot, BookAssumption DEF Idx, NULL_IDX
<1>4. \A n \in 1 .. PoolSize : f[n] \in Live(b) =>
        /\ q[n] # NoOrder /\ q[n] \in DOMAIN b.orderMap /\ b.orderMap[q[n]] = f[n]
  BY <1>1, <1>3
<1>5. \A n \in 1 .. PoolSize : q[n] # NoOrder => f[n] # NULL_IDX
  BY <1>1
<1> QED BY <1>2, <1>4, <1>5

\* Two ids at rest before and after a step keep their slots and their order.
KeepsOrder(b, u) ==
    \A x, y \in DOMAIN b.orderMap \cap DOMAIN u.orderMap :
        /\ u.orderMap[x] = b.orderMap[x]
        /\ <<b.orderMap[x], b.orderMap[y]>> \in b.older =>
               <<b.orderMap[x], b.orderMap[y]>> \in u.older

\* Orders that leave keep the others in order.
LEMMA ShrunkKeepsOrder ==
    ASSUME NEW b, NEW u, NEW gone, Shrunk(b, u, gone)
    PROVE  KeepsOrder(b, u)
BY DEF Shrunk, KeepsOrder, Live

\* So does one that comes.
LEMMA GrownKeepsOrder ==
    ASSUME NEW b, NEW u, NEW i, Grown(b, u, i)
    PROVE  KeepsOrder(b, u)
BY DEF Grown, KeepsOrder

\* No step changes the order of two orders that stay.
LEMMA NextKeepsOrder ==
    ASSUME IInv, [Next]_vars
    PROVE  KeepsOrder(book, book')
<1>1. ASSUME book'.orderMap = book.orderMap, book'.older = book.older
      PROVE  KeepsOrder(book, book')
  BY <1>1 DEF KeepsOrder
<1>2. CASE \/ UNCHANGED vars
           \/ CancelGoodForDayOrders \/ CancelAllEnd
           \/ \E rules \in RuleSets : SetExchangeRules(rules)
           \/ CollectLevel \/ CollectOrder \/ CollectEnd
  BY <1>1, <1>2 DEF vars, CancelGoodForDayOrders, CancelAllEnd, SetExchangeRules,
                    CollectLevel, CollectOrder, CollectEnd
<1>3. CASE Kill \/ ExecuteEnd
  BY <1>1, <1>3 DEF Kill, ExecuteEnd, Free
<1>4. ASSUME call.pc \notin {"collect", "execute"}, NEW id, book' = CancelledBook(book, id)
      PROVE  KeepsOrder(book, book')
  <2>1. GoodBook(book, {})
    BY <1>4, PlainState DEF IInv
  <2>2. \E gone : Shrunk(book, CancelledBook(book, id), gone)
    BY <2>1, CancelShrinks
  <2> QED BY <1>4, <2>2, ShrunkKeepsOrder
<1>5. call = Idle => call.pc = "idle"
  BY DEF Idle
<1>6. CASE (\E id \in OrderId : CancelOrder(id)) \/ CancelNext \/ MatchEnd
  BY <1>4, <1>5, <1>6 DEF CancelOrder, CancelNext, MatchEnd
<1>7. ASSUME NEW id \in OrderId, NEW side \in Side, NEW price \in LimitPrices,
             NEW qty \in ModifyQuantities, ModifyOrder(id, side, price, qty)
      PROVE  KeepsOrder(book, book')
  <2>1. /\ call.pc = "idle"
        /\ \/ book' = book
           \/ book' = CancelledBook(book, id)
           \/ ModifyQuantity(book.orderMap[id], qty)
    BY <1>5, <1>7 DEF ModifyOrder
  <2>2. CASE ModifyQuantity(book.orderMap[id], qty)
    BY <1>1, <2>2 DEF ModifyQuantity, SetQuantity
  <2> QED BY <1>1, <1>4, <2>1, <2>2
<1>8. ASSUME GoodBook(book, {}),
             NEW type \in OrderType, NEW id \in OrderId, NEW side \in Side, NEW price \in Price,
             NEW qty \in Quantity, Adding(type, id, side, price, qty)
      PROVE  KeepsOrder(book, book')
  <2>1. CASE book' = book
    BY <1>1, <2>1
  <2>2. CASE StartFillOrKill(id, side, price, qty)
    BY <1>1, <2>2 DEF StartFillOrKill, Alloc
  <2>3. CASE /\ id \notin DOMAIN book.orderMap /\ book.freeList # <<>>
             /\ LimitType(type) \in OrderType /\ LimitPrice(type, side, price) \in Price
             /\ StartMatching(LimitType(type), id, side, LimitPrice(type, side, price), qty)
    <3> DEFINE kind == LimitType(type)  limit == LimitPrice(type, side, price)
    <3>1. kind \in OrderType /\ limit \in Price /\ id \in OrderId \ DOMAIN book.orderMap
      BY <2>3
    <3>2. book' = InsertIntoBook(Alloc(book, kind, id, side, limit, qty), AllocIdx(book))
      BY <2>3 DEF StartMatching
    <3> HIDE DEF kind, limit
    <3>3. Grown(book, book', AllocIdx(book))
      BY <1>8, <2>3, <3>1, <3>2, AddGrows
    <3> QED BY <3>3, GrownKeepsOrder
  <2>4. AddOrderBody(type, id, side, price, qty)
    BY <1>8 DEF Adding
  <2> QED BY <1>8, <2>1, <2>2, <2>3, <2>4, AddOrderCases
<1>9. CASE MatchStep
  <2>1. PICK bp, ap, x, y, q : MatchEffect(bp, ap, x, y, q)
    BY <1>9, MatchStepEffect
  <2>2. \E gone : Shrunk(book, book', gone)
    BY <2>1 DEF MatchEffect
  <2> QED BY <2>2, ShrunkKeepsOrder
<1>10. CASE ExecuteStep
  <2>1. ExecuteEffect(Head(call.matches).idx, Head(call.matches).qty)
    BY <1>10, ExecuteStepEffect
  <2>2. \E gone : Shrunk(book, book', gone)
    BY <2>1 DEF ExecuteEffect
  <2> QED BY <2>2, ShrunkKeepsOrder
<1> QED BY <1>2, <1>3, <1>6, <1>7, <1>8, <1>9, <1>10, StepCases

\* No order overtakes another in its queue, whatever is filled, cancelled,
\* modified or added meanwhile: two ids that are in one list before and after a
\* step are in the same order there ("preserve time priority", Orderbook.h 442).
THEOREM QueuesKeepOrder == Spec => NoOvertaking
<1>1. ASSUME IInv, IInv', [Next]_vars,
             NEW side \in Side, NEW price \in DOMAIN book.levels[side] \cap DOMAIN book'.levels[side],
             NEW before, before = Queue(book, book.levels[side][price]),
             NEW after, after = Queue(book', book'.levels[side][price]),
             NEW m \in 1 .. PoolSize, NEW n \in 1 .. PoolSize,
             NEW k \in 1 .. PoolSize, NEW l \in 1 .. PoolSize,
             m < n, before[n] # NoOrder, after[k] = before[m], after[l] = before[n]
      PROVE  k < l
  <2>1. GoodBook(book, Reserved(call)) /\ GoodBook(book', Reserved(call'))
    BY <1>1 DEF IInv, StateOK
  <2> DEFINE x == before[m]  y == before[n]
  <2>2. /\ x # NoOrder /\ x \in DOMAIN book.orderMap /\ y \in DOMAIN book.orderMap
        /\ <<book.orderMap[x], book.orderMap[y]>> \in book.older
    BY <1>1, <2>1, QueueInOrder
  <2>3. /\ x \in DOMAIN book'.orderMap /\ y \in DOMAIN book'.orderMap
        /\ book'.orderMap[x] \in Live(book') /\ book'.orderMap[y] \in Live(book')
        /\ l < k => <<book'.orderMap[y], book'.orderMap[x]>> \in book'.older
    BY <1>1, <2>1, <2>2, QueueInOrder
  <2>4. <<book'.orderMap[x], book'.orderMap[y]>> \in book'.older
    BY <1>1, <2>2, <2>3, NextKeepsOrder DEF KeepsOrder
  <2>5. book'.orderMap[x] # book'.orderMap[y] /\ ~(l < k)
    BY <2>1, <2>3, <2>4, OlderInLevel
  <2>6. k # l
    BY <1>1, <2>5
  <2> QED BY <2>5, <2>6
<1>2. IInv /\ IInv' /\ [Next]_vars =>
        [\A side \in Side :
         \A price \in DOMAIN book.levels[side] \cap DOMAIN book'.levels[side] :
           LET before == Queue(book, book.levels[side][price])
               after  == Queue(book', book'.levels[side][price])
           IN  before # after =>
               \A m, n, k, l \in 1 .. PoolSize :
                   /\ m < n /\ before[n] # NoOrder
                   /\ after[k] = before[m] /\ after[l] = before[n]
                   => k < l]_vars
  BY <1>1
<1> QED BY <1>2, Inductive, PTL DEF Spec, NoOvertaking

=============================================================================
