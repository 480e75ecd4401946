------------------------- MODULE QueryEngineProofs -------------------------
(***************************************************************************)
(* What the query engine answers is right for every store, query, agent    *)
(* and limit: the stack fits the tree of the query (EngineTypeCorrect), a  *)
(* metrics query finds what its selectors want (SelectionIsWhatIsWanted),  *)
(* functions stay within their bounds (FunctionBounds) and a sum by labels *)
(* adds up each group (GroupSums).                                         *)
(*                                                                         *)
(* The loops of the code are recursive functions in the model. That such a *)
(* function exists, and what it has computed after each turn, is proved by *)
(* taking the least turn at which it would be wrong (Least).               *)
(***************************************************************************)
EXTENDS QueryEngine, FiniteSetTheorems, WellFoundedInduction, TLAPS

(* A nonempty set of numbers has a least one (the induction of this module). *)
LEMMA Least ==
  ASSUME NEW T \in SUBSET Nat, T # {}
  PROVE  \E x \in T : \A y \in T : x <= y
<1>1. PICK x \in T : \A y \in T : ~ (<<y, x>> \in OpToRel(<, Nat))
  BY WFMin, NatLessThanWellFounded
<1>2. \A y \in T : ~(y < x)
  BY <1>1 DEF OpToRel
<1> QED BY <1>2

IsSequence(s) == \E S : s \in Seq(S)

LEMMA SequenceFacts ==
  ASSUME NEW s, IsSequence(s)
  PROVE  /\ Len(s) \in Nat /\ DOMAIN s = 1..Len(s) /\ s = [k \in 1..Len(s) |-> s[k]]
         /\ s = <<>> <=> Len(s) = 0
BY DEF IsSequence

LEMMA FunctionIsSequence ==
  ASSUME NEW f, NEW n \in Nat, f = [k \in 1..n |-> f[k]]
  PROVE  IsSequence(f) /\ Len(f) = n /\ DOMAIN f = 1..n
<1> DEFINE S == {f[k] : k \in 1..n}
<1>1. f \in [1..n -> S]
  OBVIOUS
<1>2. f \in Seq(S)
  BY <1>1
<1>3. Len(f) = n /\ DOMAIN f = 1..n
  BY <1>1
<1> QED BY <1>2, <1>3 DEF IsSequence

LEMMA AppendIsSequence ==
  ASSUME NEW s, IsSequence(s), NEW x
  PROVE  /\ IsSequence(Append(s, x)) /\ Len(Append(s, x)) = Len(s) + 1
         /\ Append(s, x)[Len(s) + 1] = x
         /\ \A k \in 1..Len(s) : Append(s, x)[k] = s[k]
<1>1. PICK S : s \in Seq(S)
  BY DEF IsSequence
<1> DEFINE U == S \cup {x}
<1>2. s \in Seq(U) /\ x \in U
  BY <1>1
<1>3. /\ Append(s, x) \in Seq(U) /\ Len(Append(s, x)) = Len(s) + 1
      /\ Append(s, x)[Len(s) + 1] = x
      /\ \A k \in 1..Len(s) : Append(s, x)[k] = s[k]
  <2> HIDE DEF U
  <2> QED BY <1>2
<1> QED BY <1>3 DEF IsSequence

LEMMA EmptyIsSequence == IsSequence(<<>>) /\ Len(<<>>) = 0
<1>1. <<>> \in Seq({})
  OBVIOUS
<1> QED BY <1>1 DEF IsSequence

-----------------------------------------------------------------------------
(* Loops. What a loop has kept after i turns is made of the elements of s   *)
(* at the positions up to i, in their order.                                *)

KeptAfter(s, positions, kept, i) ==
  IF i = 0 THEN <<>>
  ELSE IF i \in positions THEN Append(kept[i - 1], s[i])
  ELSE kept[i - 1]

LEMMA KeptExists ==
  ASSUME NEW s, NEW positions, NEW n \in Nat
  PROVE  \E kept : kept = [i \in 0..n |-> KeptAfter(s, positions, kept, i)]
<1> DEFINE Kept(m) == \E kept : kept = [i \in 0..m |-> KeptAfter(s, positions, kept, i)]
           Bad == {m \in Nat : ~Kept(m)}
<1>1. SUFFICES Bad = {}
  OBVIOUS
<1>2. SUFFICES ASSUME Bad # {} PROVE FALSE
  OBVIOUS
<1>3. Bad \in SUBSET Nat
  OBVIOUS
<1> HIDE DEF Bad
<1>4. PICK m \in Bad : \A y \in Bad : m <= y
  BY <1>2, <1>3, Least
<1>5. m \in Nat /\ ~Kept(m)
  BY <1>4 DEF Bad
<1>6. CASE m = 0
  <2> DEFINE kept == [i \in 0..0 |-> <<>>]
  <2>1. kept = [i \in 0..0 |-> KeptAfter(s, positions, kept, i)]
    <3>1. \A i \in 0..0 : i = 0
      OBVIOUS
    <3> HIDE DEF kept
    <3>2. \A i \in 0..0 : KeptAfter(s, positions, kept, i) = <<>>
      BY <3>1 DEF KeptAfter
    <3> QED BY <3>2 DEF kept
  <2> QED BY <1>5, <1>6, <2>1
<1>7. CASE m # 0
  <2>1. m - 1 \in Nat /\ ~(m <= m - 1)
    BY <1>5, <1>7
  <2>2. Kept(m - 1)
    BY <1>4, <2>1 DEF Bad
  <2>3. PICK less : less = [i \in 0..(m - 1) |-> KeptAfter(s, positions, less, i)]
    BY <2>2
  <2> DEFINE top == KeptAfter(s, positions, less, m)
             kept == [i \in 0..m |-> IF i = m THEN top ELSE less[i]]
  <2>4. ASSUME NEW i \in 0..m
        PROVE  kept[i] = KeptAfter(s, positions, kept, i)
    <3>1. kept[i] = IF i = m THEN top ELSE less[i]
      OBVIOUS
    <3>2. i # 0 => kept[i - 1] = less[i - 1]
      <4>1. i # 0 => i - 1 \in 0..m /\ i - 1 # m
        BY <1>5
      <4> HIDE DEF top
      <4> QED BY <4>1
    <3> HIDE DEF kept
    <3>3. KeptAfter(s, positions, kept, i) = KeptAfter(s, positions, less, i)
      BY <3>2 DEF KeptAfter
    <3>4. i # m => less[i] = KeptAfter(s, positions, less, i)
      <4>1. i # m => i \in 0..(m - 1)
        BY <1>5
      <4> QED BY <2>3, <4>1
    <3> QED BY <3>1, <3>3, <3>4
  <2>5. kept = [i \in 0..m |-> kept[i]]
    OBVIOUS
  <2> HIDE DEF kept
  <2>6. kept = [i \in 0..m |-> KeptAfter(s, positions, kept, i)]
    BY <2>4, <2>5
  <2> QED BY <1>5, <2>6
<1> QED BY <1>6, <1>7

(* the elements kept are those at `at', which goes through the positions   *)
PicksAt(s, positions, i, picked, at) ==
  /\ at \in [1..Len(picked) -> positions \cap (1..i)]
  /\ \A k \in 1..Len(picked) : picked[k] = s[at[k]]
  /\ \A k, l \in 1..Len(picked) : k < l => at[k] < at[l]
  /\ \A p \in positions \cap (1..i) : \E k \in 1..Len(picked) : at[k] = p

Picks(s, positions, i, picked) ==
  IsSequence(picked) /\ \E at : PicksAt(s, positions, i, picked, at)

LEMMA PickOneMore ==
  ASSUME NEW s, NEW positions, NEW i, i \in Nat \ {0}, NEW before, Picks(s, positions, i - 1, before)
  PROVE  Picks(s, positions, i, IF i \in positions THEN Append(before, s[i]) ELSE before)
<1>1. PICK at : PicksAt(s, positions, i - 1, before, at)
  BY DEF Picks
<1>2. IsSequence(before) /\ Len(before) \in Nat
  BY SequenceFacts DEF Picks
<1>3. positions \cap (1..(i - 1)) \subseteq positions \cap (1..i)
  OBVIOUS
<1> DEFINE m == Len(before)
<1>4. CASE i \in positions
  <2> DEFINE all == Append(before, s[i])
             to == [k \in 1..(m + 1) |-> IF k = m + 1 THEN i ELSE at[k]]
  <2>1. /\ IsSequence(all) /\ Len(all) = m + 1 /\ all[m + 1] = s[i]
        /\ \A k \in 1..m : all[k] = before[k]
    BY <1>2, AppendIsSequence
  <2> HIDE DEF all
  <2>2. to[m + 1] = i /\ \A k \in 1..m : to[k] = at[k]
    BY <1>2
  <2>3. to = [k \in 1..(m + 1) |-> to[k]]
    OBVIOUS
  <2> HIDE DEF to
  <2>4. \A k \in 1..(m + 1) : k \in 1..m \/ k = m + 1
    BY <1>2
  <2>5. \A k \in 1..m : at[k] \in positions \cap (1..(i - 1))
    BY <1>1 DEF PicksAt
  <2>6. \A k \in 1..(m + 1) : to[k] \in positions \cap (1..i)
    BY <1>3, <1>4, <2>2, <2>4, <2>5
  <2>7. to \in [1..(m + 1) -> positions \cap (1..i)]
    BY <2>3, <2>6
  <2>8. \A k \in 1..(m + 1) : all[k] = s[to[k]]
    BY <1>1, <2>1, <2>2, <2>4 DEF PicksAt
  <2>9. ASSUME NEW k \in 1..(m + 1), NEW l \in 1..(m + 1), k < l
        PROVE  to[k] < to[l]
    <3>1. k \in 1..m
      BY <2>9, <1>2
    <3>2. CASE l \in 1..m
      BY <1>1, <2>2, <2>9, <3>1, <3>2 DEF PicksAt
    <3>3. CASE l = m + 1
      <4>1. at[k] \in 1..(i - 1)
        BY <2>5, <3>1
      <4> QED BY <2>2, <3>1, <3>3, <4>1
    <3> QED BY <2>4, <3>2, <3>3
  <2>10. ASSUME NEW p \in positions \cap (1..i)
         PROVE  \E k \in 1..(m + 1) : to[k] = p
    <3>1. CASE p = i
      <4>1. m + 1 \in 1..(m + 1)
        BY <1>2
      <4> QED BY <2>2, <3>1, <4>1
    <3>2. CASE p # i
      <4>1. p \in positions \cap (1..(i - 1))
        BY <3>2
      <4>2. PICK k \in 1..m : at[k] = p
        BY <1>1, <4>1 DEF PicksAt
      <4>3. k \in 1..(m + 1)
        BY <1>2
      <4> QED BY <2>2, <4>2, <4>3
    <3> QED BY <3>1, <3>2
  <2>11. PicksAt(s, positions, i, all, to)
    BY <2>1, <2>7, <2>8, <2>9, <2>10 DEF PicksAt
  <2> QED BY <1>4, <2>1, <2>11 DEF Picks, all
<1>5. CASE i \notin positions
  <2>1. positions \cap (1..i) = positions \cap (1..(i - 1))
    <3>1. \A p \in 1..i : p = i \/ p \in 1..(i - 1)
      OBVIOUS
    <3> QED BY <1>3, <1>5, <3>1
  <2>2. PicksAt(s, positions, i, before, at)
    BY <1>1, <2>1 DEF PicksAt
  <2> QED BY <1>2, <1>5, <2>2 DEF Picks
<1> QED BY <1>4, <1>5

LEMMA KeepFacts ==
  ASSUME NEW s, IsSequence(s), NEW positions
  PROVE  Picks(s, positions, Len(s), Keep(s, positions))
<1> DEFINE n == Len(s)
           All(h) == [i \in 0..Len(s) |-> IF i = 0 THEN <<>>
                                          ELSE IF i \in positions THEN Append(h[i - 1], s[i])
                                          ELSE h[i - 1]]
           c == CHOOSE h : h = All(h)
<1>1. n \in Nat
  BY SequenceFacts
<1>2. Keep(s, positions) = c[n]
  BY DEF Keep
<1>3. \E h : h = All(h)
  <2>1. PICK h : h = [i \in 0..Len(s) |-> KeptAfter(s, positions, h, i)]
    BY <1>1, KeptExists
  <2>2. h = All(h)
    BY <2>1 DEF KeptAfter
  <2> QED BY <2>2
<1> HIDE DEF All
<1>4. c = All(c)
  BY <1>3
<1> HIDE DEF c
<1> USE DEF All
<1> DEFINE Bad == {i \in Nat : i <= n /\ ~Picks(s, positions, i, c[i])}
<1> HIDE DEF n
<1>5. SUFFICES ASSUME Bad # {} PROVE FALSE
  <2>1. ASSUME Bad = {} PROVE Picks(s, positions, n, c[n])
    <3>1. n \notin Bad
      BY <2>1
    <3> QED BY <1>1, <3>1
  <2> QED BY <1>1, <1>2, <2>1 DEF n
<1>6. Bad \in SUBSET Nat
  OBVIOUS
<1> HIDE DEF Bad
<1>7. PICK i \in Bad : \A y \in Bad : i <= y
  BY <1>5, <1>6, Least
<1>8. i \in Nat /\ i \in 0..n /\ ~Picks(s, positions, i, c[i])
  BY <1>1, <1>7 DEF Bad
<1>9. CASE i = 0
  <2>1. c[i] = <<>>
    BY <1>4, <1>8, <1>9
  <2>2. PicksAt(s, positions, 0, <<>>, <<>>)
    <3>1. 1..0 = {} /\ Len(<<>>) = 0
      OBVIOUS
    <3>2. <<>> \in [1..Len(<<>>) -> positions \cap (1..0)]
      BY <3>1
    <3>3. \A k \in 1..Len(<<>>) : FALSE
      BY <3>1
    <3>4. \A p \in positions \cap (1..0) : FALSE
      BY <3>1
    <3> QED BY <3>2, <3>3, <3>4 DEF PicksAt
  <2> QED BY <1>8, <1>9, <2>1, <2>2, EmptyIsSequence DEF Picks
<1>10. CASE i # 0
  <2>1. i - 1 \in Nat /\ i - 1 <= n /\ ~(i <= i - 1)
    BY <1>1, <1>8, <1>10
  <2>2. Picks(s, positions, i - 1, c[i - 1])
    BY <1>7, <2>1 DEF Bad
  <2>3. Picks(s, positions, i, IF i \in positions THEN Append(c[i - 1], s[i]) ELSE c[i - 1])
    BY <1>8, <1>10, <2>2, PickOneMore
  <2>4. c[i] = IF i \in positions THEN Append(c[i - 1], s[i]) ELSE c[i - 1]
    BY <1>4, <1>8, <1>10 DEF n
  <2> QED BY <1>8, <2>3, <2>4
<1> QED BY <1>9, <1>10

-----------------------------------------------------------------------------
(* Fractions.                                                               *)

Fractions == [n : Int, d : Nat]
IsFraction(v) == v \in Fractions /\ v.d # 0

LEMMA NatTimes ==
  ASSUME NEW a \in Nat, NEW b \in Nat
  PROVE  a * b \in Nat /\ (a # 0 /\ b # 0 => a * b # 0)
OBVIOUS

LEMMA PlusTyped ==
  ASSUME NEW v \in Fractions, NEW w \in Fractions
  PROVE  Plus(v, w) \in Fractions /\ Minus(v, w) \in Fractions
         /\ (v.d # 0 /\ w.d # 0 => Plus(v, w).d # 0)
<1>1. v.d * w.d \in Nat /\ (v.d # 0 /\ w.d # 0 => v.d * w.d # 0)
  BY NatTimes DEF Fractions
<1>2. v.n * w.d + w.n * v.d \in Int /\ v.n * w.d - w.n * v.d \in Int
  BY DEF Fractions
<1> QED BY <1>1, <1>2 DEF Plus, Minus, Fractions

LEMMA OverTyped ==
  ASSUME NEW v \in Fractions, NEW k \in Nat
  PROVE  Over(v, k) \in Fractions /\ Times(v, k) \in Fractions
         /\ Times(v, k).d = v.d
         /\ (v.d # 0 /\ k # 0 => Over(v, k).d # 0)
<1>1. v.d * k \in Nat /\ (v.d # 0 /\ k # 0 => v.d * k # 0) /\ v.n * k \in Int
  BY NatTimes DEF Fractions
<1> QED BY <1>1 DEF Over, Times, Fractions

LEMMA NumberTyped ==
  ASSUME NEW k \in Int
  PROVE  Number(k) \in Fractions /\ Number(k).d # 0 /\ Text \in Fractions
BY DEF Number, Text, Fractions

-----------------------------------------------------------------------------
(* Sums, turn by turn.                                                      *)

SumAfter(vs, sum, i) == IF i = 0 THEN Number(0) ELSE Plus(sum[i - 1], vs[i])

LEMMA SumExists ==
  ASSUME NEW vs, NEW n \in Nat
  PROVE  \E h : h = [i \in 0..n |-> SumAfter(vs, h, i)]
<1> DEFINE Upto(m) == \E h : h = [i \in 0..m |-> SumAfter(vs, h, i)]
           Bad == {m \in Nat : ~Upto(m)}
<1>1. SUFFICES Bad = {}
  OBVIOUS
<1>2. SUFFICES ASSUME Bad # {} PROVE FALSE
  OBVIOUS
<1>3. Bad \in SUBSET Nat
  OBVIOUS
<1> HIDE DEF Bad
<1>4. PICK m \in Bad : \A y \in Bad : m <= y
  BY <1>2, <1>3, Least
<1>5. m \in Nat /\ ~Upto(m)
  BY <1>4 DEF Bad
<1>6. CASE m = 0
  <2> DEFINE h == [i \in 0..0 |-> SumAfter(vs, <<>>, 0)]
  <2>1. \A i \in 0..0 : i = 0
    OBVIOUS
  <2>2. h = [i \in 0..0 |-> h[i]] /\ h[0] = SumAfter(vs, <<>>, 0)
    OBVIOUS
  <2> HIDE DEF h
  <2>3. SumAfter(vs, h, 0) = SumAfter(vs, <<>>, 0)
    BY DEF SumAfter
  <2>4. h = [i \in 0..0 |-> SumAfter(vs, h, i)]
    BY <2>1, <2>2, <2>3
  <2> QED BY <1>5, <1>6, <2>4
<1>7. CASE m # 0
  <2>1. m - 1 \in Nat /\ ~(m <= m - 1)
    BY <1>5, <1>7
  <2>2. Upto(m - 1)
    BY <1>4, <2>1 DEF Bad
  <2>3. PICK less : less = [i \in 0..(m - 1) |-> SumAfter(vs, less, i)]
    BY <2>2
  <2> DEFINE top == SumAfter(vs, less, m)
             h == [i \in 0..m |-> IF i = m THEN top ELSE less[i]]
  <2>4. ASSUME NEW i \in 0..m
        PROVE  h[i] = SumAfter(vs, h, i)
    <3>1. h[i] = IF i = m THEN top ELSE less[i]
      OBVIOUS
    <3>2. i # 0 => h[i - 1] = less[i - 1]
      <4>1. i # 0 => i - 1 \in 0..m /\ i - 1 # m
        BY <1>5
      <4> HIDE DEF top
      <4> QED BY <4>1
    <3> HIDE DEF h
    <3>3. SumAfter(vs, h, i) = SumAfter(vs, less, i)
      BY <3>2 DEF SumAfter
    <3>4. i # m => less[i] = SumAfter(vs, less, i)
      <4>1. i # m => i \in 0..(m - 1)
        BY <1>5
      <4> QED BY <2>3, <4>1
    <3> QED BY <3>1, <3>3, <3>4
  <2>5. h = [i \in 0..m |-> h[i]]
    OBVIOUS
  <2> HIDE DEF h
  <2>6. h = [i \in 0..m |-> SumAfter(vs, h, i)]
    BY <2>4, <2>5
  <2> QED BY <1>5, <2>6
<1> QED BY <1>6, <1>7

Sums(vs, sum) ==
  sum[0] = Number(0) /\ \A k \in 1..Len(vs) : sum[k] = Plus(sum[k - 1], vs[k])

LEMMA TotalIs ==
  ASSUME NEW vs, Len(vs) \in Nat
  PROVE  \E sum : Sums(vs, sum) /\ Total(vs) = sum[Len(vs)]
<1> DEFINE All(h) == [i \in 0..Len(vs) |-> IF i = 0 THEN Number(0) ELSE Plus(h[i - 1], vs[i])]
           c == CHOOSE h : h = All(h)
<1>1. Total(vs) = c[Len(vs)]
  BY DEF Total
<1>2. \E h : h = All(h)
  <2>1. PICK h : h = [i \in 0..Len(vs) |-> SumAfter(vs, h, i)]
    BY SumExists
  <2>2. h = All(h)
    BY <2>1 DEF SumAfter
  <2> QED BY <2>2
<1> HIDE DEF All
<1>3. c = All(c)
  BY <1>2
<1> HIDE DEF c
<1>4. c[0] = Number(0)
  BY <1>3 DEF All
<1>5. ASSUME NEW k \in 1..Len(vs) PROVE c[k] = Plus(c[k - 1], vs[k])
  <2>1. k \in 0..Len(vs) /\ k # 0
    OBVIOUS
  <2> QED BY <1>3, <2>1 DEF All
<1> QED BY <1>1, <1>4, <1>5 DEF Sums

LEMMA SumsTyped ==
  ASSUME NEW vs, Len(vs) \in Nat, \A k \in 1..Len(vs) : vs[k] \in Fractions,
         NEW sum, Sums(vs, sum)
  PROVE  \A k \in 0..Len(vs) :
           sum[k] \in Fractions /\ ((\A i \in 1..Len(vs) : vs[i].d # 0) => sum[k].d # 0)
<1> DEFINE Fine(k) == sum[k] \in Fractions /\ ((\A i \in 1..Len(vs) : vs[i].d # 0) => sum[k].d # 0)
           Bad == {k \in Nat : k <= Len(vs) /\ ~Fine(k)}
<1>1. ASSUME Bad # {} PROVE FALSE
  <2>1. Bad \in SUBSET Nat
    OBVIOUS
  <2> HIDE DEF Bad
  <2>2. PICK k \in Bad : \A y \in Bad : k <= y
    BY <1>1, <2>1, Least
  <2>3. k \in Nat /\ k <= Len(vs) /\ ~Fine(k)
    BY <2>2 DEF Bad
  <2>4. CASE k = 0
    BY <2>3, <2>4, NumberTyped DEF Sums
  <2>5. CASE k # 0
    <3>1. k - 1 \in Nat /\ k - 1 <= Len(vs) /\ ~(k <= k - 1) /\ k \in 1..Len(vs)
      BY <2>3, <2>5
    <3>2. Fine(k - 1)
      BY <2>2, <3>1 DEF Bad
    <3>3. sum[k] = Plus(sum[k - 1], vs[k]) /\ vs[k] \in Fractions
      BY <3>1 DEF Sums
    <3> QED BY <2>3, <3>1, <3>2, <3>3, PlusTyped
  <2> QED BY <2>4, <2>5
<1>2. ASSUME NEW k \in 0..Len(vs) PROVE Fine(k)
  <2>1. k \in Nat /\ k <= Len(vs)
    OBVIOUS
  <2> QED BY <1>1, <2>1
<1> QED BY <1>2

LEMMA TotalTyped ==
  ASSUME NEW vs, Len(vs) \in Nat, \A k \in 1..Len(vs) : vs[k] \in Fractions
  PROVE  Total(vs) \in Fractions /\ ((\A i \in 1..Len(vs) : vs[i].d # 0) => Total(vs).d # 0)
<1>1. PICK sum : Sums(vs, sum) /\ Total(vs) = sum[Len(vs)]
  BY TotalIs
<1>2. Len(vs) \in 0..Len(vs)
  OBVIOUS
<1> QED BY <1>1, <1>2, SumsTyped

-----------------------------------------------------------------------------
(* Lists that are put together.                                             *)

FlatAfter(seqs, flat, i) == IF i = 1 THEN seqs[i] ELSE flat[i - 1] \o seqs[i]

LEMMA FlatExists ==
  ASSUME NEW seqs, NEW n \in Nat
  PROVE  \E h : h = [i \in 1..n |-> FlatAfter(seqs, h, i)]
<1> DEFINE Upto(m) == \E h : h = [i \in 1..m |-> FlatAfter(seqs, h, i)]
           Bad == {m \in Nat : ~Upto(m)}
<1>1. SUFFICES Bad = {}
  OBVIOUS
<1>2. SUFFICES ASSUME Bad # {} PROVE FALSE
  OBVIOUS
<1>3. Bad \in SUBSET Nat
  OBVIOUS
<1> HIDE DEF Bad
<1>4. PICK m \in Bad : \A y \in Bad : m <= y
  BY <1>2, <1>3, Least
<1>5. m \in Nat /\ ~Upto(m)
  BY <1>4 DEF Bad
<1>6. CASE m = 0
  <2> DEFINE h == [i \in 1..0 |-> 0]
  <2>1. h = [i \in 1..0 |-> FlatAfter(seqs, h, i)]
    <3>1. 1..0 = {}
      OBVIOUS
    <3> QED BY <3>1
  <2> QED BY <1>5, <1>6, <2>1
<1>7. CASE m # 0
  <2>1. m - 1 \in Nat /\ ~(m <= m - 1)
    BY <1>5, <1>7
  <2>2. Upto(m - 1)
    BY <1>4, <2>1 DEF Bad
  <2>3. PICK less : less = [i \in 1..(m - 1) |-> FlatAfter(seqs, less, i)]
    BY <2>2
  <2> DEFINE top == FlatAfter(seqs, less, m)
             h == [i \in 1..m |-> IF i = m THEN top ELSE less[i]]
  <2>4. ASSUME NEW i \in 1..m
        PROVE  h[i] = FlatAfter(seqs, h, i)
    <3>1. h[i] = IF i = m THEN top ELSE less[i]
      OBVIOUS
    <3>2. i # 1 => h[i - 1] = less[i - 1]
      <4>1. i # 1 => i - 1 \in 1..m /\ i - 1 # m
        BY <1>5
      <4> HIDE DEF top
      <4> QED BY <4>1
    <3> HIDE DEF h
    <3>3. FlatAfter(seqs, h, i) = FlatAfter(seqs, less, i)
      BY <3>2 DEF FlatAfter
    <3>4. i # m => less[i] = FlatAfter(seqs, less, i)
      <4>1. i # m => i \in 1..(m - 1)
        BY <1>5
      <4> QED BY <2>3, <4>1
    <3> QED BY <3>1, <3>3, <3>4
  <2>5. h = [i \in 1..m |-> h[i]]
    OBVIOUS
  <2> HIDE DEF h
  <2>6. h = [i \in 1..m |-> FlatAfter(seqs, h, i)]
    BY <2>4, <2>5
  <2> QED BY <1>5, <2>6
<1> QED BY <1>6, <1>7

Flattens(seqs, flat) ==
  /\ flat[1] = seqs[1]
  /\ \A k \in 2..Len(seqs) : flat[k] = flat[k - 1] \o seqs[k]

LEMMA FlattenIs ==
  ASSUME NEW seqs, IsSequence(seqs), seqs # <<>>
  PROVE  \E flat : Flattens(seqs, flat) /\ FlattenSeq(seqs) = flat[Len(seqs)]
<1> DEFINE All(h) == [i \in 1..Len(seqs) |-> IF i = 1 THEN seqs[i] ELSE h[i - 1] \o seqs[i]]
           c == CHOOSE h : h = All(h)
<1>1. Len(seqs) \in Nat /\ Len(seqs) # 0
  BY SequenceFacts
<1>2. FlattenSeq(seqs) = c[Len(seqs)]
  BY <1>1 DEF FlattenSeq
<1>3. \E h : h = All(h)
  <2>1. PICK h : h = [i \in 1..Len(seqs) |-> FlatAfter(seqs, h, i)]
    BY <1>1, FlatExists
  <2>2. h = All(h)
    BY <2>1 DEF FlatAfter
  <2> QED BY <2>2
<1> HIDE DEF All
<1>4. c = All(c)
  BY <1>3
<1> HIDE DEF c
<1>5. c[1] = seqs[1]
  <2>1. 1 \in 1..Len(seqs)
    BY <1>1
  <2> QED BY <1>4, <2>1 DEF All
<1>6. ASSUME NEW k \in 2..Len(seqs) PROVE c[k] = c[k - 1] \o seqs[k]
  <2>1. k \in 1..Len(seqs) /\ k # 1
    BY <1>1
  <2> QED BY <1>4, <2>1 DEF All
<1> QED BY <1>2, <1>5, <1>6 DEF Flattens

LEMMA ConcatFacts ==
  ASSUME NEW s, IsSequence(s), NEW t, IsSequence(t)
  PROVE  /\ IsSequence(s \o t) /\ Len(s \o t) = Len(s) + Len(t)
         /\ \A k \in 1..Len(s) : (s \o t)[k] = s[k]
         /\ \A k \in 1..Len(t) : (s \o t)[Len(s) + k] = t[k]
<1>1. PICK S : s \in Seq(S)
  BY DEF IsSequence
<1>2. PICK T : t \in Seq(T)
  BY DEF IsSequence
<1> DEFINE U == S \cup T
<1>3. s \in Seq(U) /\ t \in Seq(U)
  BY <1>1, <1>2
<1> HIDE DEF U
<1>4. s \o t \in Seq(U) /\ Len(s \o t) = Len(s) + Len(t)
  BY <1>3
<1>5. ASSUME NEW k \in 1..Len(s) PROVE (s \o t)[k] = s[k]
  BY <1>3
<1>6. ASSUME NEW k \in 1..Len(t) PROVE (s \o t)[Len(s) + k] = t[k]
  BY <1>3
<1> QED BY <1>4, <1>5, <1>6 DEF IsSequence

-----------------------------------------------------------------------------
(* Results, and lists of them.                                              *)

IsResult(r) ==
  /\ r = [type |-> r.type, ts |-> r.ts, labels |-> r.labels, data |-> r.data, val |-> r.val]
  /\ r.ts \in Int /\ r.val \in Fractions

IsList(rs) == IsSequence(rs) /\ \A i \in 1..Len(rs) : IsResult(rs[i])

IsOutcome(o) == o.ok => IsList(o.rs)

LEMMA MadeResult ==
  ASSUME NEW type, NEW ts \in Int, NEW labels, NEW val \in Fractions
  PROVE  LET r == Result(type, ts, labels, val)
         IN  /\ IsResult(r)
             /\ r.type = type /\ r.ts = ts /\ r.labels = labels /\ r.val = val /\ r.data = NoLabels
<1> DEFINE r == Result(type, ts, labels, val)
<1>1. r.type = type /\ r.ts = ts /\ r.labels = labels /\ r.val = val /\ r.data = NoLabels
  BY DEF Result
<1>2. r = [type |-> r.type, ts |-> r.ts, labels |-> r.labels, data |-> r.data, val |-> r.val]
  BY DEF Result
<1> HIDE DEF r
<1>3. IsResult(r)
  BY <1>1, <1>2 DEF IsResult
<1> QED BY <1>1, <1>3 DEF r

LEMMA EmptyLabels == \A l : LabelOf(NoLabels, l) = Missing
BY DEF NoLabels, LabelOf

LEMMA EmptyList == IsList(<<>>)
<1>1. IsSequence(<<>>) /\ Len(<<>>) = 0
  BY EmptyIsSequence
<1>2. \A i \in 1..0 : FALSE
  OBVIOUS
<1> QED BY <1>1, <1>2 DEF IsList

LEMMA OneIsList ==
  ASSUME NEW r, IsResult(r)
  PROVE  IsList(<<r>>) /\ Len(<<r>>) = 1 /\ <<r>>[1] = r
<1>1. <<r>> \in Seq({r}) /\ Len(<<r>>) = 1 /\ <<r>>[1] = r
  OBVIOUS
<1>2. \A i \in 1..1 : i = 1
  OBVIOUS
<1> QED BY <1>1, <1>2 DEF IsList, IsSequence

LEMMA ListFacts ==
  ASSUME NEW rs, IsList(rs)
  PROVE  /\ IsSequence(rs) /\ Len(rs) \in Nat /\ DOMAIN rs = 1..Len(rs)
         /\ rs = <<>> <=> Len(rs) = 0
         /\ rs # <<>> => 1 \in 1..Len(rs) /\ Len(rs) \in 1..Len(rs) /\ IsResult(rs[1])
<1>1. IsSequence(rs)
  BY DEF IsList
<1>2. Len(rs) \in Nat /\ DOMAIN rs = 1..Len(rs) /\ (rs = <<>> <=> Len(rs) = 0)
  BY <1>1, SequenceFacts
<1>3. Len(rs) # 0 => 1 \in 1..Len(rs) /\ Len(rs) \in 1..Len(rs)
  BY <1>2
<1> QED BY <1>1, <1>2, <1>3 DEF IsList

LEMMA KeptList ==
  ASSUME NEW rs, IsList(rs), NEW positions
  PROVE  /\ IsList(Keep(rs, positions))
         /\ \A k \in 1..Len(Keep(rs, positions)) :
              \E i \in positions \cap (1..Len(rs)) : Keep(rs, positions)[k] = rs[i]
         /\ \A i \in positions \cap (1..Len(rs)) :
              \E k \in 1..Len(Keep(rs, positions)) : Keep(rs, positions)[k] = rs[i]
<1> DEFINE kept == Keep(rs, positions)
<1>1. Picks(rs, positions, Len(rs), kept)
  BY KeepFacts DEF IsList
<1> HIDE DEF kept
<1>2. PICK at : PicksAt(rs, positions, Len(rs), kept, at)
  BY <1>1 DEF Picks
<1>3. \A k \in 1..Len(kept) : at[k] \in positions \cap (1..Len(rs)) /\ kept[k] = rs[at[k]]
  BY <1>2 DEF PicksAt
<1>4. \A i \in positions \cap (1..Len(rs)) : \E k \in 1..Len(kept) : kept[k] = rs[i]
  BY <1>2, <1>3 DEF PicksAt
<1>5. IsList(kept)
  <2>1. \A k \in 1..Len(kept) : IsResult(kept[k])
    BY <1>3 DEF IsList
  <2> QED BY <1>1, <2>1 DEF IsList, Picks
<1> QED BY <1>3, <1>4, <1>5 DEF kept

LEMMA JoinedList ==
  ASSUME NEW a, IsList(a), NEW b, IsList(b)
  PROVE  IsList(a \o b)
<1>1. /\ IsSequence(a \o b) /\ Len(a \o b) = Len(a) + Len(b)
      /\ \A k \in 1..Len(a) : (a \o b)[k] = a[k]
      /\ \A k \in 1..Len(b) : (a \o b)[Len(a) + k] = b[k]
  BY ConcatFacts DEF IsList
<1>2. Len(a) \in Nat /\ Len(b) \in Nat
  BY ListFacts
<1>3. ASSUME NEW k \in 1..Len(a \o b) PROVE IsResult((a \o b)[k])
  <2>1. CASE k \in 1..Len(a)
    BY <1>1, <2>1 DEF IsList
  <2>2. CASE k \notin 1..Len(a)
    <3>1. k - Len(a) \in 1..Len(b) /\ Len(a) + (k - Len(a)) = k
      BY <1>1, <1>2, <2>2
    <3>2. (a \o b)[k] = b[k - Len(a)]
      BY <1>1, <3>1
    <3> QED BY <3>1, <3>2 DEF IsList
  <2> QED BY <2>1, <2>2
<1> QED BY <1>1, <1>3 DEF IsList

LEMMA FlattenedList ==
  ASSUME NEW seqs, IsSequence(seqs), \A i \in 1..Len(seqs) : IsList(seqs[i])
  PROVE  IsList(FlattenSeq(seqs))
<1>1. CASE seqs = <<>>
  <2>1. FlattenSeq(seqs) = <<>>
    BY <1>1, EmptyIsSequence DEF FlattenSeq
  <2> QED BY <2>1, EmptyList
<1>2. CASE seqs # <<>>
  <2>1. Len(seqs) \in Nat /\ Len(seqs) # 0
    BY <1>2, SequenceFacts
  <2>2. PICK flat : Flattens(seqs, flat) /\ FlattenSeq(seqs) = flat[Len(seqs)]
    BY <1>2, FlattenIs
  <2> DEFINE Bad == {k \in Nat : k \in 1..Len(seqs) /\ ~IsList(flat[k])}
  <2>3. ASSUME Bad # {} PROVE FALSE
    <3>1. Bad \in SUBSET Nat
      OBVIOUS
    <3> HIDE DEF Bad
    <3>2. PICK k \in Bad : \A y \in Bad : k <= y
      BY <2>3, <3>1, Least
    <3>3. k \in Nat /\ k \in 1..Len(seqs) /\ ~IsList(flat[k])
      BY <3>2 DEF Bad
    <3>4. CASE k = 1
      BY <2>2, <3>3, <3>4 DEF Flattens
    <3>5. CASE k # 1
      <4>1. k - 1 \in Nat /\ k - 1 \in 1..Len(seqs) /\ ~(k <= k - 1) /\ k \in 2..Len(seqs)
        BY <2>1, <3>3, <3>5
      <4>2. IsList(flat[k - 1])
        BY <3>2, <4>1 DEF Bad
      <4>3. flat[k] = flat[k - 1] \o seqs[k]
        BY <2>2, <4>1 DEF Flattens
      <4>4. IsList(seqs[k])
        BY <3>3
      <4>5. IsList(flat[k - 1] \o seqs[k])
        BY <4>2, <4>4, JoinedList
      <4> QED BY <3>3, <4>3, <4>5
    <3> QED BY <3>4, <3>5
  <2>4. Len(seqs) \in 1..Len(seqs)
    BY <2>1
  <2> QED BY <2>1, <2>2, <2>3, <2>4
<1> QED BY <1>1, <1>2

-----------------------------------------------------------------------------
(* What the functions return.                                               *)

LEMMA ReturnFacts ==
  ASSUME NEW rs, IsList(rs)
  PROVE  IsOutcome(Return(rs)) /\ Return(rs).ok /\ Return(rs).rs = rs
BY DEF IsOutcome, Return

LEMMA FailedFacts == IsOutcome(Failed) /\ ~Failed.ok
BY DEF IsOutcome, Failed

LEMMA NumericFacts ==
  ASSUME NEW rs, IsList(rs)
  PROVE  /\ IsList(Numeric(rs))
         /\ \A k \in 1..Len(Numeric(rs)) : Numeric(rs)[k].val.d # 0 /\ \E i \in 1..Len(rs) : Numeric(rs)[k] = rs[i]
         /\ Numeric(rs) # <<>> => rs # <<>>
<1> DEFINE P == {i \in DOMAIN rs : IsNumber(rs[i].val)}
           nums == Keep(rs, P)
<1>1. Numeric(rs) = nums
  BY DEF Numeric
<1>2. \A i \in P : rs[i].val.d # 0
  BY DEF IsNumber
<1> HIDE DEF P
<1>3. /\ IsList(nums)
      /\ \A k \in 1..Len(nums) : \E i \in P \cap (1..Len(rs)) : nums[k] = rs[i]
  BY KeptList
<1> HIDE DEF nums
<1>4. \A k \in 1..Len(nums) : nums[k].val.d # 0 /\ \E i \in 1..Len(rs) : nums[k] = rs[i]
  BY <1>3, <1>2
<1>5. nums # <<>> => rs # <<>>
  <2>1. ASSUME nums # <<>> PROVE Len(rs) # 0
    <3>1. 1 \in 1..Len(nums)
      BY <1>3, <2>1, ListFacts
    <3>2. PICK i \in 1..Len(rs) : nums[1] = rs[i]
      BY <1>4, <3>1
    <3> QED BY <3>2, ListFacts
  <2> QED BY <2>1, ListFacts
<1> QED BY <1>1, <1>3, <1>4, <1>5

LEMMA ValuesFacts ==
  ASSUME NEW rs, IsList(rs)
  PROVE  /\ IsSequence(ValuesOf(rs)) /\ Len(ValuesOf(rs)) = Len(rs) /\ DOMAIN ValuesOf(rs) = 1..Len(rs)
         /\ \A k \in 1..Len(rs) : ValuesOf(rs)[k] = rs[k].val /\ ValuesOf(rs)[k] \in Fractions
<1>1. Len(rs) \in Nat /\ DOMAIN rs = 1..Len(rs)
  BY ListFacts
<1>2. ValuesOf(rs) = [k \in 1..Len(rs) |-> rs[k].val]
  BY <1>1 DEF ValuesOf
<1>3. \A k \in 1..Len(rs) : ValuesOf(rs)[k] = rs[k].val
  BY <1>2
<1>4. ValuesOf(rs) = [k \in 1..Len(rs) |-> ValuesOf(rs)[k]]
  BY <1>2
<1>5. IsSequence(ValuesOf(rs)) /\ Len(ValuesOf(rs)) = Len(rs) /\ DOMAIN ValuesOf(rs) = 1..Len(rs)
  BY <1>1, <1>4, FunctionIsSequence
<1> QED BY <1>3, <1>5 DEF IsList, IsResult

LEMMA LabelSourceTyped ==
  ASSUME NEW rs, IsList(rs)
  PROVE  /\ LabelSource(rs).ts \in Int
         /\ \A l : (\A i \in 1..Len(rs) : LabelOf(rs[i].labels, l) = Missing)
                  => LabelOf(LabelSource(rs).labels, l) = Missing
<1> DEFINE nums == Numeric(rs)
           labelled == {i \in DOMAIN nums : DOMAIN nums[i].labels # {}}
           k == IF labelled = {} THEN Len(nums) ELSE Min(labelled)
<1>1. /\ IsList(nums)
      /\ \A i \in 1..Len(nums) : \E j \in 1..Len(rs) : nums[i] = rs[j]
  BY NumericFacts
<1>2. CASE nums = <<>>
  <2>1. LabelSource(rs) = Result("none", 0, NoLabels, Text)
    BY <1>2 DEF LabelSource
  <2>2. Text \in Fractions /\ 0 \in Int
    BY NumberTyped
  <2>3. LabelSource(rs).ts = 0 /\ LabelSource(rs).labels = NoLabels
    BY <2>1, <2>2, EmptyLabels, MadeResult
  <2> QED BY <2>2, <2>3, EmptyLabels
<1>3. CASE nums # <<>>
  <2>1. LabelSource(rs) = nums[k]
    BY <1>3 DEF LabelSource
  <2>2. DOMAIN nums = 1..Len(nums) /\ Len(nums) \in Nat /\ Len(nums) \in 1..Len(nums)
    BY <1>1, <1>3, ListFacts
  <2>3. labelled \in SUBSET (1..Len(nums))
    BY <2>2
  <2>4. k \in 1..Len(nums)
    <3> HIDE DEF labelled
    <3>1. CASE labelled = {}
      BY <2>2, <3>1
    <3>2. CASE labelled # {}
      <4>1. labelled \in SUBSET Nat
        BY <2>2, <2>3
      <4>2. \E x \in labelled : \A y \in labelled : x <= y
        BY <3>2, <4>1, Least
      <4>3. Min(labelled) \in labelled
        BY <4>2 DEF Min
      <4> QED BY <2>3, <3>2, <4>3
    <3> QED BY <3>1, <3>2
  <2> HIDE DEF k
  <2>5. PICK j \in 1..Len(rs) : nums[k] = rs[j]
    BY <1>1, <2>4
  <2>6. IsResult(rs[j])
    BY DEF IsList
  <2>7. LabelSource(rs) = rs[j]
    BY <2>1, <2>5
  <2> QED BY <2>6, <2>7 DEF IsResult
<1> QED BY <1>2, <1>3

LEMMA ReturnOne ==
  ASSUME NEW r, IsResult(r)
  PROVE  IsOutcome(Return(<<r>>)) /\ Return(<<r>>).ok /\ Return(<<r>>).rs = <<r>>
BY OneIsList, ReturnFacts

LEMMA SumTyped ==
  ASSUME NEW rs, IsList(rs), NEW o \in ApplySum(rs)
  PROVE  /\ IsOutcome(o)
         /\ rs # <<>> => /\ o.ok /\ Len(o.rs) = 1
                         /\ o.rs[1].labels = LabelSource(rs).labels
                         /\ o.rs[1].val = Total(ValuesOf(Numeric(rs)))
<1> DEFINE vs == ValuesOf(Numeric(rs))
           r == Result(rs[1].type, LabelSource(rs).ts, LabelSource(rs).labels, Total(vs))
<1>1. CASE rs = <<>>
  BY <1>1, EmptyList, ReturnFacts DEF ApplySum
<1>2. CASE rs # <<>>
  <2>1. IsList(Numeric(rs)) /\ Len(Numeric(rs)) \in Nat
    BY NumericFacts, ListFacts
  <2>2. Len(vs) = Len(Numeric(rs)) /\ \A k \in 1..Len(vs) : vs[k] \in Fractions
    BY <2>1, ValuesFacts
  <2> HIDE DEF vs
  <2>3. Total(vs) \in Fractions
    BY <2>1, <2>2, TotalTyped
  <2>4. LabelSource(rs).ts \in Int
    BY LabelSourceTyped
  <2>5. IsResult(r) /\ r.labels = LabelSource(rs).labels /\ r.val = Total(vs)
    BY <2>3, <2>4, MadeResult
  <2>6. o = Return(<<r>>)
    BY <1>2 DEF ApplySum, vs
  <2> HIDE DEF r
  <2>7. IsOutcome(o) /\ o.ok /\ o.rs = <<r>> /\ Len(<<r>>) = 1 /\ <<r>>[1] = r
    BY <2>5, <2>6, ReturnOne, OneIsList
  <2> QED BY <2>5, <2>7 DEF vs
<1> QED BY <1>1, <1>2

LEMMA AvgTyped ==
  ASSUME NEW rs, IsList(rs), NEW o \in ApplyAvg(rs)
  PROVE  /\ IsOutcome(o) /\ o.ok
         /\ \A i \in 1..Len(o.rs) :
              /\ Numeric(rs) # <<>>
              /\ o.rs[i].val = Over(Total(ValuesOf(Numeric(rs))), Len(Numeric(rs)))
<1> DEFINE nums == Numeric(rs)
           vs == ValuesOf(nums)
           r == Result(rs[1].type, LabelSource(rs).ts, LabelSource(rs).labels, Over(Total(vs), Len(nums)))
<1>1. CASE nums = <<>>
  <2>1. o = Return(<<>>)
    BY <1>1 DEF ApplyAvg
  <2>2. IsOutcome(o) /\ o.ok /\ o.rs = <<>>
    BY <2>1, EmptyList, ReturnFacts
  <2>3. \A i \in 1..Len(<<>>) : FALSE
    BY EmptyIsSequence
  <2> QED BY <2>2, <2>3
<1>2. CASE nums # <<>>
  <2>1. IsList(nums) /\ Len(nums) \in Nat
    BY NumericFacts, ListFacts
  <2>2. Len(vs) = Len(nums) /\ \A k \in 1..Len(vs) : vs[k] \in Fractions
    BY <2>1, ValuesFacts
  <2> HIDE DEF vs
  <2>3. Total(vs) \in Fractions
    BY <2>1, <2>2, TotalTyped
  <2>4. Over(Total(vs), Len(nums)) \in Fractions
    BY <2>1, <2>3, OverTyped
  <2>5. LabelSource(rs).ts \in Int
    BY LabelSourceTyped
  <2>6. IsResult(r) /\ r.val = Over(Total(vs), Len(nums))
    BY <2>4, <2>5, MadeResult
  <2>7. o = Return(<<r>>)
    BY <1>2 DEF ApplyAvg, vs
  <2> HIDE DEF r
  <2>8. IsOutcome(o) /\ o.ok /\ o.rs = <<r>> /\ Len(<<r>>) = 1 /\ <<r>>[1] = r
    BY <2>6, <2>7, ReturnOne, OneIsList
  <2>9. \A i \in 1..1 : i = 1
    OBVIOUS
  <2> QED BY <1>2, <2>6, <2>8, <2>9 DEF vs
<1> QED BY <1>1, <1>2

LEMMA CountTyped ==
  ASSUME NEW rs, IsList(rs), NEW o \in ApplyCount(rs)
  PROVE  IsOutcome(o)
<1>1. CASE rs = <<>>
  BY <1>1, EmptyList, ReturnFacts DEF ApplyCount
<1>2. CASE rs # <<>>
  <2> DEFINE r == Result(rs[1].type, rs[1].ts, rs[1].labels, Number(Len(rs)))
  <2>1. IsResult(rs[1]) /\ Len(rs) \in Nat
    BY <1>2, ListFacts
  <2>2. Number(Len(rs)) \in Fractions
    BY <2>1, NumberTyped
  <2>3. IsResult(r)
    BY <2>1, <2>2, MadeResult DEF IsResult
  <2>4. o = Return(<<r>>)
    BY <1>2 DEF ApplyCount
  <2> HIDE DEF r
  <2> QED BY <2>3, <2>4, ReturnOne
<1> QED BY <1>1, <1>2

(* the loop of min and max is at one of the numbers it has seen             *)
BestAfter(nums, name, best, i) ==
  IF i = 1 THEN 1
  ELSE IF (IF name = "min" THEN Less(nums[i].val, nums[best[i - 1]].val)
                           ELSE Less(nums[best[i - 1]].val, nums[i].val))
  THEN i ELSE best[i - 1]

LEMMA BestExists ==
  ASSUME NEW nums, NEW name, NEW n \in Nat
  PROVE  \E h : h = [i \in 1..n |-> BestAfter(nums, name, h, i)]
<1> DEFINE Upto(m) == \E h : h = [i \in 1..m |-> BestAfter(nums, name, h, i)]
           Bad == {m \in Nat : ~Upto(m)}
<1>1. SUFFICES Bad = {}
  OBVIOUS
<1>2. SUFFICES ASSUME Bad # {} PROVE FALSE
  OBVIOUS
<1>3. Bad \in SUBSET Nat
  OBVIOUS
<1> HIDE DEF Bad
<1>4. PICK m \in Bad : \A y \in Bad : m <= y
  BY <1>2, <1>3, Least
<1>5. m \in Nat /\ ~Upto(m)
  BY <1>4 DEF Bad
<1>6. CASE m = 0
  <2> DEFINE h == [i \in 1..0 |-> 0]
  <2>1. h = [i \in 1..0 |-> BestAfter(nums, name, h, i)]
    <3>1. 1..0 = {}
      OBVIOUS
    <3> QED BY <3>1
  <2> QED BY <1>5, <1>6, <2>1
<1>7. CASE m # 0
  <2>1. m - 1 \in Nat /\ ~(m <= m - 1)
    BY <1>5, <1>7
  <2>2. Upto(m - 1)
    BY <1>4, <2>1 DEF Bad
  <2>3. PICK less : less = [i \in 1..(m - 1) |-> BestAfter(nums, name, less, i)]
    BY <2>2
  <2> DEFINE top == BestAfter(nums, name, less, m)
             h == [i \in 1..m |-> IF i = m THEN top ELSE less[i]]
  <2>4. ASSUME NEW i \in 1..m
        PROVE  h[i] = BestAfter(nums, name, h, i)
    <3>1. h[i] = IF i = m THEN top ELSE less[i]
      OBVIOUS
    <3>2. i # 1 => h[i - 1] = less[i - 1]
      <4>1. i # 1 => i - 1 \in 1..m /\ i - 1 # m
        BY <1>5
      <4> HIDE DEF top
      <4> QED BY <4>1
    <3> HIDE DEF h
    <3>3. BestAfter(nums, name, h, i) = BestAfter(nums, name, less, i)
      BY <3>2 DEF BestAfter
    <3>4. i # m => less[i] = BestAfter(nums, name, less, i)
      <4>1. i # m => i \in 1..(m - 1)
        BY <1>5
      <4> QED BY <2>3, <4>1
    <3> QED BY <3>1, <3>3, <3>4
  <2>5. h = [i \in 1..m |-> h[i]]
    OBVIOUS
  <2> HIDE DEF h
  <2>6. h = [i \in 1..m |-> BestAfter(nums, name, h, i)]
    BY <2>4, <2>5
  <2> QED BY <1>5, <2>6
<1> QED BY <1>6, <1>7

LEMMA BestSeen ==
  ASSUME NEW nums, NEW name, NEW n \in Nat, NEW h,
         h = [i \in 1..n |-> BestAfter(nums, name, h, i)]
  PROVE  \A i \in 1..n : h[i] \in 1..i
<1> DEFINE Bad == {i \in Nat : i \in 1..n /\ h[i] \notin 1..i}
<1>1. ASSUME Bad # {} PROVE FALSE
  <2>1. Bad \in SUBSET Nat
    OBVIOUS
  <2> HIDE DEF Bad
  <2>2. PICK i \in Bad : \A y \in Bad : i <= y
    BY <1>1, <2>1, Least
  <2>3. i \in Nat /\ i \in 1..n /\ h[i] \notin 1..i
    BY <2>2 DEF Bad
  <2>4. h[i] = BestAfter(nums, name, h, i)
    BY <2>3
  <2>5. CASE i = 1
    BY <2>3, <2>4, <2>5 DEF BestAfter
  <2>6. CASE i # 1
    <3>1. i - 1 \in Nat /\ i - 1 \in 1..n /\ ~(i <= i - 1)
      BY <2>3, <2>6
    <3>2. h[i - 1] \in 1..(i - 1)
      BY <2>2, <3>1 DEF Bad
    <3>3. h[i] = i \/ h[i] = h[i - 1]
      BY <2>4, <2>6 DEF BestAfter
    <3> QED BY <2>3, <3>2, <3>3
  <2> QED BY <2>5, <2>6
<1> QED BY <1>1

LEMMA ExtremeTyped ==
  ASSUME NEW rs, IsList(rs), NEW name, NEW o \in ApplyExtreme(rs, name)
  PROVE  IsOutcome(o)
<1> DEFINE nums == Numeric(rs)
           n == Len(nums)
           All(h) == [i \in 1..Len(Numeric(rs)) |->
                        IF i = 1 THEN 1
                        ELSE IF (IF name = "min" THEN Less(Numeric(rs)[i].val, Numeric(rs)[h[i - 1]].val)
                                                 ELSE Less(Numeric(rs)[h[i - 1]].val, Numeric(rs)[i].val))
                        THEN i ELSE h[i - 1]]
           c == CHOOSE h : h = All(h)
           found == nums[c[n]]
           r == Result(found.type, found.ts, found.labels, found.val)
<1>1. CASE nums = <<>>
  <2>1. o = Return(<<>>)
    BY <1>1 DEF ApplyExtreme
  <2> QED BY <2>1, EmptyList, ReturnFacts
<1>2. CASE nums # <<>>
  <2>1. IsList(nums)
    BY NumericFacts
  <2>2. n \in Nat /\ n \in 1..n
    BY <1>2, <2>1, ListFacts
  <2>3. o = Return(<<r>>)
    BY <1>2 DEF ApplyExtreme
  <2>4. \E h : h = All(h)
    <3>1. PICK h : h = [i \in 1..n |-> BestAfter(nums, name, h, i)]
      BY <2>2, BestExists
    <3>2. h = All(h)
      BY <3>1 DEF BestAfter
    <3> QED BY <3>2
  <2> HIDE DEF All
  <2>5. c = All(c)
    BY <2>4
  <2> HIDE DEF c
  <2>6. c = [i \in 1..n |-> BestAfter(nums, name, c, i)]
    BY <2>5 DEF All, BestAfter
  <2>7. c[n] \in 1..n
    <3> HIDE DEF nums, n
    <3> QED BY <2>2, <2>6, BestSeen
  <2>8. IsResult(found)
    BY <2>1, <2>7 DEF IsList
  <2> HIDE DEF found
  <2>9. IsResult(r)
    BY <2>8, MadeResult DEF IsResult
  <2> HIDE DEF r
  <2> QED BY <2>3, <2>9, ReturnOne
<1> QED BY <1>1, <1>2

LEMMA IncreaseTyped ==
  ASSUME NEW rs, IsList(rs), NEW perSecond \in BOOLEAN, NEW o \in ApplyIncrease(rs, perSecond)
  PROVE  /\ IsOutcome(o)
         /\ o.ok => Len(o.rs) = 1 /\ IsResult(o.rs[1])
         /\ o.ok => \E i, j \in 1..Len(rs) :
              /\ rs[i].ts <= rs[j].ts
              /\ o.rs[1].val.n = Minus(rs[j].val, rs[i].val).n
<1>1. CASE Len(rs) < 2 \/ rs[1].type # "metrics"
  BY <1>1, FailedFacts DEF ApplyIncrease
<1>2. CASE ~(Len(rs) < 2 \/ rs[1].type # "metrics")
  <2> DEFINE Made(e) == Result(e[1].type, e[2].ts, e[1].labels,
                               IF perSecond THEN Over(Minus(e[2].val, e[1].val), e[2].ts - e[1].ts)
                               ELSE Minus(e[2].val, e[1].val))
             Bad(e) == ~IsNumber(e[1].val) \/ ~IsNumber(e[2].val) \/ (perSecond /\ e[1].ts = e[2].ts)
  <2>1. PICK e \in Ends(rs) : o = IF Bad(e) THEN Failed ELSE Return(<<Made(e)>>)
    BY <1>2 DEF ApplyIncrease
  <2>2. DOMAIN rs = 1..Len(rs)
    BY ListFacts
  <2>3. PICK p \in (1..Len(rs)) \X (1..Len(rs)) :
          /\ e = <<rs[p[1]], rs[p[2]]>>
          /\ \A k \in 1..Len(rs) : rs[p[1]].ts <= rs[k].ts /\ rs[k].ts <= rs[p[2]].ts
    BY <2>2 DEF Ends
  <2>4. PICK i \in 1..Len(rs), j \in 1..Len(rs) :
          e[1] = rs[i] /\ e[2] = rs[j] /\ rs[i].ts <= rs[j].ts
    <3>1. p[1] \in 1..Len(rs) /\ p[2] \in 1..Len(rs)
      OBVIOUS
    <3>2. e[1] = rs[p[1]] /\ e[2] = rs[p[2]]
      BY <2>3
    <3> QED BY <2>3, <3>1, <3>2
  <2>5. CASE Bad(e)
    BY <2>1, <2>5, FailedFacts
  <2>6. CASE ~Bad(e)
    <3> DEFINE a == rs[i]
               b == rs[j]
               grown == Minus(b.val, a.val)
               val == IF perSecond THEN Over(grown, b.ts - a.ts) ELSE grown
               r == Result(a.type, b.ts, a.labels, val)
    <3>1. o = Return(<<r>>)
      BY <2>1, <2>4, <2>6
    <3>2. IsResult(a) /\ IsResult(b)
      BY DEF IsList
    <3>3. a.ts <= b.ts
      BY <2>4
    <3> HIDE DEF a, b
    <3>4. a.ts \in Int /\ b.ts \in Int /\ a.val \in Fractions /\ b.val \in Fractions
      BY <3>2 DEF IsResult
    <3>5. grown \in Fractions
      BY <3>4, PlusTyped
    <3> HIDE DEF grown
    <3>6. b.ts - a.ts \in Nat
      BY <3>3, <3>4
    <3>7. Over(grown, b.ts - a.ts) \in Fractions /\ Over(grown, b.ts - a.ts).n = grown.n
      BY <3>5, <3>6, OverTyped DEF Over
    <3>8. val \in Fractions /\ val.n = grown.n
      BY <3>5, <3>7
    <3> HIDE DEF val
    <3>9. IsResult(r) /\ r.val = val
      BY <3>4, <3>8, MadeResult
    <3> HIDE DEF r
    <3>10. IsOutcome(o) /\ o.ok /\ o.rs = <<r>> /\ <<r>>[1] = r /\ Len(<<r>>) = 1
      BY <3>1, <3>9, ReturnOne, OneIsList
    <3>11. o.rs[1].val.n = Minus(rs[j].val, rs[i].val).n
      BY <3>8, <3>9, <3>10 DEF grown, a, b
    <3>12. Len(o.rs) = 1 /\ IsResult(o.rs[1])
      BY <3>9, <3>10
    <3> QED BY <2>4, <3>10, <3>11, <3>12
  <2> QED BY <2>5, <2>6
<1> QED BY <1>1, <1>2

-----------------------------------------------------------------------------
(* Sorting and interpolating.                                               *)

LEMMA SortedFacts ==
  ASSUME NEW vs, IsSequence(vs), NEW s \in Sorted(vs)
  PROVE  /\ IsSequence(s) /\ Len(s) = Len(vs)
         /\ \A i \in 1..Len(s) : \E k \in 1..Len(vs) : s[i] = vs[k]
         /\ \A i, j \in 1..Len(s) : i < j => AtMost(s[i], s[j])
<1> DEFINE n == Len(vs)
<1>1. n \in Nat /\ DOMAIN vs = 1..n
  BY SequenceFacts
<1>2. PICK p \in SetToSeqs(1..n) : s = [i \in 1..n |-> vs[p[i]]]
  BY <1>1 DEF Sorted
<1>3. Cardinality(1..n) = n
  <2>1. 1 \in Int /\ n \in Int /\ (1 > n => n = 0) /\ n - 1 + 1 = n
    BY <1>1
  <2>2. Cardinality(1..n) = IF 1 > n THEN 0 ELSE n - 1 + 1
    BY <2>1, FS_Interval
  <2> QED BY <2>1, <2>2
<1>4. p \in [1..n -> 1..n]
  BY <1>2, <1>3 DEF SetToSeqs
<1>5. s = [i \in 1..n |-> s[i]]
  BY <1>2
<1>6. IsSequence(s) /\ Len(s) = n /\ DOMAIN s = 1..n
  BY <1>1, <1>5, FunctionIsSequence
<1>7. \A i \in 1..n : s[i] = vs[p[i]] /\ p[i] \in 1..n
  BY <1>2, <1>4
<1>8. \A i, j \in DOMAIN s : i < j => AtMost(s[i], s[j])
  BY DEF Sorted
<1> QED BY <1>6, <1>7, <1>8

Percents == {50, 90, 95, 99}

LEMMA PlaceFacts ==
  ASSUME NEW n \in Nat \ {0}, NEW q \in Percents
  PROVE  LET index == q * (n - 1)
             lower == (index \div 100) + 1
             weight == index % 100
         IN  /\ index \in Nat /\ lower \in 1..n /\ weight \in 0..99
             /\ index = 100 * (lower - 1) + weight
             /\ weight # 0 => lower + 1 \in 1..n
<1> DEFINE index == q * (n - 1)
<1>1. index \in Nat /\ index <= 99 * (n - 1)
  <2>1. q = 50 \/ q = 90 \/ q = 95 \/ q = 99
    BY DEF Percents
  <2> QED BY <2>1
<1> HIDE DEF index
<1>2. /\ index \div 100 \in Nat /\ index % 100 \in 0..99
      /\ index = 100 * (index \div 100) + (index % 100)
  BY <1>1
<1>3. (index \div 100) + 1 <= n
  BY <1>1, <1>2
<1>4. index % 100 # 0 => (index \div 100) + 2 <= n
  BY <1>1, <1>2
<1>5. (index \div 100) + 1 - 1 = index \div 100 /\ (index \div 100) + 1 \in 1..n
  BY <1>2, <1>3
<1>6. index % 100 # 0 => ((index \div 100) + 1) + 1 \in 1..n
  BY <1>2, <1>4
<1> QED BY <1>1, <1>2, <1>5, <1>6 DEF index

LEMMA QuantileTyped ==
  ASSUME NEW s, IsSequence(s), s # <<>>, \A i \in 1..Len(s) : s[i] \in Fractions, NEW q \in Percents
  PROVE  CalculateQuantile(s, q) \in Fractions
<1> DEFINE index == q * (Len(s) - 1)
           lower == (index \div 100) + 1
           weight == index % 100
<1>1. Len(s) \in Nat \ {0}
  BY SequenceFacts
<1>2. lower \in 1..Len(s) /\ weight \in 0..99 /\ (weight # 0 => lower + 1 \in 1..Len(s))
  BY <1>1, PlaceFacts
<1>3. CalculateQuantile(s, q) =
        IF weight = 0 THEN s[lower]
        ELSE Over(Plus(Times(s[lower], 100 - weight), Times(s[lower + 1], weight)), 100)
  BY DEF CalculateQuantile
<1> HIDE DEF lower, weight
<1>4. CASE weight = 0
  BY <1>2, <1>3, <1>4
<1>5. CASE weight # 0
  <2>1. s[lower] \in Fractions /\ s[lower + 1] \in Fractions /\ 100 - weight \in Nat /\ weight \in Nat /\ 100 \in Nat
    BY <1>2, <1>5
  <2>2. Times(s[lower], 100 - weight) \in Fractions /\ Times(s[lower + 1], weight) \in Fractions
    BY <2>1, OverTyped
  <2>3. Plus(Times(s[lower], 100 - weight), Times(s[lower + 1], weight)) \in Fractions
    BY <2>2, PlusTyped
  <2> QED BY <1>3, <1>5, <2>1, <2>3, OverTyped
<1> QED BY <1>4, <1>5

LEMMA QuantileNames ==
  ASSUME NEW q \in DOMAIN Quantiles
  PROVE  Quantiles[q] \in Percents
BY DEF Quantiles, Percents

LEMMA QuantilesTyped ==
  ASSUME NEW rs, IsList(rs), NEW o \in ApplyQuantiles(rs)
  PROVE  /\ IsOutcome(o) /\ o.ok
         /\ \E s : \A i \in 1..Len(o.rs) :
              /\ Numeric(rs) # <<>> /\ s \in Sorted(ValuesOf(Numeric(rs)))
              /\ o.rs[i].labels.quantile \in DOMAIN Quantiles
              /\ o.rs[i].val = CalculateQuantile(s, Quantiles[o.rs[i].labels.quantile])
<1> DEFINE nums == Numeric(rs)
           vs == ValuesOf(nums)
           Quantile(s, q) == Result(rs[1].type, rs[1].ts, Overlay(rs[1].labels, [quantile |-> q]),
                                    CalculateQuantile(s, Quantiles[q]))
<1>1. IsList(nums) /\ (nums # <<>> => rs # <<>>) /\ Len(nums) \in Nat
  BY NumericFacts, ListFacts
<1>2. /\ IsSequence(vs) /\ Len(vs) = Len(nums)
      /\ \A k \in 1..Len(nums) : vs[k] \in Fractions
  BY <1>1, ValuesFacts
<1>3. vs = <<>> <=> nums = <<>>
  BY <1>1, <1>2, SequenceFacts, ListFacts
<1>4. CASE vs = <<>>
  <2>1. o = Return(<<>>)
    BY <1>4 DEF ApplyQuantiles
  <2>2. IsOutcome(o) /\ o.ok /\ o.rs = <<>>
    BY <2>1, EmptyList, ReturnFacts
  <2>3. \A i \in 1..Len(<<>>) : FALSE
    BY EmptyIsSequence
  <2> QED BY <2>2, <2>3
<1>5. CASE vs # <<>>
  <2>1. PICK s \in Sorted(vs), qs \in SetToSeqs(DOMAIN Quantiles) :
          o = Return([i \in DOMAIN qs |-> Quantile(s, qs[i])])
    BY <1>5 DEF ApplyQuantiles
  <2>2. /\ IsSequence(s) /\ Len(s) = Len(vs)
        /\ \A i \in 1..Len(s) : \E k \in 1..Len(vs) : s[i] = vs[k]
    BY <1>2, SortedFacts
  <2>3. s # <<>> /\ \A i \in 1..Len(s) : s[i] \in Fractions
    BY <1>2, <1>5, <2>2, SequenceFacts
  <2>4. rs # <<>> /\ IsResult(rs[1])
    BY <1>1, <1>3, <1>5, ListFacts
  <2>5. DOMAIN Quantiles = {"p50", "p90", "p95", "p99"}
    BY DEF Quantiles
  <2>6. IsFiniteSet(DOMAIN Quantiles)
    <3>1. IsFiniteSet({"p50"}) /\ IsFiniteSet({"p90"}) /\ IsFiniteSet({"p95"}) /\ IsFiniteSet({"p99"})
      BY FS_Singleton
    <3>2. IsFiniteSet({"p50"} \cup {"p90"}) /\ IsFiniteSet({"p95"} \cup {"p99"})
      BY <3>1, FS_Union
    <3>3. IsFiniteSet(({"p50"} \cup {"p90"}) \cup ({"p95"} \cup {"p99"}))
      BY <3>2, FS_Union
    <3>4. ({"p50"} \cup {"p90"}) \cup ({"p95"} \cup {"p99"}) = DOMAIN Quantiles
      BY <2>5
    <3> QED BY <3>3, <3>4
  <2> DEFINE m == Cardinality(DOMAIN Quantiles)
             out == [i \in 1..m |-> Quantile(s, qs[i])]
  <2>7. m \in Nat /\ qs \in [1..m -> DOMAIN Quantiles]
    BY <2>6, FS_CardinalityType DEF SetToSeqs
  <2>8. o = Return(out)
    BY <2>1, <2>7
  <2>9. ASSUME NEW q \in DOMAIN Quantiles
        PROVE  /\ IsResult(Quantile(s, q)) /\ Quantile(s, q).labels.quantile = q
               /\ Quantile(s, q).val = CalculateQuantile(s, Quantiles[q])
    <3> DEFINE labels == Overlay(rs[1].labels, [quantile |-> q])
    <3>1. Quantiles[q] \in Percents
      BY QuantileNames
    <3>2. labels.quantile = q
      BY DEF Overlay
    <3>3. CalculateQuantile(s, Quantiles[q]) \in Fractions
      BY <2>2, <2>3, <3>1, QuantileTyped
    <3> HIDE DEF labels
    <3>4. rs[1].ts \in Int
      BY <2>4 DEF IsResult
    <3>5. Quantile(s, q) = Result(rs[1].type, rs[1].ts, labels, CalculateQuantile(s, Quantiles[q]))
      BY DEF labels
    <3> HIDE DEF Quantile
    <3> QED BY <3>2, <3>3, <3>4, <3>5, MadeResult
  <2>10. \A i \in 1..m : out[i] = Quantile(s, qs[i]) /\ qs[i] \in DOMAIN Quantiles
    BY <2>7
  <2>11. out = [i \in 1..m |-> out[i]]
    OBVIOUS
  <2> HIDE DEF out, Quantile, m
  <2>12. IsSequence(out) /\ Len(out) = m
    BY <2>7, <2>11, FunctionIsSequence
  <2>13. IsList(out)
    BY <2>9, <2>10, <2>12 DEF IsList
  <2>14. IsOutcome(o) /\ o.ok /\ o.rs = out
    BY <2>8, <2>13, ReturnFacts
  <2>15. nums # <<>>
    BY <1>3, <1>5
  <2> QED BY <2>9, <2>10, <2>12, <2>14, <2>15
<1> QED BY <1>4, <1>5

LEMMA ApplyTyped ==
  ASSUME NEW rs, IsList(rs), NEW name, NEW o \in Apply(name, rs)
  PROVE  IsOutcome(o)
<1>1. CASE name = "sum"
  BY <1>1, SumTyped DEF Apply
<1>2. CASE name = "avg"
  BY <1>2, AvgTyped DEF Apply
<1>3. CASE name \in {"min", "max"}
  BY <1>3, ExtremeTyped DEF Apply
<1>4. CASE name = "count"
  BY <1>4, CountTyped DEF Apply
<1>5. CASE name = "rate"
  BY <1>5, IncreaseTyped DEF Apply
<1>6. CASE name = "increase"
  BY <1>6, IncreaseTyped DEF Apply
<1>7. CASE name = "histogram_quantile"
  BY <1>7, QuantilesTyped DEF Apply
<1>8. CASE name \notin {"sum", "avg", "min", "max", "count", "rate", "increase", "histogram_quantile"}
  BY <1>8, FailedFacts DEF Apply
<1> QED BY <1>1, <1>2, <1>3, <1>4, <1>5, <1>6, <1>7, <1>8

-----------------------------------------------------------------------------
(* Groups.                                                                  *)

(* the order and the parts of a grouping that succeeds                      *)
Grouping(rs, by, name, o, order, f) ==
  /\ \A k \in GroupKeys(rs, by) : f[k] \in Apply(name, Group(rs, by, k)) /\ f[k].ok
  /\ o = Return(FlattenSeq([i \in DOMAIN order |-> Labelled(rs, by, order[i], f[order[i]].rs)]))

LEMMA GroupMembers ==
  ASSUME NEW rs, IsList(rs), NEW by, NEW k \in GroupKeys(rs, by)
  PROVE  /\ IsList(Group(rs, by, k)) /\ Group(rs, by, k) # <<>>
         /\ \A j \in 1..Len(Group(rs, by, k)) :
              \E i \in 1..Len(rs) : Group(rs, by, k)[j] = rs[i] /\ GroupKey(rs[i], by) = k
<1> DEFINE P == {i \in DOMAIN rs : GroupKey(rs[i], by) = k}
           g == Keep(rs, P)
<1>1. Group(rs, by, k) = g
  BY DEF Group
<1>2. DOMAIN rs = 1..Len(rs)
  BY ListFacts
<1>3. PICK i \in 1..Len(rs) : GroupKey(rs[i], by) = k
  BY <1>2 DEF GroupKeys
<1>4. i \in P \cap (1..Len(rs)) /\ \A j \in P : GroupKey(rs[j], by) = k
  BY <1>2, <1>3
<1> HIDE DEF P
<1>5. /\ IsList(g)
      /\ \A j \in 1..Len(g) : \E l \in P \cap (1..Len(rs)) : g[j] = rs[l]
      /\ \A l \in P \cap (1..Len(rs)) : \E j \in 1..Len(g) : g[j] = rs[l]
  BY KeptList
<1> HIDE DEF g
<1>6. g # <<>>
  <2>1. PICK j \in 1..Len(g) : g[j] = rs[i]
    BY <1>4, <1>5
  <2>2. Len(g) # 0
    BY <2>1
  <2> QED BY <1>5, <2>2, ListFacts
<1> QED BY <1>1, <1>4, <1>5, <1>6

LEMMA Relabelled ==
  ASSUME NEW r, IsResult(r), NEW over
  PROVE  LET new == [r EXCEPT !.labels = Overlay(@, over)]
         IN  IsResult(new) /\ new.val = r.val /\ new.labels = Overlay(r.labels, over)
<1> DEFINE new == [r EXCEPT !.labels = Overlay(@, over)]
           labels == Overlay(r.labels, over)
<1>1. r = [type |-> r.type, ts |-> r.ts, labels |-> r.labels, data |-> r.data, val |-> r.val]
  BY DEF IsResult
<1>2. new = [r EXCEPT !.labels = labels]
  OBVIOUS
<1> HIDE DEF labels, new
<1>3. new = [type |-> r.type, ts |-> r.ts, labels |-> labels, data |-> r.data, val |-> r.val]
  BY <1>1, <1>2
<1>4. new.type = r.type /\ new.ts = r.ts /\ new.labels = labels /\ new.data = r.data /\ new.val = r.val
  BY <1>3
<1>5. IsResult(new)
  BY <1>3, <1>4 DEF IsResult
<1> QED BY <1>4, <1>5 DEF labels, new

LEMMA LabelledTyped ==
  ASSUME NEW rs, IsList(rs), NEW by, NEW k \in GroupKeys(rs, by), NEW out, IsList(out)
  PROVE  LET labelled == Labelled(rs, by, k, out)
         IN  /\ IsList(labelled) /\ Len(labelled) = Len(out)
             /\ \A i \in 1..Len(out) :
                  /\ labelled[i].val = out[i].val
                  /\ labelled[i].labels = Overlay(out[i].labels, GroupLabels(Group(rs, by, k)[1], by))
<1> DEFINE first == Group(rs, by, k)[1]
           over == GroupLabels(first, by)
           new == Labelled(rs, by, k, out)
<1>1. IsResult(first)
  BY GroupMembers, ListFacts
<1> HIDE DEF first
<1> HIDE DEF over
<1>2. DOMAIN out = 1..Len(out) /\ Len(out) \in Nat
  BY ListFacts
<1>3. new = [i \in 1..Len(out) |-> [out[i] EXCEPT !.labels = Overlay(@, over)]]
  BY <1>2 DEF Labelled, over, first
<1> HIDE DEF new
<1>4. new = [i \in 1..Len(out) |-> new[i]]
  BY <1>3
<1>5. IsSequence(new) /\ Len(new) = Len(out)
  BY <1>2, <1>4, FunctionIsSequence
<1>6. ASSUME NEW i \in 1..Len(out)
      PROVE  IsResult(new[i]) /\ new[i].val = out[i].val /\ new[i].labels = Overlay(out[i].labels, over)
  <2>1. IsResult(out[i])
    BY DEF IsList
  <2>2. new[i] = [out[i] EXCEPT !.labels = Overlay(@, over)]
    BY <1>3
  <2> QED BY <2>1, <2>2, Relabelled
<1>7. IsList(new)
  BY <1>5, <1>6 DEF IsList
<1> QED BY <1>5, <1>6, <1>7 DEF new, over, first

LEMMA KeysFinite ==
  ASSUME NEW rs, IsList(rs), NEW by
  PROVE  IsFiniteSet(GroupKeys(rs, by)) /\ Cardinality(GroupKeys(rs, by)) \in Nat
<1> DEFINE key == [i \in 1..Len(rs) |-> GroupKey(rs[i], by)]
<1>1. Len(rs) \in Nat /\ DOMAIN rs = 1..Len(rs)
  BY ListFacts
<1>2. GroupKeys(rs, by) = {key[i] : i \in 1..Len(rs)}
  BY <1>1 DEF GroupKeys
<1>3. key \in Surjection(1..Len(rs), GroupKeys(rs, by))
  BY <1>2 DEF Surjection
<1>4. IsFiniteSet(1..Len(rs))
  BY <1>1, FS_Interval
<1>5. IsFiniteSet(GroupKeys(rs, by))
  BY <1>3, <1>4, FS_Surjection
<1> QED BY <1>5, FS_CardinalityType

(* what a grouping with all its parts comes to                              *)
LEMMA GroupOutcome ==
  ASSUME NEW rs, IsList(rs), NEW by, NEW name, NEW o \in GroupAndAggregate(rs, by, name)
  PROVE  o = Failed \/ \E order \in SetToSeqs(GroupKeys(rs, by)) : \E f : Grouping(rs, by, name, o, order, f)
<1> DEFINE Parts(f, order) == [i \in DOMAIN order |-> Labelled(rs, by, order[i], f[order[i]].rs)]
<1>1. PICK f \in Aggregates(rs, by, name), order \in SetToSeqs(GroupKeys(rs, by)) :
        o = IF \E k \in GroupKeys(rs, by) : ~f[k].ok THEN Failed ELSE Return(FlattenSeq(Parts(f, order)))
  BY DEF GroupAndAggregate
<1>2. \A k \in GroupKeys(rs, by) : f[k] \in Apply(name, Group(rs, by, k))
  BY DEF Aggregates
<1>3. CASE \E k \in GroupKeys(rs, by) : ~f[k].ok
  BY <1>1, <1>3
<1>4. CASE ~ \E k \in GroupKeys(rs, by) : ~f[k].ok
  <2>1. o = Return(FlattenSeq(Parts(f, order)))
    BY <1>1, <1>4
  <2>2. Grouping(rs, by, name, o, order, f)
    BY <1>2, <1>4, <2>1 DEF Grouping
  <2> QED BY <2>2
<1> QED BY <1>3, <1>4

LEMMA GroupTyped ==
  ASSUME NEW rs, IsList(rs), NEW by, NEW name, NEW o \in GroupAndAggregate(rs, by, name)
  PROVE  IsOutcome(o)
<1>1. CASE o = Failed
  BY <1>1, FailedFacts
<1>2. CASE o # Failed
  <2>1. PICK order \in SetToSeqs(GroupKeys(rs, by)) : \E f : Grouping(rs, by, name, o, order, f)
    BY <1>2, GroupOutcome
  <2>2. PICK f : Grouping(rs, by, name, o, order, f)
    BY <2>1
  <2>3. /\ \A k \in GroupKeys(rs, by) : f[k] \in Apply(name, Group(rs, by, k)) /\ f[k].ok
        /\ o = Return(FlattenSeq([i \in DOMAIN order |-> Labelled(rs, by, order[i], f[order[i]].rs)]))
    BY <2>2 DEF Grouping
  <2> DEFINE m == Cardinality(GroupKeys(rs, by))
             parts == [i \in 1..m |-> Labelled(rs, by, order[i], f[order[i]].rs)]
  <2>4. m \in Nat /\ order \in [1..m -> GroupKeys(rs, by)]
    BY KeysFinite DEF SetToSeqs
  <2>5. o = Return(FlattenSeq(parts))
    BY <2>3, <2>4
  <2>6. ASSUME NEW k \in GroupKeys(rs, by) PROVE IsList(f[k].rs)
    <3>1. IsList(Group(rs, by, k))
      BY GroupMembers
    <3>2. IsOutcome(f[k])
      BY <2>3, <3>1, ApplyTyped
    <3> QED BY <2>3, <3>2 DEF IsOutcome
  <2>7. ASSUME NEW i \in 1..m PROVE parts[i] = Labelled(rs, by, order[i], f[order[i]].rs) /\ order[i] \in GroupKeys(rs, by)
    BY <2>4
  <2>8. parts = [i \in 1..m |-> parts[i]]
    OBVIOUS
  <2> HIDE DEF parts, m
  <2>9. IsSequence(parts) /\ Len(parts) = m
    BY <2>4, <2>8, FunctionIsSequence
  <2>10. \A i \in 1..m : IsList(parts[i])
    BY <2>6, <2>7, LabelledTyped
  <2>11. IsList(FlattenSeq(parts))
    BY <2>9, <2>10, FlattenedList
  <2> QED BY <2>5, <2>11, ReturnFacts
<1> QED BY <1>1, <1>2

-----------------------------------------------------------------------------
(* What a telemetry query reads.                                            *)

LEMMA RowFacts ==
  ASSUME NEW r \in Rows
  PROVE  /\ IsResult(ToResult(r))
         /\ ToResult(r).type = r.type /\ ToResult(r).ts = r.ts /\ ToResult(r).labels = r.attrs
         /\ ToResult(r).data = DataOf(r) /\ ToResult(r).val = r.val
<1>1. r.ts \in Int /\ r.val \in Fractions
  BY RowsAreTyped DEF Fractions
<1>2. ToResult(r) = [type |-> r.type, ts |-> r.ts, labels |-> r.attrs, data |-> DataOf(r), val |-> r.val]
  BY DEF ToResult, Result
<1>3. /\ ToResult(r).type = r.type /\ ToResult(r).ts = r.ts /\ ToResult(r).labels = r.attrs
      /\ ToResult(r).data = DataOf(r) /\ ToResult(r).val = r.val
  BY <1>2
<1> QED BY <1>1, <1>2, <1>3 DEF IsResult

(* a list of n different members of T has all of them when T has n          *)
LEMMA CountedList ==
  ASSUME NEW n \in Nat, NEW T, IsFiniteSet(T), NEW f, \A i \in 1..n : f[i] \in T,
         \A i, j \in 1..n : i # j => f[i] # f[j]
  PROVE  /\ n <= Cardinality(T)
         /\ (Cardinality(T) = n) <=> (\A t \in T : \E i \in 1..n : f[i] = t)
<1> DEFINE g == [i \in 1..n |-> f[i]]
<1>1. g \in [1..n -> T] /\ \A i \in 1..n : g[i] = f[i]
  OBVIOUS
<1> HIDE DEF g
<1>2. g \in Injection(1..n, T)
  BY <1>1 DEF Injection, IsInjective
<1>3. Cardinality(1..n) = n
  BY FS_Interval
<1>4. n <= Cardinality(T) /\ (n = Cardinality(T) <=> g \in Surjection(1..n, T))
  BY <1>2, <1>3, FS_Injection
<1>5. g \in Surjection(1..n, T) <=> (\A t \in T : \E i \in 1..n : f[i] = t)
  BY <1>1 DEF Surjection
<1> QED BY <1>4, <1>5

(* rows are the newest of the set, each once and the newest first: one that *)
(* is not among them is no newer than Limit others                          *)
LEMMA NewestFacts ==
  ASSUME NEW S \in SUBSET Rows, NEW rows \in NewestFirst(S)
  PROVE  /\ IsSequence(rows) /\ Len(rows) <= Cardinality(S) /\ Cardinality(S) \in Nat
         /\ \A i \in 1..Len(rows) : rows[i] \in S
         /\ \A i, j \in 1..Len(rows) : i # j => rows[i] # rows[j]
         /\ \A i, j \in 1..Len(rows) : i < j => rows[i].ts >= rows[j].ts
         /\ \A r \in S : \/ \E i \in 1..Len(rows) : rows[i] = r
                       \/ Cardinality({x \in S \ {r} : x.ts >= r.ts}) >= Limit
<1> DEFINE n == Cardinality(S)
<1>1. IsFiniteSet(S)
  BY RowsAreTyped, FS_Subset
<1>2. n \in Nat
  BY <1>1, FS_CardinalityType
<1>3. PICK s \in SetToSeqs(S) :
        /\ \A i, j \in DOMAIN s : i < j => s[i].ts >= s[j].ts
        /\ rows = SubSeq(s, 1, Min({Limit, Len(s)}))
  BY DEF NewestFirst
<1>4. s \in [1..n -> S] /\ \A i, j \in 1..n : i # j => s[i] # s[j]
  BY DEF SetToSeqs
<1>5. s \in Seq(S) /\ Len(s) = n /\ DOMAIN s = 1..n
  BY <1>2, <1>4
<1> DEFINE m == Min({Limit, n})
<1>6. m = (IF Limit <= n THEN Limit ELSE n)
  BY <1>2, LimitIsNumber DEF Min
<1> HIDE DEF m
<1>7. m \in 0..n /\ (m = n \/ m = Limit)
  BY <1>2, <1>6, LimitIsNumber
<1>8. rows = SubSeq(s, 1, m)
  BY <1>3, <1>5 DEF m
<1>9. rows \in Seq(S) /\ Len(rows) = m /\ \A i \in 1..m : rows[i] = s[i]
  BY <1>5, <1>7, <1>8
<1>10. \A i \in 1..m : i \in 1..n
  BY <1>2, <1>7
<1>11. IsSequence(rows)
  BY <1>9 DEF IsSequence
<1>12. \A i \in 1..m : rows[i] \in S
  BY <1>4, <1>9, <1>10
<1>13. \A i, j \in 1..m : i # j => rows[i] # rows[j]
  BY <1>4, <1>9, <1>10
<1>14. \A i, j \in 1..m : i < j => rows[i].ts >= rows[j].ts
  BY <1>3, <1>5, <1>9, <1>10
<1>15. ASSUME NEW r \in S, ~\E i \in 1..m : rows[i] = r
       PROVE  Cardinality({x \in S \ {r} : x.ts >= r.ts}) >= Limit
  <2>1. PICK j \in 1..n : s[j] = r
    BY <1>1, <1>2, <1>4, CountedList
  <2>2. j \notin 1..m
    BY <1>9, <1>15, <2>1
  <2>3. m = Limit /\ m \in Nat /\ \A i \in 1..m : i \in 1..n /\ i < j
    BY <1>2, <1>7, <2>1, <2>2
  <2> DEFINE T == {x \in S \ {r} : x.ts >= r.ts}
  <2>4. \A i \in 1..m : s[i] \in T
    BY <1>3, <1>4, <1>5, <2>1, <2>3
  <2>5. \A i, k \in 1..m : i # k => s[i] # s[k]
    BY <1>4, <2>3
  <2>6. IsFiniteSet(T)
    BY <1>1, FS_Subset
  <2> HIDE DEF T
  <2>7. m <= Cardinality(T) /\ Cardinality(T) \in Nat
    BY <2>3, <2>4, <2>5, <2>6, CountedList, FS_CardinalityType
  <2> QED BY <2>3, <2>7 DEF T
<1> QED BY <1>2, <1>7, <1>9, <1>11, <1>12, <1>13, <1>14, <1>15

Matching(q, rows) == {i \in DOMAIN rows : MatchesSelectors(rows[i].attrs, LabelSelectors(q))}

LEMMA ReadFacts ==
  ASSUME NEW q, NEW rows, IsSequence(rows), \A i \in 1..Len(rows) : rows[i] \in Rows
  PROVE  LET kept == Keep(rows, Matching(q, rows))
         IN  /\ IsList(ReadBy(q, rows)) /\ Len(ReadBy(q, rows)) = Len(kept)
             /\ IsSequence(kept) /\ \E at : PicksAt(rows, Matching(q, rows), Len(rows), kept, at)
             /\ \A k \in 1..Len(kept) : kept[k] \in Rows /\ ReadBy(q, rows)[k] = ToResult(kept[k])
<1> DEFINE kept == Keep(rows, Matching(q, rows))
<1>1. Picks(rows, Matching(q, rows), Len(rows), kept)
  BY KeepFacts
<1>2. ReadBy(q, rows) = [k \in DOMAIN kept |-> ToResult(kept[k])]
  BY DEF ReadBy, Matching
<1> HIDE DEF kept
<1>3. PICK at : PicksAt(rows, Matching(q, rows), Len(rows), kept, at)
  BY <1>1 DEF Picks
<1>4. IsSequence(kept) /\ Len(kept) \in Nat /\ DOMAIN kept = 1..Len(kept)
  BY <1>1, SequenceFacts DEF Picks
<1>5. \A k \in 1..Len(kept) : at[k] \in 1..Len(rows) /\ kept[k] = rows[at[k]]
  BY <1>3 DEF PicksAt
<1>6. \A k \in 1..Len(kept) : kept[k] \in Rows
  BY <1>5
<1> DEFINE read == ReadBy(q, rows)
<1>7. \A k \in 1..Len(kept) : read[k] = ToResult(kept[k])
  BY <1>2, <1>4
<1>8. read = [k \in 1..Len(kept) |-> read[k]]
  BY <1>2, <1>4
<1> HIDE DEF read
<1>9. IsSequence(read) /\ Len(read) = Len(kept)
  BY <1>4, <1>8, FunctionIsSequence
<1>10. \A k \in 1..Len(kept) : IsResult(read[k])
  BY <1>6, <1>7, RowFacts
<1>11. IsList(read)
  BY <1>9, <1>10 DEF IsList
<1> QED BY <1>3, <1>4, <1>6, <1>7, <1>9, <1>11 DEF kept, read

-----------------------------------------------------------------------------
(* The visitor: the stack holds lists of results, as many as the tree says. *)

Heights(q, results) ==
  /\ results[0] = 0 /\ results[Len(q)] = 1
  /\ \A k \in 1..Len(q) :
       /\ q[k].kind \in {"telemetry", "call", "aggregation", "binary"}
       /\ Arity(q[k]) <= results[k - 1]
       /\ results[k] = results[k - 1] - Arity(q[k]) + 1
       /\ results[k - 1] \in Nat /\ results[k] \in Nat

IsStack(lists) == IsSequence(lists) /\ \A k \in 1..Len(lists) : IsList(lists[k])

Contexts == [agent_id : Agents \cup {Unset}, group_id : Groups \cup {Unset}]

EngineInv ==
  /\ store \subseteq Rows /\ query \in Queries /\ execCtx \in Contexts
  /\ next \in 1..(Len(query) + 1)
  /\ status \in {"running", "done", "failed"}
  /\ (status = "done") <=> (next = Len(query) + 1)
  /\ IsStack(stack)
  /\ \E results : Heights(query, results) /\ Len(stack) = results[next - 1]

LEMMA TreeHeights ==
  ASSUME NEW q \in Queries
  PROVE  Len(q) \in Nat \ {0} /\ \E results : Heights(q, results)
<1>1. Len(q) \in Nat /\ IsTree(q)
  BY QueriesAreTrees
<1>2. PICK results \in [0..Len(q) -> 0..Len(q)] :
        /\ results[0] = 0 /\ results[Len(q)] = 1
        /\ \A k \in 1..Len(q) :
             /\ q[k].kind \in {"telemetry", "call", "aggregation", "binary"}
             /\ Arity(q[k]) <= results[k - 1]
             /\ results[k] = results[k - 1] - Arity(q[k]) + 1
  BY <1>1 DEF IsTree
<1>3. \A k \in 1..Len(q) : k - 1 \in 0..Len(q) /\ k \in 0..Len(q)
  BY <1>1
<1>4. \A k \in 1..Len(q) : results[k - 1] \in Nat /\ results[k] \in Nat
  BY <1>1, <1>2, <1>3
<1>5. Heights(q, results)
  BY <1>2, <1>4 DEF Heights
<1>6. Len(q) # 0
  BY <1>2
<1> QED BY <1>1, <1>5, <1>6

(* the results that an operator takes are there *)
LEMMA OperandsThere ==
  ASSUME EngineInv, status = "running"
  PROVE  /\ next \in 1..Len(query) /\ Len(query) \in Nat /\ Len(stack) \in Nat
         /\ Arity(query[next]) <= Len(stack)
         /\ query[next].kind \in {"telemetry", "call", "aggregation", "binary"}
<1>1. PICK results : Heights(query, results) /\ Len(stack) = results[next - 1]
  BY DEF EngineInv
<1>2. query \in Queries /\ next \in 1..(Len(query) + 1) /\ next # Len(query) + 1 /\ IsSequence(stack)
  BY DEF EngineInv, IsStack
<1>3. Len(query) \in Nat
  BY <1>2, TreeHeights
<1>4. next \in 1..Len(query)
  BY <1>2, <1>3
<1> QED BY <1>1, <1>2, <1>3, <1>4, SequenceFacts DEF Heights

LEMMA Stacked ==
  ASSUME NEW lists, IsStack(lists), NEW rs, IsList(rs), NEW n \in 0..Len(lists)
  PROVE  LET new == Append(SubSeq(lists, 1, Len(lists) - n), rs)
         IN  IsStack(new) /\ Len(new) = Len(lists) - n + 1 /\ new[Len(new)] = rs
<1> DEFINE m == Len(lists) - n
           low == SubSeq(lists, 1, m)
           new == Append(low, rs)
<1>1. PICK S : lists \in Seq(S)
  BY DEF IsStack, IsSequence
<1>2. Len(lists) \in Nat
  BY <1>1
<1>3. m \in 0..Len(lists)
  BY <1>2
<1> HIDE DEF m
<1>4. low \in Seq(S) /\ Len(low) = m /\ \A k \in 1..m : low[k] = lists[k] /\ k \in 1..Len(lists)
  BY <1>1, <1>2, <1>3
<1> HIDE DEF low
<1>5. IsSequence(low)
  BY <1>4 DEF IsSequence
<1>6. IsSequence(new) /\ Len(new) = m + 1 /\ new[m + 1] = rs /\ \A k \in 1..m : new[k] = low[k]
  BY <1>4, <1>5, AppendIsSequence
<1> HIDE DEF new
<1>7. ASSUME NEW k \in 1..Len(new)
      PROVE  IsList(new[k])
  <2>1. k = m + 1 \/ k \in 1..m
    BY <1>3, <1>6
  <2> QED BY <1>4, <1>6, <2>1 DEF IsStack
<1>8. IsStack(new)
  BY <1>6, <1>7 DEF IsStack
<1> QED BY <1>6, <1>8 DEF new, low, m

LEMMA AnswersTyped ==
  ASSUME EngineInv, status = "running", NEW rs, IsList(rs), NEW n \in Nat, n = Arity(query[next]), Answers(rs, n)
  PROVE  EngineInv' /\ Answer = rs
<1>1. /\ next \in 1..Len(query) /\ Len(query) \in Nat /\ Len(stack) \in Nat
      /\ n <= Len(stack)
  BY OperandsThere
<1>2. /\ stack' = Append(SubSeq(stack, 1, Len(stack) - n), rs) /\ next' = next + 1
      /\ status' = (IF next = Len(query) THEN "done" ELSE "running")
      /\ store' = store /\ query' = query /\ execCtx' = execCtx
  BY DEF Answers
<1>3. IsStack(stack') /\ Len(stack') = Len(stack) - n + 1 /\ stack'[Len(stack')] = rs
  BY <1>1, <1>2, Stacked DEF EngineInv
<1>4. PICK results : Heights(query, results) /\ Len(stack) = results[next - 1]
  BY DEF EngineInv
<1>5. results[next] = results[next - 1] - n + 1
  BY <1>1, <1>4 DEF Heights
<1>6. next' \in 1..(Len(query) + 1) /\ next' - 1 = next /\ (next' = Len(query) + 1 <=> next = Len(query))
  BY <1>1, <1>2
<1>7. Heights(query', results) /\ Len(stack') = results[next' - 1]
  BY <1>2, <1>3, <1>4, <1>5, <1>6
<1>8. store' \subseteq Rows /\ query' \in Queries /\ execCtx' \in Contexts
  BY <1>2 DEF EngineInv
<1>9. status' \in {"running", "done", "failed"} /\ (status' = "done" <=> next' = Len(query') + 1)
  BY <1>2, <1>6
<1>10. next' \in 1..(Len(query') + 1)
  BY <1>2, <1>6
<1>11. EngineInv'
  BY <1>3, <1>7, <1>8, <1>9, <1>10 DEF EngineInv
<1> QED BY <1>3, <1>11 DEF Answer

LEMMA FailsTyped ==
  ASSUME EngineInv, status = "running", Fails
  PROVE  EngineInv' /\ next' = next
<1>1. /\ status' = "failed" /\ store' = store /\ query' = query /\ execCtx' = execCtx
      /\ next' = next /\ stack' = stack
  BY DEF Fails
<1>2. next # Len(query) + 1
  BY DEF EngineInv
<1> QED BY <1>1, <1>2 DEF EngineInv

LEMMA OutcomeTyped ==
  ASSUME EngineInv, status = "running", NEW o, IsOutcome(o), 1 = Arity(query[next]), Outcome(o, 1)
  PROVE  EngineInv' /\ (next' = next + 1 => o.ok /\ Answer = o.rs)
<1>1. CASE o.ok
  <2>1. IsList(o.rs) /\ Answers(o.rs, 1)
    BY <1>1 DEF IsOutcome, Outcome
  <2> QED BY <1>1, <2>1, AnswersTyped
<1>2. CASE ~o.ok
  <2>1. Fails
    BY <1>2 DEF Outcome
  <2>2. next + 1 # next
    BY DEF EngineInv
  <2> QED BY <2>1, <2>2, FailsTyped
<1> QED BY <1>1, <1>2

LEMMA SelectedRows ==
  ASSUME store \subseteq Rows, NEW q, NEW rows \in Selected(q)
  PROVE  \E w \in WhereClauses(q) : Where(q, w) \in SUBSET Rows /\ rows \in NewestFirst(Where(q, w))
<1>1. PICK w \in WhereClauses(q) : rows \in NewestFirst(Where(q, w))
  BY DEF Selected
<1>2. Where(q, w) \in SUBSET Rows
  BY DEF Where
<1> QED BY <1>1, <1>2

LEMMA TelemetryKeeps ==
  ASSUME EngineInv, VisitTelemetryQuery
  PROVE  /\ EngineInv'
         /\ next' = next + 1 => \E rows \in Selected(query[next]) : Answer = ReadBy(query[next], rows)
<1>1. status = "running" /\ query[next].kind = "telemetry"
  BY DEF VisitTelemetryQuery, Visiting
<1>2. Arity(query[next]) = 0
  BY <1>1 DEF Arity
<1>3. next + 1 # next /\ store \subseteq Rows
  BY DEF EngineInv
<1>4. CASE Fails
  BY <1>1, <1>3, <1>4, FailsTyped
<1>5. ASSUME NEW rows \in Selected(query[next]), Answers(ReadBy(query[next], rows), 0)
      PROVE  EngineInv' /\ Answer = ReadBy(query[next], rows)
  <2>1. PICK w \in WhereClauses(query[next]) :
          Where(query[next], w) \in SUBSET Rows /\ rows \in NewestFirst(Where(query[next], w))
    BY <1>3, SelectedRows
  <2>2. IsSequence(rows) /\ \A i \in 1..Len(rows) : rows[i] \in Rows
    BY <2>1, NewestFacts
  <2>3. IsList(ReadBy(query[next], rows))
    BY <2>2, ReadFacts
  <2> QED BY <1>1, <1>2, <1>5, <2>3, AnswersTyped
<1>6. Fails \/ \E rows \in Selected(query[next]) : Answers(ReadBy(query[next], rows), 0)
  BY DEF VisitTelemetryQuery
<1> QED BY <1>4, <1>5, <1>6

LEMMA BinaryKeeps ==
  ASSUME EngineInv, VisitBinaryOp
  PROVE  EngineInv'
<1> DEFINE left == stack[Len(stack) - 1]
           right == stack[Len(stack)]
<1>1. status = "running" /\ query[next].kind = "binary"
  BY DEF VisitBinaryOp, Visiting
<1>2. Arity(query[next]) = 2
  BY <1>1 DEF Arity
<1>3. Len(stack) \in Nat /\ 2 <= Len(stack)
  BY <1>1, <1>2, OperandsThere
<1>4. Len(stack) - 1 \in 1..Len(stack) /\ Len(stack) \in 1..Len(stack)
  BY <1>3
<1>5. IsList(left) /\ IsList(right)
  BY <1>4 DEF EngineInv, IsStack
<1>6. Fails \/ Answers(left \o right, 2) \/ Answers(IntersectResults(left, right), 2)
  BY DEF VisitBinaryOp
<1> HIDE DEF left, right
<1>7. IsList(left \o right)
  BY <1>5, JoinedList
<1>8. IsList(IntersectResults(left, right))
  BY <1>5, KeptList DEF IntersectResults
<1>9. CASE Fails
  BY <1>1, <1>9, FailsTyped
<1>10. CASE Answers(left \o right, 2)
  BY <1>1, <1>2, <1>7, <1>10, AnswersTyped
<1>11. CASE Answers(IntersectResults(left, right), 2)
  BY <1>1, <1>2, <1>8, <1>11, AnswersTyped
<1> QED BY <1>6, <1>9, <1>10, <1>11

LEMMA OperandTyped ==
  ASSUME EngineInv, status = "running", Arity(query[next]) = 1
  PROVE  IsList(Operand)
<1>1. Len(stack) \in 1..Len(stack)
  BY OperandsThere
<1> QED BY <1>1 DEF Operand, EngineInv, IsStack

LEMMA CallKeeps ==
  ASSUME EngineInv, VisitFunctionCall
  PROVE  /\ EngineInv'
         /\ next' = next + 1 => /\ IsList(Operand)
                                /\ \E o \in Apply(query[next].name, Operand) : o.ok /\ Answer = o.rs
<1>1. status = "running" /\ query[next].kind = "call"
  BY DEF VisitFunctionCall, Visiting
<1>2. next + 1 # next
  BY DEF EngineInv
<1>3. CASE query[next].args = 0
  <2>1. Fails
    BY <1>3 DEF VisitFunctionCall
  <2> QED BY <1>1, <1>2, <2>1, FailsTyped
<1>4. CASE query[next].args # 0
  <2>1. Arity(query[next]) = 1
    BY <1>1, <1>4 DEF Arity
  <2>2. IsList(Operand)
    BY <1>1, <2>1, OperandTyped
  <2>3. PICK o \in Apply(query[next].name, Operand) : Outcome(o, 1)
    BY <1>4 DEF VisitFunctionCall, Operand
  <2>4. IsOutcome(o)
    BY <2>2, ApplyTyped
  <2> QED BY <1>1, <2>1, <2>2, <2>3, <2>4, OutcomeTyped
<1> QED BY <1>3, <1>4

LEMMA AggregationKeeps ==
  ASSUME EngineInv, VisitAggregation
  PROVE  /\ EngineInv'
         /\ (next' = next + 1 /\ query[next].by # <<>>)
            => /\ IsList(Operand)
               /\ \E o \in GroupAndAggregate(Operand, query[next].by, query[next].name) : o.ok /\ Answer = o.rs
<1>1. status = "running" /\ query[next].kind = "aggregation"
  BY DEF VisitAggregation, Visiting
<1>2. Arity(query[next]) = 1
  BY <1>1 DEF Arity
<1>3. IsList(Operand)
  BY <1>1, <1>2, OperandTyped
<1>4. next + 1 # next
  BY DEF EngineInv
<1>5. CASE query[next].name \notin Functions
  <2>1. Fails
    BY <1>5 DEF VisitAggregation
  <2> QED BY <1>1, <1>4, <2>1, FailsTyped
<1>6. CASE query[next].name \in Functions /\ query[next].by = <<>>
  <2>1. PICK o \in Apply(query[next].name, Operand) : Outcome(o, 1)
    BY <1>6 DEF VisitAggregation, Operand
  <2>2. IsOutcome(o)
    BY <1>3, ApplyTyped
  <2> QED BY <1>1, <1>2, <1>6, <2>1, <2>2, OutcomeTyped
<1>7. CASE query[next].name \in Functions /\ query[next].by # <<>>
  <2>1. PICK o \in GroupAndAggregate(Operand, query[next].by, query[next].name) : Outcome(o, 1)
    BY <1>7 DEF VisitAggregation, Operand
  <2>2. IsOutcome(o)
    BY <1>3, GroupTyped
  <2> QED BY <1>1, <1>2, <1>3, <2>1, <2>2, OutcomeTyped
<1> QED BY <1>5, <1>6, <1>7

LEMMA EngineStep ==
  ASSUME EngineInv, [EngineNext]_engineVars
  PROVE  EngineInv'
<1>1. CASE VisitTelemetryQuery
  BY <1>1, TelemetryKeeps
<1>2. CASE StoreFails
  BY <1>2, FailsTyped DEF StoreFails, Visiting
<1>3. CASE VisitBinaryOp
  BY <1>3, BinaryKeeps
<1>4. CASE VisitFunctionCall
  BY <1>4, CallKeeps
<1>5. CASE VisitAggregation
  BY <1>5, AggregationKeeps
<1>6. CASE \E r \in Rows : Write(r)
  <2>1. PICK r \in Rows : Write(r)
    BY <1>6
  <2>2. /\ store' = store \cup {r} /\ query' = query /\ execCtx' = execCtx
        /\ next' = next /\ stack' = stack /\ status' = status
    BY <2>1 DEF Write
  <2> QED BY <2>2 DEF EngineInv
<1>7. CASE UNCHANGED engineVars
  BY <1>7 DEF EngineInv, engineVars
<1> QED BY <1>1, <1>2, <1>3, <1>4, <1>5, <1>6, <1>7 DEF EngineNext

LEMMA EngineStart ==
  ASSUME EngineInit
  PROVE  EngineInv
<1>1. /\ store \subseteq Rows /\ query \in Queries /\ execCtx \in Contexts
      /\ next = 1 /\ stack = <<>> /\ status = "running"
  BY DEF EngineInit, Contexts
<1>2. Len(query) \in Nat \ {0}
  BY <1>1, TreeHeights
<1>3. PICK results : Heights(query, results)
  BY <1>1, TreeHeights
<1>4. IsSequence(stack) /\ Len(stack) = 0
  BY <1>1, EmptyIsSequence
<1>5. next \in 1..(Len(query) + 1) /\ next # Len(query) + 1 /\ next - 1 = 0
  BY <1>1, <1>2
<1>6. Len(stack) = results[next - 1]
  BY <1>3, <1>4, <1>5 DEF Heights
<1>7. IsStack(stack)
  BY <1>4 DEF IsStack
<1> QED BY <1>1, <1>3, <1>5, <1>6, <1>7 DEF EngineInv

LEMMA EngineAlways == EngineSpec => []EngineInv
BY EngineStart, EngineStep, PTL DEF EngineSpec

(* A query that is done leaves one result, however its operands, calls and  *)
(* aggregations were nested: no visit finds fewer results on the stack than *)
(* it takes (executor.go, the Visit methods).                               *)
THEOREM EngineTypeCorrect == EngineSpec => []EngineTypeOK
<1>1. EngineInv => EngineTypeOK
  <2>1. SUFFICES ASSUME EngineInv PROVE EngineTypeOK
    OBVIOUS
  <2>2. ASSUME status = "done" PROVE Len(stack) = 1
    <3>1. PICK results : Heights(query, results) /\ Len(stack) = results[next - 1]
      BY <2>1 DEF EngineInv
    <3>2. Len(query) \in Nat
      BY <2>1, TreeHeights DEF EngineInv
    <3>3. next = Len(query) + 1
      BY <2>1, <2>2 DEF EngineInv
    <3>4. next - 1 = Len(query)
      BY <3>2, <3>3
    <3> QED BY <3>1, <3>4 DEF Heights
  <2> QED BY <2>1, <2>2 DEF EngineInv, EngineTypeOK, Contexts
<1> QED BY <1>1, EngineAlways, PTL

-----------------------------------------------------------------------------
(* The order of fractions. w is at least v when the cross difference of     *)
(* v and w is at least 0.                                                   *)

Cross(v, w) == w.n * v.d - v.n * w.d

LEMMA FractionParts ==
  ASSUME NEW v, IsFraction(v)
  PROVE  v.n \in Int /\ v.d \in Nat \ {0}
BY DEF IsFraction, Fractions

LEMMA CrossOrder ==
  ASSUME NEW v \in Fractions, NEW w \in Fractions
  PROVE  /\ Cross(v, w) \in Int
         /\ AtMost(v, w) <=> Cross(v, w) >= 0
         /\ ~AtMost(v, w) <=> Cross(v, w) < 0
<1>1. v.n \in Int /\ v.d \in Nat /\ w.n \in Int /\ w.d \in Nat
  BY DEF Fractions
<1>2. w.n * v.d \in Int /\ v.n * w.d \in Int
  BY <1>1
<1> DEFINE x == w.n * v.d
           y == v.n * w.d
<1>3. x \in Int /\ y \in Int /\ Cross(v, w) = x - y /\ (AtMost(v, w) <=> ~(x < y))
  BY <1>2 DEF Cross, AtMost, Less
<1> HIDE DEF x, y
<1> QED BY <1>3

LEMMA Products ==
  ASSUME NEW x \in Int, NEW y \in Int
  PROVE  /\ x * y \in Int
         /\ x >= 0 /\ y >= 0 => x * y >= 0
         /\ x > 0 /\ y > 0 => x * y > 0
         /\ x < 0 /\ y > 0 => x * y < 0
         /\ x <= 0 /\ y >= 0 => x * y <= 0
         /\ x * y >= 0 /\ y > 0 => x >= 0
OBVIOUS

LEMMA CrossChain ==
  ASSUME NEW an \in Int, NEW ad \in Int, NEW bn \in Int, NEW bd \in Int, NEW cn \in Int, NEW cd \in Int
  PROVE  (cn * ad - an * cd) * bd = (bn * ad - an * bd) * cd + (cn * bd - bn * cd) * ad
OBVIOUS

LEMMA AtMostTransitive ==
  ASSUME NEW a, NEW b, NEW c, IsFraction(a), IsFraction(b), IsFraction(c), AtMost(a, b), AtMost(b, c)
  PROVE  AtMost(a, c)
<1>1. /\ a.n \in Int /\ a.d \in Nat \ {0} /\ b.n \in Int /\ b.d \in Nat \ {0}
      /\ c.n \in Int /\ c.d \in Nat \ {0}
  BY FractionParts
<1>2. a \in Fractions /\ b \in Fractions /\ c \in Fractions
  BY DEF IsFraction
<1>3. Cross(a, b) \in Int /\ Cross(b, c) \in Int /\ Cross(a, c) \in Int /\ Cross(a, b) >= 0 /\ Cross(b, c) >= 0
  BY <1>2, CrossOrder
<1>4. Cross(a, c) * b.d = Cross(a, b) * c.d + Cross(b, c) * a.d
  BY <1>1, CrossChain DEF Cross
<1> DEFINE x == Cross(a, b) * c.d
           y == Cross(b, c) * a.d
<1>5. x \in Int /\ y \in Int /\ x >= 0 /\ y >= 0
  BY <1>1, <1>3, Products
<1> HIDE DEF x, y
<1>6. x + y >= 0
  BY <1>5
<1>7. Cross(a, c) * b.d >= 0
  BY <1>4, <1>6 DEF x, y
<1>8. Cross(a, c) >= 0
  BY <1>1, <1>3, <1>7, Products
<1> QED BY <1>2, <1>8, CrossOrder

LEMMA AtMostReflexive ==
  ASSUME NEW v \in Fractions
  PROVE  AtMost(v, v)
BY DEF Fractions, AtMost, Less

-----------------------------------------------------------------------------
(* Interpolation.                                                           *)

Between(a, b, w) == Over(Plus(Times(a, 100 - w), Times(b, w)), 100)

LEMMA BetweenAbove ==
  ASSUME NEW an \in Int, NEW ad \in Int, NEW bn \in Int, NEW bd \in Int, NEW w \in Int
  PROVE  /\ (an * (100 - w) * bd + bn * w * ad) * ad - an * (ad * bd * 100) = (w * ad) * (bn * ad - an * bd)
         /\ bn * (ad * bd * 100) - (an * (100 - w) * bd + bn * w * ad) * bd = ((100 - w) * bd) * (bn * ad - an * bd)
OBVIOUS

LEMMA BetweenGrows ==
  ASSUME NEW an \in Int, NEW ad \in Int, NEW bn \in Int, NEW bd \in Int, NEW w \in Int, NEW u \in Int, NEW d \in Int
  PROVE  (an * (100 - u) * bd + bn * u * ad) * d - (an * (100 - w) * bd + bn * w * ad) * d
           = ((u - w) * d) * (bn * ad - an * bd)
OBVIOUS

LEMMA BetweenParts ==
  ASSUME NEW a, NEW b, IsFraction(a), IsFraction(b), NEW w \in 0..100
  PROVE  /\ IsFraction(Between(a, b, w))
         /\ Between(a, b, w).n = a.n * (100 - w) * b.d + b.n * w * a.d
         /\ Between(a, b, w).d = a.d * b.d * 100
<1>1. a.n \in Int /\ a.d \in Nat \ {0} /\ b.n \in Int /\ b.d \in Nat \ {0}
  BY FractionParts
<1>2. a \in Fractions /\ b \in Fractions
  BY DEF IsFraction
<1>3. 100 - w \in Nat /\ w \in Nat
  OBVIOUS
<1> DEFINE x == Times(a, 100 - w)
           y == Times(b, w)
<1>4. x \in Fractions /\ y \in Fractions /\ x.d # 0 /\ y.d # 0
  BY <1>1, <1>2, <1>3, OverTyped
<1>5. x.n = a.n * (100 - w) /\ x.d = a.d /\ y.n = b.n * w /\ y.d = b.d
  BY DEF Times
<1> HIDE DEF x, y
<1> DEFINE p == Plus(x, y)
<1>6. p \in Fractions /\ p.d # 0 /\ p.n = x.n * y.d + y.n * x.d /\ p.d = x.d * y.d
  BY <1>4, PlusTyped DEF Plus
<1> HIDE DEF p
<1>7. Over(p, 100) \in Fractions /\ Over(p, 100).d # 0 /\ Over(p, 100).n = p.n /\ Over(p, 100).d = p.d * 100
  <2>1. 100 \in Nat /\ 100 # 0
    OBVIOUS
  <2> QED BY <1>6, <2>1, OverTyped DEF Over
<1>8. Between(a, b, w) = Over(p, 100)
  BY DEF Between, p, x, y
<1> QED BY <1>5, <1>6, <1>7, <1>8 DEF IsFraction

LEMMA BetweenBounds ==
  ASSUME NEW a, NEW b, IsFraction(a), IsFraction(b), AtMost(a, b), NEW w \in 0..100
  PROVE  /\ IsFraction(Between(a, b, w))
         /\ AtMost(a, Between(a, b, w)) /\ AtMost(Between(a, b, w), b)
<1> DEFINE v == Between(a, b, w)
<1>1. a.n \in Int /\ a.d \in Nat \ {0} /\ b.n \in Int /\ b.d \in Nat \ {0}
  BY FractionParts
<1>2. IsFraction(v) /\ v.n = a.n * (100 - w) * b.d + b.n * w * a.d /\ v.d = a.d * b.d * 100
  BY BetweenParts
<1>3. a \in Fractions /\ b \in Fractions /\ v \in Fractions
  BY <1>2 DEF IsFraction
<1>4. Cross(a, b) \in Int /\ Cross(a, b) >= 0
  BY <1>3, CrossOrder
<1>5. Cross(a, v) = (w * a.d) * Cross(a, b) /\ Cross(v, b) = ((100 - w) * b.d) * Cross(a, b)
  <2> DEFINE an == a.n
             ad == a.d
             bn == b.n
             bd == b.d
  <2>1. /\ (an * (100 - w) * bd + bn * w * ad) * ad - an * (ad * bd * 100) = (w * ad) * (bn * ad - an * bd)
        /\ bn * (ad * bd * 100) - (an * (100 - w) * bd + bn * w * ad) * bd = ((100 - w) * bd) * (bn * ad - an * bd)
    <3>1. an \in Int /\ ad \in Int /\ bn \in Int /\ bd \in Int /\ w \in Int
      BY <1>1
    <3> HIDE DEF an, ad, bn, bd
    <3> QED BY <3>1, BetweenAbove
  <2>2. v.n = an * (100 - w) * bd + bn * w * ad /\ v.d = ad * bd * 100
    BY <1>2
  <2>3. Cross(a, v) = v.n * ad - an * v.d /\ Cross(v, b) = bn * v.d - v.n * bd /\ Cross(a, b) = bn * ad - an * bd
    BY DEF Cross
  <2> HIDE DEF an, ad, bn, bd, v
  <2> QED BY <2>1, <2>2, <2>3 DEF ad, bd
<1>6. w * a.d \in Int /\ w * a.d >= 0 /\ (100 - w) * b.d \in Int /\ (100 - w) * b.d >= 0
  BY <1>1, Products
<1> DEFINE x == w * a.d
           y == (100 - w) * b.d
<1> HIDE DEF v
<1>7. x * Cross(a, b) >= 0 /\ y * Cross(a, b) >= 0
  <2> HIDE DEF x, y
  <2> QED BY <1>4, <1>6, Products DEF x, y
<1>8. Cross(a, v) >= 0 /\ Cross(v, b) >= 0
  BY <1>5, <1>7
<1>9. AtMost(a, v) /\ AtMost(v, b)
  BY <1>3, <1>8, CrossOrder
<1> QED BY <1>2, <1>9 DEF v

LEMMA BetweenOrdered ==
  ASSUME NEW a, NEW b, IsFraction(a), IsFraction(b), AtMost(a, b), NEW w \in 0..100, NEW u \in 0..100, w <= u
  PROVE  AtMost(Between(a, b, w), Between(a, b, u))
<1> DEFINE v == Between(a, b, w)
           z == Between(a, b, u)
           d == a.d * b.d * 100
<1>1. a.n \in Int /\ a.d \in Nat \ {0} /\ b.n \in Int /\ b.d \in Nat \ {0}
  BY FractionParts
<1>2. /\ IsFraction(v) /\ v.n = a.n * (100 - w) * b.d + b.n * w * a.d /\ v.d = d
      /\ IsFraction(z) /\ z.n = a.n * (100 - u) * b.d + b.n * u * a.d /\ z.d = d
  <2>1. IsFraction(v) /\ v.n = a.n * (100 - w) * b.d + b.n * w * a.d /\ v.d = d
    BY BetweenParts
  <2>2. IsFraction(z) /\ z.n = a.n * (100 - u) * b.d + b.n * u * a.d /\ z.d = d
    BY BetweenParts
  <2> QED BY <2>1, <2>2
<1>3. a \in Fractions /\ b \in Fractions /\ v \in Fractions /\ z \in Fractions
  BY <1>2 DEF IsFraction
<1>4. Cross(a, b) \in Int /\ Cross(a, b) >= 0
  BY <1>3, CrossOrder
<1> HIDE DEF v, z, d
<1>5. d \in Nat
  BY <1>2, <1>3 DEF Fractions
<1>6. Cross(v, z) = ((u - w) * d) * Cross(a, b)
  <2> DEFINE an == a.n
             ad == a.d
             bn == b.n
             bd == b.d
  <2>1. (an * (100 - u) * bd + bn * u * ad) * d - (an * (100 - w) * bd + bn * w * ad) * d
          = ((u - w) * d) * (bn * ad - an * bd)
    <3>1. an \in Int /\ ad \in Int /\ bn \in Int /\ bd \in Int /\ w \in Int /\ u \in Int /\ d \in Int
      BY <1>1, <1>5
    <3> HIDE DEF an, ad, bn, bd
    <3> QED BY <3>1, BetweenGrows
  <2>2. v.n = an * (100 - w) * bd + bn * w * ad /\ z.n = an * (100 - u) * bd + bn * u * ad /\ v.d = d /\ z.d = d
    BY <1>2
  <2>3. Cross(v, z) = z.n * v.d - v.n * z.d /\ Cross(a, b) = bn * ad - an * bd
    BY DEF Cross
  <2> HIDE DEF an, ad, bn, bd
  <2> QED BY <2>1, <2>2, <2>3
<1>7. u - w \in Int /\ u - w >= 0
  OBVIOUS
<1>8. (u - w) * d \in Int /\ (u - w) * d >= 0
  BY <1>5, <1>7, Products
<1> DEFINE x == (u - w) * d
<1> HIDE DEF x
<1>9. x * Cross(a, b) >= 0
  BY <1>4, <1>8, Products DEF x
<1>10. Cross(v, z) >= 0
  BY <1>6, <1>9 DEF x
<1> QED BY <1>3, <1>10, CrossOrder DEF v, z

-----------------------------------------------------------------------------
(* Quantiles of a sorted list of numbers.                                   *)

Ascending(s) ==
  /\ IsSequence(s) /\ s # <<>>
  /\ \A i \in 1..Len(s) : IsFraction(s[i])
  /\ \A i, j \in 1..Len(s) : i < j => AtMost(s[i], s[j])

LowerPlace(s, q) == ((q * (Len(s) - 1)) \div 100) + 1
Weight(s, q) == (q * (Len(s) - 1)) % 100

LEMMA QuantilePlace ==
  ASSUME NEW s, Ascending(s), NEW q \in Percents
  PROVE  LET lower == LowerPlace(s, q)
             weight == Weight(s, q)
             v == CalculateQuantile(s, q)
         IN  /\ lower \in 1..Len(s) /\ weight \in 0..99 /\ (weight # 0 => lower + 1 \in 1..Len(s))
             /\ q * (Len(s) - 1) = 100 * (lower - 1) + weight
             /\ weight = 0 => v = s[lower]
             /\ weight # 0 => v = Between(s[lower], s[lower + 1], weight)
<1>1. Len(s) \in Nat \ {0}
  BY SequenceFacts DEF Ascending
<1> DEFINE lower == LowerPlace(s, q)
           weight == Weight(s, q)
<1>2. /\ lower \in 1..Len(s) /\ weight \in 0..99 /\ (weight # 0 => lower + 1 \in 1..Len(s))
      /\ q * (Len(s) - 1) = 100 * (lower - 1) + weight
  BY <1>1, PlaceFacts DEF LowerPlace, Weight
<1>3. CalculateQuantile(s, q) = IF weight = 0 THEN s[lower] ELSE Between(s[lower], s[lower + 1], weight)
  BY DEF CalculateQuantile, LowerPlace, Weight, Between
<1> QED BY <1>2, <1>3

LEMMA SortedOrder ==
  ASSUME NEW s, Ascending(s), NEW i \in 1..Len(s), NEW j \in 1..Len(s), i <= j
  PROVE  AtMost(s[i], s[j]) /\ s[i] \in Fractions /\ IsFraction(s[i]) /\ IsFraction(s[j])
<1>1. IsFraction(s[i]) /\ IsFraction(s[j]) /\ s[i] \in Fractions
  BY DEF Ascending, IsFraction
<1>2. CASE i < j
  BY <1>1, <1>2 DEF Ascending
<1>3. CASE i = j
  BY <1>1, <1>3, AtMostReflexive
<1>4. Len(s) \in Nat
  BY SequenceFacts DEF Ascending
<1> QED BY <1>2, <1>3, <1>4

(* a quantile lies between its two neighbours in the sorted list            *)
LEMMA QuantileBetween ==
  ASSUME NEW s, Ascending(s), NEW q \in Percents
  PROVE  LET lower == LowerPlace(s, q)
             v == CalculateQuantile(s, q)
         IN  /\ IsFraction(v) /\ AtMost(s[lower], v)
             /\ \A k \in 1..Len(s) : lower < k => AtMost(v, s[k])
             /\ \E k \in 1..Len(s) : AtMost(v, s[k])
<1> DEFINE lower == LowerPlace(s, q)
           weight == Weight(s, q)
           v == CalculateQuantile(s, q)
<1>1. /\ lower \in 1..Len(s) /\ weight \in 0..99 /\ (weight # 0 => lower + 1 \in 1..Len(s))
      /\ weight = 0 => v = s[lower]
      /\ weight # 0 => v = Between(s[lower], s[lower + 1], weight)
  BY QuantilePlace
<1>2. Len(s) \in Nat
  BY SequenceFacts DEF Ascending
<1> HIDE DEF lower, weight, v
<1>3. CASE weight = 0
  <2>1. v = s[lower] /\ IsFraction(v) /\ AtMost(v, v)
    BY <1>1, <1>3, SortedOrder
  <2>2. \A k \in 1..Len(s) : lower < k => AtMost(v, s[k])
    BY <1>1, <2>1, SortedOrder
  <2> QED BY <1>1, <2>1, <2>2 DEF v, lower
<1>4. CASE weight # 0
  <2> DEFINE b == s[lower + 1]
  <2>1. AtMost(s[lower], b) /\ IsFraction(s[lower]) /\ IsFraction(b)
    BY <1>1, <1>4, SortedOrder
  <2>2. weight \in 0..100
    BY <1>1
  <2>3. v = Between(s[lower], b, weight)
    BY <1>1, <1>4
  <2> HIDE DEF b
  <2>4. IsFraction(v) /\ AtMost(s[lower], v) /\ AtMost(v, b)
    BY <2>1, <2>2, <2>3, BetweenBounds
  <2>5. ASSUME NEW k \in 1..Len(s), lower < k
        PROVE  AtMost(v, s[k])
    <3>1. lower + 1 <= k /\ lower + 1 \in 1..Len(s)
      BY <1>1, <1>2, <1>4, <2>5
    <3>2. AtMost(b, s[k]) /\ IsFraction(s[k])
      BY <3>1, SortedOrder DEF b
    <3> QED BY <2>1, <2>4, <3>2, AtMostTransitive
  <2>6. \E k \in 1..Len(s) : AtMost(v, s[k])
    BY <1>1, <1>4, <2>4 DEF b
  <2> QED BY <2>4, <2>5, <2>6 DEF v, lower
<1> QED BY <1>3, <1>4

LEMMA QuantilesGrow ==
  ASSUME NEW s, Ascending(s), NEW q \in Percents, NEW r \in Percents, q <= r
  PROVE  AtMost(CalculateQuantile(s, q), CalculateQuantile(s, r))
<1> DEFINE l1 == LowerPlace(s, q)
           w1 == Weight(s, q)
           v1 == CalculateQuantile(s, q)
           l2 == LowerPlace(s, r)
           w2 == Weight(s, r)
           v2 == CalculateQuantile(s, r)
           n == Len(s) - 1
<1>1. /\ l1 \in 1..Len(s) /\ w1 \in 0..99 /\ (w1 # 0 => l1 + 1 \in 1..Len(s))
      /\ q * n = 100 * (l1 - 1) + w1
      /\ w1 = 0 => v1 = s[l1]
      /\ w1 # 0 => v1 = Between(s[l1], s[l1 + 1], w1)
  BY QuantilePlace
<1>2. /\ l2 \in 1..Len(s) /\ w2 \in 0..99 /\ (w2 # 0 => l2 + 1 \in 1..Len(s))
      /\ r * n = 100 * (l2 - 1) + w2
      /\ w2 # 0 => v2 = Between(s[l2], s[l2 + 1], w2)
  BY QuantilePlace
<1>3. /\ IsFraction(v1) /\ \A k \in 1..Len(s) : l1 < k => AtMost(v1, s[k])
  BY QuantileBetween
<1>4. IsFraction(v2) /\ AtMost(s[l2], v2)
  BY QuantileBetween
<1>5. n \in Nat
  <2>1. Len(s) \in Nat \ {0}
    BY SequenceFacts DEF Ascending
  <2> QED BY <2>1
<1>6. q * n <= r * n
  <2>1. q \in {50, 90, 95, 99} /\ r \in {50, 90, 95, 99}
    BY DEF Percents
  <2> HIDE DEF n
  <2> QED BY <1>5, <2>1
<1> HIDE DEF l1, w1, v1, l2, w2, v2, n
<1>7. l1 < l2 \/ (l1 = l2 /\ w1 <= w2)
  <2>1. 100 * (l1 - 1) + w1 <= 100 * (l2 - 1) + w2
    BY <1>1, <1>2, <1>6
  <2>2. l1 \in Nat /\ l2 \in Nat
    BY <1>1, <1>2
  <2> QED BY <1>1, <1>2, <2>1, <2>2
<1>8. CASE l1 < l2
  <2>1. AtMost(v1, s[l2]) /\ IsFraction(s[l2])
    BY <1>2, <1>3, <1>8, SortedOrder
  <2> QED BY <1>3, <1>4, <2>1, AtMostTransitive DEF v1, v2
<1>9. CASE l1 = l2 /\ w1 <= w2
  <2>1. CASE w1 = 0
    BY <1>1, <1>4, <1>9, <2>1 DEF v1, v2
  <2>2. CASE w1 # 0
    <3>1. w2 # 0 /\ w1 \in 0..100 /\ w2 \in 0..100
      BY <1>1, <1>2, <1>9, <2>2
    <3> DEFINE a == s[l1]
               b == s[l1 + 1]
    <3>2. v1 = Between(a, b, w1) /\ v2 = Between(a, b, w2)
      BY <1>1, <1>2, <1>9, <2>2, <3>1
    <3>3. l1 + 1 \in 1..Len(s) /\ l1 <= l1 + 1
      BY <1>1, <2>2
    <3>4. IsFraction(a) /\ IsFraction(b) /\ AtMost(a, b)
      BY <1>1, <3>3, SortedOrder
    <3> HIDE DEF a, b
    <3>5. AtMost(Between(a, b, w1), Between(a, b, w2))
      BY <1>9, <3>1, <3>4, BetweenOrdered
    <3> QED BY <3>2, <3>5 DEF v1, v2
  <2> QED BY <2>1, <2>2
<1> QED BY <1>7, <1>8, <1>9

-----------------------------------------------------------------------------
(* The mean: numbers that are all above, or all below, m add up to more, or *)
(* less, than so many times m.                                              *)

LEMMA CrossOfSum ==
  ASSUME NEW mn \in Int, NEW md \in Int, NEW sn \in Int, NEW sd \in Int, NEW vn \in Int, NEW vd \in Int, NEW k \in Int
  PROVE  (sn * vd + vn * sd) * md - (mn * k) * (sd * vd)
           = (sn * md - (mn * (k - 1)) * sd) * vd + (vn * md - mn * vd) * sd
OBVIOUS

LEMMA CrossOfPlus ==
  ASSUME NEW m, IsFraction(m), NEW s, IsFraction(s), NEW v, IsFraction(v), NEW k \in Int
  PROVE  /\ Cross(Times(m, k), Plus(s, v)) = Cross(Times(m, k - 1), s) * v.d + Cross(m, v) * s.d
         /\ Cross(Times(m, k - 1), s) \in Int /\ Cross(m, v) \in Int
<1> DEFINE mn == m.n
           md == m.d
           sn == s.n
           sd == s.d
           vn == v.n
           vd == v.d
<1>1. mn \in Int /\ md \in Int /\ sn \in Int /\ sd \in Int /\ vn \in Int /\ vd \in Int /\ k - 1 \in Int
  BY FractionParts
<1>2. /\ Cross(Times(m, k), Plus(s, v)) = (sn * vd + vn * sd) * md - (mn * k) * (sd * vd)
      /\ Cross(Times(m, k - 1), s) = sn * md - (mn * (k - 1)) * sd
      /\ Cross(m, v) = vn * md - mn * vd
  BY DEF Cross, Times, Plus
<1> HIDE DEF mn, md, sn, sd, vn, vd
<1>3. (sn * vd + vn * sd) * md - (mn * k) * (sd * vd)
        = (sn * md - (mn * (k - 1)) * sd) * vd + (vn * md - mn * vd) * sd
  BY <1>1, CrossOfSum
<1>4. sn * md - (mn * (k - 1)) * sd \in Int /\ vn * md - mn * vd \in Int
  BY <1>1
<1> QED BY <1>2, <1>3, <1>4 DEF vd, sd

LEMMA SumsAgainst ==
  ASSUME NEW vs, Len(vs) \in Nat, \A k \in 1..Len(vs) : IsFraction(vs[k]),
         NEW sum, Sums(vs, sum), NEW m, IsFraction(m)
  PROVE  \A k \in 1..Len(vs) :
           /\ (\A i \in 1..Len(vs) : Cross(m, vs[i]) > 0) => Cross(Times(m, k), sum[k]) > 0
           /\ (\A i \in 1..Len(vs) : Cross(m, vs[i]) < 0) => Cross(Times(m, k), sum[k]) < 0
<1> DEFINE above == \A i \in 1..Len(vs) : Cross(m, vs[i]) > 0
           below == \A i \in 1..Len(vs) : Cross(m, vs[i]) < 0
           C(k) == Cross(Times(m, k), sum[k])
           Fine(k) == (above => C(k) > 0) /\ (below => C(k) < 0)
           Bad == {k \in Nat : k \in 1..Len(vs) /\ ~Fine(k)}
<1>1. SUFFICES Bad = {}
  OBVIOUS
<1>2. SUFFICES ASSUME Bad # {} PROVE FALSE
  OBVIOUS
<1>3. Bad \in SUBSET Nat
  OBVIOUS
<1> HIDE DEF Bad
<1>4. PICK k \in Bad : \A y \in Bad : k <= y
  BY <1>2, <1>3, Least
<1>5. k \in 1..Len(vs) /\ ~Fine(k)
  BY <1>4 DEF Bad
<1>6. \A j \in 0..Len(vs) : IsFraction(sum[j])
  BY SumsTyped DEF IsFraction
<1> DEFINE v == vs[k]
           s == sum[k - 1]
<1>7. k - 1 \in 0..Len(vs) /\ sum[k] = Plus(s, v)
  BY <1>5 DEF Sums
<1>8. IsFraction(s) /\ IsFraction(v)
  BY <1>5, <1>6, <1>7
<1> DEFINE x == Cross(Times(m, k - 1), s)
           y == Cross(m, v)
<1>9. C(k) = x * v.d + y * s.d /\ x \in Int /\ y \in Int
  <2>1. C(k) = Cross(Times(m, k), Plus(s, v))
    BY <1>7
  <2> HIDE DEF C, s, v
  <2>2. k \in Int
    BY <1>5
  <2> QED BY <1>8, <2>1, <2>2, CrossOfPlus
<1>10. (above => x >= 0) /\ (below => x <= 0)
  <2>1. CASE k = 1
    <3>1. s = Number(0)
      BY <2>1 DEF Sums
    <3>2. x = 0
      <4>1. m.n \in Int /\ m.d \in Int
        BY FractionParts
      <4> QED BY <2>1, <3>1, <4>1 DEF Cross, Times, Number
    <3> QED BY <3>2
  <2>2. CASE k # 1
    <3>1. k - 1 \in 1..Len(vs) /\ k - 1 \in Nat /\ ~(k <= k - 1)
      BY <1>5, <2>2
    <3>2. Fine(k - 1)
      BY <1>4, <3>1 DEF Bad
    <3> QED BY <1>9, <3>2
  <2> QED BY <2>1, <2>2
<1>11. v.d \in Nat \ {0} /\ s.d \in Nat \ {0}
  BY <1>8, FractionParts
<1>12. (above => y > 0) /\ (below => y < 0)
  BY <1>5
<1> HIDE DEF x, y, v, s
<1> DEFINE p == x * v.d
           q == y * s.d
<1>13. p \in Int /\ q \in Int
  BY <1>9, <1>11
<1>14. ASSUME above PROVE C(k) > 0
  <2>1. p >= 0 /\ q > 0
    BY <1>9, <1>10, <1>11, <1>12, <1>14, Products
  <2>2. C(k) = p + q
    BY <1>9
  <2> HIDE DEF p, q, C
  <2> QED BY <1>13, <2>1, <2>2
<1>15. ASSUME below PROVE C(k) < 0
  <2>1. p <= 0
    <3>1. x \in Int /\ x <= 0 /\ v.d \in Int /\ v.d >= 0
      BY <1>9, <1>10, <1>11, <1>15
    <3> QED BY <3>1, Products
  <2>2. q < 0
    <3>1. y \in Int /\ y < 0 /\ s.d \in Int /\ s.d > 0
      BY <1>9, <1>11, <1>12, <1>15
    <3> QED BY <3>1, Products
  <2>3. C(k) = p + q
    BY <1>9
  <2> HIDE DEF p, q, C
  <2> QED BY <1>13, <2>1, <2>2, <2>3
<1> QED BY <1>5, <1>14, <1>15

LEMMA MeanWithin ==
  ASSUME NEW vs, Len(vs) \in Nat \ {0}, \A k \in 1..Len(vs) : IsFraction(vs[k])
  PROVE  LET mean == Over(Total(vs), Len(vs))
         IN  /\ \E k \in 1..Len(vs) : AtMost(vs[k], mean)
             /\ \E k \in 1..Len(vs) : AtMost(mean, vs[k])
<1> DEFINE n == Len(vs)
           t == Total(vs)
           m == Over(t, n)
<1>1. PICK sum : Sums(vs, sum) /\ t = sum[n]
  BY TotalIs
<1>2. IsFraction(t)
  BY TotalTyped DEF IsFraction
<1>3. IsFraction(m) /\ m.n = t.n /\ m.d = t.d * n
  BY <1>2, OverTyped DEF Over, IsFraction
<1>4. Cross(Times(m, n), t) = 0
  <2>1. t.n \in Int /\ t.d \in Nat /\ n \in Nat
    BY <1>2, FractionParts
  <2>2. Cross(Times(m, n), t) = t.n * m.d - (m.n * n) * t.d
    BY DEF Cross, Times
  <2> HIDE DEF t, n, m
  <2> QED BY <1>3, <2>1, <2>2
<1>5. n \in 1..n
  OBVIOUS
<1> HIDE DEF m, t
<1>6. ~(\A i \in 1..n : Cross(m, vs[i]) > 0) /\ ~(\A i \in 1..n : Cross(m, vs[i]) < 0)
  <2>1. /\ (\A i \in 1..n : Cross(m, vs[i]) > 0) => Cross(Times(m, n), sum[n]) > 0
        /\ (\A i \in 1..n : Cross(m, vs[i]) < 0) => Cross(Times(m, n), sum[n]) < 0
    BY <1>1, <1>3, <1>5, SumsAgainst
  <2> QED BY <1>1, <1>4, <2>1
<1>7. m \in Fractions /\ \A i \in 1..n : vs[i] \in Fractions /\ Cross(vs[i], m) = 0 - Cross(m, vs[i])
  <2>1. m \in Fractions /\ m.n \in Int /\ m.d \in Int
    BY <1>3, FractionParts DEF IsFraction
  <2>2. ASSUME NEW i \in 1..n
        PROVE  vs[i] \in Fractions /\ Cross(vs[i], m) = 0 - Cross(m, vs[i])
    <3>1. vs[i] \in Fractions /\ vs[i].n \in Int /\ vs[i].d \in Int
      BY FractionParts DEF IsFraction
    <3>2. m.n * vs[i].d \in Int /\ vs[i].n * m.d \in Int
      BY <2>1, <3>1
    <3> QED BY <3>1, <3>2 DEF Cross
  <2> QED BY <2>1, <2>2
<1>8. PICK i \in 1..n : ~(Cross(m, vs[i]) > 0)
  BY <1>6
<1>9. PICK j \in 1..n : ~(Cross(m, vs[j]) < 0)
  BY <1>6
<1>10. AtMost(vs[i], m)
  <2>1. Cross(m, vs[i]) \in Int
    BY <1>7, CrossOrder
  <2>2. Cross(vs[i], m) >= 0
    BY <1>7, <1>8, <2>1
  <2> QED BY <1>7, <2>2, CrossOrder
<1>11. AtMost(m, vs[j])
  <2>1. Cross(m, vs[j]) \in Int
    BY <1>7, CrossOrder
  <2> QED BY <1>7, <1>9, <2>1, CrossOrder
<1> QED BY <1>10, <1>11 DEF m, t

-----------------------------------------------------------------------------
(* The bounds of functions.                                                 *)

(* a step by which a node of a kind answers is the visit of that kind       *)
LEMMA AnsweringVisits ==
  ASSUME EngineInv, [EngineNext]_engineVars, NEW kind, Answering(kind)
  PROVE  /\ kind = "telemetry" => VisitTelemetryQuery
         /\ kind = "call" => VisitFunctionCall
         /\ kind = "aggregation" => VisitAggregation
<1>1. status = "running" /\ query[next].kind = kind /\ next' = next + 1 /\ next + 1 # next
  BY DEF Answering, Visiting, EngineInv
<1>2. ~StoreFails
  BY <1>1 DEF StoreFails, Fails
<1>3. \A r \in Rows : ~Write(r)
  BY <1>1 DEF Write
<1>4. ~UNCHANGED engineVars
  BY <1>1 DEF engineVars
<1>5. VisitTelemetryQuery => kind = "telemetry"
  BY <1>1 DEF VisitTelemetryQuery, Visiting
<1>6. VisitBinaryOp => kind = "binary"
  BY <1>1 DEF VisitBinaryOp, Visiting
<1>7. VisitFunctionCall => kind = "call"
  BY <1>1 DEF VisitFunctionCall, Visiting
<1>8. VisitAggregation => kind = "aggregation"
  BY <1>1 DEF VisitAggregation, Visiting
<1>9. VisitTelemetryQuery \/ VisitBinaryOp \/ VisitFunctionCall \/ VisitAggregation
  BY <1>2, <1>3, <1>4 DEF EngineNext
<1> QED BY <1>5, <1>6, <1>7, <1>8, <1>9

LEMMA IncreasePositive ==
  ASSUME EngineInv, [EngineNext]_engineVars
  PROVE  IncreaseIsPositive
<1>1. SUFFICES ASSUME Answering("call"), Growth(query[next].name), OneSeries(Operand), NeverFalls(Operand)
               PROVE  ~Less(Answer[1].val, Number(0))
  BY DEF IncreaseIsPositive
<1>2. VisitFunctionCall /\ next' = next + 1
  BY <1>1, AnsweringVisits DEF Answering
<1>3. PICK o \in Apply(query[next].name, Operand) : o.ok /\ Answer = o.rs
  BY <1>2, CallKeeps
<1>4. IsList(Operand)
  BY <1>2, CallKeeps
<1>5. PICK perSecond \in BOOLEAN : o \in ApplyIncrease(Operand, perSecond)
  <2>1. query[next].name = "rate" \/ query[next].name = "increase"
    BY <1>1 DEF Growth
  <2>2. Apply("rate", Operand) = ApplyIncrease(Operand, TRUE) /\ Apply("increase", Operand) = ApplyIncrease(Operand, FALSE)
    BY DEF Apply
  <2> QED BY <1>3, <2>1, <2>2
<1>6. PICK i, j \in 1..Len(Operand) :
        Operand[i].ts <= Operand[j].ts /\ o.rs[1].val.n = Minus(Operand[j].val, Operand[i].val).n
  BY <1>3, <1>4, <1>5, IncreaseTyped
<1> DEFINE v == Operand[i].val
           w == Operand[j].val
<1>7. v \in Fractions /\ w \in Fractions
  BY <1>4 DEF IsList, IsResult
<1>8. AtMost(v, w)
  <2>1. DOMAIN Operand = 1..Len(Operand)
    BY <1>4, ListFacts
  <2> QED BY <1>1, <1>6, <2>1 DEF NeverFalls
<1>9. Answer[1].val.n = Cross(v, w)
  BY <1>3, <1>6 DEF Cross, Minus
<1> HIDE DEF v, w
<1>10. Cross(v, w) \in Int /\ Cross(v, w) >= 0
  BY <1>7, <1>8, CrossOrder
<1>11. Answer[1].val.n \in Int /\ Answer[1].val.n >= 0
  BY <1>9, <1>10
<1>12. Less(Answer[1].val, Number(0)) <=> Answer[1].val.n * 1 < 0 * Answer[1].val.d
  BY DEF Less, Number
<1>13. 0 * Answer[1].val.d = 0
  <2>1. IsResult(o.rs[1])
    BY <1>3, <1>4, <1>5, IncreaseTyped
  <2>2. Answer[1].val.d \in Nat
    BY <1>3, <2>1 DEF IsResult, Fractions
  <2> QED BY <2>2
<1> QED BY <1>11, <1>12, <1>13

LEMMA NumbersOf ==
  ASSUME NEW rs, IsList(rs)
  PROVE  LET vs == ValuesOf(Numeric(rs))
             nums == {r.val : r \in ToSet(Numeric(rs))}
         IN  /\ IsSequence(vs) /\ Len(vs) \in Nat /\ Len(vs) = Len(Numeric(rs))
             /\ vs = <<>> <=> Numeric(rs) = <<>>
             /\ \A k \in 1..Len(vs) : IsFraction(vs[k]) /\ vs[k] \in nums
<1> DEFINE ns == Numeric(rs)
           vs == ValuesOf(ns)
<1>1. IsList(ns) /\ \A k \in 1..Len(ns) : ns[k].val.d # 0
  BY NumericFacts
<1>2. Len(ns) \in Nat /\ DOMAIN ns = 1..Len(ns) /\ (ns = <<>> <=> Len(ns) = 0)
  BY <1>1, ListFacts
<1> HIDE DEF ns
<1>3. /\ IsSequence(vs) /\ Len(vs) = Len(ns)
      /\ \A k \in 1..Len(ns) : vs[k] = ns[k].val /\ vs[k] \in Fractions
  BY <1>1, ValuesFacts
<1>4. vs = <<>> <=> Len(vs) = 0
  BY <1>3, SequenceFacts
<1> HIDE DEF vs
<1>5. ASSUME NEW k \in 1..Len(vs)
      PROVE  IsFraction(vs[k]) /\ vs[k] \in {r.val : r \in ToSet(ns)}
  <2>1. IsFraction(vs[k]) /\ vs[k] = ns[k].val
    BY <1>1, <1>3 DEF IsFraction
  <2>2. ns[k] \in ToSet(ns)
    BY <1>2, <1>3 DEF ToSet
  <2> QED BY <2>1, <2>2
<1> QED BY <1>2, <1>3, <1>4, <1>5 DEF vs, ns

LEMMA QuantilesOrdered ==
  ASSUME EngineInv, [EngineNext]_engineVars
  PROVE  QuantilesAreOrdered
<1> DEFINE nums == {r.val : r \in ToSet(Numeric(Operand))}
           within(v) == (\E lo \in nums : AtMost(lo, v)) /\ (\E hi \in nums : AtMost(v, hi))
           name == query[next].name
<1>1. SUFFICES ASSUME Answering("call"), name \in {"histogram_quantile", "avg"}
               PROVE  /\ \A i \in DOMAIN Answer : within(Answer[i].val)
                      /\ \A i, j \in DOMAIN Answer :
                           (name = "histogram_quantile"
                              /\ Quantiles[Answer[i].labels.quantile] <= Quantiles[Answer[j].labels.quantile])
                           => AtMost(Answer[i].val, Answer[j].val)
  BY DEF QuantilesAreOrdered
<1>2. VisitFunctionCall /\ next' = next + 1
  BY <1>1, AnsweringVisits DEF Answering
<1>3. PICK o \in Apply(name, Operand) : o.ok /\ Answer = o.rs
  BY <1>2, CallKeeps
<1>4. IsList(Operand)
  BY <1>2, CallKeeps
<1>5. DOMAIN Answer = 1..Len(o.rs)
  BY <1>3, <1>4, ApplyTyped, ListFacts DEF IsOutcome
<1> DEFINE vs == ValuesOf(Numeric(Operand))
<1>6. /\ IsSequence(vs) /\ Len(vs) \in Nat /\ Len(vs) = Len(Numeric(Operand))
      /\ vs = <<>> <=> Numeric(Operand) = <<>>
      /\ \A k \in 1..Len(vs) : IsFraction(vs[k]) /\ vs[k] \in nums
  BY <1>4, NumbersOf
<1>7. vs # <<>> => Len(vs) # 0
  BY <1>6, SequenceFacts
<1> HIDE DEF vs, nums
<1>8. CASE name = "avg"
  <2>1. o \in ApplyAvg(Operand)
    BY <1>3, <1>8 DEF Apply
  <2>2. ASSUME NEW i \in 1..Len(o.rs) PROVE within(Answer[i].val)
    <3>1. Numeric(Operand) # <<>> /\ o.rs[i].val = Over(Total(vs), Len(vs))
      BY <1>4, <1>6, <2>1, AvgTyped DEF vs
    <3>2. Len(vs) \in Nat \ {0}
      BY <1>6, <1>7, <3>1
    <3>3. /\ \E k \in 1..Len(vs) : AtMost(vs[k], o.rs[i].val)
          /\ \E k \in 1..Len(vs) : AtMost(o.rs[i].val, vs[k])
      BY <1>6, <3>1, <3>2, MeanWithin
    <3> QED BY <1>3, <1>6, <3>3
  <2> QED BY <1>5, <1>8, <2>2
<1>9. CASE name = "histogram_quantile"
  <2>1. o \in ApplyQuantiles(Operand)
    BY <1>3, <1>9 DEF Apply
  <2>2. PICK s : \A i \in 1..Len(o.rs) :
          /\ vs # <<>> /\ s \in Sorted(vs)
          /\ o.rs[i].labels.quantile \in DOMAIN Quantiles
          /\ o.rs[i].val = CalculateQuantile(s, Quantiles[o.rs[i].labels.quantile])
    BY <1>4, <1>6, <2>1, QuantilesTyped DEF vs
  <2>3. ASSUME s \in Sorted(vs), vs # <<>>
        PROVE  Ascending(s) /\ \A k \in 1..Len(s) : s[k] \in nums
    <3>1. /\ IsSequence(s) /\ Len(s) = Len(vs)
          /\ \A i \in 1..Len(s) : \E k \in 1..Len(vs) : s[i] = vs[k]
          /\ \A i, j \in 1..Len(s) : i < j => AtMost(s[i], s[j])
      BY <1>6, <2>3, SortedFacts
    <3>2. s # <<>>
      BY <1>7, <2>3, <3>1, SequenceFacts
    <3> QED BY <1>6, <3>1, <3>2 DEF Ascending
  <2> DEFINE q(i) == Quantiles[o.rs[i].labels.quantile]
  <2>4. ASSUME NEW i \in 1..Len(o.rs)
        PROVE  q(i) \in Percents /\ Answer[i].val = CalculateQuantile(s, q(i)) /\ Ascending(s)
    BY <1>3, <2>2, <2>3, QuantileNames
  <2>5. ASSUME NEW i \in 1..Len(o.rs) PROVE within(Answer[i].val)
    <3>1. Ascending(s) /\ \A k \in 1..Len(s) : s[k] \in nums
      BY <2>2, <2>3
    <3> DEFINE v == CalculateQuantile(s, q(i))
               lower == LowerPlace(s, q(i))
    <3>2. q(i) \in Percents /\ Answer[i].val = v
      BY <2>4
    <3>3. lower \in 1..Len(s)
      BY <3>1, <3>2, QuantilePlace
    <3>4. AtMost(s[lower], v) /\ \E k \in 1..Len(s) : AtMost(v, s[k])
      BY <3>1, <3>2, QuantileBetween
    <3> HIDE DEF v, lower
    <3> QED BY <3>1, <3>2, <3>3, <3>4
  <2>6. ASSUME NEW i \in 1..Len(o.rs), NEW j \in 1..Len(o.rs), q(i) <= q(j)
        PROVE  AtMost(Answer[i].val, Answer[j].val)
    BY <2>4, <2>6, QuantilesGrow
  <2>7. \A i, j \in 1..Len(o.rs) :
          Quantiles[Answer[i].labels.quantile] <= Quantiles[Answer[j].labels.quantile]
          => AtMost(Answer[i].val, Answer[j].val)
    BY <1>3, <2>6
  <2> QED BY <1>5, <2>5, <2>7
<1> QED BY <1>1, <1>8, <1>9

(* Over a counter that never goes down, increase and rate are not negative; *)
(* quantiles grow with their percentage; they and the mean lie within the   *)
(* numbers they were calculated from: of any rows and any query             *)
(* (functions.go, the Apply methods and calculateQuantile).                 *)
THEOREM FunctionBounds == EngineSpec => FunctionsKeepTheirBounds
<1>1. ASSUME EngineInv, [EngineNext]_engineVars
      PROVE  [IncreaseIsPositive /\ QuantilesAreOrdered]_engineVars
  BY <1>1, IncreasePositive, QuantilesOrdered
<1> QED BY <1>1, EngineAlways, PTL DEF EngineSpec, FunctionsKeepTheirBounds

-----------------------------------------------------------------------------
(* Selection: the WHERE clause and the selectors that are applied again     *)
(* after the statement are together what the query wants.                   *)

SpecialNames == {"agent_id", "group_id", "metric", "name", "metric_name"}
ColumnNames == {"agent_id", "group_id", "name"}

LEMMA SpecialFacts ==
  /\ DOMAIN SpecialLabels("metrics") = SpecialNames
  /\ Columns("metrics") = ColumnNames
  /\ \A l \in SpecialNames : SpecialLabels("metrics")[l] \in ColumnNames
<1>1. /\ DOMAIN SpecialLabels("metrics") = SpecialNames
      /\ SpecialLabels("metrics")["agent_id"] = "agent_id" /\ SpecialLabels("metrics")["group_id"] = "group_id"
      /\ SpecialLabels("metrics")["metric"] = "name" /\ SpecialLabels("metrics")["name"] = "name"
      /\ SpecialLabels("metrics")["metric_name"] = "name"
  BY DEF SpecialLabels, SpecialNames
<1>2. Columns("metrics") = ColumnNames
  BY <1>1 DEF Columns, SpecialNames, ColumnNames
<1> QED BY <1>1, <1>2 DEF SpecialNames, ColumnNames

ColumnOf(l) == SpecialLabels("metrics")[l]
SpecialOf(q) == DOMAIN q.sel \cap SpecialNames

LEMMA PlainFacts ==
  ASSUME NEW q, q.type = "metrics", PlainSelectors(q), NEW l \in SpecialOf(q)
  PROVE  /\ ColumnOf(l) \in ColumnNames
         /\ FromRequest(ColumnOf(l)) \/ (q.sel[l].op = "=" /\ PushedLabels(q, ColumnOf(l)) = {l})
<1>1. l \in DOMAIN q.sel \cap DOMAIN SpecialLabels(q.type)
  BY SpecialFacts DEF SpecialOf
<1>2. FromRequest(ColumnOf(l)) \/ (q.sel[l].op = "=" /\ PushedLabels(q, ColumnOf(l)) = {l})
  BY <1>1 DEF PlainSelectors, ColumnOf
<1>3. ColumnOf(l) \in ColumnNames
  BY SpecialFacts DEF SpecialOf, ColumnOf
<1> QED BY <1>2, <1>3

(* what column c is compared with on behalf of label l *)
Demand(q, l) == IF FromRequest(ColumnOf(l)) THEN {execCtx[ColumnOf(l)]} ELSE q.sel[l].vals

(* the columns of the WHERE clause are those of the special labels, each    *)
(* with the values of its label, or with the request's agent or group       *)
LEMMA ClauseFacts ==
  ASSUME NEW q, q.type = "metrics", PlainSelectors(q), NEW w \in WhereClauses(q)
  PROVE  /\ \A l \in SpecialOf(q) : ColumnOf(l) \in DOMAIN w /\ w[ColumnOf(l)] = Demand(q, l)
         /\ \A c \in DOMAIN w : \E l \in SpecialOf(q) : ColumnOf(l) = c
<1> DEFINE pushed == {c \in Columns(q.type) : PushedLabels(q, c) # {}}
<1>1. DOMAIN w = pushed /\ \A c \in pushed : w[c] \in ColumnConditions(q, c)
  BY DEF WhereClauses
<1>2. ASSUME NEW l \in SpecialOf(q)
      PROVE  ColumnOf(l) \in DOMAIN w /\ w[ColumnOf(l)] = Demand(q, l)
  <2> DEFINE c == ColumnOf(l)
  <2>1. c \in ColumnNames /\ (FromRequest(c) \/ (q.sel[l].op = "=" /\ PushedLabels(q, c) = {l}))
    BY PlainFacts
  <2>2. l \in DOMAIN q.sel \cap DOMAIN SpecialLabels(q.type) /\ SpecialLabels(q.type)[l] = c
    BY SpecialFacts DEF SpecialOf, ColumnOf
  <2> HIDE DEF c
  <2>3. l \in PushedLabels(q, c)
    BY <2>1, <2>2 DEF PushedLabels
  <2>4. c \in pushed
    BY <2>1, <2>3, SpecialFacts
  <2>5. w[c] \in ColumnConditions(q, c)
    BY <1>1, <2>4
  <2>6. CASE FromRequest(c)
    <3>1. ColumnConditions(q, c) = {{execCtx[c]}}
      BY <2>1, <2>6 DEF ColumnConditions, ColumnNames
    <3> QED BY <1>1, <2>4, <2>5, <2>6, <3>1 DEF c, Demand
  <2>7. CASE ~FromRequest(c)
    <3>1. c # "body" /\ PushedLabels(q, c) = {l}
      BY <2>1, <2>7 DEF ColumnNames
    <3>2. ColumnConditions(q, c) = {q.sel[m].vals : m \in {l}}
      BY <2>7, <3>1 DEF ColumnConditions
    <3>3. w[c] = q.sel[l].vals
      BY <2>5, <3>2
    <3> QED BY <1>1, <2>4, <2>7, <3>3 DEF c, Demand
  <2> QED BY <2>6, <2>7
<1>3. ASSUME NEW c \in DOMAIN w
      PROVE  \E l \in SpecialOf(q) : ColumnOf(l) = c
  <2>1. PushedLabels(q, c) # {}
    BY <1>1
  <2>2. PICK l \in PushedLabels(q, c) : TRUE
    BY <2>1
  <2>3. l \in DOMAIN q.sel \cap DOMAIN SpecialLabels("metrics") /\ SpecialLabels("metrics")[l] = c
    BY <2>2 DEF PushedLabels
  <2> QED BY <2>3, SpecialFacts DEF SpecialOf, ColumnOf
<1> QED BY <1>2, <1>3

(* an equality never holds of a label, or a column, without a value *)
LEMMA EqualMatches ==
  ASSUME NEW selector, selector.op = "=", NEW value
  PROVE  Matches(selector, value) <=> value # Missing /\ value \in selector.vals
BY DEF Matches

(* the request's agent and group are values, and null is none *)
LEMMA RequestFacts ==
  ASSUME execCtx \in Contexts, NEW c, FromRequest(c)
  PROVE  execCtx[c] # Missing
<1>1. c \in {"agent_id", "group_id"} /\ execCtx[c] # Unset
  BY DEF FromRequest
<1>2. execCtx[c] \in Agents \cup Groups
  BY <1>1 DEF Contexts
<1> QED BY <1>2, UnsetIsNoValue

LEMMA WhereIsWanted ==
  ASSUME execCtx \in Contexts, NEW q, q.type = "metrics", PlainSelectors(q), NEW w \in WhereClauses(q), NEW r \in store
  PROVE  (r \in Where(q, w) /\ MatchesSelectors(r.attrs, LabelSelectors(q))) <=> Wanted(q, r)
<1> DEFINE Sp(l) == IF FromRequest(ColumnOf(l)) THEN r.cols[ColumnOf(l)] = execCtx[ColumnOf(l)]
                    ELSE Matches(q.sel[l], r.cols[ColumnOf(l)])
<1>1. Wanted(q, r) <=> /\ r.type = "metrics"
                       /\ \A l \in SpecialOf(q) : Sp(l)
                       /\ \A l \in DOMAIN q.sel \ SpecialNames : Matches(q.sel[l], LabelOf(r.attrs, l))
  <2>1. ASSUME NEW l \in DOMAIN q.sel
        PROVE  (IF l \in DOMAIN SpecialLabels(q.type)
                THEN LET c == SpecialLabels(q.type)[l]
                     IN  IF FromRequest(c) THEN r.cols[c] = execCtx[c] ELSE Matches(q.sel[l], r.cols[c])
                ELSE Matches(q.sel[l], LabelOf(r.attrs, l)))
               <=> IF l \in SpecialNames THEN Sp(l) ELSE Matches(q.sel[l], LabelOf(r.attrs, l))
    BY SpecialFacts DEF ColumnOf
  <2> HIDE DEF Sp
  <2> QED BY <2>1 DEF Wanted, SpecialOf
<1>2. MatchesSelectors(r.attrs, LabelSelectors(q))
        <=> \A l \in DOMAIN q.sel \ SpecialNames : Matches(q.sel[l], LabelOf(r.attrs, l))
  <2>1. LabelSelectors(q) = [l \in DOMAIN q.sel \ SpecialNames |-> q.sel[l]]
    BY SpecialFacts DEF LabelSelectors
  <2> QED BY <2>1 DEF MatchesSelectors
<1>3. r.type = "metrics" => (r \in Where(q, w) <=> \A l \in SpecialOf(q) : Sp(l))
  <2> DEFINE Fits(c) == r.cols[c] # Missing /\ r.cols[c] \in w[c]
  <2>1. r.type = "metrics" => (r \in Where(q, w) <=> \A c \in DOMAIN w : Fits(c))
    BY DEF Where
  <2>2. ASSUME NEW l \in SpecialOf(q) PROVE Fits(ColumnOf(l)) <=> Sp(l)
    <3>1. w[ColumnOf(l)] = Demand(q, l)
      BY ClauseFacts
    <3>2. CASE FromRequest(ColumnOf(l))
      <4>1. w[ColumnOf(l)] = {execCtx[ColumnOf(l)]} /\ execCtx[ColumnOf(l)] # Missing
        BY <3>1, <3>2, RequestFacts DEF Demand
      <4> QED BY <3>2, <4>1
    <3>3. CASE ~FromRequest(ColumnOf(l))
      <4>1. w[ColumnOf(l)] = q.sel[l].vals /\ q.sel[l].op = "="
        BY <3>1, <3>3, PlainFacts DEF Demand
      <4> QED BY <3>3, <4>1, EqualMatches
    <3> QED BY <3>2, <3>3
  <2> HIDE DEF Sp, Fits
  <2>3. (\A c \in DOMAIN w : Fits(c)) <=> \A l \in SpecialOf(q) : Fits(ColumnOf(l))
    BY ClauseFacts
  <2> QED BY <2>1, <2>2, <2>3
<1>4. r \in Where(q, w) => r.type = "metrics"
  BY DEF Where
<1> HIDE DEF Sp
<1> QED BY <1>1, <1>2, <1>3, <1>4

(* what a metrics query found: the list is of rows that are wanted, each    *)
(* once, and of all but those that are beyond the limit of the statement    *)
LEMMA KeptRows ==
  ASSUME store \subseteq Rows, execCtx \in Contexts, NEW q, q.type = "metrics", PlainSelectors(q), NEW w \in WhereClauses(q),
         NEW rows \in NewestFirst(Where(q, w))
  PROVE  LET kept == Keep(rows, Matching(q, rows))
             wanted == {r \in store : Wanted(q, r)}
         IN  /\ Len(kept) \in Nat /\ \A k \in 1..Len(kept) : kept[k] \in wanted
             /\ \A k, l \in 1..Len(kept) : k # l => kept[k] # kept[l]
             /\ \A k, l \in 1..Len(kept) : k < l => kept[k].ts >= kept[l].ts
             /\ \A r \in wanted : \/ \E k \in 1..Len(kept) : kept[k] = r
                                \/ Cardinality({x \in Where(q, w) \ {r} : x.ts >= r.ts}) >= Limit
<1> DEFINE kept == Keep(rows, Matching(q, rows))
           wanted == {r \in store : Wanted(q, r)}
           S == Where(q, w)
<1>1. S \in SUBSET Rows /\ S \subseteq store
  BY DEF Where
<1>2. IsFiniteSet(S)
  BY <1>1, RowsAreTyped, FS_Subset
<1> HIDE DEF S
<1>3. /\ IsSequence(rows) /\ Cardinality(S) \in Nat
      /\ \A i \in 1..Len(rows) : rows[i] \in S
      /\ \A i, j \in 1..Len(rows) : i # j => rows[i] # rows[j]
      /\ \A i, j \in 1..Len(rows) : i < j => rows[i].ts >= rows[j].ts
      /\ \A r \in S : \/ \E i \in 1..Len(rows) : rows[i] = r
                    \/ Cardinality({x \in S \ {r} : x.ts >= r.ts}) >= Limit
  BY <1>1, NewestFacts DEF S
<1>4. \A i \in 1..Len(rows) : rows[i] \in Rows
  BY <1>1, <1>3
<1>5. Len(rows) \in Nat /\ DOMAIN rows = 1..Len(rows)
  BY <1>3, SequenceFacts
<1>6. /\ IsSequence(kept) /\ \E at : PicksAt(rows, Matching(q, rows), Len(rows), kept, at)
  BY <1>3, <1>4, ReadFacts
<1>7. PICK at : PicksAt(rows, Matching(q, rows), Len(rows), kept, at)
  BY <1>6
<1> HIDE DEF kept
<1>8. Len(kept) \in Nat
  BY <1>6, SequenceFacts
<1>9. /\ \A k \in 1..Len(kept) : at[k] \in Matching(q, rows) /\ at[k] \in 1..Len(rows) /\ kept[k] = rows[at[k]]
      /\ \A k, l \in 1..Len(kept) : k < l => at[k] < at[l]
      /\ \A p \in Matching(q, rows) \cap (1..Len(rows)) : \E k \in 1..Len(kept) : at[k] = p
  BY <1>7 DEF PicksAt
<1>10. ASSUME NEW r \in store
       PROVE  (r \in S /\ MatchesSelectors(r.attrs, LabelSelectors(q))) <=> r \in wanted
  BY WhereIsWanted DEF S, wanted
<1> HIDE DEF wanted
<1>11. ASSUME NEW k \in 1..Len(kept)
       PROVE  kept[k] \in wanted
  <2>1. kept[k] \in S /\ MatchesSelectors(kept[k].attrs, LabelSelectors(q))
    BY <1>3, <1>9 DEF Matching
  <2>2. kept[k] \in store
    BY <1>1, <2>1
  <2> QED BY <1>10, <2>1, <2>2
<1>12. ASSUME NEW k \in 1..Len(kept), NEW l \in 1..Len(kept), k < l
       PROVE  kept[k] # kept[l] /\ kept[k].ts >= kept[l].ts
  <2>1. at[k] < at[l] /\ at[k] \in 1..Len(rows) /\ at[l] \in 1..Len(rows)
    BY <1>9, <1>12
  <2>2. at[k] # at[l]
    BY <1>5, <2>1
  <2>3. rows[at[k]] # rows[at[l]] /\ rows[at[k]].ts >= rows[at[l]].ts
    BY <1>3, <2>1, <2>2
  <2>4. kept[k] = rows[at[k]] /\ kept[l] = rows[at[l]]
    BY <1>9
  <2> QED BY <2>3, <2>4
<1>13. ASSUME NEW k \in 1..Len(kept), NEW l \in 1..Len(kept), k # l
       PROVE  kept[k] # kept[l]
  <2>1. k < l \/ l < k
    BY <1>8, <1>13
  <2> QED BY <1>12, <2>1
<1>14. ASSUME NEW r \in wanted, ~(Cardinality({x \in S \ {r} : x.ts >= r.ts}) >= Limit)
       PROVE  \E k \in 1..Len(kept) : kept[k] = r
  <2>1. r \in S /\ MatchesSelectors(r.attrs, LabelSelectors(q))
    BY <1>10 DEF wanted
  <2>2. PICK i \in 1..Len(rows) : rows[i] = r
    BY <1>3, <1>14, <2>1
  <2>3. i \in Matching(q, rows) \cap (1..Len(rows))
    BY <1>5, <2>1, <2>2 DEF Matching
  <2>4. PICK k \in 1..Len(kept) : at[k] = i
    BY <1>9, <2>3
  <2> QED BY <1>9, <2>2, <2>4
<1> QED BY <1>8, <1>11, <1>12, <1>13, <1>14 DEF kept, wanted, S

LEMMA SelectsWanted ==
  ASSUME EngineInv, [EngineNext]_engineVars
  PROVE  LET q == query[next]
             wanted == {r \in store : Wanted(q, r)}
             asNew(r, w) == {x \in Where(q, w) \ {r} : x.ts >= r.ts}
         IN  (Answering("telemetry") /\ q.type = "metrics" /\ PlainSelectors(q))
             => \E s \in [DOMAIN Answer -> wanted] :
                  /\ \A i \in DOMAIN Answer : Answer[i] = ToResult(s[i])
                  /\ \A i, j \in DOMAIN Answer : i < j => s[i] # s[j] /\ s[i].ts >= s[j].ts
                  /\ \A r \in wanted \ {s[i] : i \in DOMAIN Answer} :
                       \E w \in WhereClauses(q) : Cardinality(asNew(r, w)) >= Limit
<1> DEFINE q == query[next]
           wanted == {r \in store : Wanted(q, r)}
           asNew(r, w) == {x \in Where(q, w) \ {r} : x.ts >= r.ts}
           Finds(s) ==
             /\ \A i \in DOMAIN Answer : Answer[i] = ToResult(s[i])
             /\ \A i, j \in DOMAIN Answer : i < j => s[i] # s[j] /\ s[i].ts >= s[j].ts
             /\ \A r \in wanted \ {s[i] : i \in DOMAIN Answer} :
                  \E w \in WhereClauses(q) : Cardinality(asNew(r, w)) >= Limit
<1>1. SUFFICES ASSUME Answering("telemetry"), q.type = "metrics", PlainSelectors(q)
               PROVE  \E s \in [DOMAIN Answer -> wanted] : Finds(s)
  OBVIOUS
<1>2. VisitTelemetryQuery /\ next' = next + 1
  BY <1>1, AnsweringVisits DEF Answering
<1>3. PICK rows \in Selected(q) : Answer = ReadBy(q, rows)
  BY <1>2, TelemetryKeeps
<1>4. store \subseteq Rows /\ execCtx \in Contexts
  BY DEF EngineInv
<1>5. PICK w \in WhereClauses(q) : Where(q, w) \in SUBSET Rows /\ rows \in NewestFirst(Where(q, w))
  BY <1>3, <1>4, SelectedRows
<1> DEFINE kept == Keep(rows, Matching(q, rows))
           n == Len(kept)
<1>6. IsSequence(rows) /\ \A i \in 1..Len(rows) : rows[i] \in Rows
  <2>1. IsSequence(rows) /\ \A i \in 1..Len(rows) : rows[i] \in Where(q, w)
    BY <1>5, NewestFacts
  <2> QED BY <1>5, <2>1
<1>7. /\ IsList(Answer) /\ Len(Answer) = n
      /\ \A k \in 1..n : Answer[k] = ToResult(kept[k])
  BY <1>3, <1>6, ReadFacts
<1>8. /\ n \in Nat /\ \A k \in 1..n : kept[k] \in wanted
      /\ \A k, l \in 1..n : k # l => kept[k] # kept[l]
      /\ \A k, l \in 1..n : k < l => kept[k].ts >= kept[l].ts
      /\ \A r \in wanted : (\E k \in 1..n : kept[k] = r) \/ Cardinality(asNew(r, w)) >= Limit
  BY <1>1, <1>4, <1>5, KeptRows
<1> HIDE DEF q, wanted, kept, n, asNew
<1>9. DOMAIN Answer = 1..n
  BY <1>7, ListFacts
<1> DEFINE s == [k \in 1..n |-> kept[k]]
<1>10. s \in [1..n -> wanted] /\ \A k \in 1..n : s[k] = kept[k]
  BY <1>8
<1> HIDE DEF s
<1>11. \A i \in 1..n : Answer[i] = ToResult(s[i])
  BY <1>7, <1>10
<1>12. \A i, j \in 1..n : i < j => s[i] # s[j] /\ s[i].ts >= s[j].ts
  BY <1>8, <1>10
<1>13. ASSUME NEW r \in wanted \ {s[i] : i \in 1..n} PROVE Cardinality(asNew(r, w)) >= Limit
  BY <1>8, <1>10
<1>14. Finds(s)
  BY <1>5, <1>9, <1>11, <1>12, <1>13
<1> QED BY <1>9, <1>10, <1>14 DEF q, wanted, asNew

(* A metrics query with plain selectors finds what they say, whatever was   *)
(* pushed into SQL and whatever was left to the filter, and misses only     *)
(* what is no newer than a full statement: for any rows, with a group or    *)
(* without, any agent and group of the request and any limit (executor.go,  *)
(* executeMetricsQuery; the telemetry store's QueryMetrics).                *)
THEOREM SelectionIsWhatIsWanted == EngineSpec => SelectsWhatIsWanted
BY SelectsWanted, EngineAlways, PTL DEF EngineSpec, SelectsWhatIsWanted

-----------------------------------------------------------------------------
(* Grouping: results have the same key when they agree on all the labels.   *)

Part(r, by, i) ==
  (IF i > 1 THEN <<Bar>> ELSE <<>>)
  \o KeyText(r, by[i])

LEMMA OneIsSequence ==
  ASSUME NEW x
  PROVE  IsSequence(<<x>>) /\ Len(<<x>>) = 1 /\ <<x>>[1] = x
<1>1. <<x>> \in Seq({x}) /\ Len(<<x>>) = 1 /\ <<x>>[1] = x
  OBVIOUS
<1> QED BY <1>1 DEF IsSequence

Joins(a, b, c) ==
  /\ IsSequence(c) /\ Len(c) = Len(a) + Len(b) /\ Len(a) \in Nat /\ Len(b) \in Nat
  /\ \A k \in 1..Len(a) : c[k] = a[k]
  /\ \A k \in 1..Len(b) : c[Len(a) + k] = b[k]
  /\ b # <<>> => c[Len(c)] = b[Len(b)]

LEMMA Joined ==
  ASSUME NEW a, IsSequence(a), NEW b, IsSequence(b), NEW c, c = a \o b
  PROVE  Joins(a, b, c)
<1>1. /\ IsSequence(c) /\ Len(c) = Len(a) + Len(b)
      /\ \A k \in 1..Len(a) : c[k] = a[k]
      /\ \A k \in 1..Len(b) : c[Len(a) + k] = b[k]
  <2>1. /\ IsSequence(a \o b) /\ Len(a \o b) = Len(a) + Len(b)
        /\ \A k \in 1..Len(a) : (a \o b)[k] = a[k]
        /\ \A k \in 1..Len(b) : (a \o b)[Len(a) + k] = b[k]
    BY ConcatFacts
  <2> QED BY <2>1
<1>2. Len(a) \in Nat /\ Len(b) \in Nat /\ (b = <<>> <=> Len(b) = 0)
  BY SequenceFacts
<1>3. b # <<>> => Len(b) \in 1..Len(b)
  BY <1>2
<1> QED BY <1>1, <1>2, <1>3 DEF Joins

LEMMA PartFacts ==
  ASSUME NEW r, NEW by, NEW i \in Nat \ {0}, GroupValue(r, by[i]) \notin {Bar, Empty}
  PROVE  LET v == GroupValue(r, by[i])
             p == Part(r, by, i)
         IN  /\ IsSequence(p)
             /\ Len(p) = (IF i > 1 THEN 1 ELSE 0) + (IF v = Missing THEN 0 ELSE 1)
             /\ v # Missing => p[Len(p)] = v /\ v # Bar
             /\ v = Missing /\ i > 1 => p[Len(p)] = Bar
<1> DEFINE v == GroupValue(r, by[i])
           p == Part(r, by, i)
           a == IF i > 1 THEN <<Bar>> ELSE <<>>
           b == KeyText(r, by[i])
<1>1. v # Bar /\ b = IF v = Missing THEN <<>> ELSE <<v>>
  BY DEF KeyText
<1>2. p = a \o b
  BY DEF Part
<1> HIDE DEF v, p, b
<1>3. IsSequence(a) /\ Len(a) = (IF i > 1 THEN 1 ELSE 0) /\ (i > 1 => a[1] = Bar)
  <2>1. CASE i > 1
    BY <2>1, OneIsSequence
  <2>2. CASE ~(i > 1)
    BY <2>2, EmptyIsSequence
  <2> QED BY <2>1, <2>2
<1>4. IsSequence(b) /\ Len(b) = (IF v = Missing THEN 0 ELSE 1) /\ (v # Missing => b[1] = v)
  <2>1. CASE v = Missing
    BY <1>1, <2>1, EmptyIsSequence
  <2>2. CASE v # Missing
    BY <1>1, <2>2, OneIsSequence
  <2> QED BY <2>1, <2>2
<1> HIDE DEF a
<1>5. /\ IsSequence(p) /\ Len(p) = Len(a) + Len(b)
      /\ \A k \in 1..Len(a) : p[k] = a[k]
      /\ \A k \in 1..Len(b) : p[Len(a) + k] = b[k]
  <2>1. Joins(a, b, p)
    BY <1>2, <1>3, <1>4, Joined
  <2> QED BY <2>1 DEF Joins
<1>6. ASSUME v # Missing PROVE p[Len(p)] = v
  <2>1. Len(b) = 1 /\ 1 \in 1..Len(b) /\ b[1] = v
    BY <1>4, <1>6
  <2>2. p[Len(a) + 1] = b[1] /\ Len(p) = Len(a) + 1
    BY <1>5, <2>1
  <2> QED BY <2>1, <2>2
<1>7. ASSUME v = Missing, i > 1 PROVE p[Len(p)] = Bar
  <2>1. Len(b) = 0 /\ Len(a) = 1 /\ 1 \in 1..Len(a) /\ a[1] = Bar
    BY <1>3, <1>4, <1>7
  <2> QED BY <1>5, <2>1
<1> QED BY <1>1, <1>3, <1>4, <1>5, <1>6, <1>7 DEF v, p

LastAndFirst(a, p, b, t, c) ==
  /\ p # <<>> => c[Len(c)] = p[Len(p)]
  /\ t # <<>> => c[Len(c)] = t[Len(t)]
  /\ Len(p) = Len(t) => a = b

LEMMA SameStart ==
  ASSUME NEW a, IsSequence(a), NEW b, IsSequence(b), NEW p, IsSequence(p), NEW t, IsSequence(t),
         NEW c, c = a \o p, c = b \o t
  PROVE  LastAndFirst(a, p, b, t, c)
<1>1. /\ Len(c) = Len(a) + Len(p) /\ Len(a) \in Nat /\ Len(p) \in Nat
      /\ \A k \in 1..Len(a) : c[k] = a[k]
      /\ p # <<>> => c[Len(c)] = p[Len(p)]
  <2>1. Joins(a, p, c)
    BY Joined
  <2> QED BY <2>1 DEF Joins
<1>2. /\ Len(c) = Len(b) + Len(t) /\ Len(b) \in Nat /\ Len(t) \in Nat
      /\ \A k \in 1..Len(b) : c[k] = b[k]
      /\ t # <<>> => c[Len(c)] = t[Len(t)]
  <2>1. Joins(b, t, c)
    BY Joined
  <2> QED BY <2>1 DEF Joins
<1>3. a = [k \in 1..Len(a) |-> a[k]] /\ b = [k \in 1..Len(b) |-> b[k]]
  BY SequenceFacts
<1>4. ASSUME Len(p) = Len(t) PROVE a = b
  <2>1. Len(a) + Len(p) = Len(b) + Len(p) /\ Len(a) \in Nat /\ Len(b) \in Nat /\ Len(p) \in Nat
    BY <1>1, <1>2, <1>4
  <2> DEFINE m == Len(a)
             n == Len(b)
             l == Len(p)
  <2>2. m = n
    <3> HIDE DEF m, n, l
    <3>1. m + l = n + l /\ m \in Nat /\ n \in Nat /\ l \in Nat
      BY <2>1 DEF m, n, l
    <3> QED BY <3>1
  <2>3. \A k \in 1..m : a[k] = b[k]
    BY <1>1, <1>2, <2>2
  <2> QED BY <1>3, <2>2, <2>3
<1> QED BY <1>1, <1>2, <1>4 DEF LastAndFirst

LEMMA FlatSequences ==
  ASSUME NEW seqs, IsSequence(seqs), \A i \in 1..Len(seqs) : IsSequence(seqs[i]), NEW flat, Flattens(seqs, flat)
  PROVE  \A k \in 1..Len(seqs) : IsSequence(flat[k])
<1> DEFINE Bad == {k \in Nat : k \in 1..Len(seqs) /\ ~IsSequence(flat[k])}
<1>1. SUFFICES ASSUME Bad # {} PROVE FALSE
  OBVIOUS
<1>2. Bad \in SUBSET Nat
  OBVIOUS
<1> HIDE DEF Bad
<1>3. PICK k \in Bad : \A y \in Bad : k <= y
  BY <1>1, <1>2, Least
<1>4. k \in 1..Len(seqs) /\ ~IsSequence(flat[k])
  BY <1>3 DEF Bad
<1>5. CASE k = 1
  BY <1>4, <1>5 DEF Flattens
<1>6. CASE k # 1
  <2>1. k - 1 \in 1..Len(seqs) /\ k - 1 \in Nat /\ ~(k <= k - 1) /\ k \in 2..Len(seqs)
    BY <1>4, <1>6
  <2>2. IsSequence(flat[k - 1])
    BY <1>3, <2>1 DEF Bad
  <2>3. flat[k] = flat[k - 1] \o seqs[k]
    BY <2>1 DEF Flattens
  <2> QED BY <1>4, <2>2, <2>3, ConcatFacts
<1> QED BY <1>5, <1>6

(* parts of one result each are put together one after another *)
LEMMA FlatOnes ==
  ASSUME NEW seqs, IsSequence(seqs), \A i \in 1..Len(seqs) : IsSequence(seqs[i]) /\ Len(seqs[i]) = 1
  PROVE  LET all == FlattenSeq(seqs)
         IN  Len(all) = Len(seqs) /\ \A i \in 1..Len(seqs) : all[i] = seqs[i][1]
<1> DEFINE all == FlattenSeq(seqs)
<1>1. CASE seqs = <<>>
  <2>1. all = <<>>
    BY <1>1 DEF FlattenSeq
  <2> QED BY <1>1, <2>1, EmptyIsSequence
<1>2. CASE seqs # <<>>
  <2>1. PICK flat : Flattens(seqs, flat) /\ all = flat[Len(seqs)]
    BY <1>2, FlattenIs
  <2>2. \A k \in 1..Len(seqs) : IsSequence(flat[k])
    BY <2>1, FlatSequences
  <2> DEFINE Fine(k) == Len(flat[k]) = k /\ \A i \in 1..k : flat[k][i] = seqs[i][1]
             Bad == {k \in Nat : k \in 1..Len(seqs) /\ ~Fine(k)}
  <2>3. Bad \in SUBSET Nat
    OBVIOUS
  <2>4. ASSUME Bad # {} PROVE FALSE
    <3> HIDE DEF Bad
    <3>1. PICK k \in Bad : \A y \in Bad : k <= y
      BY <2>3, <2>4, Least
    <3>2. k \in 1..Len(seqs) /\ ~Fine(k)
      BY <3>1 DEF Bad
    <3>3. CASE k = 1
      BY <2>1, <3>2, <3>3 DEF Flattens
    <3>4. CASE k # 1
      <4>1. k - 1 \in 1..Len(seqs) /\ k - 1 \in Nat /\ ~(k <= k - 1) /\ k \in 2..Len(seqs)
        BY <3>2, <3>4
      <4>2. Fine(k - 1)
        BY <3>1, <4>1 DEF Bad
      <4>3. flat[k] = flat[k - 1] \o seqs[k]
        BY <2>1, <4>1 DEF Flattens
      <4> DEFINE a == flat[k - 1]
                 b == seqs[k]
                 c == flat[k]
      <4>4. /\ IsSequence(a) /\ Len(a) = k - 1 /\ (\A i \in 1..(k - 1) : a[i] = seqs[i][1])
            /\ IsSequence(b) /\ Len(b) = 1 /\ c = a \o b
        BY <2>2, <3>2, <4>1, <4>2, <4>3
      <4> HIDE DEF a, b, c
      <4>5. Len(c) = k /\ (\A i \in 1..(k - 1) : c[i] = a[i]) /\ c[(k - 1) + 1] = b[1]
        <5>1. /\ Len(c) = Len(a) + Len(b)
              /\ \A i \in 1..Len(a) : c[i] = a[i]
              /\ \A i \in 1..Len(b) : c[Len(a) + i] = b[i]
          <6>1. Joins(a, b, c)
            BY <4>4, Joined
          <6> QED BY <6>1 DEF Joins
        <5>2. 1 \in 1..Len(b)
          BY <4>4
        <5> QED BY <3>2, <4>4, <5>1, <5>2
      <4>6. ASSUME NEW i \in 1..k PROVE c[i] = seqs[i][1]
        <5>1. i \in 1..(k - 1) \/ (i = k /\ i = (k - 1) + 1)
          BY <3>2
        <5> QED BY <4>4, <4>5, <5>1 DEF b
      <4> QED BY <3>2, <4>5, <4>6 DEF c
    <3> QED BY <3>3, <3>4
  <2>5. Len(seqs) \in 1..Len(seqs) /\ Len(seqs) \in Nat
    BY <1>2, SequenceFacts
  <2>6. Fine(Len(seqs))
    BY <2>4, <2>5
  <2> QED BY <2>1, <2>6
<1> QED BY <1>1, <1>2

LEMMA PlainAt ==
  ASSUME NEW by, IsSequence(by), NEW r, PlainValues(r, by), NEW i \in 1..Len(by)
  PROVE  GroupValue(r, by[i]) \notin {Bar, Empty} /\ i \in Nat \ {0}
<1>1. Len(by) \in Nat /\ DOMAIN by = 1..Len(by)
  BY SequenceFacts
<1>2. by[i] \in ToSet(by) /\ i \in Nat \ {0}
  BY <1>1 DEF ToSet
<1> QED BY <1>2 DEF PlainValues

LEMMA KeyIs ==
  ASSUME NEW by, IsSequence(by), NEW r, PlainValues(r, by)
  PROVE  LET parts == [i \in 1..Len(by) |-> Part(r, by, i)]
         IN  /\ GroupKey(r, by) = FlattenSeq(parts)
             /\ IsSequence(parts) /\ Len(parts) = Len(by)
             /\ \A i \in 1..Len(by) : IsSequence(parts[i]) /\ parts[i] = Part(r, by, i)
<1> DEFINE parts == [i \in 1..Len(by) |-> Part(r, by, i)]
<1>1. Len(by) \in Nat /\ DOMAIN by = 1..Len(by)
  BY SequenceFacts
<1>2. GroupKey(r, by) = FlattenSeq(parts)
  BY <1>1 DEF GroupKey, Part
<1>3. \A i \in 1..Len(by) : parts[i] = Part(r, by, i) /\ IsSequence(Part(r, by, i))
  BY PlainAt, PartFacts
<1>4. parts = [i \in 1..Len(by) |-> parts[i]]
  OBVIOUS
<1> HIDE DEF parts
<1>5. IsSequence(parts) /\ Len(parts) = Len(by)
  BY <1>1, <1>4, FunctionIsSequence
<1> QED BY <1>2, <1>3, <1>5 DEF parts

(* The bars tell where a label's value starts, so a key has one reading.    *)
LEMMA KeysTell ==
  ASSUME NEW by, IsSequence(by), by # <<>>, NEW r, PlainValues(r, by), NEW s, PlainValues(s, by),
         GroupKey(r, by) = GroupKey(s, by)
  PROVE  \A i \in 1..Len(by) : GroupValue(r, by[i]) = GroupValue(s, by[i])
<1> DEFINE ps == [i \in 1..Len(by) |-> Part(r, by, i)]
           ts == [i \in 1..Len(by) |-> Part(s, by, i)]
<1>1. /\ GroupKey(r, by) = FlattenSeq(ps) /\ IsSequence(ps) /\ Len(ps) = Len(by)
      /\ \A i \in 1..Len(by) : IsSequence(ps[i]) /\ ps[i] = Part(r, by, i)
  BY KeyIs
<1>2. /\ GroupKey(s, by) = FlattenSeq(ts) /\ IsSequence(ts) /\ Len(ts) = Len(by)
      /\ \A i \in 1..Len(by) : IsSequence(ts[i]) /\ ts[i] = Part(s, by, i)
  BY KeyIs
<1>3. Len(by) \in Nat /\ Len(by) # 0
  BY SequenceFacts
<1> HIDE DEF ps, ts
<1>4. ps # <<>> /\ ts # <<>>
  BY <1>1, <1>2, <1>3, SequenceFacts
<1>5. PICK flat : Flattens(ps, flat) /\ FlattenSeq(ps) = flat[Len(by)]
  BY <1>1, <1>4, FlattenIs
<1>6. PICK flot : Flattens(ts, flot) /\ FlattenSeq(ts) = flot[Len(by)]
  BY <1>2, <1>4, FlattenIs
<1>7. \A k \in 1..Len(by) : IsSequence(flat[k]) /\ IsSequence(flot[k])
  BY <1>1, <1>2, <1>5, <1>6, FlatSequences
<1> DEFINE Agree(n) == \A i \in 1..n : GroupValue(r, by[i]) = GroupValue(s, by[i])
           Bad == {n \in Nat : n \in 1..Len(by) /\ flat[n] = flot[n] /\ ~Agree(n)}
<1>8. Bad \in SUBSET Nat
  OBVIOUS
<1>9. ASSUME Bad # {} PROVE FALSE
  <2> HIDE DEF Bad
  <2>1. PICK n \in Bad : \A y \in Bad : n <= y
    BY <1>8, <1>9, Least
  <2>2. n \in 1..Len(by) /\ flat[n] = flot[n] /\ ~Agree(n) /\ n \in Nat \ {0}
    BY <2>1 DEF Bad
  <2> DEFINE p == ps[n]
             t == ts[n]
             v == GroupValue(r, by[n])
             u == GroupValue(s, by[n])
  <2>3. /\ IsSequence(p) /\ Len(p) = (IF n > 1 THEN 1 ELSE 0) + (IF v = Missing THEN 0 ELSE 1)
        /\ v # Missing => p[Len(p)] = v /\ v # Bar
        /\ v = Missing /\ n > 1 => p[Len(p)] = Bar
    BY <1>1, <2>2, PlainAt, PartFacts
  <2>4. /\ IsSequence(t) /\ Len(t) = (IF n > 1 THEN 1 ELSE 0) + (IF u = Missing THEN 0 ELSE 1)
        /\ u # Missing => t[Len(t)] = u /\ u # Bar
        /\ u = Missing /\ n > 1 => t[Len(t)] = Bar
    BY <1>2, <2>2, PlainAt, PartFacts
  <2>5. CASE n = 1
    <3>1. p = t
      BY <1>5, <1>6, <2>2, <2>5 DEF Flattens
    <3>2. v = u
      <4> HIDE DEF p, t, v, u
      <4> QED BY <2>3, <2>4, <2>5, <3>1
    <3>3. \A i \in 1..n : i = n
      BY <2>5
    <3> QED BY <2>2, <3>2, <3>3
  <2>6. CASE n # 1
    <3>1. n > 1 /\ n - 1 \in 1..Len(by) /\ n - 1 \in Nat /\ ~(n <= n - 1) /\ n \in 2..Len(by)
      BY <2>2, <2>6
    <3> DEFINE a == flat[n - 1]
               b == flot[n - 1]
    <3>2. flat[n] = a \o p /\ flot[n] = b \o t
      BY <1>1, <1>2, <1>5, <1>6, <3>1 DEF Flattens
    <3> DEFINE c == flat[n]
    <3>3. IsSequence(a) /\ IsSequence(b) /\ c = a \o p /\ c = b \o t
      BY <1>7, <2>2, <3>1, <3>2
    <3>4. p # <<>> /\ t # <<>>
      <4> HIDE DEF p, t, v, u
      <4>1. Len(p) # 0 /\ Len(t) # 0
        BY <2>3, <2>4, <3>1
      <4> QED BY <2>3, <2>4, <4>1, SequenceFacts
    <3> HIDE DEF a, b, c, p, t, v, u
    <3>5. p[Len(p)] = t[Len(t)] /\ (Len(p) = Len(t) => a = b)
      <4>1. /\ c[Len(c)] = p[Len(p)] /\ c[Len(c)] = t[Len(t)]
            /\ Len(p) = Len(t) => a = b
        <5>1. LastAndFirst(a, p, b, t, c)
          BY <2>3, <2>4, <3>3, SameStart
        <5> QED BY <3>4, <5>1 DEF LastAndFirst
      <4> QED BY <4>1
    <3>6. v = u
      BY <2>3, <2>4, <3>1, <3>5
    <3>7. Len(p) = Len(t)
      BY <2>3, <2>4, <3>6
    <3>8. Agree(n - 1)
      BY <2>1, <3>1, <3>5, <3>7 DEF Bad, a, b
    <3>9. \A i \in 1..n : i = n \/ i \in 1..(n - 1)
      BY <3>1
    <3> QED BY <2>2, <3>6, <3>8, <3>9 DEF v, u
  <2> QED BY <2>5, <2>6
<1>10. Len(by) \in 1..Len(by) /\ flat[Len(by)] = flot[Len(by)]
  <2>1. flat[Len(by)] = flot[Len(by)]
    <3>1. FlattenSeq(ps) = FlattenSeq(ts)
      BY <1>1, <1>2
    <3> QED BY <1>5, <1>6, <3>1
  <2> QED BY <1>3, <2>1
<1> QED BY <1>3, <1>9, <1>10

Plain(rs, by) == \A i \in 1..Len(rs) : PlainValues(rs[i], by)

ValuesAt(r, by) == [l \in ToSet(by) |-> GroupValue(r, l)]

LEMMA KeysAndValues ==
  ASSUME NEW by, IsSequence(by), by # <<>>, NEW r, PlainValues(r, by), NEW s, PlainValues(s, by)
  PROVE  GroupKey(r, by) = GroupKey(s, by) <=> ValuesAt(r, by) = ValuesAt(s, by)
<1>1. DOMAIN by = 1..Len(by)
  BY SequenceFacts
<1>2. ValuesAt(r, by) = ValuesAt(s, by) <=> \A i \in 1..Len(by) : GroupValue(r, by[i]) = GroupValue(s, by[i])
  <2>1. ValuesAt(r, by) = ValuesAt(s, by) <=> \A l \in ToSet(by) : GroupValue(r, l) = GroupValue(s, l)
    BY DEF ValuesAt
  <2>2. (\A l \in ToSet(by) : GroupValue(r, l) = GroupValue(s, l))
          <=> \A i \in 1..Len(by) : GroupValue(r, by[i]) = GroupValue(s, by[i])
    BY <1>1 DEF ToSet
  <2> QED BY <2>1, <2>2
<1>3. ASSUME \A i \in 1..Len(by) : GroupValue(r, by[i]) = GroupValue(s, by[i])
      PROVE  GroupKey(r, by) = GroupKey(s, by)
  <2> DEFINE ps == [i \in 1..Len(by) |-> Part(r, by, i)]
             ts == [i \in 1..Len(by) |-> Part(s, by, i)]
  <2>1. \A i \in 1..Len(by) : Part(r, by, i) = Part(s, by, i)
    BY <1>3 DEF Part, KeyText
  <2>2. ps = ts
    BY <2>1
  <2>3. GroupKey(r, by) = FlattenSeq(ps)
    BY KeyIs
  <2>4. GroupKey(s, by) = FlattenSeq(ts)
    BY KeyIs
  <2> HIDE DEF ps, ts
  <2> QED BY <2>2, <2>3, <2>4
<1>4. GroupKey(r, by) = GroupKey(s, by) => \A i \in 1..Len(by) : GroupValue(r, by[i]) = GroupValue(s, by[i])
  BY KeysTell
<1> QED BY <1>2, <1>3, <1>4

LEMMA OverlayFacts ==
  ASSUME NEW labels, NEW over, NEW l
  PROVE  LabelOf(Overlay(labels, over), l) = IF l \in DOMAIN over THEN over[l] ELSE LabelOf(labels, l)
BY DEF LabelOf, Overlay

(* the one result of a group: the labels are those of every member, and the *)
(* value is the sum of the group's numbers                                  *)
LEMMA GroupResult ==
  ASSUME NEW rs, IsList(rs), NEW by, IsSequence(by), by # <<>>, Plain(rs, by),
         NEW i \in 1..Len(rs), NEW part \in Apply("sum", Group(rs, by, GroupKey(rs[i], by)))
  PROVE  LET k == GroupKey(rs[i], by)
             out == Labelled(rs, by, k, part.rs)
         IN  /\ IsList(part.rs) /\ IsList(out) /\ Len(out) = 1
             /\ \A l \in ToSet(by) : LabelOf(out[1].labels, l) = GroupValue(rs[i], l)
             /\ out[1].val = Total(ValuesOf(Numeric(Group(rs, by, k))))
<1> DEFINE k == GroupKey(rs[i], by)
           g == Group(rs, by, k)
           out == Labelled(rs, by, k, part.rs)
<1>1. k \in GroupKeys(rs, by)
  BY ListFacts DEF GroupKeys
<1> HIDE DEF k
<1>2. IsList(g) /\ g # <<>> /\ \A j \in 1..Len(g) : \E m \in 1..Len(rs) : g[j] = rs[m] /\ GroupKey(rs[m], by) = k
  BY <1>1, GroupMembers
<1>3. part \in ApplySum(g)
  BY DEF Apply, k
<1> HIDE DEF g
<1>4. ASSUME NEW j \in 1..Len(g), NEW l \in ToSet(by)
      PROVE  GroupValue(g[j], l) = GroupValue(rs[i], l)
  <2>1. PICK m \in 1..Len(rs) : g[j] = rs[m] /\ GroupKey(rs[m], by) = k
    BY <1>2
  <2>2. GroupKey(rs[m], by) = GroupKey(rs[i], by) /\ PlainValues(rs[m], by) /\ PlainValues(rs[i], by)
    BY <2>1 DEF k, Plain
  <2>3. ValuesAt(rs[m], by) = ValuesAt(rs[i], by)
    BY <2>2, KeysAndValues
  <2>4. ValuesAt(rs[m], by)[l] = GroupValue(rs[m], l) /\ ValuesAt(rs[i], by)[l] = GroupValue(rs[i], l)
    BY DEF ValuesAt
  <2> QED BY <2>1, <2>3, <2>4
<1>5. /\ IsOutcome(part) /\ part.ok /\ Len(part.rs) = 1
      /\ part.rs[1].labels = LabelSource(g).labels
      /\ part.rs[1].val = Total(ValuesOf(Numeric(g)))
  BY <1>2, <1>3, SumTyped
<1>6. IsList(part.rs) /\ 1 \in 1..Len(part.rs)
  BY <1>5 DEF IsOutcome
<1>7. /\ IsList(out) /\ Len(out) = Len(part.rs)
      /\ \A n \in 1..Len(part.rs) :
           /\ out[n].val = part.rs[n].val
           /\ out[n].labels = Overlay(part.rs[n].labels, GroupLabels(Group(rs, by, k)[1], by))
  BY <1>1, <1>6, LabelledTyped
<1> HIDE DEF out
<1> DEFINE over == GroupLabels(g[1], by)
<1>8. Len(out) = 1 /\ out[1].val = Total(ValuesOf(Numeric(g))) /\ out[1].labels = Overlay(LabelSource(g).labels, over)
  BY <1>5, <1>6, <1>7 DEF g
<1>9. 1 \in 1..Len(g)
  BY <1>2, ListFacts
<1>10. ASSUME NEW l \in ToSet(by)
       PROVE  LabelOf(out[1].labels, l) = GroupValue(rs[i], l)
  <2>1. GroupValue(g[1], l) = GroupValue(rs[i], l)
    BY <1>4, <1>9
  <2>2. l \in DOMAIN over <=> GroupValue(g[1], l) # Missing
    BY DEF GroupLabels
  <2>3. l \in DOMAIN over => over[l] = GroupValue(g[1], l)
    BY DEF GroupLabels
  <2> HIDE DEF over
  <2>4. LabelOf(out[1].labels, l) = IF l \in DOMAIN over THEN over[l] ELSE LabelOf(LabelSource(g).labels, l)
    BY <1>8, OverlayFacts
  <2>5. CASE GroupValue(g[1], l) # Missing
    BY <2>1, <2>2, <2>3, <2>4, <2>5
  <2>6. CASE GroupValue(g[1], l) = Missing
    <3>1. \A j \in 1..Len(g) : LabelOf(g[j].labels, l) = Missing
      <4>1. \A j \in 1..Len(g) : GroupValue(g[j], l) = Missing
        BY <1>4, <2>1, <2>6
      <4> QED BY <4>1 DEF GroupValue
    <3>2. LabelOf(LabelSource(g).labels, l) = Missing
      BY <1>2, <3>1, LabelSourceTyped
    <3> QED BY <2>1, <2>2, <2>4, <2>6, <3>2
  <2> QED BY <2>5, <2>6
<1> QED BY <1>6, <1>7, <1>8, <1>10 DEF out, k, g

AlikeIn(rs, by, i) == Keep(rs, {j \in DOMAIN rs : ValuesAt(rs[j], by) = ValuesAt(rs[i], by)})

LEMMA AlikeIsGroup ==
  ASSUME NEW rs, IsList(rs), NEW by, IsSequence(by), by # <<>>, Plain(rs, by), NEW i \in 1..Len(rs)
  PROVE  AlikeIn(rs, by, i) = Group(rs, by, GroupKey(rs[i], by))
<1>1. DOMAIN rs = 1..Len(rs)
  BY ListFacts
<1>2. \A j \in 1..Len(rs) : PlainValues(rs[j], by)
  BY DEF Plain
<1>3. \A j \in 1..Len(rs) : GroupKey(rs[j], by) = GroupKey(rs[i], by) <=> ValuesAt(rs[j], by) = ValuesAt(rs[i], by)
  BY <1>2, KeysAndValues
<1>4. {j \in DOMAIN rs : ValuesAt(rs[j], by) = ValuesAt(rs[i], by)} = {j \in DOMAIN rs : GroupKey(rs[j], by) = GroupKey(rs[i], by)}
  BY <1>1, <1>3
<1> QED BY <1>4 DEF AlikeIn, Group

(* as many groups as there are combinations of values *)
LEMMA GroupCount ==
  ASSUME NEW rs, IsList(rs), NEW by, IsSequence(by), by # <<>>, Plain(rs, by)
  PROVE  Cardinality(GroupKeys(rs, by)) = Cardinality({ValuesAt(rs[i], by) : i \in DOMAIN rs})
<1> DEFINE K == GroupKeys(rs, by)
           V == {ValuesAt(rs[i], by) : i \in 1..Len(rs)}
           tuple == [k \in K |-> ValuesAt(rs[CHOOSE i \in 1..Len(rs) : GroupKey(rs[i], by) = k], by)]
<1>1. DOMAIN rs = 1..Len(rs)
  BY ListFacts
<1>2. IsFiniteSet(K)
  BY KeysFinite
<1>3. ASSUME NEW k \in K
      PROVE  \E i \in 1..Len(rs) : GroupKey(rs[i], by) = k /\ tuple[k] = ValuesAt(rs[i], by)
  <2>1. \E i \in 1..Len(rs) : GroupKey(rs[i], by) = k
    BY <1>1 DEF GroupKeys
  <2>2. PICK i : i = CHOOSE j \in 1..Len(rs) : GroupKey(rs[j], by) = k
    OBVIOUS
  <2>3. i \in 1..Len(rs) /\ GroupKey(rs[i], by) = k
    BY <2>1, <2>2
  <2> QED BY <2>2, <2>3
<1>4. DOMAIN tuple = K
  OBVIOUS
<1>5. tuple = [k \in K |-> tuple[k]]
  OBVIOUS
<1>6. \A i, j \in 1..Len(rs) : GroupKey(rs[j], by) = GroupKey(rs[i], by) <=> ValuesAt(rs[j], by) = ValuesAt(rs[i], by)
  BY KeysAndValues DEF Plain
<1>7. \A i \in 1..Len(rs) : GroupKey(rs[i], by) \in K
  BY <1>1 DEF GroupKeys
<1> HIDE DEF K, tuple
<1>8. tuple \in [K -> V]
  BY <1>3, <1>5
<1>9. tuple \in Injection(K, V)
  <2>1. ASSUME NEW a \in K, NEW b \in K, tuple[a] = tuple[b] PROVE a = b
    <3>1. PICK i \in 1..Len(rs) : GroupKey(rs[i], by) = a /\ tuple[a] = ValuesAt(rs[i], by)
      BY <1>3
    <3>2. PICK j \in 1..Len(rs) : GroupKey(rs[j], by) = b /\ tuple[b] = ValuesAt(rs[j], by)
      BY <1>3
    <3> QED BY <1>6, <2>1, <3>1, <3>2
  <2> HIDE DEF V
  <2> QED BY <1>4, <1>8, <2>1 DEF Injection, IsInjective
<1>10. tuple \in Surjection(K, V)
  <2>1. ASSUME NEW v \in V PROVE \E k \in K : tuple[k] = v
    <3>1. PICK i \in 1..Len(rs) : v = ValuesAt(rs[i], by)
      OBVIOUS
    <3>2. GroupKey(rs[i], by) \in K
      BY <1>7
    <3>3. PICK j \in 1..Len(rs) : GroupKey(rs[j], by) = GroupKey(rs[i], by) /\ tuple[GroupKey(rs[i], by)] = ValuesAt(rs[j], by)
      BY <1>3, <3>2
    <3> QED BY <1>6, <3>1, <3>2, <3>3
  <2> HIDE DEF V
  <2> QED BY <1>8, <2>1 DEF Surjection
<1> HIDE DEF V
<1>11. Cardinality(V) = Cardinality(K)
  BY <1>2, <1>9, <1>10, FS_Surjection
<1> QED BY <1>1, <1>11 DEF V, K

LEMMA SumOfGroups ==
  ASSUME NEW rs, IsList(rs), NEW by, IsSequence(by), by # <<>>, Plain(rs, by),
         NEW o \in GroupAndAggregate(rs, by, "sum"), o.ok
  PROVE  /\ Len(o.rs) = Cardinality({ValuesAt(rs[i], by) : i \in DOMAIN rs})
         /\ \A i \in 1..Len(rs) : \E k \in 1..Len(o.rs) :
              /\ \A l \in ToSet(by) : LabelOf(o.rs[k].labels, l) = GroupValue(rs[i], l)
              /\ o.rs[k].val = Total(ValuesOf(Numeric(AlikeIn(rs, by, i))))
<1> DEFINE K == GroupKeys(rs, by)
           m == Cardinality(K)
<1>1. PICK order \in SetToSeqs(K) : \E f : Grouping(rs, by, "sum", o, order, f)
  BY GroupOutcome, FailedFacts
<1>2. PICK f : Grouping(rs, by, "sum", o, order, f)
  BY <1>1
<1>3. /\ \A k \in K : f[k] \in Apply("sum", Group(rs, by, k)) /\ f[k].ok
      /\ o = Return(FlattenSeq([i \in DOMAIN order |-> Labelled(rs, by, order[i], f[order[i]].rs)]))
  BY <1>2 DEF Grouping
<1>4. IsFiniteSet(K) /\ m \in Nat
  BY KeysFinite
<1>5. order \in [1..m -> K] /\ \A i, j \in 1..m : i # j => order[i] # order[j]
  BY DEF SetToSeqs
<1>6. \A k \in K : \E i \in 1..m : order[i] = k
  <2>1. \A i \in 1..m : order[i] \in K
    BY <1>5
  <2> HIDE DEF K
  <2> QED BY <1>4, <1>5, <2>1, CountedList
<1>7. ASSUME NEW k \in K PROVE \E i \in 1..Len(rs) : GroupKey(rs[i], by) = k
  BY ListFacts DEF GroupKeys
<1>8. \A i \in 1..Len(rs) : GroupKey(rs[i], by) \in K
  BY ListFacts DEF GroupKeys
<1> DEFINE parts == [i \in 1..m |-> Labelled(rs, by, order[i], f[order[i]].rs)]
<1>9. o.rs = FlattenSeq(parts)
  <2>1. o = Return(FlattenSeq(parts))
    BY <1>3, <1>5
  <2> HIDE DEF parts
  <2> QED BY <2>1 DEF Return
<1>10. ASSUME NEW i \in 1..m
      PROVE  parts[i] = Labelled(rs, by, order[i], f[order[i]].rs) /\ order[i] \in K
  BY <1>5
<1>11. parts = [i \in 1..m |-> parts[i]]
  OBVIOUS
<1>12. m = Cardinality({ValuesAt(rs[i], by) : i \in DOMAIN rs})
  BY GroupCount
<1> HIDE DEF K, m, parts
<1>13. IsSequence(parts) /\ Len(parts) = m
  BY <1>4, <1>11, FunctionIsSequence
<1>14. ASSUME NEW i \in 1..m
       PROVE  IsSequence(parts[i]) /\ Len(parts[i]) = 1
  <2>1. parts[i] = Labelled(rs, by, order[i], f[order[i]].rs) /\ order[i] \in K
    BY <1>10
  <2>2. PICK j \in 1..Len(rs) : GroupKey(rs[j], by) = order[i]
    BY <1>7, <2>1
  <2>3. f[order[i]] \in Apply("sum", Group(rs, by, order[i]))
    BY <1>3, <2>1
  <2>4. IsList(parts[i]) /\ Len(parts[i]) = 1
    BY <2>1, <2>2, <2>3, GroupResult
  <2> QED BY <2>4, ListFacts
<1>15. Len(o.rs) = m /\ \A i \in 1..m : o.rs[i] = parts[i][1]
  BY <1>9, <1>13, <1>14, FlatOnes
<1>16. ASSUME NEW i \in 1..Len(rs)
       PROVE  \E k \in 1..Len(o.rs) :
                /\ \A l \in ToSet(by) : LabelOf(o.rs[k].labels, l) = GroupValue(rs[i], l)
                /\ o.rs[k].val = Total(ValuesOf(Numeric(AlikeIn(rs, by, i))))
  <2> DEFINE key == GroupKey(rs[i], by)
  <2>1. key \in K
    BY <1>8
  <2>2. PICK k \in 1..m : order[k] = key
    BY <1>6, <2>1
  <2>3. f[key] \in Apply("sum", Group(rs, by, key))
    BY <1>3, <2>1
  <2> DEFINE out == Labelled(rs, by, key, f[key].rs)
  <2>4. /\ \A l \in ToSet(by) : LabelOf(out[1].labels, l) = GroupValue(rs[i], l)
        /\ out[1].val = Total(ValuesOf(Numeric(Group(rs, by, key))))
    BY <2>3, GroupResult
  <2>5. o.rs[k] = out[1] /\ k \in 1..Len(o.rs)
    BY <1>10, <1>15, <2>2
  <2>6. AlikeIn(rs, by, i) = Group(rs, by, key)
    BY AlikeIsGroup
  <2> HIDE DEF out, key
  <2> QED BY <2>4, <2>5, <2>6
<1> QED BY <1>12, <1>15, <1>16

LEMMA SumsAddUp ==
  ASSUME EngineInv, [EngineNext]_engineVars
  PROVE  LET node == query[next]
             values(r) == [l \in ToSet(node.by) |-> GroupValue(r, l)]
             alike(i) == Keep(Operand, {j \in DOMAIN Operand : values(Operand[j]) = values(Operand[i])})
         IN  (/\ Answering("aggregation") /\ node.name = "sum" /\ node.by # <<>>
              /\ \A i \in DOMAIN Operand : PlainValues(Operand[i], node.by))
             => /\ Len(Answer) = Cardinality({values(Operand[i]) : i \in DOMAIN Operand})
                /\ \A i \in DOMAIN Operand : \E k \in DOMAIN Answer :
                     /\ \A l \in ToSet(node.by) : LabelOf(Answer[k].labels, l) = values(Operand[i])[l]
                     /\ Same(Answer[k].val, Total(ValuesOf(Numeric(alike(i)))))
<1> DEFINE by == query[next].by
<1>1. SUFFICES ASSUME Answering("aggregation"), query[next].name = "sum", by # <<>>,
                      \A i \in DOMAIN Operand : PlainValues(Operand[i], by)
               PROVE  /\ Len(Answer) = Cardinality({ValuesAt(Operand[i], by) : i \in DOMAIN Operand})
                      /\ \A i \in DOMAIN Operand : \E k \in DOMAIN Answer :
                           /\ \A l \in ToSet(by) : LabelOf(Answer[k].labels, l) = ValuesAt(Operand[i], by)[l]
                           /\ Same(Answer[k].val, Total(ValuesOf(Numeric(AlikeIn(Operand, by, i)))))
  BY DEF ValuesAt, AlikeIn
<1>2. VisitAggregation /\ next' = next + 1
  BY <1>1, AnsweringVisits DEF Answering
<1>3. IsList(Operand) /\ \E o \in GroupAndAggregate(Operand, by, "sum") : o.ok /\ Answer = o.rs
  BY <1>1, <1>2, AggregationKeeps
<1>4. PICK o \in GroupAndAggregate(Operand, by, "sum") : o.ok /\ Answer = o.rs
  BY <1>3
<1>5. IsSequence(by)
  <2>1. query[next].kind = "aggregation" /\ status = "running"
    BY <1>1 DEF Answering, Visiting
  <2>2. next \in 1..Len(query) /\ query \in Queries
    BY <2>1, OperandsThere DEF EngineInv
  <2>3. by \in Seq(ToSet(by))
    BY <2>1, <2>2, QueriesAreTrees
  <2> HIDE DEF by
  <2> QED BY <2>3 DEF IsSequence
<1> HIDE DEF by
<1>6. /\ Len(o.rs) = Cardinality({ValuesAt(Operand[i], by) : i \in DOMAIN Operand})
      /\ \A i \in 1..Len(Operand) : \E k \in 1..Len(o.rs) :
           /\ \A l \in ToSet(by) : LabelOf(o.rs[k].labels, l) = GroupValue(Operand[i], l)
           /\ o.rs[k].val = Total(ValuesOf(Numeric(AlikeIn(Operand, by, i))))
  <2>1. Plain(Operand, by)
    BY <1>1, <1>3, ListFacts DEF Plain
  <2> QED BY <1>1, <1>3, <1>4, <1>5, <2>1, SumOfGroups
<1>7. DOMAIN Operand = 1..Len(Operand)
  BY <1>3, ListFacts
<1>8. IsList(o.rs) /\ DOMAIN o.rs = 1..Len(o.rs)
  BY <1>3, <1>4, GroupTyped, ListFacts DEF IsOutcome
<1>9. \A k \in 1..Len(o.rs) : Same(o.rs[k].val, o.rs[k].val)
  BY <1>8, AtMostReflexive DEF IsList, IsResult, Same
<1>10. ASSUME NEW i \in DOMAIN Operand
       PROVE  \E k \in DOMAIN Answer :
                /\ \A l \in ToSet(by) : LabelOf(Answer[k].labels, l) = ValuesAt(Operand[i], by)[l]
                /\ Same(Answer[k].val, Total(ValuesOf(Numeric(AlikeIn(Operand, by, i)))))
  <2>1. PICK k \in 1..Len(o.rs) :
          /\ \A l \in ToSet(by) : LabelOf(o.rs[k].labels, l) = GroupValue(Operand[i], l)
          /\ o.rs[k].val = Total(ValuesOf(Numeric(AlikeIn(Operand, by, i))))
    BY <1>6, <1>7
  <2>2. \A l \in ToSet(by) : ValuesAt(Operand[i], by)[l] = GroupValue(Operand[i], l)
    BY DEF ValuesAt
  <2>3. Same(o.rs[k].val, Total(ValuesOf(Numeric(AlikeIn(Operand, by, i)))))
    BY <1>9, <2>1
  <2> QED BY <1>4, <1>8, <2>1, <2>2, <2>3
<1> QED BY <1>4, <1>6, <1>10

(* A sum by labels has a group for each combination of the labels' values   *)
(* that the results have, a label without a value among them, and every     *)
(* result is in its group's sum and in no other, however the map iterates   *)
(* over the groups and whatever the values are, as long as none is empty or *)
(* holds the bar (executor.go, groupAndAggregate).                          *)
THEOREM GroupSums == EngineSpec => GroupedSumsAddUp
BY SumsAddUp, EngineAlways, PTL DEF EngineSpec, GroupedSumsAddUp
=============================================================================
