-------------------------- MODULE QueryTextProofs --------------------------
(***************************************************************************)
(* Proofs about QueryLexer, QueryParser and QueryText, for texts and       *)
(* queries of any length.                                                  *)
(*                                                                         *)
(* The lexer: tokenize cuts every text into the longest words of the token *)
(* language, and fails only where no word starts.                          *)
(*                                                                         *)
(* The parser: it accepts exactly the language of Phrases, and the tree of *)
(* what it accepts groups from the left.                                   *)
(*   - The results exist (ResultsFacts): what is parsed from a position    *)
(*     depends only on the results of later ones (StepFacts).              *)
(*   - So do the phrases (PhrasesFacts), by the length of the stretch.     *)
(*   - What parses is a phrase (AllSound), from the last position back.    *)
(*   - Every phrase parses up to its end (AllComplete), from the shortest  *)
(*     on, if no token follows that would be taken for a part of it.       *)
(*   - What comes before an operator parses alike with the operator and    *)
(*     without it, up to there (AllSame), so one more operand is one more  *)
(*     turn of the loop (GroupedOneMore).                                  *)
(*                                                                         *)
(* Induction is by the least number, or the greatest position, for which a *)
(* fact would fail.                                                        *)
(***************************************************************************)
EXTENDS QueryText, WellFoundedInduction, TLAPS

LEMMA Least ==
  ASSUME NEW T \in SUBSET Nat, T # {}
  PROVE  \E x \in T : \A y \in T : x <= y
<1>1. PICK x \in T : \A y \in T : ~ (<<y, x>> \in OpToRel(<, Nat))
  BY WFMin, NatLessThanWellFounded
<1>2. \A y \in T : ~(y < x)
  BY <1>1 DEF OpToRel
<1> QED BY <1>2

(* The greatest position of a text for which a fact would fail. *)
LEMMA Greatest ==
  ASSUME NEW n \in Nat, NEW T \in SUBSET (1..n), T # {}
  PROVE  \E x \in T : \A y \in T : y <= x
<1> DEFINE U == {n - x : x \in T}
<1>1. U \in SUBSET Nat /\ U # {}
  <2>1. PICK x \in T : TRUE
    OBVIOUS
  <2>2. n - x \in U
    BY <2>1
  <2>3. ASSUME NEW y \in T PROVE n - y \in Nat
    OBVIOUS
  <2> QED BY <2>2, <2>3
<1>2. PICK u \in U : \A v \in U : u <= v
  BY <1>1, Least
<1>3. PICK x \in T : u = n - x
  BY <1>2
<1>4. \A y \in T : n - x <= n - y
  BY <1>2, <1>3
<1> QED BY <1>4

LEMMA LeastIsMin ==
  ASSUME NEW S \in SUBSET Nat, S # {}
  PROVE  Min(S) \in S /\ \A y \in S : Min(S) <= y
<1>1. \E x \in S : \A y \in S : x <= y
  BY Least
<1> QED BY <1>1 DEF Min

LEMMA GreatestIsMax ==
  ASSUME NEW n \in Nat, NEW S \in SUBSET (0..n), S # {}
  PROVE  Max(S) \in S /\ \A y \in S : Max(S) >= y
<1> DEFINE U == {x + 1 : x \in S}
<1>1. U \in SUBSET (1..(n + 1)) /\ U # {} /\ n + 1 \in Nat
  <2>1. PICK x \in S : TRUE
    OBVIOUS
  <2>2. x + 1 \in U
    BY <2>1
  <2>3. ASSUME NEW y \in S PROVE y + 1 \in 1..(n + 1)
    OBVIOUS
  <2> QED BY <2>2, <2>3
<1>2. PICK u \in U : \A v \in U : v <= u
  BY <1>1, Greatest
<1>3. PICK x \in S : u = x + 1
  BY <1>2
<1>4. ASSUME NEW y \in S PROVE x >= y
  <2>1. y + 1 \in U
    OBVIOUS
  <2>2. y + 1 <= x + 1
    BY <1>2, <1>3, <2>1
  <2> QED BY <2>2
<1> QED BY <1>3, <1>4 DEF Max

-----------------------------------------------------------------------------
(* Slices and runs.                                                        *)

LEMMA SliceFacts ==
  ASSUME NEW t \in Seq(Alphabet), NEW p \in 1..Len(t), NEW j \in (p + 1)..(Len(t) + 1)
  PROVE  /\ Slice(t, p, j) \in Seq(Alphabet)
         /\ Len(Slice(t, p, j)) = j - p
         /\ DOMAIN Slice(t, p, j) = 1..(j - p)
         /\ \A i \in 1..(j - p) : Slice(t, p, j)[i] = t[p + i - 1]
BY DEF Slice

LEMMA SliceElements ==
  ASSUME NEW t \in Seq(Alphabet), NEW p \in 1..Len(t), NEW j \in (p + 1)..(Len(t) + 1)
  PROVE  /\ Slice(t, p, j) # <<>>
         /\ Slice(t, p, j)[1] = t[p]
         /\ Last(Slice(t, p, j)) = t[j - 1]
         /\ ToSet(Slice(t, p, j)) = {t[i] : i \in p..(j - 1)}
         /\ ToSet(Front(Slice(t, p, j))) = {t[i] : i \in p..(j - 2)}
<1> DEFINE s == Slice(t, p, j)
<1>1. /\ s \in Seq(Alphabet) /\ Len(s) = j - p /\ DOMAIN s = 1..(j - p)
      /\ \A i \in 1..(j - p) : s[i] = t[p + i - 1]
  BY SliceFacts
<1> HIDE DEF s
<1>2. s # <<>> /\ s[1] = t[p] /\ s[j - p] = t[j - 1]
  BY <1>1
<1>3. ASSUME NEW m \in 0..(j - p)
      PROVE  {s[i] : i \in 1..m} = {t[i] : i \in p..(p + m - 1)}
  <2>1. \A i \in 1..m : s[i] = t[p + i - 1] /\ p + i - 1 \in p..(p + m - 1)
    BY <1>1
  <2>2. \A i \in p..(p + m - 1) : t[i] = s[i - p + 1] /\ i - p + 1 \in 1..m
    BY <1>1
  <2> QED BY <2>1, <2>2
<1>4. ToSet(s) = {t[i] : i \in p..(j - 1)}
  <2>1. j - p \in 0..(j - p) /\ p + (j - p) - 1 = j - 1
    OBVIOUS
  <2> QED BY <1>1, <1>3, <2>1 DEF ToSet
<1>5. ToSet(Front(s)) = {t[i] : i \in p..(j - 2)}
  <2>1. j - p - 1 \in 0..(j - p) /\ p + (j - p - 1) - 1 = j - 2
    OBVIOUS
  <2>2. /\ DOMAIN Front(s) = 1..(j - p - 1)
        /\ \A i \in 1..(j - p - 1) : Front(s)[i] = s[i]
    BY <1>1 DEF Front
  <2>3. ToSet(Front(s)) = {s[i] : i \in 1..(j - p - 1)}
    BY <2>2 DEF ToSet
  <2> QED BY <1>3, <2>1, <2>3
<1> QED BY <1>1, <1>2, <1>4, <1>5 DEF s, Last

LEMMA EmptySlice ==
  ASSUME NEW t \in Seq(Alphabet), NEW p \in 1..(Len(t) + 1), NEW j \in 1..p
  PROVE  Slice(t, p, j) = <<>>
BY DEF Slice

LEMMA RunFacts ==
  ASSUME NEW t \in Seq(Alphabet), NEW p \in 1..(Len(t) + 1), NEW C
  PROVE  /\ RunEnd(t, p, C) \in p..(Len(t) + 1)
         /\ \A i \in p..(RunEnd(t, p, C) - 1) : i \in p..Len(t) /\ t[i] \in C
         /\ RunEnd(t, p, C) <= Len(t) => t[RunEnd(t, p, C)] \notin C
<1> DEFINE S == {q \in p..(Len(t) + 1) : q > Len(t) \/ t[q] \notin C}
<1>1. S \in SUBSET Nat /\ Len(t) + 1 \in S
  OBVIOUS
<1>2. Min(S) \in S /\ \A y \in S : Min(S) <= y
  BY <1>1, LeastIsMin
<1>3. RunEnd(t, p, C) = Min(S)
  BY DEF RunEnd
<1> DEFINE q == Min(S)
<1>4. q \in p..(Len(t) + 1) /\ (q <= Len(t) => t[q] \notin C)
  BY <1>2
<1>5. ASSUME NEW i \in p..(q - 1)
      PROVE  i \in p..Len(t) /\ t[i] \in C
  <2>1. i \in p..Len(t) /\ ~(q <= i)
    BY <1>4
  <2>2. i \notin S
    BY <1>2, <2>1
  <2> QED BY <2>1, <2>2
<1> HIDE DEF q
<1> QED BY <1>3, <1>4, <1>5 DEF q

-----------------------------------------------------------------------------
(* The words of the language, in terms of the text they are cut from.      *)

(* how many backslashes stand directly before i, back to p *)
BackslashesBefore(t, p, i) ==
  Max({k \in 0..(i - p) : \A j \in (i - k)..(i - 1) : t[j] = Backslash})

NumberChars == Digits \cup {"."}

OpShape(t, p, m) ==
  \/ m = p + 2 /\ <<t[p], t[p + 1]>> \in Pairs
  \/ m = p + 1 /\ t[p] \in Singles

WordShape(t, p, m) == t[p] \in Alpha /\ \A i \in p..(m - 1) : t[i] \in WordChars

NumberShape(t, p, m) ==
  /\ t[p] \in Digits
  /\ \A i \in p..(m - 2) : t[i] \in NumberChars
  /\ t[m - 1] \in NumberChars \cup Units

StringShape(t, p, m) ==
  /\ m > p + 1 /\ t[p] = Quote /\ t[m - 1] = Quote
  /\ \A i \in (p + 1)..(m - 1) :
       t[i] = Quote => (BackslashesBefore(t, p, i) % 2 = IF i = m - 1 THEN 0 ELSE 1)

LEMMA SliceBackslashes ==
  ASSUME NEW t \in Seq(Alphabet), NEW p \in 1..Len(t), NEW m \in (p + 1)..(Len(t) + 1),
         NEW i \in 1..(m - p)
  PROVE  Backslashes(Slice(t, p, m), i) = BackslashesBefore(t, p, p + i - 1)
<1>1. PICK x \in p..(m - 1) : x = p + i - 1
  OBVIOUS
<1> DEFINE s == Slice(t, p, m)
           A == {k \in 0..(i - 1) : \A j \in (i - k)..(i - 1) : s[j] = Backslash}
           B == {k \in 0..(x - p) : \A j \in (x - k)..(x - 1) : t[j] = Backslash}
<1>2. \A j \in 1..(m - p) : s[j] = t[p + j - 1]
  BY SliceFacts
<1> HIDE DEF s
<1>3. ASSUME NEW k \in 0..(i - 1)
      PROVE  (\A j \in (i - k)..(i - 1) : s[j] = Backslash)
             <=> (\A j \in (x - k)..(x - 1) : t[j] = Backslash)
  <2>1. ASSUME \A j \in (i - k)..(i - 1) : s[j] = Backslash, NEW j \in (x - k)..(x - 1)
        PROVE  t[j] = Backslash
    <3>1. j - p + 1 \in (i - k)..(i - 1) /\ j - p + 1 \in 1..(m - p) /\ p + (j - p + 1) - 1 = j
      BY <1>1
    <3> QED BY <1>2, <2>1, <3>1
  <2>2. ASSUME \A j \in (x - k)..(x - 1) : t[j] = Backslash, NEW j \in (i - k)..(i - 1)
        PROVE  s[j] = Backslash
    <3>1. p + j - 1 \in (x - k)..(x - 1) /\ j \in 1..(m - p)
      BY <1>1
    <3> QED BY <1>2, <2>2, <3>1
  <2> QED BY <2>1, <2>2
<1>4. x - p = i - 1
  BY <1>1
<1>5. A = B
  BY <1>3, <1>4
<1>6. Backslashes(s, i) = Max(A)
  BY DEF Backslashes
<1>7. BackslashesBefore(t, p, x) = Max(B)
  BY DEF BackslashesBefore
<1> HIDE DEF A, B
<1> QED BY <1>1, <1>5, <1>6, <1>7 DEF s

LEMMA OpWord ==
  ASSUME NEW t \in Seq(Alphabet), NEW p \in 1..Len(t), NEW m \in (p + 1)..(Len(t) + 1)
  PROVE  IsWord(Slice(t, p, m), "op") <=> OpShape(t, p, m)
<1> DEFINE s == Slice(t, p, m)
<1>1. /\ s \in Seq(Alphabet) /\ Len(s) = m - p /\ s # <<>>
      /\ \A i \in 1..(m - p) : s[i] = t[p + i - 1]
  BY SliceFacts, SliceElements
<1> HIDE DEF s
<1>2. s \in Pairs <=> (m = p + 2 /\ <<t[p], t[p + 1]>> \in Pairs)
  <2>1. CASE m = p + 2
    <3>1. Len(s) = 2 /\ s[1] = t[p] /\ s[2] = t[p + 1]
      BY <1>1, <2>1
    <3>2. s = <<t[p], t[p + 1]>>
      BY <1>1, <3>1
    <3> QED BY <2>1, <3>2
  <2>2. CASE m # p + 2
    <3>1. Len(s) # 2
      BY <1>1, <2>2
    <3>2. \A w \in Pairs : Len(w) = 2
      BY DEF Pairs
    <3> QED BY <2>2, <3>1, <3>2
  <2> QED BY <2>1, <2>2
<1>3. (Len(s) = 1 /\ s[1] \in Singles) <=> (m = p + 1 /\ t[p] \in Singles)
  BY <1>1
<1>4. IsWord(s, "op") <=> (s \in Pairs \/ (Len(s) = 1 /\ s[1] \in Singles))
  BY <1>1 DEF IsWord
<1> QED BY <1>2, <1>3, <1>4 DEF OpShape, s

LEMMA PlainWord ==
  ASSUME NEW t \in Seq(Alphabet), NEW p \in 1..Len(t), NEW m \in (p + 1)..(Len(t) + 1)
  PROVE  (IsWord(Slice(t, p, m), "by") \/ IsWord(Slice(t, p, m), "ident")) <=> WordShape(t, p, m)
<1> DEFINE s == Slice(t, p, m)
<1>1. s # <<>> /\ s[1] = t[p] /\ ToSet(s) = {t[i] : i \in p..(m - 1)}
  BY SliceElements
<1> HIDE DEF s
<1>2. ToSet(s) \subseteq WordChars <=> \A i \in p..(m - 1) : t[i] \in WordChars
  BY <1>1
<1>3. IsWord(s, "by") <=> s = By
  BY <1>1 DEF IsWord
<1>4. IsWord(s, "ident") <=> (s # By /\ s[1] \in Alpha /\ ToSet(s) \subseteq WordChars)
  BY <1>1 DEF IsWord
<1>5. By[1] \in Alpha /\ ToSet(By) \subseteq WordChars
  <2>1. DOMAIN By = 1..2 /\ By[1] = "b" /\ By[2] = "y"
    BY DEF By
  <2>2. "b" \in WordChars /\ "y" \in WordChars
    BY DEF WordChars, Alpha
  <2>3. \A i \in 1..2 : i = 1 \/ i = 2
    OBVIOUS
  <2> QED BY <2>1, <2>2, <2>3 DEF ToSet, Alpha
<1> QED BY <1>1, <1>2, <1>3, <1>4, <1>5 DEF WordShape, s

LEMMA NumberWord ==
  ASSUME NEW t \in Seq(Alphabet), NEW p \in 1..Len(t), NEW m \in (p + 1)..(Len(t) + 1)
  PROVE  IsWord(Slice(t, p, m), "number") <=> NumberShape(t, p, m)
<1> DEFINE s == Slice(t, p, m)
<1>1. /\ s # <<>> /\ s[1] = t[p] /\ Last(s) = t[m - 1]
      /\ ToSet(Front(s)) = {t[i] : i \in p..(m - 2)}
  BY SliceElements
<1> HIDE DEF s
<1>2. ToSet(Front(s)) \subseteq NumberChars <=> \A i \in p..(m - 2) : t[i] \in NumberChars
  BY <1>1
<1>3. IsWord(s, "number") <=>
        (s[1] \in Digits /\ ToSet(Front(s)) \subseteq NumberChars /\ Last(s) \in NumberChars \cup Units)
  BY <1>1 DEF IsWord, NumberChars
<1> QED BY <1>1, <1>2, <1>3 DEF NumberShape, s

LEMMA StringWord ==
  ASSUME NEW t \in Seq(Alphabet), NEW p \in 1..Len(t), NEW m \in (p + 1)..(Len(t) + 1)
  PROVE  IsWord(Slice(t, p, m), "string") <=> StringShape(t, p, m)
<1> DEFINE s == Slice(t, p, m)
           Parity(i) == Backslashes(s, i) % 2 = IF i = Len(s) THEN 0 ELSE 1
           ParityAt(i) == BackslashesBefore(t, p, i) % 2 = IF i = m - 1 THEN 0 ELSE 1
<1>1. /\ s # <<>> /\ s[1] = t[p] /\ Last(s) = t[m - 1] /\ Len(s) = m - p
      /\ \A i \in 1..(m - p) : s[i] = t[p + i - 1] /\ Backslashes(s, i) = BackslashesBefore(t, p, p + i - 1)
  BY SliceElements, SliceFacts, SliceBackslashes
<1> HIDE DEF s
<1>2. \A i \in 2..(m - p) : Parity(i) <=> ParityAt(p + i - 1)
  <2> SUFFICES ASSUME NEW i \in 2..(m - p) PROVE Parity(i) <=> ParityAt(p + i - 1)
    OBVIOUS
  <2>1. Backslashes(s, i) = BackslashesBefore(t, p, p + i - 1)
    BY <1>1
  <2>2. i = Len(s) <=> p + i - 1 = m - 1
    BY <1>1
  <2> QED BY <2>1, <2>2
<1> HIDE DEF Parity, ParityAt
<1>3. (\A i \in 2..(m - p) : s[i] = Quote => Parity(i))
      <=> (\A i \in (p + 1)..(m - 1) : t[i] = Quote => ParityAt(i))
  <2>1. ASSUME \A i \in 2..(m - p) : s[i] = Quote => Parity(i),
               NEW i \in (p + 1)..(m - 1), t[i] = Quote
        PROVE  ParityAt(i)
    <3>1. i - p + 1 \in 2..(m - p) /\ i - p + 1 \in 1..(m - p) /\ p + (i - p + 1) - 1 = i
      OBVIOUS
    <3>2. s[i - p + 1] = Quote
      BY <1>1, <2>1, <3>1
    <3>3. Parity(i - p + 1)
      BY <2>1, <3>1, <3>2
    <3>4. ParityAt(p + (i - p + 1) - 1)
      BY <1>2, <3>1, <3>3
    <3> QED BY <3>1, <3>4
  <2>2. ASSUME \A i \in (p + 1)..(m - 1) : t[i] = Quote => ParityAt(i),
               NEW i \in 2..(m - p), s[i] = Quote
        PROVE  Parity(i)
    <3>1. p + i - 1 \in (p + 1)..(m - 1) /\ i \in 1..(m - p)
      OBVIOUS
    <3> QED BY <1>1, <1>2, <2>2, <3>1
  <2> QED BY <2>1, <2>2
<1>4. IsWord(s, "string") <=>
        (Len(s) > 1 /\ s[1] = Quote /\ Last(s) = Quote
          /\ \A i \in 2..Len(s) : s[i] = Quote => Parity(i))
  BY <1>1 DEF IsWord, Parity
<1>5. Len(s) > 1 <=> m > p + 1
  BY <1>1
<1>6. StringShape(t, p, m) <=>
        (m > p + 1 /\ t[p] = Quote /\ t[m - 1] = Quote
          /\ \A i \in (p + 1)..(m - 1) : t[i] = Quote => ParityAt(i))
  BY DEF StringShape, ParityAt
<1>7. Len(s) = m - p
  BY <1>1
<1> QED BY <1>1, <1>3, <1>4, <1>5, <1>6, <1>7 DEF s

LEMMA WordShapes ==
  ASSUME NEW t \in Seq(Alphabet), NEW p \in 1..Len(t), NEW m \in (p + 1)..(Len(t) + 1)
  PROVE  WordAt(t, p, m) <=>
           OpShape(t, p, m) \/ WordShape(t, p, m) \/ NumberShape(t, p, m) \/ StringShape(t, p, m)
<1>1. WordAt(t, p, m) <=>
        \/ IsWord(Slice(t, p, m), "op") \/ IsWord(Slice(t, p, m), "by")
        \/ IsWord(Slice(t, p, m), "ident") \/ IsWord(Slice(t, p, m), "number")
        \/ IsWord(Slice(t, p, m), "string")
  BY DEF WordAt, Words
<1> QED BY <1>1, OpWord, PlainWord, NumberWord, StringWord

(* No word of a text is empty. *)
LEMMA NoEmptyWord ==
  ASSUME NEW t \in Seq(Alphabet), NEW p \in 1..(Len(t) + 1), NEW m \in 1..p
  PROVE  ~WordAt(t, p, m)
BY EmptySlice DEF WordAt, IsWord

-----------------------------------------------------------------------------
(* Strings: a backslash escapes the next character if and only if an even  *)
(* number of backslashes stands before it.                                 *)

LEMMA BackslashFacts ==
  ASSUME NEW t \in Seq(Alphabet), NEW p \in 1..Len(t), NEW i \in p..Len(t)
  PROVE  /\ BackslashesBefore(t, p, p) = 0
         /\ BackslashesBefore(t, p, i) \in Nat
         /\ BackslashesBefore(t, p, i + 1) = IF t[i] = Backslash THEN BackslashesBefore(t, p, i) + 1 ELSE 0
<1> DEFINE S(x) == {k \in 0..(x - p) : \A j \in (x - k)..(x - 1) : t[j] = Backslash}
<1>1. ASSUME NEW x \in p..(Len(t) + 1)
      PROVE  /\ BackslashesBefore(t, p, x) = Max(S(x))
             /\ Max(S(x)) \in S(x) /\ \A k \in S(x) : Max(S(x)) >= k
  <2>1. BackslashesBefore(t, p, x) = Max(S(x))
    BY DEF BackslashesBefore
  <2>2. x - p \in Nat /\ S(x) \in SUBSET (0..(x - p)) /\ 0 \in S(x)
    OBVIOUS
  <2> HIDE DEF S
  <2>3. Max(S(x)) \in S(x) /\ \A k \in S(x) : Max(S(x)) >= k
    BY <2>2, GreatestIsMax
  <2> QED BY <2>1, <2>3
<1>2. ASSUME NEW k \in 1..(i + 1 - p)
      PROVE  k \in S(i + 1) <=> (t[i] = Backslash /\ k - 1 \in S(i))
  <2>1. ASSUME k \in S(i + 1) PROVE t[i] = Backslash /\ k - 1 \in S(i)
    <3>1. \A j \in (i + 1 - k)..(i + 1 - 1) : t[j] = Backslash
      BY <2>1
    <3>2. i \in (i + 1 - k)..(i + 1 - 1) /\ k - 1 \in 0..(i - p)
      OBVIOUS
    <3>3. \A j \in (i - (k - 1))..(i - 1) : j \in (i + 1 - k)..(i + 1 - 1)
      OBVIOUS
    <3> QED BY <3>1, <3>2, <3>3
  <2>2. ASSUME t[i] = Backslash, k - 1 \in S(i) PROVE k \in S(i + 1)
    <3>1. \A j \in (i - (k - 1))..(i - 1) : t[j] = Backslash
      BY <2>2
    <3>2. \A j \in (i + 1 - k)..(i + 1 - 1) : j = i \/ j \in (i - (k - 1))..(i - 1)
      OBVIOUS
    <3> QED BY <2>2, <3>1, <3>2
  <2> QED BY <2>1, <2>2
<1>3. S(p) = {0} /\ S(i) \in SUBSET (0..(i - p)) /\ S(i + 1) \in SUBSET (0..(i + 1 - p)) /\ 0 \in S(i + 1)
  OBVIOUS
<1> HIDE DEF S
<1>4. BackslashesBefore(t, p, p) = 0
  BY <1>1, <1>3
<1> DEFINE a == Max(S(i))
           b == Max(S(i + 1))
<1>5. /\ BackslashesBefore(t, p, i) = a /\ a \in S(i) /\ \A k \in S(i) : a >= k
      /\ BackslashesBefore(t, p, i + 1) = b /\ b \in S(i + 1) /\ \A k \in S(i + 1) : b >= k
  BY <1>1
<1> HIDE DEF a, b
<1>6. a \in 0..(i - p) /\ b \in 0..(i + 1 - p)
  BY <1>3, <1>5
<1>7. CASE t[i] = Backslash
  <2>1. a + 1 \in S(i + 1)
    BY <1>2, <1>5, <1>6, <1>7
  <2>2. b >= a + 1
    BY <1>5, <2>1
  <2>3. b - 1 \in S(i)
    BY <1>2, <1>5, <1>6, <2>2
  <2>4. a >= b - 1
    BY <1>5, <2>3
  <2> QED BY <1>4, <1>5, <1>6, <1>7, <2>2, <2>4
<1>8. CASE t[i] # Backslash
  <2>1. b \notin 1..(i + 1 - p)
    BY <1>2, <1>5, <1>8
  <2> QED BY <1>4, <1>5, <1>6, <1>8, <2>1
<1> QED BY <1>7, <1>8

(* The scan for the closing quote of the string that begins at p.          *)
LEMMA ClosingQuoteFacts ==
  ASSUME NEW t \in Seq(Alphabet), NEW p \in 1..Len(t), t[p] = Quote
  PROVE  LET q == ClosingQuote(t, p + 1)
         IN  /\ q \in (p + 1)..(Len(t) + 1)
             /\ q <= Len(t) => t[q] = Quote /\ BackslashesBefore(t, p, q) % 2 = 0
             /\ \A i \in (p + 1)..(q - 1) : t[i] = Quote => BackslashesBefore(t, p, i) % 2 = 1
<1> DEFINE n == Len(t)
           Turn(h, i) == IF i > n \/ t[i] = Quote THEN i
                         ELSE IF t[i] = Backslash /\ i < n THEN h[i + 2] ELSE h[i + 1]
           Scans(k) == \E h : h = [i \in k..(n + 1) |-> Turn(h, i)]
           from == CHOOSE h : h = [i \in (p + 1)..(n + 1) |-> Turn(h, i)]
<1>1. Scans(n + 1)
  <2> DEFINE h == [i \in (n + 1)..(n + 1) |-> n + 1]
  <2>1. h = [i \in (n + 1)..(n + 1) |-> Turn(h, i)]
    OBVIOUS
  <2> QED BY <2>1
<1>2. ASSUME NEW k \in 1..n, Scans(k + 1)
      PROVE  Scans(k)
  <2>1. PICK h : h = [i \in (k + 1)..(n + 1) |-> Turn(h, i)]
    BY <1>2
  <2> DEFINE g == [i \in k..(n + 1) |-> IF i = k THEN Turn(h, k) ELSE h[i]]
  <2>2. \A i \in (k + 1)..(n + 1) : g[i] = h[i] /\ i \in k..(n + 1) /\ i # k
    OBVIOUS
  <2>3. g[k] = Turn(h, k) /\ g = [i \in k..(n + 1) |-> g[i]]
    OBVIOUS
  <2>4. \A i \in k..(n + 1) : i = k \/ i \in (k + 1)..(n + 1)
    OBVIOUS
  <2> HIDE DEF g
  <2>5. ASSUME NEW i \in k..(n + 1)
        PROVE  Turn(g, i) = Turn(h, i)
    <3>1. CASE i > n \/ t[i] = Quote
      BY <3>1
    <3>2. CASE ~(i > n \/ t[i] = Quote) /\ t[i] = Backslash /\ i < n
      <4>1. i + 2 \in (k + 1)..(n + 1)
        BY <3>2
      <4> QED BY <2>2, <3>2, <4>1
    <3>3. CASE ~(i > n \/ t[i] = Quote) /\ ~(t[i] = Backslash /\ i < n)
      <4>1. i + 1 \in (k + 1)..(n + 1)
        BY <3>3
      <4> QED BY <2>2, <3>3, <4>1
    <3> QED BY <3>1, <3>2, <3>3
  <2> HIDE DEF Turn
  <2>6. \A i \in k..(n + 1) : g[i] = Turn(h, i)
    BY <2>1, <2>2, <2>3, <2>4
  <2>7. g = [i \in k..(n + 1) |-> Turn(g, i)]
    BY <2>3, <2>5, <2>6
  <2> QED BY <2>7
<1>3. Scans(p + 1)
  <2> DEFINE T == {k \in (p + 1)..(n + 1) : ~Scans(k)}
  <2> HIDE DEF Scans
  <2> SUFFICES ASSUME T # {} PROVE FALSE
    OBVIOUS
  <2>1. T \in SUBSET (1..(n + 1)) /\ n + 1 \in Nat
    OBVIOUS
  <2>2. PICK k \in T : \A j \in T : j <= k
    BY <2>1, Greatest
  <2>3. k \in (p + 1)..n /\ ~Scans(k) /\ k + 1 \in (p + 1)..(n + 1) /\ k + 1 \notin T
    BY <1>1, <2>2
  <2> QED BY <1>2, <2>3
<1>4. from = [i \in (p + 1)..(n + 1) |-> Turn(from, i)]
  BY <1>3
<1>5. ClosingQuote(t, p + 1) = from[p + 1]
  BY DEF ClosingQuote
<1> HIDE DEF from
<1> DEFINE Even(i) == BackslashesBefore(t, p, i) % 2 = 0
           Odd(i) == BackslashesBefore(t, p, i) % 2 = 1
           Ending(i, q) == /\ q \in i..(n + 1)
                           /\ q <= n => t[q] = Quote /\ Even(q)
                           /\ \A j \in i..(q - 1) : t[j] = Quote => Odd(j)
           T == {i \in (p + 1)..(n + 1) : Even(i) /\ ~Ending(i, from[i])}
<1>6. Quote # Backslash
  BY DEF Quote, Backslash
<1>7. Even(p + 1)
  <2>1. p \in p..Len(t)
    OBVIOUS
  <2>2. BackslashesBefore(t, p, p + 1) = 0
    BY <1>6, <2>1, BackslashFacts
  <2> QED BY <2>2
<1>8. ASSUME NEW i \in (p + 1)..n
      PROVE  IF t[i] = Backslash THEN Even(i) => Odd(i + 1) ELSE Even(i + 1)
  <2>1. /\ BackslashesBefore(t, p, i) \in Nat
        /\ BackslashesBefore(t, p, i + 1) = IF t[i] = Backslash THEN BackslashesBefore(t, p, i) + 1 ELSE 0
    BY BackslashFacts
  <2> QED BY <2>1
<1>9. ASSUME NEW i \in (p + 1)..n, t[i] = Backslash, Odd(i)
      PROVE  Even(i + 1)
  <2>1. /\ BackslashesBefore(t, p, i) \in Nat
        /\ BackslashesBefore(t, p, i + 1) = BackslashesBefore(t, p, i) + 1
    BY <1>9, BackslashFacts
  <2> QED BY <1>9, <2>1
<1> HIDE DEF Even, Odd
<1>10. T = {}
  <2> SUFFICES ASSUME T # {} PROVE FALSE
    OBVIOUS
  <2>1. T \in SUBSET (1..(n + 1)) /\ n + 1 \in Nat
    OBVIOUS
  <2>2. PICK i \in T : \A j \in T : j <= i
    BY <2>1, Greatest
  <2>3. i \in (p + 1)..(n + 1) /\ Even(i) /\ ~Ending(i, from[i]) /\ from[i] = Turn(from, i)
    BY <1>4, <2>2
  <2>4. \A j \in (i + 1)..(n + 1) : Even(j) => Ending(j, from[j])
    BY <2>2, <2>3
  <2>5. CASE i > n \/ t[i] = Quote
    <3>1. from[i] = i
      BY <2>3, <2>5
    <3>2. Ending(i, i)
      BY <2>3, <2>5
    <3> QED BY <2>3, <3>1, <3>2
  <2>6. CASE i <= n /\ t[i] = Backslash /\ i < n
    <3>1. from[i] = from[i + 2] /\ i + 2 \in (i + 1)..(n + 1) /\ Odd(i + 1)
      BY <1>6, <1>8, <2>3, <2>6
    <3>2. Even(i + 2)
      <4>1. i + 1 \in (p + 1)..n /\ i + 1 + 1 = i + 2
        BY <2>3, <2>6
      <4>2. IF t[i + 1] = Backslash THEN Odd(i + 1) => Even(i + 1 + 1) ELSE Even(i + 1 + 1)
        BY <1>8, <1>9, <4>1
      <4> QED BY <3>1, <4>1, <4>2
    <3>3. Ending(i + 2, from[i])
      BY <2>4, <3>1, <3>2
    <3>4. \A j \in i..(from[i] - 1) : j = i \/ j = i + 1 \/ j \in (i + 2)..(from[i] - 1)
      BY <2>3, <3>3
    <3>5. Ending(i, from[i])
      BY <1>6, <2>3, <2>6, <3>1, <3>3, <3>4
    <3> QED BY <2>3, <3>5
  <2>7. CASE i <= n /\ t[i] # Quote /\ ~(t[i] = Backslash /\ i < n)
    <3>1. from[i] = from[i + 1] /\ i + 1 \in (i + 1)..(n + 1)
      BY <2>3, <2>7
    <3>2. Ending(i + 1, from[i])
      <4>1. CASE t[i] = Backslash
        <5>1. i = n /\ from[i + 1] = i + 1
          BY <1>4, <2>3, <2>7, <4>1
        <5> QED BY <3>1, <5>1
      <4>2. CASE t[i] # Backslash
        <5>1. Even(i + 1)
          BY <1>8, <2>3, <2>7, <4>2
        <5> QED BY <2>4, <3>1, <5>1
      <4> QED BY <4>1, <4>2
    <3>3. \A j \in i..(from[i] - 1) : j = i \/ j \in (i + 1)..(from[i] - 1)
      BY <2>3, <3>2
    <3>4. Ending(i, from[i])
      BY <2>3, <2>7, <3>2, <3>3
    <3> QED BY <2>3, <3>4
  <2> QED BY <1>6, <2>3, <2>5, <2>6, <2>7
<1>11. Ending(p + 1, from[p + 1])
  BY <1>7, <1>10
<1> QED BY <1>5, <1>11 DEF Even, Odd

-----------------------------------------------------------------------------
(* The token at a position.                                                *)

OpChars == {"!", "=", "<", "{"}

(* A character begins words of one shape at most. *)
LEMMA Classes ==
  /\ \A c \in OpChars : c \notin Alpha /\ c \notin Digits /\ c # Quote
  /\ \A c \in Digits : c \notin Alpha /\ c # Quote
  /\ Quote \notin Alpha
  /\ \A c, d : <<c, d>> \in Pairs => c \in OpChars
  /\ Singles \subseteq OpChars
  /\ \A c \in Units : c \notin NumberChars
<1>1. /\ \A c \in OpChars : c \notin Alpha /\ c \notin Digits /\ c # Quote
      /\ \A c \in Digits : c \notin Alpha /\ c # Quote
      /\ Quote \notin Alpha
      /\ Singles \subseteq OpChars
      /\ \A c \in Units : c \notin NumberChars
  BY DEF OpChars, Alpha, Digits, Quote, Singles, Units, NumberChars
<1>2. \A c, d : <<c, d>> \in Pairs => c \in OpChars
  BY DEF Pairs, OpChars
<1> QED BY <1>1, <1>2

(* What is the longest word, and what is no word, by the first character. *)
Longest(t, p, q) == \A m \in (q + 1)..(Len(t) + 1) : ~WordAt(t, p, m)

LEMMA ShapesByClass ==
  ASSUME NEW t \in Seq(Alphabet), NEW p \in 1..Len(t), NEW m \in (p + 1)..(Len(t) + 1)
  PROVE  /\ t[p] \in OpChars => (WordAt(t, p, m) <=> OpShape(t, p, m))
         /\ t[p] \in Alpha => (WordAt(t, p, m) <=> WordShape(t, p, m))
         /\ t[p] \in Digits => (WordAt(t, p, m) <=> NumberShape(t, p, m))
         /\ t[p] = Quote => (WordAt(t, p, m) <=> StringShape(t, p, m))
         /\ t[p] \notin OpChars \cup Alpha \cup Digits \cup {Quote} => ~WordAt(t, p, m)
<1>1. OpShape(t, p, m) => t[p] \in OpChars
  BY Classes DEF OpShape
<1>2. WordShape(t, p, m) => t[p] \in Alpha
  BY DEF WordShape
<1>3. NumberShape(t, p, m) => t[p] \in Digits
  BY DEF NumberShape
<1>4. StringShape(t, p, m) => t[p] = Quote
  BY DEF StringShape
<1> QED BY <1>1, <1>2, <1>3, <1>4, Classes, WordShapes

LEMMA OpIsLongest ==
  ASSUME NEW t \in Seq(Alphabet), NEW p \in 1..Len(t)
  PROVE  /\ p < Len(t) /\ <<t[p], t[p + 1]>> \in Pairs
              => IsWord(Slice(t, p, p + 2), "op") /\ Longest(t, p, p + 2)
         /\ ~(p < Len(t) /\ <<t[p], t[p + 1]>> \in Pairs) /\ t[p] \in Singles
              => IsWord(Slice(t, p, p + 1), "op") /\ Longest(t, p, p + 1)
<1>1. ASSUME p < Len(t), <<t[p], t[p + 1]>> \in Pairs
      PROVE  IsWord(Slice(t, p, p + 2), "op") /\ Longest(t, p, p + 2)
  <2>1. p + 2 \in (p + 1)..(Len(t) + 1) /\ OpShape(t, p, p + 2)
    BY <1>1 DEF OpShape
  <2>2. IsWord(Slice(t, p, p + 2), "op")
    BY <2>1, OpWord
  <2>3. ASSUME NEW m \in (p + 2 + 1)..(Len(t) + 1) PROVE ~WordAt(t, p, m)
    <3>1. m \in (p + 1)..(Len(t) + 1) /\ ~OpShape(t, p, m)
      BY DEF OpShape
    <3>2. t[p] \in OpChars
      BY <1>1, Classes
    <3> QED BY <3>1, <3>2, ShapesByClass
  <2> QED BY <2>2, <2>3 DEF Longest
<1>2. ASSUME ~(p < Len(t) /\ <<t[p], t[p + 1]>> \in Pairs), t[p] \in Singles
      PROVE  IsWord(Slice(t, p, p + 1), "op") /\ Longest(t, p, p + 1)
  <2>1. p + 1 \in (p + 1)..(Len(t) + 1) /\ OpShape(t, p, p + 1)
    BY <1>2 DEF OpShape
  <2>2. IsWord(Slice(t, p, p + 1), "op")
    BY <2>1, OpWord
  <2>3. ASSUME NEW m \in (p + 1 + 1)..(Len(t) + 1) PROVE ~WordAt(t, p, m)
    <3>1. m \in (p + 1)..(Len(t) + 1) /\ ~OpShape(t, p, m)
      BY <1>2 DEF OpShape
    <3>2. t[p] \in OpChars
      BY <1>2, Classes
    <3> QED BY <3>1, <3>2, ShapesByClass
  <2> QED BY <2>2, <2>3 DEF Longest
<1> QED BY <1>1, <1>2

LEMMA StringIsLongest ==
  ASSUME NEW t \in Seq(Alphabet), NEW p \in 1..Len(t), t[p] = Quote
  PROVE  LET q == ClosingQuote(t, p + 1)
         IN  IF q > Len(t) THEN Longest(t, p, p)
             ELSE /\ q + 1 \in (p + 1)..(Len(t) + 1)
                  /\ IsWord(Slice(t, p, q + 1), "string") /\ Longest(t, p, q + 1)
<1> DEFINE q == ClosingQuote(t, p + 1)
<1>1. /\ q \in (p + 1)..(Len(t) + 1)
      /\ q <= Len(t) => t[q] = Quote /\ BackslashesBefore(t, p, q) % 2 = 0
      /\ \A i \in (p + 1)..(q - 1) : t[i] = Quote => BackslashesBefore(t, p, i) % 2 = 1
  BY ClosingQuoteFacts
<1> HIDE DEF q
<1>2. ASSUME NEW m \in (p + 1)..(Len(t) + 1), StringShape(t, p, m)
      PROVE  m = q + 1
  <2>1. /\ m > p + 1 /\ t[m - 1] = Quote
        /\ \A i \in (p + 1)..(m - 1) :
             t[i] = Quote => (BackslashesBefore(t, p, i) % 2 = IF i = m - 1 THEN 0 ELSE 1)
    BY <1>2 DEF StringShape
  <2>2. m - 1 \in (p + 1)..(m - 1)
    BY <2>1
  <2>3. BackslashesBefore(t, p, m - 1) % 2 = 0
    BY <2>1, <2>2
  <2>4. ~(m - 1 < q)
    <3> SUFFICES ASSUME m - 1 < q PROVE FALSE
      OBVIOUS
    <3>1. m - 1 \in (p + 1)..(q - 1)
      BY <1>1, <2>2
    <3>2. BackslashesBefore(t, p, m - 1) % 2 = 1
      BY <1>1, <2>1, <3>1
    <3> QED BY <2>3, <3>2
  <2>5. ~(q < m - 1)
    <3> SUFFICES ASSUME q < m - 1 PROVE FALSE
      OBVIOUS
    <3>1. q \in (p + 1)..(m - 1) /\ q # m - 1 /\ q <= Len(t)
      BY <1>1, <2>2
    <3>2. BackslashesBefore(t, p, q) % 2 = 1
      BY <1>1, <2>1, <3>1
    <3> QED BY <1>1, <3>1, <3>2
  <2> QED BY <1>1, <2>4, <2>5
<1>3. CASE q > Len(t)
  <2>1. ASSUME NEW m \in (p + 1)..(Len(t) + 1) PROVE ~WordAt(t, p, m)
    <3>1. ~StringShape(t, p, m)
      BY <1>1, <1>2, <1>3
    <3> QED BY <3>1, ShapesByClass
  <2> QED BY <1>3, <2>1 DEF Longest, q
<1>4. CASE q <= Len(t)
  <2>1. q + 1 \in (p + 1)..(Len(t) + 1) /\ q + 1 - 1 = q /\ q + 1 > p + 1
    BY <1>1, <1>4
  <2>2. \A i \in (p + 1)..q :
          t[i] = Quote => (BackslashesBefore(t, p, i) % 2 = IF i = q THEN 0 ELSE 1)
    <3>1. \A i \in (p + 1)..q : i = q \/ i \in (p + 1)..(q - 1)
      BY <1>1
    <3> QED BY <1>1, <1>4, <3>1
  <2>3. StringShape(t, p, q + 1)
    BY <1>1, <1>4, <2>1, <2>2 DEF StringShape
  <2>4. IsWord(Slice(t, p, q + 1), "string")
    BY <2>1, <2>3, StringWord
  <2>5. ASSUME NEW m \in (q + 1 + 1)..(Len(t) + 1) PROVE ~WordAt(t, p, m)
    <3>1. m \in (p + 1)..(Len(t) + 1) /\ m # q + 1
      BY <1>1
    <3>2. ~StringShape(t, p, m)
      BY <1>2, <3>1
    <3> QED BY <3>1, <3>2, ShapesByClass
  <2>6. ~(q > Len(t))
    BY <1>1, <1>4
  <2> QED BY <2>1, <2>4, <2>5, <2>6 DEF Longest, q
<1>5. q > Len(t) \/ q <= Len(t)
  BY <1>1
<1> QED BY <1>3, <1>4, <1>5

LEMMA WordIsLongest ==
  ASSUME NEW t \in Seq(Alphabet), NEW p \in 1..Len(t), t[p] \in Alpha
  PROVE  LET q == RunEnd(t, p, WordChars)
         IN  /\ q \in (p + 1)..(Len(t) + 1)
             /\ IsWord(Slice(t, p, q), IF Slice(t, p, q) = By THEN "by" ELSE "ident")
             /\ Longest(t, p, q)
<1> DEFINE q == RunEnd(t, p, WordChars)
<1>1. /\ q \in p..(Len(t) + 1)
      /\ \A i \in p..(q - 1) : t[i] \in WordChars
      /\ q <= Len(t) => t[q] \notin WordChars
  BY RunFacts
<1> HIDE DEF q
<1>2. t[p] \in WordChars
  BY DEF WordChars
<1>3. q # p
  BY <1>1, <1>2
<1>4. q \in (p + 1)..(Len(t) + 1)
  BY <1>1, <1>3
<1>5. WordShape(t, p, q)
  BY <1>1 DEF WordShape
<1>6. IsWord(Slice(t, p, q), "by") \/ IsWord(Slice(t, p, q), "ident")
  BY <1>4, <1>5, PlainWord
<1>7. IsWord(Slice(t, p, q), IF Slice(t, p, q) = By THEN "by" ELSE "ident")
  <2> DEFINE s == Slice(t, p, q)
  <2>1. IsWord(s, "by") => s = By
    BY DEF IsWord
  <2>2. IsWord(s, "ident") => s # By
    BY DEF IsWord
  <2> QED BY <1>6, <2>1, <2>2
<1>8. ASSUME NEW m \in (q + 1)..(Len(t) + 1) PROVE ~WordAt(t, p, m)
  <2>1. m \in (p + 1)..(Len(t) + 1) /\ q \in p..(m - 1) /\ t[q] \notin WordChars
    BY <1>1, <1>4
  <2>2. ~WordShape(t, p, m)
    BY <2>1 DEF WordShape
  <2> QED BY <2>1, <2>2, ShapesByClass
<1> QED BY <1>4, <1>7, <1>8 DEF Longest, q

LEMMA NumberIsLongest ==
  ASSUME NEW t \in Seq(Alphabet), NEW p \in 1..Len(t), t[p] \in Digits
  PROVE  LET e == NumberEnd(t, p)
         IN  /\ e \in (p + 1)..(Len(t) + 1)
             /\ IsWord(Slice(t, p, e), "number") /\ Longest(t, p, e)
<1> DEFINE q == RunEnd(t, p, NumberChars)
           e == IF q <= Len(t) /\ t[q] \in Units THEN q + 1 ELSE q
<1>1. /\ q \in p..(Len(t) + 1)
      /\ \A i \in p..(q - 1) : t[i] \in NumberChars
      /\ q <= Len(t) => t[q] \notin NumberChars
  BY RunFacts
<1>2. NumberEnd(t, p) = e
  BY DEF NumberEnd, NumberChars
<1> HIDE DEF q
<1>3. t[p] \in NumberChars
  BY DEF NumberChars
<1>4. q # p
  BY <1>1, <1>3
<1>5. q \in (p + 1)..(Len(t) + 1) /\ q - 1 \in p..(q - 1)
  BY <1>1, <1>4
<1>6. CASE q <= Len(t) /\ t[q] \in Units
  <2>1. e = q + 1 /\ q + 1 \in (p + 1)..(Len(t) + 1) /\ q + 1 - 2 = q - 1 /\ q + 1 - 1 = q
    BY <1>5, <1>6
  <2>2. NumberShape(t, p, q + 1)
    BY <1>1, <1>6, <2>1 DEF NumberShape
  <2>3. IsWord(Slice(t, p, q + 1), "number")
    BY <2>1, <2>2, NumberWord
  <2>4. ASSUME NEW m \in (q + 1 + 1)..(Len(t) + 1) PROVE ~WordAt(t, p, m)
    <3>1. m \in (p + 1)..(Len(t) + 1) /\ q \in p..(m - 2)
      BY <1>5
    <3>2. ~NumberShape(t, p, m)
      BY <1>1, <1>6, <3>1 DEF NumberShape
    <3> QED BY <3>1, <3>2, ShapesByClass
  <2>5. Longest(t, p, q + 1)
    BY <2>4 DEF Longest
  <2> HIDE DEF e
  <2> QED BY <1>2, <2>1, <2>3, <2>5
<1>7. CASE ~(q <= Len(t) /\ t[q] \in Units)
  <2>1. e = q
    BY <1>7
  <2>2. \A i \in p..(q - 2) : i \in p..(q - 1)
    BY <1>5
  <2>3. NumberShape(t, p, q)
    BY <1>1, <1>5, <2>2 DEF NumberShape
  <2>4. IsWord(Slice(t, p, q), "number")
    BY <1>5, <2>3, NumberWord
  <2>5. ASSUME NEW m \in (q + 1)..(Len(t) + 1) PROVE ~WordAt(t, p, m)
    <3>1. /\ m \in (p + 1)..(Len(t) + 1) /\ q <= Len(t)
          /\ m - 1 = q \/ q \in p..(m - 2)
      BY <1>5
    <3>2. t[q] \notin NumberChars \cup Units
      BY <1>1, <1>7, <3>1
    <3>3. ~NumberShape(t, p, m)
      BY <3>1, <3>2 DEF NumberShape
    <3> QED BY <3>1, <3>3, ShapesByClass
  <2>6. Longest(t, p, q)
    BY <2>5 DEF Longest
  <2> HIDE DEF e
  <2> QED BY <1>2, <1>5, <2>1, <2>4, <2>6
<1> QED BY <1>6, <1>7

Tokens == [kind : Words \cup {"EOF", "error"}, from : Nat, to : Nat]

(* A token is the longest word at its position; where there is no token    *)
(* there is no word.                                                       *)
LEMMA NextTokenFacts ==
  ASSUME NEW t \in Seq(Alphabet), NEW p \in 1..Len(t)
  PROVE  LET k == NextToken(t, p)
         IN  /\ k \in Tokens /\ k.from = p
             /\ \/ /\ k.kind = "error" /\ Longest(t, p, p)
                \/ /\ k.kind \in Words /\ k.to \in (p + 1)..(Len(t) + 1)
                   /\ IsWord(Slice(t, p, k.to), k.kind) /\ Longest(t, p, k.to)
<1> DEFINE k == NextToken(t, p)
           Right == /\ k \in Tokens /\ k.from = p
                    /\ \/ /\ k.kind = "error" /\ Longest(t, p, p)
                       \/ /\ k.kind \in Words /\ k.to \in (p + 1)..(Len(t) + 1)
                          /\ IsWord(Slice(t, p, k.to), k.kind) /\ Longest(t, p, k.to)
           pair == p < Len(t) /\ <<t[p], t[p + 1]>> \in Pairs
<1> SUFFICES Right
  OBVIOUS
<1>1. ASSUME NEW kind \in Words, NEW e \in (p + 1)..(Len(t) + 1), k = Token(kind, p, e),
             IsWord(Slice(t, p, e), kind), Longest(t, p, e)
      PROVE  Right
  <2>1. k \in Tokens /\ k.from = p /\ k.kind = kind /\ k.to = e
    BY <1>1 DEF Token, Tokens
  <2> HIDE DEF k
  <2> QED BY <1>1, <2>1
<1>2. ASSUME k = Nothing(p), Longest(t, p, p)
      PROVE  Right
  <2>1. k \in Tokens /\ k.from = p /\ k.kind = "error"
    BY <1>2 DEF Nothing, Token, Tokens
  <2> HIDE DEF k
  <2> QED BY <1>2, <2>1
<1>3. "op" \in Words /\ "string" \in Words /\ "by" \in Words /\ "ident" \in Words /\ "number" \in Words
  BY DEF Words
<1>4. CASE pair
  <2>1. k = Token("op", p, p + 2) /\ p + 2 \in (p + 1)..(Len(t) + 1)
    BY <1>4 DEF NextToken
  <2> HIDE DEF k, Right
  <2> QED BY <1>1, <1>3, <1>4, <2>1, OpIsLongest
<1>5. CASE ~pair /\ t[p] \in Singles
  <2>1. k = Token("op", p, p + 1) /\ p + 1 \in (p + 1)..(Len(t) + 1)
    BY <1>5 DEF NextToken
  <2> HIDE DEF k, Right
  <2> QED BY <1>1, <1>3, <1>5, <2>1, OpIsLongest
<1>6. CASE ~pair /\ t[p] \notin Singles /\ t[p] = Quote
  <2> DEFINE q == ClosingQuote(t, p + 1)
  <2>1. k = IF q > Len(t) THEN Nothing(p) ELSE Token("string", p, q + 1)
    BY <1>6 DEF NextToken
  <2>2. IF q > Len(t) THEN Longest(t, p, p)
        ELSE /\ q + 1 \in (p + 1)..(Len(t) + 1)
             /\ IsWord(Slice(t, p, q + 1), "string") /\ Longest(t, p, q + 1)
    BY <1>6, StringIsLongest
  <2> HIDE DEF k, Right, q
  <2> QED BY <1>1, <1>2, <1>3, <2>1, <2>2
<1>7. CASE ~pair /\ t[p] \notin Singles /\ t[p] # Quote /\ t[p] \in Alpha
  <2> DEFINE q == RunEnd(t, p, WordChars)
             kind == IF Slice(t, p, q) = By THEN "by" ELSE "ident"
  <2>1. k = Token(kind, p, q)
    BY <1>7 DEF NextToken
  <2>2. q \in (p + 1)..(Len(t) + 1) /\ IsWord(Slice(t, p, q), kind) /\ Longest(t, p, q)
    BY <1>7, WordIsLongest
  <2>3. kind \in Words
    BY <1>3
  <2> HIDE DEF k, Right, q, kind
  <2> QED BY <1>1, <2>1, <2>2, <2>3
<1>8. CASE ~pair /\ t[p] \notin Singles /\ t[p] # Quote /\ t[p] \notin Alpha /\ t[p] \in Digits
  <2>1. k = Token("number", p, NumberEnd(t, p))
    BY <1>8 DEF NextToken
  <2>2. /\ NumberEnd(t, p) \in (p + 1)..(Len(t) + 1)
        /\ IsWord(Slice(t, p, NumberEnd(t, p)), "number") /\ Longest(t, p, NumberEnd(t, p))
    BY <1>8, NumberIsLongest
  <2> HIDE DEF k, Right
  <2> QED BY <1>1, <1>3, <2>1, <2>2
<1>9. CASE ~pair /\ t[p] \notin Singles /\ t[p] # Quote /\ t[p] \notin Alpha /\ t[p] \notin Digits
  <2>1. k = Nothing(p)
    BY <1>9 DEF NextToken
  <2>2. ASSUME NEW m \in (p + 1)..(Len(t) + 1) PROVE ~WordAt(t, p, m)
    <3>1. ~OpShape(t, p, m)
      BY <1>9 DEF OpShape
    <3>2. ~WordShape(t, p, m) /\ ~NumberShape(t, p, m) /\ ~StringShape(t, p, m)
      BY <1>9 DEF WordShape, NumberShape, StringShape
    <3> QED BY <3>1, <3>2, WordShapes
  <2>3. Longest(t, p, p)
    BY <2>2 DEF Longest
  <2> HIDE DEF k, Right
  <2> QED BY <1>2, <2>1, <2>3
<1> HIDE DEF Right, pair
<1> QED BY <1>4, <1>5, <1>6, <1>7, <1>8, <1>9

-----------------------------------------------------------------------------
(* The tokens of a text.                                                   *)

Blanks(t, i, j) == \A x \in i..(j - 1) : t[x] = Blank

(* where the token before tokens[k] ends, or where cutting began *)
Cuts(tokens, p, k) == IF k = 1 THEN p ELSE tokens[k - 1].to

CutRight(t, tok, before) ==
  /\ before \in 1..(Len(t) + 1) /\ tok.from \in before..(Len(t) + 1)
  /\ Blanks(t, before, tok.from)
  /\ tok.kind \in Words => /\ IsWord(Slice(t, tok.from, tok.to), tok.kind)
                           /\ Longest(t, tok.from, tok.to)

EndsRight(t, tok) ==
  \/ tok.kind = "EOF" /\ tok.from = Len(t) + 1
  \/ tok.kind = "error" /\ tok.from \in 1..Len(t) /\ Longest(t, tok.from, tok.from)

(* tokens are the tokens of t from p on *)
Cut(t, p, tokens) ==
  /\ tokens \in Seq(Tokens) /\ Len(tokens) >= 1
  /\ \A k \in 1..Len(tokens) : CutRight(t, tokens[k], Cuts(tokens, p, k))
  /\ EndsRight(t, tokens[Len(tokens)])

LEMMA CutOne ==
  ASSUME NEW t \in Seq(Alphabet), NEW p \in 1..(Len(t) + 1), NEW k \in Tokens,
         k.from = p, k.kind \notin Words, EndsRight(t, k)
  PROVE  Cut(t, p, <<k>>)
<1>1. <<k>> \in Seq(Tokens) /\ Len(<<k>>) = 1 /\ <<k>>[1] = k
  OBVIOUS
<1>2. Cuts(<<k>>, p, 1) = p
  BY DEF Cuts
<1>3. CutRight(t, k, p)
  BY DEF CutRight, Blanks
<1>4. \A i \in 1..1 : i = 1
  OBVIOUS
<1> QED BY <1>1, <1>2, <1>3, <1>4 DEF Cut

LEMMA CutBlank ==
  ASSUME NEW t \in Seq(Alphabet), NEW p \in 1..Len(t), t[p] = Blank,
         NEW tokens, Cut(t, p + 1, tokens)
  PROVE  Cut(t, p, tokens)
<1>1. /\ tokens \in Seq(Tokens) /\ Len(tokens) >= 1
      /\ \A k \in 1..Len(tokens) : CutRight(t, tokens[k], Cuts(tokens, p + 1, k))
      /\ EndsRight(t, tokens[Len(tokens)])
  BY DEF Cut
<1>2. ASSUME NEW k \in 1..Len(tokens)
      PROVE  CutRight(t, tokens[k], Cuts(tokens, p, k))
  <2>1. CASE k = 1
    <3>1. CutRight(t, tokens[k], p + 1)
      BY <1>1, <2>1 DEF Cuts
    <3>2. tokens[k].from \in (p + 1)..(Len(t) + 1) /\ Blanks(t, p + 1, tokens[k].from)
      BY <3>1 DEF CutRight
    <3>3. \A x \in p..(tokens[k].from - 1) : x = p \/ x \in (p + 1)..(tokens[k].from - 1)
      OBVIOUS
    <3>4. tokens[k].from \in p..(Len(t) + 1) /\ Blanks(t, p, tokens[k].from)
      BY <3>2, <3>3 DEF Blanks
    <3>5. CutRight(t, tokens[k], p)
      BY <3>1, <3>4 DEF CutRight
    <3> QED BY <2>1, <3>5 DEF Cuts
  <2>2. CASE k # 1
    BY <1>1, <2>2 DEF Cuts
  <2> QED BY <2>1, <2>2
<1> QED BY <1>1, <1>2 DEF Cut

LEMMA CutToken ==
  ASSUME NEW t \in Seq(Alphabet), NEW p \in 1..Len(t), NEW k \in Tokens,
         k.from = p, k.kind \in Words, k.to \in (p + 1)..(Len(t) + 1),
         IsWord(Slice(t, p, k.to), k.kind), Longest(t, p, k.to),
         NEW tokens, Cut(t, k.to, tokens)
  PROVE  Cut(t, p, <<k>> \o tokens)
<1> DEFINE all == <<k>> \o tokens
<1>1. /\ tokens \in Seq(Tokens) /\ Len(tokens) >= 1
      /\ \A i \in 1..Len(tokens) : CutRight(t, tokens[i], Cuts(tokens, k.to, i))
      /\ EndsRight(t, tokens[Len(tokens)])
  BY DEF Cut
<1>2. /\ all \in Seq(Tokens) /\ Len(all) = Len(tokens) + 1 /\ all[1] = k
      /\ \A i \in 2..Len(all) : i - 1 \in 1..Len(tokens) /\ all[i] = tokens[i - 1]
  BY <1>1
<1> HIDE DEF all
<1>3. ASSUME NEW i \in 1..Len(all)
      PROVE  CutRight(t, all[i], Cuts(all, p, i))
  <2>1. CASE i = 1
    <3>1. CutRight(t, k, p)
      BY DEF CutRight, Blanks
    <3> QED BY <1>2, <2>1, <3>1 DEF Cuts
  <2>2. CASE i = 2
    <3>1. i - 1 = 1 /\ all[i] = tokens[1] /\ 1 \in 1..Len(tokens)
      BY <1>2, <2>2
    <3>2. Cuts(all, p, i) = k.to /\ Cuts(tokens, k.to, 1) = k.to
      BY <1>2, <2>2, <3>1 DEF Cuts
    <3>3. CutRight(t, tokens[1], Cuts(tokens, k.to, 1))
      BY <1>1, <3>1
    <3> QED BY <3>1, <3>2, <3>3
  <2>3. CASE i # 1 /\ i # 2
    <3>1. /\ i - 1 \in 1..Len(tokens) /\ all[i] = tokens[i - 1] /\ i - 1 # 1
          /\ all[i - 1] = tokens[i - 1 - 1]
      BY <1>1, <1>2, <2>3
    <3>2. Cuts(all, p, i) = Cuts(tokens, k.to, i - 1)
      BY <2>3, <3>1 DEF Cuts
    <3> QED BY <1>1, <3>1, <3>2
  <2> QED BY <2>1, <2>2, <2>3
<1>4. all[Len(all)] = tokens[Len(tokens)]
  BY <1>1, <1>2
<1> QED BY <1>1, <1>2, <1>3, <1>4 DEF Cut, all

LEMMA TokenizeCuts ==
  ASSUME NEW t \in Seq(Alphabet)
  PROVE  Cut(t, 1, Tokenize(t))
<1> DEFINE n == Len(t)
           Turn(h, p) == IF p > n THEN <<Token("EOF", p, p)>>
                         ELSE IF t[p] = Blank THEN h[p + 1]
                         ELSE IF NextToken(t, p).kind = "error" THEN <<NextToken(t, p)>>
                         ELSE <<NextToken(t, p)>> \o h[NextToken(t, p).to]
           Scans(k) == \E h : h = [p \in k..(n + 1) |-> Turn(h, p)]
           rest == CHOOSE h : h = [p \in 1..(n + 1) |-> Turn(h, p)]
<1>1. ASSUME NEW p \in 1..n
      PROVE  NextToken(t, p).kind # "error" => NextToken(t, p).to \in (p + 1)..(n + 1)
  <2>1. "error" \notin Words
    BY DEF Words
  <2> QED BY <2>1, NextTokenFacts
<1>2. Scans(n + 1)
  <2> DEFINE h == [p \in (n + 1)..(n + 1) |-> <<Token("EOF", p, p)>>]
  <2>1. h = [p \in (n + 1)..(n + 1) |-> Turn(h, p)]
    OBVIOUS
  <2> QED BY <2>1
<1>3. ASSUME NEW k \in 1..n, Scans(k + 1)
      PROVE  Scans(k)
  <2>1. PICK h : h = [p \in (k + 1)..(n + 1) |-> Turn(h, p)]
    BY <1>3
  <2> DEFINE g == [p \in k..(n + 1) |-> IF p = k THEN Turn(h, k) ELSE h[p]]
  <2>2. \A p \in (k + 1)..(n + 1) : g[p] = h[p] /\ p \in k..(n + 1) /\ p # k
    OBVIOUS
  <2>3. g[k] = Turn(h, k) /\ g = [p \in k..(n + 1) |-> g[p]]
    OBVIOUS
  <2>4. \A p \in k..(n + 1) : p = k \/ p \in (k + 1)..(n + 1)
    OBVIOUS
  <2> HIDE DEF g
  <2>5. ASSUME NEW p \in k..(n + 1)
        PROVE  Turn(g, p) = Turn(h, p)
    <3>1. CASE p > n
      BY <3>1
    <3>2. CASE p <= n
      <4>1. p \in 1..n /\ p + 1 \in (k + 1)..(n + 1) /\ ~(p > n)
        BY <3>2
      <4>2. NextToken(t, p).kind # "error" => NextToken(t, p).to \in (k + 1)..(n + 1)
        BY <1>1, <4>1
      <4>3. g[p + 1] = h[p + 1]
        BY <2>2, <4>1
      <4>4. NextToken(t, p).kind # "error" => g[NextToken(t, p).to] = h[NextToken(t, p).to]
        BY <2>2, <4>2
      <4> QED BY <4>1, <4>3, <4>4
    <3> QED BY <3>1, <3>2
  <2> HIDE DEF Turn
  <2>6. \A p \in k..(n + 1) : g[p] = Turn(h, p)
    BY <2>1, <2>2, <2>3, <2>4
  <2>7. g = [p \in k..(n + 1) |-> Turn(g, p)]
    BY <2>3, <2>5, <2>6
  <2> QED BY <2>7
<1>4. Scans(1)
  <2> DEFINE T == {k \in 1..(n + 1) : ~Scans(k)}
  <2> HIDE DEF Scans
  <2> SUFFICES ASSUME T # {} PROVE FALSE
    OBVIOUS
  <2>1. T \in SUBSET (1..(n + 1)) /\ n + 1 \in Nat
    OBVIOUS
  <2>2. PICK k \in T : \A j \in T : j <= k
    BY <2>1, Greatest
  <2>3. k \in 1..n /\ ~Scans(k) /\ k + 1 \in 1..(n + 1) /\ k + 1 \notin T
    BY <1>2, <2>2
  <2> QED BY <1>3, <2>3
<1>5. rest = [p \in 1..(n + 1) |-> Turn(rest, p)]
  BY <1>4
<1>6. Tokenize(t) = rest[1]
  BY DEF Tokenize
<1> HIDE DEF rest
<1> DEFINE T == {p \in 1..(n + 1) : ~Cut(t, p, rest[p])}
<1>7. T = {}
  <2> SUFFICES ASSUME T # {} PROVE FALSE
    OBVIOUS
  <2>1. T \in SUBSET (1..(n + 1)) /\ n + 1 \in Nat
    OBVIOUS
  <2>2. PICK p \in T : \A j \in T : j <= p
    BY <2>1, Greatest
  <2>3. p \in 1..(n + 1) /\ ~Cut(t, p, rest[p]) /\ rest[p] = Turn(rest, p)
    BY <1>5, <2>2
  <2>4. \A j \in (p + 1)..(n + 1) : Cut(t, j, rest[j])
    BY <2>2, <2>3
  <2> DEFINE tok == NextToken(t, p)
  <2>5. CASE p > n
    <3> DEFINE eof == Token("EOF", p, p)
    <3>1. p = n + 1 /\ rest[p] = <<eof>>
      BY <2>3, <2>5
    <3>2. eof \in Tokens /\ eof.from = p /\ eof.kind = "EOF"
      BY <2>3 DEF Token, Tokens
    <3>3. eof.kind \notin Words
      BY <3>2 DEF Words
    <3> HIDE DEF eof
    <3> QED BY <2>3, <3>1, <3>2, <3>3, CutOne DEF EndsRight
  <2>6. CASE p <= n /\ t[p] = Blank
    <3>1. rest[p] = rest[p + 1] /\ p + 1 \in (p + 1)..(n + 1) /\ p \in 1..n
      BY <2>3, <2>6
    <3> QED BY <2>3, <2>4, <2>6, <3>1, CutBlank
  <2>7. CASE p <= n /\ t[p] # Blank /\ tok.kind = "error"
    <3>1. rest[p] = <<tok>> /\ p \in 1..n /\ ~(p > n)
      BY <2>3, <2>7
    <3>2. "error" \notin Words
      BY DEF Words
    <3>3. tok \in Tokens /\ tok.from = p /\ Longest(t, p, p)
      BY <2>7, <3>1, <3>2, NextTokenFacts
    <3>4. EndsRight(t, tok)
      BY <2>7, <3>1, <3>3 DEF EndsRight
    <3> HIDE DEF tok
    <3> QED BY <2>3, <2>7, <3>1, <3>2, <3>3, <3>4, CutOne
  <2>8. CASE p <= n /\ t[p] # Blank /\ tok.kind # "error"
    <3>1. rest[p] = <<tok>> \o rest[tok.to] /\ p \in 1..n
      BY <2>3, <2>8
    <3>2. /\ tok \in Tokens /\ tok.from = p /\ tok.kind \in Words
          /\ tok.to \in (p + 1)..(n + 1)
          /\ IsWord(Slice(t, p, tok.to), tok.kind) /\ Longest(t, p, tok.to)
      BY <2>8, <3>1, NextTokenFacts
    <3>3. Cut(t, tok.to, rest[tok.to])
      BY <2>4, <3>2
    <3> HIDE DEF tok
    <3>4. Cut(t, p, <<tok>> \o rest[tok.to])
      BY <3>1, <3>2, <3>3, CutToken
    <3> QED BY <2>3, <3>1, <3>4
  <2>9. p > n \/ p <= n
    BY <2>3
  <2> QED BY <2>5, <2>6, <2>7, <2>8, <2>9
<1>8. 1 \in 1..(n + 1) /\ 1 \notin T
  BY <1>7
<1> QED BY <1>6, <1>8

-----------------------------------------------------------------------------
(***************************************************************************)
(* Every text, however long and over whatever alphabet, is cut greedily:   *)
(* each token is a word and the longest one that starts where it starts,   *)
(* only blanks are skipped, and tokenize fails only where no word starts   *)
(* (Parser.tokenize, nextToken).                                           *)
(***************************************************************************)
THEOREM EveryTextIsCut ==
  ASSUME text \in Seq(Alphabet)
  PROVE  LongestWords
<1> DEFINE tokens == Tokenize(text)
           n == Len(text)
<1>1. /\ tokens \in Seq(Tokens) /\ Len(tokens) >= 1
      /\ \A k \in 1..Len(tokens) : CutRight(text, tokens[k], Cuts(tokens, 1, k))
      /\ EndsRight(text, tokens[Len(tokens)])
  BY TokenizeCuts DEF Cut
<1> HIDE DEF tokens
<1>2. ASSUME NEW k \in DOMAIN tokens
      PROVE  LET tok == tokens[k]
                 before == IF k = 1 THEN 1 ELSE tokens[k - 1].to
             IN  /\ ToSet(Slice(text, before, tok.from)) \subseteq {Blank}
                 /\ tok.kind \in Words => /\ IsWord(Slice(text, tok.from, tok.to), tok.kind)
                                          /\ \A j \in (tok.to + 1)..(n + 1) : ~WordAt(text, tok.from, j)
  <2> DEFINE tok == tokens[k]
             before == Cuts(tokens, 1, k)
  <2>1. CutRight(text, tok, before)
    BY <1>1
  <2>2. before = IF k = 1 THEN 1 ELSE tokens[k - 1].to
    BY DEF Cuts
  <2> HIDE DEF tok, before
  <2>3. /\ before \in 1..(n + 1) /\ tok.from \in before..(n + 1)
        /\ \A x \in before..(tok.from - 1) : text[x] = Blank
    BY <2>1 DEF CutRight, Blanks
  <2>4. ToSet(Slice(text, before, tok.from)) \subseteq {Blank}
    <3>1. CASE tok.from = before
      <4>1. Slice(text, before, tok.from) = <<>>
        BY <2>3, <3>1, EmptySlice
      <4> QED BY <4>1 DEF ToSet
    <3>2. CASE tok.from # before
      <4>1. before \in 1..n /\ tok.from \in (before + 1)..(n + 1)
        BY <2>3, <3>2
      <4>2. ToSet(Slice(text, before, tok.from)) = {text[i] : i \in before..(tok.from - 1)}
        BY <4>1, SliceElements
      <4> QED BY <2>3, <4>2
    <3> QED BY <3>1, <3>2
  <2>5. tok.kind \in Words => /\ IsWord(Slice(text, tok.from, tok.to), tok.kind)
                              /\ \A j \in (tok.to + 1)..(n + 1) : ~WordAt(text, tok.from, j)
    BY <2>1 DEF CutRight, Longest
  <2> QED BY <2>2, <2>4, <2>5 DEF tok
<1>3. ASSUME Last(tokens).kind = "error", NEW j \in 1..(n + 1)
      PROVE  ~WordAt(text, Last(tokens).from, j)
  <2>1. Last(tokens).from \in 1..n /\ Longest(text, Last(tokens).from, Last(tokens).from)
    BY <1>1, <1>3 DEF EndsRight, Last
  <2>2. j \in 1..Last(tokens).from \/ j \in (Last(tokens).from + 1)..(n + 1)
    BY <2>1
  <2> QED BY <2>1, <2>2, NoEmptyWord DEF Longest
<1>4. /\ Last(tokens).kind = "EOF" => Last(tokens).from = n + 1
      /\ Last(tokens).kind \in {"EOF", "error"}
  BY <1>1 DEF EndsRight, Last
<1>5. CASE Last(tokens).kind = "EOF"
  BY <1>2, <1>4, <1>5 DEF LongestWords, tokens
<1>6. CASE Last(tokens).kind = "error"
  BY <1>2, <1>3, <1>6 DEF LongestWords, tokens
<1> QED BY <1>4, <1>5, <1>6

-----------------------------------------------------------------------------
(* Sequences of whatever elements.                                         *)

IsSequence(s) == \E S : s \in Seq(S)

LEMMA EmptyIsSequence == IsSequence(<<>>)
<1>1. <<>> \in Seq({})
  OBVIOUS
<1> QED BY <1>1 DEF IsSequence

LEMMA ConsFacts ==
  ASSUME NEW x, NEW s, IsSequence(s)
  PROVE  IsSequence(<<x>> \o s) /\ <<x>> \o s # <<>>
<1>1. PICK S : s \in Seq(S)
  BY DEF IsSequence
<1> DEFINE U == S \cup {x}
<1>2. s \in Seq(U) /\ <<x>> \in Seq(U)
  BY <1>1
<1>3. <<x>> \o s \in Seq(U) /\ Len(<<x>> \o s) = 1 + Len(s)
  BY <1>2
<1>4. IsSequence(<<x>> \o s)
  BY <1>3 DEF IsSequence
<1>5. Len(s) \in Nat /\ Len(<<>>) = 0
  BY <1>1
<1> QED BY <1>3, <1>4, <1>5

LEMMA OneIsSequence ==
  ASSUME NEW x
  PROVE  IsSequence(<<x>>) /\ <<x>> # <<>>
<1>1. <<x>> \in Seq({x})
  OBVIOUS
<1> QED BY <1>1 DEF IsSequence

-----------------------------------------------------------------------------
(* Results stand behind what was parsed, and lists are sequences.          *)

Placed(t, r, i, goal) ==
  /\ r.st = "ok" => /\ r.at \in i..(Len(t) + 1)
                    /\ goal # "operands" => r.at # i
  /\ r.st = "ok" /\ goal \in Lists \cup {"operands"} => IsSequence(r.tree)

PlacedAfter(t, f, i) ==
  \A j \in (i + 1)..(Len(t) + 1) : \A goal \in Goals : Placed(t, f[j][goal], j, goal)

AgreeAfter(t, f, g, i) == \A j \in (i + 1)..(Len(t) + 1) : f[j] = g[j]

LEMMA GoalNames ==
  /\ {"primary", "operands", "query", "selectors", "args", "labels"} = Goals
  /\ "operands" \notin Lists /\ "primary" \notin Lists /\ "query" \notin Lists
BY DEF Goals, Lists

LEMMA PeekFacts ==
  ASSUME NEW t \in Seq(Kinds), NEW i, Peek(t, i) # "EOF"
  PROVE  i \in 1..Len(t)
BY DEF Peek

LEMMA PeekIs ==
  ASSUME NEW t \in Seq(Kinds), NEW i, i \in 1..Len(t)
  PROVE  Peek(t, i) = t[i]
BY DEF Peek

LEMMA DoneFacts ==
  ASSUME NEW i, NEW tree
  PROVE  Done(i, tree).st = "ok" /\ Done(i, tree).at = i /\ Done(i, tree).tree = tree
BY DEF Done

LEMMA FailFacts ==
  ASSUME NEW i
  PROVE  Fail(i).st # "ok" /\ Panic(i).st # "ok"
BY DEF Fail, Panic

LEMMA SelectorFacts ==
  ASSUME NEW t \in Seq(Kinds), NEW i \in 1..(Len(t) + 1)
  PROVE  /\ ParseSelector(t, i).st = "ok" <=> IsSelector(t, i, i + 3) /\ i + 3 <= Len(t) + 1
         /\ ParseSelector(t, i).st = "ok" => ParseSelector(t, i).at = i + 3
<1> DEFINE expected == <<Idents, {"sel"}, Idents \cup Strings>>
           wrong == {k \in 1..3 : Peek(t, i + k - 1) \notin expected[k]}
<1>1. 1..3 = {1, 2, 3}
  OBVIOUS
<1>2. expected[1] = Idents /\ expected[2] = {"sel"} /\ expected[3] = Idents \cup Strings
  OBVIOUS
<1>3. "EOF" \notin Idents /\ "EOF" # "sel" /\ "EOF" \notin Strings
  BY DEF Idents, Strings
<1>4. wrong = {} <=> /\ Peek(t, i) \in Idents /\ Peek(t, i + 1) = "sel"
                     /\ Peek(t, i + 2) \in Idents \cup Strings
  <2>1. i + 1 - 1 = i /\ i + 2 - 1 = i + 1 /\ i + 3 - 1 = i + 2
    OBVIOUS
  <2>2. wrong = {} <=> \A k \in {1, 2, 3} : Peek(t, i + k - 1) \in expected[k]
    BY <1>1
  <2> QED BY <1>2, <2>1, <2>2
<1>5. wrong = {} <=> IsSelector(t, i, i + 3) /\ i + 3 <= Len(t) + 1
  <2>1. ASSUME wrong = {} PROVE IsSelector(t, i, i + 3) /\ i + 3 <= Len(t) + 1
    <3>1. Peek(t, i + 2) # "EOF"
      BY <1>3, <1>4, <2>1
    <3>2. i + 2 \in 1..Len(t)
      BY <3>1, PeekFacts
    <3>3. Peek(t, i) = t[i] /\ Peek(t, i + 1) = t[i + 1] /\ Peek(t, i + 2) = t[i + 2]
      BY <3>2 DEF Peek
    <3> QED BY <1>4, <2>1, <3>2, <3>3 DEF IsSelector
  <2>2. ASSUME IsSelector(t, i, i + 3), i + 3 <= Len(t) + 1 PROVE wrong = {}
    <3>1. Peek(t, i) = t[i] /\ Peek(t, i + 1) = t[i + 1] /\ Peek(t, i + 2) = t[i + 2]
      BY <2>2 DEF Peek
    <3> QED BY <1>4, <2>2, <3>1 DEF IsSelector
  <2> QED BY <2>1, <2>2
<1>6. ParseSelector(t, i) = IF wrong = {} THEN Done(i + 3, [node |-> "selector", at |-> i])
                            ELSE Fail(i + Min(wrong) - 1)
  BY DEF ParseSelector
<1> HIDE DEF wrong
<1> QED BY <1>5, <1>6, DoneFacts, FailFacts

LEMMA LabelFacts ==
  ASSUME NEW t \in Seq(Kinds), NEW i \in 1..(Len(t) + 1)
  PROVE  /\ ParseLabel(t, i).st = "ok" <=> IsLabel(t, i, i + 1) /\ i + 1 <= Len(t) + 1
         /\ ParseLabel(t, i).st = "ok" => ParseLabel(t, i).at = i + 1
<1>1. "EOF" \notin Idents
  BY DEF Idents
<1>2. Peek(t, i) \in Idents <=> IsLabel(t, i, i + 1) /\ i + 1 <= Len(t) + 1
  BY <1>1 DEF Peek, IsLabel
<1> QED BY <1>2, DoneFacts, FailFacts DEF ParseLabel

LEMMA RangeFacts ==
  ASSUME NEW t \in Seq(Kinds), NEW i \in 1..(Len(t) + 1), NEW tree
  PROVE  /\ ParseRange(t, i, tree).st = "ok" =>
              /\ ParseRange(t, i, tree).at \in i..(Len(t) + 1)
              /\ IsRange(t, i, ParseRange(t, i, tree).at)
         /\ \A j \in i..(Len(t) + 1) :
              IsRange(t, i, j) /\ Peek(t, j) # "["
              => ParseRange(t, i, tree).st = "ok" /\ ParseRange(t, i, tree).at = j
<1> DEFINE r == ParseRange(t, i, tree)
<1>1. "EOF" \notin Durations /\ "EOF" # "[" /\ "EOF" # "]"
  BY DEF Durations
<1>2. CASE Peek(t, i) # "["
  <2>2. r.st = "ok" /\ r.at = i
    BY <1>2, DoneFacts DEF ParseRange
  <2>3. ASSUME NEW j \in i..(Len(t) + 1), IsRange(t, i, j) PROVE j = i
    BY <1>2, <2>3 DEF IsRange, Peek
  <2> HIDE DEF r
  <2> QED BY <2>2, <2>3 DEF IsRange, r
<1>3. CASE Peek(t, i) = "["
  <2>0. i \in 1..Len(t)
    BY <1>1, <1>3, PeekFacts
  <2>1. i \in 1..Len(t) /\ t[i] = "["
    BY <1>3, <2>0 DEF Peek
  <2>2. r.st = "ok" => /\ r.at = i + 3 /\ Peek(t, i + 1) \in Durations /\ Peek(t, i + 2) = "]"
    BY <1>3, DoneFacts, FailFacts DEF ParseRange
  <2>3. ASSUME Peek(t, i + 1) \in Durations, Peek(t, i + 2) = "]"
        PROVE  r.st = "ok" /\ r.at = i + 3
    BY <1>3, <2>3, DoneFacts DEF ParseRange
  <2> HIDE DEF r
  <2>4. ASSUME r.st = "ok" PROVE r.at \in i..(Len(t) + 1) /\ IsRange(t, i, r.at)
    <3>1. Peek(t, i + 2) # "EOF"
      BY <1>1, <2>2, <2>4
    <3>2. i + 2 \in 1..Len(t)
      BY <3>1, PeekFacts
    <3>3. Peek(t, i + 1) = t[i + 1] /\ Peek(t, i + 2) = t[i + 2]
      BY <3>2 DEF Peek
    <3> QED BY <2>1, <2>2, <2>4, <3>2, <3>3 DEF IsRange
  <2>5. ASSUME NEW j \in i..(Len(t) + 1), IsRange(t, i, j), Peek(t, j) # "["
        PROVE  r.st = "ok" /\ r.at = j
    <3>1. j = i + 3 /\ t[i + 1] \in Durations /\ t[i + 2] = "]"
      BY <1>3, <2>5 DEF IsRange
    <3>2. Peek(t, i + 1) = t[i + 1] /\ Peek(t, i + 2) = t[i + 2]
      BY <3>1, <2>5 DEF Peek
    <3> QED BY <2>3, <3>1, <3>2
  <2> QED BY <2>4, <2>5 DEF r
<1> QED BY <1>2, <1>3

-----------------------------------------------------------------------------
(* One step of the descent: what it comes to depends only on the results   *)
(* at later positions, and is placed when these are.                       *)

LEMMA PlacedAt ==
  ASSUME NEW t, NEW f, NEW i, NEW j \in (i + 1)..(Len(t) + 1), NEW goal \in Goals,
         PlacedAfter(t, f, i)
  PROVE  Placed(t, f[j][goal], j, goal)
BY DEF PlacedAfter

LEMMA FailIsPlaced ==
  ASSUME NEW t, NEW r, r.st # "ok", NEW i, NEW goal
  PROVE  Placed(t, r, i, goal)
BY DEF Placed

LEMMA TelemetryStep ==
  ASSUME NEW t \in Seq(Kinds), NEW i \in 1..(Len(t) + 1), NEW f, NEW g,
         PlacedAfter(t, f, i), AgreeAfter(t, f, g, i)
  PROVE  /\ Placed(t, ParseTelemetryQuery(t, f, i), i, "primary")
         /\ ParseTelemetryQuery(t, g, i) = ParseTelemetryQuery(t, f, i)
<1> DEFINE s == f[i + 2]["selectors"]
           r == ParseTelemetryQuery(t, f, i)
<1>1. CASE Peek(t, i + 1) # "{"
  <2>1. r = Fail(i + 1) /\ ParseTelemetryQuery(t, g, i) = Fail(i + 1)
    BY <1>1 DEF ParseTelemetryQuery
  <2> QED BY <2>1, FailFacts, FailIsPlaced
<1>2. CASE Peek(t, i + 1) = "{"
  <2>0. i + 1 \in 1..Len(t)
    BY <1>2, PeekFacts
  <2>1. i + 2 \in (i + 1)..(Len(t) + 1)
    BY <2>0
  <2>2. g[i + 2] = f[i + 2]
    BY <2>1 DEF AgreeAfter
  <2>3. ParseTelemetryQuery(t, g, i) = r
    BY <2>2 DEF ParseTelemetryQuery
  <2>4. Placed(t, s, i + 2, "selectors")
    BY <2>1, GoalNames, PlacedAt
  <2>5. CASE s.st # "ok"
    <3>1. r = s
      BY <1>2, <2>5 DEF ParseTelemetryQuery
    <3> QED BY <2>3, <2>5, <3>1, FailIsPlaced
  <2>6. CASE s.st = "ok"
    <3>1. r = ParseRange(t, s.at, s.tree)
      BY <1>2, <2>6 DEF ParseTelemetryQuery
    <3>2. s.at \in (i + 2)..(Len(t) + 1)
      BY <2>4, <2>6 DEF Placed
    <3>3. r.st = "ok" => r.at \in s.at..(Len(t) + 1)
      BY <3>1, <3>2, RangeFacts
    <3> QED BY <2>3, <3>2, <3>3, GoalNames DEF Placed
  <2> QED BY <2>5, <2>6
<1> QED BY <1>1, <1>2

LEMMA ByStep ==
  ASSUME NEW t \in Seq(Kinds), NEW i \in 1..(Len(t) + 1), NEW f, NEW g, NEW name, NEW args,
         args.at \in (i + 1)..(Len(t) + 1),
         PlacedAfter(t, f, i), AgreeAfter(t, f, g, i)
  PROVE  /\ Placed(t, ParseBy(t, f, name, args), i, "primary")
         /\ ParseBy(t, g, name, args) = ParseBy(t, f, name, args)
<1> DEFINE labels == f[args.at + 2]["labels"]
           r == ParseBy(t, f, name, args)
<1>1. CASE Peek(t, args.at) # "by"
  <2>1. r.st = "ok" /\ r.at = args.at
    BY <1>1, DoneFacts DEF ParseBy
  <2>2. ParseBy(t, g, name, args) = r
    BY <1>1 DEF ParseBy
  <2> HIDE DEF r
  <2>3. Placed(t, r, i, "primary")
    BY <2>1, GoalNames DEF Placed
  <2> QED BY <2>2, <2>3 DEF r
<1>2. CASE Peek(t, args.at) = "by" /\ Peek(t, args.at + 1) # "("
  <2>1. r = Fail(args.at + 1) /\ ParseBy(t, g, name, args) = Fail(args.at + 1)
    BY <1>2 DEF ParseBy
  <2> QED BY <2>1, FailFacts, FailIsPlaced
<1>3. CASE Peek(t, args.at) = "by" /\ Peek(t, args.at + 1) = "("
  <2>1. args.at + 2 \in (i + 1)..(Len(t) + 1)
    BY <1>3, PeekFacts
  <2>2. g[args.at + 2] = f[args.at + 2]
    BY <2>1 DEF AgreeAfter
  <2>3. ParseBy(t, g, name, args) = r
    BY <2>2 DEF ParseBy
  <2>4. Placed(t, labels, args.at + 2, "labels")
    BY <2>1, GoalNames, PlacedAt
  <2>5. CASE labels.st # "ok"
    <3>1. r = labels
      BY <1>3, <2>5 DEF ParseBy
    <3> QED BY <2>3, <2>5, <3>1, FailIsPlaced
  <2>6. CASE labels.st = "ok"
    <3>1. r.st = "ok" => r.at = labels.at
      BY <1>3, <2>6, DoneFacts, FailFacts DEF ParseBy
    <3>2. labels.at \in (args.at + 2)..(Len(t) + 1)
      BY <2>4, <2>6 DEF Placed
    <3> HIDE DEF r, labels
    <3>3. Placed(t, r, i, "primary")
      BY <3>1, <3>2, GoalNames DEF Placed
    <3> QED BY <2>3, <3>3 DEF r
  <2> QED BY <2>5, <2>6
<1> QED BY <1>1, <1>2, <1>3

LEMMA CallStep ==
  ASSUME NEW t \in Seq(Kinds), NEW i \in 1..(Len(t) + 1), NEW f, NEW g,
         PlacedAfter(t, f, i), AgreeAfter(t, f, g, i)
  PROVE  /\ Placed(t, ParseFunctionCall(t, f, i), i, "primary")
         /\ ParseFunctionCall(t, g, i) = ParseFunctionCall(t, f, i)
<1> DEFINE args == f[i + 2]["args"]
           r == ParseFunctionCall(t, f, i)
<1>1. CASE Peek(t, i + 1) # "("
  <2>1. r = Fail(i + 1) /\ ParseFunctionCall(t, g, i) = Fail(i + 1)
    BY <1>1 DEF ParseFunctionCall
  <2> QED BY <2>1, FailFacts, FailIsPlaced
<1>2. CASE Peek(t, i + 1) = "("
  <2>0. i + 1 \in 1..Len(t)
    BY <1>2, PeekFacts
  <2>1. i + 2 \in (i + 1)..(Len(t) + 1)
    BY <2>0
  <2>2. g[i + 2] = f[i + 2]
    BY <2>1 DEF AgreeAfter
  <2>3. Placed(t, args, i + 2, "args")
    BY <2>1, GoalNames, PlacedAt
  <2>4. CASE args.st # "ok"
    <3>1. r = args /\ ParseFunctionCall(t, g, i) = args
      BY <1>2, <2>2, <2>4 DEF ParseFunctionCall
    <3> QED BY <2>4, <3>1, FailIsPlaced
  <2>5. CASE args.st = "ok"
    <3>1. r = ParseBy(t, f, i, args) /\ ParseFunctionCall(t, g, i) = ParseBy(t, g, i, args)
      BY <1>2, <2>2, <2>5 DEF ParseFunctionCall
    <3>2. args.at \in (i + 1)..(Len(t) + 1)
      BY <2>3, <2>5 DEF Placed
    <3> HIDE DEF r, args
    <3> QED BY <3>1, <3>2, ByStep DEF r
  <2> QED BY <2>4, <2>5
<1> QED BY <1>1, <1>2

LEMMA ParenthesizedStep ==
  ASSUME NEW t \in Seq(Kinds), NEW i \in 1..Len(t), NEW f, NEW g,
         PlacedAfter(t, f, i), AgreeAfter(t, f, g, i)
  PROVE  /\ Placed(t, ParseParenthesized(t, f, i), i, "primary")
         /\ ParseParenthesized(t, g, i) = ParseParenthesized(t, f, i)
<1> DEFINE q == f[i + 1]["query"]
           r == ParseParenthesized(t, f, i)
<1>1. i + 1 \in (i + 1)..(Len(t) + 1)
  OBVIOUS
<1>2. g[i + 1] = f[i + 1]
  BY <1>1 DEF AgreeAfter
<1>3. ParseParenthesized(t, g, i) = r
  BY <1>2 DEF ParseParenthesized
<1>4. Placed(t, q, i + 1, "query")
  BY <1>1, GoalNames, PlacedAt
<1>5. CASE q.st # "ok"
  <2>1. r = q
    BY <1>5 DEF ParseParenthesized
  <2> QED BY <1>3, <1>5, <2>1, FailIsPlaced
<1>6. CASE q.st = "ok" /\ Peek(t, q.at) # ")"
  <2>1. r = Fail(q.at)
    BY <1>6 DEF ParseParenthesized
  <2> QED BY <1>3, <2>1, FailFacts, FailIsPlaced
<1>7. CASE q.st = "ok" /\ Peek(t, q.at) = ")"
  <2>1. r = Done(q.at + 1, q.tree)
    BY <1>7 DEF ParseParenthesized
  <2>2. q.at \in (i + 1)..(Len(t) + 1)
    BY <1>4, <1>7 DEF Placed
  <2>3. q.at + 1 \in (i + 1)..(Len(t) + 1)
    BY <1>7, <2>2, PeekFacts
  <2>4. r.st = "ok" /\ r.at = q.at + 1
    BY <2>1, DoneFacts
  <2> HIDE DEF r, q
  <2>5. Placed(t, r, i, "primary")
    BY <2>3, <2>4, GoalNames DEF Placed
  <2> QED BY <1>3, <2>5 DEF r
<1> QED BY <1>5, <1>6, <1>7

LEMMA PrimaryStep ==
  ASSUME NEW t \in Seq(Kinds), NEW i \in 1..(Len(t) + 1), NEW f, NEW g,
         PlacedAfter(t, f, i), AgreeAfter(t, f, g, i)
  PROVE  /\ Placed(t, ParsePrimary(t, f, i), i, "primary")
         /\ ParsePrimary(t, g, i) = ParsePrimary(t, f, i)
<1>1. CASE Peek(t, i) = "type"
  BY <1>1, TelemetryStep DEF ParsePrimary
<1>2. CASE Peek(t, i) = "ident"
  BY <1>2, CallStep DEF ParsePrimary
<1>3. CASE Peek(t, i) = "("
  <2>1. i \in 1..Len(t)
    BY <1>3, PeekFacts
  <2> QED BY <1>3, <2>1, ParenthesizedStep DEF ParsePrimary
<1>4. CASE Peek(t, i) \notin {"type", "ident", "("}
  BY <1>4, FailFacts, FailIsPlaced DEF ParsePrimary
<1> QED BY <1>1, <1>2, <1>3, <1>4

LEMMA BeforeFacts ==
  ASSUME NEW x, NEW r
  PROVE  /\ r.st # "ok" => Before(x, r) = r
         /\ r.st = "ok" => /\ Before(x, r).st = "ok" /\ Before(x, r).at = r.at
                           /\ Before(x, r).tree = <<x>> \o r.tree
BY DEF Before, Done

LEMMA OperandsStep ==
  ASSUME NEW t \in Seq(Kinds), NEW i \in 1..(Len(t) + 1), NEW f, NEW g,
         PlacedAfter(t, f, i), AgreeAfter(t, f, g, i)
  PROVE  /\ Placed(t, ParseOperands(t, f, i), i, "operands")
         /\ ParseOperands(t, g, i) = ParseOperands(t, f, i)
<1> DEFINE right == f[i + 1]["primary"]
           more == f[right.at]["operands"]
           x == [at |-> i, tree |-> right.tree]
           r == ParseOperands(t, f, i)
<1>1. CASE Peek(t, i) # "op"
  <2>1. r = Done(i, <<>>) /\ ParseOperands(t, g, i) = r
    BY <1>1 DEF ParseOperands
  <2>2. r.st = "ok" /\ r.at = i /\ r.tree = <<>>
    BY <2>1, DoneFacts
  <2> HIDE DEF r
  <2>3. Placed(t, r, i, "operands")
    BY <2>2, EmptyIsSequence DEF Placed
  <2> QED BY <2>1, <2>3 DEF r
<1>2. CASE Peek(t, i) = "op"
  <2>1. i + 1 \in (i + 1)..(Len(t) + 1)
    BY <1>2, PeekFacts
  <2>2. g[i + 1] = f[i + 1]
    BY <2>1 DEF AgreeAfter
  <2>3. Placed(t, right, i + 1, "primary")
    BY <2>1, GoalNames, PlacedAt
  <2>4. CASE right.st # "ok"
    <3>1. r = right /\ ParseOperands(t, g, i) = right
      BY <1>2, <2>2, <2>4 DEF ParseOperands
    <3> QED BY <2>4, <3>1, FailIsPlaced
  <2>5. CASE right.st = "ok"
    <3>1. right.at \in (i + 1)..(Len(t) + 1)
      BY <2>3, <2>5 DEF Placed
    <3>2. g[right.at] = f[right.at]
      BY <3>1 DEF AgreeAfter
    <3>3. r = Before(x, more) /\ ParseOperands(t, g, i) = Before(x, more)
      BY <1>2, <2>2, <2>5, <3>2 DEF ParseOperands
    <3>4. Placed(t, more, right.at, "operands")
      BY <3>1, GoalNames, PlacedAt
    <3> HIDE DEF r, more, x
    <3>5. CASE more.st # "ok"
      BY <3>3, <3>5, BeforeFacts, FailIsPlaced DEF r
    <3>6. CASE more.st = "ok"
      <4>1. r.st = "ok" /\ r.at = more.at /\ r.tree = <<x>> \o more.tree
        BY <3>3, <3>6, BeforeFacts
      <4>2. IsSequence(more.tree) /\ more.at \in i..(Len(t) + 1)
        BY <3>1, <3>4, <3>6 DEF Placed
      <4>3. Placed(t, r, i, "operands")
        BY <4>1, <4>2, ConsFacts DEF Placed
      <4> QED BY <3>3, <4>3 DEF r
    <3> QED BY <3>5, <3>6
  <2> QED BY <2>4, <2>5
<1> QED BY <1>1, <1>2

LEMMA QueryStep ==
  ASSUME NEW t \in Seq(Kinds), NEW i \in 1..(Len(t) + 1), NEW f, NEW g,
         PlacedAfter(t, f, i), AgreeAfter(t, f, g, i)
  PROVE  /\ Placed(t, ParseQuery(t, f, i), i, "query")
         /\ ParseQuery(t, g, i) = ParseQuery(t, f, i)
<1> DEFINE first == ParsePrimary(t, f, i)
           more == f[first.at]["operands"]
           r == ParseQuery(t, f, i)
<1>1. Placed(t, first, i, "primary") /\ ParsePrimary(t, g, i) = first
  BY PrimaryStep
<1>2. CASE first.st # "ok"
  <2>1. r = first /\ ParseQuery(t, g, i) = first
    BY <1>1, <1>2 DEF ParseQuery
  <2> QED BY <1>2, <2>1, FailIsPlaced
<1>3. CASE first.st = "ok"
  <2>1. first.at \in (i + 1)..(Len(t) + 1)
    BY <1>1, <1>3 DEF Placed
  <2>2. g[first.at] = f[first.at]
    BY <2>1 DEF AgreeAfter
  <2>3. ParseQuery(t, g, i) = r
    BY <1>1, <2>2 DEF ParseQuery
  <2>4. Placed(t, more, first.at, "operands")
    BY <2>1, GoalNames, PlacedAt
  <2>5. CASE more.st # "ok"
    <3>1. r = more
      BY <1>3, <2>5 DEF ParseQuery
    <3> QED BY <2>3, <2>5, <3>1, FailIsPlaced
  <2>6. CASE more.st = "ok"
    <3>1. r.st = "ok" /\ r.at = more.at
      BY <1>3, <2>6, DoneFacts DEF ParseQuery
    <3>2. more.at \in first.at..(Len(t) + 1)
      BY <2>4, <2>6 DEF Placed
    <3> HIDE DEF r, more, first
    <3>3. Placed(t, r, i, "query")
      BY <2>1, <3>1, <3>2, GoalNames DEF Placed
    <3> QED BY <2>3, <3>3 DEF r
  <2> QED BY <2>5, <2>6
<1> QED BY <1>2, <1>3

LEMMA ElementStep ==
  ASSUME NEW t \in Seq(Kinds), NEW i \in 1..(Len(t) + 1), NEW f, NEW g, NEW what \in Lists,
         PlacedAfter(t, f, i), AgreeAfter(t, f, g, i)
  PROVE  /\ ParseElement(t, f, i, what).st = "ok" => ParseElement(t, f, i, what).at \in (i + 1)..(Len(t) + 1)
         /\ ParseElement(t, g, i, what) = ParseElement(t, f, i, what)
<1>1. CASE what = "selectors"
  BY <1>1, SelectorFacts DEF ParseElement
<1>2. CASE what = "labels"
  BY <1>2, LabelFacts DEF ParseElement
<1>3. CASE what = "args"
  <2>1. /\ Placed(t, ParseQuery(t, f, i), i, "query")
        /\ ParseQuery(t, g, i) = ParseQuery(t, f, i)
    BY QueryStep
  <2> QED BY <1>3, <2>1 DEF ParseElement, Placed
<1> QED BY <1>1, <1>2, <1>3 DEF Lists

LEMMA ClosesFacts ==
  ASSUME NEW t \in Seq(Kinds), NEW i, NEW what, Closes(t, i, what)
  PROVE  /\ i \in 1..Len(t)
         /\ Peek(t, i) # "," /\ Peek(t, i) # "op" /\ Peek(t, i) # "by" /\ Peek(t, i) # "["
<1>1. Peek(t, i) \in {"}", ")"}
  <2>1. CASE what = "selectors"
    BY <2>1 DEF Closes
  <2>2. CASE what # "selectors"
    BY <2>2 DEF Closes
  <2> QED BY <2>1, <2>2
<1>2. /\ Peek(t, i) # "EOF"
      /\ Peek(t, i) # "," /\ Peek(t, i) # "op" /\ Peek(t, i) # "by" /\ Peek(t, i) # "["
  BY <1>1
<1> QED BY <1>2, PeekFacts

LEMMA NextStep ==
  ASSUME NEW t \in Seq(Kinds), NEW i \in 1..(Len(t) + 1), NEW f, NEW g, NEW what \in Lists, NEW e,
         e.at \in (i + 1)..(Len(t) + 1),
         PlacedAfter(t, f, i), AgreeAfter(t, f, g, i)
  PROVE  /\ Placed(t, ParseNext(t, f, e, what), i, what)
         /\ ParseNext(t, g, e, what) = ParseNext(t, f, e, what)
<1> DEFINE more == f[e.at + 1][what]
           r == ParseNext(t, f, e, what)
<1>1. CASE Peek(t, e.at) = ","
  <2>0. e.at \in 1..Len(t)
    BY <1>1, PeekFacts
  <2>1. e.at + 1 \in (i + 1)..(Len(t) + 1)
    BY <2>0
  <2>2. g[e.at + 1] = f[e.at + 1]
    BY <2>1 DEF AgreeAfter
  <2>3. r = Before(e.tree, more) /\ ParseNext(t, g, e, what) = Before(e.tree, more)
    BY <1>1, <2>2 DEF ParseNext
  <2>4. Placed(t, more, e.at + 1, what)
    BY <2>1, PlacedAt DEF Goals
  <2> HIDE DEF more, r
  <2>5. CASE more.st # "ok"
    BY <2>3, <2>5, BeforeFacts, FailIsPlaced DEF r
  <2>6. CASE more.st = "ok"
    <3>1. r.st = "ok" /\ r.at = more.at /\ r.tree = <<e.tree>> \o more.tree
      BY <2>3, <2>6, BeforeFacts
    <3>2. IsSequence(more.tree) /\ more.at \in (e.at + 1)..(Len(t) + 1)
      BY <2>1, <2>4, <2>6 DEF Placed
    <3>3. IsSequence(<<e.tree>> \o more.tree)
      BY <3>2, ConsFacts
    <3>4. r.at \in (i + 1)..(Len(t) + 1)
      BY <2>1, <3>1, <3>2
    <3>5. Placed(t, r, i, what)
      BY <3>1, <3>3, <3>4 DEF Placed
    <3> QED BY <2>3, <3>5 DEF r
  <2> QED BY <2>5, <2>6
<1>2. CASE Peek(t, e.at) # "," /\ Closes(t, e.at, what)
  <2>1. r = Done(e.at + 1, <<e.tree>>) /\ ParseNext(t, g, e, what) = r
    BY <1>2 DEF ParseNext
  <2>0. e.at \in 1..Len(t)
    BY <1>2, ClosesFacts
  <2>2. e.at + 1 \in (i + 1)..(Len(t) + 1)
    BY <2>0
  <2>3. r.st = "ok" /\ r.at = e.at + 1 /\ r.tree = <<e.tree>>
    BY <2>1, DoneFacts
  <2> HIDE DEF r
  <2>4. Placed(t, r, i, what)
    BY <2>2, <2>3, OneIsSequence DEF Placed
  <2> QED BY <2>1, <2>4 DEF r
<1>3. CASE Peek(t, e.at) # "," /\ ~Closes(t, e.at, what)
  <2>1. r = Fail(e.at) /\ ParseNext(t, g, e, what) = Fail(e.at)
    BY <1>3 DEF ParseNext
  <2> QED BY <2>1, FailFacts, FailIsPlaced
<1> QED BY <1>1, <1>2, <1>3

LEMMA ListStep ==
  ASSUME NEW t \in Seq(Kinds), NEW i \in 1..(Len(t) + 1), NEW f, NEW g, NEW what \in Lists,
         PlacedAfter(t, f, i), AgreeAfter(t, f, g, i)
  PROVE  /\ Placed(t, ParseList(t, f, i, what), i, what)
         /\ ParseList(t, g, i, what) = ParseList(t, f, i, what)
<1> DEFINE e == ParseElement(t, f, i, what)
           r == ParseList(t, f, i, what)
<1>1. CASE Closes(t, i, what)
  <2>1. r = Done(i + 1, <<>>) /\ ParseList(t, g, i, what) = r
    BY <1>1 DEF ParseList
  <2>2. i \in 1..Len(t)
    BY <1>1, ClosesFacts
  <2>3. r.st = "ok" /\ r.at = i + 1 /\ r.tree = <<>>
    BY <2>1, DoneFacts
  <2> HIDE DEF r
  <2>4. Placed(t, r, i, what)
    BY <2>2, <2>3, EmptyIsSequence DEF Placed
  <2> QED BY <2>1, <2>4 DEF r
<1>2. CASE ~Closes(t, i, what)
  <2>1. /\ e.st = "ok" => e.at \in (i + 1)..(Len(t) + 1)
        /\ ParseElement(t, g, i, what) = e
    BY ElementStep
  <2>2. CASE e.st # "ok"
    <3>1. r = e /\ ParseList(t, g, i, what) = e
      BY <1>2, <2>1, <2>2 DEF ParseList
    <3> QED BY <2>2, <3>1, FailIsPlaced
  <2>3. CASE e.st = "ok"
    <3>1. r = ParseNext(t, f, e, what) /\ ParseList(t, g, i, what) = ParseNext(t, g, e, what)
      BY <1>2, <2>1, <2>3 DEF ParseList
    <3> HIDE DEF e, r
    <3> QED BY <2>1, <2>3, <3>1, NextStep DEF r
  <2> QED BY <2>2, <2>3
<1> QED BY <1>1, <1>2

LEMMA StepFacts ==
  ASSUME NEW t \in Seq(Kinds), NEW i \in 1..(Len(t) + 1), NEW f, NEW g, NEW goal \in Goals,
         PlacedAfter(t, f, i), AgreeAfter(t, f, g, i)
  PROVE  /\ Placed(t, ResultAt(t, f, i, goal), i, goal)
         /\ ResultAt(t, g, i, goal) = ResultAt(t, f, i, goal)
<1>1. CASE goal = "primary"
  BY <1>1, GoalNames, PrimaryStep DEF ResultAt
<1>2. CASE goal = "operands"
  BY <1>2, GoalNames, OperandsStep DEF ResultAt
<1>3. CASE goal = "query"
  BY <1>3, GoalNames, QueryStep DEF ResultAt
<1>4. CASE goal \in Lists
  <2>1. ResultAt(t, f, i, goal) = ParseList(t, f, i, goal)
        /\ ResultAt(t, g, i, goal) = ParseList(t, g, i, goal)
    BY <1>4, GoalNames DEF ResultAt
  <2> QED BY <1>4, <2>1, ListStep
<1> QED BY <1>1, <1>2, <1>3, <1>4 DEF Goals

-----------------------------------------------------------------------------
(* The results exist: filled in from the end, a position at a time.        *)

Row(t, f, i) == [goal \in Goals |-> ResultAt(t, f, i, goal)]

(* f has the results of position p and of those after it *)
FilledFrom(t, f, p) ==
  /\ f = [i \in 1..(Len(t) + 1) |-> f[i]]
  /\ \A i \in p..(Len(t) + 1) : f[i] = Row(t, f, i)

LEMMA RowFacts ==
  ASSUME NEW t \in Seq(Kinds), NEW i \in 1..(Len(t) + 1), NEW f, NEW g,
         PlacedAfter(t, f, i), AgreeAfter(t, f, g, i)
  PROVE  /\ \A goal \in Goals : Placed(t, Row(t, f, i)[goal], i, goal)
         /\ Row(t, g, i) = Row(t, f, i)
<1>1. \A goal \in Goals : /\ Placed(t, ResultAt(t, f, i, goal), i, goal)
                          /\ ResultAt(t, g, i, goal) = ResultAt(t, f, i, goal)
  BY StepFacts
<1>2. \A goal \in Goals : Row(t, f, i)[goal] = ResultAt(t, f, i, goal)
  BY DEF Row
<1>3. Row(t, g, i) = Row(t, f, i)
  BY <1>1 DEF Row
<1> QED BY <1>1, <1>2, <1>3

LEMMA FilledIsPlaced ==
  ASSUME NEW t \in Seq(Kinds), NEW f, NEW p \in 1..(Len(t) + 2), FilledFrom(t, f, p),
         NEW i \in (p - 1)..(Len(t) + 1)
  PROVE  PlacedAfter(t, f, i)
<1> DEFINE n == Len(t) + 1
           T == {j \in p..n : \E goal \in Goals : ~Placed(t, f[j][goal], j, goal)}
<1>1. T = {}
  <2>1. SUFFICES ASSUME T # {} PROVE FALSE
    OBVIOUS
  <2>2. T \in SUBSET (1..n) /\ n \in Nat
    OBVIOUS
  <2> HIDE DEF T
  <2>3. PICK x \in T : \A y \in T : y <= x
    BY <2>1, <2>2, Greatest
  <2>4. x \in p..n /\ \E goal \in Goals : ~Placed(t, f[x][goal], x, goal)
    BY <2>3 DEF T
  <2>5. ASSUME NEW j \in (x + 1)..n, NEW goal \in Goals
        PROVE  Placed(t, f[j][goal], j, goal)
    <3>1. j \in p..n /\ ~(j <= x)
      BY <2>4
    <3>2. j \notin T
      BY <2>3, <3>1
    <3> QED BY <3>1, <3>2 DEF T
  <2>6. PlacedAfter(t, f, x)
    BY <2>5 DEF PlacedAfter
  <2>7. AgreeAfter(t, f, f, x) /\ x \in 1..n
    BY <2>4 DEF AgreeAfter
  <2>8. \A goal \in Goals : Placed(t, Row(t, f, x)[goal], x, goal)
    BY <2>6, <2>7, RowFacts
  <2>9. f[x] = Row(t, f, x)
    BY <2>4 DEF FilledFrom
  <2> QED BY <2>4, <2>8, <2>9
<1>2. ASSUME NEW j \in (i + 1)..n, NEW goal \in Goals
      PROVE  Placed(t, f[j][goal], j, goal)
  <2>1. j \in p..n
    OBVIOUS
  <2> QED BY <1>1, <2>1
<1> QED BY <1>2 DEF PlacedAfter

LEMMA FillOneMore ==
  ASSUME NEW t \in Seq(Kinds), NEW p \in 1..(Len(t) + 1), NEW f, FilledFrom(t, f, p + 1)
  PROVE  \E g : FilledFrom(t, g, p)
<1> DEFINE n == Len(t) + 1
           g == [i \in 1..n |-> IF i = p THEN Row(t, f, p) ELSE f[i]]
<1>1. p + 1 \in 1..(Len(t) + 2)
  OBVIOUS
<1>2. g = [i \in 1..n |-> g[i]]
  OBVIOUS
<1>3. \A i \in p..n : AgreeAfter(t, f, g, i)
  BY DEF AgreeAfter
<1>4. g[p] = Row(t, f, p) /\ \A i \in (p + 1)..n : g[i] = f[i]
  OBVIOUS
<1> HIDE DEF g
<1>5. ASSUME NEW i \in p..n PROVE g[i] = Row(t, g, i)
  <2>1. i \in 1..n /\ i \in ((p + 1) - 1)..n
    OBVIOUS
  <2>2. PlacedAfter(t, f, i)
    BY <1>1, <2>1, FilledIsPlaced
  <2>3. Row(t, g, i) = Row(t, f, i)
    BY <1>3, <2>1, <2>2, RowFacts
  <2>4. CASE i = p
    BY <1>4, <2>3, <2>4
  <2>5. CASE i # p
    <3>1. i \in (p + 1)..n
      BY <2>5
    <3> QED BY <1>4, <2>3, <3>1 DEF FilledFrom
  <2> QED BY <2>4, <2>5
<1> QED BY <1>2, <1>5 DEF FilledFrom

LEMMA ResultsExist ==
  ASSUME NEW t \in Seq(Kinds)
  PROVE  \E f : FilledFrom(t, f, 1)
<1> DEFINE n == Len(t) + 1
           T == {p \in 1..n : ~ \E f : FilledFrom(t, f, p)}
<1>1. T = {}
  <2>1. SUFFICES ASSUME T # {} PROVE FALSE
    OBVIOUS
  <2>2. T \in SUBSET (1..n) /\ n \in Nat
    OBVIOUS
  <2> HIDE DEF T
  <2>3. PICK x \in T : \A y \in T : y <= x
    BY <2>1, <2>2, Greatest
  <2>4. x \in 1..n /\ ~ \E f : FilledFrom(t, f, x)
    BY <2>3 DEF T
  <2>5. \E f : FilledFrom(t, f, x + 1)
    <3>1. CASE x = n
      <4> DEFINE f == [i \in 1..n |-> 0]
      <4>1. f = [i \in 1..n |-> f[i]]
        OBVIOUS
      <4>2. (x + 1)..n = {}
        BY <3>1
      <4> HIDE DEF f
      <4> QED BY <4>1, <4>2 DEF FilledFrom
    <3>2. CASE x # n
      <4>1. x + 1 \in 1..n /\ ~(x + 1 <= x)
        BY <2>4, <3>2
      <4>2. x + 1 \notin T
        BY <2>3, <4>1
      <4> QED BY <4>1, <4>2 DEF T
    <3> QED BY <3>1, <3>2
  <2> QED BY <2>4, <2>5, FillOneMore
<1>2. 1 \in 1..n
  OBVIOUS
<1> QED BY <1>1, <1>2

LEMMA ResultsFilled ==
  ASSUME NEW t \in Seq(Kinds)
  PROVE  FilledFrom(t, Results(t), 1)
<1> DEFINE F(f) == [i \in 1..(Len(t) + 1) |-> [goal \in Goals |-> ResultAt(t, f, i, goal)]]
<1>1. PICK f : FilledFrom(t, f, 1)
  BY ResultsExist
<1>2. f = F(f)
  <2>1. f = [i \in 1..(Len(t) + 1) |-> f[i]]
    BY <1>1 DEF FilledFrom
  <2>2. \A i \in 1..(Len(t) + 1) : f[i] = [goal \in Goals |-> ResultAt(t, f, i, goal)]
    BY <1>1 DEF FilledFrom, Row
  <2> QED BY <2>1, <2>2
<1>3. Results(t) = CHOOSE r : r = F(r)
  BY DEF Results
<1> DEFINE r == Results(t)
<1> HIDE DEF F
<1>4. Results(t) = F(Results(t))
  BY <1>2, <1>3
<1>5. r = F(r)
  BY <1>4
<1> HIDE DEF r
<1>6. r = [i \in 1..(Len(t) + 1) |-> [goal \in Goals |-> ResultAt(t, r, i, goal)]]
  BY <1>5 DEF F
<1>7. \A i \in 1..(Len(t) + 1) : r[i] = Row(t, r, i)
  BY <1>6 DEF Row
<1>8. r = [i \in 1..(Len(t) + 1) |-> r[i]]
  BY <1>6
<1> QED BY <1>7, <1>8 DEF FilledFrom, r

(* what the rest of the proof uses of the results *)
LEMMA ResultsFacts ==
  ASSUME NEW t \in Seq(Kinds), NEW i \in 1..(Len(t) + 1), NEW goal \in Goals
  PROVE  /\ Results(t)[i][goal] = ResultAt(t, Results(t), i, goal)
         /\ Placed(t, Results(t)[i][goal], i, goal)
<1>1. FilledFrom(t, Results(t), 1)
  BY ResultsFilled
<1>2. Results(t)[i] = Row(t, Results(t), i)
  BY <1>1 DEF FilledFrom
<1>3. PlacedAfter(t, Results(t), 0)
  <2>1. 1 \in 1..(Len(t) + 2) /\ 0 \in (1 - 1)..(Len(t) + 1)
    OBVIOUS
  <2> QED BY <1>1, <2>1, FilledIsPlaced
<1>4. i \in (0 + 1)..(Len(t) + 1)
  OBVIOUS
<1>5. Placed(t, Results(t)[i][goal], i, goal)
  BY <1>3, <1>4, PlacedAt
<1>6. Results(t)[i][goal] = ResultAt(t, Results(t), i, goal)
  BY <1>2 DEF Row
<1> QED BY <1>5, <1>6

-----------------------------------------------------------------------------
(* The table of phrases exists: filled in by the length of the stretch.    *)

PhraseNames == Goals \ {"operands"}
Places(t) == 1..(Len(t) + 1)
Named(t, d, i, j) == {what \in PhraseNames : IsPhrase(t, d, i, j, what)}
Tabled(t, d) == [i \in Places(t) |-> [j \in Places(t) |-> Named(t, d, i, j)]]

(* d has the phrases of all stretches shorter than len *)
FilledBelow(t, d, len) ==
  \A i, j \in Places(t) : j - i < len => d[i][j] = Named(t, d, i, j)

(* d and e have the same phrases for the stretches shorter than len *)
AgreeBelow(t, d, e, len) ==
  \A i, j \in Places(t) : j - i < len => d[i][j] = e[i][j]

LEMMA PrimaryIsLocal ==
  ASSUME NEW t \in Seq(Kinds), NEW d, NEW e, NEW i \in Places(t), NEW j \in Places(t),
         AgreeBelow(t, d, e, j - i)
  PROVE  IsPrimary(t, d, i, j) => IsPrimary(t, e, i, j)
<1>0. \A a, b \in Places(t) : b - a < j - i => d[a][b] = e[a][b]
  BY DEF AgreeBelow
<1>1. IsTelemetry(t, d, i, j) => IsTelemetry(t, e, i, j)
  <2>1. SUFFICES ASSUME IsTelemetry(t, d, i, j) PROVE IsTelemetry(t, e, i, j)
    OBVIOUS
  <2>2. j > i + 2 /\ t[i] = "type" /\ t[i + 1] = "{"
    BY <2>1 DEF IsTelemetry
  <2>3. PICK k \in (i + 2)..(j - 1) :
          t[k] = "}" /\ "selectors" \in d[i + 2][k] /\ IsRange(t, k + 1, j)
    BY <2>1 DEF IsTelemetry
  <2>4. d[i + 2][k] = e[i + 2][k]
    <3>0. j > i + 2
      BY <2>2
    <3>1. i + 2 \in Places(t) /\ k \in Places(t) /\ k - (i + 2) < j - i
      BY <3>0 DEF Places
    <3> QED BY <1>0, <3>1
  <2> QED BY <2>2, <2>3, <2>4 DEF IsTelemetry
<1>2. IsCall(t, d, i, j) => IsCall(t, e, i, j)
  <2>1. SUFFICES ASSUME IsCall(t, d, i, j) PROVE IsCall(t, e, i, j)
    OBVIOUS
  <2>2. j > i + 2 /\ t[i] = "ident" /\ t[i + 1] = "("
    BY <2>1 DEF IsCall
  <2>3. PICK k \in (i + 2)..(j - 1) :
          /\ t[k] = ")" /\ "args" \in d[i + 2][k]
          /\ \/ k + 1 = j
             \/ /\ k > i + 2
                /\ j > k + 3
                /\ t[k + 1] = "by" /\ t[k + 2] = "(" /\ t[j - 1] = ")"
                /\ "labels" \in d[k + 3][j - 1]
    BY <2>1 DEF IsCall
  <2>4. d[i + 2][k] = e[i + 2][k]
    <3>1. i + 2 \in Places(t) /\ k \in Places(t) /\ k - (i + 2) < j - i
      BY <2>2 DEF Places
    <3> QED BY <1>0, <3>1
  <2>5. j > k + 3 => d[k + 3][j - 1] = e[k + 3][j - 1]
    <3>1. ASSUME j > k + 3
          PROVE  k + 3 \in Places(t) /\ j - 1 \in Places(t) /\ (j - 1) - (k + 3) < j - i
      BY <2>2, <3>1 DEF Places
    <3> QED BY <1>0, <3>1
  <2> QED BY <2>2, <2>3, <2>4, <2>5 DEF IsCall
<1>3. IsParenthesized(t, d, i, j) => IsParenthesized(t, e, i, j)
  <2>1. SUFFICES ASSUME IsParenthesized(t, d, i, j) PROVE IsParenthesized(t, e, i, j)
    OBVIOUS
  <2>2. j > i + 2 /\ t[i] = "(" /\ t[j - 1] = ")" /\ "query" \in d[i + 1][j - 1]
    BY <2>1 DEF IsParenthesized
  <2>3. i + 1 \in Places(t) /\ j - 1 \in Places(t) /\ (j - 1) - (i + 1) < j - i
    BY <2>2 DEF Places
  <2>4. d[i + 1][j - 1] = e[i + 1][j - 1]
    BY <1>0, <2>3
  <2> QED BY <2>2, <2>4 DEF IsParenthesized
<1> QED BY <1>1, <1>2, <1>3 DEF IsPrimary

LEMMA OperationIsLocal ==
  ASSUME NEW t \in Seq(Kinds), NEW d, NEW e, NEW i \in Places(t), NEW j \in Places(t),
         AgreeBelow(t, d, e, j - i)
  PROVE  IsOperation(t, d, i, j) => IsOperation(t, e, i, j)
<1>1. ASSUME NEW k \in i..(j - 1) PROVE d[i][k] = e[i][k] /\ d[k + 1][j] = e[k + 1][j]
  <2>1. k \in Places(t) /\ k + 1 \in Places(t) /\ k - i < j - i /\ j - (k + 1) < j - i
    BY DEF Places
  <2> QED BY <2>1 DEF AgreeBelow
<1> QED BY <1>1, PrimaryIsLocal DEF IsOperation

LEMMA ListIsLocal ==
  ASSUME NEW t \in Seq(Kinds), NEW d, NEW e, NEW i \in Places(t), NEW j \in Places(t),
         NEW what \in Lists,
         AgreeBelow(t, d, e, j - i)
  PROVE  IsList(t, d, i, j, what) => IsList(t, e, i, j, what)
<1>1. ASSUME NEW k \in Places(t), k <= j, IsElement(t, d, i, k, what)
      PROVE  IsElement(t, e, i, k, what)
  <2>1. AgreeBelow(t, d, e, k - i)
    <3>1. ASSUME NEW a \in Places(t), NEW b \in Places(t), b - a < k - i
          PROVE  b - a < j - i
      BY <1>1, <3>1 DEF Places
    <3> QED BY <3>1 DEF AgreeBelow
  <2>2. IsOperation(t, d, i, k) => IsOperation(t, e, i, k)
    BY <2>1, OperationIsLocal
  <2>3. CASE what = "selectors"
    BY <1>1, <2>3 DEF IsElement
  <2>4. CASE what = "labels"
    BY <1>1, <2>4 DEF IsElement
  <2>5. CASE what = "args"
    BY <1>1, <2>2, <2>5 DEF IsElement
  <2> QED BY <2>3, <2>4, <2>5 DEF Lists
<1>2. ASSUME NEW k \in i..(j - 1) PROVE k \in Places(t) /\ k <= j /\ d[k + 1][j] = e[k + 1][j]
  <2>1. k \in Places(t) /\ k + 1 \in Places(t) /\ j - (k + 1) < j - i
    BY DEF Places
  <2> QED BY <2>1 DEF AgreeBelow
<1>3. j <= j
  BY DEF Places
<1> SUFFICES ASSUME IsList(t, d, i, j, what) PROVE IsList(t, e, i, j, what)
  OBVIOUS
<1>4. CASE i = j
  BY <1>4 DEF IsList
<1>5. CASE IsElement(t, d, i, j, what)
  BY <1>1, <1>3, <1>5 DEF IsList
<1>6. CASE \E k \in i..(j - 1) : t[k] = "," /\ IsElement(t, d, i, k, what) /\ what \in d[k + 1][j]
  <2>1. PICK k \in i..(j - 1) : t[k] = "," /\ IsElement(t, d, i, k, what) /\ what \in d[k + 1][j]
    BY <1>6
  <2>2. IsElement(t, e, i, k, what) /\ what \in e[k + 1][j]
    BY <1>1, <1>2, <2>1
  <2> QED BY <2>1, <2>2 DEF IsList
<1> QED BY <1>4, <1>5, <1>6 DEF IsList

LEMMA PhraseIs ==
  ASSUME NEW t, NEW d, NEW i, NEW j
  PROVE  /\ IsPhrase(t, d, i, j, "primary") <=> IsPrimary(t, d, i, j)
         /\ IsPhrase(t, d, i, j, "query") <=> IsOperation(t, d, i, j)
         /\ \A what \in Lists : IsPhrase(t, d, i, j, what) <=> IsList(t, d, i, j, what)
BY GoalNames DEF IsPhrase

LEMMA NamedIsLocal ==
  ASSUME NEW t \in Seq(Kinds), NEW d, NEW e, NEW i \in Places(t), NEW j \in Places(t),
         AgreeBelow(t, d, e, j - i)
  PROVE  Named(t, d, i, j) = Named(t, e, i, j)
<1>1. AgreeBelow(t, e, d, j - i)
  BY DEF AgreeBelow
<1>2. ASSUME NEW what \in PhraseNames
      PROVE  IsPhrase(t, d, i, j, what) <=> IsPhrase(t, e, i, j, what)
  <2>1. CASE what = "primary"
    BY <1>1, <2>1, PhraseIs, PrimaryIsLocal
  <2>2. CASE what = "query"
    BY <1>1, <2>2, PhraseIs, OperationIsLocal
  <2>3. CASE what \in Lists
    BY <1>1, <2>3, PhraseIs, ListIsLocal
  <2> QED BY <2>1, <2>2, <2>3 DEF PhraseNames, Goals
<1> QED BY <1>2 DEF Named

LEMMA FillLonger ==
  ASSUME NEW t \in Seq(Kinds), NEW len \in Int, NEW d, FilledBelow(t, d, len)
  PROVE  FilledBelow(t, Tabled(t, d), len + 1)
<1> DEFINE e == Tabled(t, d)
<1>1. \A i, j \in Places(t) : e[i][j] = Named(t, d, i, j)
  BY DEF Tabled
<1> HIDE DEF e
<1>2. \A i, j \in Places(t) : j - i < len => d[i][j] = e[i][j]
  BY <1>1 DEF FilledBelow
<1>3. ASSUME NEW i \in Places(t), NEW j \in Places(t), j - i < len + 1
      PROVE  e[i][j] = Named(t, e, i, j)
  <2>1. ASSUME NEW a \in Places(t), NEW b \in Places(t), b - a < j - i
        PROVE  b - a < len
    BY <1>3, <2>1 DEF Places
  <2>2. AgreeBelow(t, d, e, j - i)
    BY <1>2, <2>1 DEF AgreeBelow
  <2> QED BY <1>1, <2>2, NamedIsLocal
<1> QED BY <1>3 DEF FilledBelow, e

LEMMA PhrasesExist ==
  ASSUME NEW t \in Seq(Kinds)
  PROVE  \E d : d = Tabled(t, d)
<1> DEFINE n == Len(t) + 1
           Bad == {k \in Nat : ~ \E d : FilledBelow(t, d, k - n)}
<1>1. Bad = {}
  <2>1. SUFFICES ASSUME Bad # {} PROVE FALSE
    OBVIOUS
  <2>2. Bad \in SUBSET Nat
    OBVIOUS
  <2> HIDE DEF Bad
  <2>3. PICK x \in Bad : \A y \in Bad : x <= y
    BY <2>1, <2>2, Least
  <2>4. x \in Nat /\ ~ \E d : FilledBelow(t, d, x - n)
    BY <2>3 DEF Bad
  <2>5. CASE x = 0
    <3>1. ASSUME NEW i \in Places(t), NEW j \in Places(t) PROVE ~(j - i < x - n)
      BY <2>5 DEF Places
    <3>2. FilledBelow(t, 0, x - n)
      BY <3>1 DEF FilledBelow
    <3> QED BY <2>4, <3>2
  <2>6. CASE x # 0
    <3>1. x - 1 \in Nat /\ ~(x <= x - 1)
      BY <2>4, <2>6
    <3>2. PICK d : FilledBelow(t, d, (x - 1) - n)
      BY <2>3, <3>1 DEF Bad
    <3>3. (x - 1) - n \in Int /\ ((x - 1) - n) + 1 = x - n
      BY <2>4
    <3>4. FilledBelow(t, Tabled(t, d), ((x - 1) - n) + 1)
      BY <3>2, <3>3, FillLonger
    <3> QED BY <2>4, <3>3, <3>4
  <2> QED BY <2>5, <2>6
<1>2. n + n \in Nat
  OBVIOUS
<1>3. PICK c : FilledBelow(t, c, (n + n) - n)
  BY <1>1, <1>2
<1> DEFINE d == Tabled(t, c)
<1>4. ASSUME NEW i \in Places(t), NEW j \in Places(t) PROVE c[i][j] = Named(t, c, i, j)
  <2>1. j - i < (n + n) - n
    BY DEF Places
  <2> QED BY <1>3, <2>1 DEF FilledBelow
<1>5. \A i, j \in Places(t) : d[i][j] = Named(t, c, i, j)
  BY DEF Tabled
<1> HIDE DEF d
<1>6. ASSUME NEW i \in Places(t), NEW j \in Places(t) PROVE Named(t, c, i, j) = Named(t, d, i, j)
  <2>1. AgreeBelow(t, c, d, j - i)
    BY <1>4, <1>5 DEF AgreeBelow
  <2> QED BY <2>1, NamedIsLocal
<1>7. Tabled(t, c) = Tabled(t, d)
  BY <1>6 DEF Tabled
<1>8. d = Tabled(t, d)
  BY <1>7 DEF d
<1> QED BY <1>8

(* what the rest of the proof uses of the phrases *)
LEMMA PhrasesFacts ==
  ASSUME NEW t \in Seq(Kinds), NEW i \in Places(t), NEW j \in Places(t), NEW what \in PhraseNames
  PROVE  what \in Phrases(t)[i][j] <=> IsPhrase(t, Phrases(t), i, j, what)
<1> DEFINE F(d) == [a \in 1..(Len(t) + 1) |-> [b \in 1..(Len(t) + 1) |->
                     {w \in Goals \ {"operands"} : IsPhrase(t, d, a, b, w)}]]
<1>1. \E d : d = F(d)
  BY PhrasesExist DEF Tabled, Named, Places, PhraseNames
<1>2. Phrases(t) = CHOOSE d : d = F(d)
  BY DEF Phrases
<1> HIDE DEF F
<1>3. Phrases(t) = F(Phrases(t))
  BY <1>1, <1>2
<1> DEFINE d == Phrases(t)
<1>4. d = F(d)
  BY <1>3
<1> HIDE DEF d
<1>5. d = Tabled(t, d)
  BY <1>4 DEF F, Tabled, Named, Places, PhraseNames
<1>6. Tabled(t, d)[i][j] = Named(t, d, i, j)
  BY DEF Tabled
<1>7. d[i][j] = Named(t, d, i, j)
  BY <1>5, <1>6
<1>8. what \in d[i][j] <=> IsPhrase(t, d, i, j, what)
  BY <1>7 DEF Named
<1> QED BY <1>8 DEF d

-----------------------------------------------------------------------------
(* Whatever parses is a phrase of the language.                            *)

SoundPhrase(t, r, i, what) == r.st = "ok" => what \in Phrases(t)[i][r.at]

(* the elements, and the closer after them *)
SoundList(t, r, i, what) ==
  r.st = "ok" => /\ Closes(t, r.at - 1, what)
                 /\ what \in Phrases(t)[i][r.at - 1]
                 /\ r.tree # <<>> => r.at - 1 > i

(* operators with their operands make a longer query of a query *)
SoundOperands(t, r, i) ==
  r.st = "ok" => \A h \in 1..i : "query" \in Phrases(t)[h][i] => "query" \in Phrases(t)[h][r.at]

SoundRow(t, row, i) ==
  /\ SoundPhrase(t, row["primary"], i, "primary")
  /\ SoundPhrase(t, row["query"], i, "query")
  /\ SoundOperands(t, row["operands"], i)
  /\ \A what \in Lists : SoundList(t, row[what], i, what)

SoundAfter(t, f, i) == \A j \in (i + 1)..(Len(t) + 1) : SoundRow(t, f[j], j)

LEMMA PhraseNamesFacts ==
  /\ "primary" \in PhraseNames /\ "query" \in PhraseNames
  /\ \A what \in Lists : what \in PhraseNames
  /\ "selectors" \in Lists /\ "args" \in Lists /\ "labels" \in Lists
BY DEF PhraseNames, Goals, Lists

LEMMA ClosesWith ==
  ASSUME NEW t, NEW k
  PROVE  /\ Closes(t, k, "selectors") <=> Peek(t, k) = "}"
         /\ Closes(t, k, "args") <=> Peek(t, k) = ")"
         /\ Closes(t, k, "labels") <=> Peek(t, k) = ")"
BY DEF Closes

LEMMA TelemetrySound ==
  ASSUME NEW t \in Seq(Kinds), NEW i \in 1..(Len(t) + 1), NEW f,
         PlacedAfter(t, f, i), SoundAfter(t, f, i),
         Peek(t, i) = "type", ParseTelemetryQuery(t, f, i).st = "ok"
  PROVE  IsTelemetry(t, Phrases(t), i, ParseTelemetryQuery(t, f, i).at)
<1> DEFINE s == f[i + 2]["selectors"]
           r == ParseTelemetryQuery(t, f, i)
<1>1. Peek(t, i + 1) = "{" /\ s.st = "ok" /\ r = ParseRange(t, s.at, s.tree)
  <2>1. Peek(t, i + 1) = "{"
    BY FailFacts DEF ParseTelemetryQuery
  <2>2. s.st = "ok"
    BY <2>1 DEF ParseTelemetryQuery
  <2> QED BY <2>1, <2>2 DEF ParseTelemetryQuery
<1>2. i + 1 \in 1..Len(t)
  BY <1>1, PeekFacts
<1>3. i + 2 \in (i + 1)..(Len(t) + 1)
  BY <1>2
<1>4. Placed(t, s, i + 2, "selectors") /\ SoundList(t, s, i + 2, "selectors")
  BY <1>3, GoalNames, PhraseNamesFacts, PlacedAt DEF SoundAfter, SoundRow
<1>5. r.st = "ok"
  OBVIOUS
<1> HIDE DEF s, r
<1>6. s.at \in (i + 3)..(Len(t) + 1)
  <2>1. s.at \in (i + 2)..(Len(t) + 1) /\ s.at # i + 2
    BY <1>1, <1>4, GoalNames DEF Placed
  <2> QED BY <2>1
<1>7. Closes(t, s.at - 1, "selectors") /\ "selectors" \in Phrases(t)[i + 2][s.at - 1]
  BY <1>1, <1>4 DEF SoundList
<1> DEFINE k == s.at - 1
<1>8. k \in (i + 2)..Len(t) /\ s.at = k + 1 /\ k \in 1..Len(t)
  BY <1>6
<1>9. t[k] = "}"
  BY <1>7, <1>8, ClosesWith, PeekIs
<1>10. r.at \in s.at..(Len(t) + 1) /\ IsRange(t, k + 1, r.at)
  <2>1. s.at \in 1..(Len(t) + 1)
    BY <1>6
  <2>2. r.at \in s.at..(Len(t) + 1) /\ IsRange(t, s.at, r.at)
    BY <1>1, <1>5, <2>1, RangeFacts
  <2> QED BY <1>8, <2>2
<1>11. t[i] = "type" /\ t[i + 1] = "{"
  BY <1>1, <1>2, PeekFacts DEF Peek
<1> HIDE DEF k
<1>12. r.at > i + 2 /\ k \in (i + 2)..(r.at - 1)
  BY <1>8, <1>10
<1>13. "selectors" \in Phrases(t)[i + 2][k]
  BY <1>7 DEF k
<1> QED BY <1>9, <1>10, <1>11, <1>12, <1>13 DEF IsTelemetry, r

LEMMA CallSound ==
  ASSUME NEW t \in Seq(Kinds), NEW i \in 1..(Len(t) + 1), NEW f,
         PlacedAfter(t, f, i), SoundAfter(t, f, i),
         Peek(t, i) = "ident", ParseFunctionCall(t, f, i).st = "ok"
  PROVE  IsCall(t, Phrases(t), i, ParseFunctionCall(t, f, i).at)
<1> DEFINE args == f[i + 2]["args"]
           r == ParseFunctionCall(t, f, i)
<1>1. Peek(t, i + 1) = "(" /\ args.st = "ok" /\ r = ParseBy(t, f, i, args)
  <2>1. Peek(t, i + 1) = "("
    BY FailFacts DEF ParseFunctionCall
  <2>2. args.st = "ok"
    BY <2>1 DEF ParseFunctionCall
  <2> QED BY <2>1, <2>2 DEF ParseFunctionCall
<1>2. i + 1 \in 1..Len(t)
  BY <1>1, PeekFacts
<1>3. i + 2 \in (i + 1)..(Len(t) + 1)
  BY <1>2
<1>4. Placed(t, args, i + 2, "args") /\ SoundList(t, args, i + 2, "args")
  BY <1>3, GoalNames, PhraseNamesFacts, PlacedAt DEF SoundAfter, SoundRow
<1>5. r.st = "ok"
  OBVIOUS
<1> HIDE DEF args, r
<1>6. args.at \in (i + 3)..(Len(t) + 1)
  <2>1. args.at \in (i + 2)..(Len(t) + 1) /\ args.at # i + 2
    BY <1>1, <1>4, GoalNames DEF Placed
  <2> QED BY <2>1
<1>7. Closes(t, args.at - 1, "args") /\ "args" \in Phrases(t)[i + 2][args.at - 1]
      /\ (args.tree # <<>> => args.at - 1 > i + 2)
  BY <1>1, <1>4 DEF SoundList
<1> DEFINE k == args.at - 1
<1>8. k \in (i + 2)..Len(t) /\ args.at = k + 1 /\ k \in 1..Len(t)
  BY <1>6
<1>9. t[k] = ")"
  BY <1>7, <1>8, ClosesWith, PeekIs
<1>10. t[i] = "ident" /\ t[i + 1] = "("
  BY <1>1, <1>2, PeekFacts DEF Peek
<1>11. "args" \in Phrases(t)[i + 2][k] /\ (args.tree # <<>> => k > i + 2)
  BY <1>7
<1> HIDE DEF k
<1>12. CASE Peek(t, args.at) # "by"
  <2>1. r.at = args.at
    BY <1>1, <1>12, DoneFacts DEF ParseBy
  <2>2. r.at > i + 2 /\ k \in (i + 2)..(r.at - 1) /\ k + 1 = r.at
    BY <1>8, <2>1
  <2> QED BY <1>9, <1>10, <1>11, <2>2 DEF IsCall, r
<1>13. CASE Peek(t, args.at) = "by"
  <2> DEFINE labels == f[args.at + 2]["labels"]
  <2>1. Peek(t, args.at + 1) = "(" /\ labels.st = "ok" /\ args.tree # <<>> /\ r.at = labels.at
    <3>1. Peek(t, args.at + 1) = "("
      BY <1>1, <1>5, <1>13, FailFacts DEF ParseBy
    <3>2. labels.st = "ok"
      BY <1>1, <1>5, <1>13, <3>1 DEF ParseBy
    <3>3. args.tree # <<>>
      BY <1>1, <1>5, <1>13, <3>1, <3>2, FailFacts DEF ParseBy
    <3> QED BY <1>1, <1>13, <3>1, <3>2, <3>3, DoneFacts DEF ParseBy
  <2>2. args.at + 1 \in 1..Len(t)
    BY <2>1, PeekFacts
  <2>3. args.at + 2 \in (i + 1)..(Len(t) + 1)
    BY <1>6, <2>2
  <2>4. Placed(t, labels, args.at + 2, "labels") /\ SoundList(t, labels, args.at + 2, "labels")
    BY <2>3, GoalNames, PhraseNamesFacts, PlacedAt DEF SoundAfter, SoundRow
  <2> HIDE DEF labels
  <2>5. labels.at \in (args.at + 3)..(Len(t) + 1)
    <3>1. labels.at \in (args.at + 2)..(Len(t) + 1) /\ labels.at # args.at + 2
      BY <2>1, <2>4, GoalNames DEF Placed
    <3> QED BY <1>6, <3>1
  <2>6. Closes(t, r.at - 1, "labels") /\ "labels" \in Phrases(t)[args.at + 2][r.at - 1]
    BY <2>1, <2>4 DEF SoundList
  <2>7. args.at + 2 = k + 3 /\ args.at = k + 1 /\ args.at + 1 = k + 2
    BY <1>8
  <2>8. r.at \in (k + 4)..(Len(t) + 1)
    BY <1>8, <2>1, <2>5
  <2>9. r.at - 1 \in 1..Len(t) /\ r.at > k + 3 /\ r.at > i + 2 /\ k \in (i + 2)..(r.at - 1)
    BY <1>8, <2>8
  <2>10. t[r.at - 1] = ")"
    <3>1. Peek(t, r.at - 1) = ")"
      BY <2>6, ClosesWith
    <3> QED BY <2>9, <3>1, PeekIs
  <2>11. t[k + 1] = "by" /\ t[k + 2] = "("
    <3>1. k + 1 \in 1..Len(t) /\ k + 2 \in 1..Len(t)
      BY <1>8, <2>2
    <3>2. Peek(t, k + 1) = "by" /\ Peek(t, k + 2) = "("
      BY <1>13, <2>1, <2>7
    <3> QED BY <3>1, <3>2, PeekIs
  <2>12. "labels" \in Phrases(t)[k + 3][r.at - 1]
    BY <2>6, <2>7
  <2> QED BY <1>9, <1>10, <1>11, <2>1, <2>9, <2>10, <2>11, <2>12 DEF IsCall, r
<1> QED BY <1>12, <1>13

LEMMA PhraseReads ==
  ASSUME NEW t \in Seq(Kinds), NEW i \in 1..(Len(t) + 1), NEW j, j \in 1..(Len(t) + 1)
  PROVE  /\ "primary" \in Phrases(t)[i][j] <=> IsPrimary(t, Phrases(t), i, j)
         /\ "query" \in Phrases(t)[i][j] <=> IsOperation(t, Phrases(t), i, j)
         /\ \A what \in Lists : what \in Phrases(t)[i][j] <=> IsList(t, Phrases(t), i, j, what)
<1>1. i \in Places(t) /\ j \in Places(t)
  BY DEF Places
<1>2. \A what \in PhraseNames : what \in Phrases(t)[i][j] <=> IsPhrase(t, Phrases(t), i, j, what)
  BY <1>1, PhrasesFacts
<1>3. "primary" \in Phrases(t)[i][j] <=> IsPrimary(t, Phrases(t), i, j)
  BY <1>2, PhraseIs, PhraseNamesFacts
<1>4. "query" \in Phrases(t)[i][j] <=> IsOperation(t, Phrases(t), i, j)
  BY <1>2, PhraseIs, PhraseNamesFacts
<1>5. ASSUME NEW what \in Lists
      PROVE  what \in Phrases(t)[i][j] <=> IsList(t, Phrases(t), i, j, what)
  BY <1>2, PhraseIs, PhraseNamesFacts
<1> QED BY <1>3, <1>4, <1>5

LEMMA ParenthesizedSound ==
  ASSUME NEW t \in Seq(Kinds), NEW i \in 1..Len(t), NEW f,
         PlacedAfter(t, f, i), SoundAfter(t, f, i),
         Peek(t, i) = "(", ParseParenthesized(t, f, i).st = "ok"
  PROVE  IsParenthesized(t, Phrases(t), i, ParseParenthesized(t, f, i).at)
<1> DEFINE q == f[i + 1]["query"]
           r == ParseParenthesized(t, f, i)
<1>1. i + 1 \in (i + 1)..(Len(t) + 1)
  OBVIOUS
<1>2. Placed(t, q, i + 1, "query") /\ SoundPhrase(t, q, i + 1, "query")
  BY <1>1, GoalNames, PlacedAt DEF SoundAfter, SoundRow
<1>3. q.st = "ok" /\ Peek(t, q.at) = ")" /\ r.at = q.at + 1
  <2>1. q.st = "ok"
    BY DEF ParseParenthesized
  <2>2. Peek(t, q.at) = ")"
    BY <2>1, FailFacts DEF ParseParenthesized
  <2> QED BY <2>1, <2>2, DoneFacts DEF ParseParenthesized
<1> HIDE DEF q, r
<1>4. q.at \in 1..Len(t)
  BY <1>3, PeekFacts
<1>5. q.at \in (i + 1)..(Len(t) + 1) /\ q.at # i + 1
  BY <1>2, <1>3, GoalNames DEF Placed
<1>6. t[q.at] = ")" /\ t[i] = "("
  BY <1>3, <1>4, PeekIs
<1>7. r.at > i + 2 /\ r.at - 1 = q.at
  BY <1>3, <1>4, <1>5
<1>8. "query" \in Phrases(t)[i + 1][q.at]
  BY <1>2, <1>3 DEF SoundPhrase
<1> QED BY <1>6, <1>7, <1>8 DEF IsParenthesized, r

LEMMA PrimarySound ==
  ASSUME NEW t \in Seq(Kinds), NEW i \in 1..(Len(t) + 1), NEW f,
         PlacedAfter(t, f, i), SoundAfter(t, f, i)
  PROVE  SoundPhrase(t, ParsePrimary(t, f, i), i, "primary")
<1> DEFINE r == ParsePrimary(t, f, i)
<1> SUFFICES ASSUME r.st = "ok" PROVE "primary" \in Phrases(t)[i][r.at]
  BY DEF SoundPhrase
<1>1. Placed(t, r, i, "primary")
  <2>1. AgreeAfter(t, f, f, i)
    BY DEF AgreeAfter
  <2> QED BY <2>1, PrimaryStep
<1>2. r.at \in 1..(Len(t) + 1)
  BY <1>1 DEF Placed
<1>3. IsPrimary(t, Phrases(t), i, r.at)
  <2>1. CASE Peek(t, i) = "type"
    <3>1. r = ParseTelemetryQuery(t, f, i)
      BY <2>1 DEF ParsePrimary
    <3>2. IsTelemetry(t, Phrases(t), i, r.at)
      BY <2>1, <3>1, TelemetrySound
    <3> QED BY <3>2 DEF IsPrimary
  <2>2. CASE Peek(t, i) = "ident"
    <3>1. r = ParseFunctionCall(t, f, i)
      BY <2>2 DEF ParsePrimary
    <3>2. IsCall(t, Phrases(t), i, r.at)
      BY <2>2, <3>1, CallSound
    <3> QED BY <3>2 DEF IsPrimary
  <2>3. CASE Peek(t, i) = "("
    <3>1. r = ParseParenthesized(t, f, i)
      BY <2>3 DEF ParsePrimary
    <3>2. i \in 1..Len(t)
      BY <2>3, PeekFacts
    <3>3. IsParenthesized(t, Phrases(t), i, r.at)
      BY <2>3, <3>1, <3>2, ParenthesizedSound
    <3> QED BY <3>3 DEF IsPrimary
  <2>4. CASE Peek(t, i) \notin {"type", "ident", "("}
    <3>1. r = Fail(i)
      BY <2>4 DEF ParsePrimary
    <3> QED BY <3>1, FailFacts
  <2> QED BY <2>1, <2>2, <2>3, <2>4
<1> QED BY <1>2, <1>3, PhraseReads

LEMMA OperandsSound ==
  ASSUME NEW t \in Seq(Kinds), NEW i \in 1..(Len(t) + 1), NEW f,
         PlacedAfter(t, f, i), SoundAfter(t, f, i)
  PROVE  SoundOperands(t, ParseOperands(t, f, i), i)
<1> DEFINE right == f[i + 1]["primary"]
           more == f[right.at]["operands"]
           r == ParseOperands(t, f, i)
<1> SUFFICES ASSUME r.st = "ok", NEW h \in 1..i, "query" \in Phrases(t)[h][i]
             PROVE  "query" \in Phrases(t)[h][r.at]
  BY DEF SoundOperands
<1>1. CASE Peek(t, i) # "op"
  <2>1. r.at = i
    BY <1>1, DoneFacts DEF ParseOperands
  <2> QED BY <2>1
<1>2. CASE Peek(t, i) = "op"
  <2>1. i \in 1..Len(t)
    BY <1>2, PeekFacts
  <2>2. i + 1 \in (i + 1)..(Len(t) + 1)
    BY <2>1
  <2>3. Placed(t, right, i + 1, "primary") /\ SoundPhrase(t, right, i + 1, "primary")
    BY <2>2, GoalNames, PlacedAt DEF SoundAfter, SoundRow
  <2>4. right.st = "ok"
    BY <1>2 DEF ParseOperands
  <2>5. r = Before([at |-> i, tree |-> right.tree], more)
    BY <1>2, <2>4 DEF ParseOperands
  <2>6. right.at \in (i + 1)..(Len(t) + 1)
    BY <2>3, <2>4 DEF Placed
  <2>7. SoundOperands(t, more, right.at)
    BY <2>6 DEF SoundAfter, SoundRow
  <2>8. more.st = "ok" /\ r.at = more.at
    BY <2>5, BeforeFacts
  <2> HIDE DEF right, more, r
  <2>9. "query" \in Phrases(t)[h][right.at]
    <3>1. t[i] = "op"
      BY <1>2, <2>1, PeekIs
    <3>2. "primary" \in Phrases(t)[i + 1][right.at]
      BY <2>3, <2>4 DEF SoundPhrase
    <3>3. i \in h..(right.at - 1) /\ h \in 1..(Len(t) + 1)
      BY <2>6
    <3>4. IsOperation(t, Phrases(t), h, right.at)
      BY <3>1, <3>2, <3>3 DEF IsOperation
    <3>5. right.at \in 1..(Len(t) + 1)
      BY <2>6
    <3> QED BY <3>3, <3>4, <3>5, PhraseReads
  <2>10. h \in 1..right.at
    BY <2>6
  <2>11. "query" \in Phrases(t)[h][more.at]
    BY <2>7, <2>8, <2>9, <2>10 DEF SoundOperands
  <2> QED BY <2>8, <2>11 DEF r
<1> QED BY <1>1, <1>2

LEMMA QuerySound ==
  ASSUME NEW t \in Seq(Kinds), NEW i \in 1..(Len(t) + 1), NEW f,
         PlacedAfter(t, f, i), SoundAfter(t, f, i)
  PROVE  SoundPhrase(t, ParseQuery(t, f, i), i, "query")
<1> DEFINE first == ParsePrimary(t, f, i)
           more == f[first.at]["operands"]
           r == ParseQuery(t, f, i)
<1> SUFFICES ASSUME r.st = "ok" PROVE "query" \in Phrases(t)[i][r.at]
  BY DEF SoundPhrase
<1>1. first.st = "ok"
  BY DEF ParseQuery
<1>2. more.st = "ok"
  BY <1>1 DEF ParseQuery
<1>3. r.at = more.at
  BY <1>1, <1>2, DoneFacts DEF ParseQuery
<1>4. Placed(t, first, i, "primary") /\ SoundPhrase(t, first, i, "primary")
  <2>1. AgreeAfter(t, f, f, i)
    BY DEF AgreeAfter
  <2> QED BY <2>1, PrimaryStep, PrimarySound
<1> HIDE DEF first
<1>5. first.at \in (i + 1)..(Len(t) + 1)
  BY <1>1, <1>4 DEF Placed
<1>6. "query" \in Phrases(t)[i][first.at]
  <2>1. "primary" \in Phrases(t)[i][first.at]
    BY <1>1, <1>4 DEF SoundPhrase
  <2>2. first.at \in 1..(Len(t) + 1)
    BY <1>5
  <2>3. IsOperation(t, Phrases(t), i, first.at)
    BY <2>1, <2>2, PhraseReads DEF IsOperation
  <2> QED BY <2>2, <2>3, PhraseReads
<1>7. SoundOperands(t, more, first.at) /\ i \in 1..first.at
  BY <1>5 DEF SoundAfter, SoundRow
<1> HIDE DEF more, r
<1>8. "query" \in Phrases(t)[i][more.at]
  BY <1>2, <1>6, <1>7 DEF SoundOperands
<1> QED BY <1>3, <1>8 DEF r

LEMMA ElementSound ==
  ASSUME NEW t \in Seq(Kinds), NEW i \in 1..(Len(t) + 1), NEW f, NEW what \in Lists,
         PlacedAfter(t, f, i), SoundAfter(t, f, i), ParseElement(t, f, i, what).st = "ok"
  PROVE  /\ ParseElement(t, f, i, what).at \in (i + 1)..(Len(t) + 1)
         /\ IsElement(t, Phrases(t), i, ParseElement(t, f, i, what).at, what)
<1> DEFINE e == ParseElement(t, f, i, what)
<1>1. e.at \in (i + 1)..(Len(t) + 1)
  <2>1. AgreeAfter(t, f, f, i)
    BY DEF AgreeAfter
  <2> QED BY <2>1, ElementStep
<1>2. CASE what = "selectors"
  <2>1. e = ParseSelector(t, i)
    BY <1>2 DEF ParseElement
  <2>2. IsSelector(t, i, e.at)
    BY <2>1, SelectorFacts
  <2> QED BY <1>1, <1>2, <2>2 DEF IsElement
<1>3. CASE what = "labels"
  <2>1. e = ParseLabel(t, i)
    BY <1>3 DEF ParseElement
  <2>2. IsLabel(t, i, e.at)
    BY <2>1, LabelFacts
  <2> QED BY <1>1, <1>3, <2>2 DEF IsElement
<1>4. CASE what = "args"
  <2>1. e = ParseQuery(t, f, i)
    BY <1>4 DEF ParseElement
  <2>2. "query" \in Phrases(t)[i][e.at]
    BY <2>1, QuerySound DEF SoundPhrase
  <2>3. e.at \in 1..(Len(t) + 1)
    BY <1>1
  <2>4. IsOperation(t, Phrases(t), i, e.at)
    BY <2>2, <2>3, PhraseReads
  <2> QED BY <1>1, <1>4, <2>4 DEF IsElement
<1> QED BY <1>2, <1>3, <1>4 DEF Lists

LEMMA ListSound ==
  ASSUME NEW t \in Seq(Kinds), NEW i \in 1..(Len(t) + 1), NEW f, NEW what \in Lists,
         PlacedAfter(t, f, i), SoundAfter(t, f, i)
  PROVE  SoundList(t, ParseList(t, f, i, what), i, what)
<1> DEFINE e == ParseElement(t, f, i, what)
           r == ParseList(t, f, i, what)
<1> SUFFICES ASSUME r.st = "ok"
             PROVE  /\ Closes(t, r.at - 1, what)
                    /\ what \in Phrases(t)[i][r.at - 1]
                    /\ r.tree # <<>> => r.at - 1 > i
  BY DEF SoundList
<1>1. CASE Closes(t, i, what)
  <2>1. r.at = i + 1 /\ r.tree = <<>>
    BY <1>1, DoneFacts DEF ParseList
  <2>2. IsList(t, Phrases(t), i, i, what)
    BY DEF IsList
  <2>3. what \in Phrases(t)[i][i]
    BY <2>2, PhraseReads
  <2>4. r.at - 1 = i
    BY <2>1
  <2> QED BY <1>1, <2>1, <2>3, <2>4
<1>2. CASE ~Closes(t, i, what)
  <2>1. e.st = "ok"
    BY <1>2 DEF ParseList
  <2>2. r = ParseNext(t, f, e, what)
    BY <1>2, <2>1 DEF ParseList
  <2>3. e.at \in (i + 1)..(Len(t) + 1) /\ IsElement(t, Phrases(t), i, e.at, what)
    BY <2>1, ElementSound
  <2> HIDE DEF e, r
  <2>4. CASE Peek(t, e.at) = ","
    <3> DEFINE more == f[e.at + 1][what]
    <3>1. r = Before(e.tree, more)
      BY <2>2, <2>4 DEF ParseNext
    <3>2. more.st = "ok" /\ r.at = more.at
      BY <3>1, BeforeFacts DEF r
    <3>3. e.at \in 1..Len(t)
      BY <2>4, PeekFacts
    <3>4. e.at + 1 \in (i + 1)..(Len(t) + 1)
      BY <2>3, <3>3
    <3>5. Placed(t, more, e.at + 1, what)
      BY <3>4, PlacedAt DEF Goals
    <3>6. SoundList(t, more, e.at + 1, what)
      BY <3>4 DEF SoundAfter, SoundRow
    <3> HIDE DEF more
    <3>7. more.at \in (e.at + 2)..(Len(t) + 1)
      <4>1. more.at \in (e.at + 1)..(Len(t) + 1) /\ more.at # e.at + 1
        BY <3>2, <3>5 DEF Placed, Lists
      <4>2. e.at \in Int
        BY <3>3
      <4> QED BY <4>1, <4>2
    <3>8. Closes(t, r.at - 1, what) /\ what \in Phrases(t)[e.at + 1][r.at - 1]
      BY <3>2, <3>6 DEF SoundList
    <3>9. t[e.at] = ","
      BY <2>4, <3>3, PeekIs
    <3>10. e.at \in i..((r.at - 1) - 1) /\ r.at - 1 \in 1..(Len(t) + 1) /\ r.at - 1 > i
      BY <2>3, <3>2, <3>7
    <3>11. IsList(t, Phrases(t), i, r.at - 1, what)
      BY <2>3, <3>8, <3>9, <3>10 DEF IsList
    <3>12. what \in Phrases(t)[i][r.at - 1]
      BY <3>10, <3>11, PhraseReads
    <3> QED BY <3>8, <3>10, <3>12 DEF r
  <2>5. CASE Peek(t, e.at) # "," /\ Closes(t, e.at, what)
    <3>1. r.at = e.at + 1
      BY <2>2, <2>5, DoneFacts DEF ParseNext
    <3>2. r.at - 1 = e.at /\ e.at > i /\ e.at \in 1..(Len(t) + 1)
      BY <2>3, <3>1
    <3>3. IsList(t, Phrases(t), i, e.at, what)
      BY <2>3 DEF IsList
    <3>4. what \in Phrases(t)[i][e.at]
      BY <3>2, <3>3, PhraseReads
    <3> QED BY <2>5, <3>2, <3>4 DEF r
  <2>6. CASE Peek(t, e.at) # "," /\ ~Closes(t, e.at, what)
    <3>1. r = Fail(e.at)
      BY <2>2, <2>6 DEF ParseNext
    <3> QED BY <3>1, FailFacts DEF r
  <2> QED BY <2>4, <2>5, <2>6
<1> QED BY <1>1, <1>2

LEMMA ResultIs ==
  ASSUME NEW t \in Seq(Kinds), NEW i, i \in 1..(Len(t) + 1)
  PROVE  /\ Results(t)[i]["primary"] = ParsePrimary(t, Results(t), i)
         /\ Results(t)[i]["operands"] = ParseOperands(t, Results(t), i)
         /\ Results(t)[i]["query"] = ParseQuery(t, Results(t), i)
         /\ \A what \in Lists : Results(t)[i][what] = ParseList(t, Results(t), i, what)
<1>1. \A goal \in Goals : Results(t)[i][goal] = ResultAt(t, Results(t), i, goal)
  BY ResultsFacts
<1>2. Results(t)[i]["primary"] = ParsePrimary(t, Results(t), i)
  BY <1>1, GoalNames DEF ResultAt
<1>3. Results(t)[i]["operands"] = ParseOperands(t, Results(t), i)
  BY <1>1, GoalNames DEF ResultAt
<1>4. Results(t)[i]["query"] = ParseQuery(t, Results(t), i)
  BY <1>1, GoalNames DEF ResultAt
<1>5. ASSUME NEW what \in Lists PROVE Results(t)[i][what] = ParseList(t, Results(t), i, what)
  BY <1>1, GoalNames DEF ResultAt, Goals
<1> QED BY <1>2, <1>3, <1>4, <1>5

LEMMA AllPlaced ==
  ASSUME NEW t \in Seq(Kinds), NEW i \in 0..(Len(t) + 1)
  PROVE  PlacedAfter(t, Results(t), i)
<1>1. ASSUME NEW j \in (i + 1)..(Len(t) + 1), NEW goal \in Goals
      PROVE  Placed(t, Results(t)[j][goal], j, goal)
  <2>1. j \in 1..(Len(t) + 1)
    OBVIOUS
  <2> QED BY <2>1, ResultsFacts
<1> QED BY <1>1 DEF PlacedAfter

LEMMA AllSound ==
  ASSUME NEW t \in Seq(Kinds), NEW i \in 1..(Len(t) + 1)
  PROVE  SoundRow(t, Results(t)[i], i)
<1> DEFINE n == Len(t) + 1
           T == {j \in 1..n : ~SoundRow(t, Results(t)[j], j)}
<1>1. SUFFICES ASSUME T # {} PROVE FALSE
  OBVIOUS
<1>2. T \in SUBSET (1..n) /\ n \in Nat
  OBVIOUS
<1> HIDE DEF T
<1>3. PICK x \in T : \A y \in T : y <= x
  BY <1>1, <1>2, Greatest
<1>4. x \in 1..n /\ ~SoundRow(t, Results(t)[x], x)
  BY <1>3 DEF T
<1>5. ASSUME NEW j \in (x + 1)..n PROVE SoundRow(t, Results(t)[j], j)
  <2>1. j \in 1..n /\ ~(j <= x)
    BY <1>4
  <2>2. j \notin T
    BY <1>3, <2>1
  <2> QED BY <2>1, <2>2 DEF T
<1>6. SoundAfter(t, Results(t), x)
  BY <1>5 DEF SoundAfter
<1>7. PlacedAfter(t, Results(t), x)
  <2>1. x \in 0..(Len(t) + 1)
    BY <1>4
  <2> QED BY <2>1, AllPlaced
<1>8. /\ SoundPhrase(t, ParsePrimary(t, Results(t), x), x, "primary")
      /\ SoundPhrase(t, ParseQuery(t, Results(t), x), x, "query")
      /\ SoundOperands(t, ParseOperands(t, Results(t), x), x)
      /\ \A what \in Lists : SoundList(t, ParseList(t, Results(t), x, what), x, what)
  BY <1>4, <1>6, <1>7, PrimarySound, QuerySound, OperandsSound, ListSound
<1>9. SoundRow(t, Results(t)[x], x)
  BY <1>4, <1>8, ResultIs DEF SoundRow
<1> QED BY <1>4, <1>9

-----------------------------------------------------------------------------
(* Every phrase of the language parses, up to where it ends.               *)

EndsAt(r, j) == r.st = "ok" /\ r.at = j

\* a token after a phrase that is not taken for a part of it
Follows(t, j) == Peek(t, j) # "by" /\ Peek(t, j) # "["

CompletePrimary(t, i, j) ==
  "primary" \in Phrases(t)[i][j] /\ Follows(t, j) => EndsAt(Results(t)[i]["primary"], j)

CompleteQuery(t, i, j) ==
  "query" \in Phrases(t)[i][j] /\ Follows(t, j) /\ Results(t)[j]["operands"].st = "ok"
  => EndsAt(Results(t)[i]["query"], Results(t)[j]["operands"].at)

CompleteList(t, i, j, what) ==
  what \in Phrases(t)[i][j] /\ Closes(t, j, what)
  => /\ EndsAt(Results(t)[i][what], j + 1)
     /\ j > i => Results(t)[i][what].tree # <<>>

Complete(t, i, j) ==
  /\ CompletePrimary(t, i, j) /\ CompleteQuery(t, i, j)
  /\ \A what \in Lists : CompleteList(t, i, j, what)

CompleteBelow(t, len) == \A i, j \in 1..(Len(t) + 1) : j - i < len => Complete(t, i, j)

LEMMA TelemetryComplete ==
  ASSUME NEW t \in Seq(Kinds), NEW i \in 1..(Len(t) + 1), NEW j \in 1..(Len(t) + 1),
         CompleteBelow(t, j - i), IsTelemetry(t, Phrases(t), i, j), Follows(t, j)
  PROVE  EndsAt(ParsePrimary(t, Results(t), i), j)
<1> DEFINE f == Results(t)
           s == f[i + 2]["selectors"]
           r == ParsePrimary(t, f, i)
<1>1. j > i + 2
  BY DEF IsTelemetry
<1>2. t[i] = "type" /\ t[i + 1] = "{"
  BY DEF IsTelemetry
<1>3. PICK k \in (i + 2)..(j - 1) :
        t[k] = "}" /\ "selectors" \in Phrases(t)[i + 2][k] /\ IsRange(t, k + 1, j)
  BY DEF IsTelemetry
<1>4. /\ i \in 1..Len(t) /\ i + 1 \in 1..Len(t) /\ i + 2 \in 1..(Len(t) + 1)
      /\ k \in 1..Len(t) /\ k \in 1..(Len(t) + 1) /\ k - (i + 2) < j - i
      /\ k + 1 \in 1..(Len(t) + 1) /\ j \in (k + 1)..(Len(t) + 1)
  BY <1>1
<1>5. Peek(t, i) = "type" /\ Peek(t, i + 1) = "{" /\ Peek(t, k) = "}"
  BY <1>2, <1>3, <1>4, PeekIs
<1>6. EndsAt(s, k + 1)
  <2>1. CompleteList(t, i + 2, k, "selectors")
    BY <1>4, PhraseNamesFacts DEF CompleteBelow, Complete
  <2>2. Closes(t, k, "selectors")
    BY <1>5, ClosesWith
  <2> QED BY <1>3, <2>1, <2>2 DEF CompleteList
<1>7. r = ParseRange(t, s.at, s.tree)
  BY <1>5, <1>6 DEF ParsePrimary, ParseTelemetryQuery, EndsAt
<1> HIDE DEF f, s, r
<1>8. r = ParseRange(t, k + 1, s.tree)
  BY <1>6, <1>7 DEF EndsAt
<1>9. Peek(t, j) # "["
  BY DEF Follows
<1>10. r.st = "ok" /\ r.at = j
  <2> DEFINE p == k + 1
  <2>1. p \in 1..(Len(t) + 1) /\ j \in p..(Len(t) + 1)
    BY <1>4
  <2>2. IsRange(t, p, j) /\ r = ParseRange(t, p, s.tree)
    BY <1>3, <1>8
  <2> HIDE DEF p
  <2> QED BY <1>9, <2>1, <2>2, RangeFacts
<1> QED BY <1>10 DEF r, f, EndsAt

LEMMA CallComplete ==
  ASSUME NEW t \in Seq(Kinds), NEW i \in 1..(Len(t) + 1), NEW j \in 1..(Len(t) + 1),
         CompleteBelow(t, j - i), IsCall(t, Phrases(t), i, j), Follows(t, j)
  PROVE  EndsAt(ParsePrimary(t, Results(t), i), j)
<1> DEFINE f == Results(t)
           args == f[i + 2]["args"]
           r == ParsePrimary(t, f, i)
<1>1. j > i + 2
  BY DEF IsCall
<1>2. t[i] = "ident" /\ t[i + 1] = "("
  BY DEF IsCall
<1>3. PICK k \in (i + 2)..(j - 1) :
        /\ t[k] = ")" /\ "args" \in Phrases(t)[i + 2][k]
        /\ \/ k + 1 = j
           \/ /\ k > i + 2
              /\ j > k + 3
              /\ t[k + 1] = "by" /\ t[k + 2] = "(" /\ t[j - 1] = ")"
              /\ "labels" \in Phrases(t)[k + 3][j - 1]
  BY DEF IsCall
<1>4. /\ i \in 1..Len(t) /\ i + 1 \in 1..Len(t) /\ i + 2 \in 1..(Len(t) + 1)
      /\ k \in 1..Len(t) /\ k \in 1..(Len(t) + 1) /\ k - (i + 2) < j - i
      /\ k + 1 \in 1..(Len(t) + 1)
  BY <1>1
<1>5. Peek(t, i) = "ident" /\ Peek(t, i + 1) = "(" /\ Peek(t, k) = ")"
  BY <1>2, <1>3, <1>4, PeekIs
<1>6. EndsAt(args, k + 1) /\ (k > i + 2 => args.tree # <<>>)
  <2>1. CompleteList(t, i + 2, k, "args")
    BY <1>4, PhraseNamesFacts DEF CompleteBelow, Complete
  <2>2. Closes(t, k, "args")
    BY <1>5, ClosesWith
  <2> QED BY <1>3, <2>1, <2>2 DEF CompleteList
<1>7. r = ParseBy(t, f, i, args)
  BY <1>5, <1>6 DEF ParsePrimary, ParseFunctionCall, EndsAt
<1>8. args.at = k + 1
  BY <1>6 DEF EndsAt
<1> HIDE DEF args, r
<1>9. CASE k + 1 = j
  <2>1. Peek(t, args.at) # "by"
    BY <1>8, <1>9 DEF Follows
  <2>2. r.st = "ok" /\ r.at = args.at
    BY <1>7, <2>1, DoneFacts DEF ParseBy
  <2> QED BY <1>8, <1>9, <2>2 DEF EndsAt, r
<1>10. CASE /\ k > i + 2 /\ j > k + 3
            /\ t[k + 1] = "by" /\ t[k + 2] = "(" /\ t[j - 1] = ")"
            /\ "labels" \in Phrases(t)[k + 3][j - 1]
  <2> DEFINE labels == f[args.at + 2]["labels"]
  <2>1. k > i + 2 /\ j > k + 3
    BY <1>10
  <2>2. /\ k + 1 \in 1..Len(t) /\ k + 2 \in 1..Len(t) /\ j - 1 \in 1..Len(t)
        /\ k + 3 \in 1..(Len(t) + 1) /\ j - 1 \in 1..(Len(t) + 1)
        /\ (j - 1) - (k + 3) < j - i
    BY <1>4, <2>1
  <2>3. Peek(t, k + 1) = "by" /\ Peek(t, k + 2) = "(" /\ Peek(t, j - 1) = ")"
    BY <1>10, <2>2, PeekIs
  <2>4. EndsAt(f[k + 3]["labels"], (j - 1) + 1)
    <3>1. CompleteList(t, k + 3, j - 1, "labels")
      BY <2>2, PhraseNamesFacts DEF CompleteBelow, Complete
    <3>2. Closes(t, j - 1, "labels")
      BY <2>3, ClosesWith
    <3> QED BY <1>10, <3>1, <3>2 DEF CompleteList
  <2>5. args.at + 1 = k + 2 /\ args.at + 2 = k + 3 /\ (j - 1) + 1 = j
    BY <1>8
  <2>6. labels.st = "ok" /\ labels.at = j
    BY <2>4, <2>5 DEF EndsAt
  <2>7. Peek(t, args.at) = "by" /\ Peek(t, args.at + 1) = "("
    BY <1>8, <2>3, <2>5
  <2>8. args.tree # <<>>
    BY <1>6, <2>1
  <2>9. r.st = "ok" /\ r.at = labels.at
    BY <1>7, <2>6, <2>7, <2>8, DoneFacts DEF ParseBy
  <2> QED BY <2>6, <2>9 DEF EndsAt, r
<1> QED BY <1>3, <1>9, <1>10

LEMMA NoOperands ==
  ASSUME NEW t \in Seq(Kinds), NEW j \in 1..(Len(t) + 1), Peek(t, j) # "op"
  PROVE  EndsAt(Results(t)[j]["operands"], j) /\ Results(t)[j]["operands"].tree = <<>>
<1>1. Results(t)[j]["operands"] = Done(j, <<>>)
  BY ResultIs DEF ParseOperands
<1> QED BY <1>1, DoneFacts DEF EndsAt

LEMMA ParenthesizedComplete ==
  ASSUME NEW t \in Seq(Kinds), NEW i \in 1..(Len(t) + 1), NEW j \in 1..(Len(t) + 1),
         CompleteBelow(t, j - i), IsParenthesized(t, Phrases(t), i, j)
  PROVE  EndsAt(ParsePrimary(t, Results(t), i), j)
<1> DEFINE q == Results(t)[i + 1]["query"]
           r == ParsePrimary(t, Results(t), i)
<1>1. j > i + 2
  BY DEF IsParenthesized
<1>2. t[i] = "(" /\ t[j - 1] = ")" /\ "query" \in Phrases(t)[i + 1][j - 1]
  BY DEF IsParenthesized
<1>3. /\ i \in 1..Len(t) /\ i + 1 \in 1..(Len(t) + 1)
      /\ j - 1 \in 1..Len(t) /\ j - 1 \in 1..(Len(t) + 1) /\ (j - 1) - (i + 1) < j - i
  BY <1>1
<1>4. Peek(t, i) = "(" /\ Peek(t, j - 1) = ")"
  BY <1>2, <1>3, PeekIs
<1>5. EndsAt(Results(t)[j - 1]["operands"], j - 1)
  <2>1. Peek(t, j - 1) # "op"
    BY <1>4
  <2> QED BY <1>3, <2>1, NoOperands
<1>6. EndsAt(q, j - 1)
  <2>1. CompleteQuery(t, i + 1, j - 1)
    BY <1>3 DEF CompleteBelow, Complete
  <2>2. Follows(t, j - 1)
    BY <1>4 DEF Follows
  <2>3. EndsAt(q, Results(t)[j - 1]["operands"].at)
    BY <1>2, <1>5, <2>1, <2>2 DEF CompleteQuery, EndsAt
  <2> QED BY <1>5, <2>3 DEF EndsAt
<1>7. r = ParseParenthesized(t, Results(t), i)
  BY <1>4 DEF ParsePrimary
<1>8. q.st = "ok" /\ q.at = j - 1
  BY <1>6 DEF EndsAt
<1>9. r = Done(q.at + 1, q.tree)
  BY <1>4, <1>7, <1>8 DEF ParseParenthesized
<1>10. r.st = "ok" /\ r.at = q.at + 1
  BY <1>9, DoneFacts
<1> HIDE DEF q, r
<1>11. r.at = j
  BY <1>8, <1>10
<1> QED BY <1>10, <1>11 DEF EndsAt, r

LEMMA PrimaryComplete ==
  ASSUME NEW t \in Seq(Kinds), NEW i \in 1..(Len(t) + 1), NEW j \in 1..(Len(t) + 1),
         CompleteBelow(t, j - i)
  PROVE  CompletePrimary(t, i, j)
<1> SUFFICES ASSUME "primary" \in Phrases(t)[i][j], Follows(t, j)
             PROVE  EndsAt(Results(t)[i]["primary"], j)
  BY DEF CompletePrimary
<1>1. IsPrimary(t, Phrases(t), i, j)
  BY PhraseReads
<1>2. EndsAt(ParsePrimary(t, Results(t), i), j)
  BY <1>1, TelemetryComplete, CallComplete, ParenthesizedComplete DEF IsPrimary
<1> QED BY <1>2, ResultIs

LEMMA QueryComplete ==
  ASSUME NEW t \in Seq(Kinds), NEW i \in 1..(Len(t) + 1), NEW j \in 1..(Len(t) + 1),
         CompleteBelow(t, j - i)
  PROVE  CompleteQuery(t, i, j)
<1> DEFINE f == Results(t)
           m == f[j]["operands"]
<1> SUFFICES ASSUME "query" \in Phrases(t)[i][j], Follows(t, j), m.st = "ok"
             PROVE  EndsAt(f[i]["query"], m.at)
  BY DEF CompleteQuery
<1>1. IsOperation(t, Phrases(t), i, j)
  BY PhraseReads
<1>2. CASE IsPrimary(t, Phrases(t), i, j)
  <2>1. "primary" \in Phrases(t)[i][j]
    BY <1>2, PhraseReads
  <2>2. EndsAt(f[i]["primary"], j)
    BY <2>1, PrimaryComplete DEF CompletePrimary
  <2> DEFINE first == ParsePrimary(t, f, i)
             r == ParseQuery(t, f, i)
  <2>3. first.st = "ok" /\ first.at = j
    BY <2>2, ResultIs DEF EndsAt
  <2>4. r = Done(m.at, Grouped(first.tree, m.tree))
    BY <2>3 DEF ParseQuery
  <2>5. r.st = "ok" /\ r.at = m.at
    BY <2>4, DoneFacts
  <2>6. f[i]["query"] = r
    BY ResultIs
  <2> HIDE DEF r, f
  <2> QED BY <2>5, <2>6 DEF EndsAt
<1>3. CASE \E k \in i..(j - 1) :
             t[k] = "op" /\ "query" \in Phrases(t)[i][k] /\ "primary" \in Phrases(t)[k + 1][j]
  <2>1. PICK k \in i..(j - 1) :
             t[k] = "op" /\ "query" \in Phrases(t)[i][k] /\ "primary" \in Phrases(t)[k + 1][j]
    BY <1>3
  <2>2. /\ k \in 1..Len(t) /\ k \in 1..(Len(t) + 1) /\ k + 1 \in 1..(Len(t) + 1)
        /\ k - i < j - i /\ j - (k + 1) < j - i
    OBVIOUS
  <2>3. Peek(t, k) = "op"
    BY <2>1, <2>2, PeekIs
  <2>4. EndsAt(f[k + 1]["primary"], j)
    <3>1. CompletePrimary(t, k + 1, j)
      BY <2>2 DEF CompleteBelow, Complete
    <3> QED BY <2>1, <3>1 DEF CompletePrimary
  <2> DEFINE right == f[k + 1]["primary"]
             x == [at |-> k, tree |-> right.tree]
             o == f[k]["operands"]
  <2>5. right.st = "ok" /\ right.at = j
    BY <2>4 DEF EndsAt
  <2>6. o = ParseOperands(t, f, k)
    BY <2>2, ResultIs
  <2>7. o = Before(x, m)
    BY <2>3, <2>5, <2>6 DEF ParseOperands
  <2>8. o.st = "ok" /\ o.at = m.at
    <3>1. m.st = "ok"
      OBVIOUS
    <3> HIDE DEF o, m, x
    <3> QED BY <2>7, <3>1, BeforeFacts
  <2>9. CompleteQuery(t, i, k)
    BY <2>2 DEF CompleteBelow, Complete
  <2>10. Follows(t, k)
    BY <2>3 DEF Follows
  <2>11. EndsAt(f[i]["query"], o.at)
    BY <2>1, <2>8, <2>9, <2>10 DEF CompleteQuery
  <2> QED BY <2>8, <2>11
<1> QED BY <1>1, <1>2, <1>3 DEF IsOperation

LEMMA FirstToken ==
  ASSUME NEW t, NEW i, NEW f, ParseQuery(t, f, i).st = "ok"
  PROVE  Peek(t, i) \in {"type", "ident", "("}
<1>1. ParsePrimary(t, f, i).st = "ok"
  BY DEF ParseQuery
<1> SUFFICES ASSUME Peek(t, i) \notin {"type", "ident", "("} PROVE FALSE
  OBVIOUS
<1>2. ParsePrimary(t, f, i) = Fail(i)
  BY DEF ParsePrimary
<1> QED BY <1>1, <1>2, FailFacts

(* an element of a list ends at j *)
EndsElement(t, j, what) == Peek(t, j) = "," \/ Closes(t, j, what)

LEMMA ElementComplete ==
  ASSUME NEW t \in Seq(Kinds), NEW i \in 1..(Len(t) + 1), NEW j \in 1..(Len(t) + 1), NEW what \in Lists,
         CompleteQuery(t, i, j), IsElement(t, Phrases(t), i, j, what),
         EndsElement(t, j, what)
  PROVE  EndsAt(ParseElement(t, Results(t), i, what), j) /\ ~Closes(t, i, what)
<1> DEFINE f == Results(t)
           e == ParseElement(t, f, i, what)
<1>1. CASE what = "selectors"
  <2>1. IsSelector(t, i, j)
    BY <1>1 DEF IsElement
  <2>2. j = i + 3 /\ t[i] \in Idents
    BY <2>1 DEF IsSelector
  <2>3. IsSelector(t, i, i + 3) /\ i + 3 <= Len(t) + 1 /\ i \in 1..Len(t)
    <3>1. j = i + 3
      BY <2>2
    <3>2. i + 3 <= Len(t) + 1 /\ i \in 1..Len(t)
      BY <3>1
    <3> QED BY <2>1, <3>2 DEF IsSelector
  <2>4. EndsAt(e, j)
    BY <1>1, <2>2, <2>3, SelectorFacts DEF ParseElement, EndsAt
  <2>5. ~Closes(t, i, what)
    <3>1. Peek(t, i) \in Idents
      BY <2>2, <2>3, PeekIs
    <3> QED BY <1>1, <3>1, ClosesWith DEF Idents
  <2> QED BY <2>4, <2>5
<1>2. CASE what = "labels"
  <2>1. IsLabel(t, i, j)
    BY <1>2 DEF IsElement
  <2>2. j = i + 1 /\ t[i] \in Idents
    BY <2>1 DEF IsLabel
  <2>3. IsLabel(t, i, i + 1) /\ i + 1 <= Len(t) + 1 /\ i \in 1..Len(t)
    <3>1. j = i + 1
      BY <2>2
    <3>2. i + 1 <= Len(t) + 1 /\ i \in 1..Len(t)
      BY <3>1
    <3> QED BY <2>1, <3>2 DEF IsLabel
  <2>4. EndsAt(e, j)
    BY <1>2, <2>2, <2>3, LabelFacts DEF ParseElement, EndsAt
  <2>5. ~Closes(t, i, what)
    <3>1. Peek(t, i) \in Idents
      BY <2>2, <2>3, PeekIs
    <3> QED BY <1>2, <3>1, ClosesWith DEF Idents
  <2> QED BY <2>4, <2>5
<1>3. CASE what = "args"
  <2>1. IsOperation(t, Phrases(t), i, j)
    BY <1>3 DEF IsElement
  <2>2. "query" \in Phrases(t)[i][j]
    BY <2>1, PhraseReads
  <2>3. Peek(t, j) = "," \/ Peek(t, j) = ")"
    BY <1>3, ClosesWith DEF EndsElement
  <2>4. Peek(t, j) # "op" /\ Peek(t, j) # "by" /\ Peek(t, j) # "["
    BY <2>3
  <2>5. EndsAt(f[j]["operands"], j)
    BY <2>4, NoOperands
  <2>6. EndsAt(f[i]["query"], j)
    BY <2>2, <2>4, <2>5 DEF CompleteQuery, Follows, EndsAt
  <2>7. f[i]["query"] = ParseQuery(t, f, i) /\ e = ParseQuery(t, f, i)
    BY <1>3, ResultIs DEF ParseElement
  <2>8. ~Closes(t, i, what)
    <3>1. Peek(t, i) \in {"type", "ident", "("}
      BY <2>6, <2>7, FirstToken DEF EndsAt
    <3> QED BY <1>3, <3>1, ClosesWith
  <2> QED BY <2>6, <2>7, <2>8
<1> QED BY <1>1, <1>2, <1>3 DEF Lists

LEMMA ListComplete ==
  ASSUME NEW t \in Seq(Kinds), NEW i \in 1..(Len(t) + 1), NEW j \in 1..(Len(t) + 1), NEW what \in Lists,
         CompleteBelow(t, j - i), CompleteQuery(t, i, j)
  PROVE  CompleteList(t, i, j, what)
<1> DEFINE f == Results(t)
           r == ParseList(t, f, i, what)
           e == ParseElement(t, f, i, what)
<1> SUFFICES ASSUME what \in Phrases(t)[i][j], Closes(t, j, what)
             PROVE  EndsAt(r, j + 1) /\ (j > i => r.tree # <<>>)
  BY ResultIs DEF CompleteList
<1>1. IsList(t, Phrases(t), i, j, what)
  BY PhraseReads
<1>2. CASE i = j
  <2>1. r = Done(i + 1, <<>>)
    BY <1>2 DEF ParseList
  <2> HIDE DEF r
  <2>2. EndsAt(r, j + 1)
    BY <1>2, <2>1, DoneFacts DEF EndsAt
  <2>3. ~(j > i)
    BY <1>2
  <2> QED BY <2>2, <2>3 DEF r
<1>3. CASE IsElement(t, Phrases(t), i, j, what)
  <2>1. EndsAt(e, j) /\ ~Closes(t, i, what)
    BY <1>3, ElementComplete DEF EndsElement
  <2>2. e.st = "ok" /\ e.at = j
    BY <2>1 DEF EndsAt
  <2>3. r = ParseNext(t, f, e, what)
    BY <2>1, <2>2 DEF ParseList
  <2>4. Peek(t, j) # ","
    BY ClosesFacts
  <2> HIDE DEF r, e
  <2>5. r = Done(e.at + 1, <<e.tree>>)
    BY <2>2, <2>3, <2>4 DEF ParseNext
  <2>6. r.st = "ok" /\ r.at = j + 1 /\ r.tree = <<e.tree>>
    BY <2>2, <2>5, DoneFacts
  <2>7. r.tree # <<>>
    BY <2>6, OneIsSequence
  <2> QED BY <2>6, <2>7 DEF EndsAt, r
<1>4. CASE \E k \in i..(j - 1) :
             t[k] = "," /\ IsElement(t, Phrases(t), i, k, what) /\ what \in Phrases(t)[k + 1][j]
  <2>1. PICK k \in i..(j - 1) :
             t[k] = "," /\ IsElement(t, Phrases(t), i, k, what) /\ what \in Phrases(t)[k + 1][j]
    BY <1>4
  <2>2. /\ k \in 1..Len(t) /\ k \in 1..(Len(t) + 1) /\ k + 1 \in 1..(Len(t) + 1)
        /\ k - i < j - i /\ j - (k + 1) < j - i
    OBVIOUS
  <2>3. Peek(t, k) = ","
    BY <2>1, <2>2, PeekIs
  <2>4. CompleteQuery(t, i, k) /\ CompleteList(t, k + 1, j, what)
    BY <2>2 DEF CompleteBelow, Complete
  <2>5. EndsAt(e, k) /\ ~Closes(t, i, what)
    BY <2>1, <2>2, <2>3, <2>4, ElementComplete DEF EndsElement
  <2> DEFINE more == f[k + 1][what]
  <2>6. EndsAt(more, j + 1)
    BY <2>1, <2>4 DEF CompleteList
  <2>7. e.st = "ok" /\ e.at = k
    BY <2>5 DEF EndsAt
  <2>8. r = ParseNext(t, f, e, what)
    BY <2>5, <2>7 DEF ParseList
  <2>9. Placed(t, more, k + 1, what)
    BY <2>2, ResultsFacts DEF Goals
  <2> HIDE DEF e, r, f
  <2>10. r = Before(e.tree, more)
    BY <2>3, <2>7, <2>8 DEF ParseNext
  <2> HIDE DEF more
  <2>11. more.st = "ok" /\ more.at = j + 1
    BY <2>6 DEF EndsAt
  <2>12. r.st = "ok" /\ r.at = more.at /\ r.tree = <<e.tree>> \o more.tree
    BY <2>10, <2>11, BeforeFacts
  <2>13. IsSequence(more.tree)
    BY <2>9, <2>11 DEF Placed
  <2>14. <<e.tree>> \o more.tree # <<>>
    BY <2>13, ConsFacts
  <2> QED BY <2>11, <2>12, <2>14 DEF EndsAt, r, f
<1> QED BY <1>1, <1>2, <1>3, <1>4 DEF IsList

LEMMA AllComplete ==
  ASSUME NEW t \in Seq(Kinds), NEW i \in 1..(Len(t) + 1), NEW j \in 1..(Len(t) + 1)
  PROVE  Complete(t, i, j)
<1> DEFINE n == Len(t) + 1
           Bad == {l \in Nat : \E a, b \in 1..n : l = (b - a) + n /\ ~Complete(t, a, b)}
<1>1. Bad = {}
  <2>1. SUFFICES ASSUME Bad # {} PROVE FALSE
    OBVIOUS
  <2>2. Bad \in SUBSET Nat
    OBVIOUS
  <2> HIDE DEF Bad
  <2>3. PICK x \in Bad : \A y \in Bad : x <= y
    BY <2>1, <2>2, Least
  <2>4. PICK a \in 1..n, b \in 1..n : x = (b - a) + n /\ ~Complete(t, a, b)
    BY <2>3 DEF Bad
  <2>5. ASSUME NEW c \in 1..n, NEW d \in 1..n, d - c < b - a PROVE Complete(t, c, d)
    <3>1. (d - c) + n \in Nat /\ ~(x <= (d - c) + n)
      BY <2>4, <2>5
    <3>2. (d - c) + n \notin Bad
      BY <2>3, <3>1
    <3> QED BY <3>1, <3>2 DEF Bad
  <2>6. CompleteBelow(t, b - a)
    BY <2>5 DEF CompleteBelow
  <2>7. CompletePrimary(t, a, b) /\ CompleteQuery(t, a, b)
    BY <2>6, PrimaryComplete, QueryComplete
  <2>8. \A what \in Lists : CompleteList(t, a, b, what)
    BY <2>6, <2>7, ListComplete
  <2> QED BY <2>4, <2>7, <2>8 DEF Complete
<1>2. (j - i) + n \in Nat
  OBVIOUS
<1> QED BY <1>1, <1>2

-----------------------------------------------------------------------------
(* What is accepted is what the language has. *)
LEMMA AcceptedIsLanguage ==
  ASSUME NEW t \in Seq(Kinds)
  PROVE  (Valid(t) /\ Parse(t).at = Len(t) + 1) <=> IsQuery(t)
<1> DEFINE n == Len(t) + 1
           r == Results(t)[1]["query"]
<1>1. 1 \in 1..n /\ n \in 1..n
  OBVIOUS
<1>2. ASSUME r.st = "ok", r.at = n PROVE "query" \in Phrases(t)[1][n]
  <2>1. SoundPhrase(t, r, 1, "query")
    BY <1>1, AllSound DEF SoundRow
  <2> QED BY <1>2, <2>1 DEF SoundPhrase
<1>3. ASSUME "query" \in Phrases(t)[1][n] PROVE r.st = "ok" /\ r.at = n
  <2>1. Peek(t, n) = "EOF"
    BY DEF Peek
  <2>2. Follows(t, n) /\ Peek(t, n) # "op"
    BY <2>1 DEF Follows
  <2>3. EndsAt(Results(t)[n]["operands"], n)
    BY <1>1, <2>2, NoOperands
  <2>4. CompleteQuery(t, 1, n)
    BY <1>1, AllComplete DEF Complete
  <2> QED BY <1>3, <2>2, <2>3, <2>4 DEF CompleteQuery, EndsAt
<1> QED BY <1>2, <1>3 DEF Valid, Parse, IsQuery

-----------------------------------------------------------------------------
(* What comes before an operator parses alike with the operator and        *)
(* without it.                                                             *)

(* t starts with u and an operator *)
OperatorAfter(u, t) ==
  /\ Len(u) < Len(t)
  /\ \A i \in 1..Len(u) : u[i] = t[i]
  /\ t[Len(u) + 1] = "op"

LEMMA PeekSame ==
  ASSUME NEW u \in Seq(Kinds), NEW t \in Seq(Kinds), OperatorAfter(u, t), NEW i, Peek(u, i) # "EOF"
  PROVE  Peek(t, i) = Peek(u, i)
<1>1. i \in 1..Len(u)
  BY PeekFacts
<1>2. i \in 1..Len(t)
  BY <1>1 DEF OperatorAfter
<1> QED BY <1>1, <1>2 DEF Peek, OperatorAfter

LEMMA PeekOther ==
  ASSUME NEW u \in Seq(Kinds), NEW t \in Seq(Kinds), OperatorAfter(u, t),
         NEW i, i \in 1..(Len(u) + 1), NEW w, w # "op", Peek(u, i) # w
  PROVE  Peek(t, i) # w
<1>1. CASE i = Len(u) + 1
  <2>1. i \in 1..Len(t)
    BY <1>1 DEF OperatorAfter
  <2> QED BY <1>1, <2>1 DEF Peek, OperatorAfter
<1>2. CASE i # Len(u) + 1
  <2>1. i \in 1..Len(u)
    BY <1>2
  <2>2. i \in 1..Len(t)
    BY <2>1 DEF OperatorAfter
  <2> QED BY <2>1, <2>2 DEF Peek, OperatorAfter
<1> QED BY <1>1, <1>2

LEMMA ClosesSame ==
  ASSUME NEW u \in Seq(Kinds), NEW t \in Seq(Kinds), OperatorAfter(u, t),
         NEW i, i \in 1..(Len(u) + 1), NEW what
  PROVE  Closes(t, i, what) <=> Closes(u, i, what)
<1> DEFINE closer == IF what = "selectors" THEN "}" ELSE ")"
<1>1. closer # "op" /\ closer # "EOF"
  OBVIOUS
<1>2. (Closes(t, i, what) <=> Peek(t, i) = closer) /\ (Closes(u, i, what) <=> Peek(u, i) = closer)
  BY DEF Closes
<1> HIDE DEF closer
<1>3. ASSUME Peek(u, i) = closer PROVE Peek(t, i) = closer
  BY <1>1, <1>3, PeekSame
<1>4. ASSUME Peek(u, i) # closer PROVE Peek(t, i) # closer
  BY <1>1, <1>4, PeekOther
<1> QED BY <1>2, <1>3, <1>4

(* results that are the same but for what the operator lets follow *)
SameResult(r, s) == s.st = "ok" => r = s

SameUpTo(r, s, k) == s.st = "ok" /\ s.at # k => r = s

Resumed(r, s, k, rest) ==
  s.st = "ok" /\ s.at = k /\ rest.st = "ok" => r = Done(rest.at, s.tree \o rest.tree)

SameRow(u, t, i) ==
  LET k == Len(u) + 1
      r == Results(t)[i]
      s == Results(u)[i]
  IN  /\ SameResult(r["primary"], s["primary"])
      /\ \A what \in Lists : SameResult(r[what], s[what])
      /\ SameUpTo(r["query"], s["query"], k)
      /\ SameUpTo(r["operands"], s["operands"], k)
      /\ Resumed(r["operands"], s["operands"], k, Results(t)[k]["operands"])

SameAfter(u, t, i) == \A j \in (i + 1)..(Len(u) + 1) : SameRow(u, t, j)

LEMMA RangeSame ==
  ASSUME NEW u \in Seq(Kinds), NEW t \in Seq(Kinds), OperatorAfter(u, t),
         NEW i, i \in 1..(Len(u) + 1), NEW tree, ParseRange(u, i, tree).st = "ok"
  PROVE  ParseRange(t, i, tree) = ParseRange(u, i, tree)
<1>1. CASE Peek(u, i) # "["
  <2>1. Peek(t, i) # "["
    BY <1>1, PeekOther
  <2> QED BY <1>1, <2>1 DEF ParseRange
<1>2. CASE Peek(u, i) = "["
  <2>1. Peek(u, i + 1) \in Durations /\ Peek(u, i + 2) = "]"
    BY <1>2, FailFacts DEF ParseRange
  <2>2. Peek(u, i + 1) # "EOF" /\ Peek(u, i + 2) # "EOF" /\ Peek(u, i) # "EOF"
    BY <1>2, <2>1 DEF Durations
  <2>3. Peek(t, i) = Peek(u, i) /\ Peek(t, i + 1) = Peek(u, i + 1) /\ Peek(t, i + 2) = Peek(u, i + 2)
    BY <2>2, PeekSame
  <2> QED BY <2>3 DEF ParseRange
<1> QED BY <1>1, <1>2

LEMMA TelemetrySame ==
  ASSUME NEW u \in Seq(Kinds), NEW t \in Seq(Kinds), OperatorAfter(u, t),
         NEW i \in 1..(Len(u) + 1), SameAfter(u, t, i),
         ParseTelemetryQuery(u, Results(u), i).st = "ok"
  PROVE  ParseTelemetryQuery(t, Results(t), i) = ParseTelemetryQuery(u, Results(u), i)
<1> DEFINE s == Results(u)[i + 2]["selectors"]
<1>1. Peek(u, i + 1) = "{"
  BY FailFacts DEF ParseTelemetryQuery
<1>2. s.st = "ok"
  BY <1>1 DEF ParseTelemetryQuery
<1>3. i + 1 \in 1..Len(u)
  BY <1>1, PeekFacts
<1>4. i + 2 \in (i + 1)..(Len(u) + 1) /\ i + 2 \in 1..(Len(u) + 1)
  BY <1>3
<1>5. Results(t)[i + 2]["selectors"] = s
  BY <1>2, <1>4, PhraseNamesFacts DEF SameAfter, SameRow, SameResult
<1>6. Peek(t, i + 1) = "{"
  BY <1>1, PeekSame
<1>7. /\ ParseTelemetryQuery(u, Results(u), i) = ParseRange(u, s.at, s.tree)
      /\ ParseTelemetryQuery(t, Results(t), i) = ParseRange(t, s.at, s.tree)
  BY <1>1, <1>2, <1>5, <1>6 DEF ParseTelemetryQuery
<1>8. s.at \in 1..(Len(u) + 1)
  <2>1. Placed(u, s, i + 2, "selectors")
    BY <1>4, GoalNames, ResultsFacts
  <2>2. s.at \in (i + 2)..(Len(u) + 1)
    BY <1>2, <2>1 DEF Placed
  <2> HIDE DEF s
  <2> QED BY <2>2
<1> HIDE DEF s
<1> QED BY <1>7, <1>8, RangeSame

LEMMA BySame ==
  ASSUME NEW u \in Seq(Kinds), NEW t \in Seq(Kinds), OperatorAfter(u, t),
         NEW i \in 1..(Len(u) + 1), SameAfter(u, t, i), NEW name, NEW args,
         args.at \in (i + 1)..(Len(u) + 1),
         ParseBy(u, Results(u), name, args).st = "ok"
  PROVE  ParseBy(t, Results(t), name, args) = ParseBy(u, Results(u), name, args)
<1> DEFINE labels == Results(u)[args.at + 2]["labels"]
<1>0. args.at \in 1..(Len(u) + 1)
  OBVIOUS
<1>1. CASE Peek(u, args.at) # "by"
  <2>1. Peek(t, args.at) # "by"
    BY <1>0, <1>1, PeekOther
  <2> QED BY <1>1, <2>1 DEF ParseBy
<1>2. CASE Peek(u, args.at) = "by"
  <2>1. Peek(u, args.at + 1) = "("
    BY <1>2, FailFacts DEF ParseBy
  <2>2. labels.st = "ok"
    BY <1>2, <2>1 DEF ParseBy
  <2>3. args.at + 1 \in 1..Len(u)
    BY <2>1, PeekFacts
  <2>4. args.at + 2 \in (i + 1)..(Len(u) + 1)
    BY <2>3
  <2>5. Results(t)[args.at + 2]["labels"] = labels
    BY <2>2, <2>4, PhraseNamesFacts DEF SameAfter, SameRow, SameResult
  <2>6. Peek(t, args.at) = "by"
    BY <1>2, PeekSame
  <2>7. Peek(t, args.at + 1) = "("
    BY <2>1, PeekSame
  <2> QED BY <1>2, <2>1, <2>2, <2>5, <2>6, <2>7 DEF ParseBy
<1> QED BY <1>1, <1>2

LEMMA CallSame ==
  ASSUME NEW u \in Seq(Kinds), NEW t \in Seq(Kinds), OperatorAfter(u, t),
         NEW i \in 1..(Len(u) + 1), SameAfter(u, t, i),
         ParseFunctionCall(u, Results(u), i).st = "ok"
  PROVE  ParseFunctionCall(t, Results(t), i) = ParseFunctionCall(u, Results(u), i)
<1> DEFINE args == Results(u)[i + 2]["args"]
<1>1. Peek(u, i + 1) = "("
  BY FailFacts DEF ParseFunctionCall
<1>2. args.st = "ok"
  BY <1>1 DEF ParseFunctionCall
<1>3. i + 1 \in 1..Len(u)
  BY <1>1, PeekFacts
<1>4. i + 2 \in (i + 1)..(Len(u) + 1) /\ i + 2 \in 1..(Len(u) + 1)
  BY <1>3
<1>5. Results(t)[i + 2]["args"] = args
  BY <1>2, <1>4, PhraseNamesFacts DEF SameAfter, SameRow, SameResult
<1>6. Peek(t, i + 1) = "("
  BY <1>1, PeekSame
<1>7. /\ ParseFunctionCall(u, Results(u), i) = ParseBy(u, Results(u), i, args)
      /\ ParseFunctionCall(t, Results(t), i) = ParseBy(t, Results(t), i, args)
  BY <1>1, <1>2, <1>5, <1>6 DEF ParseFunctionCall
<1>8. args.at \in (i + 1)..(Len(u) + 1)
  <2>1. Placed(u, args, i + 2, "args")
    BY <1>4, GoalNames, ResultsFacts
  <2>2. args.at \in (i + 2)..(Len(u) + 1)
    BY <1>2, <2>1 DEF Placed
  <2> HIDE DEF args
  <2> QED BY <2>2
<1> HIDE DEF args
<1> QED BY <1>7, <1>8, BySame

LEMMA ParenthesizedSame ==
  ASSUME NEW u \in Seq(Kinds), NEW t \in Seq(Kinds), OperatorAfter(u, t),
         NEW i \in 1..Len(u), SameAfter(u, t, i),
         ParseParenthesized(u, Results(u), i).st = "ok"
  PROVE  ParseParenthesized(t, Results(t), i) = ParseParenthesized(u, Results(u), i)
<1> DEFINE q == Results(u)[i + 1]["query"]
<1>1. q.st = "ok"
  BY DEF ParseParenthesized
<1>2. Peek(u, q.at) = ")"
  BY <1>1, FailFacts DEF ParseParenthesized
<1>3. q.at \in 1..Len(u)
  BY <1>2, PeekFacts
<1>4. q.at # Len(u) + 1
  <2> HIDE DEF q
  <2> QED BY <1>3
<1>5. i + 1 \in (i + 1)..(Len(u) + 1)
  OBVIOUS
<1>6. Results(t)[i + 1]["query"] = q
  BY <1>1, <1>4, <1>5 DEF SameAfter, SameRow, SameUpTo
<1>7. Peek(t, q.at) = ")"
  BY <1>2, PeekSame
<1> QED BY <1>1, <1>2, <1>6, <1>7 DEF ParseParenthesized

LEMMA PrimarySame ==
  ASSUME NEW u \in Seq(Kinds), NEW t \in Seq(Kinds), OperatorAfter(u, t),
         NEW i \in 1..(Len(u) + 1), SameAfter(u, t, i)
  PROVE  SameResult(ParsePrimary(t, Results(t), i), ParsePrimary(u, Results(u), i))
<1> SUFFICES ASSUME ParsePrimary(u, Results(u), i).st = "ok"
             PROVE  ParsePrimary(t, Results(t), i) = ParsePrimary(u, Results(u), i)
  BY DEF SameResult
<1>1. CASE Peek(u, i) = "type"
  <2>1. Peek(t, i) = "type"
    BY <1>1, PeekSame
  <2> QED BY <1>1, <2>1, TelemetrySame DEF ParsePrimary
<1>2. CASE Peek(u, i) = "ident"
  <2>1. Peek(t, i) = "ident"
    BY <1>2, PeekSame
  <2> QED BY <1>2, <2>1, CallSame DEF ParsePrimary
<1>3. CASE Peek(u, i) = "("
  <2>1. Peek(t, i) = "("
    BY <1>3, PeekSame
  <2>2. i \in 1..Len(u)
    BY <1>3, PeekFacts
  <2> QED BY <1>3, <2>1, <2>2, ParenthesizedSame DEF ParsePrimary
<1>4. CASE Peek(u, i) \notin {"type", "ident", "("}
  <2>1. ParsePrimary(u, Results(u), i) = Fail(i)
    BY <1>4 DEF ParsePrimary
  <2> QED BY <2>1, FailFacts
<1> QED BY <1>1, <1>2, <1>3, <1>4

LEMMA ConcatFacts ==
  ASSUME NEW r, IsSequence(r), NEW s, IsSequence(s), NEW x
  PROVE  /\ <<>> \o r = r
         /\ r \o <<>> = r
         /\ <<x>> \o (r \o s) = (<<x>> \o r) \o s
<1>1. PICK R : r \in Seq(R)
  BY DEF IsSequence
<1>2. PICK S : s \in Seq(S)
  BY DEF IsSequence
<1> DEFINE U == R \cup S \cup {x}
<1>3. r \in Seq(U) /\ s \in Seq(U) /\ <<x>> \in Seq(U)
  BY <1>1, <1>2
<1> HIDE DEF U
<1>4. <<>> \o r = r /\ r \o <<>> = r
  BY <1>3
<1>5. <<x>> \o (r \o s) = (<<x>> \o r) \o s
  <2> DEFINE a == <<x>> \o (r \o s)
             b == (<<x>> \o r) \o s
  <2>1. r \o s \in Seq(U) /\ <<x>> \o r \in Seq(U)
    BY <1>3
  <2>2. a \in Seq(U) /\ b \in Seq(U)
    BY <1>3, <2>1
  <2>3. Len(a) = 1 + Len(r) + Len(s) /\ Len(b) = 1 + Len(r) + Len(s)
    BY <1>3, <2>1
  <2>4. ASSUME NEW i \in 1..Len(a) PROVE a[i] = b[i]
    <3>1. Len(r) \in Nat /\ Len(s) \in Nat
      BY <1>3
    <3>2. CASE i = 1
      BY <1>3, <2>1, <2>3, <3>1, <3>2
    <3>3. CASE i > 1 /\ i <= 1 + Len(r)
      BY <1>3, <2>1, <2>3, <3>1, <3>3
    <3>4. CASE i > 1 + Len(r)
      BY <1>3, <2>1, <2>3, <3>1, <3>4
    <3> QED BY <2>3, <3>1, <3>2, <3>3, <3>4
  <2> HIDE DEF a, b
  <2>5. a = b
    BY <2>2, <2>3, <2>4
  <2> QED BY <2>5 DEF a, b
<1> QED BY <1>4, <1>5

LEMMA OperandsShape ==
  ASSUME NEW t, NEW i, NEW f, ParseOperands(t, f, i).st = "ok"
  PROVE  ParseOperands(t, f, i) = Done(ParseOperands(t, f, i).at, ParseOperands(t, f, i).tree)
<1> DEFINE r == ParseOperands(t, f, i)
           right == f[i + 1]["primary"]
<1>1. CASE Peek(t, i) # "op"
  <2>1. r = Done(i, <<>>)
    BY <1>1 DEF ParseOperands
  <2> QED BY <2>1, DoneFacts
<1>2. CASE Peek(t, i) = "op"
  <2>1. right.st = "ok"
    BY <1>2 DEF ParseOperands
  <2> DEFINE x == [at |-> i, tree |-> right.tree]
             more == f[right.at]["operands"]
  <2>2. r = Before(x, more)
    BY <1>2, <2>1 DEF ParseOperands
  <2>3. more.st = "ok"
    BY <2>2, BeforeFacts
  <2> HIDE DEF x, more
  <2>4. r = Done(more.at, <<x>> \o more.tree)
    BY <2>2, <2>3 DEF Before
  <2>5. r.at = more.at /\ r.tree = <<x>> \o more.tree
    BY <2>4 DEF Done
  <2> QED BY <2>4, <2>5
<1> QED BY <1>1, <1>2

LEMMA OperandsSame ==
  ASSUME NEW u \in Seq(Kinds), NEW t \in Seq(Kinds), OperatorAfter(u, t),
         NEW i \in 1..(Len(u) + 1), SameAfter(u, t, i)
  PROVE  LET k == Len(u) + 1
             r == ParseOperands(t, Results(t), i)
             s == ParseOperands(u, Results(u), i)
         IN  SameUpTo(r, s, k) /\ Resumed(r, s, k, Results(t)[k]["operands"])
<1> DEFINE k == Len(u) + 1
           r == ParseOperands(t, Results(t), i)
           s == ParseOperands(u, Results(u), i)
           rest == Results(t)[k]["operands"]
<1>0. k \in 1..(Len(t) + 1) /\ i \in 1..(Len(t) + 1) /\ k \in 1..Len(t)
  BY DEF OperatorAfter
<1> SUFFICES ASSUME s.st = "ok"
             PROVE  SameUpTo(r, s, k) /\ Resumed(r, s, k, rest)
  BY DEF SameUpTo, Resumed
<1>1. CASE Peek(u, i) # "op"
  <2>1. s = Done(i, <<>>)
    BY <1>1 DEF ParseOperands
  <2>2. s.at = i /\ s.tree = <<>>
    BY <2>1, DoneFacts
  <2>3. CASE i = k
    <3>1. r = rest
      BY <1>0, <2>3, ResultIs
    <3>2. ASSUME rest.st = "ok" PROVE r = Done(rest.at, <<>> \o rest.tree)
      <4>1. Placed(t, rest, k, "operands")
        BY <1>0, GoalNames, ResultsFacts
      <4>2. IsSequence(rest.tree)
        BY <3>2, <4>1 DEF Placed
      <4>3. <<>> \o rest.tree = rest.tree
        BY <4>2, ConcatFacts
      <4>4. r = Done(r.at, r.tree)
        BY <3>1, <3>2, OperandsShape
      <4> HIDE DEF r, rest
      <4> QED BY <3>1, <4>3, <4>4
    <3> HIDE DEF r, s, rest
    <3> QED BY <2>2, <2>3, <3>2 DEF SameUpTo, Resumed
  <2>4. CASE i # k
    <3>1. i \in 1..Len(u) /\ i \in 1..Len(t)
      BY <1>0, <2>4
    <3>2. Peek(t, i) # "op"
      BY <1>1, <3>1, PeekIs DEF OperatorAfter
    <3>3. r = Done(i, <<>>)
      BY <3>2 DEF ParseOperands
    <3> HIDE DEF r, s, rest
    <3> QED BY <2>1, <2>2, <2>4, <3>3 DEF SameUpTo, Resumed
  <2> QED BY <2>3, <2>4
<1>2. CASE Peek(u, i) = "op"
  <2> DEFINE right == Results(u)[i + 1]["primary"]
             x == [at |-> i, tree |-> right.tree]
             more == Results(u)[right.at]["operands"]
             more2 == Results(t)[right.at]["operands"]
  <2>1. right.st = "ok"
    BY <1>2 DEF ParseOperands
  <2>2. s = Before(x, more)
    BY <1>2, <2>1 DEF ParseOperands
  <2>3. i \in 1..Len(u)
    BY <1>2, PeekFacts
  <2>4. i + 1 \in (i + 1)..(Len(u) + 1) /\ i + 1 \in 1..(Len(u) + 1)
    BY <2>3
  <2>5. Results(t)[i + 1]["primary"] = right
    BY <2>1, <2>4 DEF SameAfter, SameRow, SameResult
  <2>6. Peek(t, i) = "op"
    BY <1>2, PeekSame
  <2>7. r = Before(x, more2)
    BY <2>1, <2>5, <2>6 DEF ParseOperands
  <2>8. right.at \in (i + 1)..(Len(u) + 1)
    <3>1. Placed(u, right, i + 1, "primary")
      BY <2>4, GoalNames, ResultsFacts
    <3> QED BY <2>1, <3>1 DEF Placed
  <2>9. right.at \in 1..(Len(u) + 1)
    <3> HIDE DEF right
    <3> QED BY <2>8
  <2>10. more.st = "ok"
    BY <2>2, BeforeFacts
  <2>11. SameUpTo(more2, more, k) /\ Resumed(more2, more, k, rest)
    BY <2>8 DEF SameAfter, SameRow
  <2>12. Placed(u, more, right.at, "operands")
    BY <2>9, GoalNames, ResultsFacts
  <2>13. Placed(t, rest, k, "operands")
    BY <1>0, GoalNames, ResultsFacts
  <2> HIDE DEF right, x, more, more2, r, s, rest, k
  <2>14. s = Done(more.at, <<x>> \o more.tree)
    BY <2>2, <2>10 DEF Before
  <2>15. s.at = more.at /\ s.tree = <<x>> \o more.tree
    BY <2>14 DEF Done
  <2>16. ASSUME more.at # k PROVE r = s
    BY <2>2, <2>7, <2>10, <2>11, <2>16 DEF SameUpTo
  <2>17. ASSUME more.at = k, rest.st = "ok"
         PROVE  r = Done(rest.at, (<<x>> \o more.tree) \o rest.tree)
    <3>1. more2 = Done(rest.at, more.tree \o rest.tree)
      BY <2>10, <2>11, <2>17 DEF Resumed
    <3>2. more2.st = "ok" /\ more2.at = rest.at /\ more2.tree = more.tree \o rest.tree
      BY <3>1 DEF Done
    <3>3. r = Done(rest.at, <<x>> \o (more.tree \o rest.tree))
      BY <2>7, <3>2 DEF Before
    <3>4. IsSequence(more.tree) /\ IsSequence(rest.tree)
      BY <2>10, <2>12, <2>13, <2>17 DEF Placed
    <3>5. <<x>> \o (more.tree \o rest.tree) = (<<x>> \o more.tree) \o rest.tree
      <4> DEFINE a == more.tree
                 b == rest.tree
      <4>1. IsSequence(a) /\ IsSequence(b)
        BY <3>4
      <4> HIDE DEF a, b
      <4>2. <<x>> \o (a \o b) = (<<x>> \o a) \o b
        BY <4>1, ConcatFacts
      <4> QED BY <4>2 DEF a, b
    <3> QED BY <3>3, <3>5
  <2>18. SameUpTo(r, s, k)
    BY <2>15, <2>16 DEF SameUpTo
  <2>19. Resumed(r, s, k, rest)
    BY <2>15, <2>17 DEF Resumed
  <2> QED BY <2>18, <2>19 DEF r, s, rest, k
<1> QED BY <1>1, <1>2

LEMMA QuerySame ==
  ASSUME NEW u \in Seq(Kinds), NEW t \in Seq(Kinds), OperatorAfter(u, t),
         NEW i \in 1..(Len(u) + 1), SameAfter(u, t, i)
  PROVE  SameUpTo(ParseQuery(t, Results(t), i), ParseQuery(u, Results(u), i), Len(u) + 1)
<1> DEFINE first == ParsePrimary(u, Results(u), i)
           more == Results(u)[first.at]["operands"]
           s == ParseQuery(u, Results(u), i)
           k == Len(u) + 1
<1> SUFFICES ASSUME s.st = "ok", s.at # k
             PROVE  ParseQuery(t, Results(t), i) = s
  BY DEF SameUpTo
<1>1. first.st = "ok"
  BY DEF ParseQuery
<1>2. more.st = "ok"
  BY <1>1 DEF ParseQuery
<1>3. s.at = more.at
  BY <1>1, <1>2, DoneFacts DEF ParseQuery
<1>4. ParsePrimary(t, Results(t), i) = first
  BY <1>1, PrimarySame DEF SameResult
<1>5. first.at \in (i + 1)..(Len(u) + 1)
  <2>1. PlacedAfter(u, Results(u), i)
    <3>1. i \in 0..(Len(u) + 1)
      OBVIOUS
    <3> QED BY <3>1, AllPlaced
  <2>2. AgreeAfter(u, Results(u), Results(u), i)
    BY DEF AgreeAfter
  <2>3. Placed(u, first, i, "primary")
    BY <2>1, <2>2, PrimaryStep
  <2> QED BY <1>1, <2>3 DEF Placed
<1>6. SameUpTo(Results(t)[first.at]["operands"], more, k)
  BY <1>5 DEF SameAfter, SameRow
<1>7. Results(t)[first.at]["operands"] = more
  BY <1>2, <1>3, <1>6 DEF SameUpTo
<1> QED BY <1>1, <1>2, <1>4, <1>7 DEF ParseQuery

LEMMA ElementSame ==
  ASSUME NEW u \in Seq(Kinds), NEW t \in Seq(Kinds), OperatorAfter(u, t),
         NEW i \in 1..(Len(u) + 1), SameAfter(u, t, i), NEW what \in Lists,
         ParseElement(u, Results(u), i, what).st = "ok",
         ParseElement(u, Results(u), i, what).at # Len(u) + 1
  PROVE  ParseElement(t, Results(t), i, what) = ParseElement(u, Results(u), i, what)
<1>1. CASE what = "selectors"
  <2>1. ParseSelector(u, i).st = "ok"
    BY <1>1 DEF ParseElement
  <2>2. IsSelector(u, i, i + 3) /\ i + 3 <= Len(u) + 1
    BY <2>1, SelectorFacts
  <2>3. i \in 1..(Len(t) + 1) /\ i + 3 <= Len(t) + 1
    BY <2>2 DEF OperatorAfter
  <2>4. u[i] = t[i] /\ u[i + 1] = t[i + 1] /\ u[i + 2] = t[i + 2]
    BY <2>2 DEF OperatorAfter
  <2>5. IsSelector(t, i, i + 3)
    BY <2>2, <2>4 DEF IsSelector
  <2>6. ParseSelector(t, i).st = "ok"
    BY <2>3, <2>5, SelectorFacts
  <2>7. ParseSelector(t, i) = Done(i + 3, [node |-> "selector", at |-> i])
    BY <2>6, FailFacts DEF ParseSelector
  <2>8. ParseSelector(u, i) = Done(i + 3, [node |-> "selector", at |-> i])
    BY <2>1, FailFacts DEF ParseSelector
  <2> QED BY <1>1, <2>7, <2>8 DEF ParseElement
<1>2. CASE what = "labels"
  <2>1. ParseLabel(u, i).st = "ok"
    BY <1>2 DEF ParseElement
  <2>2. Peek(u, i) \in Idents
    BY <2>1, FailFacts DEF ParseLabel
  <2>3. Peek(u, i) # "EOF"
    BY <2>2 DEF Idents
  <2>4. Peek(t, i) = Peek(u, i)
    BY <2>3, PeekSame
  <2> QED BY <1>2, <2>4 DEF ParseElement, ParseLabel
<1>3. CASE what = "args"
  <2>1. SameUpTo(ParseQuery(t, Results(t), i), ParseQuery(u, Results(u), i), Len(u) + 1)
    BY QuerySame
  <2> QED BY <1>3, <2>1 DEF ParseElement, SameUpTo
<1> QED BY <1>1, <1>2, <1>3 DEF Lists

LEMMA ListSame ==
  ASSUME NEW u \in Seq(Kinds), NEW t \in Seq(Kinds), OperatorAfter(u, t),
         NEW i \in 1..(Len(u) + 1), SameAfter(u, t, i), NEW what \in Lists
  PROVE  SameResult(ParseList(t, Results(t), i, what), ParseList(u, Results(u), i, what))
<1> DEFINE e == ParseElement(u, Results(u), i, what)
           s == ParseList(u, Results(u), i, what)
           r == ParseList(t, Results(t), i, what)
<1> SUFFICES ASSUME s.st = "ok" PROVE r = s
  BY DEF SameResult
<1>0. i \in 1..(Len(u) + 1)
  OBVIOUS
<1>1. CASE Closes(u, i, what)
  <2>1. Closes(t, i, what)
    BY <1>0, <1>1, ClosesSame
  <2> QED BY <1>1, <2>1 DEF ParseList
<1>2. CASE ~Closes(u, i, what)
  <2>1. ~Closes(t, i, what)
    BY <1>0, <1>2, ClosesSame
  <2>2. e.st = "ok"
    BY <1>2 DEF ParseList
  <2>3. s = ParseNext(u, Results(u), e, what)
    BY <1>2, <2>2 DEF ParseList
  <2>4. CASE Peek(u, e.at) = ","
    <3> DEFINE more == Results(u)[e.at + 1][what]
    <3>1. e.at \in 1..Len(u)
      BY <2>4, PeekFacts
    <3>2. e.at # Len(u) + 1
      <4> HIDE DEF e
      <4> QED BY <3>1
    <3>3. ParseElement(t, Results(t), i, what) = e
      BY <2>2, <3>2, ElementSame
    <3>4. r = ParseNext(t, Results(t), e, what)
      BY <2>1, <2>2, <3>3 DEF ParseList
    <3>5. Peek(t, e.at) = ","
      BY <2>4, PeekSame
    <3>6. s = Before(e.tree, more) /\ r = Before(e.tree, Results(t)[e.at + 1][what])
      BY <2>3, <2>4, <3>4, <3>5 DEF ParseNext
    <3>7. more.st = "ok"
      BY <3>6, BeforeFacts
    <3>8. e.at + 1 \in (i + 1)..(Len(u) + 1)
      <4>1. e.at \in (i + 1)..(Len(u) + 1)
        <5>1. PlacedAfter(u, Results(u), i)
          <6>1. i \in 0..(Len(u) + 1)
            OBVIOUS
          <6> QED BY <6>1, AllPlaced
        <5>2. AgreeAfter(u, Results(u), Results(u), i)
          BY DEF AgreeAfter
        <5> QED BY <2>2, <5>1, <5>2, ElementStep
      <4> HIDE DEF e
      <4> QED BY <3>1, <4>1
    <3>9. Results(t)[e.at + 1][what] = more
      BY <3>7, <3>8 DEF SameAfter, SameRow, SameResult
    <3> QED BY <3>6, <3>9
  <2>5. CASE Peek(u, e.at) # "," /\ Closes(u, e.at, what)
    <3>1. e.at \in 1..Len(u)
      BY <2>5, ClosesFacts
    <3>2. e.at # Len(u) + 1 /\ e.at \in 1..(Len(u) + 1)
      <4> HIDE DEF e
      <4> QED BY <3>1
    <3>3. ParseElement(t, Results(t), i, what) = e
      BY <2>2, <3>2, ElementSame
    <3>4. r = ParseNext(t, Results(t), e, what)
      BY <2>1, <2>2, <3>3 DEF ParseList
    <3>5. Closes(t, e.at, what)
      BY <2>5, <3>2, ClosesSame
    <3>6. Peek(t, e.at) # ","
      BY <3>5, ClosesFacts
    <3> HIDE DEF e, s, r
    <3>7. s = Done(e.at + 1, <<e.tree>>) /\ r = Done(e.at + 1, <<e.tree>>)
      BY <2>3, <2>5, <3>4, <3>5, <3>6 DEF ParseNext
    <3> QED BY <3>7 DEF r, s
  <2>6. CASE Peek(u, e.at) # "," /\ ~Closes(u, e.at, what)
    <3>1. s = Fail(e.at)
      BY <2>3, <2>6 DEF ParseNext
    <3> QED BY <3>1, FailFacts
  <2> QED BY <2>4, <2>5, <2>6
<1> QED BY <1>1, <1>2

LEMMA AllSame ==
  ASSUME NEW u \in Seq(Kinds), NEW t \in Seq(Kinds), OperatorAfter(u, t),
         NEW i \in 1..(Len(u) + 1)
  PROVE  SameRow(u, t, i)
<1> DEFINE n == Len(u) + 1
           T == {j \in 1..n : ~SameRow(u, t, j)}
<1>1. SUFFICES ASSUME T # {} PROVE FALSE
  OBVIOUS
<1>2. T \in SUBSET (1..n) /\ n \in Nat
  OBVIOUS
<1> HIDE DEF T
<1>3. PICK x \in T : \A y \in T : y <= x
  BY <1>1, <1>2, Greatest
<1>4. x \in 1..n /\ ~SameRow(u, t, x)
  BY <1>3 DEF T
<1>5. ASSUME NEW j \in (x + 1)..n PROVE SameRow(u, t, j)
  <2>1. j \in 1..n /\ ~(j <= x)
    BY <1>4
  <2>2. j \notin T
    BY <1>3, <2>1
  <2> QED BY <2>1, <2>2 DEF T
<1>6. SameAfter(u, t, x)
  BY <1>5 DEF SameAfter
<1>7. x \in 1..(Len(t) + 1)
  BY <1>4 DEF OperatorAfter
<1>8. SameResult(Results(t)[x]["primary"], Results(u)[x]["primary"])
  BY <1>4, <1>6, <1>7, PrimarySame, ResultIs
<1>9. ASSUME NEW what \in Lists PROVE SameResult(Results(t)[x][what], Results(u)[x][what])
  BY <1>4, <1>6, <1>7, ListSame, ResultIs
<1>10. SameUpTo(Results(t)[x]["query"], Results(u)[x]["query"], Len(u) + 1)
  BY <1>4, <1>6, <1>7, QuerySame, ResultIs
<1>11. /\ SameUpTo(Results(t)[x]["operands"], Results(u)[x]["operands"], Len(u) + 1)
       /\ Resumed(Results(t)[x]["operands"], Results(u)[x]["operands"], Len(u) + 1,
                  Results(t)[Len(u) + 1]["operands"])
  BY <1>4, <1>6, <1>7, OperandsSame, ResultIs
<1>12. SameRow(u, t, x)
  BY <1>8, <1>9, <1>10, <1>11 DEF SameRow
<1> QED BY <1>4, <1>12

-----------------------------------------------------------------------------
(* Grouping from the left: the last operand is the last to be joined.      *)

\* what comes of the first m operands, for each m
LeftOf(first, operands, left, m) ==
  /\ left = [k \in 0..m |-> left[k]]
  /\ left[0] = first
  /\ \A k \in 1..m : left[k] = [node |-> "binary", at |-> operands[k].at,
                                left |-> left[k - 1], right |-> operands[k].tree]

LEMMA LeftExists ==
  ASSUME NEW first, NEW operands, NEW m \in Nat
  PROVE  \E left : LeftOf(first, operands, left, m)
<1> DEFINE Bad == {l \in Nat : ~ \E left : LeftOf(first, operands, left, l)}
<1>1. Bad = {}
  <2>1. SUFFICES ASSUME Bad # {} PROVE FALSE
    OBVIOUS
  <2>2. Bad \in SUBSET Nat
    OBVIOUS
  <2> HIDE DEF Bad
  <2>3. PICK x \in Bad : \A y \in Bad : x <= y
    BY <2>1, <2>2, Least
  <2>4. x \in Nat /\ ~ \E left : LeftOf(first, operands, left, x)
    BY <2>3 DEF Bad
  <2>5. CASE x = 0
    <3> DEFINE left == [k \in 0..0 |-> first]
    <3>1. left = [k \in 0..0 |-> left[k]] /\ left[0] = first /\ 1..0 = {}
      OBVIOUS
    <3> HIDE DEF left
    <3>2. LeftOf(first, operands, left, 0)
      BY <3>1 DEF LeftOf
    <3> QED BY <2>4, <2>5, <3>2
  <2>6. CASE x # 0
    <3>1. x - 1 \in Nat /\ ~(x <= x - 1)
      BY <2>4, <2>6
    <3>2. PICK less : LeftOf(first, operands, less, x - 1)
      BY <2>3, <3>1 DEF Bad
    <3> DEFINE top == [node |-> "binary", at |-> operands[x].at,
                       left |-> less[x - 1], right |-> operands[x].tree]
               left == [k \in 0..x |-> IF k = x THEN top ELSE less[k]]
    <3>3. left = [k \in 0..x |-> left[k]]
      OBVIOUS
    <3>4. left[x] = top /\ \A k \in 0..(x - 1) : left[k] = less[k]
      <4> HIDE DEF top
      <4> QED BY <2>4
    <3> HIDE DEF left
    <3>5. left[0] = first
      BY <3>1, <3>2, <3>4 DEF LeftOf
    <3>6. ASSUME NEW k \in 1..x
          PROVE  left[k] = [node |-> "binary", at |-> operands[k].at,
                            left |-> left[k - 1], right |-> operands[k].tree]
      <4>1. k - 1 \in 0..(x - 1)
        BY <2>4
      <4>2. left[k - 1] = less[k - 1]
        BY <3>4, <4>1
      <4>3. CASE k = x
        BY <3>4, <4>2, <4>3
      <4>4. CASE k # x
        <5>1. k \in 1..(x - 1) /\ k \in 0..(x - 1)
          BY <2>4, <4>4
        <5>2. less[k] = [node |-> "binary", at |-> operands[k].at,
                         left |-> less[k - 1], right |-> operands[k].tree]
          BY <3>2, <5>1 DEF LeftOf
        <5>3. left[k] = less[k]
          BY <3>4, <5>1
        <5> QED BY <4>2, <5>2, <5>3
      <4> QED BY <4>3, <4>4
    <3>7. LeftOf(first, operands, left, x)
      BY <3>3, <3>5, <3>6 DEF LeftOf
    <3> QED BY <2>4, <3>7
  <2> QED BY <2>5, <2>6
<1> QED BY <1>1

LEMMA GroupedIs ==
  ASSUME NEW first, NEW operands, Len(operands) \in Nat
  PROVE  \E left : /\ LeftOf(first, operands, left, Len(operands))
                   /\ Grouped(first, operands) = left[Len(operands)]
<1> DEFINE m == Len(operands)
           F(l) == [k \in 0..Len(operands) |->
                      IF k = 0 THEN first
                      ELSE [node |-> "binary", at |-> operands[k].at,
                            left |-> l[k - 1], right |-> operands[k].tree]]
           c == CHOOSE l : l = F(l)
<1>1. PICK d : LeftOf(first, operands, d, m)
  BY LeftExists
<1>2. d = F(d)
  <2>1. d = [k \in 0..m |-> d[k]]
    BY <1>1 DEF LeftOf
  <2>2. ASSUME NEW k \in 0..m
        PROVE  d[k] = IF k = 0 THEN first
                      ELSE [node |-> "binary", at |-> operands[k].at,
                            left |-> d[k - 1], right |-> operands[k].tree]
    <3>1. CASE k = 0
      BY <1>1, <3>1 DEF LeftOf
    <3>2. CASE k # 0
      <4>1. k \in 1..m
        BY <3>2
      <4> QED BY <1>1, <3>2, <4>1 DEF LeftOf
    <3> QED BY <3>1, <3>2
  <2> QED BY <2>1, <2>2
<1>3. Grouped(first, operands) = c[m]
  BY DEF Grouped
<1> HIDE DEF F
<1>4. c = F(c)
  BY <1>2
<1> HIDE DEF c
<1>5. c = [k \in 0..m |-> IF k = 0 THEN first
                          ELSE [node |-> "binary", at |-> operands[k].at,
                                left |-> c[k - 1], right |-> operands[k].tree]]
  BY <1>4 DEF F
<1>6. c = [k \in 0..m |-> c[k]]
  BY <1>5
<1>7. c[0] = first
  BY <1>5
<1>8. ASSUME NEW k \in 1..m
      PROVE  c[k] = [node |-> "binary", at |-> operands[k].at,
                     left |-> c[k - 1], right |-> operands[k].tree]
  <2>1. k \in 0..m /\ k # 0
    OBVIOUS
  <2> QED BY <1>5, <2>1
<1>9. LeftOf(first, operands, c, m)
  BY <1>6, <1>7, <1>8 DEF LeftOf
<1> QED BY <1>3, <1>9

StartAlike(a, b, m) == \A k \in 1..m : a[k] = b[k]

LEMMA LeftIsOne ==
  ASSUME NEW first, NEW a, NEW b, NEW l, NEW r, NEW m \in Nat, NEW p \in Nat, m <= p,
         LeftOf(first, a, l, m), LeftOf(first, b, r, p), StartAlike(a, b, m)
  PROVE  l[m] = r[m]
<1> DEFINE Bad == {k \in Nat : k <= m /\ l[k] # r[k]}
<1>1. Bad = {}
  <2>1. SUFFICES ASSUME Bad # {} PROVE FALSE
    OBVIOUS
  <2>2. Bad \in SUBSET Nat
    OBVIOUS
  <2> HIDE DEF Bad
  <2>3. PICK x \in Bad : \A y \in Bad : x <= y
    BY <2>1, <2>2, Least
  <2>4. x \in Nat /\ x <= m /\ l[x] # r[x]
    BY <2>3 DEF Bad
  <2>5. x # 0
    BY <2>4 DEF LeftOf
  <2>6. x - 1 \in Nat /\ ~(x <= x - 1) /\ x - 1 <= m /\ x \in 1..m /\ x \in 1..p
    BY <2>4, <2>5
  <2>7. l[x - 1] = r[x - 1]
    BY <2>3, <2>6 DEF Bad
  <2>8. l[x] = [node |-> "binary", at |-> a[x].at, left |-> l[x - 1], right |-> a[x].tree]
    BY <2>6 DEF LeftOf
  <2>9. r[x] = [node |-> "binary", at |-> b[x].at, left |-> r[x - 1], right |-> b[x].tree]
    BY <2>6 DEF LeftOf
  <2>10. a[x] = b[x]
    BY <2>6 DEF StartAlike
  <2> QED BY <2>4, <2>7, <2>8, <2>9, <2>10
<1> QED BY <1>1

LEMMA GroupedOneMore ==
  ASSUME NEW first, NEW operands, IsSequence(operands), NEW x
  PROVE  Grouped(first, operands \o <<x>>) =
           [node |-> "binary", at |-> x.at, left |-> Grouped(first, operands), right |-> x.tree]
<1> DEFINE m == Len(operands)
           more == operands \o <<x>>
<1>1. /\ m \in Nat /\ Len(more) = m + 1 /\ more[m + 1] = x
      /\ \A k \in 1..m : operands[k] = more[k]
  <2>1. PICK S : operands \in Seq(S)
    BY DEF IsSequence
  <2> DEFINE U == S \cup {x}
  <2>2. operands \in Seq(U) /\ <<x>> \in Seq(U)
    BY <2>1
  <2> HIDE DEF U
  <2> QED BY <2>2
<1> HIDE DEF m, more
<1>2. PICK l : LeftOf(first, operands, l, m) /\ Grouped(first, operands) = l[m]
  BY <1>1, GroupedIs DEF m
<1>3. Len(more) \in Nat
  BY <1>1
<1>4. PICK r : LeftOf(first, more, r, m + 1) /\ Grouped(first, more) = r[m + 1]
  BY <1>1, <1>3, GroupedIs
<1>5. l[m] = r[m]
  <2> DEFINE p == m + 1
  <2>1. m \in Nat /\ p \in Nat /\ m <= p
    BY <1>1
  <2>2. LeftOf(first, operands, l, m) /\ LeftOf(first, more, r, p)
    BY <1>2, <1>4
  <2>3. StartAlike(operands, more, m)
    BY <1>1 DEF StartAlike
  <2> HIDE DEF p
  <2> QED BY <2>1, <2>2, <2>3, LeftIsOne
<1>6. r[m + 1] = [node |-> "binary", at |-> more[m + 1].at, left |-> r[(m + 1) - 1],
                  right |-> more[m + 1].tree]
  <2>1. m + 1 \in 1..(m + 1)
    BY <1>1
  <2> QED BY <1>4, <2>1 DEF LeftOf
<1>7. (m + 1) - 1 = m
  BY <1>1
<1> QED BY <1>1, <1>2, <1>4, <1>5, <1>6, <1>7 DEF more

LEMMA OperatorLast ==
  ASSUME NEW t \in Seq(Kinds), NEW k \in 1..Len(t), t[k] = "op",
         "primary" \in Phrases(t)[k + 1][Len(t) + 1]
  PROVE  /\ EndsAt(Results(t)[k + 1]["primary"], Len(t) + 1)
         /\ Results(t)[k]["operands"] =
              Done(Len(t) + 1, <<[at |-> k, tree |-> Results(t)[k + 1]["primary"].tree]>>)
<1> DEFINE n == Len(t) + 1
           right == Results(t)[k + 1]["primary"]
           x == [at |-> k, tree |-> right.tree]
           none == Results(t)[n]["operands"]
<1>1. k + 1 \in 1..n /\ n \in 1..n /\ k \in 1..n
  OBVIOUS
<1>2. Peek(t, n) = "EOF" /\ Peek(t, k) = "op"
  BY DEF Peek
<1>3. Follows(t, n) /\ Peek(t, n) # "op"
  BY <1>2 DEF Follows
<1>4. CompletePrimary(t, k + 1, n)
  BY <1>1, AllComplete DEF Complete
<1>5. EndsAt(right, n)
  BY <1>3, <1>4 DEF CompletePrimary
<1>6. EndsAt(none, n) /\ none.tree = <<>>
  BY <1>1, <1>3, NoOperands
<1>7. Results(t)[k]["operands"] = ParseOperands(t, Results(t), k)
  BY <1>1, ResultIs
<1>8. right.st = "ok" /\ right.at = n
  BY <1>5 DEF EndsAt
<1>9. ParseOperands(t, Results(t), k) = Before(x, none)
  BY <1>2, <1>8 DEF ParseOperands
<1> HIDE DEF none, x
<1>10. none.st = "ok" /\ none.at = n
  BY <1>6 DEF EndsAt
<1>11. Before(x, none) = Done(n, <<x>> \o <<>>)
  BY <1>6, <1>10 DEF Before
<1>12. <<x>> \o <<>> = <<x>>
  BY OneIsSequence, ConcatFacts
<1> QED BY <1>5, <1>7, <1>9, <1>11, <1>12 DEF x

LEMMA LastIsGrouped ==
  ASSUME NEW t \in Seq(Kinds), NEW u \in Seq(Kinds), OperatorAfter(u, t), IsQuery(u),
         "primary" \in Phrases(t)[Len(u) + 2][Len(t) + 1]
  PROVE  Parse(t).tree = [node |-> "binary", at |-> Len(u) + 1, left |-> Parse(u).tree,
                          right |-> Results(t)[Len(u) + 2]["primary"].tree]
<1> DEFINE k == Len(u) + 1
           n == Len(t) + 1
           right == Results(t)[k + 1]["primary"]
           x == [at |-> k, tree |-> right.tree]
           rest == Results(t)[k]["operands"]
           first == ParsePrimary(u, Results(u), 1)
           more == Results(u)[first.at]["operands"]
           more2 == Results(t)[first.at]["operands"]
<1>1. /\ k + 1 = Len(u) + 2 /\ k \in 1..Len(t) /\ t[k] = "op"
      /\ 1 \in 1..(Len(u) + 1) /\ 1 \in 1..(Len(t) + 1)
  BY DEF OperatorAfter
<1>2. "primary" \in Phrases(t)[k + 1][n]
  BY <1>1
<1>3. rest = Done(n, <<x>>)
  BY <1>1, <1>2, OperatorLast
<1>4. rest.st = "ok" /\ rest.at = n /\ rest.tree = <<x>>
  <2> HIDE DEF x, rest
  <2> QED BY <1>3, DoneFacts
<1>5. Parse(u) = ParseQuery(u, Results(u), 1) /\ Parse(t) = ParseQuery(t, Results(t), 1)
  BY <1>1, ResultIs DEF Parse
<1>6. ParseQuery(u, Results(u), 1).st = "ok" /\ ParseQuery(u, Results(u), 1).at = k
  BY <1>5, AcceptedIsLanguage DEF Valid
<1>7. first.st = "ok"
  BY <1>6 DEF ParseQuery
<1>8. more.st = "ok"
  BY <1>6, <1>7 DEF ParseQuery
<1>9. ParseQuery(u, Results(u), 1) = Done(more.at, Grouped(first.tree, more.tree))
  BY <1>7, <1>8 DEF ParseQuery
<1>10. more.at = k /\ Parse(u).tree = Grouped(first.tree, more.tree)
  BY <1>5, <1>6, <1>9, DoneFacts
<1>11. ParsePrimary(t, Results(t), 1) = first
  <2>1. SameResult(Results(t)[1]["primary"], Results(u)[1]["primary"])
    BY <1>1, AllSame DEF SameRow
  <2>2. Results(t)[1]["primary"] = ParsePrimary(t, Results(t), 1) /\ Results(u)[1]["primary"] = first
    BY <1>1, ResultIs
  <2> QED BY <1>7, <2>1, <2>2 DEF SameResult
<1>12. first.at \in 1..(Len(u) + 1)
  <2>1. Placed(u, Results(u)[1]["primary"], 1, "primary")
    BY <1>1, GoalNames, ResultsFacts
  <2>2. Results(u)[1]["primary"] = first
    BY <1>1, ResultIs
  <2> QED BY <1>7, <2>1, <2>2 DEF Placed
<1>13. Resumed(more2, more, k, rest)
  BY <1>12, AllSame DEF SameRow
<1>14. IsSequence(more.tree)
  <2>1. Placed(u, more, first.at, "operands")
    BY <1>12, GoalNames, ResultsFacts
  <2> QED BY <1>8, <2>1 DEF Placed
<1> HIDE DEF k, n, right, x, rest, first, more
<1>15. more2 = Done(n, more.tree \o <<x>>)
  BY <1>4, <1>8, <1>10, <1>13 DEF Resumed
<1>16. more2.st = "ok" /\ more2.at = n /\ more2.tree = more.tree \o <<x>>
  <2> HIDE DEF more2
  <2> QED BY <1>15 DEF Done
<1>17. ParseQuery(t, Results(t), 1) = Done(more2.at, Grouped(first.tree, more2.tree))
  BY <1>7, <1>11, <1>16 DEF ParseQuery
<1>18. Parse(t).tree = Grouped(first.tree, more.tree \o <<x>>)
  BY <1>5, <1>16, <1>17, DoneFacts
<1>19. Grouped(first.tree, more.tree \o <<x>>) =
         [node |-> "binary", at |-> x.at, left |-> Grouped(first.tree, more.tree), right |-> x.tree]
  <2> DEFINE a == first.tree
             b == more.tree
  <2>1. IsSequence(b)
    BY <1>14
  <2> HIDE DEF a, b
  <2>2. Grouped(a, b \o <<x>>) =
         [node |-> "binary", at |-> x.at, left |-> Grouped(a, b), right |-> x.tree]
    BY <2>1, GroupedOneMore
  <2> QED BY <2>2 DEF a, b
<1>20. x.at = k /\ x.tree = right.tree
  BY DEF x
<1> QED BY <1>1, <1>10, <1>18, <1>19, <1>20 DEF k, right

THEOREM EveryQueryIsParsed ==
  ASSUME toks \in Seq(Kinds)
  PROVE  ParsesTheLanguage
<1>1. (Valid(toks) /\ Parse(toks).at = Len(toks) + 1) <=> IsQuery(toks)
  BY AcceptedIsLanguage
<1>2. GroupsFromTheLeft
  <2> SUFFICES ASSUME NEW k \in DOMAIN toks,
                      toks[k] = "op", IsQuery(SubSeq(toks, 1, k - 1)),
                      "primary" \in Phrases(toks)[k + 1][Len(toks) + 1]
               PROVE  Parse(toks).tree =
                        [node |-> "binary", at |-> k,
                         left |-> Parse(SubSeq(toks, 1, k - 1)).tree,
                         right |-> Results(toks)[k + 1]["primary"].tree]
    BY DEF GroupsFromTheLeft
  <2> DEFINE u == SubSeq(toks, 1, k - 1)
  <2>1. k \in 1..Len(toks)
    OBVIOUS
  <2>2. u \in Seq(Kinds) /\ Len(u) = k - 1 /\ \A i \in 1..Len(u) : u[i] = toks[i]
    BY <2>1
  <2>3. OperatorAfter(u, toks)
    BY <2>1, <2>2 DEF OperatorAfter
  <2>4. Len(u) + 1 = k /\ Len(u) + 2 = k + 1
    BY <2>1, <2>2
  <2>5. IsQuery(u) /\ "primary" \in Phrases(toks)[Len(u) + 2][Len(toks) + 1]
    BY <2>4
  <2> HIDE DEF u
  <2>6. Parse(toks).tree = [node |-> "binary", at |-> Len(u) + 1, left |-> Parse(u).tree,
                            right |-> Results(toks)[Len(u) + 2]["primary"].tree]
    BY <2>2, <2>3, <2>5, LastIsGrouped
  <2> QED BY <2>4, <2>6 DEF u
<1> QED BY <1>1, <1>2 DEF ParsesTheLanguage

-----------------------------------------------------------------------------
(* Whatever is typed is a text over the alphabet and a query of the kinds  *)
(* of tokens.                                                              *)
Typed == text \in Seq(Alphabet) /\ toks \in Seq(Kinds)

LEMMA AlwaysTyped == Spec => []Typed
<1>1. Init => Typed
  BY DEF Init, Typed
<1>2. Typed /\ [Next]_<<text, toks>> => Typed'
  <2> SUFFICES ASSUME Typed, [Next]_<<text, toks>>
               PROVE  Typed'
    OBVIOUS
  <2>1. CASE TypeText
    <3>1. PICK c \in Alphabet : TypeCharacter(c)
      BY <2>1 DEF TypeText
    <3>2. text' = Append(text, c) /\ toks' = toks
      BY <2>1, <3>1 DEF TypeText, TypeCharacter
    <3>3. text' \in Seq(Alphabet)
      BY <3>2 DEF Typed
    <3> QED BY <3>2, <3>3 DEF Typed
  <2>2. CASE TypeQuery
    <3>1. PICK k \in Kinds : TypeToken(k)
      BY <2>2 DEF TypeQuery
    <3>2. toks' = Append(toks, k) /\ text' = text
      BY <2>2, <3>1 DEF TypeQuery, TypeToken
    <3>3. toks' \in Seq(Kinds)
      BY <3>2 DEF Typed
    <3> QED BY <3>2, <3>3 DEF Typed
  <2>3. CASE UNCHANGED <<text, toks>>
    BY <2>3 DEF Typed
  <2> QED BY <2>1, <2>2, <2>3 DEF Next
<1> QED BY <1>1, <1>2, PTL DEF Spec

(* Every text that comes about by typing is cut into its longest words     *)
(* (Parser.tokenize).                                                      *)
THEOREM TypedTextsAreCut == Spec => []LongestWords
<1>1. Typed => LongestWords
  BY EveryTextIsCut DEF Typed
<1> QED BY <1>1, AlwaysTyped, PTL

(* Every query that comes about by typing is parsed as the language has it *)
(* (Parser.Parse).                                                         *)
THEOREM TypedQueriesAreParsed == Spec => []ParsesTheLanguage
<1>1. Typed => ParsesTheLanguage
  BY EveryQueryIsParsed DEF Typed
<1> QED BY <1>1, AlwaysTyped, PTL
=============================================================================
