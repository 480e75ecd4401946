------------------------------ MODULE QueryLexer ------------------------------
(***************************************************************************)
(* How a query's text is cut into tokens (Parser.tokenize). A character    *)
(* stands for its class: x for the letters and s for those that are also   *)
(* units of a duration (s, m, h, d), b and y spell the keyword by as and   *)
(* and or are spelt, 5 a digit, { the punctuation that starts nothing      *)
(* longer, < both comparisons, # what no token starts with.                *)
(***************************************************************************)
EXTENDS Integers, Sequences, SequencesExt

CONSTANTS
  Alphabet,    \* the characters that are typed
  MaxLength    \* how many of them

VARIABLE text

Alpha == {"x", "s", "b", "y"}
Units == {"s"}
Digits == {"5"}
Blank == " "
Quote == "\""
Backslash == "\\"
Singles == {"{", "=", "<"}
Pairs == {<<"!", "=">>, <<"=", "~">>, <<"!", "~">>, <<"<", "=">>, <<"=", "=">>}
By == <<"b", "y">>
WordChars == Alpha \cup Digits \cup {"_"}

Slice(t, i, j) == SubSeq(t, i, j - 1)   \* the Go slice t[i:j]

-----------------------------------------------------------------------------
(* the first position from p on that is not in C *)
RunEnd(t, p, C) == Min({q \in p..(Len(t) + 1) : q > Len(t) \/ t[q] \notin C})

\* Faulty: a backslash does not escape.
ClosingQuoteNext(t, p) == RunEnd(t, p, Alphabet \ {Quote})

(* the quote that closes the string whose text starts at p, or the end *)
ClosingQuote(t, p) ==
  LET n == Len(t)
      from[i \in p..(n + 1)] ==
        IF i > n \/ t[i] = Quote THEN i
        ELSE IF t[i] = Backslash /\ i < n THEN from[i + 2] ELSE from[i + 1]
  IN  from[p]

NumberEnd(t, p) ==
  LET q == RunEnd(t, p, Digits \cup {"."})
  IN  IF q <= Len(t) /\ t[q] \in Units THEN q + 1 ELSE q

Token(kind, i, j) == [kind |-> kind, from |-> i, to |-> j]
Nothing(p) == Token("error", p, p)

(* the token at p, tried in the order of the code; `to' is behind it *)
NextToken(t, p) ==
  IF p < Len(t) /\ <<t[p], t[p + 1]>> \in Pairs THEN Token("op", p, p + 2)
  ELSE IF t[p] \in Singles THEN Token("op", p, p + 1)
  ELSE IF t[p] = Quote
       THEN LET q == ClosingQuote(t, p + 1)
            IN  IF q > Len(t) THEN Nothing(p) ELSE Token("string", p, q + 1)
  ELSE IF t[p] \in Alpha
       THEN LET q == RunEnd(t, p, WordChars)
            IN  Token(IF Slice(t, p, q) = By THEN "by" ELSE "ident", p, q)
  ELSE IF t[p] \in Digits THEN Token("number", p, NumberEnd(t, p))
  ELSE Nothing(p)

(* the tokens from each position on; an error is the last of them *)
Tokenize(t) ==
  LET n == Len(t)
      rest[p \in 1..(n + 1)] ==
        IF p > n THEN <<Token("EOF", p, p)>>
        ELSE IF t[p] = Blank THEN rest[p + 1]
        ELSE LET k == NextToken(t, p)
             IN  IF k.kind = "error" THEN <<k>> ELSE <<k>> \o rest[k.to]
  IN  rest[1]

-----------------------------------------------------------------------------
(* A text is typed on while it has tokens or an open string.               *)

OpenText(t) == LET k == Last(Tokenize(t)) IN k.kind = "error" => t[k.from] \in {Quote, "!"}

TypeCharacter(c) ==
  /\ Len(text) < MaxLength
  /\ OpenText(text)
  /\ text' = Append(text, c)

-----------------------------------------------------------------------------
(* The words of the language, declared.                                    *)

Backslashes(s, i) ==   \* how many backslashes stand directly before i
  Max({k \in 0..(i - 1) : \A j \in (i - k)..(i - 1) : s[j] = Backslash})

IsWord(s, kind) ==
  /\ s # <<>>
  /\ CASE kind = "op" -> s \in Pairs \/ (Len(s) = 1 /\ s[1] \in Singles)
       [] kind = "by" -> s = By
       [] kind = "ident" -> s # By /\ s[1] \in Alpha /\ ToSet(s) \subseteq WordChars
       [] kind = "number" ->
            /\ s[1] \in Digits
            /\ ToSet(Front(s)) \subseteq Digits \cup {"."}
            /\ Last(s) \in Digits \cup {"."} \cup Units
       [] kind = "string" ->
            /\ Len(s) > 1 /\ s[1] = Quote /\ Last(s) = Quote
            /\ \A i \in 2..Len(s) :
                 s[i] = Quote => (Backslashes(s, i) % 2 = IF i = Len(s) THEN 0 ELSE 1)

Words == {"op", "by", "ident", "number", "string"}
WordAt(t, i, j) == \E kind \in Words : IsWord(Slice(t, i, j), kind)

(* Every text is cut greedily: each token is a word of its kind and the    *)
(* longest word that starts where it starts, nothing but blanks lies       *)
(* between two tokens, and tokenize fails only where no word starts.       *)
LongestWords ==
  LET toks == Tokenize(text)
      n == Len(text)
  IN  /\ \A k \in DOMAIN toks :
           LET tok == toks[k]
               before == IF k = 1 THEN 1 ELSE toks[k - 1].to
           IN  /\ ToSet(Slice(text, before, tok.from)) \subseteq {Blank}
               /\ tok.kind \in Words => /\ IsWord(Slice(text, tok.from, tok.to), tok.kind)
                                        /\ \A j \in (tok.to + 1)..(n + 1) : ~WordAt(text, tok.from, j)
      /\ CASE Last(toks).kind = "EOF" -> Last(toks).from = n + 1
           [] Last(toks).kind = "error" -> \A j \in 1..(n + 1) : ~WordAt(text, Last(toks).from, j)
=============================================================================
