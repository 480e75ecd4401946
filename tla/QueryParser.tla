----------------------------- MODULE QueryParser -----------------------------
(***************************************************************************)
(* The recursive-descent parser of Lawrence QL (internal/query/parser.go). *)
(* A query is the sequence of the kinds of its tokens:                     *)
(*   "type"    the word metrics, logs or traces;                           *)
(*   "ident"   any other word but and, or, by;                             *)
(*   "string", "quoted"  a quoted text, one that reads as a duration;      *)
(*   "number"  a number with the unit of a duration;                       *)
(*   "sel"     one of = != =~ !~;   "op" one of the ten binary operators;  *)
(*   "by" and the punctuation stand for themselves.                        *)
(* Where the code looks at the value of a token only to copy it into the   *)
(* tree, the tree here has the token's position. A user types the query    *)
(* token by token, and every state shows what Parse makes of it.           *)
(***************************************************************************)
EXTENDS Integers, Sequences, SequencesExt

CONSTANTS
  Kinds,      \* the kinds of tokens that are typed
  MaxTokens   \* how many of them

VARIABLE toks

Idents == {"type", "ident"}       \* TokenIdentifier
Strings == {"string", "quoted"}   \* TokenString
Durations == {"number", "quoted"} \* what parseDuration accepts, whatever its type

-----------------------------------------------------------------------------
(* Results: "ok" with the tree and the position after it, "error" with the *)
(* position of the offending token, "panic" for an index out of range.     *)

Done(i, tree) == [st |-> "ok", at |-> i, tree |-> tree]
Fail(i) == [st |-> "error", at |-> i, tree |-> <<>>]
Panic(i) == [st |-> "panic", at |-> i, tree |-> <<>>]

(* the result r of the rest of a loop, with what came before it *)
Before(x, r) == IF r.st = "ok" THEN Done(r.at, <<x>> \o r.tree) ELSE r

\* the token at position i, EOF beyond the end
Peek(t, i) == IF i \in DOMAIN t THEN t[i] ELSE "EOF"

\* whether the token at i ends the list inside its kind of bracket
Closes(t, i, what) == Peek(t, i) = IF what = "selectors" THEN "}" ELSE ")"

ParseSelector(t, i) ==
  LET expected == <<Idents, {"sel"}, Idents \cup Strings>>
      wrong == {k \in 1..3 : Peek(t, i + k - 1) \notin expected[k]}
  IN  IF wrong = {}
      THEN Done(i + 3, [node |-> "selector", at |-> i])
      ELSE Fail(i + Min(wrong) - 1)

\* one name after "by ("
ParseLabel(t, i) == IF Peek(t, i) \in Idents THEN Done(i + 1, i) ELSE Fail(i)

\* Faulty: the closing bracket is not required.
ParseRangeOpen(t, i, selectors) ==
  LET tree(range) == [node |-> "telemetry", selectors |-> selectors, range |-> range]
  IN  IF Peek(t, i) # "[" THEN Done(i, tree(0))
      ELSE IF Peek(t, i + 1) \notin Durations THEN Fail(i + 1)
      ELSE Done(i + 2, tree(i))

\* the optional [duration] after the selectors
ParseRange(t, i, selectors) ==
  LET tree(range) == [node |-> "telemetry", selectors |-> selectors, range |-> range]
  IN  IF Peek(t, i) # "[" THEN Done(i, tree(0))
      ELSE IF Peek(t, i + 1) \notin Durations THEN Fail(i + 1)
      ELSE IF Peek(t, i + 2) # "]" THEN Fail(i + 2)
      ELSE Done(i + 3, tree(i))

-----------------------------------------------------------------------------
(* The descent. later[i][goal] is what parsing for the goal from position  *)
(* i on comes to; whoever calls has consumed a token before it.            *)

ParseTelemetryQuery(t, later, i) ==
  LET selectors == later[i + 2]["selectors"]
  IN  IF Peek(t, i + 1) # "{" THEN Fail(i + 1)
      ELSE IF selectors.st # "ok" THEN selectors
      ELSE ParseRange(t, selectors.at, selectors.tree)

\* what follows the arguments: nothing, or "by (...)", which needs args[0]
ParseBy(t, later, name, args) ==
  LET labels == later[args.at + 2]["labels"]
  IN  IF Peek(t, args.at) # "by"
      THEN Done(args.at, [node |-> "call", name |-> name, args |-> args.tree])
      ELSE IF Peek(t, args.at + 1) # "(" THEN Fail(args.at + 1)
      ELSE IF labels.st # "ok" THEN labels
      ELSE IF args.tree = <<>> THEN Panic(labels.at)
      ELSE Done(labels.at, [node |-> "aggregation", name |-> name,
                            query |-> args.tree[1], by |-> labels.tree])

ParseFunctionCall(t, later, i) ==
  LET args == later[i + 2]["args"]
  IN  IF Peek(t, i + 1) # "(" THEN Fail(i + 1)
      ELSE IF args.st # "ok" THEN args
      ELSE ParseBy(t, later, i, args)

ParseParenthesized(t, later, i) ==
  LET query == later[i + 1]["query"]
  IN  IF query.st # "ok" THEN query
      ELSE IF Peek(t, query.at) # ")" THEN Fail(query.at)
      ELSE Done(query.at + 1, query.tree)

ParsePrimary(t, later, i) ==
  CASE Peek(t, i) = "type" -> ParseTelemetryQuery(t, later, i)
    [] Peek(t, i) = "ident" -> ParseFunctionCall(t, later, i)
    [] Peek(t, i) = "(" -> ParseParenthesized(t, later, i)
    [] OTHER -> Fail(i)

\* the loop of parseBinaryOp: operators, each with the operand on its right
ParseOperands(t, later, i) ==
  LET right == later[i + 1]["primary"]
  IN  IF Peek(t, i) # "op" THEN Done(i, <<>>)
      ELSE IF right.st # "ok" THEN right
      ELSE Before([at |-> i, tree |-> right.tree], later[right.at]["operands"])

\* Faulty: the loop puts what it has so far on the right.
GroupedAround(first, operands) ==
  LET left[k \in 0..Len(operands)] ==
        IF k = 0 THEN first
        ELSE [node |-> "binary", at |-> operands[k].at,
              left |-> operands[k].tree, right |-> left[k - 1]]
  IN  left[Len(operands)]

\* `left' after each turn of the loop
Grouped(first, operands) ==
  LET left[k \in 0..Len(operands)] ==
        IF k = 0 THEN first
        ELSE [node |-> "binary", at |-> operands[k].at,
              left |-> left[k - 1], right |-> operands[k].tree]
  IN  left[Len(operands)]

ParseQuery(t, later, i) ==
  LET first == ParsePrimary(t, later, i)
      operands == later[first.at]["operands"]
  IN  IF first.st # "ok" THEN first
      ELSE IF operands.st # "ok" THEN operands
      ELSE Done(operands.at, Grouped(first.tree, operands.tree))

ParseElement(t, later, i, what) ==
  CASE what = "selectors" -> ParseSelector(t, i)
    [] what = "args" -> ParseQuery(t, later, i)
    [] what = "labels" -> ParseLabel(t, i)

\* after element e of a list: a comma, and the rest of it, or the closer
ParseNext(t, later, e, what) ==
  IF Peek(t, e.at) = "," THEN Before(e.tree, later[e.at + 1][what])
  ELSE IF Closes(t, e.at, what) THEN Done(e.at + 1, <<e.tree>>)
  ELSE Fail(e.at)

\* the three loops over comma-separated elements; a comma may precede the closer
ParseList(t, later, i, what) ==
  LET e == ParseElement(t, later, i, what)
  IN  IF Closes(t, i, what) THEN Done(i + 1, <<>>)
      ELSE IF e.st # "ok" THEN e
      ELSE ParseNext(t, later, e, what)

Lists == {"selectors", "args", "labels"}
Goals == {"primary", "operands", "query"} \cup Lists

ResultAt(t, later, i, goal) ==
  CASE goal = "primary" -> ParsePrimary(t, later, i)
    [] goal = "operands" -> ParseOperands(t, later, i)
    [] goal = "query" -> ParseQuery(t, later, i)
    [] goal \in Lists -> ParseList(t, later, i, goal)

Results(t) ==
  LET result[i \in 1..(Len(t) + 1)] == [goal \in Goals |-> ResultAt(t, result, i, goal)]
  IN  result

\* Parser.Parse: what follows a complete query is never looked at
Parse(t) == Results(t)[1]["query"]

\* ValidateQuery returns nil
Valid(t) == Parse(t).st = "ok"

-----------------------------------------------------------------------------
(* A query is typed on while no token of it is wrong or left over.         *)

OpenQuery(t) == Parse(t).at > Len(t)

TypeToken(k) ==
  /\ Len(toks) < MaxTokens
  /\ OpenQuery(toks)
  /\ toks' = Append(toks, k)

-----------------------------------------------------------------------------
(* The language, declared instead of parsed. A phrase is made of the       *)
(* tokens from i up to, but not including, j; shorter[i][j] is the set of  *)
(* the phrases that a shorter stretch of tokens is.                        *)

IsSelector(t, i, j) ==
  j = i + 3 /\ t[i] \in Idents /\ t[i + 1] = "sel" /\ t[i + 2] \in Idents \cup Strings

IsLabel(t, i, j) == j = i + 1 /\ t[i] \in Idents

IsRange(t, i, j) ==
  \/ i = j
  \/ j = i + 3 /\ t[i] = "[" /\ t[i + 1] \in Durations /\ t[i + 2] = "]"

IsTelemetry(t, shorter, i, j) ==
  /\ j > i + 2 /\ t[i] = "type" /\ t[i + 1] = "{"
  /\ \E k \in (i + 2)..(j - 1) :
       t[k] = "}" /\ "selectors" \in shorter[i + 2][k] /\ IsRange(t, k + 1, j)

IsCall(t, shorter, i, j) ==
  /\ j > i + 2 /\ t[i] = "ident" /\ t[i + 1] = "("
  /\ \E k \in (i + 2)..(j - 1) :
       /\ t[k] = ")" /\ "args" \in shorter[i + 2][k]
       /\ \/ k + 1 = j
          \/ /\ k > i + 2                            \* an argument to aggregate
             /\ j > k + 3
             /\ t[k + 1] = "by" /\ t[k + 2] = "(" /\ t[j - 1] = ")"
             /\ "labels" \in shorter[k + 3][j - 1]

IsParenthesized(t, shorter, i, j) ==
  j > i + 2 /\ t[i] = "(" /\ t[j - 1] = ")" /\ "query" \in shorter[i + 1][j - 1]

IsPrimary(t, shorter, i, j) ==
  IsTelemetry(t, shorter, i, j) \/ IsCall(t, shorter, i, j) \/ IsParenthesized(t, shorter, i, j)

IsOperation(t, shorter, i, j) ==
  \/ IsPrimary(t, shorter, i, j)
  \/ \E k \in i..(j - 1) : t[k] = "op" /\ "query" \in shorter[i][k] /\ "primary" \in shorter[k + 1][j]

IsElement(t, shorter, i, j, what) ==
  CASE what = "selectors" -> IsSelector(t, i, j)
    [] what = "labels" -> IsLabel(t, i, j)
    [] what = "args" -> IsOperation(t, shorter, i, j)

IsList(t, shorter, i, j, what) ==
  \/ i = j
  \/ IsElement(t, shorter, i, j, what)
  \/ \E k \in i..(j - 1) :
       t[k] = "," /\ IsElement(t, shorter, i, k, what) /\ what \in shorter[k + 1][j]

IsPhrase(t, shorter, i, j, what) ==
  CASE what = "primary" -> IsPrimary(t, shorter, i, j)
    [] what = "query" -> IsOperation(t, shorter, i, j)
    [] what \in Lists -> IsList(t, shorter, i, j, what)

Phrases(t) ==
  LET places == 1..(Len(t) + 1)
      phrase[i \in places] ==
        [j \in places |-> {what \in Goals \ {"operands"} : IsPhrase(t, phrase, i, j, what)}]
  IN  phrase

IsQuery(t) == "query" \in Phrases(t)[1][Len(t) + 1]

-----------------------------------------------------------------------------
(* All operators bind alike and group from the left: wherever a query ends *)
(* in an operator and an operand, its tree is that of what comes before,   *)
(* the operator, and that of the operand.                                  *)
GroupsFromTheLeft ==
  \A k \in DOMAIN toks :
    LET before == SubSeq(toks, 1, k - 1)
    IN  (toks[k] = "op" /\ IsQuery(before) /\ "primary" \in Phrases(toks)[k + 1][Len(toks) + 1])
        => Parse(toks).tree = [node |-> "binary", at |-> k,
                               left |-> Parse(before).tree,
                               right |-> Results(toks)[k + 1]["primary"].tree]

(* The parser gets to the end of what is typed exactly when that is a      *)
(* query of the language: lists may be empty and may end in a comma, a     *)
(* duration may follow the selectors, "by" needs an argument before it.    *)
(* Nothing else is accepted and nothing of the language refused, and the   *)
(* tree of what is accepted groups from the left.                          *)
ParsesTheLanguage ==
  /\ (Valid(toks) /\ Parse(toks).at = Len(toks) + 1) <=> IsQuery(toks)
  /\ GroupsFromTheLeft
=============================================================================
