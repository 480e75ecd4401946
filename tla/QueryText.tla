------------------------------ MODULE QueryText ------------------------------
(***************************************************************************)
(* A user types a query. What tokenize makes of a text shows after a few   *)
(* characters, what Parse makes of it after many more, so a query is typed *)
(* either by character or, for the parser, by token.                       *)
(***************************************************************************)
EXTENDS QueryLexer, QueryParser

Init == text = <<>> /\ toks = <<>>

TypeText == toks = <<>> /\ (\E c \in Alphabet : TypeCharacter(c)) /\ UNCHANGED toks
TypeQuery == text = <<>> /\ (\E k \in Kinds : TypeToken(k)) /\ UNCHANGED text

Next == TypeText \/ TypeQuery

Spec == Init /\ [][Next]_<<text, toks>>
=============================================================================
