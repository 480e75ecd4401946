----------------------------- MODULE MCQueryText -----------------------------
(***************************************************************************)
(* Every text of up to five characters and every query of up to twelve     *)
(* tokens.                                                                 *)
(***************************************************************************)
EXTENDS QueryText

MCAlphabet == {"x", "s", "b", "y", "5", ".", "_", "\"", "\\", "=", "!", "~", "<", "{", " ", "#"}

MCKinds == {"type", "ident", "string", "quoted", "number", "sel", "op", "by",
            "{", "}", "[", "]", "(", ")", ","}
=============================================================================
