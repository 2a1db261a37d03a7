------------------------------- MODULE MCKmp -------------------------------
(***************************************************************************)
(* Every text and every pattern over two characters up to a length.        *)
(***************************************************************************)
EXTENDS Kmp

CONSTANTS MaxText, MaxPattern

StringsOf(lengths) == UNION { [1..k -> Chars] : k \in lengths }

MCTexts == StringsOf(0..MaxText)

MCPatterns == StringsOf(1..MaxPattern)
=============================================================================
