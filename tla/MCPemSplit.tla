----------------------------- MODULE MCPemSplit -----------------------------
(***************************************************************************)
(* PemSplit for TLC: every file of at most five items.  Two broken blocks  *)
(* around good ones, with text in every gap, fit in five.                  *)
(***************************************************************************)
EXTENDS PemSplit

MCFiles == UNION {[1..n -> Item] : n \in 0..5}
=============================================================================
