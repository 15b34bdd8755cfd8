---------------------------- MODULE MCRendering ----------------------------
(***************************************************************************)
(* Rendering for TLC: reports of up to four assertions over two MUSTs of   *)
(* one section and a SHOULD of another, their texts cut to a few           *)
(* characters that exercise the slugs.                                     *)
(***************************************************************************)
EXTENDS Rendering

MCTags == {""}

MCCited == {"IDSchemeSpiffe", "IDNoQueryFragment", "IDLengthLimit"}

MCLowerCase == [M |-> "m", m |-> "m", q |-> "q"] @@ ("2" :> "2") @@ ("1" :> "1")

Cite(section, text) ==
    [spec |-> <<"M", ".", "m">>, section |-> section, text |-> text]

MCCitation ==
    [ IDSchemeSpiffe |-> Cite(<<"$", "2">>, <<"m", " ", "M", "\"">>),
      IDNoQueryFragment |-> Cite(<<"$", "2">>, <<"m", "M", " ", "-", "q">>),
      IDLengthLimit |-> Cite(<<"$", "2", ".", "1">>, <<"\"", "m", "\"", " ", "M">>) ]
=============================================================================
