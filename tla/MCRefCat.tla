------------------------------ MODULE MCRefCat ------------------------------
(***************************************************************************)
(* Servers that send nothing, a page that is not a catalogue, an empty     *)
(* catalogue, catalogues with and without rows that have a magnitude, one  *)
(* whose comment is longer than a line may be, and one without a newline   *)
(* at the end.  Lines of at most three tokens, pieces of at most two.      *)
(***************************************************************************)
EXTENDS RefCat

MCStreams ==
    {<<>>,
     <<"a", "n", "b", "n">>,
     <<"#", "n", "#", "n">>,
     <<"#", "n", "-", "n", "a", "n", "dark", "n", "b", "n">>,
     <<"#", "n", "n", "dark", "n">>,
     <<"#", "#", "#", "a", "n", "b">>,
     <<"#", "n", "a", "a", "n", "b">>}
=============================================================================
