------------------------- MODULE MCPreprocessDemo --------------------------
(* PreprocessDemo for TLC: an input whose bytes wrap around and an empty   *)
(* one; files of another program that are right for the first of them, end *)
(* early, go on, or differ in their last byte.                             *)
EXTENDS PreprocessDemo

MCInputs == {<<>>, <<0, 3>>}
MCRivalFiles == {<<1, 0>>, <<1>>, <<1, 0, 2>>, <<1, 1>>}
=============================================================================
