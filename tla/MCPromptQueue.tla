--------------------------- MODULE MCPromptQueue ---------------------------
(***************************************************************************)
(* Small instances of PromptQueue for TLC.                                 *)
(***************************************************************************)
EXTENDS PromptQueue

\* The first request carries an image: the others may fold into each other.
MCImages == {1}

\* Prompt ids are interchangeable.
MCSymmetry == Permutations(Ids)
=============================================================================
