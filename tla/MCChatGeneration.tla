--------------------------- MODULE MCChatGeneration ---------------------------
(***************************************************************************)
(* Instances of ChatGeneration for TLC.                                    *)
(***************************************************************************)
EXTENDS ChatGeneration, TLC

GenSymmetry == Permutations(Gens)
=============================================================================
