----------------------- MODULE MCTranslationPipeline -----------------------
(***************************************************************************)
(* TranslationPipeline on a small instance.                                *)
(***************************************************************************)
EXTENDS TranslationPipeline, TLC

CONSTANTS l1, l2
LineSymmetry == Permutations(Lines)
NoFaults == {}
AnyFault == AllFaults
Deadline == {"deadline"}
=============================================================================
