--------------------------- MODULE MCEngineStore ----------------------------
(* Two Core processes and one reclaiming Core over one installation.       *)
EXTENDS EngineStore, TLC
=============================================================================
