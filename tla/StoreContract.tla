--------------------------- MODULE StoreContract ----------------------------
(***************************************************************************)
(* What one installation of the engine promises to the Core processes that *)
(* share it: an engine is started only from files that match the manifest, *)
(* and the files change only while nobody runs from them.                  *)
(***************************************************************************)
CONSTANT Core
VARIABLES whole,    \* the files match the manifest
          running   \* the processes whose engine runs from them

ContractInit == whole \in BOOLEAN /\ running = {}

Run(p) == whole /\ running' = running \cup {p} /\ UNCHANGED whole

Leave(p) == running' = running \ {p} /\ UNCHANGED whole

Change == running = {} /\ whole' \in BOOLEAN /\ UNCHANGED running

ContractNext == Change \/ \E p \in Core : Run(p) \/ Leave(p)

ContractSpec == ContractInit /\ [][ContractNext]_<<whole, running>>
=============================================================================
