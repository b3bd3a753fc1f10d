------------------------------ MODULE AliasMap ------------------------------
(***************************************************************************)
(* What the alias table promises: a map from names to commands.  Setting   *)
(* one name changes that name and no other, and a name keeps its command.  *)
(***************************************************************************)
CONSTANTS Key, Val, NoVal
VARIABLE map

MapInit == map = [k \in Key |-> NoVal]

Set(k, v) == map' = [map EXCEPT ![k] = v]

MapNext == \E k \in Key, v \in Val : Set(k, v)

MapSpec == MapInit /\ [][MapNext]_map
=============================================================================
