---------------------------- MODULE MCNoDBCache ----------------------------
(* Three columns of 1, 2 and 2 bytes in rows of 4: two of them fit, the    *)
(* third is refused or leaves a remainder, according to the order.         *)
EXTENDS NoDBCache, TLC

MCCols == {0, 1, 2}
MCSizeOf == 0 :> 1 @@ 1 :> 2 @@ 2 :> 2
=============================================================================
