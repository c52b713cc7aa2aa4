--------------------------- MODULE MCMultiReader ----------------------------
(***************************************************************************)
(* MultiReader with three of the readers of two CPUs, one of each          *)
(* tracepoint, and two sectors of a device.                                *)
(***************************************************************************)
EXTENDS MultiReader

MCReaders  == {<<1, QUEUE>>, <<1, ISSUE>>, <<2, COMPLETE>>}
MCPosition == [r \in MCReaders |-> IF r[2] = QUEUE THEN 2 ELSE IF r[2] = ISSUE THEN 1 ELSE 3]
MCOffset   == -2
MCBlocks   == {<<"sda", 1>>, <<"sda", 2>>}
=============================================================================
