------------------------- MODULE MCReusableEmulator -------------------------
(***************************************************************************)
(* A prepared guest of one page of code and a two-page heap.               *)
(***************************************************************************)
EXTENDS ReusableEmulator

MCPrepared == {[start |-> 1, size |-> 1, prot |-> {"R", "X"}, info |-> "[image]"],
               [start |-> 2, size |-> 2, prot |-> ALL, info |-> "[heap]"]}
MCReadWrite == {{"R", "W"}}

\* The last call decides nothing: states that differ in it alone are one to TLC.
MCView == <<regions, memory, brk, runVars>>
=============================================================================
