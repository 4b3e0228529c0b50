--------------------------- MODULE MCAddressSpace ---------------------------
(***************************************************************************)
(* A small guest: one page of code, a one-page heap, room for the heap and *)
(* for two mappings above it, and one address outside the space.           *)
(***************************************************************************)
EXTENDS AddressSpace

MCImage == {[start |-> 1, size |-> 1, prot |-> {"R", "X"}, info |-> "[image]"],
            [start |-> 2, size |-> 1, prot |-> ALL, info |-> "[heap]"]}
MCReadWrite == {{"R", "W"}}

\* The last call decides nothing: states that differ in it alone are one to TLC.
MCView == <<regions, memory, brk>>
=============================================================================
