--------------------------- MODULE MCGuestProcess ---------------------------
(* Coverage slots of two bits. *)
EXTENDS GuestProcess, Bitwise

MCExclusiveOr(i, j) == i ^^ j
=============================================================================
