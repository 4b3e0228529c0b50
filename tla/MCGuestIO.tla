----------------------------- MODULE MCGuestIO -----------------------------
(* Seeks by one unit in both directions. *)
EXTENDS GuestIO

MCDeltas == {-1, 0, 1}

\* The last call decides nothing: states that differ in it alone are one to TLC.
MCView == <<kind, arch, input, output, host, guest>>
=============================================================================
