---------------------------- MODULE MCGuestPaths ----------------------------
(* Two directories below cfg.rootfs, a file in the first, which is current. *)
EXTENDS GuestPaths

MCTree ==
    [d \in {Root, "d1", "d2"} |->
        CASE d = Root -> [a |-> "d1", b |-> "d2"]
          [] d = "d1" -> [a |-> "f", b |-> None]
          [] d = "d2" -> [a |-> None, b |-> None]]

MCCwd == <<"a">>

\* The last call decides nothing: states that differ in it alone are one to TLC.
MCView == <<tree, held, files, touched, moves, errno>>
=============================================================================
