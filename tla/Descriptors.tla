---------------------------- MODULE Descriptors ----------------------------
(***************************************************************************)
(* What a guest may think of its descriptors: a table of its own, whatever *)
(* other emulators of the process do with the host's numbers and with the  *)
(* table they share (FdTable says how that is done).  A number it is given *)
(* is not in use, stands for one open file until the guest closes it, and  *)
(* is that file in each read and write.                                    *)
(***************************************************************************)
CONSTANTS Emulators, Fd, Object, None

VARIABLES
    held,   \* each guest's table, as pairs of a number and an open file
    doing   \* the open file each guest is reading or writing

Init ==
    /\ held = [e \in Emulators |-> {}]
    /\ doing = [e \in Emulators |-> None]

Unused(fd) == \A e \in Emulators, o \in Object : <<fd, o>> \notin held[e]

\* open, dup, fcntl, socket; two numbers from socketpair.
Give(e) ==
    /\ \E fd1, fd2 \in Fd, o1, o2 \in Object :
           /\ Unused(fd1) /\ Unused(fd2) /\ (fd1 = fd2 => o1 = o2)
           /\ held' = [held EXCEPT ![e] = @ \cup {<<fd1, o1>>, <<fd2, o2>>}]
    /\ UNCHANGED doing

\* close
Drop(e) ==
    /\ doing[e] = None
    /\ \E fd \in Fd : held' = [held EXCEPT ![e] = {h \in @ : h[1] # fd}]
    /\ UNCHANGED doing

\* read, write, writev
Use(e) ==
    /\ doing[e] = None
    /\ \E h \in held[e] : doing' = [doing EXCEPT ![e] = h[2]]
    /\ UNCHANGED held

EndUse(e) ==
    /\ doing' = [doing EXCEPT ![e] = None]
    /\ UNCHANGED held

\* The next input.
Restart(e) ==
    /\ doing[e] = None
    /\ held' = [held EXCEPT ![e] = {}]
    /\ UNCHANGED doing

Next == \E e \in Emulators : Give(e) \/ Drop(e) \/ Use(e) \/ EndUse(e) \/ Restart(e)

Spec == Init /\ [][Next]_<<held, doing>>
=============================================================================
