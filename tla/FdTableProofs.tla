--------------------------- MODULE FdTableProofs ---------------------------
(***************************************************************************)
(* Theorems about FdTable for any number of emulators, descriptors and     *)
(* open files, when guests close, read and write only the numbers they     *)
(* hold: entries are true and held numbers stay valid, wherever the calls  *)
(* of the other emulators fall between the two halves of a call.           *)
(***************************************************************************)
EXTENDS FdTable, TLAPS

Careful == Careless = FALSE /\ Wide = {FALSE}

-----------------------------------------------------------------------------
(***************************************************************************)
(* The inductive invariant is about ownership.  A number belongs to the    *)
(* guest that holds it, or to the call that is about to list or close it.  *)
(***************************************************************************)
Holds(e, fd)   == \E o \in Object : <<fd, o>> \in held[e]
Pending(e, fd) == call[e].op \in {"insert", "close"} /\ call[e].fd = fd
Owns(e, fd)    == Holds(e, fd) \/ Pending(e, fd)

OwnedIsOpen   == \A e \in Emulators, fd \in Fd : Owns(e, fd) => host[fd] # None
OwnedOnce     == \A e, f \in Emulators, fd \in Fd : Owns(e, fd) /\ Owns(f, fd) => e = f
PendingUnused == \A e \in Emulators, fd \in Fd :
                     Pending(e, fd) => ~Holds(e, fd) /\ entry[fd] = None
InsertIsTrue  == \A e \in Emulators :
                     call[e].op = "insert" => host[call[e].fd] = call[e].obj /\ call[e].obj # None
EntryIsTrue   == \A fd \in Fd : entry[fd] # None => host[fd] = entry[fd]
HeldIsTrue    == \A e \in Emulators, fd \in Fd, o \in Object :
                     <<fd, o>> \in held[e] => host[fd] = o

IInv ==
    /\ TypeOK
    /\ OwnedIsOpen /\ OwnedOnce /\ PendingUnused
    /\ InsertIsTrue /\ EntryIsTrue /\ HeldIsTrue

LEMMA InitIInv == Init => IInv
BY ConstantsAssumption
   DEF Init, IInv, TypeOK, OwnedIsOpen, OwnedOnce, PendingUnused, InsertIsTrue, EntryIsTrue,
       HeldIsTrue, Owns, Holds, Pending, Idle, Call, Ops, Fd

\* The state is unchanged, but for the call of one emulator, which starts or
\* ends one that owns nothing.
LEMMA QuietStep ==
    ASSUME IInv, NEW e \in Emulators, NEW c \in [op : Ops, fd : Fd, obj : Object \cup {None}],
           call[e].op \notin {"insert", "close"}, c.op \notin {"insert", "close"},
           call' = [call EXCEPT ![e] = c], UNCHANGED <<host, entry, held>>,
           lock' \in Emulators \cup {None}, inbox' \subseteq Emulators
    PROVE  IInv'
<1>1. TypeOK'  BY DEF IInv, TypeOK
<1>2. \A f \in Emulators, fd \in Fd : /\ Holds(f, fd)' <=> Holds(f, fd)
                                      /\ Pending(f, fd)' <=> Pending(f, fd)
  BY DEF IInv, TypeOK, Holds, Pending
<1>3. \A f \in Emulators : call'[f].op = "insert" => call'[f] = call[f]
  BY DEF IInv, TypeOK
<1> QED
  BY <1>1, <1>2, <1>3
     DEF IInv, OwnedIsOpen, OwnedOnce, PendingUnused, InsertIsTrue, EntryIsTrue, HeldIsTrue, Owns

\* A free number is nobody's and is not listed.
LEMMA FreeIsUnowned ==
    ASSUME IInv, NEW fd \in Fd, host[fd] = None
    PROVE  entry[fd] = None /\ \A e \in Emulators : ~Owns(e, fd)
BY DEF IInv, EntryIsTrue, OwnedIsOpen, TypeOK

\* open and dup, first half: a free number gets a description and an emulator
\* that was in no call is about to list it.
LEMMA TakeStep ==
    ASSUME IInv, NEW e \in Emulators, NEW fd \in Fd, NEW o \in Object,
           call[e].op = "idle", host[fd] = None,
           host' = [host EXCEPT ![fd] = o], call' = [call EXCEPT ![e] = Call("insert", fd, o)],
           UNCHANGED <<entry, lock, held, inbox>>
    PROVE  IInv'
<1>0. o # None  BY ConstantsAssumption
<1>1. TypeOK'  BY DEF IInv, TypeOK, Call, Ops
<1>2. \A f \in Emulators, g \in Fd : /\ Holds(f, g)' <=> Holds(f, g)
                                     /\ Pending(f, g)' <=> (Pending(f, g) \/ (f = e /\ g = fd))
  BY DEF IInv, TypeOK, Holds, Pending, Call
<1>3. entry[fd] = None /\ \A f \in Emulators : ~Owns(f, fd)  BY FreeIsUnowned
<1>4. \A g \in Fd : host'[g] = IF g = fd THEN o ELSE host[g]  BY DEF IInv, TypeOK
<1>5. OwnedIsOpen' /\ OwnedOnce' /\ PendingUnused'
  BY <1>0, <1>2, <1>3, <1>4 DEF IInv, OwnedIsOpen, OwnedOnce, PendingUnused, Owns
<1>6. InsertIsTrue'
  <2> SUFFICES ASSUME NEW f \in Emulators, call'[f].op = "insert"
               PROVE  host'[call'[f].fd] = call'[f].obj /\ call'[f].obj # None
    BY DEF InsertIsTrue
  <2>1. CASE f = e  BY <1>0, <1>4, <2>1 DEF IInv, TypeOK, Call
  <2>2. CASE f # e
    <3>1. call'[f] = call[f] /\ call[f].fd \in Fd  BY <2>2 DEF IInv, TypeOK
    <3>2. Owns(f, call[f].fd)  BY <3>1 DEF Owns, Pending
    <3> QED  BY <1>3, <1>4, <3>1, <3>2 DEF IInv, InsertIsTrue
  <2> QED  BY <2>1, <2>2
<1>7. EntryIsTrue'  BY <1>3, <1>4 DEF IInv, EntryIsTrue
<1>8. HeldIsTrue'
  <2> SUFFICES ASSUME NEW f \in Emulators, NEW g \in Fd, NEW p \in Object, <<g, p>> \in held[f]
               PROVE  host'[g] = p
    BY DEF HeldIsTrue
  <2>1. Owns(f, g)  BY DEF Owns, Holds
  <2> QED  BY <1>3, <1>4, <2>1 DEF IInv, HeldIsTrue
<1> QED  BY <1>1, <1>5, <1>6, <1>7, <1>8 DEF IInv

\* Descriptors made and reported in one step: free numbers get descriptions and
\* one guest learns of some of them.
LEMMA GiveStep ==
    ASSUME IInv, NEW e \in Emulators, NEW S \in SUBSET (Fd \X Object),
           call[e].op = "idle", host' \in [Fd -> Object \cup {None}],
           \A g \in Fd : host[g] # None => host'[g] = host[g],
           \A h \in S : host[h[1]] = None /\ host'[h[1]] = h[2],
           Learn(e, S), UNCHANGED <<entry, lock, call, inbox>>
    PROVE  IInv'
<1>1. TypeOK'  BY DEF IInv, TypeOK, Learn
<1>2. \A f \in Emulators, g \in Fd, o \in Object :
          <<g, o>> \in held'[f] <=> (<<g, o>> \in held[f] \/ (f = e /\ <<g, o>> \in S))
  BY DEF IInv, TypeOK, Learn
<1>3. \A f \in Emulators, g \in Fd : Pending(f, g)' <=> Pending(f, g)  BY DEF Pending
<1>4. \A g \in Fd, o \in Object : <<g, o>> \in S => host[g] = None /\ host'[g] = o
  OBVIOUS
<1>5. \A f \in Emulators, g \in Fd :
          Holds(f, g)' => Holds(f, g) \/ (f = e /\ host[g] = None /\ host'[g] # None)
  <2> SUFFICES ASSUME NEW f \in Emulators, NEW g \in Fd, Holds(f, g)', ~Holds(f, g)
               PROVE  f = e /\ host[g] = None /\ host'[g] # None
    OBVIOUS
  <2>1. PICK o \in Object : <<g, o>> \in held'[f]  BY DEF Holds
  <2>2. f = e /\ <<g, o>> \in S  BY <1>2, <2>1 DEF Holds
  <2>3. o # None  BY ConstantsAssumption
  <2> QED  BY <1>4, <2>2, <2>3
<1>6. \A g \in Fd : host[g] = None => entry[g] = None /\ \A f \in Emulators : ~Owns(f, g)
  BY FreeIsUnowned
<1>7. OwnedIsOpen' /\ OwnedOnce' /\ PendingUnused'
  <2>1. OwnedIsOpen'
    <3> SUFFICES ASSUME NEW f \in Emulators, NEW g \in Fd, Owns(f, g)'
                 PROVE  host'[g] # None
      BY DEF OwnedIsOpen
    <3> QED  BY <1>3, <1>5 DEF IInv, OwnedIsOpen, Owns
  <2>2. OwnedOnce'
    <3> SUFFICES ASSUME NEW f \in Emulators, NEW k \in Emulators, NEW g \in Fd,
                        Owns(f, g)', Owns(k, g)'
                 PROVE  f = k
      BY DEF OwnedOnce
    <3> QED  BY <1>3, <1>5, <1>6 DEF IInv, OwnedOnce, Owns
  <2>3. PendingUnused'
    <3> SUFFICES ASSUME NEW f \in Emulators, NEW g \in Fd, Pending(f, g)'
                 PROVE  ~Holds(f, g)' /\ entry'[g] = None
      BY DEF PendingUnused
    <3> QED  BY <1>3, <1>5, <1>6 DEF IInv, PendingUnused, Owns
  <2> QED  BY <2>1, <2>2, <2>3
<1>8. InsertIsTrue'
  <2> SUFFICES ASSUME NEW f \in Emulators, call[f].op = "insert"
               PROVE  host'[call[f].fd] = call[f].obj /\ call[f].obj # None
    BY DEF InsertIsTrue
  <2>1. call[f].fd \in Fd  BY DEF IInv, TypeOK
  <2> QED  BY <2>1 DEF IInv, InsertIsTrue
<1>9. EntryIsTrue'
  <2> SUFFICES ASSUME NEW g \in Fd, entry[g] # None PROVE host'[g] = entry[g]
    BY DEF EntryIsTrue
  <2> QED  BY <1>6 DEF IInv, EntryIsTrue
<1>10. HeldIsTrue'
  <2> SUFFICES ASSUME NEW f \in Emulators, NEW g \in Fd, NEW o \in Object, <<g, o>> \in held'[f]
               PROVE  host'[g] = o
    BY DEF HeldIsTrue
  <2>1. CASE <<g, o>> \in S  BY <1>4, <2>1
  <2>2. CASE <<g, o>> \in held[f]
    <3>1. host[g] = o /\ o # None  BY <2>2, ConstantsAssumption DEF IInv, HeldIsTrue
    <3> QED  BY <3>1
  <2> QED  BY <1>2, <2>1, <2>2
<1> QED  BY <1>1, <1>7, <1>8, <1>9, <1>10 DEF IInv

\* open and dup, second half: nothing was listed under the number, so nothing
\* is closed, and the pending number becomes a held one.
LEMMA InsertStep ==
    ASSUME IInv, NEW e \in Emulators, Insert(e)
    PROVE  IInv'
<1> DEFINE fd == call[e].fd
           o  == call[e].obj
<1>0. /\ fd \in Fd /\ o \in Object /\ host[fd] = o /\ o # None
      /\ Pending(e, fd) /\ entry[fd] = None
  BY DEF Insert, IInv, TypeOK, InsertIsTrue, Pending, PendingUnused
<1>1. /\ entry' = [entry EXCEPT ![fd] = o] /\ host' = host
      /\ held' = [held EXCEPT ![e] = @ \cup {<<fd, o>>}]
      /\ call' = [call EXCEPT ![e] = Idle]
      /\ UNCHANGED <<lock, inbox>>
  <2>1. host' = [host EXCEPT ![fd] = host[fd]]  BY <1>0 DEF Insert
  <2>2. host' = host  BY <1>0, <2>1 DEF IInv, TypeOK
  <2> QED  BY <2>2 DEF Insert, Learn, Goto
<1> HIDE DEF fd, o
<1>2. TypeOK'
  BY <1>0, <1>1, ConstantsAssumption DEF IInv, TypeOK, Idle, Call, Ops, Fd
<1>3. \A f \in Emulators, g \in Fd, p \in Object :
          <<g, p>> \in held'[f] <=> (<<g, p>> \in held[f] \/ (f = e /\ g = fd /\ p = o))
  BY <1>0, <1>1 DEF IInv, TypeOK
<1>4. \A f \in Emulators, g \in Fd : Holds(f, g)' <=> (Holds(f, g) \/ (f = e /\ g = fd))
  BY <1>0, <1>3 DEF Holds
<1>5. \A f \in Emulators, g \in Fd : Pending(f, g)' <=> (Pending(f, g) /\ f # e)
  BY <1>1 DEF IInv, TypeOK, Pending, Idle, Call
<1>6. \A f \in Emulators, g \in Fd : Owns(f, g)' => Owns(f, g)
  BY <1>0, <1>4, <1>5 DEF Owns
<1>7. OwnedIsOpen' /\ OwnedOnce'
  BY <1>1, <1>6 DEF IInv, OwnedIsOpen, OwnedOnce
<1>8. PendingUnused'
  <2> SUFFICES ASSUME NEW f \in Emulators, NEW g \in Fd, Pending(f, g)'
               PROVE  ~Holds(f, g)' /\ entry'[g] = None
    BY DEF PendingUnused
  <2>1. Pending(f, g) /\ f # e  BY <1>5
  <2>2. g # fd  BY <1>0, <2>1 DEF IInv, OwnedOnce, Owns
  <2>3. entry'[g] = entry[g]  BY <1>1, <2>2 DEF IInv, TypeOK
  <2> QED  BY <1>4, <2>1, <2>2, <2>3 DEF IInv, PendingUnused
<1>9. InsertIsTrue'
  <2> SUFFICES ASSUME NEW f \in Emulators, call'[f].op = "insert"
               PROVE  host'[call'[f].fd] = call'[f].obj /\ call'[f].obj # None
    BY DEF InsertIsTrue
  <2>1. f # e /\ call'[f] = call[f]  BY <1>1 DEF IInv, TypeOK, Idle, Call
  <2> QED  BY <1>1, <2>1 DEF IInv, InsertIsTrue
<1>10. EntryIsTrue'
  BY <1>0, <1>1 DEF IInv, EntryIsTrue, TypeOK
<1>11. HeldIsTrue'
  BY <1>0, <1>1, <1>3 DEF IInv, HeldIsTrue
<1> QED  BY <1>2, <1>7, <1>8, <1>9, <1>10, <1>11 DEF IInv

\* What every close begins with: the guest gives the number up.
LEMMA ForgetFacts ==
    ASSUME IInv, NEW e \in Emulators, NEW fd \in Fd, Forget(e, fd)
    PROVE  /\ held' \in [Emulators -> SUBSET (Fd \X Object)]
           /\ \A f \in Emulators, g \in Fd, o \in Object :
                 <<g, o>> \in held'[f] <=> (<<g, o>> \in held[f] /\ ~(f = e /\ g = fd))
           /\ \A f \in Emulators, g \in Fd : Holds(f, g)' <=> (Holds(f, g) /\ ~(f = e /\ g = fd))
<1>1. /\ held' \in [Emulators -> SUBSET (Fd \X Object)]
      /\ \A f \in Emulators, g \in Fd, o \in Object :
            <<g, o>> \in held'[f] <=> (<<g, o>> \in held[f] /\ ~(f = e /\ g = fd))
  BY DEF IInv, TypeOK, Forget
<1> QED  BY <1>1 DEF Holds

\* A close by a guest that holds the number: at once if it is listed, else the
\* number is pending until libc::close.
LEMMA CloseStep ==
    ASSUME IInv, NEW e \in Emulators, NEW fd \in Fd, Holds(e, fd), Close(e, fd, FALSE)
    PROVE  IInv'
<1>0. /\ call[e].op = "idle" /\ Forget(e, fd) /\ UNCHANGED <<lock, inbox>>
      /\ host[fd] # None
      /\ \A f \in Emulators : Owns(f, fd) => f = e
      /\ ~Pending(e, fd)
  BY DEF Close, IsIdle, IInv, OwnedIsOpen, OwnedOnce, Owns, Pending
<1>1. /\ held' \in [Emulators -> SUBSET (Fd \X Object)]
      /\ \A f \in Emulators, g \in Fd, o \in Object :
            <<g, o>> \in held'[f] <=> (<<g, o>> \in held[f] /\ ~(f = e /\ g = fd))
      /\ \A f \in Emulators, g \in Fd : Holds(f, g)' <=> (Holds(f, g) /\ ~(f = e /\ g = fd))
  BY <1>0, ForgetFacts
<1>2. \A f \in Emulators, g \in Fd : Owns(f, g) /\ ~(f = e /\ g = fd) => g # fd
  BY <1>0
<1>3. CASE entry[fd] # None
  <2>1. /\ entry' = [entry EXCEPT ![fd] = None] /\ host' = [host EXCEPT ![fd] = None]
        /\ call' = call
    BY <1>3 DEF Close, Listed, CloseListed
  <2>2. TypeOK'  BY <1>0, <1>1, <2>1 DEF IInv, TypeOK
  <2>3. \A f \in Emulators, g \in Fd : Pending(f, g)' <=> Pending(f, g)  BY <2>1 DEF Pending
  <2>4. \A f \in Emulators, g \in Fd : Owns(f, g)' => Owns(f, g) /\ g # fd
    BY <1>0, <1>1, <1>2, <2>3 DEF Owns
  <2>5. \A g \in Fd : g # fd => host'[g] = host[g] /\ entry'[g] = entry[g]
    BY <2>1 DEF IInv, TypeOK
  <2>6. OwnedIsOpen' /\ OwnedOnce'
    BY <2>4, <2>5 DEF IInv, OwnedIsOpen, OwnedOnce
  <2>7. PendingUnused'
    <3> SUFFICES ASSUME NEW f \in Emulators, NEW g \in Fd, Pending(f, g)'
                 PROVE  ~Holds(f, g)' /\ entry'[g] = None
      BY DEF PendingUnused
    <3>1. Pending(f, g) /\ g # fd  BY <2>3, <2>4 DEF Owns
    <3> QED  BY <1>1, <2>5, <3>1 DEF IInv, PendingUnused
  <2>8. InsertIsTrue'
    <3> SUFFICES ASSUME NEW f \in Emulators, call[f].op = "insert"
                 PROVE  host'[call[f].fd] = call[f].obj /\ call[f].obj # None
      BY <2>1 DEF InsertIsTrue
    <3>1. call[f].fd \in Fd  BY DEF IInv, TypeOK
    <3>2. call[f].fd # fd
      <4>1. Pending(f, call[f].fd)  BY DEF Pending
      <4> QED  BY <2>3, <2>4, <3>1, <4>1 DEF Owns
    <3> QED  BY <2>5, <3>1, <3>2 DEF IInv, InsertIsTrue
  <2>9. EntryIsTrue'  BY <2>1 DEF IInv, EntryIsTrue, TypeOK
  <2>10. HeldIsTrue'
    <3> SUFFICES ASSUME NEW f \in Emulators, NEW g \in Fd, NEW o \in Object, <<g, o>> \in held'[f]
                 PROVE  host'[g] = o
      BY DEF HeldIsTrue
    <3>1. Owns(f, g)'  BY DEF Owns, Holds
    <3> QED  BY <1>1, <2>4, <2>5, <3>1 DEF IInv, HeldIsTrue
  <2> QED  BY <2>2, <2>6, <2>7, <2>8, <2>9, <2>10 DEF IInv
<1>4. CASE entry[fd] = None
  <2>1. /\ call' = [call EXCEPT ![e] = Call("close", fd, None)] /\ UNCHANGED <<host, entry>>
    BY <1>4 DEF Close, Listed, Goto
  <2>2. TypeOK'  BY <1>0, <1>1, <2>1 DEF IInv, TypeOK, Call, Ops
  <2>3. \A f \in Emulators, g \in Fd :
            Pending(f, g)' <=> (Pending(f, g) \/ (f = e /\ g = fd))
    BY <1>0, <2>1 DEF IInv, TypeOK, Pending, Call
  <2>4. \A f \in Emulators, g \in Fd : Owns(f, g)' => Owns(f, g)
    BY <1>1, <2>3 DEF Owns
  <2>5. OwnedIsOpen' /\ OwnedOnce'
    BY <2>1, <2>4 DEF IInv, OwnedIsOpen, OwnedOnce
  <2>6. PendingUnused'
    <3> SUFFICES ASSUME NEW f \in Emulators, NEW g \in Fd, Pending(f, g)'
                 PROVE  ~Holds(f, g)' /\ entry[g] = None
      BY <2>1 DEF PendingUnused
    <3> QED  BY <1>1, <1>4, <2>3 DEF IInv, PendingUnused
  <2>7. InsertIsTrue'
    <3> SUFFICES ASSUME NEW f \in Emulators, call'[f].op = "insert"
                 PROVE  host[call'[f].fd] = call'[f].obj /\ call'[f].obj # None
      BY <2>1 DEF InsertIsTrue
    <3>1. call'[f] = call[f]  BY <2>1 DEF IInv, TypeOK, Call
    <3> QED  BY <3>1 DEF IInv, InsertIsTrue
  <2>8. EntryIsTrue' /\ HeldIsTrue'
    BY <1>1, <2>1 DEF IInv, EntryIsTrue, HeldIsTrue
  <2> QED  BY <2>2, <2>5, <2>6, <2>7, <2>8 DEF IInv
<1> QED  BY <1>3, <1>4

\* libc::close of a pending number: nobody else owned it.
LEMMA HostCloseStep ==
    ASSUME IInv, NEW e \in Emulators, HostClose(e)
    PROVE  IInv'
<1> DEFINE fd == call[e].fd
<1>0. /\ fd \in Fd /\ Pending(e, fd) /\ entry[fd] = None
      /\ \A f \in Emulators : Owns(f, fd) => f = e
      /\ ~Holds(e, fd)
  BY DEF HostClose, IInv, TypeOK, Pending, PendingUnused, OwnedOnce, Owns
<1>1. /\ host' = [host EXCEPT ![fd] = None]
      /\ call' = [call EXCEPT ![e] = Idle]
      /\ UNCHANGED <<entry, lock, held, inbox>>
  BY DEF HostClose, Goto
<1> HIDE DEF fd
<1>2. TypeOK'
  BY <1>0, <1>1, ConstantsAssumption DEF IInv, TypeOK, Idle, Call, Ops, Fd
<1>3. \A f \in Emulators, g \in Fd : /\ Holds(f, g)' <=> Holds(f, g)
                                     /\ Pending(f, g)' <=> (Pending(f, g) /\ f # e)
  BY <1>1 DEF IInv, TypeOK, Holds, Pending, Idle, Call
<1>4. \A f \in Emulators, g \in Fd : Owns(f, g)' => Owns(f, g) /\ g # fd
  <2> SUFFICES ASSUME NEW f \in Emulators, NEW g \in Fd, Owns(f, g)'
               PROVE  Owns(f, g) /\ g # fd
    OBVIOUS
  <2>1. Owns(f, g) /\ (Holds(f, g) \/ f # e)  BY <1>3 DEF Owns
  <2> QED  BY <1>0, <2>1
<1>5. \A g \in Fd : g # fd => host'[g] = host[g]  BY <1>1 DEF IInv, TypeOK
<1>6. OwnedIsOpen' /\ OwnedOnce'
  BY <1>4, <1>5 DEF IInv, OwnedIsOpen, OwnedOnce
<1>7. PendingUnused'
  BY <1>1, <1>3 DEF IInv, PendingUnused
<1>8. InsertIsTrue'
  <2> SUFFICES ASSUME NEW f \in Emulators, call'[f].op = "insert"
               PROVE  host'[call'[f].fd] = call'[f].obj /\ call'[f].obj # None
    BY DEF InsertIsTrue
  <2>1. f # e /\ call'[f] = call[f] /\ call[f].fd \in Fd
    BY <1>1 DEF IInv, TypeOK, Idle, Call
  <2>2. Owns(f, call[f].fd)'  BY <2>1 DEF Owns, Pending
  <2>3. call[f].fd # fd  BY <1>4, <2>1, <2>2
  <2> QED  BY <1>5, <2>1, <2>3 DEF IInv, InsertIsTrue
<1>9. EntryIsTrue'
  BY <1>0, <1>1, <1>5 DEF IInv, EntryIsTrue
<1>10. HeldIsTrue'
  <2> SUFFICES ASSUME NEW f \in Emulators, NEW g \in Fd, NEW o \in Object, <<g, o>> \in held'[f]
               PROVE  host'[g] = o
    BY DEF HeldIsTrue
  <2>1. Owns(f, g)'  BY DEF Owns, Holds
  <2> QED  BY <1>1, <1>4, <1>5, <2>1 DEF IInv, HeldIsTrue
<1> QED  BY <1>2, <1>6, <1>7, <1>8, <1>9, <1>10 DEF IInv

\* A restarted guest holds nothing; nobody owns what it leaves behind.
LEMMA NewInputStep ==
    ASSUME IInv, NEW e \in Emulators, NewInput(e)
    PROVE  IInv'
<1>1. held' = [held EXCEPT ![e] = {}] /\ UNCHANGED <<host, entry, lock, call, inbox>>
  BY DEF NewInput
<1>2. TypeOK'  BY <1>1 DEF IInv, TypeOK
<1>3. \A f \in Emulators : held'[f] \subseteq held[f]  BY <1>1 DEF IInv, TypeOK
<1>4. \A f \in Emulators, g \in Fd : /\ Holds(f, g)' => Holds(f, g)
                                     /\ Pending(f, g)' <=> Pending(f, g)
  BY <1>1, <1>3 DEF Holds, Pending
<1> QED
  BY <1>1, <1>2, <1>3, <1>4
     DEF IInv, OwnedIsOpen, OwnedOnce, PendingUnused, InsertIsTrue, EntryIsTrue, HeldIsTrue, Owns

LEMMA NextIInv == Careful /\ IInv /\ [Next]_vars => IInv'
<1> SUFFICES ASSUME Careful, IInv, [Next]_vars PROVE IInv'  OBVIOUS
<1>1. \A e \in Emulators, fd \in Fd : MayName(e, fd) => Holds(e, fd)
  BY DEF Careful, MayName, Holds
<1>2. IInv => host \in [Fd -> Object \cup {None}] /\ call \in [Emulators -> [op : Ops, fd : Fd, obj : Object \cup {None}]]
  BY DEF IInv, TypeOK
<1>3. ASSUME NEW e \in Emulators, NEW o \in Object, Open(e, o) PROVE IInv'
  <2>1. PICK fd \in Fd : /\ IsLowest(fd, Free(host))
                         /\ host' = [host EXCEPT ![fd] = o]
                         /\ Goto(e, Call("insert", fd, o))
    BY <1>3 DEF Open
  <2>2. host[fd] = None  BY <2>1 DEF IsLowest, Free
  <2> QED  BY <1>3, <2>1, <2>2, TakeStep DEF Open, IsIdle, Goto
<1>4. ASSUME NEW e \in Emulators, NEW o \in Object, Socket(e, o) PROVE IInv'
  <2>1. PICK fd \in Fd : /\ IsLowest(fd, Free(host))
                         /\ host' = [host EXCEPT ![fd] = o]
                         /\ Learn(e, {<<fd, o>>})
    BY <1>4 DEF Socket
  <2>2. host[fd] = None  BY <2>1 DEF IsLowest, Free
  <2> DEFINE S == {<<fd, o>>}
  <2>3. S \in SUBSET (Fd \X Object)  OBVIOUS
  <2>4. /\ host' \in [Fd -> Object \cup {None}]
        /\ \A g \in Fd : host[g] # None => host'[g] = host[g]
        /\ host'[fd] = o
    BY <1>2, <2>1, <2>2
  <2>5. \A h \in S : host[h[1]] = None /\ host'[h[1]] = h[2]  BY <2>2, <2>4
  <2>6. call[e].op = "idle" /\ Learn(e, S) /\ UNCHANGED <<entry, lock, call, inbox>>
    BY <1>4, <2>1 DEF Socket, IsIdle
  <2> HIDE DEF S
  <2> QED  BY <2>3, <2>4, <2>5, <2>6, GiveStep
<1>5. ASSUME NEW e \in Emulators, NEW o1 \in Sockets, NEW o2 \in Sockets, NEW written \in 0..2,
             Socketpair(e, o1, o2, written)
      PROVE  IInv'
  <2>1. PICK fd1 \in Fd, fd2 \in Fd :
            /\ IsLowest(fd1, Free(host)) /\ IsLowest(fd2, Free(host) \ {fd1})
            /\ host' = [host EXCEPT ![fd1] = o1, ![fd2] = o2]
            /\ Learn(e, CASE written = 0 -> {}
                          [] written = 1 -> {<<fd1, o1>>}
                          [] written = 2 -> {<<fd1, o1>>, <<fd2, o2>>})
    BY <1>5 DEF Socketpair
  <2>2. host[fd1] = None /\ host[fd2] = None /\ fd1 # fd2  BY <2>1 DEF IsLowest, Free
  <2>3. PICK S \in SUBSET {<<fd1, o1>>, <<fd2, o2>>} : Learn(e, S)
    <3>1. written = 0 \/ written = 1 \/ written = 2  OBVIOUS
    <3>2. CASE written = 0  BY <2>1, <3>2
    <3>3. CASE written = 1  BY <2>1, <3>3
    <3>4. CASE written = 2  BY <2>1, <3>4
    <3> QED  BY <3>1, <3>2, <3>3, <3>4
  <2>4. o1 \in Object /\ o2 \in Object  BY DEF Object
  <2>5. S \in SUBSET (Fd \X Object)  BY <2>4
  <2>6. /\ host' \in [Fd -> Object \cup {None}]
        /\ \A g \in Fd : host[g] # None => host'[g] = host[g]
        /\ host'[fd1] = o1 /\ host'[fd2] = o2
    BY <1>2, <2>1, <2>2, <2>4
  <2>7. \A h \in S : host[h[1]] = None /\ host'[h[1]] = h[2]  BY <2>2, <2>3, <2>6
  <2>8. call[e].op = "idle" /\ UNCHANGED <<entry, lock, call, inbox>>
    BY <1>5 DEF Socketpair, IsIdle
  <2> QED  BY <2>3, <2>5, <2>6, <2>7, <2>8, GiveStep
<1>6. ASSUME NEW e \in Emulators, NEW fd \in Fd, Dup(e, fd) PROVE IInv'
  <2>1. PICK new \in Fd : /\ IsLowest(new, Free(host))
                          /\ host' = [host EXCEPT ![new] = host[fd]]
                          /\ Goto(e, Call("insert", new, host[fd]))
    BY <1>6 DEF Dup
  <2>2. host[new] = None  BY <2>1 DEF IsLowest, Free
  <2>3. host[fd] \in Object  BY <1>2, <1>6 DEF Dup
  <2> QED  BY <1>6, <2>1, <2>2, <2>3, TakeStep DEF Dup, IsIdle, Goto
<1>7. ASSUME NEW e \in Emulators, NEW fd \in Fd, FcntlDup(e, fd) PROVE IInv'
  <2>1. PICK new \in Fd : /\ IsLowest(new, Free(host))
                          /\ host' = [host EXCEPT ![new] = host[fd]]
                          /\ Learn(e, {<<new, host[fd]>>})
    BY <1>7 DEF FcntlDup
  <2> DEFINE o == host[fd]
             S == {<<new, o>>}
  <2>2. host[new] = None  BY <2>1 DEF IsLowest, Free
  <2>3. o \in Object  BY <1>2, <1>7 DEF FcntlDup
  <2>4. S \in SUBSET (Fd \X Object)  BY <2>3
  <2>5. /\ host' \in [Fd -> Object \cup {None}]
        /\ \A g \in Fd : host[g] # None => host'[g] = host[g]
        /\ host'[new] = o
    BY <1>2, <2>1, <2>2
  <2>6. \A h \in S : host[h[1]] = None /\ host'[h[1]] = h[2]  BY <2>2, <2>5
  <2>7. call[e].op = "idle" /\ Learn(e, S) /\ UNCHANGED <<entry, lock, call, inbox>>
    BY <1>7, <2>1 DEF FcntlDup, IsIdle
  <2> HIDE DEF S
  <2> QED  BY <2>4, <2>5, <2>6, <2>7, GiveStep
<1>8. ASSUME NEW e \in Emulators, NEW fd \in Fd, NEW wide \in Wide, Close(e, fd, wide) PROVE IInv'
  <2>1. wide = FALSE  BY DEF Careful
  <2>2. Holds(e, fd)  BY <1>1, <1>8 DEF Close
  <2> QED  BY <1>8, <2>1, <2>2, CloseStep
<1>9. ASSUME NEW e \in Emulators, NEW fd \in Fd, NEW wide \in Wide,
             Read(e, fd, wide) \/ Write(e, fd, wide) \/ Writev(e, fd)
      PROVE  IInv'
  <2>1. lock' \in Emulators \cup {None} /\ inbox' \subseteq Emulators
    BY <1>9 DEF Read, ReadLookup, Write, Writev, LockedWrite, IInv, TypeOK
  <2>2. UNCHANGED <<host, entry, held>> /\ call[e].op \notin {"insert", "close"}
    BY <1>9 DEF Read, Write, Writev, IsIdle
  <2>3. \E c \in [op : Ops, fd : Fd, obj : Object \cup {None}] :
            c.op \notin {"insert", "close"} /\ call' = [call EXCEPT ![e] = c]
    <3>1. CASE call' = [call EXCEPT ![e] = Call("locked_read", fd, host[fd])]
      <4>1. Call("locked_read", fd, host[fd]) \in [op : Ops, fd : Fd, obj : Object \cup {None}]
        BY <1>2 DEF Call, Ops
      <4> QED  BY <3>1, <4>1 DEF Call
    <3>2. CASE call' = [call EXCEPT ![e] = Call("read", fd, None)]
      <4>1. Call("read", fd, None) \in [op : Ops, fd : Fd, obj : Object \cup {None}]
        BY DEF Call, Ops
      <4> QED  BY <3>2, <4>1 DEF Call
    <3>3. CASE call' = [call EXCEPT ![e] = Call("write", fd, None)]
      <4>1. Call("write", fd, None) \in [op : Ops, fd : Fd, obj : Object \cup {None}]
        BY DEF Call, Ops
      <4> QED  BY <3>3, <4>1 DEF Call
    <3>4. CASE call' = [call EXCEPT ![e] = Call("locked_write", fd, host[fd])]
      <4>1. Call("locked_write", fd, host[fd]) \in [op : Ops, fd : Fd, obj : Object \cup {None}]
        BY <1>2 DEF Call, Ops
      <4> QED  BY <3>4, <4>1 DEF Call
    <3> QED  BY <1>9, <3>1, <3>2, <3>3, <3>4 DEF Read, ReadLookup, Write, Writev, LockedWrite, Goto
  <2> QED  BY <2>1, <2>2, <2>3, QuietStep
<1>10. ASSUME NEW e \in Emulators,
              \/ HostRead(e) \/ HostReadEnds(e) \/ LockedReadEnds(e)
              \/ HostWrite(e) \/ HostWriteEnds(e) \/ LockedWriteEnds(e)
       PROVE  IInv'
  <2>1. lock' \in Emulators \cup {None} /\ inbox' \subseteq Emulators
    BY <1>10 DEF HostRead, HostWrite, LockedReadEnds, HostReadEnds, HostWriteEnds, LockedWriteEnds,
                 Consume, Deliver, IInv, TypeOK
  <2>2. UNCHANGED <<host, entry, held>> /\ call[e].op \notin {"insert", "close"}
    BY <1>10 DEF HostRead, HostWrite, LockedReadEnds, HostReadEnds, HostWriteEnds, LockedWriteEnds
  <2>3. Idle \in [op : Ops, fd : Fd, obj : Object \cup {None}] /\ Idle.op = "idle"
    BY ConstantsAssumption DEF Idle, Call, Ops, Fd
  <2>4. CASE call' = [call EXCEPT ![e] = Idle]  BY <2>1, <2>2, <2>3, <2>4, QuietStep
  <2>5. ASSUME NEW op \in {"reading", "writing"},
               call' = [call EXCEPT ![e] = Call(op, call[e].fd, host[call[e].fd])]
        PROVE  IInv'
    <3> DEFINE c == Call(op, call[e].fd, host[call[e].fd])
    <3>1. call[e].fd \in Fd /\ host[call[e].fd] \in Object \cup {None}  BY <1>2
    <3>2. c \in [op : Ops, fd : Fd, obj : Object \cup {None}] /\ c.op \in {"reading", "writing"}
      BY <3>1 DEF Call, Ops
    <3> HIDE DEF c
    <3>3. call' = [call EXCEPT ![e] = c]  BY <2>5 DEF c
    <3> QED  BY <2>1, <2>2, <3>2, <3>3, QuietStep
  <2>6. \/ call' = [call EXCEPT ![e] = Idle]
        \/ \E op \in {"reading", "writing"} :
              call' = [call EXCEPT ![e] = Call(op, call[e].fd, host[call[e].fd])]
    BY <1>10 DEF HostRead, HostWrite, LockedReadEnds, HostReadEnds, HostWriteEnds, LockedWriteEnds, Goto
  <2> QED  BY <2>4, <2>5, <2>6
<1>11. CASE UNCHANGED vars
  <2>1. UNCHANGED <<host, entry, held, call, lock, inbox>>  BY <1>11 DEF vars
  <2>2. TypeOK'  BY <2>1 DEF IInv, TypeOK
  <2>3. (OwnedIsOpen /\ OwnedOnce)'
    BY <2>1 DEF IInv, OwnedIsOpen, OwnedOnce, Owns, Holds, Pending
  <2>4. (PendingUnused /\ InsertIsTrue)'
    BY <2>1 DEF IInv, PendingUnused, InsertIsTrue, Holds, Pending
  <2>5. (EntryIsTrue /\ HeldIsTrue)'  BY <2>1 DEF IInv, EntryIsTrue, HeldIsTrue
  <2> QED  BY <2>2, <2>3, <2>4, <2>5 DEF IInv
<1>12. ASSUME NEW e \in Emulators, Begin(e) \/ InCall(e) PROVE IInv'
  <2>1. \A fd \in Fd : Writev(e, fd) => IInv'  BY <1>9 DEF Careful
  <2> QED
    BY <2>1, <1>3, <1>4, <1>5, <1>6, <1>7, <1>8, <1>9, <1>10, <1>12,
       InsertStep, HostCloseStep, NewInputStep DEF Begin, InCall
<1> QED  BY <1>11, <1>12 DEF Next

LEMMA Invariance == Careful => (Spec => []IInv)
<1> SUFFICES ASSUME Careful PROVE Spec => []IInv  OBVIOUS
<1>1. IInv /\ [Next]_vars => IInv'  BY NextIInv
<1> QED  BY <1>1, InitIInv, PTL DEF Spec

\* With careful guests, every listed number is open and refers to the file it
\* was listed for, also between the halves of an open, a dup or a close.
THEOREM EntriesStayTrue == Careful => (Spec => []EntriesAreTrue)
<1> SUFFICES ASSUME Careful PROVE Spec => []EntriesAreTrue  OBVIOUS
<1>1. IInv => EntriesAreTrue
  BY DEF IInv, EntriesAreTrue, Stale, EntryIsTrue, PendingUnused, Pending
<1> QED  BY <1>1, Invariance, PTL

\* With careful guests, a held number refers to what its guest opened until
\* that guest closes it, whatever the other emulators do in between.
THEOREM HandlesStayValid == Careful => (Spec => []HandlesAreValid)
<1> SUFFICES ASSUME Careful PROVE Spec => []HandlesAreValid  OBVIOUS
<1>1. IInv => HandlesAreValid
  <2> SUFFICES ASSUME IInv, NEW e \in Emulators, NEW h \in held[e] PROVE host[h[1]] = h[2]
    BY DEF HandlesAreValid
  <2>1. h \in Fd \X Object  BY DEF IInv, TypeOK
  <2>2. h = <<h[1], h[2]>> /\ h[1] \in Fd /\ h[2] \in Object  BY <2>1
  <2> QED  BY <2>2 DEF IInv, HeldIsTrue
<1> QED  BY <1>1, Invariance, PTL

\* No two guests ever hold the same number.
THEOREM HandlesAreApart ==
    Careful => (Spec => [](\A e, f \in Emulators, fd \in Fd : Holds(e, fd) /\ Holds(f, fd) => e = f))
<1> SUFFICES ASSUME Careful
             PROVE  Spec => [](\A e, f \in Emulators, fd \in Fd : Holds(e, fd) /\ Holds(f, fd) => e = f)
  OBVIOUS
<1>1. IInv => \A e, f \in Emulators, fd \in Fd : Holds(e, fd) /\ Holds(f, fd) => e = f
  BY DEF IInv, OwnedOnce, Owns
<1> QED  BY <1>1, Invariance, PTL

-----------------------------------------------------------------------------
(***************************************************************************)
(* Every step of the shared table is a step, or none, of the guests'       *)
(* private ones.  What is needed beyond IInv is that a call between its    *)
(* two halves still has its number: nobody else can close it.              *)
(***************************************************************************)
HalfDone == {"read", "write"}
InUse    == {"reading", "locked_read", "writing", "locked_write"}

UseIsHeld == \A e \in Emulators : call[e].op \in HalfDone => Holds(e, call[e].fd)

LEMMA UseIsHeldStep == Careful /\ IInv /\ UseIsHeld /\ [Next]_vars => UseIsHeld'
<1> SUFFICES ASSUME Careful, IInv, UseIsHeld, [Next]_vars,
                    NEW f \in Emulators, call'[f].op \in HalfDone
             PROVE  \E o \in Object : <<call'[f].fd, o>> \in held'[f]
  BY DEF UseIsHeld, Holds
<1>0. call \in [Emulators -> [op : Ops, fd : Fd, obj : Object \cup {None}]]
      /\ held \in [Emulators -> SUBSET (Fd \X Object)]
  BY DEF IInv, TypeOK
<1>1. ASSUME call'[f] = call[f], held[f] \subseteq held'[f] PROVE \E o \in Object : <<call'[f].fd, o>> \in held'[f]
  BY <1>1 DEF UseIsHeld, Holds
<1>2. CASE UNCHANGED vars  BY <1>1, <1>2 DEF vars
<1>3. ASSUME NEW e \in Emulators, e # f, Begin(e) \/ InCall(e) PROVE \E o \in Object : <<call'[f].fd, o>> \in held'[f]
  <2>1. call'[f] = call[f]
    BY <1>0, <1>3
       DEF Begin, InCall, Open, Socket, Socketpair, Dup, FcntlDup, Close, CloseListed, Read, ReadLookup,
           Write, Writev, LockedWrite, NewInput, Insert, HostClose, HostRead, HostReadEnds,
           LockedReadEnds, HostWrite, HostWriteEnds, LockedWriteEnds, Goto
  <2>2. held'[f] = held[f]
    BY <1>0, <1>3
       DEF Begin, InCall, Open, Socket, Socketpair, Dup, FcntlDup, Close, Read, ReadLookup, Learn, Forget,
           Write, Writev, NewInput, Insert, HostClose, HostRead, HostReadEnds,
           LockedReadEnds, HostWrite, HostWriteEnds, LockedWriteEnds
  <2> QED  BY <1>1, <2>1, <2>2
<1>4. CASE Begin(f)
  <2>1. call[f].op = "idle"
    BY <1>4 DEF Begin, Open, Socket, Socketpair, Dup, FcntlDup, Close, Read, Write, Writev, NewInput, IsIdle
  <2>2. PICK fd \in Fd, wide \in Wide : Read(f, fd, wide) \/ Write(f, fd, wide)
    BY <1>0, <1>4, <2>1
       DEF Begin, Open, Socket, Socketpair, Dup, FcntlDup, Close, CloseListed, Writev, LockedWrite,
           NewInput, Goto, Call, HalfDone
  <2>3. Holds(f, fd)  BY <2>2 DEF Read, Write, MayName, Careful, Holds
  <2>4. call'[f].fd = fd /\ held' = held
    BY <1>0, <2>1, <2>2 DEF Read, ReadLookup, Write, LockedWrite, Goto, Call, HalfDone
  <2> QED  BY <2>3, <2>4 DEF Holds
<1>5. CASE InCall(f)
  BY <1>0, <1>5
     DEF InCall, Insert, HostClose, HostRead, HostReadEnds, LockedReadEnds, HostWrite, HostWriteEnds,
         LockedWriteEnds, Goto, Idle, Call, HalfDone
<1> QED  BY <1>2, <1>3, <1>4, <1>5 DEF Next

LEMMA UseIsHeldAlways == Careful => (Spec => []UseIsHeld)
<1> SUFFICES ASSUME Careful PROVE Spec => []UseIsHeld  OBVIOUS
<1>1. Init => UseIsHeld  BY DEF Init, UseIsHeld, HalfDone, Idle, Call
<1>2. IInv /\ UseIsHeld /\ [Next]_vars => UseIsHeld'  BY UseIsHeldStep
<1> QED  BY <1>1, <1>2, Invariance, PTL DEF Spec

Doing == [e \in Emulators |-> Using(e)]

\* A step leaves the calls of the emulators that do not take it alone.
LEMMA OthersKeepTheirCall ==
    ASSUME IInv, NEW e \in Emulators, Begin(e) \/ InCall(e)
    PROVE  /\ \A f \in Emulators : f # e => call'[f] = call[f]
           /\ Doing' = [Doing EXCEPT ![e] = Using(e)']
<1>1. \A f \in Emulators : f # e => call'[f] = call[f]
  BY DEF Begin, InCall, Open, Socket, Socketpair, Dup, FcntlDup, Close, CloseListed, Read, ReadLookup,
         Write, Writev, LockedWrite, NewInput, Insert, HostClose, HostRead, HostReadEnds,
         LockedReadEnds, HostWrite, HostWriteEnds, LockedWriteEnds, Goto, IInv, TypeOK
<1>2. \A f \in Emulators : f # e => Using(f)' = Using(f)  BY <1>1 DEF Using
<1> QED  BY <1>1, <1>2 DEF Doing

\* A number that is free, or about to be listed, is in nobody's table.
LEMMA NobodyHolds ==
    ASSUME IInv, NEW fd \in Fd,
           host[fd] = None \/ \E e \in Emulators : Pending(e, fd)
    PROVE  Private!Unused(fd)
<1>1. ASSUME host[fd] = None PROVE \A f \in Emulators : ~Holds(f, fd)
  BY <1>1, FreeIsUnowned DEF Owns
<1>2. ASSUME NEW e \in Emulators, Pending(e, fd) PROVE \A f \in Emulators : ~Holds(f, fd)
  BY <1>2 DEF IInv, PendingUnused, OwnedOnce, Owns
<1> QED  BY <1>1, <1>2 DEF Private!Unused, Holds

\* What gives a guest numbers.
LEMMA GiveRefines ==
    ASSUME IInv, NEW e \in Emulators, NEW fd1 \in Fd, NEW fd2 \in Fd, NEW o1 \in Object, NEW o2 \in Object,
           Private!Unused(fd1), Private!Unused(fd2), fd1 = fd2 => o1 = o2,
           Learn(e, {<<fd1, o1>>, <<fd2, o2>>}), UNCHANGED Doing
    PROVE  Private!Give(e)
BY DEF Private!Give, Learn, Doing

\* What begins a read or a write of a number the guest holds.
LEMMA UseRefines ==
    ASSUME IInv, NEW e \in Emulators, NEW fd \in Fd, Holds(e, fd), Using(e) = None,
           Using(e)' = host[fd], UNCHANGED held, Doing' = [Doing EXCEPT ![e] = Using(e)']
    PROVE  Private!Use(e)
<1>1. PICK o \in Object : <<fd, o>> \in held[e]  BY DEF Holds
<1>2. host[fd] = o  BY <1>1 DEF IInv, HeldIsTrue
<1>3. <<fd, o>>[2] = o  OBVIOUS
<1>4. Doing[e] = None  BY DEF Doing
<1> QED  BY <1>1, <1>2, <1>3, <1>4 DEF Private!Use, Doing

LEMMA BeginRefines ==
    ASSUME Careful, IInv, NEW e \in Emulators, Begin(e)
    PROVE  [Private!Next]_<<held, Doing>>
<1>0. /\ call \in [Emulators -> [op : Ops, fd : Fd, obj : Object \cup {None}]]
      /\ host \in [Fd -> Object \cup {None}]
  BY DEF IInv, TypeOK
<1>1. call[e].op = "idle"
  BY DEF Begin, Open, Socket, Socketpair, Dup, FcntlDup, Close, Read, Write, Writev, NewInput, IsIdle
<1>2. Using(e) = None  BY <1>1 DEF Using
<1>3. Doing' = [Doing EXCEPT ![e] = Using(e)']  BY OthersKeepTheirCall
<1>4. ASSUME Using(e)' = None PROVE UNCHANGED Doing
  BY <1>2, <1>3, <1>4 DEF Doing
<1>5. ASSUME NEW o \in Object, Open(e, o) PROVE UNCHANGED <<held, Doing>>
  <2>1. Using(e)' = None  BY <1>0, <1>5 DEF Open, Using, Goto, Call
  <2> QED  BY <1>4, <1>5, <2>1 DEF Open
<1>6. ASSUME NEW fd \in Fd, Dup(e, fd) PROVE UNCHANGED <<held, Doing>>
  <2>1. Using(e)' = None  BY <1>0, <1>6 DEF Dup, Using, Goto, Call
  <2> QED  BY <1>4, <1>6, <2>1 DEF Dup
<1>7. ASSUME NEW o \in Object, Socket(e, o) PROVE Private!Give(e)
  <2>1. PICK fd \in Fd : IsLowest(fd, Free(host)) /\ Learn(e, {<<fd, o>>})
    BY <1>7 DEF Socket
  <2>2. Private!Unused(fd)  BY <2>1, NobodyHolds DEF IsLowest, Free
  <2>3. {<<fd, o>>} = {<<fd, o>>, <<fd, o>>}  OBVIOUS
  <2>4. Learn(e, {<<fd, o>>, <<fd, o>>})  BY <2>1, <2>3
  <2>5. UNCHANGED Doing  BY <1>7 DEF Socket, Doing, Using
  <2> QED  BY <2>2, <2>4, <2>5, GiveRefines
<1>8. ASSUME NEW fd \in Fd, FcntlDup(e, fd) PROVE Private!Give(e)
  <2>1. PICK new \in Fd : IsLowest(new, Free(host)) /\ Learn(e, {<<new, host[fd]>>})
    BY <1>8 DEF FcntlDup
  <2>2. host[fd] \in Object  BY <1>0, <1>8 DEF FcntlDup
  <2>3. Private!Unused(new)  BY <2>1, NobodyHolds DEF IsLowest, Free
  <2>4. {<<new, host[fd]>>} = {<<new, host[fd]>>, <<new, host[fd]>>}  OBVIOUS
  <2>5. Learn(e, {<<new, host[fd]>>, <<new, host[fd]>>})  BY <2>1, <2>4
  <2>6. UNCHANGED Doing  BY <1>8 DEF FcntlDup, Doing, Using
  <2> QED  BY <2>2, <2>3, <2>5, <2>6, GiveRefines
<1>9. ASSUME NEW o1 \in Sockets, NEW o2 \in Sockets, NEW written \in 0..2,
             Socketpair(e, o1, o2, written)
      PROVE  Private!Give(e) \/ UNCHANGED <<held, Doing>>
  <2>1. PICK fd1 \in Fd, fd2 \in Fd :
            /\ IsLowest(fd1, Free(host)) /\ IsLowest(fd2, Free(host) \ {fd1})
            /\ Learn(e, CASE written = 0 -> {}
                          [] written = 1 -> {<<fd1, o1>>}
                          [] written = 2 -> {<<fd1, o1>>, <<fd2, o2>>})
    BY <1>9 DEF Socketpair
  <2>2. /\ host[fd1] = None /\ host[fd2] = None /\ fd1 # fd2
        /\ o1 \in Object /\ o2 \in Object
    BY <2>1 DEF IsLowest, Free, Object
  <2>3. Private!Unused(fd1) /\ Private!Unused(fd2)  BY <2>2, NobodyHolds
  <2>4. UNCHANGED Doing  BY <1>9 DEF Socketpair, Doing, Using
  <2>5. CASE written = 0
    <3>1. Learn(e, {})  BY <2>1, <2>5
    <3> QED  BY <2>4, <3>1 DEF Learn, IInv, TypeOK
  <2>6. CASE written = 1
    <3>1. Learn(e, {<<fd1, o1>>})  BY <2>1, <2>6
    <3>2. {<<fd1, o1>>} = {<<fd1, o1>>, <<fd1, o1>>}  OBVIOUS
    <3>3. Learn(e, {<<fd1, o1>>, <<fd1, o1>>})  BY <3>1, <3>2
    <3> QED  BY <2>2, <2>3, <2>4, <3>3, GiveRefines
  <2>7. CASE written = 2
    <3>1. Learn(e, {<<fd1, o1>>, <<fd2, o2>>})  BY <2>1, <2>7
    <3> QED  BY <2>2, <2>3, <2>4, <3>1, GiveRefines
  <2>8. written = 0 \/ written = 1 \/ written = 2  OBVIOUS
  <2> QED  BY <2>5, <2>6, <2>7, <2>8
<1>10. ASSUME NEW fd \in Fd, NEW wide \in Wide, Close(e, fd, wide) PROVE Private!Drop(e)
  <2>1. Using(e)' = None
    BY <1>0, <1>1, <1>10 DEF Close, CloseListed, Using, Goto, Call
  <2>2. UNCHANGED Doing  BY <1>4, <2>1
  <2>3. Doing[e] = None  BY <1>2 DEF Doing
  <2>4. held' = [held EXCEPT ![e] = {h \in @ : h[1] # fd}]  BY <1>10 DEF Close, Forget
  <2> QED  BY <2>2, <2>3, <2>4 DEF Private!Drop, Doing
<1>11. ASSUME NEW fd \in Fd, NEW wide \in Wide, Read(e, fd, wide) \/ Write(e, fd, wide) \/ Writev(e, fd)
       PROVE  Private!Use(e) \/ UNCHANGED <<held, Doing>>
  <2>1. Holds(e, fd) /\ held' = held
    BY <1>11 DEF Read, Write, Writev, MayName, Careful, Holds
  <2>2. \/ call'[e].op \in {"read", "write"}
        \/ call'[e].op \in {"locked_read", "locked_write"} /\ call'[e].obj = host[fd]
    BY <1>0, <1>11 DEF Read, ReadLookup, Write, Writev, LockedWrite, Goto, Call
  <2>3. Using(e)' = None \/ Using(e)' = host[fd]  BY <2>2 DEF Using
  <2>4. CASE Using(e)' = None  BY <1>4, <2>1, <2>4
  <2>5. CASE Using(e)' = host[fd]  BY <1>2, <1>3, <2>1, <2>5, UseRefines
  <2> QED  BY <2>3, <2>4, <2>5
<1>12. ASSUME NewInput(e) PROVE Private!Restart(e)
  <2>1. UNCHANGED Doing  BY <1>12 DEF NewInput, Doing, Using
  <2>2. Doing[e] = None  BY <1>2 DEF Doing
  <2> QED  BY <1>12, <2>1, <2>2 DEF NewInput, Private!Restart, Doing
<1>13. ASSUME NEW fd \in Fd, Writev(e, fd) PROVE Private!Use(e) \/ UNCHANGED <<held, Doing>>
  BY <1>11, <1>13 DEF Careful
<1> QED
  BY <1>5, <1>6, <1>7, <1>8, <1>9, <1>10, <1>11, <1>12, <1>13 DEF Begin, Private!Next

LEMMA InCallRefines ==
    ASSUME IInv, UseIsHeld, NEW e \in Emulators, InCall(e)
    PROVE  [Private!Next]_<<held, Doing>>
<1>0. /\ call \in [Emulators -> [op : Ops, fd : Fd, obj : Object \cup {None}]]
      /\ host \in [Fd -> Object \cup {None}]
  BY DEF IInv, TypeOK
<1>1. Doing' = [Doing EXCEPT ![e] = Using(e)']  BY OthersKeepTheirCall
<1>2. ASSUME Using(e) = None, Using(e)' = None PROVE UNCHANGED Doing
  BY <1>1, <1>2 DEF Doing
<1>3. ASSUME Insert(e) PROVE Private!Give(e)
  <2> DEFINE fd == call[e].fd
             o  == call[e].obj
  <2>1. fd \in Fd /\ o \in Object /\ Pending(e, fd)
    BY <1>0, <1>3 DEF Insert, IInv, InsertIsTrue, Pending
  <2>2. Private!Unused(fd)  BY <2>1, NobodyHolds
  <2>3. {<<fd, o>>} = {<<fd, o>>, <<fd, o>>}  OBVIOUS
  <2>4. Learn(e, {<<fd, o>>, <<fd, o>>})  BY <1>3, <2>3 DEF Insert
  <2>5. Using(e) = None /\ Using(e)' = None
    BY <1>0, <1>3 DEF Insert, Using, Goto, Idle, Call
  <2>6. UNCHANGED Doing  BY <1>2, <2>5
  <2> HIDE DEF fd, o
  <2> QED  BY <2>1, <2>2, <2>4, <2>6, GiveRefines
<1>4. ASSUME HostClose(e) PROVE UNCHANGED <<held, Doing>>
  <2>1. Using(e) = None /\ Using(e)' = None
    BY <1>0, <1>4 DEF HostClose, Using, Goto, Idle, Call
  <2> QED  BY <1>2, <1>4, <2>1 DEF HostClose
<1>5. ASSUME HostRead(e) \/ HostWrite(e) PROVE Private!Use(e) \/ UNCHANGED <<held, Doing>>
  <2> DEFINE fd == call[e].fd
  <2>1. fd \in Fd /\ call[e].op \in HalfDone /\ held' = held
    BY <1>0, <1>5 DEF HostRead, HostWrite, HalfDone
  <2>2. Holds(e, fd)  BY <2>1 DEF UseIsHeld
  <2>3. Using(e) = None  BY <2>1 DEF Using, HalfDone
  <2>4. call'[e] = Idle \/ (call'[e].op \in {"reading", "writing"} /\ call'[e].obj = host[fd])
    BY <1>0, <1>5 DEF HostRead, HostWrite, Goto, Call
  <2>5. Using(e)' = None \/ Using(e)' = host[fd]  BY <2>4 DEF Using, Idle, Call
  <2> HIDE DEF fd
  <2>6. CASE Using(e)' = None  BY <1>2, <2>1, <2>3, <2>6
  <2>7. CASE Using(e)' = host[fd]  BY <1>1, <2>1, <2>2, <2>3, <2>7, UseRefines
  <2> QED  BY <2>5, <2>6, <2>7
<1>6. ASSUME HostReadEnds(e) \/ LockedReadEnds(e) \/ HostWriteEnds(e) \/ LockedWriteEnds(e)
      PROVE  Private!EndUse(e)
  <2>1. held' = held /\ call' = [call EXCEPT ![e] = Idle]
    BY <1>6 DEF HostReadEnds, LockedReadEnds, HostWriteEnds, LockedWriteEnds, Goto
  <2>2. Using(e)' = None  BY <1>0, <2>1 DEF Using, Idle, Call
  <2> QED  BY <1>1, <2>1, <2>2 DEF Private!EndUse, Doing
<1> QED
  BY <1>3, <1>4, <1>5, <1>6 DEF InCall, Private!Next

\* With careful guests, the table all emulators share, its lock and the host's
\* numbers give every guest a table of its own, however their calls interleave.
THEOREM SharedTableIsPrivate == Careful => (Spec => EachHasItsOwnTable)
<1> SUFFICES ASSUME Careful PROVE Spec => EachHasItsOwnTable  OBVIOUS
<1>1. Init => Private!Init
  BY DEF Init, Private!Init, Using, Idle, Call
<1>2. IInv /\ UseIsHeld /\ [Next]_vars => [Private!Next]_<<held, Doing>>
  <2> SUFFICES ASSUME IInv, UseIsHeld, [Next]_vars PROVE [Private!Next]_<<held, Doing>>
    OBVIOUS
  <2>1. CASE UNCHANGED vars  BY <2>1 DEF vars, Doing, Using
  <2>2. ASSUME NEW e \in Emulators, Begin(e) \/ InCall(e) PROVE [Private!Next]_<<held, Doing>>
    BY <2>2, BeginRefines, InCallRefines
  <2> QED  BY <2>1, <2>2 DEF Next
<1> QED  BY <1>1, <1>2, Invariance, UseIsHeldAlways, PTL DEF Spec, EachHasItsOwnTable, Private!Spec, Doing

-----------------------------------------------------------------------------
(***************************************************************************)
(* Guests of any care, which pass any number and any upper half.  What the *)
(* table and the host hold has its type, and a call that is about to list  *)
(* a number has a file to list.                                            *)
(***************************************************************************)
CallType  == [op : Ops, fd : Fd, obj : Object \cup {None}]
ListsAFile(c) == c.op = "insert" => c.obj # None
AnyInv == TypeOK /\ \A e \in Emulators : ListsAFile(call[e])

LEMMA InitAny == Init => AnyInv
BY ConstantsAssumption DEF Init, AnyInv, TypeOK, ListsAFile, Idle, Call, Ops, Fd

LEMMA IdleIsACall == Idle \in CallType /\ ListsAFile(Idle) /\ Idle.op = "idle"
BY ConstantsAssumption DEF Idle, Call, CallType, ListsAFile, Ops, Fd

\* The call of one emulator changes, or none does.
LEMMA CallStep ==
    ASSUME AnyInv, NEW e \in Emulators, NEW c \in CallType, ListsAFile(c),
           call' = [call EXCEPT ![e] = c] \/ call' = call,
           host' \in [Fd -> Object \cup {None}], entry' \in [Fd -> Object \cup {None}],
           lock' \in Emulators \cup {None}, held' \in [Emulators -> SUBSET (Fd \X Object)],
           inbox' \subseteq Emulators
    PROVE  AnyInv'
BY DEF AnyInv, TypeOK, CallType, ListsAFile

LEMMA LearnType ==
    ASSUME TypeOK, NEW e \in Emulators, NEW S \in SUBSET (Fd \X Object), Learn(e, S)
    PROVE  held' \in [Emulators -> SUBSET (Fd \X Object)]
BY DEF TypeOK, Learn

LEMMA BeginAny == ASSUME AnyInv, NEW e \in Emulators, Begin(e) PROVE AnyInv'
<1>0. /\ call \in [Emulators -> CallType] /\ held \in [Emulators -> SUBSET (Fd \X Object)]
      /\ host \in [Fd -> Object \cup {None}] /\ entry \in [Fd -> Object \cup {None}]
      /\ lock \in Emulators \cup {None} /\ inbox \subseteq Emulators
  BY DEF AnyInv, TypeOK, CallType
<1>1. ASSUME NEW fd \in Fd, NEW o \in Object \cup {None}, NEW op \in Ops \ {"insert"}
      PROVE  Call(op, fd, o) \in CallType /\ ListsAFile(Call(op, fd, o))
  BY DEF Call, CallType, ListsAFile
<1>2. ASSUME NEW fd \in Fd, NEW o \in Object
      PROVE  Call("insert", fd, o) \in CallType /\ ListsAFile(Call("insert", fd, o))
  BY ConstantsAssumption DEF Call, CallType, ListsAFile, Ops
<1>3. ASSUME NEW o \in Object, Open(e, o) PROVE AnyInv'
  <2>1. PICK fd \in Fd : /\ host' = [host EXCEPT ![fd] = o]
                         /\ call' = [call EXCEPT ![e] = Call("insert", fd, o)]
    BY <1>3 DEF Open, Goto
  <2>2. UNCHANGED <<entry, lock, held, inbox>>
    BY <1>3 DEF Open
  <2>. QED BY <1>0, <1>2, <2>1, <2>2, CallStep
<1>4. ASSUME NEW o \in Object, Socket(e, o) PROVE AnyInv'
  <2>1. PICK fd \in Fd : host' = [host EXCEPT ![fd] = o] /\ Learn(e, {<<fd, o>>})
    BY <1>4 DEF Socket
  <2>2. held' \in [Emulators -> SUBSET (Fd \X Object)]
    BY <2>1, LearnType DEF AnyInv
  <2>. QED BY <1>0, <1>4, <2>1, <2>2, IdleIsACall, CallStep DEF Socket
<1>5. ASSUME NEW o1 \in Sockets, NEW o2 \in Sockets, NEW written \in 0..2,
             Socketpair(e, o1, o2, written)
      PROVE  AnyInv'
  <2>1. PICK fd1 \in Fd, fd2 \in Fd :
            /\ host' = [host EXCEPT ![fd1] = o1, ![fd2] = o2]
            /\ Learn(e, CASE written = 0 -> {}
                          [] written = 1 -> {<<fd1, o1>>}
                          [] written = 2 -> {<<fd1, o1>>, <<fd2, o2>>})
    BY <1>5 DEF Socketpair
  <2>2. \E S \in SUBSET (Fd \X Object) : Learn(e, S)
    BY <2>1 DEF Object
  <2>3. held' \in [Emulators -> SUBSET (Fd \X Object)]
    BY <2>2, LearnType DEF AnyInv
  <2>. QED BY <1>0, <1>5, <2>1, <2>3, IdleIsACall, CallStep DEF Socketpair, Object
<1>6. ASSUME NEW fd \in Fd, Dup(e, fd) PROVE AnyInv'
  BY <1>0, <1>2, <1>6, CallStep DEF Dup, Goto
<1>7. ASSUME NEW fd \in Fd, FcntlDup(e, fd) PROVE AnyInv'
  <2>1. PICK new \in Fd : host' = [host EXCEPT ![new] = host[fd]] /\ Learn(e, {<<new, host[fd]>>})
    BY <1>7 DEF FcntlDup
  <2>2. held' \in [Emulators -> SUBSET (Fd \X Object)]
    <3>1. host[fd] \in Object
      BY <1>0, <1>7 DEF FcntlDup
    <3>. QED BY <2>1, <3>1, LearnType DEF AnyInv
  <2>. QED BY <1>0, <1>7, <2>1, <2>2, IdleIsACall, CallStep DEF FcntlDup
<1>8. ASSUME NEW fd \in Fd, NEW wide \in Wide, Close(e, fd, wide) PROVE AnyInv'
  <2>1. held' \in [Emulators -> SUBSET (Fd \X Object)]
    BY <1>0, <1>8 DEF Close, Forget
  <2>2. host' \in [Fd -> Object \cup {None}] /\ entry' \in [Fd -> Object \cup {None}]
        /\ UNCHANGED <<lock, inbox>>
    BY <1>0, <1>8 DEF Close, CloseListed
  <2>3. call' = call \/ call' = [call EXCEPT ![e] = Call("close", fd, None)]
    BY <1>8 DEF Close, CloseListed, Goto
  <2>4. "close" \in Ops \ {"insert"}
    BY DEF Ops
  <2>. QED BY <1>0, <1>1, <2>1, <2>2, <2>3, <2>4, CallStep
<1>9. ASSUME NEW fd \in Fd, \/ \E wide \in Wide : Read(e, fd, wide) \/ Write(e, fd, wide)
                            \/ Writev(e, fd)
      PROVE  AnyInv'
  <2>1. {"read", "locked_read", "write", "locked_write"} \subseteq Ops \ {"insert"}
    BY DEF Ops
  <2>2. UNCHANGED <<host, entry, held, inbox>> /\ lock' \in Emulators \cup {None}
    BY <1>0, <1>9 DEF Read, ReadLookup, Write, Writev, LockedWrite
  <2>3. \E op \in {"read", "locked_read", "write", "locked_write"}, o \in Object \cup {None} :
            call' = [call EXCEPT ![e] = Call(op, fd, o)]
    BY <1>0, <1>9 DEF Read, ReadLookup, Write, Writev, LockedWrite, Goto
  <2>. QED BY <1>0, <1>1, <2>1, <2>2, <2>3, CallStep
<1>10. ASSUME NewInput(e) PROVE AnyInv'
  BY <1>0, <1>10, IdleIsACall, CallStep DEF NewInput
<1>. QED BY <1>3, <1>4, <1>5, <1>6, <1>7, <1>8, <1>9, <1>10 DEF Begin

LEMMA InCallAny == ASSUME AnyInv, NEW e \in Emulators, InCall(e) PROVE AnyInv'
<1>0. /\ call \in [Emulators -> CallType] /\ held \in [Emulators -> SUBSET (Fd \X Object)]
      /\ host \in [Fd -> Object \cup {None}] /\ entry \in [Fd -> Object \cup {None}]
      /\ lock \in Emulators \cup {None} /\ inbox \subseteq Emulators
      /\ call[e].fd \in Fd
  BY DEF AnyInv, TypeOK, CallType
<1>1. CASE Insert(e)
  <2>1. call[e].obj \in Object
    BY <1>1 DEF Insert, AnyInv, TypeOK, ListsAFile
  <2>2. held' \in [Emulators -> SUBSET (Fd \X Object)]
    BY <1>0, <1>1, <2>1, LearnType DEF Insert, AnyInv
  <2>3. host' \in [Fd -> Object \cup {None}]
    BY <1>0, <1>1 DEF Insert
  <2>. QED BY <1>0, <1>1, <2>1, <2>2, <2>3, IdleIsACall, CallStep DEF Insert, Goto
<1>2. CASE HostClose(e)
  BY <1>0, <1>2, IdleIsACall, CallStep DEF HostClose, Goto
<1>3. CASE HostRead(e) \/ HostWrite(e)
  <2>1. \A op \in {"reading", "writing"} :
            LET c == Call(op, call[e].fd, host[call[e].fd]) IN c \in CallType /\ ListsAFile(c)
    BY <1>0 DEF Call, CallType, ListsAFile, Ops
  <2>2. call' = [call EXCEPT ![e] = Idle]
        \/ \E op \in {"reading", "writing"} :
              call' = [call EXCEPT ![e] = Call(op, call[e].fd, host[call[e].fd])]
    BY <1>3 DEF HostRead, HostWrite, Goto
  <2>3. UNCHANGED <<host, entry, lock, held, inbox>>
    BY <1>3 DEF HostRead, HostWrite
  <2>. QED BY <1>0, <2>1, <2>2, <2>3, IdleIsACall, CallStep
<1>4. CASE HostReadEnds(e) \/ LockedReadEnds(e) \/ HostWriteEnds(e) \/ LockedWriteEnds(e)
  BY <1>0, <1>4, IdleIsACall, CallStep
     DEF HostReadEnds, LockedReadEnds, HostWriteEnds, LockedWriteEnds, Consume, Deliver, Goto
<1>. QED BY <1>1, <1>2, <1>3, <1>4 DEF InCall

LEMMA NextAny == AnyInv /\ [Next]_vars => AnyInv'
<1>1. AnyInv /\ UNCHANGED vars => AnyInv'
  BY DEF vars, AnyInv, TypeOK, ListsAFile
<1>. QED BY <1>1, BeginAny, InCallAny DEF Next

LEMMA AnyInvariance == Spec => []AnyInv
BY InitAny, NextAny, PTL DEF Spec

-----------------------------------------------------------------------------
(***************************************************************************)
(* Leaks.  A step of one emulator leaves what the others own to them, so   *)
(* the step must close each number, leave the emulator owning it, or leave *)
(* it alone.                                                               *)
(***************************************************************************)
LEMMA OthersKeepWhatTheyOwn ==
    ASSUME AnyInv, NEW e \in Emulators, Begin(e) \/ InCall(e), NEW f \in Emulators, f # e
    PROVE  call'[f] = call[f] /\ held'[f] = held[f] /\ \A g \in Fd : Owns(f, g)' <=> Owns(f, g)
<1>0. call \in [Emulators -> CallType] /\ held \in [Emulators -> SUBSET (Fd \X Object)]
  BY DEF AnyInv, TypeOK, CallType
<1>1. call'[f] = call[f]
  BY <1>0 DEF Begin, InCall, Open, Socket, Socketpair, Dup, FcntlDup, Close, CloseListed, Read,
         ReadLookup, Write, Writev, LockedWrite, NewInput, Insert, HostClose, HostRead,
         HostReadEnds, LockedReadEnds, HostWrite, HostWriteEnds, LockedWriteEnds, Goto
<1>2. held'[f] = held[f]
  BY <1>0 DEF Begin, InCall, Open, Socket, Socketpair, Dup, FcntlDup, Close, Read, ReadLookup,
         Write, Writev, NewInput, Insert, HostClose, HostRead, HostReadEnds, LockedReadEnds,
         HostWrite, HostWriteEnds, LockedWriteEnds, Learn, Forget
<1>. QED BY <1>1, <1>2 DEF Owns, Holds, Pending

LEMMA TouchedOnly ==
    ASSUME AnyInv, NEW e \in Emulators, Begin(e) \/ InCall(e),
           \A g \in Fd : \/ host'[g] = None
                         \/ Owns(e, g)'
                         \/ host'[g] = host[g] /\ ~Owns(e, g)
    PROVE  Leaked' \subseteq Leaked
<1>1. Leaked = {g \in Fd : host[g] # None /\ \A f \in Emulators : ~Owns(f, g)}
  BY DEF Leaked, Owns, Holds, Pending
<1>2. Leaked' = {g \in Fd : host'[g] # None /\ \A f \in Emulators : ~Owns(f, g)'}
  BY DEF Leaked, Owns, Holds, Pending
<1>3. \A f \in Emulators, g \in Fd : f # e => (Owns(f, g)' <=> Owns(f, g))
  BY OthersKeepWhatTheyOwn
<1>. QED BY <1>1, <1>2, <1>3

LEMMA BeginLeaksNothing ==
    ASSUME AnyInv, NEW e \in Emulators, Begin(e), ~NewInput(e),
           ~\E o1, o2 \in Sockets, written \in {0, 1} : Socketpair(e, o1, o2, written)
    PROVE  Leaked' \subseteq Leaked
<1>0. /\ call \in [Emulators -> CallType] /\ held \in [Emulators -> SUBSET (Fd \X Object)]
      /\ host \in [Fd -> Object \cup {None}]
  BY DEF AnyInv, TypeOK, CallType
<1>1. ASSUME NEW fd \in Fd, call' = [call EXCEPT ![e] = Call("insert", fd, call'[e].obj)],
             call[e].op = "idle", held' = held, \A g \in Fd \ {fd} : host'[g] = host[g]
      PROVE  Leaked' \subseteq Leaked
  <2>1. call'[e].op = "insert" /\ call'[e].fd = fd
    BY <1>0, <1>1 DEF Call
  <2>2. Owns(e, fd)' /\ \A g \in Fd : Owns(e, g) => Owns(e, g)'
    BY <1>1, <2>1 DEF Owns, Pending, Holds
  <2>. QED BY <1>1, <2>2, TouchedOnly
<1>2. ASSUME NEW S \in SUBSET (Fd \X Object), Learn(e, S), UNCHANGED call,
             \A g \in Fd : host'[g] # host[g] => \E o \in Object : <<g, o>> \in S
      PROVE  Leaked' \subseteq Leaked
  <2>1. held'[e] = held[e] \cup S
    BY <1>0, <1>2 DEF Learn
  <2>2. \A g \in Fd : Owns(e, g) => Owns(e, g)'
    BY <1>2, <2>1 DEF Owns, Pending, Holds
  <2>3. \A g \in Fd : host'[g] # host[g] => Owns(e, g)'
    BY <1>2, <2>1 DEF Owns, Holds
  <2>. QED BY <2>2, <2>3, TouchedOnly
<1>3. ASSUME NEW o \in Object, Open(e, o) PROVE Leaked' \subseteq Leaked
  <2>1. PICK fd \in Fd : /\ host' = [host EXCEPT ![fd] = o]
                         /\ call' = [call EXCEPT ![e] = Call("insert", fd, o)]
    BY <1>3 DEF Open, Goto
  <2>2. call'[e].obj = o
    BY <1>0, <2>1 DEF Call
  <2>. QED BY <1>0, <1>1, <1>3, <2>1, <2>2 DEF Open, IsIdle
<1>4. ASSUME NEW fd \in Fd, Dup(e, fd) PROVE Leaked' \subseteq Leaked
  <2>1. PICK new \in Fd : /\ host' = [host EXCEPT ![new] = host[fd]]
                          /\ call' = [call EXCEPT ![e] = Call("insert", new, host[fd])]
    BY <1>4 DEF Dup, Goto
  <2>2. call'[e].obj = host[fd]
    BY <1>0, <2>1 DEF Call
  <2>. QED BY <1>0, <1>1, <1>4, <2>1, <2>2 DEF Dup, IsIdle
<1>5. ASSUME NEW o \in Object, Socket(e, o) PROVE Leaked' \subseteq Leaked
  <2>1. PICK fd \in Fd : host' = [host EXCEPT ![fd] = o] /\ Learn(e, {<<fd, o>>})
    BY <1>5 DEF Socket
  <2>2. \A g \in Fd : host'[g] # host[g] => <<g, o>> \in {<<fd, o>>}
    BY <1>0, <2>1
  <2>. QED BY <1>2, <1>5, <2>1, <2>2 DEF Socket
<1>6. ASSUME NEW fd \in Fd, FcntlDup(e, fd) PROVE Leaked' \subseteq Leaked
  <2>1. PICK new \in Fd : host' = [host EXCEPT ![new] = host[fd]] /\ Learn(e, {<<new, host[fd]>>})
    BY <1>6 DEF FcntlDup
  <2>2. host[fd] \in Object
    BY <1>0, <1>6 DEF FcntlDup
  <2>3. \A g \in Fd : host'[g] # host[g] => <<g, host[fd]>> \in {<<new, host[fd]>>}
    BY <1>0, <2>1
  <2>. QED BY <1>2, <1>6, <2>1, <2>2, <2>3 DEF FcntlDup
<1>7. ASSUME NEW o1 \in Sockets, NEW o2 \in Sockets, Socketpair(e, o1, o2, 2)
      PROVE  Leaked' \subseteq Leaked
  <2>1. PICK fd1 \in Fd, fd2 \in Fd :
            host' = [host EXCEPT ![fd1] = o1, ![fd2] = o2] /\ Learn(e, {<<fd1, o1>>, <<fd2, o2>>})
    BY <1>7 DEF Socketpair
  <2>2. o1 \in Object /\ o2 \in Object
    BY DEF Object
  <2>3. \A g \in Fd : host'[g] # host[g] => g = fd1 \/ g = fd2
    BY <1>0, <2>1
  <2>4. \A g \in Fd : host'[g] # host[g] =>
            \E o \in Object : <<g, o>> \in {<<fd1, o1>>, <<fd2, o2>>}
    BY <2>2, <2>3
  <2>5. {<<fd1, o1>>, <<fd2, o2>>} \in SUBSET (Fd \X Object) /\ UNCHANGED call
    BY <1>7, <2>2 DEF Socketpair
  <2>. QED BY <1>2, <2>1, <2>4, <2>5
<1>8. ASSUME NEW fd \in Fd, NEW wide \in Wide, Close(e, fd, wide) PROVE Leaked' \subseteq Leaked
  <2>1. held'[e] = {h \in held[e] : h[1] # fd}
    BY <1>0, <1>8 DEF Close, Forget
  <2>2. \A g \in Fd \ {fd} : Holds(e, g) => Holds(e, g)'
    BY <2>1 DEF Holds
  <2>3. \A g \in Fd : ~Pending(e, g)
    BY <1>8 DEF Close, IsIdle, Pending
  <2>4. host'[fd] = None \/ Pending(e, fd)'
    BY <1>0, <1>8 DEF Close, CloseListed, Pending, Goto, Call
  <2>5. \A g \in Fd \ {fd} : host'[g] = host[g]
    BY <1>0, <1>8 DEF Close, CloseListed
  <2>6. \A g \in Fd : host'[g] = None \/ Owns(e, g)' \/ (host'[g] = host[g] /\ ~Owns(e, g))
    BY <2>2, <2>3, <2>4, <2>5 DEF Owns
  <2>. QED BY <1>8, <2>6, TouchedOnly
<1>9. ASSUME NEW fd \in Fd, \/ \E wide \in Wide : Read(e, fd, wide) \/ Write(e, fd, wide)
                            \/ Writev(e, fd)
      PROVE  Leaked' \subseteq Leaked
  <2>1. UNCHANGED <<host, held>> /\ \A g \in Fd : ~Pending(e, g)
    BY <1>9 DEF Read, Write, Writev, IsIdle, Pending
  <2>2. \A g \in Fd : Owns(e, g) => Owns(e, g)'
    BY <2>1 DEF Owns, Holds
  <2>. QED BY <2>1, <2>2, TouchedOnly
<1>. QED BY <1>3, <1>4, <1>5, <1>6, <1>7, <1>8, <1>9 DEF Begin

LEMMA InCallLeaksNothing ==
    ASSUME AnyInv, NEW e \in Emulators, InCall(e)
    PROVE  Leaked' \subseteq Leaked
<1>0. /\ call \in [Emulators -> CallType] /\ held \in [Emulators -> SUBSET (Fd \X Object)]
      /\ host \in [Fd -> Object \cup {None}] /\ call[e].fd \in Fd
  BY DEF AnyInv, TypeOK, CallType
<1>. PICK fd \in Fd, o \in Object \cup {None} : fd = call[e].fd /\ o = call[e].obj
  BY <1>0 DEF CallType
<1>1. CASE Insert(e)
  <2>1. o \in Object /\ held'[e] = held[e] \cup {<<fd, o>>}
    BY <1>0, <1>1 DEF Insert, Learn, AnyInv, TypeOK, ListsAFile
  <2>2. Holds(e, fd)' /\ \A g \in Fd : Holds(e, g) => Holds(e, g)'
    BY <2>1 DEF Holds
  <2>3. \A g \in Fd \ {fd} : ~Pending(e, g) /\ host'[g] = host[g]
    BY <1>0, <1>1 DEF Pending, Insert
  <2>4. \A g \in Fd : Owns(e, g)' \/ (host'[g] = host[g] /\ ~Owns(e, g))
    BY <1>0, <2>2, <2>3 DEF Owns
  <2>. QED BY <2>4, TouchedOnly
<1>2. CASE HostClose(e)
  <2>1. host'[fd] = None /\ held' = held /\ \A g \in Fd \ {fd} : ~Pending(e, g) /\ host'[g] = host[g]
    BY <1>0, <1>2 DEF HostClose, Pending
  <2>2. \A g \in Fd : host'[g] = None \/ Owns(e, g)' \/ (host'[g] = host[g] /\ ~Owns(e, g))
    BY <1>0, <2>1 DEF Owns, Holds
  <2>. QED BY <2>2, TouchedOnly
<1>3. CASE \/ HostRead(e) \/ HostReadEnds(e) \/ LockedReadEnds(e)
           \/ HostWrite(e) \/ HostWriteEnds(e) \/ LockedWriteEnds(e)
  <2>1. UNCHANGED <<host, held>> /\ \A g \in Fd : ~Pending(e, g)
    BY <1>3 DEF HostRead, HostReadEnds, LockedReadEnds, HostWrite, HostWriteEnds, LockedWriteEnds,
           Pending
  <2>2. \A g \in Fd : host'[g] = host[g] /\ (Owns(e, g) => Owns(e, g)')
    BY <2>1 DEF Owns, Holds
  <2>. QED BY <2>2, TouchedOnly
<1>. QED BY <1>1, <1>2, <1>3 DEF InCall

\* Whatever numbers any guests pass, and however their calls interleave, a host
\* descriptor is lost only by a socketpair whose numbers the guest never got and
\* by the restart of a guest: every other call that makes one reports it or is
\* about to, and every other call that gives one up closes it or is about to.
THEOREM NothingElseLeaks == Spec => LeakOnlyByErrOrRestart
<1>. DEFINE Step == \/ Leaked' \subseteq Leaked
                    \/ \E e \in Emulators :
                          \/ NewInput(e)
                          \/ \E o1, o2 \in Sockets, written \in {0, 1} :
                                Socketpair(e, o1, o2, written)
<1>1. AnyInv /\ [Next]_vars => [Step]_vars
  BY BeginLeaksNothing, InCallLeaksNothing DEF Next
<1>. QED BY <1>1, AnyInvariance, PTL DEF Spec, LeakOnlyByErrOrRestart

-----------------------------------------------------------------------------
(***************************************************************************)
(* One guest, which may close, read and write any number with any upper    *)
(* half.  Between the two halves of its own calls nobody reuses a number:  *)
(* what it is about to list is what the host opened, and what it is about  *)
(* to close it has given up.                                               *)
(***************************************************************************)
OneEmulator == \A e, f \in Emulators : e = f

CloseIsForgotten ==
    \A e \in Emulators : call[e].op = "close" => ~Holds(e, call[e].fd)

OneInv == AnyInv /\ InsertIsTrue /\ CloseIsForgotten

LEMMA InitOne == Init => OneInv
BY InitAny DEF Init, OneInv, InsertIsTrue, CloseIsForgotten, Idle, Call

LEMMA NextOne == OneEmulator /\ OneInv /\ [Next]_vars => OneInv'
<1>. SUFFICES ASSUME OneEmulator, OneInv, [Next]_vars PROVE OneInv'
  OBVIOUS
<1>. SUFFICES ASSUME NEW e \in Emulators
              PROVE  /\ call'[e].op = "insert" =>
                            host'[call'[e].fd] = call'[e].obj /\ call'[e].obj # None
                     /\ call'[e].op = "close" => ~Holds(e, call[e].fd)'
  BY NextAny DEF OneInv, InsertIsTrue, CloseIsForgotten
<1>0. /\ call \in [Emulators -> CallType] /\ held \in [Emulators -> SUBSET (Fd \X Object)]
      /\ host \in [Fd -> Object \cup {None}]
  BY DEF OneInv, AnyInv, TypeOK, CallType
<1>1. ASSUME NEW fd \in Fd, NEW o \in Object, host'[fd] = o,
             call' = [call EXCEPT ![e] = Call("insert", fd, o)]
      PROVE  /\ call'[e].op = "insert" =>
                    host'[call'[e].fd] = call'[e].obj /\ call'[e].obj # None
             /\ call'[e].op # "close"
  BY <1>0, <1>1, ConstantsAssumption DEF Call
<1>2. CASE UNCHANGED vars
  BY <1>2 DEF vars, OneInv, InsertIsTrue, CloseIsForgotten, Holds
<1>3. ASSUME NEW o \in Object, Open(e, o)
      PROVE  /\ call'[e].op = "insert" =>
                    host'[call'[e].fd] = call'[e].obj /\ call'[e].obj # None
             /\ call'[e].op # "close"
  <2>1. PICK fd \in Fd : /\ host' = [host EXCEPT ![fd] = o]
                         /\ call' = [call EXCEPT ![e] = Call("insert", fd, o)]
    BY <1>3 DEF Open, Goto
  <2>. QED BY <1>0, <1>1, <2>1
<1>4. ASSUME NEW fd \in Fd, Dup(e, fd)
      PROVE  /\ call'[e].op = "insert" =>
                    host'[call'[e].fd] = call'[e].obj /\ call'[e].obj # None
             /\ call'[e].op # "close"
  <2>1. PICK new \in Fd : /\ host' = [host EXCEPT ![new] = host[fd]]
                          /\ call' = [call EXCEPT ![e] = Call("insert", new, host[fd])]
    BY <1>4 DEF Dup, Goto
  <2>2. host[fd] \in Object
    BY <1>0, <1>4 DEF Dup
  <2>. QED BY <1>0, <1>1, <2>1, <2>2
<1>5. ASSUME NEW fd \in Fd, NEW wide \in Wide, Close(e, fd, wide)
      PROVE  call'[e].op # "insert" /\ (call'[e].op = "close" => ~Holds(e, call[e].fd)')
  <2>1. call[e].op = "idle" /\ held'[e] = {h \in held[e] : h[1] # fd}
    BY <1>0, <1>5 DEF Close, Forget, IsIdle
  <2>2. call'[e].op = "idle" \/ (call'[e].op = "close" /\ call'[e].fd = fd)
    BY <1>0, <1>5, <2>1 DEF Close, CloseListed, Goto, Call
  <2>3. ~\E o \in Object : <<fd, o>> \in held'[e]
    BY <2>1
  <2>. QED BY <2>2, <2>3 DEF Holds
<1>6. ASSUME \/ NewInput(e)
             \/ \E o \in Object : Socket(e, o)
             \/ \E o1, o2 \in Sockets, written \in 0..2 : Socketpair(e, o1, o2, written)
             \/ \E fd \in Fd : FcntlDup(e, fd)
      PROVE  call'[e].op = "idle"
  BY <1>6 DEF NewInput, Socket, Socketpair, FcntlDup, IsIdle
<1>7. ASSUME NEW fd \in Fd, \/ \E wide \in Wide : Read(e, fd, wide) \/ Write(e, fd, wide)
                            \/ Writev(e, fd)
      PROVE  call'[e].op \notin {"insert", "close"}
  BY <1>0, <1>7 DEF Read, ReadLookup, Write, Writev, LockedWrite, Goto, Call
<1>8. CASE InCall(e)
  <2>1. call'[e].op \notin {"insert", "close"}
    BY <1>0, <1>8 DEF InCall, Insert, HostClose, HostRead, HostReadEnds, LockedReadEnds, HostWrite,
           HostWriteEnds, LockedWriteEnds, Goto, Idle, Call
  <2>. QED BY <2>1
<1>9. CASE Begin(e)
  BY <1>3, <1>4, <1>5, <1>6, <1>7, <1>9 DEF Begin
<1>10. Begin(e) \/ InCall(e) \/ UNCHANGED vars
  BY DEF Next, OneEmulator
<1>. QED BY <1>2, <1>8, <1>9, <1>10

LEMMA OneInvariance == OneEmulator => (Spec => []OneInv)
<1>. SUFFICES ASSUME OneEmulator PROVE Spec => []OneInv
  OBVIOUS
<1>1. OneInv /\ [Next]_vars => OneInv'
  BY NextOne
<1>. QED BY <1>1, InitOne, PTL DEF Spec

\* What a step of the one emulator there is does to the numbers and the table.
\* Each number is as it was, or new, or listed as what it is, or closed.
Alone(e) == \A f \in Emulators : f = e

LEMMA BeginKeepsTrue ==
    ASSUME OneInv, NEW e \in Emulators, Alone(e), Begin(e)
    PROVE  Stale' \subseteq Stale /\ Dead' \subseteq Dead
<1>0. /\ call \in [Emulators -> CallType] /\ held \in [Emulators -> SUBSET (Fd \X Object)]
      /\ host \in [Fd -> Object \cup {None}] /\ entry \in [Fd -> Object \cup {None}]
  BY DEF OneInv, AnyInv, TypeOK, CallType
<1>1. call[e].op = "idle"
  BY DEF Begin, Open, Socket, Socketpair, Dup, FcntlDup, Close, Read, Write, Writev, NewInput, IsIdle
<1>2. Stale = {g \in Fd : entry[g] # None /\ host[g] # entry[g]}
  BY <1>1 DEF Stale, Alone
<1>3. ASSUME entry' = entry,
             call'[e].op = "insert" => host[call'[e].fd] = None,
             \A g \in Fd : host[g] = None \/ host'[g] = host[g],
             \A g \in Fd, o \in Object :
                <<g, o>> \in held'[e] => <<g, o>> \in held[e] \/ host'[g] = o
      PROVE  Stale' \subseteq Stale /\ Dead' \subseteq Dead
  <2>1. Stale' \subseteq Stale
    BY <1>0, <1>2, <1>3 DEF Stale, Alone
  <2>2. ASSUME NEW h \in Dead' PROVE h \in Dead
    <3>1. h = <<e, <<h[2][1], h[2][2]>>>> /\ h[2][1] \in Fd /\ h[2][2] \in Object
          /\ h[2] \in held'[e] /\ host'[h[2][1]] # h[2][2]
      BY <2>2 DEF Dead, Alone
    <3>2. h[2] \in held[e]
      BY <1>3, <3>1
    <3>3. host[h[2][1]] # h[2][2]
      BY <1>3, <3>1, ConstantsAssumption
    <3>. QED BY <3>1, <3>2, <3>3 DEF Dead
  <2>. QED BY <2>1, <2>2
<1>4. ASSUME NEW o \in Object, Open(e, o) PROVE Stale' \subseteq Stale /\ Dead' \subseteq Dead
  <2>1. PICK fd \in Fd : /\ host[fd] = None /\ host' = [host EXCEPT ![fd] = o]
                         /\ call' = [call EXCEPT ![e] = Call("insert", fd, o)]
    BY <1>4 DEF Open, Goto, IsLowest, Free
  <2>2. host[call'[e].fd] = None
    BY <1>0, <2>1 DEF Call
  <2>3. entry' = entry /\ held' = held /\ \A g \in Fd : host[g] = None \/ host'[g] = host[g]
    BY <1>0, <1>4, <2>1 DEF Open
  <2>. QED BY <1>3, <2>1, <2>2, <2>3
<1>5. ASSUME NEW fd \in Fd, Dup(e, fd) PROVE Stale' \subseteq Stale /\ Dead' \subseteq Dead
  <2>1. PICK new \in Fd : /\ host[new] = None /\ host' = [host EXCEPT ![new] = host[fd]]
                          /\ call' = [call EXCEPT ![e] = Call("insert", new, host[fd])]
    BY <1>5 DEF Dup, Goto, IsLowest, Free
  <2>2. host[call'[e].fd] = None
    BY <1>0, <2>1 DEF Call
  <2>3. entry' = entry /\ held' = held /\ \A g \in Fd : host[g] = None \/ host'[g] = host[g]
    BY <1>0, <1>5, <2>1 DEF Dup
  <2>. QED BY <1>3, <2>1, <2>2, <2>3
<1>6. ASSUME NEW o \in Object, Socket(e, o) PROVE Stale' \subseteq Stale /\ Dead' \subseteq Dead
  <2>1. PICK fd \in Fd : /\ host[fd] = None /\ host' = [host EXCEPT ![fd] = o]
                         /\ Learn(e, {<<fd, o>>})
    BY <1>6 DEF Socket, IsLowest, Free
  <2>2. entry' = entry /\ call'[e].op # "insert" /\ \A g \in Fd : host[g] = None \/ host'[g] = host[g]
    BY <1>0, <1>1, <1>6, <2>1 DEF Socket
  <2>3. \A g \in Fd, p \in Object : <<g, p>> \in held'[e] => <<g, p>> \in held[e] \/ host'[g] = p
    BY <1>0, <2>1 DEF Learn
  <2>. QED BY <1>3, <2>1, <2>2, <2>3
<1>7. ASSUME NEW fd \in Fd, FcntlDup(e, fd) PROVE Stale' \subseteq Stale /\ Dead' \subseteq Dead
  <2>1. PICK new \in Fd : /\ host[new] = None /\ host' = [host EXCEPT ![new] = host[fd]]
                          /\ Learn(e, {<<new, host[fd]>>})
    BY <1>7 DEF FcntlDup, IsLowest, Free
  <2>2. entry' = entry /\ call'[e].op # "insert" /\ \A g \in Fd : host[g] = None \/ host'[g] = host[g]
    BY <1>0, <1>1, <1>7, <2>1 DEF FcntlDup
  <2>3. \A g \in Fd, p \in Object : <<g, p>> \in held'[e] => <<g, p>> \in held[e] \/ host'[g] = p
    BY <1>0, <2>1 DEF Learn
  <2>. QED BY <1>3, <2>1, <2>2, <2>3
<1>8. ASSUME NEW o1 \in Sockets, NEW o2 \in Sockets, NEW written \in 0..2,
             Socketpair(e, o1, o2, written)
      PROVE  Stale' \subseteq Stale /\ Dead' \subseteq Dead
  <2>1. PICK fd1 \in Fd, fd2 \in Fd :
            /\ host[fd1] = None /\ host[fd2] = None /\ fd1 # fd2
            /\ host' = [host EXCEPT ![fd1] = o1, ![fd2] = o2]
            /\ Learn(e, CASE written = 0 -> {}
                          [] written = 1 -> {<<fd1, o1>>}
                          [] written = 2 -> {<<fd1, o1>>, <<fd2, o2>>})
    BY <1>8 DEF Socketpair, IsLowest, Free
  <2>2. host'[fd1] = o1 /\ host'[fd2] = o2 /\ \A g \in Fd : host[g] = None \/ host'[g] = host[g]
    BY <1>0, <2>1
  <2>3. \E S \in SUBSET {<<fd1, o1>>, <<fd2, o2>>} : Learn(e, S)
    BY <2>1
  <2>4. \A g \in Fd, p \in Object : <<g, p>> \in held'[e] => <<g, p>> \in held[e] \/ host'[g] = p
    BY <1>0, <2>2, <2>3 DEF Learn
  <2>5. entry' = entry /\ call'[e].op # "insert"
    BY <1>1, <1>8 DEF Socketpair
  <2>. QED BY <1>3, <2>1, <2>2, <2>4, <2>5
<1>9. ASSUME NEW fd \in Fd, NEW wide \in Wide, Close(e, fd, wide)
      PROVE  Stale' \subseteq Stale /\ Dead' \subseteq Dead
  <2>1. held'[e] = {h \in held[e] : h[1] # fd}
    BY <1>0, <1>9 DEF Close, Forget
  <2>2. call'[e].op # "insert"
    BY <1>0, <1>1, <1>9 DEF Close, CloseListed, Goto, Call
  <2>3. \/ entry' = entry /\ host' = host
        \/ entry' = [entry EXCEPT ![fd] = None] /\ host' = [host EXCEPT ![fd] = None]
    BY <1>9 DEF Close, CloseListed
  <2>4. Stale' \subseteq Stale
    BY <1>0, <1>2, <2>2, <2>3 DEF Stale, Alone
  <2>5. \A g \in Fd \ {fd} : host'[g] = host[g]
    BY <1>0, <2>3
  <2>6. ASSUME NEW h \in Dead' PROVE h \in Dead
    <3>1. h \in Emulators \X (Fd \X Object) /\ h[1] = e /\ h[2] \in held'[e]
          /\ host'[h[2][1]] # h[2][2]
      BY <2>6 DEF Dead, Alone
    <3>2. h[2] \in held[e] /\ h[2][1] \in Fd \ {fd}
      BY <2>1, <3>1
    <3>. QED BY <2>5, <3>1, <3>2 DEF Dead
  <2>. QED BY <2>4, <2>6
<1>10. ASSUME \/ \E fd \in Fd, wide \in Wide : Read(e, fd, wide) \/ Write(e, fd, wide)
              \/ \E fd \in Fd : Writev(e, fd)
              \/ NewInput(e)
       PROVE  Stale' \subseteq Stale /\ Dead' \subseteq Dead
  <2>1. entry' = entry /\ host' = host /\ held'[e] \subseteq held[e]
    BY <1>0, <1>10 DEF Read, Write, Writev, NewInput
  <2>2. call'[e].op # "insert"
    BY <1>0, <1>1, <1>10 DEF Read, ReadLookup, Write, Writev, LockedWrite, NewInput, Goto, Call
  <2>. QED BY <1>3, <2>1, <2>2
<1>. QED BY <1>4, <1>5, <1>6, <1>7, <1>8, <1>9, <1>10 DEF Begin

LEMMA InCallKeepsTrue ==
    ASSUME OneInv, NEW e \in Emulators, Alone(e), InCall(e)
    PROVE  /\ Stale' \subseteq Stale \/ (call[e].op = "close" /\ call'[e] = Idle)
           /\ Dead' \subseteq Dead \/ Stale # {}
<1>0. /\ call \in [Emulators -> CallType] /\ held \in [Emulators -> SUBSET (Fd \X Object)]
      /\ host \in [Fd -> Object \cup {None}] /\ entry \in [Fd -> Object \cup {None}]
      /\ call[e].fd \in Fd /\ call[e].obj \in Object \cup {None}
  BY DEF OneInv, AnyInv, TypeOK, CallType
<1>. PICK fd \in Fd, o \in Object \cup {None} : fd = call[e].fd /\ o = call[e].obj
  BY <1>0
<1>1. CASE Insert(e)
  <2>1. /\ call[e].op = "insert" /\ call'[e].op = "idle" /\ host[fd] = o /\ o # None
        /\ entry' = [entry EXCEPT ![fd] = o] /\ held'[e] = held[e] \cup {<<fd, o>>}
        /\ host' = [host EXCEPT ![fd] = IF entry[fd] = None THEN host[fd] ELSE None]
    BY <1>0, <1>1 DEF Insert, OneInv, InsertIsTrue, Learn, Goto, Idle, Call
  <2>2. CASE entry[fd] = None
    <3>1. host' = host
      BY <1>0, <2>1, <2>2
    <3>2. Stale' \subseteq Stale
      BY <1>0, <2>1, <3>1 DEF Stale, Alone
    <3>3. ASSUME NEW h \in Dead' PROVE h \in Dead
      <4>1. h \in Emulators \X (Fd \X Object) /\ h[1] = e /\ h[2] \in held'[e]
            /\ host[h[2][1]] # h[2][2]
        BY <3>1, <3>3 DEF Dead, Alone
      <4>2. h[2] \in held[e]
        BY <2>1, <4>1
      <4>. QED BY <4>1, <4>2 DEF Dead
    <3>. QED BY <3>2, <3>3
  <2>3. CASE entry[fd] # None
    <3>1. fd \in Stale
      BY <2>1, <2>3 DEF Stale
    <3>2. Stale' \subseteq Stale
      <4>1. \A g \in Fd \ {fd} : entry'[g] = entry[g] /\ host'[g] = host[g]
        BY <1>0, <2>1
      <4>. QED BY <2>1, <3>1, <4>1 DEF Stale, Alone
    <3>. QED BY <3>1, <3>2
  <2>. QED BY <2>2, <2>3
<1>2. CASE HostClose(e)
  <2>1. /\ call[e].op = "close" /\ call'[e] = Idle /\ held' = held
        /\ ~Holds(e, fd) /\ \A g \in Fd \ {fd} : host'[g] = host[g]
    BY <1>0, <1>2 DEF HostClose, Goto, OneInv, CloseIsForgotten
  <2>2. ASSUME NEW h \in Dead' PROVE h \in Dead
    <3>1. h \in Emulators \X (Fd \X Object) /\ h[1] = e /\ h[2] \in held[e]
          /\ host'[h[2][1]] # h[2][2]
      BY <2>1, <2>2 DEF Dead, Alone
    <3>2. h[2] = <<h[2][1], h[2][2]>> /\ h[2][1] \in Fd /\ h[2][2] \in Object
      BY <3>1
    <3>3. h[2][1] # fd
      BY <2>1, <3>1, <3>2 DEF Holds
    <3>. QED BY <2>1, <3>1, <3>2, <3>3 DEF Dead
  <2>. QED BY <2>1, <2>2
<1>3. CASE \/ HostRead(e) \/ HostReadEnds(e) \/ LockedReadEnds(e)
           \/ HostWrite(e) \/ HostWriteEnds(e) \/ LockedWriteEnds(e)
  <2>1. UNCHANGED <<host, entry, held>> /\ call'[e].op # "insert"
    BY <1>0, <1>3 DEF HostRead, HostReadEnds, LockedReadEnds, HostWrite, HostWriteEnds,
           LockedWriteEnds, Goto, Idle, Call
  <2>2. Stale' \subseteq Stale
    BY <2>1 DEF Stale, Alone
  <2>3. Dead' = Dead
    BY <2>1 DEF Dead
  <2>. QED BY <2>2, <2>3
<1>. QED BY <1>1, <1>2, <1>3 DEF InCall

\* Whatever numbers the one guest of a process passes, with whatever upper half,
\* an entry goes stale in one way: libc::close gets a number that is listed
\* because the 64-bit argument was not found in the table.
THEOREM StalenessHasOneSource == OneEmulator => (Spec => StaleOnlyByHostClose)
<1>. SUFFICES ASSUME OneEmulator PROVE Spec => StaleOnlyByHostClose
  OBVIOUS
<1>. DEFINE Step == Stale' \subseteq Stale
                    \/ \E e \in Emulators : call[e].op = "close" /\ call'[e] = Idle
<1>1. OneInv /\ [Next]_vars => [Step]_vars
  BY BeginKeepsTrue, InCallKeepsTrue DEF Next, OneEmulator, Alone
<1>. QED BY <1>1, OneInvariance, PTL DEF Spec, StaleOnlyByHostClose

\* And a number it holds comes to mean something else only while an entry is
\* stale: no sequence of calls breaks a held number of a true table.
THEOREM DeathNeedsStaleness == OneEmulator => (Spec => DeadOnlyOverStale)
<1>. SUFFICES ASSUME OneEmulator PROVE Spec => DeadOnlyOverStale
  OBVIOUS
<1>. DEFINE Step == Dead' \subseteq Dead \/ Stale # {}
<1>1. OneInv /\ [Next]_vars => [Step]_vars
  BY BeginKeepsTrue, InCallKeepsTrue DEF Next, OneEmulator, Alone
<1>. QED BY <1>1, OneInvariance, PTL DEF Spec, DeadOnlyOverStale
=============================================================================
