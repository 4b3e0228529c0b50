-------------------------- MODULE ReusableEmulator --------------------------
(***************************************************************************)
(* src/src/fuzzing.rs: ReusableEmulator runs one guest over and over.      *)
(* `new` captures a snapshot of the prepared guest; every run_input first  *)
(* restores it, then runs the guest on the next input.                     *)
(*                                                                         *)
(* The guest of one run is the one of AddressSpace: while phase is         *)
(* "running" it takes AddressSpace steps.  The snapshot is taken before    *)
(* the first instruction, so it is the loader's layout with the "image"    *)
(* contents.  The order of a Vec of regions is abstracted: a loop over one *)
(* takes its elements in any order, one region a step.                     *)
(***************************************************************************)
EXTENDS AddressSpace

VARIABLES
    phase,    \* where run_input is
    todo,     \* what its current loop has left to do
    proc      \* CPU context, credentials, signal and prctl state

runVars == <<phase, todo, proc>>
allVars == <<vars, runVars>>

Phases == {"idle", "unmap", "remap", "rewrite", "running", "failed"}

SnapRegions   == InitRegions
SnapPages     == TablePages(SnapRegions)
WritableSnap  == {r \in SnapRegions : "W" \in r.prot}

RunInit ==
    /\ Init
    /\ phase = "idle"
    /\ todo = {}
    /\ proc = "snapshot"

\* A step that fails with `?`: run_input returns Err and the rest is skipped.
Fail ==
    /\ phase' = "failed"
    /\ todo' = {}
    /\ UNCHANGED <<vars, proc>>

-----------------------------------------------------------------------------
(***************************************************************************)
(* restore_memory_layout, first loop.  subtract_snapshot_coverage cuts the *)
(* snapshot's regions out of a region of the cloned table; what is left is *)
(* unmapped piece by piece.                                                *)
(***************************************************************************)
StrayPieces(r) ==
    LET stray == PagesOf(r) \ SnapPages
    IN  {piece \in stray \X (1..(LastPage + 1)) :
            /\ piece[1] < piece[2] /\ piece[1]..(piece[2] - 1) \subseteq stray
            /\ (piece[1] - 1) \notin stray /\ piece[2] \notin stray}

RunInput ==
    /\ phase \in {"idle", "failed"}
    /\ phase' = "unmap"
    /\ todo' = UNION {StrayPieces(r) : r \in regions}
    /\ UNCHANGED <<vars, proc>>

UnmapStray(piece) ==
    LET a == piece[1]
        e == piece[2]
        S == a..(e - 1)
    IN  IF UcCanTouch(mapped, S)
        THEN /\ mapped' = mapped \ S
             /\ perm' = UcFill(perm, S, {})
             /\ data' = UcFill(data, S, "zero")
             /\ regions' = RemoveRange(regions, a, e)
             /\ todo' = todo \ {piece}
             /\ UNCHANGED <<brk, last, phase, proc>>
        ELSE Fail

Unmap ==
    /\ phase = "unmap"
    /\ \/ \E piece \in todo : UnmapStray(piece)
       \/ /\ todo = {}
          /\ phase' = "remap"
          /\ todo' = SnapRegions
          /\ UNCHANGED <<vars, proc>>

(***************************************************************************)
(* Second loop: a snapshot region the table still covers is re-protected,  *)
(* any other is mapped again, all of it.  The table becomes the snapshot's *)
(* only after the loop.                                                    *)
(***************************************************************************)
IsRegionListed(r) == r \in regions                                          \* mutant
IsRangeMapped(r) == PagesOf(r) \subseteq TablePages(regions)

RemapPermMissing(r) ==                                                      \* mutant
    IF IsRangeMapped(r) THEN perm ELSE UcFill(perm, PagesOf(r), r.prot)

RemapPerm(r) == UcFill(perm, PagesOf(r), r.prot)   \* mem_map or mem_protect

RemapRegion(r) ==
    LET S == PagesOf(r)
    IN  IF (IF IsRangeMapped(r) THEN UcCanTouch(mapped, S) ELSE UcCanMap(mapped, S))
        THEN /\ mapped' = mapped \cup S
             /\ perm' = RemapPerm(r)
             /\ data' = IF IsRangeMapped(r) THEN data ELSE UcFill(data, S, "zero")
             /\ todo' = todo \ {r}
             /\ UNCHANGED <<regions, brk, last, phase, proc>>
        ELSE Fail

Remap ==
    /\ phase = "remap"
    /\ \/ \E r \in todo : RemapRegion(r)
       \/ /\ todo = {}
          /\ regions' = SnapRegions
          /\ phase' = "rewrite"
          /\ todo' = WritableSnap
          /\ UNCHANGED <<memory, brk, last, proc>>

(***************************************************************************)
(* restore_snapshot after the layout: the saved contents of the writable   *)
(* regions, then the CPU context and the guest's process state; run_input  *)
(* then resets the execution state and starts the guest.                   *)
(***************************************************************************)
RewriteRegion(r) ==
    IF UcCanTouch(mapped, PagesOf(r))
    THEN /\ data' = UcFill(data, PagesOf(r), "image")
         /\ todo' = todo \ {r}
         /\ UNCHANGED <<regions, mapped, perm, brk, last, phase, proc>>
    ELSE Fail

StartGuest ==
    /\ todo = {}
    /\ proc' = "snapshot"
    /\ phase' = "running"
    /\ UNCHANGED <<vars, todo>>

Rewrite ==
    /\ phase = "rewrite"
    /\ (\E r \in todo : RewriteRegion(r)) \/ StartGuest

-----------------------------------------------------------------------------
(***************************************************************************)
(* The run itself.  How it ends, and what run_input answers, is the matter *)
(* of Lifecycle.                                                           *)
(***************************************************************************)
GuestCall ==
    /\ phase = "running"
    /\ Next
    /\ UNCHANGED runVars

GuestChangesProcess ==
    /\ phase = "running"
    /\ proc' = "changed"
    /\ UNCHANGED <<vars, phase, todo>>

GuestStops ==
    /\ phase = "running"
    /\ phase' = "idle"
    /\ UNCHANGED <<vars, todo, proc>>

RunNext ==
    \/ RunInput \/ Unmap \/ Remap \/ Rewrite
    \/ GuestCall \/ GuestChangesProcess \/ GuestStops

RunSpec == RunInit /\ [][RunNext]_allVars

-----------------------------------------------------------------------------
(***************************************************************************)
(* Properties.                                                             *)
(***************************************************************************)
RunTypeOK ==
    /\ regions \subseteq Region /\ mapped \subseteq Page
    /\ perm \in [Page -> Perm] /\ data \in [Page -> Data]
    /\ brk \in 0..(LastPage + 1)
    /\ phase \in Phases
    /\ proc \in {"snapshot", "changed"}

Starts == phase = "rewrite" /\ phase' = "running"

\* Every input starts on the snapshot's table, with every page of it mapped
\* under the protection the snapshot recorded, with the snapshot's contents in
\* the pages that were writable when it was captured, and with its process
\* state, whatever the last guest unmapped, replaced or protected.
SnapshotIsRestored ==
    [][Starts => /\ regions' = SnapRegions
                 /\ SnapPages \subseteq mapped'
                 /\ PermAgree'
                 /\ \A r \in SnapRegions : "W" \in r.prot =>
                        \A p \in PagesOf(r) : data'[p] = "image"
                 /\ proc' = "snapshot"]_allVars

\* A restore fails only while it maps regions again, and only when the guest
\* had unmapped a part of the snapshot's layout: pieces to unmap are always
\* mapped, and regions to protect or rewrite are too.
FailureNeedsAHole ==
    [][(phase # "failed" /\ phase' = "failed") =>
           phase = "remap" /\ ~(SnapPages \subseteq TablePages(regions))]_allVars

\* What "resets between inputs" says, and the code does not: every input that
\* starts finds the prepared guest, its break, the contents of all its pages,
\* and no page mapped beside them.
ResetsBetweenInputs ==
    [][Starts => /\ brk' = HeapEnd
                 /\ \A p \in SnapPages : data'[p] = "image"
                 /\ mapped' = SnapPages]_allVars
=============================================================================
