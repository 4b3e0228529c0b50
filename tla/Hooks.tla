------------------------------- MODULE Hooks -------------------------------
(***************************************************************************)
(* VCoreHooks (src/hook.rs): the callbacks a user has registered, and the  *)
(* one dispatcher per kind that Unicorn calls on their behalf.             *)
(*                                                                         *)
(* hooks and hook_fuc are the fields of VCoreHooks.  The code keeps one    *)
(* pair of maps for the common hooks and one for the address hooks, with   *)
(* the same operations; here one function over Keys stands for both.  An   *)
(* absent entry is the empty list, or NoHandle.  uc is Unicorn's side: the *)
(* dispatchers it will call.                                               *)
(*                                                                         *)
(* Hooks are installed and deleted between events only: no callback of the *)
(* repository touches the hooks while it runs.                             *)
(***************************************************************************)
EXTENDS Integers, SequencesExt

CONSTANTS
    CommonTypes,    \* the HookTypes passed to hook_*: sets of event types
    Addrs,          \* addresses
    Ranges,         \* the <<begin, end>> a hook may be given
    Handles,        \* Unicorn's hook handles
    NoHandle,
    MaxId           \* bound on the hooks ever installed

\* The bits of MEM_UNMAPPED and MEM_PROT, and INSN_INVALID.
FaultTypes == {"READ_UNMAPPED", "WRITE_UNMAPPED", "FETCH_UNMAPPED",
               "READ_PROT", "WRITE_PROT", "FETCH_PROT", "INSN_INVALID"}
FatalTypes == FaultTypes \cup {"INTR"}
EventTypes == {"CODE"} \cup UNION CommonTypes

ASSUME HookAssumption ==
    /\ Addrs \subseteq Nat
    /\ Ranges \subseteq Nat \X Nat
    /\ NoHandle \notin Handles
    /\ MaxId \in Nat

VARIABLES
    next_id,    \* VCoreHooks.next_id
    hooks,      \* key -> the hooks, in the order of their registration
    hook_fuc,   \* key -> handle of the dispatcher VCoreHooks knows
    uc,         \* the dispatchers installed in Unicorn
    event,      \* the event being dispatched, or None
    gone,       \* the HookRets whose hook has been deleted or cleared
    failures    \* the operations in which remove_hook has failed

vars == <<next_id, hooks, hook_fuc, uc, event, gone, failures>>

(***************************************************************************)
(* HookKind, with the events of which Unicorn tells its dispatcher.        *)
(***************************************************************************)
Common(t)  == [kind |-> "Common", types |-> t, addr |-> 0]
Address(a) == [kind |-> "Address", types |-> {"CODE"}, addr |-> a]
Keys == {Common(t) : t \in CommonTypes} \cup {Address(a) : a \in Addrs}

\* Unicorn calls the dispatcher of key k for an event.
Serves(k, type, addr) ==
    /\ type \in k.types
    /\ k.kind = "Address" => k.addr = addr

None == [type |-> "none"]
Idle == event = None

Installed == {d.handle : d \in uc}
Live == UNION {{[key |-> k, id |-> hooks[k][i].id] : i \in DOMAIN hooks[k]} : k \in Keys}

Init ==
    /\ next_id = 1
    /\ hooks = [k \in Keys |-> <<>>]
    /\ hook_fuc = [k \in Keys |-> NoHandle]
    /\ uc = {}
    /\ event = None
    /\ gone = {}
    /\ failures = {}

(***************************************************************************)
(* hook_code, hook_block, hook_intr, hook_insn_invalid, hook_mem and       *)
(* hook_address: ensure_*_dispatcher, then alloc_id, then the push.  When  *)
(* ensure_*_dispatcher fails, nothing has changed.                         *)
(***************************************************************************)
EnsureAlways(k) ==                                                          \* mutant
    \E h \in Handles \ Installed :
        /\ uc' = uc \cup {[handle |-> h, key |-> k]}
        /\ hook_fuc' = [hook_fuc EXCEPT ![k] = h]

EnsureDispatcher(k) ==
    IF hook_fuc[k] # NoHandle
    THEN UNCHANGED <<hook_fuc, uc>>
    ELSE \E h \in Handles \ Installed :
            /\ uc' = uc \cup {[handle |-> h, key |-> k]}
            /\ hook_fuc' = [hook_fuc EXCEPT ![k] = h]

\* An interrupt, an invalid instruction and an address hook have no range.
HasRange(k) == k.kind = "Common" /\ k.types \cap {"INTR", "INSN_INVALID"} = {}

Install(k, range) ==
    /\ Idle
    /\ next_id <= MaxId
    /\ EnsureDispatcher(k)
    /\ hooks' = [hooks EXCEPT ![k] =
                    Append(@, [id |-> next_id, begin |-> range[1], end |-> range[2]])]
    /\ next_id' = next_id + 1
    /\ UNCHANGED <<event, gone, failures>>

(***************************************************************************)
(* hook_del.  The last hook of a key takes the dispatcher with it; if      *)
(* Unicorn fails to remove it, VCoreHooks has forgotten it already.        *)
(***************************************************************************)
Places(list, id) == {i \in DOMAIN list : list[i].id = id}

\* retain, which drops one hook at most: alloc_id gives no id twice.
Without(list, id) ==
    IF Places(list, id) = {} THEN list
    ELSE RemoveAt(list, CHOOSE i \in Places(list, id) : TRUE)

Emptied(h) == hooks[h.key] # <<>> /\ Without(hooks[h.key], h.id) = <<>>

RemoveDispatcher(k) ==
    /\ hook_fuc' = [hook_fuc EXCEPT ![k] = NoHandle]
    /\ \/ /\ uc' = {d \in uc : d.handle # hook_fuc[k]}
          /\ UNCHANGED failures
       \/ /\ hook_fuc[k] # NoHandle
          /\ failures' = failures \cup {"hook_del"}
          /\ UNCHANGED uc

DeleteRemovesAlways(h) ==                                                   \* mutant
    /\ Idle
    /\ hooks' = [hooks EXCEPT ![h.key] = Without(@, h.id)]
    /\ RemoveDispatcher(h.key)
    /\ gone' = gone \cup {h}
    /\ UNCHANGED <<next_id, event>>

Delete(h) ==
    /\ Idle
    /\ hooks' = [hooks EXCEPT ![h.key] = Without(@, h.id)]
    /\ IF Emptied(h) THEN RemoveDispatcher(h.key)
                     ELSE UNCHANGED <<hook_fuc, uc, failures>>
    /\ gone' = gone \cup {h}
    /\ UNCHANGED <<next_id, event>>

(***************************************************************************)
(* clear_hooks drains the handles of the common hooks, then those of the   *)
(* address hooks, removing each.  The first failure ends it: the handles   *)
(* not reached in that map are dropped, and the hooks stay.                *)
(***************************************************************************)
HandlesOf(kind) == {hook_fuc[k] : k \in {j \in Keys : j.kind = kind}} \ {NoHandle}

ClearSucceeds ==
    /\ uc' = {d \in uc : d.handle \notin HandlesOf("Common") \cup HandlesOf("Address")}
    /\ hook_fuc' = [k \in Keys |-> NoHandle]
    /\ hooks' = [k \in Keys |-> <<>>]
    /\ gone' = gone \cup Live
    /\ UNCHANGED failures

ClearFailsIn(kind, removed) ==
    /\ removed \subseteq HandlesOf(kind) /\ removed # HandlesOf(kind)
    /\ LET before  == IF kind = "Address" THEN HandlesOf("Common") ELSE {}
           drained == IF kind = "Address" THEN {"Common", "Address"} ELSE {"Common"}
       IN  /\ uc' = {d \in uc : d.handle \notin before \cup removed}
           /\ hook_fuc' = [k \in Keys |-> IF k.kind \in drained THEN NoHandle ELSE hook_fuc[k]]
    /\ failures' = failures \cup {"clear_hooks"}
    /\ UNCHANGED <<hooks, gone>>

Clear ==
    /\ Idle
    /\ \/ ClearSucceeds
       \/ \E kind \in {"Common", "Address"} :
                \E removed \in SUBSET HandlesOf(kind) : ClearFailsIn(kind, removed)
    /\ UNCHANGED <<next_id, event>>

(***************************************************************************)
(* An event.  Unicorn calls the dispatchers that serve it, each of which   *)
(* walks its list (dispatch_common, dispatch_addr).  cur is the dispatcher *)
(* that runs, pos its place in the list, todo the dispatchers still to     *)
(* call, fired what has been called, caught whether one has answered that  *)
(* the event is handled.                                                   *)
(***************************************************************************)
Raise(type, addr) ==
    /\ Idle
    /\ event' = [type |-> type, addr |-> addr, cur |-> None, pos |-> 0, handled |-> FALSE,
                 todo |-> {d \in uc : Serves(d.key, type, addr)}, fired |-> <<>>,
                 caught |-> FALSE]
    /\ UNCHANGED <<next_id, hooks, hook_fuc, uc, gone, failures>>

Enter(d) ==
    /\ ~Idle /\ event.cur = None /\ d \in event.todo
    /\ event' = [event EXCEPT !.cur = d, !.pos = 1, !.handled = FALSE, !.todo = @ \ {d}]
    /\ UNCHANGED <<next_id, hooks, hook_fuc, uc, gone, failures>>

Walking == ~Idle /\ event.cur # None
List == hooks[event.cur.key]

\* bound_check, which is asked for the common hooks of events with an address.
Begin1End0(hook) == hook.begin = 1 /\ hook.end = 0
InBoundsExclusive(hook, addr) ==                                            \* mutant
    Begin1End0(hook) \/ (hook.begin <= addr /\ addr < hook.end)
InBounds(hook, addr) == Begin1End0(hook) \/ (hook.begin <= addr /\ addr <= hook.end)
Wanted(k, hook, addr) == HasRange(k) => InBounds(hook, addr)

SkipHook ==
    /\ Walking /\ event.pos <= Len(List)
    /\ ~Wanted(event.cur.key, List[event.pos], event.addr)
    /\ event' = [event EXCEPT !.pos = @ + 1]
    /\ UNCHANGED <<next_id, hooks, hook_fuc, uc, gone, failures>>

CallHook(blocks) ==
    /\ Walking /\ event.pos <= Len(List)
    /\ Wanted(event.cur.key, List[event.pos], event.addr)
    /\ event' = [event EXCEPT
            !.fired = Append(@, [key |-> event.cur.key, id |-> List[event.pos].id,
                                 blocked |-> blocks]),
            !.handled = TRUE,
            !.pos = IF blocks THEN Len(List) + 1 ELSE @ + 1]
    /\ UNCHANGED <<next_id, hooks, hook_fuc, uc, gone, failures>>

\* The end of dispatch_common.  Unicorn hears the result of fault hooks only,
\* and asks no further dispatcher once one has handled a fault; an interrupt
\* is handled when any dispatcher has been called.
NeedsHandled(k) == k.types \cap FatalTypes # {}
AnswerAlways == TRUE                                                        \* mutant
Answer == event.handled \/ ~NeedsHandled(event.cur.key)

Leave ==
    /\ Walking /\ event.pos > Len(List)
    /\ event' = [event EXCEPT
            !.cur = None,
            !.caught = @ \/ event.type = "INTR" \/ Answer,
            !.todo = IF event.type \in FaultTypes /\ Answer THEN {} ELSE @]
    /\ UNCHANGED <<next_id, hooks, hook_fuc, uc, gone, failures>>

Completed == ~Idle /\ event.cur = None /\ event.todo = {}

EndEvent ==
    /\ Completed
    /\ event' = None
    /\ UNCHANGED <<next_id, hooks, hook_fuc, uc, gone, failures>>

Dispatch ==
    \/ \E d \in uc : Enter(d)
    \/ SkipHook
    \/ \E blocks \in BOOLEAN : CallHook(blocks)
    \/ Leave
    \/ EndEvent

Next ==
    \/ \E k \in Keys : \E range \in (IF HasRange(k) THEN Ranges ELSE {<<1, 0>>}) :
            Install(k, range)
    \/ \E h \in Live \cup gone : Delete(h)
    \/ Clear
    \/ \E type \in EventTypes, addr \in Addrs : Raise(type, addr)
    \/ Dispatch

Spec == Init /\ [][Next]_vars

----------------------------------------------------------------------------
(* Properties.                                                             *)

TypeOK ==
    /\ next_id \in 1..(MaxId + 1)
    /\ hooks \in [Keys -> Seq([id : 1..MaxId, begin : Nat, end : Nat])]
    /\ hook_fuc \in [Keys -> Handles \cup {NoHandle}]
    /\ uc \subseteq [handle : Handles, key : Keys]
    /\ gone \subseteq [key : Keys, id : 1..MaxId]
    /\ failures \subseteq {"hook_del", "clear_hooks"}
    /\ Idle \/ /\ event.type \in EventTypes /\ event.todo \subseteq uc
               /\ event.cur \in uc \cup {None}

(***************************************************************************)
(* The hooks VCoreHooks counts on: each dispatcher it knows is installed   *)
(* for the right key, and, as long as Unicorn has removed what it was      *)
(* asked to, no other one is.                                              *)
(***************************************************************************)
Known == {[handle |-> hook_fuc[k], key |-> k] : k \in {j \in Keys : hook_fuc[j] # NoHandle}}

DispatchersAreKnown ==
    /\ Known \subseteq uc
    /\ failures = {} => uc = Known

(***************************************************************************)
(* A registered hook has no dispatcher, and so never fires, only once      *)
(* clear_hooks has failed: it drops its handles before it knows that the   *)
(* lists will be cleared.                                                  *)
(***************************************************************************)
SilentOnlyAfterFailedClear ==
    (\E k \in Keys : hooks[k] # <<>> /\ hook_fuc[k] = NoHandle) => "clear_hooks" \in failures

(***************************************************************************)
(* What a user of the hooks relies on.  During an event each of his hooks  *)
(* is called at most once, in the order of registration, none after one    *)
(* of the same kind that returned HOOK_BLOCK.  At its end every hook whose *)
(* range holds the address has been called, unless one before it blocked   *)
(* or, for a fault, a hook of another kind handled it.                     *)
(***************************************************************************)
Covers(k, hook) ==
    HasRange(k) /\ <<hook.begin, hook.end>> # <<1, 0>> => event.addr \in hook.begin..hook.end

Fired == {event.fired[i] : i \in DOMAIN event.fired}
Due(k) == IF Serves(k, event.type, event.addr)
          THEN {hooks[k][i].id : i \in {j \in DOMAIN hooks[k] : Covers(k, hooks[k][j])}}
          ELSE {}

InOrderAndOnce ==
    \A i, j \in DOMAIN event.fired :
        i < j /\ event.fired[i].key = event.fired[j].key
            => event.fired[i].id < event.fired[j].id /\ ~event.fired[i].blocked

NoneMissed ==
    \A k \in Keys : \A id \in Due(k) : \E f \in Fired :
        \/ f.key = k /\ (f.id = id \/ (f.blocked /\ f.id < id))
        \/ f.key # k /\ event.type \in FaultTypes

EveryHookFiresOnce ==
    failures = {} /\ ~Idle => InOrderAndOnce /\ (Completed => NoneMissed)

(***************************************************************************)
(* A fault or an interrupt ends the emulation with an error exactly when   *)
(* no registered hook covers it, however the kinds overlap.                *)
(***************************************************************************)
FaultsAreCaughtByHooks ==
    failures = {} /\ Completed /\ event.type \in FatalTypes
        => (event.caught <=> \E k \in Keys : Due(k) # {})
====
