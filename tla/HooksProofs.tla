---------------------------- MODULE HooksProofs ----------------------------
(***************************************************************************)
(* Theorems about Hooks, for any kinds, addresses, ranges and handles.     *)
(* DispatchersAreKnown alone is not inductive: that a removal takes away   *)
(* one dispatcher and no other also needs handles that are shared by no    *)
(* two dispatchers of uc.                                                  *)
(***************************************************************************)
EXTENDS Hooks, SequenceTheorems, TLAPS

\* Unicorn gives no handle twice, and the handles are handles.
HandlesAreApart ==
    /\ hook_fuc \in [Keys -> Handles \cup {NoHandle}]
    /\ uc \subseteq [handle : Handles, key : Keys]
    /\ \A d, e \in uc : d.handle = e.handle => d = e

IInv == HandlesAreApart /\ DispatchersAreKnown

\* The HookRets a user holds name keys.
GoneHaveKeys == \A h \in gone : h.key \in Keys

LEMMA InitGone == Init => GoneHaveKeys
BY DEF Init, GoneHaveKeys

LEMMA LiveHaveKeys == \A h \in Live : h.key \in Keys
BY DEF Live

LEMMA NextGone == GoneHaveKeys /\ [Next]_vars => GoneHaveKeys'
<1>. SUFFICES ASSUME GoneHaveKeys, [Next]_vars PROVE GoneHaveKeys'
  OBVIOUS
<1>1. UNCHANGED gone \/ gone' = gone \cup Live \/ \E h \in Live \cup gone : gone' = gone \cup {h}
  BY DEF Next, vars, Install, Delete, Clear, ClearSucceeds, ClearFailsIn, Raise, Dispatch,
         Enter, SkipHook, CallHook, Leave, EndEvent
<1>. QED BY <1>1, LiveHaveKeys DEF GoneHaveKeys

LEMMA InitIInv == Init => IInv
BY HookAssumption DEF Init, IInv, HandlesAreApart, DispatchersAreKnown, Known

\* Installing: the dispatcher is known already, or a new one has a new handle.
LEMMA EnsureKeeps ==
    ASSUME IInv, NEW k \in Keys, EnsureDispatcher(k), UNCHANGED failures
    PROVE  IInv'
<1>1. CASE hook_fuc[k] # NoHandle
  BY <1>1 DEF IInv, HandlesAreApart, DispatchersAreKnown, Known, EnsureDispatcher
<1>2. CASE hook_fuc[k] = NoHandle
  <2>1. PICK h \in Handles \ Installed :
          /\ uc' = uc \cup {[handle |-> h, key |-> k]}
          /\ hook_fuc' = [hook_fuc EXCEPT ![k] = h]
    BY <1>2 DEF EnsureDispatcher
  <2>2. \A d \in uc : d.handle # h
    BY DEF Installed
  <2>3. HandlesAreApart'
    BY <2>1, <2>2, HookAssumption DEF IInv, HandlesAreApart
  <2>4. Known' = Known \cup {[handle |-> h, key |-> k]}
    BY <1>2, <2>1, HookAssumption DEF IInv, HandlesAreApart, Known
  <2>. QED BY <2>1, <2>3, <2>4 DEF IInv, DispatchersAreKnown
<1>. QED BY <1>1, <1>2

\* Deleting the last hook of a key.
LEMMA RemoveKeeps ==
    ASSUME IInv, NEW k \in Keys, RemoveDispatcher(k)
    PROVE  IInv'
<1>1. hook_fuc' = [hook_fuc EXCEPT ![k] = NoHandle]
  BY DEF RemoveDispatcher
<1>2. uc' \subseteq uc
  BY DEF RemoveDispatcher
<1>3. HandlesAreApart'
  BY <1>1, <1>2 DEF IInv, HandlesAreApart
<1>4. Known' = {d \in Known : d.key # k}
  BY <1>1 DEF IInv, HandlesAreApart, Known
<1>5. CASE uc' = {d \in uc : d.handle # hook_fuc[k]} /\ UNCHANGED failures
  <2>1. \A d \in Known : d.handle = hook_fuc[k] <=> d.key = k
    <3>1. \A d \in Known : d.key \in Keys /\ d.handle = hook_fuc[d.key]
      BY DEF Known
    <3>2. hook_fuc[k] # NoHandle => [handle |-> hook_fuc[k], key |-> k] \in Known
      BY DEF Known
    <3>3. NoHandle \notin Handles
      BY HookAssumption
    <3>. QED BY <3>1, <3>2, <3>3 DEF IInv, HandlesAreApart, DispatchersAreKnown
  <2>. QED BY <1>3, <1>4, <1>5, <2>1 DEF IInv, DispatchersAreKnown
<1>6. CASE failures' = failures \cup {"hook_del"} /\ UNCHANGED uc
  BY <1>3, <1>4, <1>6 DEF IInv, DispatchersAreKnown
<1>. QED BY <1>5, <1>6 DEF RemoveDispatcher

\* Clearing, to the end or up to a removal that fails.
LEMMA ClearKeeps ==
    ASSUME IInv, Clear
    PROVE  IInv'
<1>1. CASE ClearSucceeds
  <2>1. HandlesAreApart'
    BY <1>1 DEF IInv, HandlesAreApart, ClearSucceeds
  <2>2. Known' = {}
    BY <1>1 DEF ClearSucceeds, Known
  <2>3. \A d \in Known : d.handle \in HandlesOf("Common") \cup HandlesOf("Address")
    BY DEF Known, HandlesOf, Keys, Common, Address
  <2>. QED BY <1>1, <2>1, <2>2, <2>3 DEF IInv, DispatchersAreKnown, ClearSucceeds
<1>2. ASSUME NEW kind \in {"Common", "Address"}, NEW removed \in SUBSET HandlesOf(kind),
             ClearFailsIn(kind, removed)
      PROVE  IInv'
  <2>. DEFINE before  == IF kind = "Address" THEN HandlesOf("Common") ELSE {}
              drained == IF kind = "Address" THEN {"Common", "Address"} ELSE {"Common"}
  <2>1. /\ uc' = {d \in uc : d.handle \notin before \cup removed}
        /\ hook_fuc' = [k \in Keys |-> IF k.kind \in drained THEN NoHandle ELSE hook_fuc[k]]
        /\ failures' = failures \cup {"clear_hooks"}
    BY <1>2 DEF ClearFailsIn
  <2>2. HandlesAreApart'
    BY <2>1 DEF IInv, HandlesAreApart
  <2>3. Known' = {d \in Known : d.key.kind \notin drained}
    BY <2>1 DEF Known
  <2>4. \A d \in Known : d.key.kind \notin drained => d.handle \notin before \cup removed
    <3>. SUFFICES ASSUME NEW d \in Known, d.key.kind \notin drained,
                         NEW k \in Keys, hook_fuc[k] # NoHandle, k.kind \in drained,
                         d.handle = hook_fuc[k]
                  PROVE  FALSE
      BY DEF HandlesOf
    <3>1. [handle |-> hook_fuc[k], key |-> k] \in Known
      BY DEF Known
    <3>. QED BY <3>1 DEF IInv, HandlesAreApart, DispatchersAreKnown
  <2>5. Known' \subseteq uc'
    BY <2>1, <2>3, <2>4 DEF IInv, DispatchersAreKnown
  <2>. QED BY <2>1, <2>2, <2>5 DEF IInv, DispatchersAreKnown
<1>. QED BY <1>1, <1>2 DEF Clear

LEMMA NextIInv == IInv /\ GoneHaveKeys /\ [Next]_vars => IInv'
<1>. SUFFICES ASSUME IInv, GoneHaveKeys, [Next]_vars PROVE IInv'
  OBVIOUS
<1>0. CASE UNCHANGED <<hook_fuc, uc, failures>>
  BY <1>0 DEF IInv, HandlesAreApart, DispatchersAreKnown, Known
<1>1. ASSUME NEW k \in Keys,
             \E range \in (IF HasRange(k) THEN Ranges ELSE {<<1, 0>>}) : Install(k, range)
      PROVE  IInv'
  BY <1>1, EnsureKeeps DEF Install
<1>2. ASSUME NEW h \in Live \cup gone, Delete(h) PROVE IInv'
  <2>1. CASE ~Emptied(h)
    BY <1>0, <1>2, <2>1 DEF Delete
  <2>2. CASE Emptied(h)
    <3>1. h.key \in Keys
      BY LiveHaveKeys DEF GoneHaveKeys
    <3>. QED BY <1>2, <2>2, <3>1, RemoveKeeps DEF Delete
  <2>. QED BY <2>1, <2>2
<1>3. CASE Clear
  BY <1>3, ClearKeeps
<1>4. CASE \E type \in EventTypes, addr \in Addrs : Raise(type, addr)
  BY <1>0, <1>4 DEF Raise
<1>5. CASE Dispatch
  BY <1>0, <1>5 DEF Dispatch, Enter, SkipHook, CallHook, Leave, EndEvent
<1>6. CASE UNCHANGED vars
  BY <1>0, <1>6 DEF vars
<1>. QED BY <1>1, <1>2, <1>3, <1>4, <1>5, <1>6 DEF Next

(***************************************************************************)
(* Every dispatcher that VCoreHooks knows is installed in Unicorn, for its *)
(* own kind, whatever removals have failed; and while none has failed,     *)
(* Unicorn has no other, so that no list is walked twice for one event.    *)
(***************************************************************************)
THEOREM DispatchersStayKnown == Spec => []DispatchersAreKnown
<1>1. IInv => DispatchersAreKnown
  BY DEF IInv
<1>. QED BY <1>1, InitIInv, InitGone, NextIInv, NextGone, PTL DEF Spec

----------------------------------------------------------------------------
(***************************************************************************)
(* The lists.  Ids grow along a list, for alloc_id grows and a deletion    *)
(* keeps the order; and a list has hooks when it has a dispatcher, which   *)
(* is the other way round only until clear_hooks has failed.               *)
(***************************************************************************)
HookRecords == [id : Nat, begin : Nat, end : Nat]
Increasing(list) == \A i, j \in DOMAIN list : i < j => list[i].id < list[j].id
Below(list, n) == \A i \in DOMAIN list : list[i].id < n

ListsOK ==
    /\ next_id \in Nat
    /\ hooks \in [Keys -> Seq(HookRecords)]
    /\ \A k \in Keys : Increasing(hooks[k]) /\ Below(hooks[k], next_id)

Linked ==
    /\ \A k \in Keys : hook_fuc[k] # NoHandle => hooks[k] # <<>>
    /\ "clear_hooks" \notin failures => \A k \in Keys : hooks[k] # <<>> => hook_fuc[k] # NoHandle

LInv == IInv /\ GoneHaveKeys /\ ListsOK /\ Linked

LEMMA RemoveAtProperties ==
    ASSUME NEW R, NEW list \in Seq(R), NEW d \in 1..Len(list)
    PROVE  /\ RemoveAt(list, d) \in Seq(R)
           /\ Len(RemoveAt(list, d)) = Len(list) - 1
           /\ \A i \in 1..(Len(list) - 1) :
                RemoveAt(list, d)[i] = IF i < d THEN list[i] ELSE list[i + 1]
<1>. DEFINE low == SubSeq(list, 1, d - 1)
            high == SubSeq(list, d + 1, Len(list))
<1>1. low \in Seq(R) /\ Len(low) = d - 1 /\ \A i \in 1..(d - 1) : low[i] = list[i]
  OBVIOUS
<1>2. high \in Seq(R) /\ Len(high) = Len(list) - d
  OBVIOUS
<1>3. ASSUME NEW i \in 1..(Len(list) - d) PROVE high[i] = list[d + i]
  <2>1. \A j \in 1..(Len(list) - (d + 1) + 1) : high[j] = list[j + (d + 1) - 1]
    OBVIOUS
  <2>. QED BY <2>1
<1>4. RemoveAt(list, d) = low \o high
  BY DEF RemoveAt
<1>. HIDE DEF low, high
<1>5. low \o high \in Seq(R) /\ Len(low \o high) = Len(list) - 1
  <2>1. low \o high \in Seq(R) /\ Len(low \o high) = Len(low) + Len(high)
    BY <1>1, <1>2, ConcatProperties
  <2>2. Len(list) \in Nat
    OBVIOUS
  <2>. QED BY <1>1, <1>2, <2>1, <2>2
<1>6. ASSUME NEW i \in 1..(Len(list) - 1)
      PROVE  (low \o high)[i] = IF i < d THEN list[i] ELSE list[i + 1]
  <2>1. CASE i < d
    BY <1>1, <1>2, <2>1
  <2>2. CASE ~(i < d)
    <3>1. (low \o high)[i] = high[i - (d - 1)]
      BY <1>1, <1>2, <2>2
    <3>2. i - (d - 1) \in 1..(Len(list) - d) /\ d + (i - (d - 1)) = i + 1
      BY <2>2
    <3>. QED BY <1>3, <2>2, <3>1, <3>2
  <2>. QED BY <2>1, <2>2
<1>. QED BY <1>4, <1>5, <1>6

\* A deletion keeps the hooks that stay in their order, and finds no more in an empty list.
LEMMA WithoutKeepsOrder ==
    ASSUME NEW list \in Seq(HookRecords), NEW id, NEW n, Increasing(list), Below(list, n)
    PROVE  /\ Without(list, id) \in Seq(HookRecords)
           /\ Increasing(Without(list, id)) /\ Below(Without(list, id), n)
<1>1. CASE Places(list, id) = {}
  BY <1>1 DEF Without
<1>2. CASE Places(list, id) # {}
  <2>. DEFINE d == CHOOSE i \in Places(list, id) : TRUE
              short == RemoveAt(list, d)
  <2>1. d \in 1..Len(list)
    BY <1>2 DEF Places
  <2>2. Without(list, id) = short
    BY <1>2 DEF Without
  <2>. HIDE DEF d
  <2>3. /\ short \in Seq(HookRecords) /\ Len(short) = Len(list) - 1
        /\ \A i \in 1..(Len(list) - 1) : short[i] = IF i < d THEN list[i] ELSE list[i + 1]
    BY <2>1, RemoveAtProperties
  <2>. HIDE DEF short
  <2>4. Increasing(short)
    <3>. DEFINE At(i) == IF i < d THEN i ELSE i + 1
    <3>1. \A i \in 1..(Len(list) - 1) : At(i) \in 1..Len(list) /\ short[i] = list[At(i)]
      BY <2>1, <2>3
    <3>2. \A i, j \in 1..(Len(list) - 1) : i < j => At(i) < At(j)
      BY <2>1
    <3>. HIDE DEF At
    <3>. QED BY <2>3, <3>1, <3>2 DEF Increasing
  <2>5. Below(short, n)
    <3>. SUFFICES ASSUME NEW i \in 1..(Len(list) - 1) PROVE short[i].id < n
      BY <2>3 DEF Below
    <3>1. i \in DOMAIN list /\ i + 1 \in DOMAIN list
      OBVIOUS
    <3>2. list[i].id < n /\ list[i + 1].id < n
      BY <3>1 DEF Below
    <3>3. short[i] = list[i] \/ short[i] = list[i + 1]
      BY <2>3
    <3>. QED BY <3>2, <3>3
  <2>. QED BY <2>2, <2>3, <2>4, <2>5
<1>. QED BY <1>1, <1>2

LEMMA IdsAreNumbers ==
    ASSUME NEW list \in Seq(HookRecords), NEW i \in DOMAIN list
    PROVE  list[i] \in HookRecords /\ list[i].id \in Nat
<1>1. list[i] \in HookRecords
  OBVIOUS
<1>. QED BY <1>1 DEF HookRecords

LEMMA WithoutEmpty == \A id : Without(<<>>, id) = <<>>
BY DEF Without, Places

LEMMA InitLists == Init => ListsOK /\ Linked
BY DEF Init, ListsOK, Linked, Increasing, Below

LEMMA InstallLists ==
    ASSUME LInv, NEW k \in Keys, NEW range \in (IF HasRange(k) THEN Ranges ELSE {<<1, 0>>}),
           Install(k, range)
    PROVE  ListsOK' /\ Linked'
<1>. DEFINE hook == [id |-> next_id, begin |-> range[1], end |-> range[2]]
            list == hooks[k]
            longer == Append(list, hook)
<1>1. hook \in HookRecords
  BY HookAssumption DEF LInv, ListsOK, HookRecords
<1>2. next_id' = next_id + 1 /\ hooks' = [hooks EXCEPT ![k] = longer] /\ failures' = failures
  BY DEF Install
<1>3. /\ hooks \in [Keys -> Seq(HookRecords)] /\ list \in Seq(HookRecords) /\ next_id \in Nat
      /\ Increasing(list) /\ \A j \in Keys : Below(hooks[j], next_id)
  BY DEF LInv, ListsOK
<1>. HIDE DEF hook
<1>4. /\ longer \in Seq(HookRecords) /\ Len(longer) = Len(list) + 1 /\ longer # <<>>
      /\ \A i \in DOMAIN longer : longer[i] = IF i <= Len(list) THEN list[i] ELSE hook
  BY <1>1, <1>3
<1>5. hook.id = next_id
  BY DEF hook
<1>. HIDE DEF longer
<1>6. \A j \in Keys : \A i \in DOMAIN hooks[j] : hooks[j][i].id \in Nat
  BY <1>3, IdsAreNumbers
<1>7. \A i \in 1..Len(longer) : longer[i].id = IF i <= Len(list) THEN list[i].id ELSE next_id
  BY <1>4, <1>5
<1>8. \A j \in Keys : Below(hooks[j], next_id + 1)
  BY <1>3, <1>6 DEF Below
<1>9. \A i \in 1..Len(list) : list[i].id \in Nat /\ list[i].id < next_id
  BY <1>3, <1>6 DEF Below
<1>10. Below(longer, next_id + 1)
  BY <1>3, <1>4, <1>7, <1>9 DEF Below
<1>11. Increasing(longer)
  BY <1>3, <1>4, <1>7, <1>9 DEF Increasing
<1>12. ListsOK'
  BY <1>2, <1>3, <1>4, <1>8, <1>10, <1>11 DEF LInv, ListsOK
<1>13. hook_fuc' \in [Keys -> Handles \cup {NoHandle}] /\ hook_fuc'[k] # NoHandle
       /\ \A j \in Keys : j # k => hook_fuc'[j] = hook_fuc[j]
  BY HookAssumption DEF LInv, IInv, HandlesAreApart, Install, EnsureDispatcher
<1>14. Linked'
  BY <1>2, <1>3, <1>4, <1>13 DEF LInv, Linked
<1>. QED BY <1>12, <1>14

LEMMA DeleteLists ==
    ASSUME LInv, NEW h \in Live \cup gone, Delete(h)
    PROVE  ListsOK' /\ Linked'
<1>. DEFINE k == h.key
            shorter == Without(hooks[k], h.id)
<1>1. k \in Keys
  BY LiveHaveKeys DEF LInv, GoneHaveKeys
<1>2. next_id' = next_id /\ hooks' = [hooks EXCEPT ![k] = shorter]
  BY DEF Delete
<1>3. /\ shorter \in Seq(HookRecords) /\ Increasing(shorter) /\ Below(shorter, next_id)
  BY <1>1, WithoutKeepsOrder DEF LInv, ListsOK
<1>4. hooks[k] = <<>> => shorter = <<>>
  BY WithoutEmpty
<1>5. Emptied(h) <=> hooks[k] # <<>> /\ shorter = <<>>
  BY DEF Emptied
<1>. HIDE DEF shorter
<1>6. ListsOK'
  BY <1>1, <1>2, <1>3 DEF LInv, ListsOK
<1>7. CASE Emptied(h)
  <2>1. hook_fuc' = [hook_fuc EXCEPT ![k] = NoHandle] /\ failures \subseteq failures'
    BY <1>7 DEF Delete, RemoveDispatcher
  <2>2. hook_fuc'[k] = NoHandle /\ hooks'[k] = <<>>
        /\ \A j \in Keys : j # k => hook_fuc'[j] = hook_fuc[j] /\ hooks'[j] = hooks[j]
    BY <1>1, <1>2, <1>5, <1>7, <2>1 DEF LInv, IInv, HandlesAreApart, ListsOK
  <2>. QED BY <1>6, <2>1, <2>2 DEF LInv, Linked
<1>8. CASE ~Emptied(h)
  <2>1. UNCHANGED <<hook_fuc, failures>>
    BY <1>8 DEF Delete
  <2>2. \A j \in Keys : hooks'[j] = <<>> <=> hooks[j] = <<>>
    BY <1>1, <1>2, <1>4, <1>5, <1>8 DEF LInv, ListsOK
  <2>. QED BY <1>6, <2>1, <2>2 DEF LInv, Linked
<1>. QED BY <1>7, <1>8

LEMMA ClearLists ==
    ASSUME LInv, Clear
    PROVE  ListsOK' /\ Linked'
<1>1. CASE ClearSucceeds
  BY <1>1 DEF LInv, ListsOK, Linked, Clear, ClearSucceeds, Increasing, Below
<1>2. ASSUME NEW kind \in {"Common", "Address"}, NEW removed \in SUBSET HandlesOf(kind),
             ClearFailsIn(kind, removed)
      PROVE  ListsOK' /\ Linked'
  <2>1. UNCHANGED <<hooks, next_id>> /\ "clear_hooks" \in failures'
    BY <1>2 DEF Clear, ClearFailsIn
  <2>2. \A k \in Keys : hook_fuc'[k] # NoHandle => hook_fuc'[k] = hook_fuc[k]
    BY <1>2 DEF ClearFailsIn
  <2>. QED BY <2>1, <2>2 DEF LInv, ListsOK, Linked
<1>. QED BY <1>1, <1>2 DEF Clear

LEMMA NextLists == LInv /\ [Next]_vars => LInv'
<1>. SUFFICES ASSUME LInv, [Next]_vars PROVE ListsOK' /\ Linked'
  BY NextIInv, NextGone DEF LInv
<1>0. CASE UNCHANGED <<next_id, hooks, hook_fuc, failures>>
  BY <1>0 DEF LInv, ListsOK, Linked
<1>1. CASE \E k \in Keys : \E range \in (IF HasRange(k) THEN Ranges ELSE {<<1, 0>>}) :
                Install(k, range)
  BY <1>1, InstallLists
<1>2. CASE \E h \in Live \cup gone : Delete(h)
  BY <1>2, DeleteLists
<1>3. CASE Clear
  BY <1>3, ClearLists
<1>4. CASE (\E type \in EventTypes, addr \in Addrs : Raise(type, addr)) \/ Dispatch
  BY <1>0, <1>4 DEF Raise, Dispatch, Enter, SkipHook, CallHook, Leave, EndEvent
<1>5. CASE UNCHANGED vars
  BY <1>0, <1>5 DEF vars
<1>. QED BY <1>1, <1>2, <1>3, <1>4, <1>5 DEF Next

LEMMA LInvariance == Spec => []LInv
BY InitIInv, InitGone, InitLists, NextLists, PTL DEF Spec, LInv

(***************************************************************************)
(* A registered hook is without a dispatcher only once clear_hooks has     *)
(* failed: neither an installation, nor a deletion, failed or not, nor a   *)
(* second deletion of the same hook can silence another hook of its kind.  *)
(***************************************************************************)
THEOREM HooksAreHeard == Spec => []SilentOnlyAfterFailedClear
<1>1. LInv => SilentOnlyAfterFailedClear
  BY DEF LInv, Linked, SilentOnlyAfterFailedClear
<1>. QED BY <1>1, LInvariance, PTL

----------------------------------------------------------------------------
(***************************************************************************)
(* The event being dispatched, while no removal has failed.                *)
(***************************************************************************)
Entries == [key : Keys, id : Nat, blocked : BOOLEAN]
Serving == {d \in uc : Serves(d.key, event.type, event.addr)}

EventShape ==
    /\ event \in [type : EventTypes, addr : Addrs, cur : Serving \cup {None}, pos : Nat,
                  handled : BOOLEAN, todo : SUBSET Serving, fired : Seq(Entries),
                  caught : BOOLEAN]
    /\ event.cur # None => event.cur \notin event.todo /\ event.pos \in 1..(Len(List) + 1)

\* What was called is due, and its dispatcher is not called again.
FiredAreDue ==
    \A f \in Fired : f.id \in Due(f.key) /\ \A d \in event.todo : d.key # f.key

CalledOrBlocked(k, id) ==
    \E f \in Fired : f.key = k /\ (f.id = id \/ (f.blocked /\ f.id < id))

\* The part of its list the running dispatcher has walked.
WalkedSoFar ==
    event.cur # None =>
        /\ \A f \in Fired : f.key = event.cur.key =>
                /\ \E i \in 1..(event.pos - 1) : f.id = List[i].id
                /\ f.blocked => event.pos = Len(List) + 1
        /\ \A i \in 1..(event.pos - 1) :
                Wanted(event.cur.key, List[i], event.addr)
                    => CalledOrBlocked(event.cur.key, List[i].id)
        /\ event.handled <=> \E f \in Fired : f.key = event.cur.key

\* The lists of the dispatchers that have left, or will not be asked.
DoneWithRest ==
    \A d \in Serving \ event.todo : d # event.cur =>
        \A id \in Due(d.key) :
            \/ CalledOrBlocked(d.key, id)
            \/ event.type \in FaultTypes /\ \E f \in Fired : f.key # d.key

CaughtByCalled ==
    event.type \in FatalTypes =>
        (event.caught <=> \E f \in Fired : event.cur # None => f.key # event.cur.key)

EventInv == EventShape /\ InOrderAndOnce /\ FiredAreDue /\ WalkedSoFar /\ DoneWithRest /\ CaughtByCalled
EInv == failures = {} /\ ~Idle => EventInv

LEMMA InitEvent == Init => EInv
BY DEF Init, EInv, Idle

\* One dispatcher walks each list that has hooks, and no other one is asked.
LEMMA OneDispatcherEach ==
    ASSUME LInv, failures = {}
    PROVE  /\ \A d \in uc : d.key \in Keys /\ d # None /\ hooks[d.key] # <<>>
           /\ \A d, e \in uc : d.key = e.key => d = e
           /\ \A k \in Keys : hooks[k] # <<>> => \E d \in uc : d.key = k
<1>1. uc = Known
  BY DEF LInv, IInv, DispatchersAreKnown
<1>2. \A d \in uc : d \in [handle : Handles, key : Keys]
  BY DEF LInv, IInv, HandlesAreApart
<1>3. \A d \in uc : d # None
  BY <1>2 DEF None
<1>4. \A d \in uc : d.key \in Keys /\ hook_fuc[d.key] # NoHandle
                    /\ d = [handle |-> hook_fuc[d.key], key |-> d.key]
  BY <1>1 DEF Known
<1>5. \A k \in Keys : hook_fuc[k] # NoHandle <=> hooks[k] # <<>>
  BY DEF LInv, Linked
<1>6. \A k \in Keys : hook_fuc[k] # NoHandle => [handle |-> hook_fuc[k], key |-> k] \in uc
  BY <1>1 DEF Known
<1>. QED BY <1>3, <1>4, <1>5, <1>6

\* The hooks that cover the event are those that dispatch_* calls.
LEMMA DueIsWanted ==
    ASSUME LInv, event.addr \in Nat, NEW k \in Keys
    PROVE  Due(k) = IF Serves(k, event.type, event.addr)
                    THEN {hooks[k][i].id :
                            i \in {j \in DOMAIN hooks[k] : Wanted(k, hooks[k][j], event.addr)}}
                    ELSE {}
<1>1. \A j \in DOMAIN hooks[k] : Covers(k, hooks[k][j]) <=> Wanted(k, hooks[k][j], event.addr)
  <2>. SUFFICES ASSUME NEW j \in DOMAIN hooks[k]
                PROVE  Covers(k, hooks[k][j]) <=> Wanted(k, hooks[k][j], event.addr)
    OBVIOUS
  <2>1. hooks[k][j] \in HookRecords
    BY IdsAreNumbers DEF LInv, ListsOK
  <2>2. hooks[k][j].begin \in Nat /\ hooks[k][j].end \in Nat
    BY <2>1 DEF HookRecords
  <2>. QED BY <2>2 DEF Covers, Wanted, InBounds, Begin1End0
<1>. QED BY <1>1 DEF Due

\* A step of the dispatch: the event stays the same, and so do the hooks.
SameEvent ==
    /\ event'.type = event.type /\ event'.addr = event.addr
    /\ UNCHANGED <<next_id, hooks, hook_fuc, uc, gone, failures>>

LEMMA SameIsDue ==
    ASSUME SameEvent
    PROVE  Serving' = Serving /\ \A k \in Keys : Due(k)' = Due(k)
BY DEF SameEvent, Serving, Due, Serves, Covers, HasRange

LEMMA FiredAreEntries ==
    ASSUME EventInv
    PROVE  /\ event.fired \in Seq(Entries)
           /\ \A f \in Fired : f.key \in Keys /\ f.id \in Nat /\ f.blocked \in BOOLEAN
<1>1. event.fired \in Seq(Entries)
  BY DEF EventInv, EventShape
<1>2. \A f \in Fired : f \in Entries
  BY <1>1 DEF Fired
<1>. QED BY <1>1, <1>2 DEF Entries

LEMMA RaiseKeeps ==
    ASSUME LInv, failures = {}, NEW type \in EventTypes, NEW addr \in Addrs, Raise(type, addr)
    PROVE  EventInv'
<1>1. event' = [type |-> type, addr |-> addr, cur |-> None, pos |-> 0, handled |-> FALSE,
                todo |-> Serving', fired |-> <<>>, caught |-> FALSE]
  BY DEF Raise, Serving
<1>2. EventShape'
  BY <1>1 DEF EventShape
<1>3. Fired' = {} /\ DOMAIN event'.fired = {}
  BY <1>1 DEF Fired
<1>4. event'.cur = None /\ event'.todo = Serving' /\ ~event'.caught
  BY <1>1
<1>5. InOrderAndOnce'
  BY <1>3 DEF InOrderAndOnce
<1>6. FiredAreDue' /\ WalkedSoFar' /\ DoneWithRest' /\ CaughtByCalled'
  BY <1>3, <1>4 DEF FiredAreDue, WalkedSoFar, DoneWithRest, CaughtByCalled
<1>. QED BY <1>2, <1>5, <1>6 DEF EventInv

LEMMA EnterKeeps ==
    ASSUME LInv, failures = {}, EventInv, NEW d \in uc, Enter(d)
    PROVE  EventInv'
<1>1. /\ SameEvent /\ event.cur = None /\ d \in event.todo
      /\ event'.cur = d /\ event'.pos = 1 /\ event'.handled = FALSE
      /\ event'.todo = event.todo \ {d} /\ event'.fired = event.fired
      /\ event'.caught = event.caught
  BY DEF Enter, SameEvent, EventInv, EventShape
<1>2. Serving' = Serving /\ (\A k \in Keys : Due(k)' = Due(k)) /\ Fired' = Fired
  BY <1>1, SameIsDue DEF Fired
<1>3. d \in Serving /\ d.key \in Keys /\ d # None /\ \A e \in uc : e # None
  BY <1>1, OneDispatcherEach DEF EventInv, EventShape
<1>4. EventShape'
  <2>1. hooks'[d.key] \in Seq(HookRecords)
    BY <1>1, <1>3 DEF SameEvent, LInv, ListsOK
  <2>2. event'.pos \in 1..(Len(List') + 1)
    BY <1>1, <2>1 DEF List
  <2>3. event' \in [type : EventTypes, addr : Addrs, cur : Serving \cup {None}, pos : Nat,
                    handled : BOOLEAN, todo : SUBSET Serving, fired : Seq(Entries),
                    caught : BOOLEAN]
    BY <1>3 DEF Enter, EventInv, EventShape
  <2>. QED BY <1>1, <1>2, <2>2, <2>3 DEF EventShape
<1>5. \A f \in Fired : f.key \in Keys
  BY FiredAreEntries
<1>6. InOrderAndOnce'
  BY <1>1 DEF EventInv, InOrderAndOnce
<1>7. FiredAreDue'
  BY <1>1, <1>2, <1>5 DEF EventInv, FiredAreDue
<1>8. \A f \in Fired : f.key # d.key
  BY <1>1 DEF EventInv, FiredAreDue
<1>9. WalkedSoFar'
  BY <1>1, <1>2, <1>8 DEF WalkedSoFar
<1>10. DoneWithRest'
  <2>1. \A e \in Serving' \ event'.todo : e # event'.cur => e \in Serving \ event.todo /\ e # event.cur
    BY <1>1, <1>2, <1>3 DEF Serving
  <2>2. \A e \in Serving : e.key \in Keys
    BY OneDispatcherEach DEF Serving
  <2>. QED BY <1>1, <1>2, <2>1, <2>2 DEF EventInv, DoneWithRest, CalledOrBlocked, SameEvent
<1>11. CaughtByCalled'
  BY <1>1, <1>2, <1>3, <1>8 DEF EventInv, CaughtByCalled, SameEvent
<1>. QED BY <1>4, <1>6, <1>7, <1>9, <1>10, <1>11 DEF EventInv

\* What the steps of a walk leave alone.
WalkStep ==
    /\ SameEvent /\ event.cur # None
    /\ event'.cur = event.cur /\ event'.todo = event.todo /\ event'.caught = event.caught

LEMMA WalkFacts ==
    ASSUME LInv, failures = {}, EventInv, WalkStep
    PROVE  /\ Serving' = Serving /\ List' = List /\ \A k \in Keys : Due(k)' = Due(k)
           /\ event.cur \in Serving /\ event.cur \in uc /\ event.cur.key \in Keys
           /\ Serves(event.cur.key, event.type, event.addr)
           /\ List \in Seq(HookRecords) /\ List # <<>> /\ Increasing(List)
           /\ event.pos \in 1..(Len(List) + 1)
           /\ \A e \in event.todo : e.key # event.cur.key
           /\ \A e \in Serving : e # event.cur => e.key # event.cur.key /\ e.key \in Keys
<1>1. Serving' = Serving /\ List' = List /\ \A k \in Keys : Due(k)' = Due(k)
  BY SameIsDue DEF WalkStep, List, SameEvent
<1>2. event.cur \in Serving /\ event.cur \notin event.todo /\ event.todo \subseteq Serving
      /\ event.pos \in 1..(Len(List) + 1)
  BY DEF WalkStep, EventInv, EventShape
<1>3. event.cur \in uc /\ event.todo \subseteq uc /\ Serves(event.cur.key, event.type, event.addr)
  BY <1>2 DEF Serving
<1>4. event.cur.key \in Keys /\ List # <<>>
  BY <1>3, OneDispatcherEach DEF List
<1>5. List \in Seq(HookRecords) /\ Increasing(List)
  BY <1>4 DEF List, LInv, ListsOK
<1>6. \A e \in uc : e # event.cur => e.key # event.cur.key /\ e.key \in Keys
  BY <1>3, OneDispatcherEach
<1>. QED BY <1>1, <1>2, <1>3, <1>4, <1>5, <1>6 DEF Serving

LEMMA SkipKeeps ==
    ASSUME LInv, failures = {}, EventInv, SkipHook
    PROVE  EventInv'
<1>1. /\ WalkStep /\ event'.pos = event.pos + 1 /\ event.pos <= Len(List)
      /\ event'.fired = event.fired /\ event'.handled = event.handled
      /\ ~Wanted(event.cur.key, List[event.pos], event.addr)
  BY DEF SkipHook, Walking, WalkStep, SameEvent, EventInv, EventShape
<1>2. /\ Serving' = Serving /\ List' = List /\ (\A k \in Keys : Due(k)' = Due(k))
      /\ event.pos \in 1..(Len(List) + 1) /\ Len(List) \in Nat
      /\ \A e \in Serving : e # event.cur => e.key \in Keys
  BY <1>1, WalkFacts
<1>3. Fired' = Fired /\ \A f \in Fired : f.key \in Keys
  BY <1>1, FiredAreEntries DEF Fired
<1>4. EventShape'
  <2>1. event' \in [type : EventTypes, addr : Addrs, cur : Serving \cup {None}, pos : Nat,
                    handled : BOOLEAN, todo : SUBSET Serving, fired : Seq(Entries),
                    caught : BOOLEAN]
    BY <1>2 DEF SkipHook, EventInv, EventShape
  <2>2. event'.pos \in 1..(Len(List') + 1)
    BY <1>1, <1>2
  <2>. QED BY <1>1, <1>2, <2>1, <2>2 DEF EventShape, WalkStep, EventInv
<1>5. InOrderAndOnce'
  BY <1>1 DEF EventInv, InOrderAndOnce
<1>6. FiredAreDue'
  BY <1>1, <1>2, <1>3 DEF EventInv, FiredAreDue, WalkStep
<1>7. WalkedSoFar'
  <2>. SUFFICES ASSUME event'.cur # None PROVE WalkedSoFar'
    BY DEF WalkedSoFar
  <2>1. \A f \in Fired : f.key = event.cur.key =>
            /\ \E i \in 1..(event'.pos - 1) : f.id = List[i].id
            /\ f.blocked => event'.pos = Len(List) + 1
    BY <1>1, <1>2 DEF EventInv, WalkedSoFar, WalkStep
  <2>2. \A i \in 1..(event'.pos - 1) : Wanted(event.cur.key, List[i], event.addr)
            => i \in 1..(event.pos - 1) /\ CalledOrBlocked(event.cur.key, List[i].id)
    BY <1>1, <1>2 DEF EventInv, WalkedSoFar, WalkStep
  <2>3. event.handled <=> \E f \in Fired : f.key = event.cur.key
    BY <1>1 DEF EventInv, WalkedSoFar, WalkStep
  <2>. QED BY <1>1, <1>2, <1>3, <2>1, <2>2, <2>3
           DEF WalkedSoFar, WalkStep, SameEvent, CalledOrBlocked, Wanted, HasRange, InBounds, Begin1End0
<1>8. DoneWithRest'
  BY <1>1, <1>2, <1>3 DEF EventInv, DoneWithRest, CalledOrBlocked, WalkStep, SameEvent
<1>9. CaughtByCalled'
  BY <1>1, <1>3 DEF EventInv, CaughtByCalled, WalkStep, SameEvent
<1>. QED BY <1>4, <1>5, <1>6, <1>7, <1>8, <1>9 DEF EventInv

LEMMA CallKeeps ==
    ASSUME LInv, failures = {}, EventInv, NEW blocks \in BOOLEAN, CallHook(blocks)
    PROVE  EventInv'
<1>. DEFINE k == event.cur.key
            last == [key |-> k, id |-> List[event.pos].id, blocked |-> blocks]
<1>1. /\ WalkStep /\ event.pos <= Len(List) /\ event'.handled = TRUE
      /\ event'.pos = (IF blocks THEN Len(List) + 1 ELSE event.pos + 1)
      /\ event'.fired = Append(event.fired, last)
      /\ Wanted(k, List[event.pos], event.addr)
  BY DEF CallHook, Walking, WalkStep, SameEvent, EventInv, EventShape
<1>2. /\ Serving' = Serving /\ List' = List /\ (\A j \in Keys : Due(j)' = Due(j))
      /\ event.cur \in Serving /\ k \in Keys
      /\ Serves(k, event.type, event.addr)
      /\ List \in Seq(HookRecords) /\ Increasing(List) /\ Len(List) \in Nat
      /\ event.pos \in 1..Len(List) /\ event'.pos \in 1..(Len(List) + 1)
      /\ (\A e \in event.todo : e.key # k)
      /\ \A e \in Serving : e # event.cur => e.key # k /\ e.key \in Keys
  BY <1>1, WalkFacts
<1>3. last \in Entries /\ last.key = k /\ last.id = List[event.pos].id /\ last.blocked = blocks
      /\ \A i \in 1..Len(List) : List[i].id \in Nat
  BY <1>2, IdsAreNumbers DEF Entries
<1>. HIDE DEF last
<1>4. /\ event.fired \in Seq(Entries) /\ event'.fired \in Seq(Entries)
      /\ Len(event'.fired) = Len(event.fired) + 1
      /\ \A i \in DOMAIN event'.fired :
            event'.fired[i] = IF i <= Len(event.fired) THEN event.fired[i] ELSE last
  BY <1>1, <1>3, FiredAreEntries
<1>5. Fired' = Fired \cup {last}
  BY <1>4 DEF Fired
<1>6. \A f \in Fired : f.key \in Keys /\ f.id \in Nat
  BY FiredAreEntries
<1>7. \A f \in Fired : f.key = k =>
        ~f.blocked /\ \E i \in 1..(event.pos - 1) : f.id = List[i].id
  BY <1>1, <1>2 DEF EventInv, WalkedSoFar, WalkStep
<1>8. EventShape'
  <2>1. event' \in [type : EventTypes, addr : Addrs, cur : Serving \cup {None}, pos : Nat,
                    handled : BOOLEAN, todo : SUBSET Serving, fired : Seq(Entries),
                    caught : BOOLEAN]
    <3>1. event' = [event EXCEPT !.fired = event'.fired, !.handled = TRUE, !.pos = event'.pos]
      BY DEF CallHook, EventInv, EventShape
    <3>2. event'.pos \in Nat
      BY <1>2
    <3>. QED BY <1>4, <3>1, <3>2 DEF EventInv, EventShape
  <2>. QED BY <1>1, <1>2, <2>1 DEF EventShape, WalkStep, EventInv
<1>9. InOrderAndOnce'
  <2>1. \A f \in Fired : f.key = k => f.id < last.id
    BY <1>2, <1>3, <1>7 DEF Increasing
  <2>2. \A i \in DOMAIN event.fired : event.fired[i] \in Fired
    BY DEF Fired
  <2>. SUFFICES ASSUME NEW i \in DOMAIN event'.fired, NEW j \in DOMAIN event'.fired, i < j,
                       event'.fired[i].key = event'.fired[j].key
                PROVE  event'.fired[i].id < event'.fired[j].id /\ ~event'.fired[i].blocked
    BY DEF InOrderAndOnce
  <2>3. i \in DOMAIN event.fired /\ event'.fired[i] = event.fired[i]
    BY <1>4
  <2>4. CASE j \in DOMAIN event.fired
    BY <1>4, <2>3, <2>4 DEF EventInv, InOrderAndOnce
  <2>5. CASE j \notin DOMAIN event.fired
    <3>1. event'.fired[j] = last
      BY <1>4, <2>5
    <3>. QED BY <1>3, <1>7, <2>1, <2>2, <2>3, <3>1
  <2>. QED BY <2>4, <2>5
<1>10. FiredAreDue'
  <2>1. last.id \in Due(k)
    <3>1. event.addr \in Nat
      BY HookAssumption DEF EventInv, EventShape
    <3>2. Due(k) = {List[i].id : i \in {j \in DOMAIN List : Wanted(k, List[j], event.addr)}}
      BY <1>2, <3>1, DueIsWanted DEF List
    <3>3. event.pos \in DOMAIN List /\ Wanted(k, List[event.pos], event.addr)
      BY <1>1, <1>2
    <3>. QED BY <1>3, <3>2, <3>3
  <2>. QED BY <1>1, <1>2, <1>3, <1>5, <1>6, <2>1 DEF EventInv, FiredAreDue, WalkStep
<1>11. WalkedSoFar'
  <2>1. \A f \in Fired' : f.key = k =>
            /\ \E i \in 1..(event'.pos - 1) : f.id = List[i].id
            /\ f.blocked => event'.pos = Len(List) + 1
    BY <1>1, <1>2, <1>3, <1>5, <1>7
  <2>2. ASSUME NEW i \in 1..(event'.pos - 1), Wanted(k, List[i], event.addr)
        PROVE  \E f \in Fired' : f.key = k /\ (f.id = List[i].id \/ (f.blocked /\ f.id < List[i].id))
    <3>1. CASE i < event.pos
      BY <1>1, <1>2, <1>5, <2>2, <3>1 DEF EventInv, WalkedSoFar, WalkStep, CalledOrBlocked
    <3>2. CASE i = event.pos
      BY <1>3, <1>5, <3>2
    <3>3. CASE i > event.pos
      <4>1. blocks /\ i \in 1..Len(List)
        BY <1>1, <1>2, <3>3
      <4>2. last.id < List[i].id
        BY <1>2, <1>3, <3>3, <4>1 DEF Increasing
      <4>. QED BY <1>3, <1>5, <4>1, <4>2
    <3>. QED BY <1>2, <3>1, <3>2, <3>3
  <2>3. event'.handled /\ \E f \in Fired' : f.key = k
    BY <1>1, <1>3, <1>5
  <2>. QED BY <1>1, <1>2, <2>1, <2>2, <2>3
           DEF WalkedSoFar, WalkStep, SameEvent, CalledOrBlocked, Wanted, HasRange, InBounds, Begin1End0
<1>12. DoneWithRest'
  <2>1. \A e, id : CalledOrBlocked(e, id) => CalledOrBlocked(e, id)'
    BY <1>5 DEF CalledOrBlocked
  <2>2. \A e \in Serving : e.key \in Keys
    BY <1>2
  <2>3. /\ event'.cur = event.cur /\ event'.todo = event.todo /\ event'.type = event.type
        /\ Serving' = Serving /\ (\A j \in Keys : Due(j)' = Due(j)) /\ Fired \subseteq Fired'
    BY <1>1, <1>2, <1>5 DEF WalkStep, SameEvent
  <2>. SUFFICES ASSUME NEW d \in Serving \ event.todo, d # event.cur, NEW id \in Due(d.key)
                PROVE  \/ CalledOrBlocked(d.key, id)'
                       \/ event.type \in FaultTypes /\ \E f \in Fired' : f.key # d.key
    BY <2>2, <2>3 DEF DoneWithRest
  <2>4. \/ CalledOrBlocked(d.key, id)
        \/ event.type \in FaultTypes /\ \E f \in Fired : f.key # d.key
    BY DEF EventInv, DoneWithRest
  <2>. QED BY <2>1, <2>3, <2>4
<1>13. CaughtByCalled'
  BY <1>1, <1>3, <1>5 DEF EventInv, CaughtByCalled, WalkStep, SameEvent
<1>. QED BY <1>8, <1>9, <1>10, <1>11, <1>12, <1>13 DEF EventInv

LEMMA LeaveKeeps ==
    ASSUME LInv, failures = {}, EventInv, Leave
    PROVE  EventInv'
<1>. DEFINE k == event.cur.key
<1>1. /\ SameEvent /\ event.cur # None /\ event.pos > Len(List)
      /\ event'.cur = None /\ event'.fired = event.fired
      /\ event'.caught = (event.caught \/ event.type = "INTR" \/ Answer)
      /\ event'.todo = IF event.type \in FaultTypes /\ Answer THEN {} ELSE event.todo
  BY DEF Leave, Walking, SameEvent, EventInv, EventShape
<1>2. /\ Serving' = Serving /\ (\A j \in Keys : Due(j)' = Due(j)) /\ Fired' = Fired
  BY <1>1, SameIsDue DEF Fired
<1>3. event.cur \in Serving /\ event.cur \in uc /\ k \in Keys /\ List # <<>>
      /\ Serves(k, event.type, event.addr) /\ event.addr \in Nat
      /\ \A e \in Serving : e # event.cur => e.key # k /\ e.key \in Keys
  BY <1>1, OneDispatcherEach, HookAssumption DEF EventInv, EventShape, Serving, List
<1>4. List \in Seq(HookRecords) /\ event.pos = Len(List) + 1 /\ Len(List) \in Nat
  BY <1>1, <1>3 DEF List, LInv, ListsOK, EventInv, EventShape
<1>5. \A i \in DOMAIN List : Wanted(k, List[i], event.addr) => CalledOrBlocked(k, List[i].id)
  BY <1>1, <1>4 DEF EventInv, WalkedSoFar
<1>6. event.handled <=> \E f \in Fired : f.key = k
  BY <1>1 DEF EventInv, WalkedSoFar
<1>7. event.type \in FatalTypes => (Answer <=> event.handled)
  BY <1>3 DEF Answer, NeedsHandled, Serves
<1>8. EventShape'
  <2>1. event' \in [type : EventTypes, addr : Addrs, cur : Serving \cup {None}, pos : Nat,
                    handled : BOOLEAN, todo : SUBSET Serving, fired : Seq(Entries),
                    caught : BOOLEAN]
    BY DEF Leave, EventInv, EventShape
  <2>. QED BY <1>1, <1>2, <2>1 DEF EventShape
<1>9. InOrderAndOnce'
  BY <1>1 DEF EventInv, InOrderAndOnce
<1>10. FiredAreDue'
  BY <1>1, <1>2, FiredAreEntries DEF EventInv, FiredAreDue
<1>11. WalkedSoFar'
  BY <1>1 DEF WalkedSoFar
<1>12. DoneWithRest'
  <2>. SUFFICES ASSUME NEW e \in Serving, e \notin event'.todo, NEW id \in Due(e.key)
                PROVE  \/ CalledOrBlocked(e.key, id)
                       \/ event.type \in FaultTypes /\ \E f \in Fired : f.key # e.key
    <3>1. \A e \in Serving : e.key \in Keys
      BY <1>3
    <3>2. /\ Serving' = Serving /\ (\A j \in Keys : Due(j)' = Due(j)) /\ Fired' = Fired
          /\ event'.type = event.type
      BY <1>1, <1>2 DEF SameEvent
    <3>3. \A key, id : CalledOrBlocked(key, id)' <=> CalledOrBlocked(key, id)
      BY <3>2 DEF CalledOrBlocked
    <3>. QED BY <3>1, <3>2, <3>3 DEF DoneWithRest
  <2>1. CASE e = event.cur
    <3>1. Due(k) = {List[i].id : i \in {j \in DOMAIN List : Wanted(k, List[j], event.addr)}}
      BY <1>3, DueIsWanted DEF List
    <3>. QED BY <1>5, <2>1, <3>1
  <2>2. CASE e # event.cur /\ e \notin event.todo
    BY <2>2 DEF EventInv, DoneWithRest
  <2>3. CASE e # event.cur /\ e \in event.todo
    <3>1. event.type \in FaultTypes /\ Answer
      BY <1>1, <2>3
    <3>2. \E f \in Fired : f.key = k
      BY <1>6, <1>7, <3>1 DEF FatalTypes
    <3>. QED BY <1>3, <2>3, <3>1, <3>2
  <2>. QED BY <2>1, <2>2, <2>3
<1>13. CaughtByCalled'
  <2>. SUFFICES ASSUME event.type \in FatalTypes
                PROVE  event'.caught <=> \E f \in Fired : TRUE
    BY <1>1, <1>2 DEF CaughtByCalled, SameEvent
  <2>1. event.caught <=> \E f \in Fired : f.key # k
    BY <1>1 DEF EventInv, CaughtByCalled
  <2>2. event.type = "INTR" => \E f \in Fired : f.key = k
    <3>1. event.type = "INTR" => Wanted(k, List[1], event.addr)
      BY <1>3 DEF Wanted, HasRange, Serves
    <3>2. 1 \in DOMAIN List
      BY <1>3, <1>4
    <3>. QED BY <1>5, <3>1, <3>2 DEF CalledOrBlocked
  <2>. QED BY <1>1, <1>6, <1>7, <2>1, <2>2
<1>. QED BY <1>8, <1>9, <1>10, <1>11, <1>12, <1>13 DEF EventInv

LEMMA NextEvent == LInv /\ EInv /\ [Next]_vars => EInv'
<1>. SUFFICES ASSUME LInv, EInv, [Next]_vars, failures' = {}, ~Idle' PROVE EventInv'
  BY DEF EInv
<1>1. CASE Idle
  <2>1. PICK type \in EventTypes, addr \in Addrs : Raise(type, addr)
    BY <1>1 DEF Next, vars, Install, Delete, Clear, Dispatch, Enter, SkipHook, CallHook, Walking,
           Leave, EndEvent, Completed, Idle
  <2>. QED BY <2>1, RaiseKeeps DEF Raise
<1>2. CASE ~Idle
  <2>1. CASE UNCHANGED vars
    <3>1. SameEvent /\ event' = event /\ EventInv
      BY <1>2, <2>1 DEF vars, SameEvent, EInv
    <3>2. Serving' = Serving /\ List' = List /\ Fired' = Fired /\ \A k \in Keys : Due(k)' = Due(k)
      BY <3>1, SameIsDue DEF SameEvent, List, Fired
    <3>3. EventShape' /\ InOrderAndOnce' /\ CaughtByCalled'
      BY <3>1, <3>2 DEF EventInv, EventShape, InOrderAndOnce, CaughtByCalled
    <3>4. FiredAreDue'
      BY <3>1, <3>2, FiredAreEntries DEF EventInv, FiredAreDue
    <3>5. WalkedSoFar'
      BY <3>1, <3>2 DEF EventInv, WalkedSoFar, CalledOrBlocked, Wanted, HasRange, InBounds, Begin1End0
    <3>6. DoneWithRest'
      <4>1. \A e \in Serving : e.key \in Keys
        BY DEF Serving, LInv, IInv, HandlesAreApart
      <4>2. \A e, id : CalledOrBlocked(e, id) => CalledOrBlocked(e, id)'
        BY <3>2 DEF CalledOrBlocked
      <4>. QED BY <3>1, <3>2, <4>1, <4>2 DEF EventInv, DoneWithRest
    <3>. QED BY <3>3, <3>4, <3>5, <3>6 DEF EventInv
  <2>2. CASE ~UNCHANGED vars
    <3>1. Dispatch
      BY <1>2, <2>2 DEF Next, Install, Delete, Clear, Raise
    <3>2. failures = {} /\ EventInv
      BY <1>2, <3>1 DEF EInv, Dispatch, Enter, SkipHook, CallHook, Leave, EndEvent
    <3>3. ~EndEvent
      BY DEF EndEvent, Idle
    <3>. QED BY <3>1, <3>2, <3>3, EnterKeeps, SkipKeeps, CallKeeps, LeaveKeeps DEF Dispatch
  <2>. QED BY <2>1, <2>2
<1>. QED BY <1>1, <1>2

LEMMA EInvariance == Spec => []EInv
BY InitEvent, NextEvent, LInvariance, PTL DEF Spec

(***************************************************************************)
(* dispatch_common and dispatch_addr: during an event each hook is called  *)
(* at most once, in the order of registration, none of a kind after one of *)
(* it returned HOOK_BLOCK; and at its end each hook that covers it has     *)
(* been called, but those behind a HOOK_BLOCK and, for a fault, those of a *)
(* kind Unicorn no longer asks.  Any sequence of hook_*, hook_del and      *)
(* clear_hooks may have gone before, as long as no removal failed.         *)
(***************************************************************************)
THEOREM EventsReachTheirHooks == Spec => []EveryHookFiresOnce
<1>1. LInv /\ EInv => EveryHookFiresOnce
  <2>. SUFFICES ASSUME LInv, EInv, failures = {}, ~Idle, Completed,
                       NEW k \in Keys, NEW id \in Due(k)
                PROVE  \E f \in Fired : \/ f.key = k /\ (f.id = id \/ (f.blocked /\ f.id < id))
                                        \/ f.key # k /\ event.type \in FaultTypes
    BY DEF EveryHookFiresOnce, EInv, EventInv, NoneMissed
  <2>1. Serves(k, event.type, event.addr) /\ hooks[k] # <<>>
    BY DEF Due
  <2>2. PICK d \in uc : d.key = k
    BY <2>1, OneDispatcherEach
  <2>3. d \in Serving \ event.todo /\ d # event.cur
    BY <2>1, <2>2, OneDispatcherEach DEF Serving, Completed
  <2>. QED BY <2>2, <2>3 DEF EInv, EventInv, DoneWithRest, CalledOrBlocked
<1>. QED BY <1>1, LInvariance, EInvariance, PTL

(***************************************************************************)
(* A fault or an interrupt is caught, and the emulation goes on, exactly   *)
(* when a registered hook covers it: neither an earlier dispatcher that    *)
(* found no hook in bounds nor a later one not asked changes the answer.   *)
(***************************************************************************)
THEOREM CoveredFaultsAreCaught == Spec => []FaultsAreCaughtByHooks
<1>1. LInv /\ EInv => FaultsAreCaughtByHooks
  <2>. SUFFICES ASSUME LInv, EInv, failures = {}, Completed, event.type \in FatalTypes
                PROVE  event.caught <=> \E k \in Keys : Due(k) # {}
    BY DEF FaultsAreCaughtByHooks
  <2>1. EventInv /\ event.cur = None /\ event.todo = {}
    BY DEF EInv, Completed
  <2>2. event.caught <=> \E f \in Fired : TRUE
    BY <2>1 DEF EventInv, CaughtByCalled
  <2>3. \A f \in Fired : f.key \in Keys /\ Due(f.key) # {}
    BY <2>1, FiredAreEntries DEF EventInv, FiredAreDue
  <2>4. ASSUME NEW k \in Keys, Due(k) # {} PROVE \E f \in Fired : TRUE
    <3>1. Serves(k, event.type, event.addr) /\ hooks[k] # <<>>
      BY <2>4 DEF Due
    <3>2. PICK d \in uc : d.key = k
      BY <3>1, OneDispatcherEach
    <3>3. d \in Serving \ event.todo /\ d # event.cur
      BY <2>1, <3>1, <3>2, OneDispatcherEach DEF Serving
    <3>. QED BY <2>1, <2>4, <3>2, <3>3 DEF EventInv, DoneWithRest, CalledOrBlocked
  <2>. QED BY <2>2, <2>3, <2>4
<1>. QED BY <1>1, LInvariance, EInvariance, PTL
====
