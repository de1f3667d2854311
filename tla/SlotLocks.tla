------------------------------- MODULE SlotLocks -------------------------------
(***************************************************************************)
(* Per-slot locking in lmcache-proxy-on-demand.py: the class SlotState and *)
(* the way _handle_request uses it in multi-slot mode.  Every request runs *)
(* in a thread of its own.  It picks a llama.cpp slot while it holds the   *)
(* proxy-wide _cache_lock, takes the slot's busy flag and lock, forwards,  *)
(* takes _cache_lock again to save the cache, and releases the slot.       *)
(*                                                                         *)
(* What the prefix cache holds is abstracted: a lookup, a restore or a     *)
(* match between a slot and a cached node has any outcome it can have in   *)
(* the code.  The order of checks, touches, records, forgets and lock      *)
(* operations is the code's.  release_slot takes only SlotState._lock, so  *)
(* its step may come between any two steps of another request's routing.   *)
(***************************************************************************)
EXTENDS Naturals, FiniteSets

CONSTANTS
    Requests,      \* client connections, each served by one thread at a time
    Slots,         \* the backend's slot ids
    DefaultSlot,   \* LMCacheHandler.slot_id, where anchors are materialized
    Lookups,       \* what the cache can find: a subset of {"node", "anchor"}
    MaxAnchors,    \* bound: anchors found in one prompt
    Rounds,        \* bound: requests each client sends
    None,          \* no slot, or nobody
    NoLock, Free   \* states of an entry of _slot_locks

ASSUME SlotsAssumption == DefaultSlot \in Slots /\ None \notin Slots
ASSUME RequestsAssumption == {None, NoLock, Free} \cap Requests = {}
ASSUME LockStatesAssumption == NoLock # Free
ASSUME BoundsAssumption == MaxAnchors \in Nat /\ Rounds \in Nat
ASSUME LookupsAssumption == Lookups \subseteq {"node", "anchor"}

VARIABLES
    pc,         \* where each request's thread is
    cacheLock,  \* the request that holds _cache_lock, or None
    slot,       \* target_slot of each request
    source,     \* which lookup the picked slot is for
    anchors,    \* anchors the request has still to try
    rounds,     \* requests a client has sent
    tracked,    \* keys of _slot_node_id and _slot_time
    older,      \* <<a, b>>: the _slot_time of a is before that of b
    small,      \* tracked slots with fewer than 10000 tokens
    busy,       \* _slot_busy, absent meaning FALSE
    lock,       \* _slot_locks: NoLock, Free, or the request that locked it
    stolen      \* history: slots forgotten while in use, until all users left

slotState == <<tracked, older, small, busy, lock, stolen>>
control == <<cacheLock, slot, source, anchors, rounds>>
vars == <<pc, control, slotState>>

Sources == {"node", "anchor", "materialized"}
Picking == {"ancestor", "descendant", "sibling", "free"}
Routing == Picking \cup {"lookup", "anchor", "materialize", "prefill", "idleSlot",
                         "restore", "makeRoom", "retry", "acquire", "lock", "unlock"}
Critical == Routing \cup {"save"}
Phases == Critical \cup {"idle", "wantCache", "forward", "wantSave", "release"}

\* Phases in which a request with a target slot has set its busy flag and not
\* cleared it: from the first half of acquire_slot to release_slot.
Holding == {"lock", "unlock", "forward", "wantSave", "save", "release"}
Holders(s) == {r \in Requests : slot[r] = s /\ pc[r] \in Holding}

\* Phases in which a request has no target slot, and those in which it has one.
Untargeted == Picking \cup {"idle", "wantCache", "lookup", "anchor", "materialize",
                            "prefill", "idleSlot"}
Targeted == {"restore", "makeRoom", "retry", "acquire", "lock", "release"}

TypeOK ==
    /\ pc \in [Requests -> Phases]
    /\ cacheLock \in Requests \cup {None}
    /\ slot \in [Requests -> Slots \cup {None}]
    /\ source \in [Requests -> Sources]
    /\ anchors \in [Requests -> 0 .. MaxAnchors]
    /\ rounds \in [Requests -> 0 .. Rounds]
    /\ tracked \subseteq Slots
    /\ older \subseteq tracked \X tracked
    /\ small \subseteq tracked
    /\ busy \in [Slots -> BOOLEAN]
    /\ lock \in [Slots -> Requests \cup {NoLock, Free}]
    /\ stolen \subseteq Slots

Init ==
    /\ pc = [r \in Requests |-> "idle"]
    /\ cacheLock = None
    /\ slot = [r \in Requests |-> None]
    /\ source = [r \in Requests |-> "node"]
    /\ anchors = [r \in Requests |-> 0]
    /\ rounds = [r \in Requests |-> 0]
    /\ tracked = {}
    /\ older = {}
    /\ small = {}
    /\ busy = [s \in Slots |-> FALSE]
    /\ lock = [s \in Slots |-> NoLock]
    /\ stolen = {}

Goto(r, phase) == pc' = [pc EXCEPT ![r] = phase]

\* The request's target slot and its next phase.
Choose(r, s, phase) ==
    /\ slot' = [slot EXCEPT ![r] = s]
    /\ Goto(r, phase)

\* The with block ends, and with it the locals of _lookup_and_restore_prefix.
EndRouting(r) ==
    /\ cacheLock' = None
    /\ source' = [source EXCEPT ![r] = "node"]
    /\ anchors' = [anchors EXCEPT ![r] = 0]

\* The end of the try block: its finally clause releases an acquired slot.
Leave(r) == Goto(r, IF slot[r] = None THEN "idle" ELSE "release")

-----------------------------------------------------------------------------
(* Slips: what the code would do with one plausible mistake in it.  Each one  *)
(* replaces the action it is named after, to see a property fail.            *)

AcquireWithoutFlag(r) ==
    /\ pc[r] = "acquire"
    /\ lock' = [lock EXCEPT ![slot[r]] = IF @ = NoLock THEN Free ELSE @]
    /\ Goto(r, "lock")
    /\ UNCHANGED <<control, tracked, older, small, busy, stolen>>

AcquireWithoutLock(r) ==
    /\ pc[r] = "acquire"
    /\ busy' = [busy EXCEPT ![slot[r]] = TRUE]
    /\ Goto(r, "lock")
    /\ UNCHANGED <<control, tracked, older, small, lock, stolen>>

UseAnyIdleSlot(r) ==
    /\ pc[r] = "idleSlot"
    /\ \E s \in Slots : Choose(r, s, "acquire")
    /\ UNCHANGED <<cacheLock, source, anchors, rounds, slotState>>

ForwardRaisesOut(r) ==
    /\ pc[r] = "forward"
    /\ Goto(r, "idle")
    /\ UNCHANGED <<control, slotState>>

LeaveRoutingNotBusy(r) ==
    /\ pc[r] = "unlock"
    /\ slot[r] # None
    /\ EndRouting(r)
    /\ Goto(r, "forward")
    /\ busy' = [busy EXCEPT ![slot[r]] = FALSE]
    /\ UNCHANGED <<slot, rounds, tracked, older, small, lock, stolen>>

FlagDownBeforeSave(r) ==
    /\ pc[r] = "forward"
    /\ slot[r] # None
    /\ Goto(r, "wantSave")
    /\ busy' = [busy EXCEPT ![slot[r]] = FALSE]
    /\ UNCHANGED <<control, tracked, older, small, lock, stolen>>

ReleaseKeepsLock(r) ==
    /\ pc[r] = "release"
    /\ busy' = [busy EXCEPT ![slot[r]] = FALSE]
    /\ stolen' = IF Holders(slot[r]) = {r} THEN stolen \ {slot[r]} ELSE stolen
    /\ Choose(r, None, "idle")
    /\ UNCHANGED <<cacheLock, source, anchors, rounds, tracked, older, small, lock>>

\* The token count of the slot is not dropped.
ForgetKeepsCount(s) ==
    /\ tracked' = tracked \ {s}
    /\ older' = {p \in older : p[1] # s /\ p[2] # s}
    /\ busy' = [busy EXCEPT ![s] = FALSE]
    /\ lock' = [lock EXCEPT ![s] = NoLock]
    /\ stolen' = IF Holders(s) = {} THEN stolen ELSE stolen \cup {s}
    /\ UNCHANGED small

SaveKeepsCacheLock(r) ==
    /\ pc[r] = "save"
    /\ Leave(r)
    /\ UNCHANGED <<control, slotState>>

-----------------------------------------------------------------------------
(* SlotState: the methods that write, each one step under SlotState._lock. *)

MostRecent(s) ==
    older' = {p \in older : p[1] # s} \cup ((tracked \ {s}) \X {s})

\* touch: a new _slot_time for a slot that is tracked already.
Touch(s) ==
    /\ MostRecent(s)
    /\ UNCHANGED <<tracked, small, busy, lock, stolen>>

\* record: the slot now holds a node, whose token count is small or large.
Record(s) ==
    /\ MostRecent(s)
    /\ tracked' = tracked \cup {s}
    /\ small' \in {small \cup {s}, small \ {s}}
    /\ UNCHANGED <<busy, lock, stolen>>

\* forget: drops everything known of the slot, its busy flag and lock included.
Forget(s) ==
    /\ tracked' = tracked \ {s}
    /\ older' = {p \in older : p[1] # s /\ p[2] # s}
    /\ small' = small \ {s}
    /\ busy' = [busy EXCEPT ![s] = FALSE]
    /\ lock' = [lock EXCEPT ![s] = NoLock]
    /\ stolen' = IF Holders(s) = {} THEN stolen ELSE stolen \cup {s}

\* lru_slot: the slot min(_slot_time) returns.
IsLru(s) == s \in tracked /\ \A t \in tracked : <<t, s>> \notin older

-----------------------------------------------------------------------------
(* A request arrives and waits for _cache_lock. *)

Arrive(r) ==
    /\ pc[r] = "idle"
    /\ rounds[r] < Rounds
    /\ rounds' = [rounds EXCEPT ![r] = @ + 1]
    /\ \E n \in 0 .. MaxAnchors : anchors' = [anchors EXCEPT ![r] = n]
    /\ Goto(r, "wantCache")
    /\ UNCHANGED <<cacheLock, slot, source, slotState>>

EnterRouting(r) ==
    /\ pc[r] = "wantCache"
    /\ cacheLock = None
    /\ cacheLock' = r
    /\ Goto(r, "lookup")
    /\ UNCHANGED <<slot, source, anchors, rounds, slotState>>

-----------------------------------------------------------------------------
(* _lookup_and_restore_prefix: full-prefix match, then each anchor, then *)
(* any idle slot.                                                        *)

Pick(r, from) ==
    /\ source' = [source EXCEPT ![r] = from]
    /\ Goto(r, "ancestor")

LookupHit(r) ==
    /\ pc[r] = "lookup"
    /\ "node" \in Lookups
    /\ Pick(r, "node")
    /\ UNCHANGED <<cacheLock, slot, anchors, rounds, slotState>>

LookupMiss(r) ==
    /\ pc[r] = "lookup"
    /\ Goto(r, "anchor")
    /\ UNCHANGED <<control, slotState>>

\* The next anchor is in the cache already, or is to be materialized.
TryAnchor(r) ==
    /\ pc[r] = "anchor"
    /\ anchors[r] > 0
    /\ anchors' = [anchors EXCEPT ![r] = @ - 1]
    /\ \/ "anchor" \in Lookups /\ Pick(r, "anchor")
       \/ Goto(r, "materialize") /\ UNCHANGED source
    /\ UNCHANGED <<cacheLock, slot, rounds, slotState>>

NoMoreAnchors(r) ==
    /\ pc[r] = "anchor"
    /\ anchors[r] = 0
    /\ Goto(r, "idleSlot")
    /\ UNCHANGED <<control, slotState>>

\* _materialize_anchor_once, up to the backend calls: it frees DefaultSlot if
\* the slot is tracked, whether or not a request is using it.
FreeDefaultSlot(r) ==
    /\ pc[r] = "materialize"
    /\ IF DefaultSlot \in tracked THEN Forget(DefaultSlot) ELSE UNCHANGED slotState
    /\ Goto(r, "prefill")
    /\ UNCHANGED control

\* No storage room, or a bin without its node: nothing is materialized.
SkipMaterialize(r) ==
    /\ pc[r] = "materialize"
    /\ Goto(r, "anchor")
    /\ UNCHANGED <<control, slotState>>

\* Erase, prefill and save succeed: the slot holds the new anchor node, and a
\* slot is picked for that node.
PrefillOk(r) ==
    /\ pc[r] = "prefill"
    /\ Record(DefaultSlot)
    /\ Pick(r, "materialized")
    /\ UNCHANGED <<cacheLock, slot, anchors, rounds>>

PrefillFails(r) ==
    /\ pc[r] = "prefill"
    /\ Goto(r, "anchor")
    /\ UNCHANGED <<control, slotState>>

\* No match: an idle slot, one that /slots reports idle and that is not busy
\* for the proxy.  It is not recorded.  /slots may report any set of slots.
UseIdleSlot(r) ==
    /\ pc[r] = "idleSlot"
    /\ \E s \in Slots :
        /\ ~busy[s]
        /\ slot' = [slot EXCEPT ![r] = s]
    /\ Goto(r, "acquire")
    /\ UNCHANGED <<cacheLock, source, anchors, rounds, slotState>>

NoIdleSlot(r) ==
    /\ pc[r] = "idleSlot"
    /\ Goto(r, "unlock")
    /\ UNCHANGED <<control, slotState>>

-----------------------------------------------------------------------------
(* _pick_slot_for_restore: ancestor, descendant and sibling match, then an *)
(* empty slot, then the least recently used one.                          *)

\* A tracked slot that is not busy holds an ancestor of the node, or the node.
AncestorMatch(r) ==
    /\ pc[r] = "ancestor"
    /\ \E s \in tracked : ~busy[s] /\ Record(s) /\ Choose(r, s, "acquire")
    /\ UNCHANGED <<cacheLock, source, anchors, rounds>>

\* A tracked slot holds a descendant.  Its time is renewed even if it is busy.
DescendantMatch(r) ==
    /\ pc[r] = "descendant"
    /\ \E s \in tracked :
        \/ ~busy[s] /\ Record(s) /\ Choose(r, s, "acquire")
        \/ busy[s] /\ Touch(s) /\ Goto(r, "sibling") /\ UNCHANGED slot
    /\ UNCHANGED <<cacheLock, source, anchors, rounds>>

\* A tracked slot holds a sibling.  The node must be restored into it.
SiblingMatch(r) ==
    /\ pc[r] = "sibling"
    /\ \E s \in tracked :
        \/ ~busy[s] /\ Touch(s) /\ Choose(r, s, "restore")
        \/ busy[s] /\ Touch(s) /\ Goto(r, "free") /\ UNCHANGED slot
    /\ UNCHANGED <<cacheLock, source, anchors, rounds>>

\* No match of this kind (an ancestor match that is busy leaves no trace).
NoMatch(r) ==
    /\ \/ pc[r] = "ancestor" /\ Goto(r, "descendant")
       \/ pc[r] = "descendant" /\ Goto(r, "sibling")
       \/ pc[r] = "sibling" /\ Goto(r, "free")
    /\ UNCHANGED <<control, slotState>>

\* _empty_slots: reported idle, not busy, not tracked.
UseEmptySlot(r) ==
    /\ pc[r] = "free"
    /\ \E s \in Slots \ tracked : ~busy[s] /\ Choose(r, s, "restore")
    /\ UNCHANGED <<cacheLock, source, anchors, rounds, slotState>>

\* No empty slot is reported: the LRU slot is saved and forgotten.  The code
\* does not ask whether it is busy.
EvictLru(r) ==
    /\ pc[r] = "free"
    /\ \E s \in Slots : IsLru(s) /\ Forget(s) /\ Choose(r, s, "restore")
    /\ UNCHANGED <<cacheLock, source, anchors, rounds>>

\* The request gives this node up: a node match ends the lookup with no slot,
\* an anchor goes on to the next anchor.
GiveUp(r) == Choose(r, None, IF source[r] = "node" THEN "unlock" ELSE "anchor")

NothingToEvict(r) ==
    /\ pc[r] = "free"
    /\ tracked = {}
    /\ GiveUp(r)
    /\ UNCHANGED <<cacheLock, source, anchors, rounds, slotState>>

-----------------------------------------------------------------------------
(* The restore, and _try_make_room_for when it fails. *)

RestoreOk(r) ==
    /\ pc[r] \in {"restore", "retry"}
    /\ Record(slot[r])
    /\ Goto(r, "acquire")
    /\ UNCHANGED control

RestoreFails(r) ==
    /\ pc[r] = "restore"
    /\ IF source[r] = "materialized"
         THEN GiveUp(r)
         ELSE Goto(r, "makeRoom") /\ UNCHANGED slot
    /\ UNCHANGED <<cacheLock, source, anchors, rounds, slotState>>

RetryFails(r) ==
    /\ pc[r] = "retry"
    /\ GiveUp(r)
    /\ UNCHANGED <<cacheLock, source, anchors, rounds, slotState>>

\* Another tracked slot is saved, erased and forgotten: a small one if there
\* is any, else the LRU one.  Again busy slots are not spared.
MakeRoom(r) ==
    /\ pc[r] = "makeRoom"
    /\ \E s \in tracked \ {slot[r]} :
        /\ s \in small \/ (small \subseteq {slot[r]} /\ IsLru(s))
        /\ Forget(s)
    /\ Goto(r, "retry")
    /\ UNCHANGED control

NoRoom(r) ==
    /\ pc[r] = "makeRoom"
    /\ \/ tracked \subseteq {slot[r]}
       \/ small \subseteq {slot[r]} /\ IsLru(slot[r])
    /\ GiveUp(r)
    /\ UNCHANGED <<cacheLock, source, anchors, rounds, slotState>>

\* An exception of the database or the file system leaves the with block:
\* _cache_lock is released and the request dies without a slot.
RoutingRaises(r) ==
    /\ pc[r] \in Picking \cup {"lookup", "anchor", "materialize", "prefill", "makeRoom"}
    /\ EndRouting(r)
    /\ Choose(r, None, "idle")
    /\ UNCHANGED <<rounds, slotState>>

-----------------------------------------------------------------------------
(* acquire_slot in its two halves, still under _cache_lock. *)

\* Under SlotState._lock: a busy slot is refused, else the flag is set.
Acquire(r) ==
    /\ pc[r] = "acquire"
    /\ LET s == slot[r] IN
        IF busy[s]
          THEN Choose(r, None, "unlock") /\ UNCHANGED slotState
          ELSE /\ busy' = [busy EXCEPT ![s] = TRUE]
               /\ lock' = [lock EXCEPT ![s] = IF @ = NoLock THEN Free ELSE @]
               /\ Goto(r, "lock")
               /\ UNCHANGED <<slot, tracked, older, small, stolen>>
    /\ UNCHANGED <<cacheLock, source, anchors, rounds>>

\* Outside SlotState._lock: waits until the slot's lock is free.
LockSlot(r) ==
    /\ pc[r] = "lock"
    /\ lock[slot[r]] = Free
    /\ lock' = [lock EXCEPT ![slot[r]] = r]
    /\ Goto(r, "unlock")
    /\ UNCHANGED <<control, tracked, older, small, busy, stolen>>

LeaveRouting(r) ==
    /\ pc[r] = "unlock"
    /\ EndRouting(r)
    /\ Goto(r, "forward")
    /\ UNCHANGED <<slot, rounds, slotState>>

-----------------------------------------------------------------------------
(* Forwarding, autosave and release. *)

ForwardReturns(r) ==
    /\ pc[r] = "forward"
    /\ Goto(r, "wantSave")
    /\ UNCHANGED <<control, slotState>>

\* The client is gone and _send_error raises too: straight to the finally block.
ForwardRaises(r) ==
    /\ pc[r] = "forward"
    /\ Leave(r)
    /\ UNCHANGED <<control, slotState>>

EnterSave(r) ==
    /\ pc[r] = "wantSave"
    /\ cacheLock = None
    /\ cacheLock' = r
    /\ Goto(r, "save")
    /\ UNCHANGED <<slot, source, anchors, rounds, slotState>>

\* _auto_save_prefix_cache writes nothing of SlotState; exceptions are caught.
Save(r) ==
    /\ pc[r] = "save"
    /\ cacheLock' = None
    /\ Leave(r)
    /\ UNCHANGED <<slot, source, anchors, rounds, slotState>>

\* release_slot releases whatever lock _slot_locks has for the slot now.
Release(r) ==
    /\ pc[r] = "release"
    /\ LET s == slot[r] IN
        /\ lock' = [lock EXCEPT ![s] = IF @ = NoLock THEN NoLock ELSE Free]
        /\ busy' = [busy EXCEPT ![s] = FALSE]
        /\ stolen' = IF Holders(s) = {r} THEN stolen \ {s} ELSE stolen
    /\ Choose(r, None, "idle")
    /\ UNCHANGED <<cacheLock, source, anchors, rounds, tracked, older, small>>

-----------------------------------------------------------------------------
Route(r) ==
    \/ LookupHit(r) \/ LookupMiss(r) \/ TryAnchor(r) \/ NoMoreAnchors(r)
    \/ FreeDefaultSlot(r) \/ SkipMaterialize(r) \/ PrefillOk(r) \/ PrefillFails(r)
    \/ UseIdleSlot(r) \/ NoIdleSlot(r)
    \/ AncestorMatch(r) \/ DescendantMatch(r) \/ SiblingMatch(r) \/ NoMatch(r)
    \/ UseEmptySlot(r) \/ EvictLru(r) \/ NothingToEvict(r)
    \/ RestoreOk(r) \/ RestoreFails(r) \/ RetryFails(r) \/ MakeRoom(r) \/ NoRoom(r)
    \/ RoutingRaises(r) \/ Acquire(r) \/ LockSlot(r) \/ LeaveRouting(r)

Serve(r) ==
    \/ EnterRouting(r) \/ Route(r)
    \/ ForwardReturns(r) \/ ForwardRaises(r)
    \/ EnterSave(r) \/ Save(r) \/ Release(r)

\* Every client has sent all its requests and has its answers.
AllServed ==
    /\ \A r \in Requests : pc[r] = "idle" /\ rounds[r] = Rounds
    /\ UNCHANGED vars

Next == (\E r \in Requests : Arrive(r) \/ Serve(r)) \/ AllServed

Spec == Init /\ [][Next]_vars

\* A thread that can take its next step does: the scheduler runs it, the
\* backend answers or the forward times out.  Clients need not send anything.
FairSpec == Spec /\ \A r \in Requests : WF_vars(Serve(r))

-----------------------------------------------------------------------------
(* The abstract view: who believes to have each slot. *)

Lease == INSTANCE SlotLease WITH users <- [s \in Slots |-> Holders(s)],
                                 revoked <- stolen

-----------------------------------------------------------------------------
(* Properties *)

\* The locking implements the lease: flags, locks, creation and loss of entries
\* of _slot_locks only ever grant an empty slot, or one that forget took away
\* from its user, and the last user to release such a slot repairs it.
ImplementsLease == Lease!Spec

\* What acquire_slot promises ("exclusive use"), as far as the code keeps it: a
\* slot that was not forgotten while in use has at most one user.  Forgetting a
\* slot harms that slot only, and only until its users have all left.
UnstolenExclusive ==
    \A s \in Slots \ stolen : \A q, r \in Holders(s) : q = r

\* Under the same condition the blocking half of acquire_slot does not block, so
\* _cache_lock is never held while waiting for another request's slot lock.
NoBlockedAcquire ==
    \A r \in Requests :
        pc[r] = "lock" /\ slot[r] \notin stolen => lock[slot[r]] = Free

\* acquire_slot reads _slot_locks after it has let go of SlotState._lock.  No
\* forget can come between: the entry is there (no KeyError).
AcquireFindsLock ==
    \A r \in Requests : pc[r] = "lock" => lock[slot[r]] # NoLock

\* Routing looks at the busy flag well before acquire_slot does, and still a slot
\* it chose is never found busy: the flag is set under _cache_lock only.
RoutedSlotNotBusy ==
    \A r \in Requests : pc[r] = "acquire" => ~busy[slot[r]]

\* Once the users of a slot have left, whatever order they released it in, the
\* slot can be acquired again: flag down, lock not held.
QuiescentSlotIsFree ==
    \A s \in Slots : Holders(s) = {} => ~busy[s] /\ lock[s] \in {NoLock, Free}

\* Nobody but the user of a slot clears its busy flag, unless by a forget.
OnlyUserReleases ==
    [][\A s \in Slots :
        busy[s] /\ ~busy'[s] /\ s \notin stolen \cup stolen'
            => \E r \in Requests :
                /\ Holders(s) = {r}
                /\ pc[r] = "release" /\ pc'[r] = "idle"]_vars

\* If no slot is ever forgotten while in use, every request is answered and its
\* slot released: no thread waits for ever for _cache_lock or for a slot.
RequestsFinish ==
    [](stolen = {}) => \A r \in Requests : pc[r] = "wantCache" ~> pc[r] = "idle"

\* Refuted.  ticket-lcl-l89j-plan.md: "No deadlock under high concurrency" and "We
\* never acquire `_cache_lock` while holding a per-slot lock".  Here c holds
\* _cache_lock and waits for the slot lock of b, who waits for _cache_lock.
NoLockCycle ==
    ~ \E b, c \in Requests :
        /\ pc[c] = "lock" /\ lock[slot[c]] = b
        /\ pc[b] = "wantSave"

=============================================================================
