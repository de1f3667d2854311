---------------------------- MODULE SlotLocksProofs ----------------------------
(***************************************************************************)
(* What SlotLocks promises for every number of requests and slots.         *)
(*                                                                         *)
(* The invariant of the locks, LockInv, is inductive relative to two       *)
(* simpler ones that are proved first: TypedInv, the types and which       *)
(* phases have a target slot, and CacheLockInv, that at most one thread is *)
(* inside a block that holds _cache_lock.  LockInv says of each slot who   *)
(* has its flag and its lock: nobody if it has no users (QuietInv), its    *)
(* one user if it has users and was not forgotten (UserInv); and of a      *)
(* request that was routed to a slot but has not acquired it, that nobody  *)
(* else has taken the slot meanwhile (FreshInv): only the holder of        *)
(* _cache_lock sets a flag.                                                *)
(***************************************************************************)
EXTENDS SlotLocks, TLAPS

\* A request has a target slot when it is to restore into, acquire, lock or release
\* one, and none while a slot is being picked or when it is not being served.
TargetInv ==
    \A r \in Requests :
        /\ pc[r] \in Untargeted => slot[r] = None
        /\ pc[r] \in Targeted => slot[r] \in Slots

\* The thread inside one of the two with blocks is the one that holds _cache_lock.
CacheLockInv == \A r \in Requests : pc[r] \in Critical <=> cacheLock = r

\* No request is about to acquire a slot that is marked busy.
FreshInv ==
    \A r \in Requests :
        pc[r] \in {"restore", "makeRoom", "retry", "acquire"} => ~busy[slot[r]]

\* A slot without users is free, and ordinary again if it was forgotten.
QuietInv ==
    \A s \in Slots :
        Holders(s) = {} => ~busy[s] /\ lock[s] \in {NoLock, Free} /\ s \notin stolen

\* The users of a slot that was not forgotten have its flag and, once they are
\* through acquire_slot, its lock: so there is one user.
UserInv ==
    \A s \in Slots \ stolen : \A r \in Holders(s) :
        /\ busy[s]
        /\ lock[s] = IF pc[r] = "lock" THEN Free ELSE r

TypedInv == TypeOK /\ TargetInv
LockInv == FreshInv /\ AcquireFindsLock /\ QuietInv /\ UserInv

\* What forget leaves behind has the types of TypeOK.
LEMMA ForgetType ==
    ASSUME TypeOK, NEW s \in Slots, Forget(s)
    PROVE  /\ tracked' \subseteq Slots /\ small' \subseteq tracked'
           /\ older' \subseteq tracked' \X tracked'
           /\ busy' \in [Slots -> BOOLEAN]
           /\ lock' \in [Slots -> Requests \cup {NoLock, Free}]
           /\ stolen' \subseteq Slots
<1>1. tracked' \subseteq Slots /\ small' \subseteq tracked' /\ stolen' \subseteq Slots
  BY DEF Forget, TypeOK
<1>2. older' \subseteq tracked' \X tracked'
  BY DEF Forget, TypeOK
<1>3. busy' \in [Slots -> BOOLEAN] /\ lock' \in [Slots -> Requests \cup {NoLock, Free}]
  BY DEF Forget, TypeOK
<1> QED
  BY <1>1, <1>2, <1>3

\* Every reachable state has the types of TypeOK and target slots where the phases of
\* _handle_request and _lookup_and_restore_prefix need them.
LEMMA Typed == Spec => []TypedInv
<1>1. Init => TypedInv
  BY SlotsAssumption, BoundsAssumption DEF Init, TypedInv, TypeOK, TargetInv,
       Untargeted, Targeted,
     Phases, Critical, Routing, Picking, Sources
<1>2. TypedInv /\ [Next]_vars => TypedInv'
  <2> SUFFICES ASSUME TypedInv, [Next]_vars PROVE TypedInv'
    OBVIOUS
  <2> USE SlotsAssumption, BoundsAssumption DEF TypedInv, TypeOK, TargetInv,
       Untargeted, Targeted, Phases, Critical, Routing, Picking, Sources, Goto,
       control, slotState
  <2>1. ASSUME NEW r \in Requests, Arrive(r) PROVE TypedInv'
    BY <2>1 DEF Arrive
  <2>2. ASSUME NEW r \in Requests, EnterRouting(r) PROVE TypedInv'
    BY <2>2 DEF EnterRouting
  <2>3. ASSUME NEW r \in Requests, LookupHit(r) PROVE TypedInv'
    BY <2>3 DEF LookupHit, Pick
  <2>4. ASSUME NEW r \in Requests, LookupMiss(r) PROVE TypedInv'
    BY <2>4 DEF LookupMiss
  <2>5. ASSUME NEW r \in Requests, TryAnchor(r) PROVE TypedInv'
    BY <2>5 DEF TryAnchor, Pick
  <2>6. ASSUME NEW r \in Requests, NoMoreAnchors(r) PROVE TypedInv'
    BY <2>6 DEF NoMoreAnchors
  <2>7. ASSUME NEW r \in Requests, FreeDefaultSlot(r) PROVE TypedInv'
    <3>1. CASE DefaultSlot \in tracked
      <4>1. Forget(DefaultSlot)
        BY <2>7, <3>1 DEF FreeDefaultSlot
      <4> QED
        BY <2>7, <4>1, ForgetType DEF FreeDefaultSlot
    <3>2. CASE DefaultSlot \notin tracked
      BY <2>7, <3>2 DEF FreeDefaultSlot
    <3> QED
      BY <3>1, <3>2
  <2>8. ASSUME NEW r \in Requests, SkipMaterialize(r) PROVE TypedInv'
    BY <2>8 DEF SkipMaterialize
  <2>9. ASSUME NEW r \in Requests, PrefillOk(r) PROVE TypedInv'
    BY <2>9 DEF PrefillOk, Pick, Record, MostRecent
  <2>10. ASSUME NEW r \in Requests, PrefillFails(r) PROVE TypedInv'
    BY <2>10 DEF PrefillFails
  <2>11. ASSUME NEW r \in Requests, UseIdleSlot(r) PROVE TypedInv'
    BY <2>11 DEF UseIdleSlot
  <2>12. ASSUME NEW r \in Requests, NoIdleSlot(r) PROVE TypedInv'
    BY <2>12 DEF NoIdleSlot
  <2>13. ASSUME NEW r \in Requests, AncestorMatch(r) PROVE TypedInv'
    BY <2>13 DEF AncestorMatch, Record, MostRecent, Choose
  <2>14. ASSUME NEW r \in Requests, DescendantMatch(r) PROVE TypedInv'
    BY <2>14 DEF DescendantMatch, Touch, MostRecent, Record, Choose
  <2>15. ASSUME NEW r \in Requests, SiblingMatch(r) PROVE TypedInv'
    BY <2>15 DEF SiblingMatch, Touch, MostRecent, Choose
  <2>16. ASSUME NEW r \in Requests, NoMatch(r) PROVE TypedInv'
    BY <2>16 DEF NoMatch
  <2>17. ASSUME NEW r \in Requests, UseEmptySlot(r) PROVE TypedInv'
    BY <2>17 DEF UseEmptySlot, Choose
  <2>18. ASSUME NEW r \in Requests, EvictLru(r) PROVE TypedInv'
    BY <2>18 DEF EvictLru, Forget, IsLru, Choose
  <2>19. ASSUME NEW r \in Requests, NothingToEvict(r) PROVE TypedInv'
    BY <2>19 DEF NothingToEvict, GiveUp, Choose
  <2>20. ASSUME NEW r \in Requests, RestoreOk(r) PROVE TypedInv'
    BY <2>20 DEF RestoreOk, Record, MostRecent
  <2>21. ASSUME NEW r \in Requests, RestoreFails(r) PROVE TypedInv'
    BY <2>21 DEF RestoreFails, GiveUp, Choose
  <2>22. ASSUME NEW r \in Requests, RetryFails(r) PROVE TypedInv'
    BY <2>22 DEF RetryFails, GiveUp, Choose
  <2>23. ASSUME NEW r \in Requests, MakeRoom(r) PROVE TypedInv'
    BY <2>23 DEF MakeRoom, Forget, IsLru
  <2>24. ASSUME NEW r \in Requests, NoRoom(r) PROVE TypedInv'
    BY <2>24 DEF NoRoom, GiveUp, Choose, IsLru
  <2>25. ASSUME NEW r \in Requests, RoutingRaises(r) PROVE TypedInv'
    BY <2>25 DEF RoutingRaises, EndRouting, Choose
  <2>26. ASSUME NEW r \in Requests, Acquire(r) PROVE TypedInv'
    <3>1. slot[r] \in Slots
      BY <2>26 DEF Acquire
    <3>2. CASE busy[slot[r]]
      BY <2>26, <3>1, <3>2 DEF Acquire, Choose
    <3>3. CASE ~busy[slot[r]]
      <4>1. busy' \in [Slots -> BOOLEAN]
        BY <2>26, <3>1, <3>3 DEF Acquire
      <4>2. lock' \in [Slots -> Requests \cup {NoLock, Free}]
        BY <2>26, <3>1, <3>3 DEF Acquire
      <4> QED
        BY <2>26, <3>1, <3>3, <4>1, <4>2 DEF Acquire
    <3> QED
      BY <3>2, <3>3
  <2>27. ASSUME NEW r \in Requests, LockSlot(r) PROVE TypedInv'
    BY <2>27 DEF LockSlot
  <2>28. ASSUME NEW r \in Requests, LeaveRouting(r) PROVE TypedInv'
    BY <2>28 DEF LeaveRouting, EndRouting
  <2>29. ASSUME NEW r \in Requests, ForwardReturns(r) PROVE TypedInv'
    BY <2>29 DEF ForwardReturns
  <2>30. ASSUME NEW r \in Requests, ForwardRaises(r) PROVE TypedInv'
    BY <2>30 DEF ForwardRaises, Leave
  <2>31. ASSUME NEW r \in Requests, EnterSave(r) PROVE TypedInv'
    BY <2>31 DEF EnterSave
  <2>32. ASSUME NEW r \in Requests, Save(r) PROVE TypedInv'
    BY <2>32 DEF Save, Leave
  <2>33. ASSUME NEW r \in Requests, Release(r) PROVE TypedInv'
    BY <2>33 DEF Release, Choose
  <2>34. CASE UNCHANGED vars
    BY <2>34 DEF vars
  <2> QED
    BY <2>1, <2>2, <2>3, <2>4, <2>5, <2>6, <2>7, <2>8, <2>9, <2>10,
       <2>11, <2>12, <2>13, <2>14, <2>15, <2>16, <2>17, <2>18, <2>19, <2>20,
       <2>21, <2>22, <2>23, <2>24, <2>25, <2>26, <2>27, <2>28, <2>29, <2>30,
       <2>31, <2>32, <2>33, <2>34
       DEF Next, Serve, Route, AllServed
<1> QED
  BY <1>1, <1>2, PTL DEF Spec

\* Between entering and leaving a with block, a thread and nobody else has
\* _cache_lock: routing and saving of different requests never overlap.
LEMMA CacheLockHeld == Spec => []CacheLockInv
<1>1. Init => CacheLockInv
  BY RequestsAssumption DEF Init, CacheLockInv, Critical, Routing, Picking
<1>2. TypedInv /\ CacheLockInv /\ [Next]_vars => CacheLockInv'
  <2> SUFFICES ASSUME TypedInv, CacheLockInv, [Next]_vars PROVE CacheLockInv'
    OBVIOUS
  <2> USE RequestsAssumption DEF TypedInv, TypeOK, CacheLockInv, Critical, Routing,
       Picking, Goto, control, slotState
  <2>1. ASSUME NEW r \in Requests, Arrive(r) PROVE CacheLockInv'
    BY <2>1 DEF Arrive
  <2>2. ASSUME NEW r \in Requests, EnterRouting(r) PROVE CacheLockInv'
    BY <2>2 DEF EnterRouting
  <2>3. ASSUME NEW r \in Requests, LookupHit(r) PROVE CacheLockInv'
    BY <2>3 DEF LookupHit, Pick
  <2>4. ASSUME NEW r \in Requests, LookupMiss(r) PROVE CacheLockInv'
    BY <2>4 DEF LookupMiss
  <2>5. ASSUME NEW r \in Requests, TryAnchor(r) PROVE CacheLockInv'
    BY <2>5 DEF TryAnchor, Pick
  <2>6. ASSUME NEW r \in Requests, NoMoreAnchors(r) PROVE CacheLockInv'
    BY <2>6 DEF NoMoreAnchors
  <2>7. ASSUME NEW r \in Requests, FreeDefaultSlot(r) PROVE CacheLockInv'
    BY <2>7 DEF FreeDefaultSlot
  <2>8. ASSUME NEW r \in Requests, SkipMaterialize(r) PROVE CacheLockInv'
    BY <2>8 DEF SkipMaterialize
  <2>9. ASSUME NEW r \in Requests, PrefillOk(r) PROVE CacheLockInv'
    BY <2>9 DEF PrefillOk, Pick
  <2>10. ASSUME NEW r \in Requests, PrefillFails(r) PROVE CacheLockInv'
    BY <2>10 DEF PrefillFails
  <2>11. ASSUME NEW r \in Requests, UseIdleSlot(r) PROVE CacheLockInv'
    BY <2>11 DEF UseIdleSlot
  <2>12. ASSUME NEW r \in Requests, NoIdleSlot(r) PROVE CacheLockInv'
    BY <2>12 DEF NoIdleSlot
  <2>13. ASSUME NEW r \in Requests, AncestorMatch(r) PROVE CacheLockInv'
    BY <2>13 DEF AncestorMatch, Choose
  <2>14. ASSUME NEW r \in Requests, DescendantMatch(r) PROVE CacheLockInv'
    BY <2>14 DEF DescendantMatch, Choose
  <2>15. ASSUME NEW r \in Requests, SiblingMatch(r) PROVE CacheLockInv'
    BY <2>15 DEF SiblingMatch, Choose
  <2>16. ASSUME NEW r \in Requests, NoMatch(r) PROVE CacheLockInv'
    BY <2>16 DEF NoMatch
  <2>17. ASSUME NEW r \in Requests, UseEmptySlot(r) PROVE CacheLockInv'
    BY <2>17 DEF UseEmptySlot, Choose
  <2>18. ASSUME NEW r \in Requests, EvictLru(r) PROVE CacheLockInv'
    BY <2>18 DEF EvictLru, Choose
  <2>19. ASSUME NEW r \in Requests, NothingToEvict(r) PROVE CacheLockInv'
    BY <2>19 DEF NothingToEvict, GiveUp, Choose
  <2>20. ASSUME NEW r \in Requests, RestoreOk(r) PROVE CacheLockInv'
    BY <2>20 DEF RestoreOk
  <2>21. ASSUME NEW r \in Requests, RestoreFails(r) PROVE CacheLockInv'
    BY <2>21 DEF RestoreFails, GiveUp, Choose
  <2>22. ASSUME NEW r \in Requests, RetryFails(r) PROVE CacheLockInv'
    BY <2>22 DEF RetryFails, GiveUp, Choose
  <2>23. ASSUME NEW r \in Requests, MakeRoom(r) PROVE CacheLockInv'
    BY <2>23 DEF MakeRoom
  <2>24. ASSUME NEW r \in Requests, NoRoom(r) PROVE CacheLockInv'
    BY <2>24 DEF NoRoom, GiveUp, Choose
  <2>25. ASSUME NEW r \in Requests, RoutingRaises(r) PROVE CacheLockInv'
    BY <2>25 DEF RoutingRaises, EndRouting, Choose
  <2>26. ASSUME NEW r \in Requests, Acquire(r) PROVE CacheLockInv'
    BY <2>26 DEF Acquire, Choose
  <2>27. ASSUME NEW r \in Requests, LockSlot(r) PROVE CacheLockInv'
    BY <2>27 DEF LockSlot
  <2>28. ASSUME NEW r \in Requests, LeaveRouting(r) PROVE CacheLockInv'
    BY <2>28 DEF LeaveRouting, EndRouting
  <2>29. ASSUME NEW r \in Requests, ForwardReturns(r) PROVE CacheLockInv'
    BY <2>29 DEF ForwardReturns
  <2>30. ASSUME NEW r \in Requests, ForwardRaises(r) PROVE CacheLockInv'
    BY <2>30 DEF ForwardRaises, Leave
  <2>31. ASSUME NEW r \in Requests, EnterSave(r) PROVE CacheLockInv'
    BY <2>31 DEF EnterSave
  <2>32. ASSUME NEW r \in Requests, Save(r) PROVE CacheLockInv'
    BY <2>32 DEF Save, Leave
  <2>33. ASSUME NEW r \in Requests, Release(r) PROVE CacheLockInv'
    BY <2>33 DEF Release, Choose
  <2>34. CASE UNCHANGED vars
    BY <2>34 DEF vars
  <2> QED
    BY <2>1, <2>2, <2>3, <2>4, <2>5, <2>6, <2>7, <2>8, <2>9, <2>10,
       <2>11, <2>12, <2>13, <2>14, <2>15, <2>16, <2>17, <2>18, <2>19, <2>20,
       <2>21, <2>22, <2>23, <2>24, <2>25, <2>26, <2>27, <2>28, <2>29, <2>30,
       <2>31, <2>32, <2>33, <2>34
       DEF Next, Serve, Route, AllServed
<1> QED
  BY <1>1, <1>2, Typed, PTL DEF Spec

\* The flags and locks of SlotState agree with who uses the slots, in every
\* interleaving of acquire_slot, release_slot and forget.
LEMMA LocksHeld == Spec => []LockInv
<1>1. Init => LockInv
  BY DEF Init, LockInv, FreshInv, AcquireFindsLock, QuietInv, UserInv, Holders, Holding
<1>2. TypedInv /\ CacheLockInv /\ LockInv /\ [Next]_vars => LockInv'
  <2> SUFFICES ASSUME TypedInv, CacheLockInv, LockInv, [Next]_vars PROVE LockInv'
    OBVIOUS
  <2> USE RequestsAssumption, SlotsAssumption, LockStatesAssumption DEF TypedInv,
       TypeOK, TargetInv, Untargeted, Targeted, CacheLockInv, Critical, Routing,
       Picking, LockInv, FreshInv, AcquireFindsLock, QuietInv, UserInv, Holders,
       Holding, Goto, control, slotState
  <2>1. ASSUME NEW r \in Requests, Arrive(r) PROVE LockInv'
    BY <2>1 DEF Arrive
  <2>2. ASSUME NEW r \in Requests, EnterRouting(r) PROVE LockInv'
    BY <2>2 DEF EnterRouting
  <2>3. ASSUME NEW r \in Requests, LookupHit(r) PROVE LockInv'
    BY <2>3 DEF LookupHit, Pick
  <2>4. ASSUME NEW r \in Requests, LookupMiss(r) PROVE LockInv'
    BY <2>4 DEF LookupMiss
  <2>5. ASSUME NEW r \in Requests, TryAnchor(r) PROVE LockInv'
    BY <2>5 DEF TryAnchor, Pick
  <2>6. ASSUME NEW r \in Requests, NoMoreAnchors(r) PROVE LockInv'
    BY <2>6 DEF NoMoreAnchors
  <2>7. ASSUME NEW r \in Requests, FreeDefaultSlot(r) PROVE LockInv'
    BY <2>7 DEF FreeDefaultSlot, Forget
  <2>8. ASSUME NEW r \in Requests, SkipMaterialize(r) PROVE LockInv'
    BY <2>8 DEF SkipMaterialize
  <2>9. ASSUME NEW r \in Requests, PrefillOk(r) PROVE LockInv'
    BY <2>9 DEF PrefillOk, Pick, Record
  <2>10. ASSUME NEW r \in Requests, PrefillFails(r) PROVE LockInv'
    BY <2>10 DEF PrefillFails
  <2>11. ASSUME NEW r \in Requests, UseIdleSlot(r) PROVE LockInv'
    BY <2>11 DEF UseIdleSlot
  <2>12. ASSUME NEW r \in Requests, NoIdleSlot(r) PROVE LockInv'
    BY <2>12 DEF NoIdleSlot
  <2>13. ASSUME NEW r \in Requests, AncestorMatch(r) PROVE LockInv'
    BY <2>13 DEF AncestorMatch, Record, Choose
  <2>14. ASSUME NEW r \in Requests, DescendantMatch(r) PROVE LockInv'
    BY <2>14 DEF DescendantMatch, Touch, Record, Choose
  <2>15. ASSUME NEW r \in Requests, SiblingMatch(r) PROVE LockInv'
    BY <2>15 DEF SiblingMatch, Touch, Choose
  <2>16. ASSUME NEW r \in Requests, NoMatch(r) PROVE LockInv'
    BY <2>16 DEF NoMatch
  <2>17. ASSUME NEW r \in Requests, UseEmptySlot(r) PROVE LockInv'
    BY <2>17 DEF UseEmptySlot, Choose
  <2>18. ASSUME NEW r \in Requests, EvictLru(r) PROVE LockInv'
    BY <2>18 DEF EvictLru, Forget, Choose
  <2>19. ASSUME NEW r \in Requests, NothingToEvict(r) PROVE LockInv'
    BY <2>19 DEF NothingToEvict, GiveUp, Choose
  <2>20. ASSUME NEW r \in Requests, RestoreOk(r) PROVE LockInv'
    BY <2>20 DEF RestoreOk, Record
  <2>21. ASSUME NEW r \in Requests, RestoreFails(r) PROVE LockInv'
    BY <2>21 DEF RestoreFails, GiveUp, Choose
  <2>22. ASSUME NEW r \in Requests, RetryFails(r) PROVE LockInv'
    BY <2>22 DEF RetryFails, GiveUp, Choose
  <2>23. ASSUME NEW r \in Requests, MakeRoom(r) PROVE LockInv'
    BY <2>23 DEF MakeRoom, Forget
  <2>24. ASSUME NEW r \in Requests, NoRoom(r) PROVE LockInv'
    BY <2>24 DEF NoRoom, GiveUp, Choose
  <2>25. ASSUME NEW r \in Requests, RoutingRaises(r) PROVE LockInv'
    BY <2>25 DEF RoutingRaises, EndRouting, Choose
  <2>26. ASSUME NEW r \in Requests, Acquire(r) PROVE LockInv'
    BY <2>26 DEF Acquire, Choose
  <2>27. ASSUME NEW r \in Requests, LockSlot(r) PROVE LockInv'
    BY <2>27 DEF LockSlot
  <2>28. ASSUME NEW r \in Requests, LeaveRouting(r) PROVE LockInv'
    BY <2>28 DEF LeaveRouting, EndRouting
  <2>29. ASSUME NEW r \in Requests, ForwardReturns(r) PROVE LockInv'
    BY <2>29 DEF ForwardReturns
  <2>30. ASSUME NEW r \in Requests, ForwardRaises(r) PROVE LockInv'
    BY <2>30 DEF ForwardRaises, Leave
  <2>31. ASSUME NEW r \in Requests, EnterSave(r) PROVE LockInv'
    BY <2>31 DEF EnterSave
  <2>32. ASSUME NEW r \in Requests, Save(r) PROVE LockInv'
    BY <2>32 DEF Save, Leave
  <2>33. ASSUME NEW r \in Requests, Release(r) PROVE LockInv'
    BY <2>33 DEF Release, Choose
  <2>34. CASE UNCHANGED vars
    BY <2>34 DEF vars
  <2> QED
    BY <2>1, <2>2, <2>3, <2>4, <2>5, <2>6, <2>7, <2>8, <2>9, <2>10,
       <2>11, <2>12, <2>13, <2>14, <2>15, <2>16, <2>17, <2>18, <2>19, <2>20,
       <2>21, <2>22, <2>23, <2>24, <2>25, <2>26, <2>27, <2>28, <2>29, <2>30,
       <2>31, <2>32, <2>33, <2>34
       DEF Next, Serve, Route, AllServed
<1> QED
  BY <1>1, <1>2, Typed, CacheLockHeld, PTL DEF Spec

-----------------------------------------------------------------------------
(* The safety properties follow from the invariants. *)

\* UserInv leaves room for one user: two would both have the lock, or both be inside
\* acquire_slot, which runs with _cache_lock held.
LEMMA Exclusive ==
    ASSUME TypedInv, CacheLockInv, LockInv, NEW s \in Slots \ stolen,
           NEW q \in Holders(s), NEW r \in Holders(s)
    PROVE  q = r
<1>1. pc[q] = "lock" /\ pc[r] = "lock" => q = r
  BY DEF CacheLockInv, Critical, Routing, Holders
<1>2. lock[s] = (IF pc[q] = "lock" THEN Free ELSE q)
      /\ lock[s] = (IF pc[r] = "lock" THEN Free ELSE r)
  BY DEF LockInv, UserInv
<1> QED
  BY <1>1, <1>2, RequestsAssumption DEF Holders

(* Every state is well typed, and a request has a target slot exactly in the *)
(* phases of _handle_request that use target_slot.                          *)
THEOREM TypeCorrect == Spec => []TypeOK
BY Typed, PTL DEF TypedInv

(* A slot that was not forgotten while in use never has two users. *)
THEOREM ExclusiveUnlessStolen == Spec => []UnstolenExclusive
<1>1. TypedInv /\ CacheLockInv /\ LockInv => UnstolenExclusive
  BY Exclusive DEF UnstolenExclusive
<1> QED
  BY <1>1, Typed, CacheLockHeld, LocksHeld, PTL

(* acquire_slot does not block on such a slot while _cache_lock is held. *)
THEOREM AcquireDoesNotBlock == Spec => []NoBlockedAcquire
<1>1. TypedInv /\ LockInv => NoBlockedAcquire
  BY DEF TypedInv, TargetInv, Targeted, LockInv, UserInv, NoBlockedAcquire, Holders, Holding
<1> QED
  BY <1>1, Typed, LocksHeld, PTL

(* The second half of acquire_slot finds the lock the first half made. *)
THEOREM AcquireFindsItsLock == Spec => []AcquireFindsLock
BY LocksHeld, PTL DEF LockInv

(* The busy test of acquire_slot never fails after routing. *)
THEOREM RoutingAvoidsBusySlots == Spec => []RoutedSlotNotBusy
<1>1. LockInv => RoutedSlotNotBusy
  BY DEF LockInv, FreshInv, RoutedSlotNotBusy
<1> QED
  BY <1>1, LocksHeld, PTL

(* A slot all of whose users have left can be acquired again. *)
THEOREM QuiescentSlotsAreFree == Spec => []QuiescentSlotIsFree
<1>1. LockInv => QuiescentSlotIsFree
  BY DEF LockInv, QuietInv, QuiescentSlotIsFree
<1> QED
  BY <1>1, LocksHeld, PTL

-----------------------------------------------------------------------------
(* Who waits for whom. *)

\* The lock of a slot is held by one of the slot's users, who is through acquire_slot,
\* however often the slot was forgotten: a forget drops the lock, and release_slot frees
\* whatever lock there is.
OwnerInv ==
    \A s \in Slots :
        lock[s] \in Requests => lock[s] \in Holders(s) /\ pc[lock[s]] # "lock"

LEMMA OwnersHeld == Spec => []OwnerInv
<1>1. Init => OwnerInv
  BY RequestsAssumption DEF Init, OwnerInv
<1>2. TypedInv /\ OwnerInv /\ [Next]_vars => OwnerInv'
  <2> SUFFICES ASSUME TypedInv, OwnerInv, [Next]_vars PROVE OwnerInv'
    OBVIOUS
  <2> USE RequestsAssumption, SlotsAssumption DEF TypedInv, TypeOK, TargetInv, Untargeted,
       Targeted, Picking, OwnerInv, Holders, Holding, Goto, control, slotState
  <2>1. ASSUME NEW r \in Requests, Arrive(r) PROVE OwnerInv'
    BY <2>1 DEF Arrive
  <2>2. ASSUME NEW r \in Requests, EnterRouting(r) PROVE OwnerInv'
    BY <2>2 DEF EnterRouting
  <2>3. ASSUME NEW r \in Requests, LookupHit(r) PROVE OwnerInv'
    BY <2>3 DEF LookupHit, Pick
  <2>4. ASSUME NEW r \in Requests, LookupMiss(r) PROVE OwnerInv'
    BY <2>4 DEF LookupMiss
  <2>5. ASSUME NEW r \in Requests, TryAnchor(r) PROVE OwnerInv'
    BY <2>5 DEF TryAnchor, Pick
  <2>6. ASSUME NEW r \in Requests, NoMoreAnchors(r) PROVE OwnerInv'
    BY <2>6 DEF NoMoreAnchors
  <2>7. ASSUME NEW r \in Requests, FreeDefaultSlot(r) PROVE OwnerInv'
    BY <2>7 DEF FreeDefaultSlot, Forget
  <2>8. ASSUME NEW r \in Requests, SkipMaterialize(r) PROVE OwnerInv'
    BY <2>8 DEF SkipMaterialize
  <2>9. ASSUME NEW r \in Requests, PrefillOk(r) PROVE OwnerInv'
    BY <2>9 DEF PrefillOk, Pick, Record
  <2>10. ASSUME NEW r \in Requests, PrefillFails(r) PROVE OwnerInv'
    BY <2>10 DEF PrefillFails
  <2>11. ASSUME NEW r \in Requests, UseIdleSlot(r) PROVE OwnerInv'
    BY <2>11 DEF UseIdleSlot
  <2>12. ASSUME NEW r \in Requests, NoIdleSlot(r) PROVE OwnerInv'
    BY <2>12 DEF NoIdleSlot
  <2>13. ASSUME NEW r \in Requests, AncestorMatch(r) PROVE OwnerInv'
    BY <2>13 DEF AncestorMatch, Record, Choose
  <2>14. ASSUME NEW r \in Requests, DescendantMatch(r) PROVE OwnerInv'
    BY <2>14 DEF DescendantMatch, Touch, Record, Choose
  <2>15. ASSUME NEW r \in Requests, SiblingMatch(r) PROVE OwnerInv'
    BY <2>15 DEF SiblingMatch, Touch, Choose
  <2>16. ASSUME NEW r \in Requests, NoMatch(r) PROVE OwnerInv'
    BY <2>16 DEF NoMatch
  <2>17. ASSUME NEW r \in Requests, UseEmptySlot(r) PROVE OwnerInv'
    BY <2>17 DEF UseEmptySlot, Choose
  <2>18. ASSUME NEW r \in Requests, EvictLru(r) PROVE OwnerInv'
    BY <2>18 DEF EvictLru, Forget, Choose
  <2>19. ASSUME NEW r \in Requests, NothingToEvict(r) PROVE OwnerInv'
    BY <2>19 DEF NothingToEvict, GiveUp, Choose
  <2>20. ASSUME NEW r \in Requests, RestoreOk(r) PROVE OwnerInv'
    BY <2>20 DEF RestoreOk, Record
  <2>21. ASSUME NEW r \in Requests, RestoreFails(r) PROVE OwnerInv'
    BY <2>21 DEF RestoreFails, GiveUp, Choose
  <2>22. ASSUME NEW r \in Requests, RetryFails(r) PROVE OwnerInv'
    BY <2>22 DEF RetryFails, GiveUp, Choose
  <2>23. ASSUME NEW r \in Requests, MakeRoom(r) PROVE OwnerInv'
    BY <2>23 DEF MakeRoom, Forget
  <2>24. ASSUME NEW r \in Requests, NoRoom(r) PROVE OwnerInv'
    BY <2>24 DEF NoRoom, GiveUp, Choose
  <2>25. ASSUME NEW r \in Requests, RoutingRaises(r) PROVE OwnerInv'
    BY <2>25 DEF RoutingRaises, EndRouting, Choose
  <2>26. ASSUME NEW r \in Requests, Acquire(r) PROVE OwnerInv'
    BY <2>26 DEF Acquire, Choose
  <2>27. ASSUME NEW r \in Requests, LockSlot(r) PROVE OwnerInv'
    BY <2>27 DEF LockSlot
  <2>28. ASSUME NEW r \in Requests, LeaveRouting(r) PROVE OwnerInv'
    BY <2>28 DEF LeaveRouting, EndRouting
  <2>29. ASSUME NEW r \in Requests, ForwardReturns(r) PROVE OwnerInv'
    BY <2>29 DEF ForwardReturns
  <2>30. ASSUME NEW r \in Requests, ForwardRaises(r) PROVE OwnerInv'
    BY <2>30 DEF ForwardRaises, Leave
  <2>31. ASSUME NEW r \in Requests, EnterSave(r) PROVE OwnerInv'
    BY <2>31 DEF EnterSave
  <2>32. ASSUME NEW r \in Requests, Save(r) PROVE OwnerInv'
    BY <2>32 DEF Save, Leave
  <2>33. ASSUME NEW r \in Requests, Release(r) PROVE OwnerInv'
    BY <2>33 DEF Release, Choose
  <2>34. CASE UNCHANGED vars
    BY <2>34 DEF vars
  <2> QED
    BY <2>1, <2>2, <2>3, <2>4, <2>5, <2>6, <2>7, <2>8, <2>9, <2>10,
       <2>11, <2>12, <2>13, <2>14, <2>15, <2>16, <2>17, <2>18, <2>19, <2>20,
       <2>21, <2>22, <2>23, <2>24, <2>25, <2>26, <2>27, <2>28, <2>29, <2>30,
       <2>31, <2>32, <2>33, <2>34
       DEF Next, Serve, Route, AllServed
<1> QED
  BY <1>1, <1>2, Typed, PTL DEF Spec

\* The thread q goes on only after r has done something.
WaitsFor(q, r) ==
    \/ pc[q] \in {"wantCache", "wantSave"} /\ cacheLock = r
    \/ pc[q] = "lock" /\ lock[slot[q]] = r

\* Where a thread that is waited for waits itself, a slot was taken from its user: the
\* holder of _cache_lock is inside acquire_slot for that slot and waits for one of its
\* users.
OnlyTheftBlocksTheHolder ==
    \A q, r, t \in Requests :
        WaitsFor(q, r) /\ WaitsFor(r, t) =>
            \E c \in {q, r} :
                /\ cacheLock = c /\ pc[c] = "lock"
                /\ slot[c] \in stolen /\ lock[slot[c]] \in Holders(slot[c])

\* And if that user waits too, it is for _cache_lock, to save.
OnlyOneKindOfCycle ==
    \A c, b, t \in Requests :
        pc[c] = "lock" /\ WaitsFor(c, b) /\ WaitsFor(b, t) => pc[b] = "wantSave" /\ t = c

(* What is left of "No deadlock under high concurrency" (NoLockCycle): as long as no *)
(* slot is taken from its user, nobody that is waited for waits, so no cycle of      *)
(* waiting threads of any length can form.                                           *)
THEOREM DeadlockNeedsTheft == Spec => []OnlyTheftBlocksTheHolder
<1>1. TypedInv /\ CacheLockInv /\ LockInv /\ OwnerInv => OnlyTheftBlocksTheHolder
  <2> SUFFICES ASSUME TypedInv, CacheLockInv, LockInv, OwnerInv,
                      NEW q \in Requests, NEW r \in Requests, NEW t \in Requests,
                      WaitsFor(q, r), WaitsFor(r, t)
               PROVE  \E c \in {q, r} :
                        /\ cacheLock = c /\ pc[c] = "lock"
                        /\ slot[c] \in stolen /\ lock[slot[c]] \in Holders(slot[c])
    BY DEF OnlyTheftBlocksTheHolder
  <2>1. ASSUME NEW c \in Requests, pc[c] = "lock", lock[slot[c]] \in Requests
        PROVE  /\ cacheLock = c /\ slot[c] \in stolen
               /\ lock[slot[c]] \in Holders(slot[c])
    <3>1. slot[c] \in Slots /\ c \in Holders(slot[c])
      BY <2>1 DEF TypedInv, TargetInv, Targeted, Holders, Holding
    <3>2. slot[c] \in stolen
      BY <2>1, <3>1, RequestsAssumption DEF LockInv, UserInv
    <3> QED
      BY <2>1, <3>1, <3>2 DEF CacheLockInv, Critical, Routing, OwnerInv
  <2>2. CASE pc[q] = "lock" /\ lock[slot[q]] = r
    BY <2>1, <2>2
  <2>3. CASE cacheLock = r
    <3>1. pc[r] \in Critical
      BY <2>3 DEF CacheLockInv
    <3>2. pc[r] = "lock" /\ lock[slot[r]] = t
      BY <3>1 DEF WaitsFor, Critical, Routing, Picking
    <3> QED
      BY <2>1, <3>2
  <2> QED
    BY <2>2, <2>3 DEF WaitsFor
<1> QED
  BY <1>1, Typed, CacheLockHeld, LocksHeld, OwnersHeld, PTL

(* And NoLockCycle's is the only cycle there is: acquire_slot under _cache_lock *)
(* waits for a user of the slot who waits for _cache_lock to save.              *)
THEOREM NoOtherDeadlock == Spec => []OnlyOneKindOfCycle
<1>1. TypedInv /\ CacheLockInv /\ OwnerInv => OnlyOneKindOfCycle
  <2> SUFFICES ASSUME TypedInv, CacheLockInv, OwnerInv,
                      NEW c \in Requests, NEW b \in Requests, NEW t \in Requests,
                      pc[c] = "lock", WaitsFor(c, b), WaitsFor(b, t)
               PROVE  pc[b] = "wantSave" /\ t = c
    BY DEF OnlyOneKindOfCycle
  <2>1. cacheLock = c /\ slot[c] \in Slots /\ lock[slot[c]] = b
    BY DEF CacheLockInv, Critical, Routing, TypedInv, TargetInv, Targeted, WaitsFor
  <2>2. pc[b] \in Holding \ {"lock"}
    BY <2>1 DEF OwnerInv, Holders
  <2> QED
    BY <2>1, <2>2 DEF WaitsFor, Holding
<1> QED
  BY <1>1, Typed, CacheLockHeld, OwnersHeld, PTL

-----------------------------------------------------------------------------
(* Who clears a busy flag. *)

\* A busy flag goes down in a forget of the slot, or in a release by a user of it.
LEMMA FlagFalls ==
    ASSUME TypedInv, NEW s \in Slots, [Next]_vars, busy[s], ~busy'[s]
    PROVE  Forget(s) \/ \E r \in Requests : Release(r) /\ slot[r] = s
<1> USE DEF TypedInv, TypeOK, TargetInv, Targeted
<1>1. busy' # busy
  OBVIOUS
<1>2. PICK r \in Requests : Arrive(r) \/ Serve(r)
  BY <1>1 DEF Next, AllServed, vars, slotState
<1>3. CASE \E t \in Slots : Forget(t)
  <2>1. PICK t \in Slots : Forget(t)
    BY <1>3
  <2>2. busy' = [busy EXCEPT ![t] = FALSE]
    BY <2>1 DEF Forget
  <2>3. t = s
    BY <2>2
  <2> QED
    BY <2>1, <2>3
<1>4. CASE Acquire(r)
  BY <1>1, <1>4 DEF Acquire, slotState
<1>5. CASE Release(r)
  BY <1>5 DEF Release
<1>6. CASE FreeDefaultSlot(r)
  BY <1>1, <1>3, <1>6, SlotsAssumption DEF FreeDefaultSlot, slotState
<1>7. CASE EvictLru(r)
  BY <1>3, <1>7 DEF EvictLru
<1>8. CASE MakeRoom(r)
  BY <1>3, <1>8 DEF MakeRoom
<1>9. CASE PrefillOk(r) \/ AncestorMatch(r) \/ DescendantMatch(r) \/ SiblingMatch(r) \/ RestoreOk(r)
  BY <1>1, <1>9 DEF PrefillOk, AncestorMatch, DescendantMatch, SiblingMatch, RestoreOk, Record, Touch
<1>10. CASE \/ LookupHit(r) \/ LookupMiss(r) \/ TryAnchor(r) \/ NoMoreAnchors(r) \/ SkipMaterialize(r)
            \/ PrefillFails(r) \/ UseIdleSlot(r) \/ NoIdleSlot(r) \/ NoMatch(r) \/ UseEmptySlot(r)
            \/ NothingToEvict(r) \/ RestoreFails(r) \/ RetryFails(r) \/ NoRoom(r) \/ RoutingRaises(r)
  BY <1>1, <1>10 DEF LookupHit, LookupMiss, TryAnchor, NoMoreAnchors, SkipMaterialize,
       PrefillFails, UseIdleSlot, NoIdleSlot, NoMatch, UseEmptySlot, NothingToEvict,
       RestoreFails, RetryFails, NoRoom, RoutingRaises, slotState
<1>11. CASE \/ Arrive(r) \/ EnterRouting(r) \/ LockSlot(r) \/ LeaveRouting(r)
            \/ ForwardReturns(r) \/ ForwardRaises(r) \/ EnterSave(r) \/ Save(r)
  BY <1>1, <1>11 DEF Arrive, EnterRouting, LockSlot, LeaveRouting, ForwardReturns,
       ForwardRaises, EnterSave, Save, slotState
<1> QED
  BY <1>2, <1>4, <1>5, <1>6, <1>7, <1>8, <1>9, <1>10, <1>11 DEF Serve, Route

\* The flag of a slot that is not forgotten in use is cleared by its one user only,
\* when that request ends: no other thread's release_slot can free it.
THEOREM OnlyItsUserReleases == Spec => OnlyUserReleases
<1>1. ASSUME TypedInv, CacheLockInv, LockInv, [Next]_vars, NEW s \in Slots,
             busy[s], ~busy'[s], s \notin stolen \cup stolen'
      PROVE  \E r \in Requests : Holders(s) = {r} /\ pc[r] = "release" /\ pc'[r] = "idle"
  <2>1. ~Forget(s)
    BY <1>1 DEF Forget, LockInv, QuietInv
  <2>2. PICK r \in Requests : Release(r) /\ slot[r] = s
    BY <1>1, <2>1, FlagFalls
  <2>3. pc[r] = "release" /\ pc'[r] = "idle"
    BY <1>1, <2>2 DEF Release, Choose, Goto, TypedInv, TypeOK
  <2>4. r \in Holders(s)
    BY <2>2, <2>3 DEF Holders, Holding
  <2>5. Holders(s) = {r}
    BY <1>1, <2>4, Exclusive
  <2> QED
    BY <2>3, <2>5
<1>2. TypedInv /\ CacheLockInv /\ LockInv /\ [Next]_vars =>
        [\A s \in Slots :
            busy[s] /\ ~busy'[s] /\ s \notin stolen \cup stolen'
                => \E r \in Requests :
                    /\ Holders(s) = {r}
                    /\ pc[r] = "release" /\ pc'[r] = "idle"]_vars
  BY <1>1
<1> QED
  BY <1>2, Typed, CacheLockHeld, LocksHeld, PTL DEF Spec, OnlyUserReleases

-----------------------------------------------------------------------------
(* The locking implements SlotLease. *)

\* A forget is a revocation when the slot has users and no step of the lease
\* when it has none.
LEMMA ForgetRevokes ==
    ASSUME NEW s \in Slots, Forget(s), \A t \in Slots : Holders(t)' = Holders(t)
    PROVE  [Lease!Next]_(Lease!vars)
<1>1. [t \in Slots |-> Holders(t)]' = [t \in Slots |-> Holders(t)]
  OBVIOUS
<1>2. CASE Holders(s) = {}
  BY <1>1, <1>2 DEF Forget, Lease!vars
<1>3. CASE Holders(s) # {}
  <2>1. Lease!Revoke(s)
    BY <1>1, <1>3 DEF Forget, Lease!Revoke
  <2> QED
    BY <2>1 DEF Lease!Next
<1> QED
  BY <1>2, <1>3

\* Setting the flag in acquire_slot is a grant of the lease.
LEMMA GrantStep ==
    ASSUME NEW r \in Requests, NEW s \in Slots,
           Holders(s) = {} \/ s \in stolen,
           \A t \in Slots : r \notin Holders(t),
           \A t \in Slots : Holders(t)' = IF t = s THEN Holders(t) \cup {r} ELSE Holders(t),
           stolen' = stolen
    PROVE  Lease!Next
<1>1. Lease!Grant(r, s)
  BY DEF Lease!Grant
<1> QED
  BY <1>1 DEF Lease!Next

\* release_slot is a return of the lease.
LEMMA ReturnStep ==
    ASSUME NEW r \in Requests, NEW s \in Slots,
           r \in Holders(s),
           \A t \in Slots : Holders(t)' = IF t = s THEN Holders(t) \ {r} ELSE Holders(t),
           stolen' = IF Holders(s) = {r} THEN stolen \ {s} ELSE stolen
    PROVE  Lease!Next
<1>1. Lease!Return(r, s)
  BY DEF Lease!Return
<1> QED
  BY <1>1 DEF Lease!Next

\* Every step of the locking is a step of the lease or leaves it unchanged.
LEMMA LeaseStep ==
    TypedInv /\ CacheLockInv /\ LockInv /\ [Next]_vars => [Lease!Next]_(Lease!vars)
<1> SUFFICES ASSUME TypedInv, CacheLockInv, LockInv, [Next]_vars
             PROVE  [Lease!Next]_(Lease!vars)
  OBVIOUS
<1> USE DEF TypedInv, TypeOK, TargetInv, Targeted, Holders, Holding, Goto, control, slotState
<1>1. ASSUME NEW r \in Requests, Arrive(r) PROVE UNCHANGED Lease!vars
  BY <1>1, SlotsAssumption DEF Arrive, Lease!vars, Untargeted, Picking
<1>2. ASSUME NEW r \in Requests, EnterRouting(r) PROVE UNCHANGED Lease!vars
  BY <1>2, SlotsAssumption DEF EnterRouting, Lease!vars, Untargeted, Picking
<1>3. ASSUME NEW r \in Requests, LookupHit(r) PROVE UNCHANGED Lease!vars
  BY <1>3, SlotsAssumption DEF LookupHit, Pick, Lease!vars, Untargeted, Picking
<1>4. ASSUME NEW r \in Requests, LookupMiss(r) PROVE UNCHANGED Lease!vars
  BY <1>4, SlotsAssumption DEF LookupMiss, Lease!vars, Untargeted, Picking
<1>5. ASSUME NEW r \in Requests, TryAnchor(r) PROVE UNCHANGED Lease!vars
  BY <1>5, SlotsAssumption DEF TryAnchor, Pick, Lease!vars, Untargeted, Picking
<1>6. ASSUME NEW r \in Requests, NoMoreAnchors(r) PROVE UNCHANGED Lease!vars
  BY <1>6, SlotsAssumption DEF NoMoreAnchors, Lease!vars, Untargeted, Picking
<1>7. ASSUME NEW r \in Requests, FreeDefaultSlot(r) PROVE [Lease!Next]_(Lease!vars)
  <2>1. \A t \in Slots : Holders(t)' = Holders(t)
    BY <1>7 DEF FreeDefaultSlot
  <2>2. CASE DefaultSlot \in tracked
    <3>1. Forget(DefaultSlot)
      BY <1>7, <2>2 DEF FreeDefaultSlot
    <3> QED
      BY ONLY <2>1, <3>1, ForgetRevokes, SlotsAssumption
  <2>3. CASE DefaultSlot \notin tracked
    BY <1>7, <2>1, <2>3 DEF FreeDefaultSlot, Lease!vars
  <2> QED
    BY <2>2, <2>3
<1>8. ASSUME NEW r \in Requests, SkipMaterialize(r) PROVE UNCHANGED Lease!vars
  BY <1>8, SlotsAssumption DEF SkipMaterialize, Lease!vars, Untargeted, Picking
<1>9. ASSUME NEW r \in Requests, PrefillOk(r) PROVE UNCHANGED Lease!vars
  BY <1>9, SlotsAssumption DEF PrefillOk, Pick, Record, Lease!vars, Untargeted, Picking
<1>10. ASSUME NEW r \in Requests, PrefillFails(r) PROVE UNCHANGED Lease!vars
  BY <1>10, SlotsAssumption DEF PrefillFails, Lease!vars, Untargeted, Picking
<1>11. ASSUME NEW r \in Requests, UseIdleSlot(r) PROVE UNCHANGED Lease!vars
  BY <1>11, SlotsAssumption DEF UseIdleSlot, Lease!vars, Untargeted, Picking
<1>12. ASSUME NEW r \in Requests, NoIdleSlot(r) PROVE UNCHANGED Lease!vars
  BY <1>12, SlotsAssumption DEF NoIdleSlot, Lease!vars, Untargeted, Picking
<1>13. ASSUME NEW r \in Requests, AncestorMatch(r) PROVE UNCHANGED Lease!vars
  BY <1>13, SlotsAssumption DEF AncestorMatch, Record, Choose, Lease!vars, Untargeted, Picking
<1>14. ASSUME NEW r \in Requests, DescendantMatch(r) PROVE UNCHANGED Lease!vars
  BY <1>14, SlotsAssumption DEF DescendantMatch, Touch, Record, Choose, Lease!vars, Untargeted, Picking
<1>15. ASSUME NEW r \in Requests, SiblingMatch(r) PROVE UNCHANGED Lease!vars
  BY <1>15, SlotsAssumption DEF SiblingMatch, Touch, Choose, Lease!vars, Untargeted, Picking
<1>16. ASSUME NEW r \in Requests, NoMatch(r) PROVE UNCHANGED Lease!vars
  BY <1>16, SlotsAssumption DEF NoMatch, Lease!vars, Untargeted, Picking
<1>17. ASSUME NEW r \in Requests, UseEmptySlot(r) PROVE UNCHANGED Lease!vars
  BY <1>17, SlotsAssumption DEF UseEmptySlot, Choose, Lease!vars, Untargeted, Picking
<1>18. ASSUME NEW r \in Requests, EvictLru(r) PROVE [Lease!Next]_(Lease!vars)
  <2>1. PICK s \in Slots : Forget(s) /\ Choose(r, s, "restore")
    BY <1>18 DEF EvictLru
  <2>2. \A t \in Slots : Holders(t)' = Holders(t)
    BY <1>18, <2>1 DEF EvictLru, Choose
  <2> QED
    BY ONLY <2>1, <2>2, ForgetRevokes
<1>19. ASSUME NEW r \in Requests, NothingToEvict(r) PROVE UNCHANGED Lease!vars
  BY <1>19, SlotsAssumption DEF NothingToEvict, GiveUp, Choose, Lease!vars, Untargeted, Picking
<1>20. ASSUME NEW r \in Requests, RestoreOk(r) PROVE UNCHANGED Lease!vars
  BY <1>20, SlotsAssumption DEF RestoreOk, Record, Lease!vars, Untargeted, Picking
<1>21. ASSUME NEW r \in Requests, RestoreFails(r) PROVE UNCHANGED Lease!vars
  BY <1>21, SlotsAssumption DEF RestoreFails, GiveUp, Choose, Lease!vars, Untargeted, Picking
<1>22. ASSUME NEW r \in Requests, RetryFails(r) PROVE UNCHANGED Lease!vars
  BY <1>22, SlotsAssumption DEF RetryFails, GiveUp, Choose, Lease!vars, Untargeted, Picking
<1>23. ASSUME NEW r \in Requests, MakeRoom(r) PROVE [Lease!Next]_(Lease!vars)
  <2>1. PICK s \in Slots : Forget(s)
    BY <1>23 DEF MakeRoom
  <2>2. \A t \in Slots : Holders(t)' = Holders(t)
    BY <1>23 DEF MakeRoom
  <2> QED
    BY ONLY <2>1, <2>2, ForgetRevokes
<1>24. ASSUME NEW r \in Requests, NoRoom(r) PROVE UNCHANGED Lease!vars
  BY <1>24, SlotsAssumption DEF NoRoom, GiveUp, Choose, Lease!vars, Untargeted, Picking
<1>25. ASSUME NEW r \in Requests, RoutingRaises(r) PROVE UNCHANGED Lease!vars
  BY <1>25, SlotsAssumption DEF RoutingRaises, EndRouting, Choose, Lease!vars, Untargeted, Picking
<1>26. ASSUME NEW r \in Requests, Acquire(r) PROVE [Lease!Next]_(Lease!vars)
  <2>1. slot[r] \in Slots /\ pc[r] = "acquire" /\ \A t \in Slots : r \notin Holders(t)
    BY <1>26 DEF Acquire
  <2>2. CASE busy[slot[r]]
    BY <1>26, <2>1, <2>2 DEF LockInv, FreshInv
  <2>3. CASE ~busy[slot[r]]
    <3>1. Holders(slot[r]) = {} \/ slot[r] \in stolen
      BY <2>1, <2>3 DEF LockInv, UserInv
    <3>2. \A t \in Slots : Holders(t)' = IF t = slot[r] THEN Holders(t) \cup {r} ELSE Holders(t)
      BY <1>26, <2>1, <2>3 DEF Acquire
    <3>3. stolen' = stolen
      BY <1>26, <2>3 DEF Acquire
    <3> HIDE DEF Holders
    <3> QED
      BY <2>1, <3>1, <3>2, <3>3, GrantStep
  <2> QED
    BY <2>2, <2>3
<1>27. ASSUME NEW r \in Requests, LockSlot(r) PROVE UNCHANGED Lease!vars
  BY <1>27, SlotsAssumption DEF LockSlot, Lease!vars, Untargeted, Picking
<1>28. ASSUME NEW r \in Requests, LeaveRouting(r) PROVE UNCHANGED Lease!vars
  BY <1>28, SlotsAssumption DEF LeaveRouting, EndRouting, Lease!vars, Untargeted, Picking
<1>29. ASSUME NEW r \in Requests, ForwardReturns(r) PROVE UNCHANGED Lease!vars
  BY <1>29, SlotsAssumption DEF ForwardReturns, Lease!vars, Untargeted, Picking
<1>30. ASSUME NEW r \in Requests, ForwardRaises(r) PROVE UNCHANGED Lease!vars
  BY <1>30, SlotsAssumption DEF ForwardRaises, Leave, Lease!vars, Untargeted, Picking
<1>31. ASSUME NEW r \in Requests, EnterSave(r) PROVE UNCHANGED Lease!vars
  BY <1>31, SlotsAssumption DEF EnterSave, Lease!vars, Untargeted, Picking
<1>32. ASSUME NEW r \in Requests, Save(r) PROVE UNCHANGED Lease!vars
  BY <1>32, SlotsAssumption DEF Save, Leave, Lease!vars, Untargeted, Picking
<1>33. ASSUME NEW r \in Requests, Release(r) PROVE [Lease!Next]_(Lease!vars)
  <2>1. slot[r] \in Slots /\ r \in Holders(slot[r])
    BY <1>33 DEF Release
  <2>2. \A t \in Slots : Holders(t)' = IF t = slot[r] THEN Holders(t) \ {r} ELSE Holders(t)
    BY <1>33, <2>1, SlotsAssumption DEF Release, Choose
  <2>3. stolen' = IF Holders(slot[r]) = {r} THEN stolen \ {slot[r]} ELSE stolen
    BY <1>33 DEF Release
  <2> HIDE DEF Holders
  <2> QED
    BY <2>1, <2>2, <2>3, ReturnStep
<1>34. CASE UNCHANGED vars
  BY <1>34 DEF vars, Lease!vars
<1> QED
  BY <1>1, <1>2, <1>3, <1>4, <1>5, <1>6, <1>7, <1>8, <1>9, <1>10,
     <1>11, <1>12, <1>13, <1>14, <1>15, <1>16, <1>17, <1>18, <1>19, <1>20,
     <1>21, <1>22, <1>23, <1>24, <1>25, <1>26, <1>27, <1>28, <1>29, <1>30,
     <1>31, <1>32, <1>33, <1>34
     DEF Next, Serve, Route, AllServed

(* Every behaviour of the locking is one of the lease: a slot is granted only *)
(* when it is empty or was revoked, and its last user's release repairs it.   *)
THEOREM LocksImplementLease == Spec => ImplementsLease
<1>1. Init => Lease!Init
  BY DEF Init, Lease!Init, Holders, Holding
<1> QED
  BY <1>1, LeaseStep, Typed, CacheLockHeld, LocksHeld, PTL DEF ImplementsLease, Lease!Spec, Spec
=============================================================================
