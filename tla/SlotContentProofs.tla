--------------------------- MODULE SlotContentProofs ---------------------------
(***************************************************************************)
(* What SlotContent promises for every number of requests and slots and    *)
(* every set of prompts, anchors and old rows.                             *)
(*                                                                         *)
(* Every step of SlotContent is a step of SlotLocks, so what               *)
(* SlotLocksProofs says of the locks holds here: at most one request is    *)
(* inside a block that holds _cache_lock, a slot that is being routed to   *)
(* is not busy, and a slot that was not forgotten in use has its user's    *)
(* flag.  DataInv adds types and which row a request is routed with, and   *)
(* RecordInv what SlotState's record of a slot is worth: it fits the slot, *)
(* the slot's user, and the request the slot was just given to.            *)
(***************************************************************************)
EXTENDS SlotContent, SlotLocksProofs

\* Phases in which the row a request is routed with is known, from the lookup to the
\* last restore.
RoutedWith == Picking \cup {"materialize", "prefill", "restore", "makeRoom", "retry"}

DataType ==
    /\ prompt \in [Requests -> Texts \cup {None}]
    /\ node \in [Requests -> Ids \cup {None}]
    /\ name \in [Slots -> Ids \cup {None}]
    /\ holds \in [Slots -> Texts \cup {Empty}]
    /\ stored \in Tables
    /\ unrecorded \subseteq Slots
    /\ tracked = {s \in Slots : name[s] # None}

\* A request has its prompt until it is answered, the row it is routed with while one is
\* tried, and no row once all have been.
NodeInv ==
    \A r \in Requests :
        /\ pc[r] # "idle" => prompt[r] \in Texts
        /\ pc[r] \in RoutedWith => node[r] \in Ids
        /\ pc[r] = "idleSlot" => node[r] = None

\* Nobody records DefaultSlot between its forget and the end of the prefill.
PrefillInv == \A r \in Requests : pc[r] = "prefill" => DefaultSlot \notin tracked

\* A slot that a request was routed to with a row has a record that leads to the row.
AcquireInv ==
    \A r \in Requests :
        pc[r] = "acquire" /\ node[r] # None =>
            slot[r] \in tracked /\ Leads(name[slot[r]], node[r])

\* A slot in use by a request that was routed to it with a row has a record, or was
\* taken away.
UsedInv ==
    \A s \in Slots : \A r \in Holders(s) : node[r] # None => s \in tracked \cup stolen

\* A row whose file was checked is restored with its own tokens at least.
Covered(f) == \A n \in RowsOf(f) : f[n].checked => Upto(Text(n), f[n].has)

\* The rows are good for restores.
RowsInv == Covered(stored) /\ RoutedRowStays

DataInv == DataType /\ NodeInv /\ PrefillInv
RecordInv == NamedContent /\ RecordFitsUser /\ AcquireInv /\ UsedInv

-----------------------------------------------------------------------------
(* From the locks to the content. *)

\* Every step of SlotContent is one of SlotLocks, with its data.
LEMMA ContentStepIsStep == [ContentNext]_allVars => [Next]_vars
<1> SUFFICES ASSUME [ContentNext]_allVars PROVE [Next]_vars
  OBVIOUS
<1>1. ASSUME NEW r \in Requests, ContentStep(r) PROVE Next
  BY <1>1 DEF ContentStep, ArriveWith, Lookup, TryAnchorOf, NoMoreAnchorsOf,
     FreeDefaultSlotOf,
     SkipMaterializeOf, PrefillOkOf, PrefillFailsOf, AncestorMatchOf,
     DescendantMatchOf, SiblingMatchOf, NoMatchOf, EvictLruOf, RestoreOkOf, RestoreFailsOf, MakeRoomOf,
     EndRoutingOf, ForwardReturnsOf, ForwardRaisesOf, SaveOf, ReleaseOf, OnlyLocks,
     Next, Serve, Route
<1>2. CASE AllServed
  BY <1>2 DEF Next
<1>3. CASE UNCHANGED allVars
  BY <1>3 DEF allVars, vars
<1> QED
  BY <1>1, <1>2, <1>3 DEF ContentNext

\* The content only makes choices that SlotLocks leaves open: whatever holds of the
\* locking for any cache holds with this one.
THEOREM ContentImplementsLocks == ContentSpec => Spec
<1>1. ContentInit => Init
  BY DEF ContentInit
<1> QED
  BY <1>1, ContentStepIsStep, PTL DEF ContentSpec, Spec

\* The locks keep their invariants when slots have content.
LEMMA LocksHold == ContentSpec => [](TypedInv /\ CacheLockInv /\ LockInv)
BY ContentImplementsLocks, Typed, CacheLockHeld, LocksHeld, PTL

-----------------------------------------------------------------------------
(* What pruning, eviction and saving do to the table of rows. *)

\* What the model says of ids and texts, without the pairs they are made of.
LEMMA IdFacts ==
    /\ None \notin Ids \cup Texts /\ Empty \notin Texts
    /\ \A n \in Ids : Text(n) \in Texts
    /\ \A t \in Texts : Plain(t) \in Ids /\ Text(Plain(t)) = t
    /\ \A t \in Anchors : Anchor(t) \in Ids /\ Text(Anchor(t)) = t
BY ContentAssumption DEF Ids, Text, Plain, Anchor

\* Upto is a preorder, and Empty is not in it.
LEMMA UptoFacts ==
    /\ \A s : Upto(s, s)
    /\ \A s, t, u \in Texts : Upto(s, t) /\ Upto(t, u) => Upto(s, u)
    /\ \A s \in Texts : \A t : Upto(s, t) => t \in Texts
BY ContentAssumption DEF Upto

\* Pruning only deletes rows and gives some that are left the file of a longer row.
LEMMA PrunedRows ==
    ASSUME NEW f \in Tables, NEW g \in Pruned(f)
    PROVE  /\ g \in Tables
           /\ \A n \in RowsOf(g) : \E m \in RowsOf(f) : g[n] = f[m] /\ Upto(Text(n), Text(m))
<1> DEFINE Heirs(gone, n) == {m \in RowsOf(f) :
                               /\ <<Text(n), Text(m)>> \in Below
                               /\ \E k \in gone \ {m} : <<Text(n), Text(k)>> \in Below}
<1> DEFINE Chosen(gone) == {h \in [RowsOf(f) \ gone -> RowsOf(f)] :
                              \A n \in RowsOf(f) \ gone : h[n] \in {n} \cup Heirs(gone, n)}
           Left(gone) == {[n \in Ids |-> IF n \in RowsOf(f) \ gone THEN f[heir[n]] ELSE None] :
                             heir \in Chosen(gone)}
<1>1. g \in UNION {Left(gone) : gone \in SUBSET RowsOf(f)}
  BY Zenon DEF Pruned
<1>2. PICK gone \in SUBSET RowsOf(f) : g \in Left(gone)
  <2> HIDE DEF Left
  <2> QED
    BY <1>1
<1>3. \E heir \in Chosen(gone) :
         g = [n \in Ids |-> IF n \in RowsOf(f) \ gone THEN f[heir[n]] ELSE None]
  BY <1>2
<1>4. PICK heir \in [RowsOf(f) \ gone -> RowsOf(f)] :
        /\ \A n \in RowsOf(f) \ gone : heir[n] \in {n} \cup Heirs(gone, n)
        /\ g = [n \in Ids |-> IF n \in RowsOf(f) \ gone THEN f[heir[n]] ELSE None]
  BY <1>3
<1>5. /\ \A n \in RowsOf(f) \ gone : heir[n] = n \/ <<Text(n), Text(heir[n])>> \in Below
      /\ g = [n \in Ids |-> IF n \in RowsOf(f) \ gone THEN f[heir[n]] ELSE None]
  BY <1>4
<1>6. \A n \in RowsOf(f) \ gone : heir[n] \in RowsOf(f) /\ Upto(Text(n), Text(heir[n]))
  BY <1>5 DEF Upto
<1>7. g \in Tables
  BY <1>5, <1>6 DEF Tables, RowsOf
<1>8. \A n \in RowsOf(g) : n \in RowsOf(f) \ gone /\ g[n] = f[heir[n]]
  BY <1>5 DEF RowsOf
<1> QED
  BY <1>6, <1>7, <1>8

\* So a file that covers a row it is named by covers the rows that are pointed at it.
LEMMA PrunedCovers ==
    ASSUME NEW f \in Tables, Covered(f), NEW g \in Pruned(f)
    PROVE  Covered(g)
<1> SUFFICES ASSUME NEW n \in RowsOf(g), g[n].checked PROVE Upto(Text(n), g[n].has)
  BY DEF Covered
<1>1. PICK m \in RowsOf(f) : g[n] = f[m] /\ Upto(Text(n), Text(m))
  BY PrunedRows
<1>2. Upto(Text(m), f[m].has) /\ f[m] \in Row
  BY <1>1 DEF Covered, Tables, RowsOf
<1>3. Text(n) \in Texts /\ Text(m) \in Texts /\ f[m].has \in Texts
  BY <1>2, IdFacts DEF Row, RowsOf
<1> QED
  BY <1>1, <1>2, <1>3, UptoFacts

\* Eviction deletes no row, and a row is only left with a file for another text as one
\* that was not checked.
LEMMA EvictedRows ==
    ASSUME NEW f \in Tables, DataType, NEW s \in Slots, NEW g \in Evicted(s, f)
    PROVE  /\ g \in Tables
           /\ RowsOf(f) \subseteq RowsOf(g)
           /\ Covered(f) => Covered(g)
<1>1. CASE g = f
  BY <1>1
<1>2. CASE g # f
  <2> DEFINE t == holds[s]
  <2>1. t \in Texts /\ g = Renamed(f, t)
    BY <1>2 DEF Evicted, DataType
  <2>2. Plain(t) \in Ids /\ Text(Plain(t)) = t
    BY <2>1, IdFacts
  <2>3. ASSUME NEW n \in Ids
        PROVE  \/ n = Plain(t) /\ g[n] = [bin |-> n, has |-> t, checked |-> TRUE]
               \/ n \in RowsOf(f) /\ g[n] = [f[n] EXCEPT !.has = t, !.checked = FALSE]
               \/ g[n] = f[n]
    BY <2>1 DEF Renamed
  <2>4. ASSUME NEW n \in Ids PROVE g[n] \in Row \cup {None} /\ (n \in RowsOf(f) => g[n] \in Row)
    <3>1. f[n] \in Row \cup {None} /\ (n \in RowsOf(f) => f[n] \in Row)
      BY DEF Tables, RowsOf
    <3>2. \A x \in Row : [x EXCEPT !.has = t, !.checked = FALSE] \in Row
      BY <2>1 DEF Row
    <3>3. n = Plain(t) => [bin |-> n, has |-> t, checked |-> TRUE] \in Row
      BY <2>1, <2>2 DEF Row
    <3> QED
      BY <2>3, <3>1, <3>2, <3>3
  <2>5. g \in Tables
    BY <2>1, <2>4 DEF Renamed, Tables
  <2>6. RowsOf(f) \subseteq RowsOf(g)
    BY <2>4, IdFacts, ContentAssumption DEF RowsOf
  <2>7. ASSUME Covered(f), NEW n \in RowsOf(g), g[n].checked PROVE Upto(Text(n), g[n].has)
    <3>1. CASE n = Plain(t) /\ g[n] = [bin |-> n, has |-> t, checked |-> TRUE]
      BY <2>2, <3>1, UptoFacts
    <3>2. CASE n \in RowsOf(f) /\ g[n] = [f[n] EXCEPT !.has = t, !.checked = FALSE]
      <4>1. f[n] \in Row
        BY <3>2 DEF RowsOf, Tables
      <4>2. g[n].checked = FALSE
        BY <3>2, <4>1 DEF Row
      <4> QED
        BY <2>7, <4>2
    <3>3. CASE g[n] = f[n]
      BY <2>7, <3>3 DEF Covered, RowsOf
    <3> QED
      BY <2>3, <3>1, <3>2, <3>3 DEF RowsOf
  <2> QED
    BY <2>5, <2>6, <2>7 DEF Covered
<1> QED
  BY <1>1, <1>2

\* An autosave leaves a table, and the rows it writes were checked against the file if
\* they say so.
LEMMA SavedRows ==
    ASSUME TypedInv, DataType, NodeInv, NEW r \in Requests, pc[r] # "idle", SaveOf(r)
    PROVE  stored' \in Tables /\ (Covered(stored) => Covered(stored)')
<1> DEFINE t == prompt[r]
           c == holds[IF slot[r] = None THEN DefaultSlot ELSE slot[r]]
           grown == {g \in Texts : Readable /\ <<t, g>> \in Below /\ Upto(g, c)}
<1>1. PICK f \in Pruned(stored) :
        \/ stored' = f
        \/ /\ Proven(c, t)
           /\ \E g \in {t} \cup grown, ancestors \in SUBSET (Shorter(f, t) \cup {Plain(t)}) :
                LET new == {Plain(t), Plain(g)} \ RowsOf(f)
                    file == IF Plain(t) \in new THEN Plain(t) ELSE Plain(g)
                IN stored' = [n \in Ids |-> IF n \in new \cup ancestors
                                THEN [bin |-> file, has |-> c, checked |-> Readable] ELSE f[n]]
  BY DEF SaveOf
<1>2. f \in Tables /\ (Covered(stored) => Covered(f))
  BY PrunedRows, PrunedCovers DEF DataType
<1>3. CASE stored' = f
  BY <1>2, <1>3
<1>4. CASE stored' # f
  <2>1. t \in Texts /\ c \in Texts /\ (Readable => Upto(t, c))
    BY <1>1, <1>4, SlotsAssumption DEF Proven, NodeInv, DataType, TypedInv, TypeOK
  <2> DEFINE New(g) == {Plain(t), Plain(g)} \ RowsOf(f)
  <2>2. PICK g \in {t} \cup grown, ancestors \in SUBSET (Shorter(f, t) \cup {Plain(t)}) :
          stored' = [n \in Ids |-> IF n \in New(g) \cup ancestors
                       THEN [bin |-> IF Plain(t) \in New(g) THEN Plain(t) ELSE Plain(g),
                             has |-> c, checked |-> Readable] ELSE f[n]]
    BY <1>1, <1>4
  <2>3. \E file \in {Plain(t), Plain(g)} :
          stored' = [n \in Ids |-> IF n \in ({Plain(t), Plain(g)} \ RowsOf(f)) \cup ancestors
                       THEN [bin |-> file, has |-> c, checked |-> Readable] ELSE f[n]]
    <3>1. CASE Plain(t) \in New(g)
      BY <2>2, <3>1
    <3>2. CASE Plain(t) \notin New(g)
      BY <2>2, <3>2
    <3> QED
      BY <3>1, <3>2
  <2>4. PICK file \in {Plain(t), Plain(g)} :
          stored' = [n \in Ids |-> IF n \in ({Plain(t), Plain(g)} \ RowsOf(f)) \cup ancestors
                       THEN [bin |-> file, has |-> c, checked |-> Readable] ELSE f[n]]
    BY <2>3
  <2> DEFINE written == ({Plain(t), Plain(g)} \ RowsOf(f)) \cup ancestors
             row == [bin |-> file, has |-> c, checked |-> Readable]
  <2>5. g \in Texts /\ (Readable => Upto(g, c))
    BY <2>1
  <2>6. file \in Ids
    BY <2>1, <2>5, IdFacts
  <2>7. row \in Row
    BY <2>1, <2>6, ContentAssumption DEF Row
  <2>8. stored' \in Tables
    BY <1>2, <2>4, <2>7 DEF Tables
  <2>9. ASSUME Readable, NEW n \in Ids, n \in written PROVE Upto(Text(n), c)
    <3>1. CASE n = Plain(t)
      BY <2>1, <2>9, <3>1, IdFacts
    <3>2. CASE n = Plain(g)
      BY <2>5, <2>9, <3>2, IdFacts
    <3>3. CASE n \in Shorter(f, t)
      <4>1. Text(n) \in Texts /\ Upto(Text(n), t)
        BY <3>3, IdFacts DEF Shorter, RowsOf, Upto
      <4> QED
        BY <2>1, <2>9, <4>1, UptoFacts
    <3> QED
      BY <2>9, <3>1, <3>2, <3>3
  <2>10. ASSUME Covered(stored), NEW n \in Ids, stored'[n] # None, stored'[n].checked
        PROVE  Upto(Text(n), stored'[n].has)
    <3>1. CASE n \in written
      <4>1. stored'[n] = row
        BY <2>4, <3>1
      <4> QED
        BY <2>9, <2>10, <3>1, <4>1
    <3>2. CASE n \notin written
      <4>1. stored'[n] = f[n]
        BY <2>4, <3>2
      <4> QED
        BY <1>2, <2>10, <4>1 DEF Covered, RowsOf
    <3> QED
      BY <3>1, <3>2
  <2> QED
    BY <2>8, <2>10 DEF Covered, RowsOf
<1> QED
  BY <1>3, <1>4


\* Every reachable state has the types of ContentTypeOK, and a request the prompt and
\* the row that _lookup_and_restore_prefix works with.
LEMMA DataHolds == ContentSpec => []DataInv
<1>1. ContentInit => DataInv
  BY ContentAssumption, OldRowsAssumption DEF ContentInit, Init, DataInv, DataType, NodeInv, PrefillInv,
     RoutedWith,
     Routing, Picking, Ids, Text
<1>2. TypedInv /\ CacheLockInv /\ DataInv /\ [ContentNext]_allVars => DataInv'
  <2> SUFFICES ASSUME TypedInv, CacheLockInv, DataInv, [ContentNext]_allVars PROVE DataInv'
    OBVIOUS
  <2> USE SlotsAssumption, IdFacts DEF TypedInv, TypeOK, TargetInv, Untargeted,
       Targeted, CacheLockInv, Critical, Routing, Picking, Goto, control, slotState, content,
       DataInv, DataType, NodeInv, PrefillInv, RoutedWith
  <2>1. ASSUME NEW r \in Requests, ArriveWith(r) PROVE DataInv'
    <3>1. DataType'
      BY <2>1 DEF ArriveWith, Arrive
    <3>2. NodeInv'
      BY <2>1 DEF ArriveWith, Arrive
    <3>3. PrefillInv'
      BY <2>1 DEF ArriveWith, Arrive
    <3> QED
      BY <3>1, <3>2, <3>3
  <2>2. ASSUME NEW r \in Requests, Lookup(r) PROVE DataInv'
    <3>1. CASE LookupHit(r) /\ \E n \in Matches(r) : node' = [node EXCEPT ![r] = n]
      <4>1. PICK n \in Matches(r) : node' = [node EXCEPT ![r] = n]
        BY <3>1
      <4>2. n \in Ids
        BY DEF Matches, Shorter, RowsOf, Upto
      <4> QED
        BY <2>2, <3>1, <4>1, <4>2 DEF Lookup, LookupHit, Pick
    <3>2. CASE LookupMiss(r) /\ UNCHANGED node
      BY <2>2, <3>2 DEF Lookup, LookupMiss
    <3> QED
      BY <2>2, <3>1, <3>2 DEF Lookup
  <2>3. ASSUME NEW r \in Requests, TryAnchorOf(r) PROVE DataInv'
    <3>1. DataType'
      BY <2>3 DEF TryAnchorOf, TryAnchor, Pick, Rows, RowsOf, Anchor
    <3>2. NodeInv'
      BY <2>3 DEF TryAnchorOf, TryAnchor, Pick, Rows, RowsOf, Anchor
    <3>3. PrefillInv'
      BY <2>3 DEF TryAnchorOf, TryAnchor, Pick, Rows, RowsOf, Anchor
    <3> QED
      BY <3>1, <3>2, <3>3
  <2>4. ASSUME NEW r \in Requests, NoMoreAnchorsOf(r) PROVE DataInv'
    BY <2>4 DEF NoMoreAnchorsOf, NoMoreAnchors
  <2>5. ASSUME NEW r \in Requests, FreeDefaultSlotOf(r) PROVE DataInv'
    <3>1. PICK f \in Pruned(stored) :
            IF DefaultSlot \in tracked
              THEN stored' \in Evicted(DefaultSlot, f) /\ Forgotten(DefaultSlot)
              ELSE stored' = f /\ UNCHANGED name
      BY <2>5 DEF FreeDefaultSlotOf
    <3>2. f \in Tables
      BY PrunedRows
    <3>3. stored' \in Tables
      BY <3>1, <3>2, EvictedRows
    <3>4. tracked' = {s \in Slots : name'[s] # None} /\ DefaultSlot \notin tracked'
      BY <2>5, <3>1 DEF FreeDefaultSlotOf, FreeDefaultSlot, Forget, Forgotten
    <3> QED
      BY <2>5, <3>1, <3>3, <3>4 DEF FreeDefaultSlotOf, FreeDefaultSlot, Forgotten
  <2>6. ASSUME NEW r \in Requests, SkipMaterializeOf(r) PROVE DataInv'
    <3>1. stored' \in Tables
      BY <2>6, PrunedRows DEF SkipMaterializeOf
    <3> QED
      BY <2>6, <3>1 DEF SkipMaterializeOf, SkipMaterialize
  <2>7. ASSUME NEW r \in Requests, PrefillOkOf(r) PROVE DataInv'
    <3>1. PICK c \in Texts, ok \in BOOLEAN :
            stored' = [stored EXCEPT ![node[r]] = [bin |-> node[r], has |-> c, checked |-> ok]]
      BY <2>7 DEF PrefillOkOf, PrefillOk, Intruding
    <3>2. stored' \in Tables
      BY <2>7, <3>1 DEF PrefillOkOf, PrefillOk, Tables, Row
    <3>3. holds' \in [Slots -> Texts \cup {Empty}] /\ unrecorded' \subseteq Slots
      BY <2>7 DEF PrefillOkOf, PrefillOk, Settled, Intruding
    <3>4. DataType'
      BY <2>7, <3>2, <3>3 DEF PrefillOkOf, PrefillOk, Pick, Record
    <3>5. NodeInv'
      BY <2>7 DEF PrefillOkOf, PrefillOk, Pick, Record
    <3>6. PrefillInv'
      BY <2>7 DEF PrefillOkOf, PrefillOk, Pick, Record
    <3> QED
      BY <3>4, <3>5, <3>6
  <2>8. ASSUME NEW r \in Requests, PrefillFailsOf(r) PROVE DataInv'
    <3>1. DataType'
      BY <2>8 DEF PrefillFailsOf, PrefillFails
    <3>2. NodeInv'
      BY <2>8 DEF PrefillFailsOf, PrefillFails
    <3>3. PrefillInv'
      BY <2>8 DEF PrefillFailsOf, PrefillFails
    <3> QED
      BY <3>1, <3>2, <3>3
  <2>9. ASSUME NEW r \in Requests, NoMatchOf(r) PROVE DataInv'
    BY <2>9 DEF NoMatchOf, NoMatch
  <2>10. ASSUME NEW r \in Requests, AncestorMatchOf(r) PROVE DataInv'
    BY <2>10 DEF AncestorMatchOf, AncestorMatch, Record, Choose, Leads
  <2>11. ASSUME NEW r \in Requests, DescendantMatchOf(r) PROVE DataInv'
    <3>1. DataType'
      BY <2>11 DEF DescendantMatchOf, DescendantMatch, Record, Touch, Choose, Leads
    <3>2. NodeInv'
      BY <2>11 DEF DescendantMatchOf, DescendantMatch, Record, Touch, Choose, Leads
    <3>3. PrefillInv'
      BY <2>11 DEF DescendantMatchOf, DescendantMatch, Record, Touch, Choose, Leads
    <3> QED
      BY <3>1, <3>2, <3>3
  <2>12. ASSUME NEW r \in Requests, SiblingMatchOf(r) PROVE DataInv'
    BY <2>12 DEF SiblingMatchOf, SiblingMatch, Touch, Choose
  <2>13. ASSUME NEW r \in Requests, EvictLruOf(r) PROVE DataInv'
    <3>1. PICK s \in Slots : Forget(s) /\ Choose(r, s, "restore")
      BY <2>13 DEF EvictLruOf, EvictLru
    <3>2. slot'[r] = s
      BY <3>1 DEF Choose
    <3>3. stored' \in Tables
      BY <2>13, <3>2, EvictedRows DEF EvictLruOf
    <3>4. tracked' = {t \in Slots : name'[t] # None}
      BY <2>13, <3>1, <3>2 DEF EvictLruOf, Forget, Forgotten
    <3> QED
      BY <2>13, <3>1, <3>2, <3>3, <3>4 DEF EvictLruOf, EvictLru, Forgotten, Choose
  <2>14. ASSUME NEW r \in Requests, RestoreOkOf(r) PROVE DataInv'
    <3>1. DataType'
      <4>1. node[r] \in Ids /\ stored[node[r]].has \in Texts
        BY <2>14 DEF RestoreOkOf, Rows, RowsOf, Tables, Row
      <4>2. \A s \in Slots : name'[s] # None <=> s \in tracked \/ s = slot[r]
        BY <2>14, <4>1, IdFacts DEF RestoreOkOf, RestoreOk
      <4>3. tracked' = tracked \cup {slot[r]} /\ slot[r] \in Slots
        BY <2>14 DEF RestoreOkOf, RestoreOk, Record
      <4>4. unrecorded' \subseteq Slots
        BY <2>14, <4>3 DEF RestoreOkOf, Settled
      <4> QED
        BY <2>14, <4>1, <4>2, <4>3, <4>4 DEF RestoreOkOf
    <3>2. NodeInv'
      BY <2>14 DEF RestoreOkOf, RestoreOk, Record, Settled
    <3>3. PrefillInv'
      BY <2>14 DEF RestoreOkOf, RestoreOk, Record, Settled
    <3> QED
      BY <3>1, <3>2, <3>3
  <2>15. ASSUME NEW r \in Requests, RestoreFailsOf(r) PROVE DataInv'
    BY <2>15 DEF RestoreFailsOf, RestoreFails, RetryFails, GiveUp, Choose
  <2>16. ASSUME NEW r \in Requests, MakeRoomOf(r) PROVE DataInv'
    <3>1. PICK s \in tracked \ tracked' :
            /\ stored' \in Evicted(s, stored)
            /\ holds' \in {holds, [holds EXCEPT ![s] = Empty]}
            /\ Forgotten(s)
      BY <2>16 DEF MakeRoomOf
    <3>2. tracked' = tracked \ {s}
      BY <2>16, <3>1 DEF MakeRoomOf, MakeRoom, Forget
    <3>3. stored' \in Tables
      BY <3>1, EvictedRows
    <3>4. tracked' = {t \in Slots : name'[t] # None}
      BY <3>1, <3>2 DEF Forgotten
    <3> QED
      BY <2>16, <3>1, <3>2, <3>3, <3>4 DEF MakeRoomOf, MakeRoom, Forgotten
  <2>17. ASSUME NEW r \in Requests, EndRoutingOf(r) PROVE DataInv'
    BY <2>17 DEF EndRoutingOf, RoutingRaises, LeaveRouting, EndRouting, Choose, ContextEnds
  <2>18. ASSUME NEW r \in Requests, ForwardReturnsOf(r) PROVE DataInv'
    BY <2>18 DEF ForwardReturnsOf, ForwardReturns, Served, Written, Serving
  <2>19. ASSUME NEW r \in Requests, ForwardRaisesOf(r) PROVE DataInv'
    <3>1. DataType'
      BY <2>19 DEF ForwardRaisesOf, ForwardRaises, Leave, Served, CutOff, Written, Serving,
         ContextEnds
    <3>2. NodeInv'
      BY <2>19 DEF ForwardRaisesOf, ForwardRaises, Leave, Served, CutOff, Written, Serving,
         ContextEnds
    <3>3. PrefillInv'
      BY <2>19 DEF ForwardRaisesOf, ForwardRaises, Leave, Served, CutOff, Written, Serving,
         ContextEnds
    <3> QED
      BY <3>1, <3>2, <3>3
  <2>20. ASSUME NEW r \in Requests, SaveOf(r) PROVE DataInv'
    <3>1. stored' \in Tables
      BY <2>20, SavedRows DEF SaveOf, Save
    <3> QED
      BY <2>20, <3>1 DEF SaveOf, Save, Leave, ContextEnds
  <2>21. ASSUME NEW r \in Requests, ReleaseOf(r) PROVE DataInv'
    <3>1. DataType'
      BY <2>21 DEF ReleaseOf, Release, Choose, ContextEnds
    <3>2. NodeInv'
      BY <2>21 DEF ReleaseOf, Release, Choose, ContextEnds
    <3>3. PrefillInv'
      BY <2>21 DEF ReleaseOf, Release, Choose, ContextEnds
    <3> QED
      BY <3>1, <3>2, <3>3
  <2>22. ASSUME NEW r \in Requests, OnlyLocks(r) PROVE DataInv'
    BY <2>22 DEF OnlyLocks, EnterRouting, UseIdleSlot, NoIdleSlot, UseEmptySlot,
       NothingToEvict, NoRoom, Acquire, LockSlot, EnterSave, GiveUp, Choose
  <2>23. CASE UNCHANGED allVars
    BY <2>23 DEF allVars, vars
  <2> QED
    BY <2>1, <2>2, <2>3, <2>4, <2>5, <2>6, <2>7, <2>8, <2>9, <2>10, <2>11, <2>12, <2>13,
       <2>14, <2>15, <2>16, <2>17, <2>18, <2>19, <2>20, <2>21, <2>22, <2>23
       DEF ContentNext, ContentStep, AllServed, allVars
<1> QED
  BY <1>1, <1>2, LocksHold, PTL DEF ContentSpec

-----------------------------------------------------------------------------
(* The rows: what their files hold, and when they may go. *)

\* No checked file is too short for a row that names it, and nobody deletes the row another
\* request is being routed with: the holder of _cache_lock is the only one to delete rows,
\* and does so before or after its own restores only.
LEMMA RowsHold == ContentSpec => []RowsInv
<1>1. ContentInit => RowsInv
  BY OldRowsAssumption DEF ContentInit, Init, RowsInv, Covered, RoutedRowStays, Rows, RowsOf,
     Picking
<1>2. TypedInv /\ CacheLockInv /\ DataInv /\ RowsInv /\ [ContentNext]_allVars => RowsInv'
  <2> SUFFICES ASSUME TypedInv, CacheLockInv, DataInv, RowsInv, [ContentNext]_allVars PROVE RowsInv'
    OBVIOUS
  <2> USE IdFacts, SlotsAssumption DEF TypedInv, TypeOK, CacheLockInv, Critical, Routing, Picking, Goto,
       control, slotState, content, DataInv, DataType, NodeInv, RoutedWith,
       RowsInv, RoutedRowStays, Rows
  <2>1. ASSUME NEW r \in Requests, ArriveWith(r) PROVE RowsInv'
    BY <2>1 DEF ArriveWith, Arrive
  <2>2. ASSUME NEW r \in Requests, Lookup(r) PROVE RowsInv'
    <3>1. Covered(stored)'
      BY <2>2 DEF Lookup
    <3>2. CASE LookupHit(r) /\ \E n \in Matches(r) : node' = [node EXCEPT ![r] = n]
      <4>1. PICK n \in Matches(r) : node' = [node EXCEPT ![r] = n]
        BY <3>2
      <4>2. n \in Rows
        BY DEF Matches, Shorter
      <4>3. RoutedRowStays'
        BY <2>2, <3>2, <4>1, <4>2 DEF Lookup, LookupHit, Pick
      <4> QED
        BY <3>1, <4>3
    <3>3. CASE LookupMiss(r) /\ UNCHANGED node
      BY <2>2, <3>1, <3>3 DEF Lookup, LookupMiss
    <3> QED
      BY <2>2, <3>2, <3>3 DEF Lookup
  <2>3. ASSUME NEW r \in Requests, TryAnchorOf(r) PROVE RowsInv'
    BY <2>3 DEF TryAnchorOf, TryAnchor, Pick, Rows, RowsOf, Anchor
  <2>4. ASSUME NEW r \in Requests, NoMoreAnchorsOf(r) PROVE RowsInv'
    BY <2>4 DEF NoMoreAnchorsOf, NoMoreAnchors
  <2>5. ASSUME NEW r \in Requests, FreeDefaultSlotOf(r) PROVE RowsInv'
    <3>1. PICK f \in Pruned(stored) : stored' = f \/ stored' \in Evicted(DefaultSlot, f)
      BY <2>5 DEF FreeDefaultSlotOf
    <3>2. f \in Tables /\ Covered(f)
      BY PrunedRows, PrunedCovers
    <3>4. Covered(stored)'
      BY <3>1, <3>2, EvictedRows DEF Covered
    <3>5. pc' = [pc EXCEPT ![r] = "prefill"] /\ node' = node
      BY <2>5 DEF FreeDefaultSlotOf, FreeDefaultSlot
    <3>6. RoutedRowStays'
      BY <2>5, <3>5 DEF FreeDefaultSlotOf, FreeDefaultSlot
    <3> QED
      BY <3>4, <3>6
  <2>6. ASSUME NEW r \in Requests, SkipMaterializeOf(r) PROVE RowsInv'
    <3>1. Covered(stored)'
      BY <2>6, PrunedCovers DEF SkipMaterializeOf, Covered
    <3> QED
      BY <2>6, <3>1 DEF SkipMaterializeOf, SkipMaterialize
  <2>7. ASSUME NEW r \in Requests, PrefillOkOf(r) PROVE RowsInv'
    <3>1. PICK c \in Texts, ok \in BOOLEAN :
            /\ stored' = [stored EXCEPT ![node[r]] = [bin |-> node[r], has |-> c, checked |-> ok]]
            /\ ok => c = Text(node[r])
      BY <2>7 DEF PrefillOkOf, PrefillOk, Intruding
    <3> DEFINE row == [bin |-> node[r], has |-> c, checked |-> ok]
    <3>6. node[r] \in Ids /\ row # None
      BY <2>7, ContentAssumption DEF PrefillOkOf, PrefillOk, Row
    <3>2. Covered(stored)'
      BY <3>1, <3>6, UptoFacts DEF Covered, RowsOf, Tables
    <3>3. \A n \in Rows : n \in Rows'
      BY <3>1, <3>6 DEF RowsOf, Tables
    <3>4. node[r] \in Rows'
      BY <3>1, <3>6 DEF RowsOf, Tables
    <3>5. RoutedRowStays'
      BY <2>7, <3>3, <3>4 DEF PrefillOkOf, PrefillOk, Pick
    <3> QED
      BY <3>2, <3>5
  <2>8. ASSUME NEW r \in Requests, PrefillFailsOf(r) PROVE RowsInv'
    BY <2>8 DEF PrefillFailsOf, PrefillFails
  <2>9. ASSUME NEW r \in Requests, NoMatchOf(r) PROVE RowsInv'
    BY <2>9 DEF NoMatchOf, NoMatch
  <2>10. ASSUME NEW r \in Requests, AncestorMatchOf(r) PROVE RowsInv'
    BY <2>10 DEF AncestorMatchOf, AncestorMatch, Record, Choose, Leads
  <2>11. ASSUME NEW r \in Requests, DescendantMatchOf(r) PROVE RowsInv'
    BY <2>11 DEF DescendantMatchOf, DescendantMatch, Record, Touch, Choose, Leads
  <2>12. ASSUME NEW r \in Requests, SiblingMatchOf(r) PROVE RowsInv'
    BY <2>12 DEF SiblingMatchOf, SiblingMatch, Touch, Choose
  <2>13. ASSUME NEW r \in Requests, EvictLruOf(r) PROVE RowsInv'
    <3>1. PICK s \in Slots : Choose(r, s, "restore")
      BY <2>13 DEF EvictLruOf, EvictLru
    <3>2. stored' \in Evicted(s, stored)
      BY <2>13, <3>1 DEF EvictLruOf, Choose
    <3>3. RowsOf(stored) \subseteq RowsOf(stored)' /\ Covered(stored)'
      BY <3>2, EvictedRows DEF RowsOf, Covered
    <3>5. RoutedRowStays'
      BY <2>13, <3>1, <3>3 DEF EvictLruOf, EvictLru, Choose
    <3> QED
      BY <3>3, <3>5
  <2>14. ASSUME NEW r \in Requests, RestoreOkOf(r) PROVE RowsInv'
    BY <2>14 DEF RestoreOkOf, RestoreOk, Record, Settled
  <2>15. ASSUME NEW r \in Requests, RestoreFailsOf(r) PROVE RowsInv'
    BY <2>15 DEF RestoreFailsOf, RestoreFails, RetryFails, GiveUp, Choose
  <2>16. ASSUME NEW r \in Requests, MakeRoomOf(r) PROVE RowsInv'
    <3>1. PICK s \in Slots : stored' \in Evicted(s, stored)
      BY <2>16 DEF MakeRoomOf
    <3>2. RowsOf(stored) \subseteq RowsOf(stored)' /\ Covered(stored)'
      BY <3>1, EvictedRows DEF RowsOf, Covered
    <3>4. RoutedRowStays'
      BY <2>16, <3>2 DEF MakeRoomOf, MakeRoom
    <3> QED
      BY <3>2, <3>4
  <2>17. ASSUME NEW r \in Requests, EndRoutingOf(r) PROVE RowsInv'
    BY <2>17 DEF EndRoutingOf, RoutingRaises, LeaveRouting, EndRouting, Choose, ContextEnds
  <2>18. ASSUME NEW r \in Requests, ForwardReturnsOf(r) PROVE RowsInv'
    BY <2>18 DEF ForwardReturnsOf, ForwardReturns, Served, Written, Serving
  <2>19. ASSUME NEW r \in Requests, ForwardRaisesOf(r) PROVE RowsInv'
    BY <2>19 DEF ForwardRaisesOf, ForwardRaises, Leave, Served, CutOff, Written, Serving, ContextEnds
  <2>20. ASSUME NEW r \in Requests, SaveOf(r) PROVE RowsInv'
    <3>1. pc[r] = "save" /\ pc' = [pc EXCEPT ![r] = IF slot[r] = None THEN "idle" ELSE "release"]
      BY <2>20 DEF SaveOf, Save, Leave
    <3>2. Covered(stored)'
      BY <2>20, <3>1, SavedRows
    <3>3. RoutedRowStays'
      BY <2>20, <3>1 DEF SaveOf
    <3> QED
      BY <3>2, <3>3
  <2>21. ASSUME NEW r \in Requests, ReleaseOf(r) PROVE RowsInv'
    BY <2>21 DEF ReleaseOf, Release, Choose, ContextEnds
  <2>22. ASSUME NEW r \in Requests, OnlyLocks(r) PROVE RowsInv'
    BY <2>22 DEF OnlyLocks, EnterRouting, UseIdleSlot, NoIdleSlot, UseEmptySlot,
       NothingToEvict, NoRoom, Acquire, LockSlot, EnterSave, GiveUp, Choose
  <2>23. CASE UNCHANGED allVars
    BY <2>23 DEF allVars, vars
  <2> QED
    BY <2>1, <2>2, <2>3, <2>4, <2>5, <2>6, <2>7, <2>8, <2>9, <2>10, <2>11, <2>12, <2>13,
       <2>14, <2>15, <2>16, <2>17, <2>18, <2>19, <2>20, <2>21, <2>22, <2>23
       DEF ContentNext, ContentStep, AllServed, allVars
<1> QED
  BY <1>1, <1>2, LocksHold, DataHolds, PTL DEF ContentSpec

-----------------------------------------------------------------------------
(* The records of SlotState. *)

\* A record that leads to a row is for a beginning of the row's tokens, and of every text
\* that the row's tokens begin.
LEMMA LeadsFit ==
    ASSUME NEW m \in Ids, NEW n \in Ids, Leads(m, n)
    PROVE  /\ Upto(Text(m), Text(n))
           /\ \A t \in Texts : Upto(Text(n), t) => Upto(Text(m), t)
<1>1. Upto(Text(m), Text(n))
  BY DEF Leads, Upto
<1> QED
  BY <1>1, IdFacts, UptoFacts

\* A forward leaves a slot whose record is good with one that is, or in unrecorded.
LEMMA ForwardFits ==
    ASSUME DataType, NamedContent, RecordFitsUser, NEW r \in Requests, pc[r] = "forward",
           prompt[r] \in Texts, NEW s \in Serving(r), Served(r, s) \/ CutOff(r, s),
           name' = name, tracked' = tracked
    PROVE  NamedContent'
<1>1. unrecorded' = IF Untold(r, s) THEN unrecorded \cup {s} ELSE unrecorded
  BY DEF Served, CutOff, Written
<1>2. ASSUME NEW t \in tracked \ unrecorded', t # s PROVE holds'[t] = holds[t]
  BY <1>2 DEF Served, CutOff, DataType
<1>3. ASSUME s \in tracked \ unrecorded' PROVE holds'[s] # Empty /\ Upto(Text(name[s]), holds'[s])
  <2>1. /\ s \in Slots /\ name[s] \in Ids /\ slot[r] = s /\ s \notin stolen
        /\ node[r] \in Ids /\ Upto(Text(node[r]), prompt[r])
    BY <1>1, <1>3 DEF DataType, Serving, Untold
  <2>2. Leads(name[s], node[r])
    BY <1>3, <2>1, IdFacts DEF RecordFitsUser, Holders, Holding
  <2>3. Text(name[s]) \in Texts /\ Upto(Text(name[s]), prompt[r])
    BY <2>1, <2>2, LeadsFit, IdFacts
  <2>4. CASE Served(r, s)
    BY <2>1, <2>3, <2>4, IdFacts, UptoFacts DEF Served, DataType
  <2>5. CASE CutOff(r, s)
    <3>1. Upto(Text(name[s]), holds[s])
      BY <1>1, <1>3 DEF NamedContent
    <3>2. Upto(Text(name[s]), holds'[s])
      BY <2>1, <2>3, <2>5, <3>1 DEF CutOff, DataType
    <3> QED
      BY <2>3, <3>2, IdFacts, UptoFacts
  <2> QED
    BY <2>4, <2>5
<1> QED
  BY <1>1, <1>2, <1>3 DEF NamedContent

\* What SlotState says of a slot fits the slot's content, its user's row, and the row of
\* the request it was just given to.
LEMMA RecordsHold == ContentSpec => []RecordInv
<1>1. ContentInit => RecordInv
  BY DEF ContentInit, Init, RecordInv, NamedContent, RecordFitsUser, AcquireInv,
     UsedInv, Holders, Holding
<1>2. /\ TypedInv /\ CacheLockInv /\ LockInv /\ DataInv /\ Covered(stored) /\ RecordInv
      /\ [ContentNext]_allVars
      => RecordInv'
  <2> SUFFICES ASSUME TypedInv, CacheLockInv, LockInv, DataInv, Covered(stored), RecordInv,
                      [ContentNext]_allVars
               PROVE  RecordInv'
    OBVIOUS
  <2> USE IdFacts, SlotsAssumption DEF TypedInv, TypeOK, TargetInv, Targeted, Untargeted, CacheLockInv, Critical,
       Routing, Picking, Goto, control, slotState, content, DataInv, DataType, NodeInv, RoutedWith, PrefillInv,
       RecordInv, NamedContent, RecordFitsUser, AcquireInv, UsedInv, Holders, Holding
  <2>1. ASSUME NEW r \in Requests, ArriveWith(r) PROVE RecordInv'
    BY <2>1 DEF ArriveWith, Arrive
  <2>2. ASSUME NEW r \in Requests, Lookup(r) PROVE RecordInv'
    BY <2>2 DEF Lookup, LookupHit, LookupMiss, Pick
  <2>3. ASSUME NEW r \in Requests, TryAnchorOf(r) PROVE RecordInv'
    BY <2>3 DEF TryAnchorOf, TryAnchor, Pick
  <2>4. ASSUME NEW r \in Requests, NoMoreAnchorsOf(r) PROVE RecordInv'
    BY <2>4 DEF NoMoreAnchorsOf, NoMoreAnchors
  <2>5. ASSUME NEW r \in Requests, FreeDefaultSlotOf(r) PROVE RecordInv'
    BY <2>5 DEF FreeDefaultSlotOf, FreeDefaultSlot, Forget, Forgotten
  <2>6. ASSUME NEW r \in Requests, SkipMaterializeOf(r) PROVE RecordInv'
    BY <2>6 DEF SkipMaterializeOf, SkipMaterialize
  <2>7. ASSUME NEW r \in Requests, PrefillOkOf(r) PROVE RecordInv'
    <3> DEFINE s == DefaultSlot
    <3>1. pc[r] = "prefill" /\ s \in Slots \ tracked /\ node[r] \in Ids
      BY <2>7 DEF PrefillOkOf, PrefillOk
    <3>2. /\ name' = [name EXCEPT ![s] = node[r]]
          /\ tracked' = tracked \cup {s} /\ stolen' = stolen /\ slot' = slot /\ node' = node
          /\ pc' = [pc EXCEPT ![r] = "ancestor"]
      BY <2>7 DEF PrefillOkOf, PrefillOk, Pick, Record
    <3>3. \A t \in Slots : Holders(t)' = Holders(t)
      BY <3>1, <3>2
    <3>4. s \in tracked' \ unrecorded' => holds'[s] = Text(node[r])
      BY <2>7 DEF PrefillOkOf, Settled
    <3>5. \A t \in tracked \ unrecorded' : t \notin unrecorded /\ holds'[t] = holds[t]
      BY <2>7, <3>1 DEF PrefillOkOf, Settled
    <3>6. NamedContent'
      BY <3>1, <3>2, <3>4, <3>5, UptoFacts
    <3>7. RecordFitsUser'
      BY <3>1, <3>2, <3>3
    <3>8. AcquireInv' /\ UsedInv'
      BY <3>1, <3>2, <3>3
    <3> QED
      BY <3>6, <3>7, <3>8
  <2>8. ASSUME NEW r \in Requests, PrefillFailsOf(r) PROVE RecordInv'
    BY <2>8 DEF PrefillFailsOf, PrefillFails
  <2>9. ASSUME NEW r \in Requests, NoMatchOf(r) PROVE RecordInv'
    BY <2>9 DEF NoMatchOf, NoMatch
  <2>10. ASSUME NEW r \in Requests, AncestorMatchOf(r) PROVE RecordInv'
    <3>1. PICK s \in tracked : ~busy[s] /\ Record(s) /\ Choose(r, s, "acquire")
      BY <2>10 DEF AncestorMatchOf, AncestorMatch
    <3>2. slot'[r] = s /\ tracked' = tracked
      BY <3>1 DEF Record, Choose
    <3>3. Leads(name[s], node[r])
      BY <2>10, <3>2 DEF AncestorMatchOf
    <3> QED
      BY <2>10, <3>1, <3>2, <3>3 DEF AncestorMatchOf, AncestorMatch, Record, Choose
  <2>11. ASSUME NEW r \in Requests, DescendantMatchOf(r) PROVE RecordInv'
    <3>1. pc[r] = "descendant" /\ node[r] \in Ids
      BY <2>11 DEF DescendantMatchOf, DescendantMatch
    <3>2. CASE \E s \in tracked : ~busy[s] /\ Record(s) /\ Choose(r, s, "acquire")
      <4>1. PICK s \in tracked : ~busy[s] /\ Record(s) /\ Choose(r, s, "acquire")
        BY <3>2
      <4>2. slot'[r] = s /\ pc'[r] = "acquire" /\ tracked' = tracked /\ stolen' = stolen
        BY <4>1 DEF Record, Choose
      <4>3. Leads(node[r], name[s]) /\ name' = [name EXCEPT ![s] = node[r]]
            /\ UNCHANGED <<prompt, node, holds, stored, unrecorded>>
        BY <2>11, <4>2 DEF DescendantMatchOf
      <4>8. Leads(node[r], node[r])
        BY DEF Leads
      <4>4. s \notin unrecorded => Upto(Text(node[r]), holds[s]) /\ holds[s] # Empty
        BY <3>1, <4>3, LeadsFit
      <4>5. s \in stolen \/ Holders(s) = {}
        BY <4>1 DEF LockInv, UserInv
      <4>6. \A t \in Slots : Holders(t)' = Holders(t)
        BY <3>1, <4>1 DEF Choose
      <4>7. NamedContent'
        BY <4>2, <4>3, <4>4
      <4> QED
        BY <3>1, <4>1, <4>2, <4>3, <4>5, <4>6, <4>7, <4>8 DEF Choose
    <3>3. CASE \E s \in tracked : busy[s] /\ Touch(s) /\ Goto(r, "sibling") /\ UNCHANGED slot
      <4>1. UNCHANGED <<prompt, node, name, holds, stored, unrecorded, tracked, stolen>> /\ pc'[r] = "sibling"
        BY <2>11, <3>3 DEF DescendantMatchOf, Touch
      <4> QED
        BY <2>11, <3>1, <3>3, <4>1
    <3> QED
      BY <2>11, <3>2, <3>3 DEF DescendantMatchOf, DescendantMatch
  <2>12. ASSUME NEW r \in Requests, SiblingMatchOf(r) PROVE RecordInv'
    BY <2>12 DEF SiblingMatchOf, SiblingMatch, Touch, Choose
  <2>13. ASSUME NEW r \in Requests, EvictLruOf(r) PROVE RecordInv'
    BY <2>13 DEF EvictLruOf, EvictLru, Forget, Forgotten, Choose
  <2>14. ASSUME NEW r \in Requests, RestoreOkOf(r) PROVE RecordInv'
    <3> DEFINE s == slot[r]
               row == stored[node[r]]
    <3>1. pc[r] \in {"restore", "retry"} /\ s \in Slots /\ node[r] \in RowsOf(stored)
      BY <2>14 DEF RestoreOkOf, RestoreOk, Rows
    <3>2. /\ holds' = [holds EXCEPT ![s] = row.has] /\ name' = [name EXCEPT ![s] = node[r]]
          /\ tracked' = tracked \cup {s} /\ stolen' = stolen /\ slot' = slot /\ node' = node
          /\ pc' = [pc EXCEPT ![r] = "acquire"]
      BY <2>14 DEF RestoreOkOf, RestoreOk, Record
    <3>3. /\ node[r] \in Ids /\ row.has # Empty
          /\ row.checked => Upto(Text(node[r]), row.has)
      BY <3>1 DEF Covered, RowsOf, Tables, Row
    <3>4. s \in stolen \/ Holders(s) = {}
      BY <3>1 DEF LockInv, FreshInv, UserInv
    <3>5. unrecorded' = IF ~row.checked THEN unrecorded \cup {s}
                        ELSE IF Holders(s) = {} THEN unrecorded \ {s} ELSE unrecorded
      BY <2>14 DEF RestoreOkOf, Settled
    <3>6. \A t \in Slots : Holders(t)' = Holders(t)
      BY <3>1, <3>2
    <3>7. NamedContent'
      BY <3>1, <3>2, <3>3, <3>5
    <3>8. RecordFitsUser'
      BY <3>1, <3>2, <3>4, <3>6
    <3>10. Leads(node[r], node[r])
      BY DEF Leads
    <3>9. AcquireInv' /\ UsedInv'
      BY <3>1, <3>2, <3>3, <3>6, <3>10
    <3> QED
      BY <3>7, <3>8, <3>9
  <2>15. ASSUME NEW r \in Requests, RestoreFailsOf(r) PROVE RecordInv'
    BY <2>15 DEF RestoreFailsOf, RestoreFails, RetryFails, GiveUp, Choose
  <2>16. ASSUME NEW r \in Requests, MakeRoomOf(r) PROVE RecordInv'
    BY <2>16 DEF MakeRoomOf, MakeRoom, Forget, Forgotten
  <2>17. ASSUME NEW r \in Requests, EndRoutingOf(r) PROVE RecordInv'
    BY <2>17 DEF EndRoutingOf, RoutingRaises, LeaveRouting, EndRouting, Choose, ContextEnds
  <2>18. ASSUME NEW r \in Requests, ForwardReturnsOf(r) PROVE RecordInv'
    <3>1. \E s \in Serving(r) : Served(r, s) \/ CutOff(r, s)
      BY <2>18 DEF ForwardReturnsOf
    <3>2. CASE \E s \in Serving(r) : Served(r, s) \/ CutOff(r, s)
      <4>1. PICK s \in Serving(r) : Served(r, s) \/ CutOff(r, s)
        BY <3>2
      <4>2. prompt[r] \in Texts /\ pc[r] = "forward" /\ name' = name /\ tracked' = tracked /\ stolen' = stolen
        BY <2>18 DEF ForwardReturnsOf, ForwardReturns
      <4>3. NamedContent'
        BY <4>1, <4>2, ForwardFits
      <4> HIDE DEF NamedContent
      <4> QED
        BY <2>18, <4>2, <4>3 DEF ForwardReturnsOf, ForwardReturns
    <3> QED
      BY <3>1, <3>2
  <2>19. ASSUME NEW r \in Requests, ForwardRaisesOf(r) PROVE RecordInv'
    <3>2. CASE \E s \in Serving(r) : Served(r, s) \/ CutOff(r, s)
      <4>1. PICK s \in Serving(r) : Served(r, s) \/ CutOff(r, s)
        BY <3>2
      <4>2. prompt[r] \in Texts /\ pc[r] = "forward" /\ name' = name /\ tracked' = tracked /\ stolen' = stolen
        BY <2>19 DEF ForwardRaisesOf, ForwardRaises
      <4>3. NamedContent'
        BY <4>1, <4>2, ForwardFits
      <4> HIDE DEF NamedContent
      <4> QED
        BY <2>19, <4>2, <4>3 DEF ForwardRaisesOf, ForwardRaises, Leave, ContextEnds
    <3>3. CASE UNCHANGED <<holds, unrecorded>>
      BY <2>19, <3>3 DEF ForwardRaisesOf, ForwardRaises, Leave, ContextEnds
    <3> QED
      BY <2>19, <3>2, <3>3 DEF ForwardRaisesOf
  <2>20. ASSUME NEW r \in Requests, SaveOf(r) PROVE RecordInv'
    BY <2>20 DEF SaveOf, Save, Leave, ContextEnds
  <2>21. ASSUME NEW r \in Requests, ReleaseOf(r) PROVE RecordInv'
    BY <2>21 DEF ReleaseOf, Release, Choose, ContextEnds
  <2>22. ASSUME NEW r \in Requests, OnlyLocks(r) PROVE RecordInv'
    BY <2>22 DEF OnlyLocks, EnterRouting, UseIdleSlot, NoIdleSlot, UseEmptySlot,
       NothingToEvict, NoRoom, Acquire, LockSlot, EnterSave, GiveUp, Choose
  <2>23. CASE UNCHANGED allVars
    BY <2>23 DEF allVars, vars
  <2> QED
    BY <2>1, <2>2, <2>3, <2>4, <2>5, <2>6, <2>7, <2>8, <2>9, <2>10, <2>11, <2>12, <2>13,
       <2>14, <2>15, <2>16, <2>17, <2>18, <2>19, <2>20, <2>21, <2>22, <2>23
       DEF ContentNext, ContentStep, AllServed, allVars
<1>3. RowsInv => Covered(stored)
  BY DEF RowsInv
<1> QED
  BY <1>1, <1>2, <1>3, LocksHold, DataHolds, RowsHold, PTL DEF ContentSpec

-----------------------------------------------------------------------------
(* The properties. *)

\* Every state is well typed, and SlotState tracks the slots it has a node for.
THEOREM ContentTypeCorrect == ContentSpec => []ContentTypeOK
<1>1. TypedInv /\ DataInv => ContentTypeOK
  BY DEF TypedInv, DataInv, DataType, ContentTypeOK
<1> QED
  BY <1>1, LocksHold, DataHolds, PTL

\* The row a request was routed with is there until its last restore, whatever
\* others save, evict and prune.
THEOREM RoutedRowsStay == ContentSpec => []RoutedRowStays
<1>1. RowsInv => RoutedRowStays
  BY DEF RowsInv
<1> QED
  BY <1>1, RowsHold, PTL

\* The file of a row restores the row's tokens, whichever slots autosave, eviction and
\* materialization saved and whichever other row's file pruning and saves pointed it at;
\* the exceptions are files written without a comparison with the row's tokens.
THEOREM FilesCoverNodes == ContentSpec => []StoredCoversNode
<1>1. RowsInv => StoredCoversNode
  BY DEF RowsInv, Covered, StoredCoversNode, Rows
<1> QED
  BY <1>1, RowsHold, PTL

\* A slot that was only restored from checked files and written to by requests routed to
\* it with a row that begins their prompt holds at least the node SlotState names for it.
THEOREM NamedSlotsHoldTheirNode == ContentSpec => []NamedContent
<1>1. RecordInv => NamedContent
  BY DEF RecordInv
<1> QED
  BY <1>1, RecordsHold, PTL

\* The record of a slot leads to the row its user was routed with, whether or not the
\* row's tokens begin the user's prompt.
THEOREM RecordsFitUsers == ContentSpec => []RecordFitsUser
<1>1. RecordInv => RecordFitsUser
  BY DEF RecordInv
<1> QED
  BY <1>1, RecordsHold, PTL

\* What is left of SkippedRestoreIsSound, which the code violates: a slot that nothing
\* wrote to behind SlotState's back and that a request was routed to with a row holds the
\* tokens of the node recorded for it, whether or not it was restored.  They begin the
\* prompt if the row's tokens do, as those of a matched row do and an anchor's may not.
THEOREM RecordedSlotsCanBeSkipped ==
    ContentSpec =>
        [](\A r \in Requests :
              pc[r] = "acquire" /\ node[r] # None /\ slot[r] \notin unrecorded =>
                  /\ holds[slot[r]] # Empty
                  /\ Upto(Text(name[slot[r]]), holds[slot[r]])
                  /\ Upto(Text(node[r]), prompt[r]) => Upto(Text(name[slot[r]]), prompt[r]))
<1>1. TypedInv /\ DataInv /\ RecordInv =>
        \A r \in Requests :
            pc[r] = "acquire" /\ node[r] # None /\ slot[r] \notin unrecorded =>
                /\ holds[slot[r]] # Empty
                /\ Upto(Text(name[slot[r]]), holds[slot[r]])
                /\ Upto(Text(node[r]), prompt[r]) => Upto(Text(name[slot[r]]), prompt[r])
  <2> SUFFICES ASSUME TypedInv, DataInv, RecordInv, NEW r \in Requests,
                      pc[r] = "acquire", node[r] # None, slot[r] \notin unrecorded
               PROVE  /\ holds[slot[r]] # Empty
                      /\ Upto(Text(name[slot[r]]), holds[slot[r]])
                      /\ Upto(Text(node[r]), prompt[r]) => Upto(Text(name[slot[r]]), prompt[r])
    OBVIOUS
  <2>1. slot[r] \in tracked /\ Leads(name[slot[r]], node[r])
    BY DEF RecordInv, AcquireInv
  <2>2. name[slot[r]] \in Ids /\ node[r] \in Ids /\ prompt[r] \in Texts
    BY <2>1 DEF DataInv, DataType, NodeInv
  <2> QED
    BY <2>1, <2>2, LeadsFit DEF RecordInv, NamedContent
<1> QED
  BY <1>1, LocksHold, DataHolds, RecordsHold, PTL

=============================================================================
