------------------------------ MODULE SlotContent ------------------------------
(***************************************************************************)
(* What the backend's slots really hold, against what SlotState says and   *)
(* what the prefix cache stores.  Every step is a step of SlotLocks, whose *)
(* lookups, matches and restores are given their content here.             *)
(*                                                                         *)
(* A prompt or a slot's content is a token sequence, a member of Texts     *)
(* ordered by Below.  Of the cache only the rows are kept, with the file   *)
(* each one names and the tokens in it; a file that no row names can only  *)
(* keep something from being saved.  PrefixTrie has the parents.  A chain  *)
(* of parents may skip any prefix (it is cut by pruning and not mended by  *)
(* inserts), so a slot that could match may not; one recorded with the     *)
(* very row that is looked for always does.                                *)
(*                                                                         *)
(* Left out: requests without a cache context (X-LMCache-Bypass, a failed  *)
(* rendering), which go untargeted without _cache_lock.                    *)
(***************************************************************************)
EXTENDS SlotLocks

CONSTANTS
    Texts, Below,  \* token sequences, and <<s, t>>: s is a strict prefix of t
    Length,        \* how many tokens each has
    Anchors,       \* texts that end at a configured marker, as they are tokenized
    Cuts,          \* <<t, a>>: a prompt of tokens t may have an anchor of tokens a
    Readable,      \* can read_slot_bin_tokens parse the files of the backend?
    OldRows,       \* the rows from before the proxy was started
    Empty

Upto(s, t) == s = t \/ <<s, t>> \in Below

Ids == ({"plain"} \X Texts) \cup ({"anchor"} \X Anchors)
Plain(t) == <<"plain", t>>
Anchor(t) == <<"anchor", t>>
Text(n) == n[2]

\* A row: the node whose file it names, the tokens in that file, and, as history,
\* whether they were last compared with the tokens of the rows that name the file.
Row == [bin : Ids, has : Texts, checked : BOOLEAN]
Tables == [Ids -> Row \cup {None}]

ASSUME ContentAssumption ==
    /\ Below \subseteq Texts \X Texts /\ Anchors \subseteq Texts /\ Readable \in BOOLEAN
    /\ Length \in [Texts -> Nat] /\ Cuts \subseteq Texts \X Anchors
    /\ None \notin Ids \cup Texts \cup Row /\ Empty \notin Texts
    /\ \A s, t, u \in Texts : <<s, t>> \in Below /\ <<t, u>> \in Below => <<s, u>> \in Below
ASSUME OldRowsAssumption ==
    /\ OldRows \in Tables
    /\ \A n \in Ids : OldRows[n] # None => Upto(Text(n), OldRows[n].has)

VARIABLES
    prompt,     \* prompt_tokens of each request
    node,       \* the row a request is being routed with, later its restored_node_id
    name,       \* _slot_node_id
    holds,      \* the tokens in each slot of the backend
    stored,     \* the nodes table: a row for each node, or None
    unrecorded  \* history: slots whose tokens are not what SlotState was told

content == <<prompt, node, name, holds, stored, unrecorded>>
allVars == <<vars, content>>

ContentTypeOK ==
    /\ TypeOK
    /\ prompt \in [Requests -> Texts \cup {None}]
    /\ node \in [Requests -> Ids \cup {None}]
    /\ name \in [Slots -> Ids \cup {None}]
    /\ holds \in [Slots -> Texts \cup {Empty}]
    /\ stored \in Tables
    /\ unrecorded \subseteq Slots
    /\ tracked = {s \in Slots : name[s] # None}

\* A proxy that starts knows of no slot.
ContentInit ==
    /\ Init
    /\ prompt = [r \in Requests |-> None]
    /\ node = [r \in Requests |-> None]
    /\ name = [s \in Slots |-> None]
    /\ holds = [s \in Slots |-> Empty]
    /\ stored = OldRows
    /\ unrecorded = {}

RowsOf(f) == {n \in Ids : f[n] # None}
Rows == RowsOf(stored)

\* m is n or can be on its chain of parents.
Leads(m, n) == m = n \/ <<Text(m), Text(n)>> \in Below

\* The rows of the table f for strict prefixes of t.
Shorter(f, t) == {n \in RowsOf(f) : <<Text(n), t>> \in Below}

\* lookup, strictly_less: the rows with the longest text below the prompt.
Matches(r) ==
    LET below == Shorter(stored, prompt[r])
    IN {n \in below : \A m \in below : <<Text(n), Text(m)>> \notin Below}

\* The slots that SlotState says hold the very row a request is routed with.
Exact(r) == {s \in tracked : name[s] = node[r]}

-----------------------------------------------------------------------------
(* What happens to rows. *)

\* _ensure_storage_room may have pruned any rows of the table f.  A row that is left
\* and has lost a descendant may name the file of another one.
Pruned(f) ==
    UNION {LET kept == RowsOf(f) \ gone
               Heirs(n) == {m \in RowsOf(f) :
                               /\ <<Text(n), Text(m)>> \in Below
                               /\ \E k \in gone \ {m} : <<Text(n), Text(k)>> \in Below}
           IN {[n \in Ids |-> IF n \in kept THEN f[heir[n]] ELSE None] :
                  heir \in {h \in [kept -> RowsOf(f)] :
                                \A n \in kept : h[n] \in {n} \cup Heirs(n)}} :
           gone \in SUBSET RowsOf(f)}

\* A new node for t whose file is put in the place of the one with its name, which
\* rows that were saved or redirected together with an earlier node for t still name.
Renamed(f, t) ==
    [n \in Ids |->
        IF n = Plain(t) THEN [bin |-> n, has |-> t, checked |-> TRUE]
        ELSE IF n \in RowsOf(f) /\ f[n].bin = Plain(t)
          THEN [f[n] EXCEPT !.has = t, !.checked = FALSE]
          ELSE f[n]]

\* Is there a row that names the file of node n?
Named(f, n) == \E m \in RowsOf(f) : f[m].bin = n

-----------------------------------------------------------------------------
(* Slips: what the code would do with one plausible mistake in it.  Each one  *)
(* replaces the definition it is named after, to see a property fail.        *)

\* A slot that is evicted keeps its node id.
ForgottenNot(s) == UNCHANGED name

\* Eviction makes storage room, as the other writers of nodes do.
EvictedWithRoom(s, f) ==
    {f} \cup (IF Readable /\ holds[s] # Empty /\ Plain(holds[s]) \notin RowsOf(f)
                THEN {Renamed(g, holds[s]) : g \in Pruned(f)} ELSE {})

\* An ancestor match records the node that was looked up.
AncestorMatchAsNode(r) ==
    /\ AncestorMatch(r)
    /\ Leads(name[slot'[r]], node[r])
    /\ Exact(r) # {} => slot'[r] \in Exact(r)
    /\ name' = [name EXCEPT ![slot'[r]] = node[r]]
    /\ UNCHANGED <<prompt, node, holds, stored, unrecorded>>

\* The token table of the saved file is not compared with the prompt.
ProvenByCount(c, t) == c # Empty /\ Length[c] >= Length[t]

-----------------------------------------------------------------------------
(* What happens to slots. *)

\* _evict_slot: the content of the slot becomes a node of its own, unless it is
\* one already, the save fails or its token table cannot be read.
Evicted(s, f) ==
    {f} \cup (IF Readable /\ holds[s] # Empty /\ Plain(holds[s]) \notin RowsOf(f)
                THEN {Renamed(f, holds[s])} ELSE {})

\* The slot holds what its record says; if somebody is using it, only until that
\* request writes to it.
Settled(s) == unrecorded' = IF Holders(s) = {} THEN unrecorded \ {s} ELSE unrecorded

\* Forget in the content: no name for the slot.
Forgotten(s) == name' = [name EXCEPT ![s] = None]

\* What SlotState says of slot s is not about request r, which writes to it: r has
\* no row, lost the slot, or was routed with an anchor that does not begin its prompt.
Untold(r, s) ==
    \/ slot[r] = None \/ s \in stolen \/ node[r] = None
    \/ ~Upto(Text(node[r]), prompt[r])

Written(r, s) == unrecorded' = IF Untold(r, s) THEN unrecorded \cup {s} ELSE unrecorded

\* After a forward to slot s: the prompt, with generated tokens after it.
Served(r, s) ==
    /\ \E c \in Texts : Upto(prompt[r], c) /\ holds' = [holds EXCEPT ![s] = c]
    /\ Written(r, s)

\* A forward that was cut off: what the slot shared with the prompt is still there,
\* and the prompt may have been processed further.
CutOff(r, s) ==
    /\ \E c \in Texts \cup {Empty} :
        /\ c # Empty => Upto(c, prompt[r])
        /\ \A t \in Texts : Upto(t, holds[s]) /\ Upto(t, prompt[r]) => Upto(t, c)
        /\ holds' = [holds EXCEPT ![s] = c]
    /\ Written(r, s)

\* ctx is gone once the request has been answered, its row also if no slot was found.
ContextEnds(r) ==
    /\ prompt' = [prompt EXCEPT ![r] = IF pc'[r] = "idle" THEN None ELSE @]
    /\ node' = [node EXCEPT ![r] = IF pc'[r] = "idle" \/ slot'[r] = None THEN None ELSE @]

\* The backend puts a request without id_slot in any slot.
Serving(r) == {s \in Slots : slot[r] \in {s, None}}

\* Tokens that requests being forwarded may put in DefaultSlot while r has it prefilled.
Intruding(r) ==
    {c \in Texts : \E q \in Requests \ {r} :
        /\ pc[q] = "forward" /\ slot[q] \in {DefaultSlot, None}
        /\ Upto(c, prompt[q]) \/ Upto(prompt[q], c)}

-----------------------------------------------------------------------------
(* Routing *)

ArriveWith(r) ==
    /\ Arrive(r)
    /\ \E t \in Texts :
        /\ prompt' = [prompt EXCEPT ![r] = t]
        /\ anchors'[r] <= Cardinality({a \in Anchors : <<t, a>> \in Cuts})
    /\ UNCHANGED <<node, name, holds, stored, unrecorded>>

\* The longest match; without one, the anchors.
Lookup(r) ==
    /\ \/ LookupHit(r) /\ \E n \in Matches(r) : node' = [node EXCEPT ![r] = n]
       \/ LookupMiss(r) /\ Matches(r) = {} /\ UNCHANGED node
    /\ UNCHANGED <<prompt, name, holds, stored, unrecorded>>

\* The text before an anchor's boundary was tokenized by itself: its tokens need not
\* begin those of the prompt.
TryAnchorOf(r) ==
    /\ TryAnchor(r)
    /\ \E a \in Anchors :
        /\ <<prompt[r], a>> \in Cuts
        /\ pc'[r] = IF Anchor(a) \in Rows THEN "ancestor" ELSE "materialize"
        /\ node' = [node EXCEPT ![r] = Anchor(a)]
    /\ UNCHANGED <<prompt, name, holds, stored, unrecorded>>

\* _materialize_anchor_once makes storage room and evicts what the slot holds.  It gives
\* up before that if the file of the node is there, for a row that was redirected to it.
FreeDefaultSlotOf(r) ==
    /\ FreeDefaultSlot(r)
    /\ \E f \in Pruned(stored) :
        /\ ~Named(f, node[r])
        /\ IF DefaultSlot \in tracked
             THEN stored' \in Evicted(DefaultSlot, f) /\ Forgotten(DefaultSlot)
             ELSE stored' = f /\ UNCHANGED name
    /\ UNCHANGED <<prompt, node, holds, unrecorded>>

SkipMaterializeOf(r) ==
    /\ SkipMaterialize(r)
    /\ stored' \in Pruned(stored)
    /\ UNCHANGED <<prompt, node, name, holds, unrecorded>>

\* The prefill request has no id_slot, and only the count of the saved tokens is
\* compared: the file has the anchor's tokens if the prefill went to DefaultSlot, or
\* as many tokens of another request that was served there.
PrefillOkOf(r) ==
    /\ PrefillOk(r)
    /\ LET n == node[r]
           Saved(c, ok) == stored' = [stored EXCEPT ![n] = [bin |-> n, has |-> c, checked |-> ok]]
       IN /\ name' = [name EXCEPT ![DefaultSlot] = n]
          /\ \/ /\ holds' = [holds EXCEPT ![DefaultSlot] = Text(n)]
                /\ Saved(Text(n), TRUE)
                /\ Settled(DefaultSlot)
             \/ \E c \in Intruding(r), s \in Slots :
                /\ Length[c] = Length[Text(n)]
                /\ holds' = [holds EXCEPT ![s] = Text(n), ![DefaultSlot] = c]
                /\ Saved(c, FALSE)
                /\ unrecorded' = unrecorded \cup {s, DefaultSlot}
    /\ UNCHANGED <<prompt, node>>

\* The erase fails; or it does not and the prefill goes elsewhere or fails.
PrefillFailsOf(r) ==
    /\ PrefillFails(r)
    /\ LET erased == [holds EXCEPT ![DefaultSlot] = Empty]
       IN \/ holds' \in {holds, erased} /\ UNCHANGED unrecorded
          \/ \E s \in Slots :
                /\ holds' = [erased EXCEPT ![s] = Text(node[r])]
                /\ unrecorded' = unrecorded \cup {s}
    /\ UNCHANGED <<prompt, node, name, stored>>

NoMoreAnchorsOf(r) ==
    /\ NoMoreAnchors(r)
    /\ node' = [node EXCEPT ![r] = None]
    /\ UNCHANGED <<prompt, name, holds, stored, unrecorded>>

-----------------------------------------------------------------------------
(* Picking a slot *)

\* The record that is written names the node that the slot has already.  A slot with
\* the row itself is preferred: no ancestor has as many tokens.
AncestorMatchOf(r) ==
    /\ AncestorMatch(r)
    /\ Leads(name[slot'[r]], node[r])
    /\ Exact(r) # {} => slot'[r] \in Exact(r)
    /\ UNCHANGED content

\* The slot's record is set back to the shorter, matched node.
DescendantMatchOf(r) ==
    /\ DescendantMatch(r)
    /\ IF pc'[r] = "acquire"
         THEN /\ Leads(node[r], name[slot'[r]])
              /\ name' = [name EXCEPT ![slot'[r]] = node[r]]
         ELSE /\ \E s \in tracked : busy[s] /\ Leads(node[r], name[s]) /\ MostRecent(s)
              /\ UNCHANGED name
    /\ UNCHANGED <<prompt, node, holds, stored, unrecorded>>

\* Any slot whose node still has a row can be a close relative.
SiblingMatchOf(r) ==
    /\ SiblingMatch(r)
    /\ IF pc'[r] = "restore"
         THEN name[slot'[r]] \in Rows
         ELSE \E s \in tracked : busy[s] /\ name[s] \in Rows /\ MostRecent(s)
    /\ UNCHANGED content

\* A slot with the row itself matches in every way, unless it is busy: as an ancestor
\* it is then passed over.
NoMatchOf(r) ==
    /\ NoMatch(r)
    /\ Exact(r) # {} => pc[r] = "ancestor" /\ \E s \in Exact(r) : busy[s]
    /\ UNCHANGED content

EvictLruOf(r) ==
    /\ EvictLru(r)
    /\ stored' \in Evicted(slot'[r], stored)
    /\ Forgotten(slot'[r])
    /\ UNCHANGED <<prompt, node, holds, unrecorded>>

RestoreOkOf(r) ==
    /\ RestoreOk(r)
    /\ node[r] \in Rows
    /\ holds' = [holds EXCEPT ![slot[r]] = stored[node[r]].has]
    /\ name' = [name EXCEPT ![slot[r]] = node[r]]
    /\ IF stored[node[r]].checked
         THEN Settled(slot[r])
         ELSE unrecorded' = unrecorded \cup {slot[r]}
    /\ UNCHANGED <<prompt, node, stored>>

\* A failed restore may leave the slot empty.  What SlotState says of it stays.
RestoreFailsOf(r) ==
    /\ RestoreFails(r) \/ RetryFails(r)
    /\ \/ UNCHANGED <<holds, unrecorded>>
       \/ /\ holds' = [holds EXCEPT ![slot[r]] = Empty]
          /\ unrecorded' = unrecorded \cup {slot[r]}
    /\ UNCHANGED <<prompt, node, name, stored>>

\* The slot that leaves SlotState was saved and erased (if that worked).
MakeRoomOf(r) ==
    /\ MakeRoom(r)
    /\ \E s \in tracked \ tracked' :
        /\ stored' \in Evicted(s, stored)
        /\ holds' \in {holds, [holds EXCEPT ![s] = Empty]}
        /\ Forgotten(s)
    /\ UNCHANGED <<prompt, node, unrecorded>>

EndRoutingOf(r) ==
    /\ RoutingRaises(r) \/ LeaveRouting(r)
    /\ ContextEnds(r)
    /\ UNCHANGED <<name, holds, stored, unrecorded>>

-----------------------------------------------------------------------------
(* Forwarding and autosave *)

ForwardReturnsOf(r) ==
    /\ ForwardReturns(r)
    /\ \E s \in Serving(r) : Served(r, s)
    /\ UNCHANGED <<prompt, node, name, stored>>

ForwardRaisesOf(r) ==
    /\ ForwardRaises(r)
    /\ \/ \E s \in Serving(r) : Served(r, s) \/ CutOff(r, s)
       \/ UNCHANGED <<holds, unrecorded>>
    /\ ContextEnds(r)
    /\ UNCHANGED <<name, stored>>

\* The checks of autosave on the saved file: how many tokens, and which, unless its
\* token table is unreadable.
Proven(c, t) == c # Empty /\ Length[c] >= Length[t] /\ (Readable => Upto(t, c))

\* _auto_save_prefix_cache of the target slot, or of DefaultSlot when there is none:
\* a row for the prompt, one for verified generated tokens, whichever is missing, and
\* some ancestors that are pointed at the new file.  The file is named after the first
\* new row.  Or nothing is saved, for one of many reasons.
SaveOf(r) ==
    /\ Save(r)
    /\ \E f \in Pruned(stored) :
        \/ stored' = f
        \/ LET t == prompt[r]
               c == holds[IF slot[r] = None THEN DefaultSlot ELSE slot[r]]
               grown == {g \in Texts : Readable /\ <<t, g>> \in Below /\ Upto(g, c)}
           IN /\ Proven(c, t)
              /\ \E g \in {t} \cup grown, ancestors \in SUBSET (Shorter(f, t) \cup {Plain(t)}) :
                    LET new == {Plain(t), Plain(g)} \ RowsOf(f)
                        file == IF Plain(t) \in new THEN Plain(t) ELSE Plain(g)
                    IN /\ new # {} /\ ~Named(f, file)
                       /\ stored' = [n \in Ids |->
                            IF n \in new \cup ancestors
                              THEN [bin |-> file, has |-> c, checked |-> Readable]
                              ELSE f[n]]
    /\ ContextEnds(r)
    /\ UNCHANGED <<name, holds, unrecorded>>

ReleaseOf(r) ==
    /\ Release(r)
    /\ ContextEnds(r)
    /\ UNCHANGED <<name, holds, stored, unrecorded>>

-----------------------------------------------------------------------------
\* Steps that neither read nor change a slot's content or its name.
OnlyLocks(r) ==
    /\ \/ EnterRouting(r) \/ UseIdleSlot(r) \/ NoIdleSlot(r) \/ UseEmptySlot(r)
       \/ NothingToEvict(r) \/ NoRoom(r) \/ Acquire(r) \/ LockSlot(r)
       \/ EnterSave(r)
    /\ UNCHANGED content

ContentStep(r) ==
    \/ ArriveWith(r) \/ Lookup(r) \/ TryAnchorOf(r) \/ NoMoreAnchorsOf(r)
    \/ FreeDefaultSlotOf(r) \/ SkipMaterializeOf(r) \/ PrefillOkOf(r) \/ PrefillFailsOf(r)
    \/ AncestorMatchOf(r) \/ DescendantMatchOf(r) \/ SiblingMatchOf(r) \/ NoMatchOf(r)
    \/ EvictLruOf(r) \/ RestoreOkOf(r) \/ RestoreFailsOf(r) \/ MakeRoomOf(r)
    \/ EndRoutingOf(r) \/ ForwardReturnsOf(r) \/ ForwardRaisesOf(r) \/ SaveOf(r)
    \/ ReleaseOf(r) \/ OnlyLocks(r)

ContentNext == (\E r \in Requests : ContentStep(r)) \/ (AllServed /\ UNCHANGED content)

ContentSpec == ContentInit /\ [][ContentNext]_allVars

-----------------------------------------------------------------------------
(* Properties *)

\* A slot that SlotState names a node for holds at least the tokens of the node,
\* however restores, prefills, generation, evictions and pruning follow each other:
\* unless it was written to by an untargeted or idle-slot request, a request with an
\* anchor that does not begin its prompt, a prefill without id_slot, a failed restore,
\* a restore of a file that was never checked (see below), or a request whose slot was
\* taken away.
NamedContent ==
    \A s \in tracked \ unrecorded : holds[s] # Empty /\ Upto(Text(name[s]), holds[s])

\* While a request has a slot it was routed to with a row, other requests' routing
\* leaves the record of the slot alone: it names that row or one for a prefix of it,
\* unless the slot was taken away.
RecordFitsUser ==
    \A s \in tracked \ stolen : \A r \in Holders(s) :
        node[r] # None => Leads(name[s], node[r])

\* Whichever slot autosave and eviction read, and whichever other row's file a row was
\* pointed at: restoring the row gives its tokens.  Not so if the file was overwritten
\* by an eviction for another row, if an anchor was saved with as many tokens of another
\* request, or if token tables are unreadable.
StoredCoversNode == \A n \in Rows : stored[n].checked => Upto(Text(n), stored[n].has)

\* From the lookup to the last restore, through evictions of other slots and with
\* other requests waiting to save: the row a request was routed with stays.
RoutedRowStays ==
    \A r \in Requests :
        node[r] # None /\ pc[r] \in Picking \cup {"restore", "makeRoom", "retry", "acquire"}
            => node[r] \in Rows

\* Refuted.  _pick_slot_for_restore skips the restore for an "Ancestor match (slot
\* already has a prefix of the matched node)".  A slot in which the backend
\* served a request that was sent without id_slot keeps the name of the node it held before.
SkippedRestoreIsSound ==
    \A r \in Requests :
        pc[r] = "acquire" /\ node[r] # None =>
            holds[slot[r]] # Empty /\ Upto(Text(name[slot[r]]), holds[slot[r]])

=============================================================================
