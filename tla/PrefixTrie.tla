------------------------------- MODULE PrefixTrie -------------------------------
(***************************************************************************)
(* The prefix cache of prefix_cache.py, as lmcache-proxy-on-demand.py and  *)
(* the command line use it: the nodes table of one SQLite database and the *)
(* saved KV files its rows point at.                                       *)
(*                                                                         *)
(* A token sequence is a member of Texts, ordered by Below ("is a strict   *)
(* prefix of").  A node is named by the hash of its tokens, so by its text *)
(* and by whether it is a plain or an anchor node; its own file is named   *)
(* after it, but bin_file may name another node's file.  The content of a  *)
(* file is the token sequence it restores.                                 *)
(*                                                                         *)
(* Processes that share the cache directory (proxies, the command line)    *)
(* run one operation at a time (_cache_lock); each statement on the        *)
(* database and each file operation is a step, except that a row is read   *)
(* and deleted or updated in one.  Sizes are left out: a budget test has   *)
(* either outcome.  So is last_used: lookups touch any node at any time,   *)
(* so any unpinned leaf can be the least recently used one.                *)
(***************************************************************************)
EXTENDS Naturals, FiniteSets

CONSTANTS
    Procs,     \* processes that use the cache directory
    Ops,       \* operations they run: subset of the names in Operations
    Texts,     \* token sequences
    Below,     \* <<s, t>>: s is a strict prefix of t
    Anchors,   \* texts that end at a configured marker
    Faults,    \* may a process be killed, or an operation raise, half way?
    None, Absent, NoFile, NoTxn

Operations == {"save", "evict", "materialize", "add", "prune"}

ASSUME OpsAssumption == Ops \subseteq Operations /\ Faults \in BOOLEAN
ASSUME AnchorsAssumption == Anchors \subseteq Texts
ASSUME BelowAssumption ==
    /\ Below \subseteq Texts \X Texts
    /\ \A t \in Texts : <<t, t>> \notin Below
    /\ \A s, t, u \in Texts : <<s, t>> \in Below /\ <<t, u>> \in Below => <<s, u>> \in Below
    /\ \A s, t, u \in Texts :
        <<s, u>> \in Below /\ <<t, u>> \in Below => s = t \/ <<s, t>> \in Below \/ <<t, s>> \in Below

Upto(s, t) == s = t \/ <<s, t>> \in Below

Ids == ({"plain"} \X Texts) \cup ({"anchor"} \X Anchors)
Plain(t) == <<"plain", t>>
Anchor(t) == <<"anchor", t>>
Text(n) == n[2]

\* A row; for an anchor node, its row field says whether the anchors table has a
\* row for it.  Rows of the anchors table that name prompt nodes are left out.
Node == [parent : Ids \cup {None}, bin : Ids, pinned : BOOLEAN, row : BOOLEAN]
Tables == [Ids -> Node \cup {Absent}]

ASSUME NamesAssumption ==
    /\ None \notin Ids \cup Texts \cup Procs /\ NoFile \notin Texts
    /\ Absent \notin Node /\ NoTxn \notin [owner : Procs, db : Tables]

VARIABLES
    db,    \* the committed nodes table
    txn,   \* the process that has a write transaction open and its uncommitted table
    disk,  \* content of the file named after each node
    job    \* what each process is doing

vars == <<db, txn, disk, job>>

Steps == {"room", "check", "begin", "cascade", "unlink", "rename", "parent", "insert",
          "genParent", "insertGen", "updateStart", "update", "updateCommit", "row",
          "prefill", "addSave", "idle"}

\* The local variables of an operation.
Job == [op : Operations \cup {None}, at : Steps,
        text : Texts \cup {None},      \* prompt tokens, or the anchor's
        gen : Texts \cup {None},       \* verified generated tokens still to insert
        content : Texts \cup {None},   \* tokens in the file being written
        file : Ids \cup {None},        \* node whose own file is being written
        pin : BOOLEAN,
        parent : Ids \cup {None},      \* parent_id as it was read
        cur : Ids \cup {None},         \* cascade: the node to delete or update
        redirect : Ids \cup {None},    \* cascade: redirect_target
        bins : SUBSET Ids]             \* cascade: bins_to_check

NoJob == [op |-> None, at |-> "idle", text |-> None, gen |-> None, content |-> None,
          file |-> None, pin |-> FALSE, parent |-> None, cur |-> None,
          redirect |-> None, bins |-> {}]

TypeOK ==
    /\ db \in Tables
    /\ txn \in [owner : Procs, db : Tables] \cup {NoTxn}
    /\ disk \in [Ids -> Texts \cup {NoFile}]
    /\ job \in [Procs -> Job]

Init ==
    /\ db = [n \in Ids |-> Absent]
    /\ txn = NoTxn
    /\ disk = [n \in Ids |-> NoFile]
    /\ job = [p \in Procs |-> NoJob]

Present(d) == {n \in Ids : d[n] # Absent}
Refs(d, f) == {n \in Present(d) : d[n].bin = f}
Children(d, n) == {m \in Present(d) : d[m].parent = n}
PrunableLeaves(d) == {n \in Present(d) : Children(d, n) = {} /\ ~d[n].pinned}

-----------------------------------------------------------------------------
(* Slips: what the code would do with one plausible mistake in it.  Each one  *)
(* replaces the definition it is named after, to see a property fail.        *)

\* The hash column instead of the id.
ParentForHash(d, t) ==
    LET shorter == {m \in Present(d) : <<Text(m), t>> \in Below}
    IN IF shorter = {} THEN {None} ELSE {Text(m) : m \in shorter}

\* No PRAGMA foreign_keys = ON: nothing becomes of the children of a deleted row,
\* and a row with any parent can be inserted.
CanInsertAny(d, n, parent) == n \notin Present(d)

\* Files unlinked without counting the rows that name them.
UnlinkedAlways(d, f) == [disk EXCEPT ![f] = NoFile]

\* No test whether the file to be written exists.
BinExistsNever(n) == FALSE

\* No db.commit().
CommitPruneForgotten(p) ==
    /\ job[p].at = "unlink"
    /\ job[p].bins = {}
    /\ txn' = NoTxn
    /\ job' = [job EXCEPT ![p].at = "room"]
    /\ UNCHANGED <<db, disk>>

InsertAnchorRowForgotten(p) ==
    /\ job[p].at = "row"
    /\ job' = [job EXCEPT ![p] = NoJob]
    /\ UNCHANGED <<db, txn, disk>>

-----------------------------------------------------------------------------
(* The table and the files. *)

\* parent_for: a node with the longest text that is a strict prefix of t.
ParentFor(d, t) ==
    LET shorter == {m \in Present(d) : <<Text(m), t>> \in Below}
    IN IF shorter = {} THEN {None}
       ELSE {m \in shorter : \A k \in shorter : <<Text(m), Text(k)>> \notin Below}

\* DELETE of a row; ON DELETE SET NULL makes its children roots.
Without(d, n) ==
    [m \in Ids |-> IF m = n THEN Absent
                   ELSE IF m \in Children(d, n) THEN [d[m] EXCEPT !.parent = None]
                   ELSE d[m]]

\* INSERT raises IntegrityError for a second row and for a parent that is gone.
CanInsert(d, n, parent) ==
    n \notin Present(d) /\ (parent # None => parent \in Present(d))

\* Path.exists for the file named after n.
BinExists(n) == disk[n] # NoFile

\* The files once f is unlinked if no row of the table d names it.
Unlinked(d, f) == IF Refs(d, f) = {} THEN [disk EXCEPT ![f] = NoFile] ELSE disk

Row(parent, bin, pin) == [parent |-> parent, bin |-> bin, pinned |-> pin, row |-> FALSE]

\* Updates of the local variables of process p.
At(p, step) == job[p].at = step
Goto(p, step) == job' = [job EXCEPT ![p].at = step]
Done(p) == job' = [job EXCEPT ![p] = NoJob]

-----------------------------------------------------------------------------
(* An operation starts.  Saving and materializing make storage room first. *)

Start(p, op) ==
    /\ At(p, "idle")
    /\ op \in Ops \cap {"save", "prune"}
    /\ job' = [job EXCEPT ![p] = [NoJob EXCEPT !.op = op, !.at = "room"]]
    /\ UNCHANGED <<db, txn, disk>>

\* lookup_materialized_anchor finds a node by its row in the anchors table.
StartMaterialize(p) ==
    /\ At(p, "idle")
    /\ "materialize" \in Ops
    /\ \E text \in Anchors :
        /\ db[Anchor(text)] # Absent => ~db[Anchor(text)].row
        /\ job' = [job EXCEPT ![p] =
            [NoJob EXCEPT !.op = "materialize", !.at = "room", !.text = text]]
    /\ UNCHANGED <<db, txn, disk>>

\* _evict_slot saves the slot's tokens as a node of their own, unless they are
\* one.  It does not ask whether the file it will write exists.
StartEvict(p) ==
    /\ At(p, "idle")
    /\ "evict" \in Ops
    /\ \E s \in Texts :
        /\ db[Plain(s)] = Absent
        /\ job' = [job EXCEPT ![p] =
            [NoJob EXCEPT !.op = "evict", !.at = "rename", !.file = Plain(s), !.content = s]]
    /\ UNCHANGED <<db, txn, disk>>

\* cmd_add reads the parent before the long prefill.
StartAdd(p) ==
    /\ At(p, "idle")
    /\ "add" \in Ops
    /\ \E t \in Texts, pin \in BOOLEAN : \E parent \in ParentFor(db, t) :
        /\ db[Plain(t)] = Absent
        /\ ~BinExists(Plain(t))
        /\ job' = [job EXCEPT ![p] =
            [NoJob EXCEPT !.op = "add", !.at = "addSave", !.file = Plain(t),
                          !.content = t, !.pin = pin, !.parent = parent]]
    /\ UNCHANGED <<db, txn, disk>>

-----------------------------------------------------------------------------
(* prune, prune_global: while over budget, pick an unpinned leaf and delete  *)
(* it and, while still over budget, its ancestors.                           *)

PickVictim(p) ==
    /\ At(p, "room")
    /\ \E n \in PrunableLeaves(db) :
        job' = [job EXCEPT ![p].at = "begin", ![p].cur = n]
    /\ UNCHANGED <<db, txn, disk>>

\* Under budget, or (prune: done) nothing to remove.
RoomMade(p) ==
    /\ At(p, "room")
    /\ IF job[p].op = "prune" THEN Done(p) ELSE Goto(p, "check")
    /\ UNCHANGED <<db, txn, disk>>

NoRoom(p) ==
    /\ At(p, "room")
    /\ Done(p)
    /\ UNCHANGED <<db, txn, disk>>

\* One round of the cascade in the uncommitted table d: delete the node, remember
\* its file; a parent that has other children is pointed at a surviving child's
\* file; under budget the cascade ends, over budget the parent is next.
CascadeFrom(p, d) ==
    LET n == job[p].cur
        parent == d[n].parent
        d1 == Without(d, n)
        siblings == Children(d1, parent)
        Round(d2, target) ==
            /\ txn' = [owner |-> p, db |-> d2]
            /\ \E step \in IF parent = None THEN {"unlink"} ELSE {"unlink", "cascade"} :
                job' = [job EXCEPT ![p].at = step,
                                   ![p].cur = IF step = "cascade" THEN parent ELSE None,
                                   ![p].redirect = IF step = "cascade" THEN target ELSE None,
                                   ![p].bins = @ \cup {d[n].bin}]
    IN IF parent = None \/ siblings = {}
         THEN Round(d1, job[p].redirect)
         ELSE \E target \in IF job[p].redirect # None THEN {job[p].redirect}
                            ELSE {d1[c].bin : c \in siblings} :
                Round([d1 EXCEPT ![parent].bin = target], target)

\* The first DELETE opens the transaction, if the leaf is still there.
BeginCascade(p) ==
    /\ At(p, "begin")
    /\ IF db[job[p].cur] = Absent
         THEN /\ job' = [job EXCEPT ![p].at = "room", ![p].cur = None]
              /\ UNCHANGED txn
         ELSE txn = NoTxn /\ CascadeFrom(p, db)
    /\ UNCHANGED <<db, disk>>

Cascade(p) ==
    /\ At(p, "cascade")
    /\ CascadeFrom(p, txn.db)
    /\ UNCHANGED <<db, disk>>

\* Files of deleted nodes that no row names any more are unlinked before commit.
UnlinkBin(p) ==
    /\ At(p, "unlink")
    /\ \E f \in job[p].bins :
        /\ job' = [job EXCEPT ![p].bins = @ \ {f}]
        /\ disk' = Unlinked(txn.db, f)
    /\ UNCHANGED <<db, txn>>

CommitPrune(p) ==
    /\ At(p, "unlink")
    /\ job[p].bins = {}
    /\ db' = txn.db
    /\ txn' = NoTxn
    /\ Goto(p, "room")
    /\ UNCHANGED disk

-----------------------------------------------------------------------------
(* Writing a node: the checks of each operation, then file and row. *)

\* _auto_save_prefix_cache: the slot holds the tokens of content, which start with
\* the prompt; generated tokens are verified up to gen.  The primary file is that
\* of the first of the two nodes that is missing.
SaveCheck(p) ==
    /\ At(p, "check")
    /\ job[p].op = "save"
    /\ \E text, content \in Texts, gen \in Texts \cup {None} :
        LET newGen == gen # None /\ db[Plain(gen)] = Absent
            file == IF db[Plain(text)] = Absent THEN Plain(text) ELSE Plain(gen)
        IN /\ Upto(text, content)
           /\ gen # None => <<text, gen>> \in Below /\ Upto(gen, content)
           /\ IF (db[Plain(text)] # Absent /\ ~newGen) \/ BinExists(file)
                THEN Done(p)
                ELSE job' = [job EXCEPT ![p] =
                        [@ EXCEPT !.at = "rename", !.text = text, !.content = content,
                                  !.file = file, !.gen = IF newGen THEN gen ELSE None]]
    /\ UNCHANGED <<db, txn, disk>>

\* _materialize_anchor_once.  Before it erases the slot it may have to evict it.
MaterializeCheck(p) ==
    /\ At(p, "check")
    /\ job[p].op = "materialize"
    /\ LET n == Anchor(job[p].text)
       IN IF db[n] # Absent \/ BinExists(n)
            THEN Done(p)
            ELSE \E pin \in BOOLEAN :
                \/ job' = [job EXCEPT ![p].at = "prefill", ![p].pin = pin]
                \/ \E s \in Texts :
                    /\ "evict" \in Ops
                    /\ db[Plain(s)] = Absent
                    /\ job' = [job EXCEPT ![p] = [@ EXCEPT !.at = "rename", !.pin = pin,
                                                  !.file = Plain(s), !.content = s]]
    /\ UNCHANGED <<db, txn, disk>>

Prefill(p) ==
    /\ At(p, "prefill")
    /\ \/ job' = [job EXCEPT ![p].at = "rename", ![p].file = Anchor(job[p].text),
                             ![p].content = job[p].text]
       \/ Done(p)
    /\ UNCHANGED <<db, txn, disk>>

\* The temporary file gets its final name, over whatever has that name.
Rename(p) ==
    /\ At(p, "rename")
    /\ disk' = [disk EXCEPT ![job[p].file] = job[p].content]
    /\ Goto(p, IF job[p].op = "save" /\ job[p].file # Plain(job[p].text)
                 THEN "genParent" ELSE "parent")
    /\ UNCHANGED <<db, txn>>

\* cmd_add has the backend write the final file directly.  A wrong token count
\* removes it again.
AddSave(p) ==
    /\ At(p, "addSave")
    /\ \/ /\ disk' = [disk EXCEPT ![job[p].file] = job[p].content]
          /\ Goto(p, "insert")
       \/ /\ disk' = [disk EXCEPT ![job[p].file] = NoFile]
          /\ Done(p)
    /\ UNCHANGED <<db, txn>>

FindParent(p) ==
    /\ At(p, "parent")
    /\ \E parent \in ParentFor(db, Text(job[p].file)) :
        job' = [job EXCEPT ![p].at = "insert", ![p].parent = parent]
    /\ UNCHANGED <<db, txn, disk>>

\* insert_node.  An IntegrityError ends the operation; the file stays.
Insert(p) ==
    /\ At(p, "insert")
    /\ txn = NoTxn
    /\ LET j == job[p]
           evicted == j.op = "evict" \/ (j.op = "materialize" /\ j.file # Anchor(j.text))
           next == CASE j.op = "save" -> IF j.gen # None THEN "genParent" ELSE "updateStart"
                     [] j.op = "materialize" -> IF evicted THEN "prefill" ELSE "row"
                     [] OTHER -> "idle"
       IN IF CanInsert(db, j.file, j.parent)
            THEN /\ db' = [db EXCEPT ![j.file] = Row(j.parent, j.file, j.pin /\ ~evicted)]
                 /\ IF next = "idle" THEN Done(p) ELSE Goto(p, next)
            ELSE Done(p) /\ UNCHANGED db
    /\ UNCHANGED <<txn, disk>>

\* insert_anchor for the new anchor node.
InsertAnchorRow(p) ==
    /\ At(p, "row")
    /\ txn = NoTxn
    /\ db' = IF db[job[p].file] = Absent THEN db ELSE [db EXCEPT ![job[p].file].row = TRUE]
    /\ Done(p)
    /\ UNCHANGED <<txn, disk>>

\* The generated node: its parent is the prompt node, if that is (still) there.
FindGenParent(p) ==
    /\ At(p, "genParent")
    /\ LET prompt == Plain(job[p].text)
       IN \E parent \in IF db[prompt] # Absent THEN {prompt} ELSE ParentFor(db, job[p].gen) :
            job' = [job EXCEPT ![p].at = "insertGen", ![p].parent = parent]
    /\ UNCHANGED <<db, txn, disk>>

InsertGen(p) ==
    /\ At(p, "insertGen")
    /\ txn = NoTxn
    /\ LET j == job[p]
       IN IF CanInsert(db, Plain(j.gen), j.parent)
            THEN /\ db' = [db EXCEPT ![Plain(j.gen)] = Row(j.parent, j.file, FALSE)]
                 /\ Goto(p, "updateStart")
            ELSE Done(p) /\ UNCHANGED db
    /\ UNCHANGED <<txn, disk>>

-----------------------------------------------------------------------------
(* update_ancestors_bin: every ancestor of the new primary node is pointed *)
(* at the new file, one transaction each.                                 *)

UpdateStart(p) ==
    /\ At(p, "updateStart")
    /\ LET n == job[p].file
       IN job' = [job EXCEPT ![p].at = "update",
                             ![p].parent = IF db[n] = Absent THEN None ELSE db[n].parent]
    /\ UNCHANGED <<db, txn, disk>>

\* The old file of the ancestor is unlinked before commit if nobody names it.
UpdateAncestor(p) ==
    /\ At(p, "update")
    /\ LET n == job[p].parent
           file == job[p].file
       IN IF n = None \/ db[n] = Absent
            THEN Done(p) /\ UNCHANGED <<txn, disk>>
          ELSE IF db[n].bin = file
            THEN /\ job' = [job EXCEPT ![p].parent = db[n].parent]
                 /\ UNCHANGED <<txn, disk>>
          ELSE LET d == [db EXCEPT ![n].bin = file]
               IN /\ txn = NoTxn
                  /\ txn' = [owner |-> p, db |-> d]
                  /\ disk' = Unlinked(d, db[n].bin)
                  /\ Goto(p, "updateCommit")
    /\ UNCHANGED db

UpdateCommit(p) ==
    /\ At(p, "updateCommit")
    /\ db' = txn.db
    /\ txn' = NoTxn
    /\ job' = [job EXCEPT ![p].at = "update", ![p].parent = txn.db[job[p].parent].parent]
    /\ UNCHANGED disk

-----------------------------------------------------------------------------
\* The process is killed, or the operation raises (a locked database, a full
\* disk): an open transaction is rolled back, files stay as they are.
Fail(p) ==
    /\ Faults
    /\ ~At(p, "idle")
    /\ Done(p)
    /\ txn' = IF txn # NoTxn /\ txn.owner = p THEN NoTxn ELSE txn
    /\ UNCHANGED <<db, disk>>

Prune(p) ==
    \/ PickVictim(p) \/ RoomMade(p) \/ NoRoom(p)
    \/ BeginCascade(p) \/ Cascade(p) \/ UnlinkBin(p) \/ CommitPrune(p)

Write(p) ==
    \/ SaveCheck(p) \/ MaterializeCheck(p) \/ Prefill(p) \/ Rename(p) \/ AddSave(p)
    \/ FindParent(p) \/ Insert(p) \/ InsertAnchorRow(p) \/ FindGenParent(p) \/ InsertGen(p)
    \/ UpdateStart(p) \/ UpdateAncestor(p) \/ UpdateCommit(p)

Begin(p) ==
    (\E op \in Ops : Start(p, op)) \/ StartMaterialize(p) \/ StartEvict(p) \/ StartAdd(p)

Next == \E p \in Procs : Begin(p) \/ Prune(p) \/ Write(p) \/ Fail(p)

Spec == Init /\ [][Next]_vars

\* A process that is in an operation takes its next step; nobody need start one.
FairSpec == Spec /\ \A p \in Procs : WF_vars(Prune(p) \/ Write(p))

-----------------------------------------------------------------------------
(* Properties *)

\* The table as the writer sees it: the open transaction's, else the committed one.
Current == IF txn = NoTxn THEN db ELSE txn.db

\* The chains of parent_id that _pick_slot_for_restore and update_ancestors_bin walk
\* without a bound are finite, and every node on one is a prefix of the one before:
\* also after a parent was deleted between parent_for and insert_node.
ParentIsPrefix ==
    \A n \in Present(Current) :
        LET parent == Current[n].parent
        IN parent # None =>
            parent \in Present(Current) /\ <<Text(parent), Text(n)>> \in Below

\* Whatever redirects, shared files and deletions happened: a file a row names
\* restores at least the tokens of that row.
BinCoversNode ==
    \A n \in Present(Current) :
        LET content == disk[Current[n].bin]
        IN content # NoFile => Upto(Text(n), content)

\* A row names a file that is there: the last reference to a file goes before the
\* file does.
NoDanglingRow ==
    \A n \in Present(Current) : disk[Current[n].bin] # NoFile

AllIdle == \A p \in Procs : At(p, "idle")

\* Between operations an anchor node has its row in the anchors table: without it
\* no lookup finds the node and no request ever materializes it again.
AnchorsAreIndexed ==
    AllIdle => \A t \in Anchors : db[Anchor(t)] # Absent => db[Anchor(t)].row

\* Every operation ends: walks up the parents and rounds of pruning are finite.
OperationsFinish == \A p \in Procs : ~At(p, "idle") ~> At(p, "idle")

\* Refuted.  README.md: "unpinned leaf nodes are pruned by LRU".  The cascade looks
\* neither at the pinned column of an ancestor nor at its other children.
OnlyUnpinnedLeavesGo ==
    [][\A n \in Present(db) \ Present(db') :
        ~db[n].pinned /\ Children(db, n) \cap Present(db') = {}]_vars

=============================================================================
