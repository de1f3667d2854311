----------------------------- MODULE StorageBudget -----------------------------
(***************************************************************************)
(* How much the prefix caches may store: _ensure_storage_room of the       *)
(* on-demand proxy over prune_global, which deletes rows of every cache    *)
(* directory under one root, and the prune command on one directory.       *)
(*                                                                         *)
(* PrefixTrie models one directory without sizes, statement by statement.  *)
(* Here there are several directories, rows and files have sizes, the      *)
(* budget tests are the code's, and what others do between two statements  *)
(* is left out.  A row counts with the size_bytes it was inserted with; a  *)
(* file has the size it was saved with.  Lookups renew last_used in any    *)
(* order, so any unpinned leaf can be the least recently used one.         *)
(***************************************************************************)
EXTENDS Naturals, FiniteSets

CONSTANTS
    Nodes,      \* the nodes of all directories
    Directory,  \* the directory each node belongs to
    Below,      \* <<m, n>>: m is a node for a strict prefix of that of n
    Sizes,      \* sizes of saved files
    Reserves,   \* room an autosave asks for: 0 when nothing can be estimated
    MaxBytes,   \* LMCacheHandler.max_cache_bytes
    MinFree,    \* LMCacheHandler.min_free_bytes
    Capacity,   \* bytes of the filesystem that are free or cache files
    Limits,     \* --max-bytes and --max-nodes of the prune command
    None, Absent

Directories == {Directory[n] : n \in Nodes}

ASSUME NodesAssumption == IsFiniteSet(Nodes) /\ None \notin Nodes
ASSUME SizesAssumption == Sizes \subseteq Nat \ {0} /\ Reserves \subseteq Nat /\ Limits \subseteq Nat
ASSUME LimitsAssumption == {MaxBytes, MinFree, Capacity} \subseteq Nat
ASSUME BudgetsAreNotNone == None \notin Limits \cup 0 .. MaxBytes
ASSUME BelowAssumption ==
    /\ Below \subseteq Nodes \X Nodes
    /\ \A n \in Nodes : <<n, n>> \notin Below
    /\ \A k, m, n \in Nodes : <<k, m>> \in Below /\ <<m, n>> \in Below => <<k, n>> \in Below
ASSUME BelowInDirectory == \A p \in Below : Directory[p[1]] = Directory[p[2]]

VARIABLES
    rows,   \* the nodes tables
    files,  \* size of the file named after each node, 0 if there is none
    job     \* the prune_global, prune or _ensure_storage_room that runs

vars == <<rows, files, job>>

Row == [parent : Nodes \cup {None}, bin : Nodes, size : Sizes, pinned : BOOLEAN]

ASSUME AbsentAssumption == Absent \notin Row

Steps == {"idle", "prune", "cascade", "unlink", "free", "granted", "refused"}

Job == [at : Steps,
        goal : {"command", "budget", "disk"},  \* who called the pruner
        scope : SUBSET Nodes,                  \* nodes of the directories it prunes
        maxBytes : Nat \cup {None},
        maxNodes : Nat \cup {None},
        reserve : Nat,                         \* reserve_bytes
        removed : BOOLEAN,                     \* is the result non-empty?
        cur : Nodes \cup {None},
        redirect : Nodes \cup {None},          \* redirect_target
        bins : SUBSET Nodes]                   \* bins_to_check

NoJob == [at |-> "idle", goal |-> "command", scope |-> {}, maxBytes |-> None,
          maxNodes |-> None, reserve |-> 0, removed |-> FALSE, cur |-> None,
          redirect |-> None, bins |-> {}]

TypeOK ==
    /\ rows \in [Nodes -> Row \cup {Absent}]
    /\ files \in [Nodes -> Sizes \cup {0}]
    /\ job \in Job

Init ==
    /\ rows = [n \in Nodes |-> Absent]
    /\ files = [n \in Nodes |-> 0]
    /\ job = NoJob

-----------------------------------------------------------------------------
(* The tables and what they add up to. *)

Present(t) == {n \in Nodes : t[n] # Absent}
Children(t, n) == {m \in Present(t) : t[m].parent = n}
Named(t, S) == {t[n].bin : n \in Present(t) \cap S}
In(d) == {n \in Nodes : Directory[n] = d}

\* The bytes of a file of that size.
Bytes(file, size) == {file} \X (1 .. size)

\* _total_bytes_in_db: a file counts once, with the largest size_bytes of the rows
\* that name it.  The size_bytes of a row never changes.
Counted(t, S) == Cardinality(UNION {Bytes(t[n].bin, t[n].size) : n \in Present(t) \cap S})

Stored == Cardinality(UNION {Bytes(f, files[f]) : f \in Nodes})
Free == Capacity - Stored

Exceeds(t, S, maxBytes, maxNodes) ==
    \/ maxBytes # None /\ Counted(t, S) > maxBytes
    \/ maxNodes # None /\ Cardinality(Present(t) \cap S) > maxNodes

\* Candidates: unpinned leaves.
Prunable(t, S) == {n \in Present(t) \cap S : Children(t, n) = {} /\ ~t[n].pinned}

\* DELETE with ON DELETE SET NULL.
Without(t, n) ==
    [m \in Nodes |-> IF m = n THEN Absent
                     ELSE IF m \in Children(t, n) THEN [t[m] EXCEPT !.parent = None]
                     ELSE t[m]]

\* parent_for: the longest strict prefix with a row.
ParentFor(t, n) ==
    LET shorter == {m \in Present(t) : <<m, n>> \in Below}
    IN IF shorter = {} THEN None
       ELSE CHOOSE m \in shorter : \A k \in shorter : <<m, k>> \notin Below

\* The ancestors of a row: what is in every set of rows that holds it and the parent
\* of each of its members.
Ancestors(t, n) ==
    LET Closed(S) == \A m \in S : t[m].parent \in S \cup {None}
    IN {m \in Present(t) \ {n} : \A S \in SUBSET Present(t) : n \in S /\ Closed(S) => m \in S}

\* Of the files in S, those no row names are unlinked.
Unlinked(t, S) == [f \in Nodes |-> IF f \in S \ Named(t, Nodes) THEN 0 ELSE files[f]]

At(step) == job.at = step

-----------------------------------------------------------------------------
(* Slips: what the code would do with one plausible mistake in it.  Each one  *)
(* replaces the definition it is named after, to see a property fail.        *)

\* No max(..., 0).
TargetUnclamped(reserve) == MaxBytes - reserve

\* The totals from before the deletion.
GoesOnStale(t, n, parent) ==
    parent # None /\ Exceeds(rows, In(Directory[n]), job.maxBytes, job.maxNodes)

\* What the pruner achieved is not looked at.
BudgetUnchecked ==
    /\ At("prune")
    /\ job.goal = "budget"
    /\ ~Exceeds(rows, job.scope, job.maxBytes, job.maxNodes) \/ Prunable(rows, job.scope) = {}
    /\ job' = [job EXCEPT !.at = "free"]
    /\ UNCHANGED <<rows, files>>

\* Too little free space refuses at once, instead of pruning for it.
FreeOnce ==
    /\ At("free")
    /\ job' = [job EXCEPT !.at = IF Free >= MinFree + job.reserve THEN "granted" ELSE "refused"]
    /\ UNCHANGED <<rows, files>>

\* Whether the pruner removed anything is not looked at.
RemovedUnchecked ==
    /\ At("prune")
    /\ job.goal = "disk"
    /\ ~Exceeds(rows, job.scope, job.maxBytes, job.maxNodes) \/ Prunable(rows, job.scope) = {}
    /\ job' = [job EXCEPT !.at = "free"]
    /\ UNCHANGED <<rows, files>>

-----------------------------------------------------------------------------
(* _ensure_storage_room and the prune command start. *)

\* The budget of the proxy, less what the save will need.
Target(reserve) == IF reserve < MaxBytes THEN MaxBytes - reserve ELSE 0

MakeRoom(reserve) ==
    /\ At("idle")
    /\ job' = [NoJob EXCEPT !.at = "prune", !.goal = "budget", !.scope = Nodes,
                            !.reserve = reserve, !.maxBytes = Target(reserve)]
    /\ UNCHANGED <<rows, files>>

CommandPrune(d, maxBytes, maxNodes) ==
    /\ At("idle")
    /\ job' = [NoJob EXCEPT !.at = "prune", !.scope = In(d),
                            !.maxBytes = maxBytes, !.maxNodes = maxNodes]
    /\ UNCHANGED <<rows, files>>

-----------------------------------------------------------------------------
(* prune_global, prune: while over a limit, delete an unpinned leaf and, as *)
(* long as its own directory is over that limit, its ancestors.            *)

PickVictim ==
    /\ At("prune")
    /\ Exceeds(rows, job.scope, job.maxBytes, job.maxNodes)
    /\ \E n \in Prunable(rows, job.scope) :
        job' = [job EXCEPT !.at = "cascade", !.cur = n, !.removed = TRUE]
    /\ UNCHANGED <<rows, files>>

\* Whether the parent goes too: the totals of its own directory are over the limit.
GoesOn(t, n, parent) ==
    parent # None /\ Exceeds(t, In(Directory[n]), job.maxBytes, job.maxNodes)

\* One round: the node goes, and a parent with other children takes over a file of
\* one of them.
Cascade ==
    /\ At("cascade")
    /\ LET n == job.cur
           parent == rows[n].parent
           t == Without(rows, n)
           siblings == Children(t, parent)
           Round(t2, target) ==
            LET more == GoesOn(t2, n, parent)
            IN /\ rows' = t2
               /\ job' = [job EXCEPT !.at = IF more THEN "cascade" ELSE "unlink",
                                     !.cur = IF more THEN parent ELSE None,
                                     !.redirect = IF more THEN target ELSE None,
                                     !.bins = @ \cup {rows[n].bin}]
       IN IF parent = None \/ siblings = {}
            THEN Round(t, job.redirect)
            ELSE \E target \in IF job.redirect # None THEN {job.redirect}
                               ELSE {t[m].bin : m \in siblings} :
                    Round([t EXCEPT ![parent].bin = target], target)
    /\ UNCHANGED files

UnlinkBins ==
    /\ At("unlink")
    /\ files' = Unlinked(rows, job.bins)
    /\ job' = [job EXCEPT !.at = "prune", !.bins = {}]
    /\ UNCHANGED rows

\* Within the limits, or nothing left to delete.
PruneEnds ==
    /\ At("prune")
    /\ \/ ~Exceeds(rows, job.scope, job.maxBytes, job.maxNodes)
       \/ Prunable(rows, job.scope) = {}

CommandEnds ==
    /\ PruneEnds
    /\ job.goal = "command"
    /\ job' = NoJob
    /\ UNCHANGED <<rows, files>>

-----------------------------------------------------------------------------
(* _ensure_storage_room goes on with what the pruner achieved. *)

CheckBudget ==
    /\ PruneEnds
    /\ job.goal = "budget"
    /\ job' = [job EXCEPT !.at = IF Counted(rows, Nodes) + job.reserve > MaxBytes
                                   THEN "refused" ELSE "free"]
    /\ UNCHANGED <<rows, files>>

\* Free disk space, or a little less of what is counted until there is.
CheckFree ==
    /\ At("free")
    /\ LET total == Counted(rows, Nodes)
       IN job' = IF Free >= MinFree + job.reserve THEN [job EXCEPT !.at = "granted"]
                 ELSE IF total = 0 THEN [job EXCEPT !.at = "refused"]
                 ELSE [job EXCEPT !.at = "prune", !.goal = "disk", !.removed = FALSE,
                                  !.maxBytes = total - 1]
    /\ UNCHANGED <<rows, files>>

CheckRemoved ==
    /\ PruneEnds
    /\ job.goal = "disk"
    /\ job' = [job EXCEPT !.at = IF job.removed THEN "free" ELSE "refused"]
    /\ UNCHANGED <<rows, files>>

\* The caller does not save, or the save fails.
GiveUp ==
    /\ job.at \in {"granted", "refused"}
    /\ job' = NoJob
    /\ UNCHANGED <<rows, files>>

-----------------------------------------------------------------------------
(* Files are saved. *)

CanSave(n, size) == rows[n] = Absent /\ files[n] = 0 /\ size <= Free

NewRow(t, n, file, size, pinned) ==
    [t EXCEPT ![n] = [parent |-> ParentFor(t, n), bin |-> file,
                      size |-> size, pinned |-> pinned]]

\* _auto_save_prefix_cache: a prompt node, with or without the node of a verified
\* response, or that node alone.  update_ancestors_bin then points every ancestor
\* at the new file and unlinks the files that nobody names any more.
Autosave(n, generated, size) ==
    /\ At("granted")
    /\ CanSave(n, size)
    /\ generated # None => <<n, generated>> \in Below /\ rows[generated] = Absent
    /\ LET t == NewRow(rows, n, n, size, FALSE)
           both == IF generated = None THEN t
                   ELSE [t EXCEPT ![generated] = [parent |-> n, bin |-> n,
                                                  size |-> size, pinned |-> FALSE]]
           above == Ancestors(both, n)
       IN /\ rows' = [m \in Nodes |-> IF m \in above THEN [both[m] EXCEPT !.bin = n]
                                      ELSE both[m]]
          /\ files' = [Unlinked(rows', Named(rows, above)) EXCEPT ![n] = size]
    /\ job' = NoJob

\* _materialize_anchor_once, once it has room; cmd_add and _evict_slot, which do not
\* ask for any.  Ancestors keep their files.
Add(n, size, pinned) ==
    /\ job.at \in {"idle", "granted"}
    /\ CanSave(n, size)
    /\ rows' = NewRow(rows, n, n, size, pinned)
    /\ files' = [files EXCEPT ![n] = size]
    /\ job' = NoJob

-----------------------------------------------------------------------------
Prune ==
    \/ PickVictim \/ Cascade \/ UnlinkBins \/ CommandEnds
    \/ CheckBudget \/ CheckFree \/ CheckRemoved

Use ==
    \/ \E reserve \in Reserves : MakeRoom(reserve)
    \/ \E d \in Directories, b, k \in Limits \cup {None} : CommandPrune(d, b, k)
    \/ \E n \in Nodes, g \in Nodes \cup {None}, size \in Sizes : Autosave(n, g, size)
    \/ \E n \in Nodes, size \in Sizes, pinned \in BOOLEAN : Add(n, size, pinned)
    \/ GiveUp

Next == Prune \/ Use

Spec == Init /\ [][Next]_vars

\* The thread that makes room goes on with it.
FairSpec == Spec /\ WF_vars(Prune)

-----------------------------------------------------------------------------
(* Properties *)

\* The cascade compares the totals of one directory with a limit for all of them.
\* Still no row is deleted while everything in the scope of the pruner is within
\* the limits: a directory over the limit implies a scope over the limit.
NoNeedlessDeletion ==
    [][Present(rows') # Present(rows) /\ At("cascade")
        => Exceeds(rows, job.scope, job.maxBytes, job.maxNodes)]_vars

\* A caller that was granted room has it, after everything the second loop deleted: on
\* the disk, and within the budget by what is counted.  The second loop does not look
\* at the budget again, and a redirect can raise what is counted: an ancestor takes its
\* own size_bytes to the file of a smaller row.  So the budget may be exceeded, but only
\* when the second loop ran and left nothing to delete.
RoomIsReal ==
    At("granted") =>
        /\ Free >= MinFree + job.reserve
        /\ \/ Counted(rows, Nodes) + job.reserve <= MaxBytes
           \/ job.goal = "disk" /\ Prunable(rows, Nodes) = {}

\* An autosave is refused only when there is nothing left that could be deleted.
RefusedOnlyWhenEmpty == At("refused") => Prunable(rows, Nodes) = {}

\* Making room ends, although a redirect can raise what is counted.
RoomMakingEnds == At("prune") ~> job.at \in {"idle", "granted", "refused"}

\* Refuted.  README.md calls PREFIX_CACHE_MAX_BYTES the "Global trie-backed
\* prefix-cache size limit across cache subdirectories".  A deleted row takes its
\* size_bytes with it while an ancestor goes on naming its file.
BudgetBoundsDisk ==
    At("granted") => Stored + job.reserve <= MaxBytes

=============================================================================
