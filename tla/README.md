# llm-cache-llama.cpp in TLA+

Models, model-checking runs and machine-checked proofs for the slot-aware
caching proxy in front of `llama-server` (`lmcache-proxy-on-demand.py`) and its
prefix cache (`prefix_cache.py`). All paths and line numbers are relative to the
repository root.

## The system

| Part | State | Operations | Interacts with |
|---|---|---|---|
| On-demand proxy, request handling (`lmcache-proxy-on-demand.py`, `LMCacheHandler`) | one thread per connection; `_cache_lock` | `_handle_request`: route under `_cache_lock`, forward, autosave under `_cache_lock`, release | every part below |
| `SlotState` (lines 169-271) | per slot: node, token count, time, busy flag, lock | `record`, `touch`, `forget`, `lru_slot`, `acquire_slot`, `release_slot` | called by routing, eviction, materialization, the request's `finally` |
| Slot content | the backend's slots, what `SlotState` says of them, what the files hold | restore, prefill, forward, evict, save | proxy, backend, prefix cache |
| Prefix cache (`prefix_cache.py`, `PrefixCache`) | SQLite tables `nodes`, `anchors`, `anchor_configs`; `prefix_node_*.bin` files | `lookup`, `insert_node`, `insert_anchor`, `update_ancestors_bin`, `prune`, `prune_global` | proxies and the command line, several processes at once |
| Writers of the cache | local variables | `_auto_save_prefix_cache`, `_evict_slot`, `_materialize_anchor_once`, `cmd_add` | backend saves files, cache gets rows |
| Storage budget | none of its own | `_ensure_storage_room`, `prune_global`, `estimate_save_size_bytes` | all caches under one root |
| Prompt rendering and verification | the request's context | `_request_cache_context`, `_maybe_apply_exact_prefix_newline_workaround`, `_anchors_for_prompt`, `_find_marker_boundary`, `lookup`, `_verified_generated_prefix_tokens` | backend's `/apply-template`, `/tokenize` |
| Stack supervisor (`run-lmcache-proxy-stack.sh`) | pids, pid files | start, health wait, monitor loop, trap | the two processes, other supervisors |
| Whole-prompt cache (`KVCache`, lines 33-81) | none | lookup of files made by hand | used without the prefix cache only |
| Legacy proxy (`lmcache-proxy.py`) | a slot map and a background thread | `try_disk_cache`, `_loop` | not started by any script |
| Launchers (`_llama-engine.sh`, `run-*.sh`, `services/`) | environment | start the stack | - |
| llama.cpp server | slots and their KV contents | save, restore, erase, complete | external |

What is hard in it:

* Requests run concurrently. Routing and autosave are serialised by
  `_cache_lock`, but `release_slot` is not: it can fall between any two steps of
  another request's routing. Routing may `forget` a slot that is in use, which
  destroys its flag and its lock under the user's feet.
* `acquire_slot` is not atomic, and blocks with `_cache_lock` held.
* `SlotState` names the node that routing put into a slot. Requests without a target
  slot, idle-slot requests and prefills without `id_slot` change the slot behind it.
* An anchor's tokens need not begin the prompt's, and a materialized file is compared
  with them by their number only.
* A saved file is shared by several rows, its name belongs to one of them, and
  redirects, cascades and evictions change who names what. Files and rows are
  changed one after the other; a process can die in between.
* Several proxies and the command line use one cache directory with nothing but
  SQLite transactions between them.
* What the budget counts is not what the disk holds: rows keep the size they were
  inserted with while their file changes.
* A tokenizer may merge what stands on both sides of any place, so neither an appended
  newline, nor a cut at a marker, nor the text of a response has the tokens one expects.
* A signal can reach the supervisor between any two commands, twice too, and another
  supervisor may use the same ports and pid files.

What makes each part correct:

* Slots: one user per slot; the lock order admits no deadlock; a slot is released
  in every outcome; a slot that lost its lock recovers.
* Slot content: a slot holds at least what its record names; a restore is skipped only
  if that is so; a row that was looked up is not pruned before it is restored.
* Trie: a parent is a strict prefix of its child (parent walks end); the file a
  row names is there and restores at least the row's tokens; no file is left over;
  an anchor node can be found; pruning respects pins and spares what is needed.
* Budget: loops end; room that is granted is there; it is refused only for want of
  something to delete; what is counted is what is on disk.
* Prompts: restores are strict prefixes of what is sent; the newline and the anchors
  find what they are for; a generated node has only tokens the client will send again.
* Supervisor: no process and no pid file is left behind, and no half of the stack.

## Modules

| Module | Models | Extends / instantiates |
|---|---|---|
| `SlotLocks` | `SlotState` and `_handle_request` in multi-slot mode | `SlotLease` (refined) |
| `SlotLease` | what the locking promises: an exclusive, revocable lease | - |
| `SlotLocksProofs` | theorems about `SlotLocks` | `SlotLocks` |
| `SlotContent` | what slots, `SlotState` and files hold, step by step along `SlotLocks` | `SlotLocks` |
| `SlotContentProofs` | theorems about `SlotContent` | `SlotContent`, `SlotLocksProofs` |
| `PrefixTrie` | nodes table, files, and every operation that writes them | - |
| `PrefixTrieProofs` | its types and its tree | `PrefixTrie` |
| `PrefixTrieFileProofs` | its files | `PrefixTrieProofs` |
| `PrefixTrieIndexProofs` | its index of anchors | `PrefixTrieProofs` |
| `StorageBudget` | `_ensure_storage_room`, `prune_global`, `prune` over several directories, with sizes | - |
| `StorageBudgetProofs` | theorems about `StorageBudget` | `StorageBudget` |
| `PromptTokens` | from a request's text to what the cache is asked for and given | - |
| `PromptTokensProofs` | theorems about `PromptTokens` | `PromptTokens` |
| `StackSupervisor` | the supervisor script and its two children | - |
| `StackSupervisorProofs` | theorems about `StackSupervisor` | `StackSupervisor` |
| `MCSlotLocks`, `MCSlotContent`, `MCPrefixTrie`, `MCStorageBudget`, `MCPromptTokens` | instances for TLC | the module named |

### SlotLocks

A request's program counter `pc` names where its thread is in `_handle_request`,
`_lookup_and_restore_prefix` and `_pick_slot_for_restore`. A step ends where
another thread can come between: at every use of `_cache_lock`, of
`SlotState._lock` and of a slot's lock, and at backend calls.

* `cacheLock` is `_cache_lock`; `busy` and `lock` are `_slot_busy` and
  `_slot_locks` (`NoLock`: no entry); `tracked` is the key set of
  `_slot_node_id`; `older` orders `_slot_time`; `small` are slots with fewer
  than 10000 tokens (`_try_make_room_for` prefers them).
* `stolen` is a history variable: the slots that were forgotten while somebody
  used them, until all users have left. It only serves the properties.
* What the cache contains is abstracted: a lookup hits or misses, a slot matches
  as ancestor, descendant or sibling, a restore succeeds or fails, `/slots`
  reports any set of slots idle. Each choice is one the code can make; which of
  them are possible together is the subject of `SlotContent`, whose steps are all
  steps of this module, so safety properties hold there too.
* Left out: requests with `X-LMCache-Bypass` and GETs (they take no lock),
  single-slot mode (`slot_state` is None, so nothing here applies).

### SlotContent

Every action is an action of `SlotLocks` with its data: `prompt[r]` the tokens of the
request, `node[r]` the row it is routed with, `name[s]` the entry of
`_slot_node_id` (its domain is `tracked`), `holds[s]` what is in the backend's slot,
`stored[n]` node n's row: the node whose file it names (`bin`) and the tokens in that
file (`has`). A match then exists only if the names say so, a lookup finds the longest
row below the prompt, an eviction saves what the slot really holds, a forward leaves
the prompt and what was generated.

* `unrecorded` is a history variable: slots written to by a step that does not tell
  `SlotState`, or restored from a file that is not checked. The properties speak of the
  others; the refuted one of all.
* `checked`, in a row, is history too: the file was last written by a save that compared
  its tokens with those of the rows that name it. An eviction may rename over a file that
  other rows still name (`Renamed`, line 688): they keep their names and are not checked
  any more. An anchor may be saved with as many tokens of another request (`PrefillOkOf`,
  line 508), which is not a comparison of tokens.
* `Cuts` says which anchors a prompt may have. Their tokens need not begin the prompt's:
  the text before the boundary is tokenized by itself (lines 446-450). A forward after
  such an anchor overwrites its last tokens (`Untold`).
* The chain of parents may skip any prefix, because pruning cuts it, so an ancestor or
  a descendant may be a match and need not be. A slot recorded with the very row that is
  looked for (`Exact`) always is one, unless it is busy. `_ensure_storage_room` may
  delete any set of rows and point those that lost a descendant at the file of another.
* A file that no row names can only keep something from being saved, and nothing need
  ever be saved, so such files are left out.
* `Readable = FALSE` models slot files that `read_slot_bin_tokens` cannot parse; the
  runs use `TRUE`, the theorems hold for both (an autosave then checks nothing).
* Left out: requests without a cache context (`X-LMCache-Bypass`, a prompt that could not
  be rendered). They are forwarded without a record, like the untargeted ones that are in.

### PrefixTrie

`db` is the committed nodes table, `txn` the open write transaction, `disk` the
content of the file named after each node, `job[p]` the local variables of the
operation process `p` is in. A token sequence is an element of `Texts`, and
`Below` is the strict prefix order; the hash in a node's id is taken to be
injective. Each SQL statement and file operation is a step, and other processes
interleave between steps; within a process operations do not overlap
(`_cache_lock`). The budget test is a free choice, as sizes are left out, so every
cascade that some sizes allow is a behaviour.

* `Fail` kills the process, or makes the operation raise, before any step; an
  open transaction is rolled back and files stay.
* A row is read and then deleted or updated in one step: the statements follow
  each other on one connection.
* Slot files are taken to be readable by `read_slot_bin_tokens`. If one is not,
  autosave inserts the prompt node without having compared its tokens.
* Left out: `lookup` (it writes only `hits` and `last_used`), rows of `anchors`
  for prompt nodes (they decide nothing that is modelled), `--allow-token-mismatch`
  of `cmd_add`, other use of the slot while `cmd_add` fills it.

### StorageBudget

Several directories, rows with the `size_bytes` they were inserted with, files with
their real size. `job` is the pruner that runs, its limits and the locals of its
cascade, and for whom it runs: the command, the budget test of
`_ensure_storage_room` or its loop over free disk space. `Exceeds` is the budget test,
with the totals of everything in scope in the outer loop and of one directory inside
the cascade (`GoesOn`), as in the code.

* What is counted is the number of bytes in a set (`Bytes`): a file counts once, with the
  largest size of the rows that name it, as the query that takes `MAX(size_bytes)` per
  `bin_file` has it.
* The least recently used leaf is any unpinned leaf: lookups renew `last_used` in any
  order.
* `Reserves` are the answers of `estimate_save_size_bytes`, `None` (0) among them. The
  save that follows has any size that fits the disk.
* One operation runs at a time; interleaving and kills are `PrefixTrie`'s.

### PromptTokens

Texts are sequences of characters and tokens are sequences of pieces; `Tokenize` and
`Template` are parameters. One request goes through `_request_cache_context`, the
newline workaround, lookup, anchors, forward and autosave; in between other requests
and processes insert and delete any rows. `options` are `strict_prefix_restore` and
`generated_prefix_enabled`. `FindMarkerBoundary`, `AnchorsForPrompt`, `LcpLen`,
`CapturedResponseText` and `VerifiedGeneratedPrefixTokens` are the functions of those
names. A slot that is saved may hold what another request left there.

* The tokenizer of `MCPromptTokens` merges a piece with whatever follows it, the
  end-of-message marker and the newline included; its chat template drops a
  trailing newline of the message, so the exceptions of the workaround happen.
* `MarkerEnds` is the loop of `_find_marker_boundary`: where each marker found ends.
  `HasContext` is the early return of `_request_cache_context`: a prompt that is empty, or
  has no tokens, gets no context (nor does `cmd_add` of one mean anything; it is left out).
* Left out: the shapes of message content the newline can be appended to (a body is
  extendable or not), decoding of the event stream, hash collisions.

### StackSupervisor

`pc[s]` is the command a supervisor is at, `known` the children whose pid it has in
`backend_pid` and `proxy_pid`, `file` the owners of the three pid files, `proc` the
processes, `told` those that were sent a TERM. A signal starts the cleanup where the
trap is set and ends the supervisor where it is not (before `trap`, and after
`cleanup` has reset it); a kill ends it anywhere. Children bind their port, fail to, or
end at any time.

* `caught[s]` is a history variable: the child whose `pid=$!` was the next command when
  the signal came.
* `mine` is the moment between reading a pid file and removing it.
* Left out: the parent of `--background`.

## Runs

Run with `tlc -workers 2 -config <cfg> <module>`. Passing runs:

| Run | Module, cfg | Bounds | Shows |
|---|---|---|---|
| `slot_locks` | `MCSlotLocks`, `MCSlotLocks.cfg` | 2 requests sent twice, 2 slots, 1 anchor; 163k states | `TypeOK`, `UnstolenExclusive`, `NoBlockedAcquire`, `AcquireFindsLock`, `RoutedSlotNotBusy`, `QuiescentSlotIsFree`, `OnlyUserReleases`, `ImplementsLease`, `RequestsFinish` |
| `routing` | `MCSlotContent`, `SlotContent.cfg` | 2 requests (symmetric), 2 slots, prompts a, ab, abc, d, an anchor a of ab and abc, and of d, whose tokens do not begin with it, an old row for ab in the file of a; 723k states | `ContentTypeOK`, `RecordFitsUser`, `NamedContent`, `StoredCoversNode`, `RoutedRowStays` |
| `trie_single` | `MCPrefixTrie`, `PrefixTrieSingle.cfg` | one process: save, materialize, prune (the proofs add `cmd_add`); texts a, ab, abc, ad, an anchor at a; 120k states | `TypeOK`, `BinCoversNode`, `NoDanglingRow`, `AnchorsAreIndexed`, `OperationsFinish` |
| `trie_shared` | `MCPrefixTrie`, `PrefixTrieShared.cfg` | two processes, all operations, kills; texts a, ab; 174k states | `ParentIsPrefix` |
| `budget` | `MCStorageBudget`, `StorageBudget.cfg` | a fork of three nodes in one directory, a node in another, sizes 1 and 2, budget 4, disk 6; 134k states | `TypeOK`, `RoomIsReal`, `RefusedOnlyWhenEmpty`, `NoNeedlessDeletion`, `RoomMakingEnds` |
| `prompts` | `MCPromptTokens`, `PromptTokens.cfg` | 6 request bodies of up to 3 characters, 3 responses, 2 anchor configurations, 2 rows and a save; 312k states | `TypeOK`, `FullPrefixIsStrict`, `ExactNodeServes`, `MaterializedAnchorServes`, `GeneratedIsProven` |
| `stack` | `StackSupervisor`, `StackSupervisor.cfg` | 2 supervisors, 1 signal or kill; 678k states | `TypeOK`, `OnlyTheUnrecordedStays`, `NoStalePidFile`, `StackGoesTogether` |

The violation runs show where the code departs from what the repository says of
it:

| Run | Module, cfg | Refuted | What happens |
|---|---|---|---|
| `slot_deadlock` | `MCSlotLocks`, `SlotLocksDeadlock.cfg` | `NoLockCycle` | a busy slot is forgotten and granted again; then `acquire_slot` blocks with `_cache_lock` held, on a thread that waits for `_cache_lock` |
| `routing_stale` | `MCSlotContent`, `SlotContentStale.cfg` | `SkippedRestoreIsSound` | an untargeted request is served in a slot that is named after a node, and a later request skips the restore because of the name |
| `trie_prune` | `MCPrefixTrie`, `PrefixTriePrune.cfg` | `OnlyUnpinnedLeavesGo` | the cascade deletes pinned ancestors, and ancestors with other children |
| `trie_evict` | `MCPrefixTrie`, `PrefixTrieEvict.cfg` | `BinCoversNode` | eviction overwrites a file another row names |
| `budget_disk` | `MCStorageBudget`, `StorageBudgetDisk.cfg` | `BudgetBoundsDisk` | files that no row names, or that count with another size, exceed the budget |

`PROJECT.json` quotes the statement each one refutes. Every property of a passing
run also fails for some plausible slip in the code; the slips stand beside the
definitions they replace.

Found on the way, with no statement of the repository to refute and so with no run of
its own (change the named cfg to see them):

* Killed between unlinking files and committing (`prefix_cache.py:836`), the pruner
  leaves rows whose file is gone: `NoDanglingRow` with `Faults = TRUE`.
* Two processes that add the same node (`prefix_cache.py:1043`) write over each other's
  file: `BinCoversNode` and `NoDanglingRow` with two processes.
* With slot files that cannot be parsed, autosave stores another prompt's slot under
  this prompt's node (`lmcache-proxy-on-demand.py:1340`); with files that can, an
  anchor may be saved with as many tokens of another request (508), and an eviction
  leaves other rows with a file too short for them (688, refuted in the trie by
  `trie_evict`). `StoredCoversNode` without its `checked` fails for each.
* A redirect in the second loop of `_ensure_storage_room` can raise what is counted, and
  the loop does not look at the budget again. Room may then be granted beyond the
  budget, once everything prunable is gone: this is the exception in `RoomIsReal`. It
  takes five nodes, more than `budget` has.

Why the bounds are enough. The slot hazards need a user of a slot and a thread that
takes it away, on two slots to choose from; a client that sends again brings the third
request of the deadlock. Slot safety is proved for any number of them. Slot
content adds a prompt that is a prefix of another, the row between them, an anchor that
begins two prompts and does not begin a third of the same length, and a row with the file
of a node that is gone; these make every exception in the properties occur (overwritten
files, restores from them, unchecked and merged anchors). It is proved for any prompts
and rows too. `routing_stale` needs three requests, and one client that sends them.
In the trie, a fork (two children of one parent) is what the redirect needs, a chain of
three what an ancestor walk of two steps and a cascade of three rounds need; two
processes are enough for one to change what the other has read. The budget needs a
second directory, for the totals of one to differ from those of all. In the prompts, what
matters is the tokenizer: it merges across every boundary the code cuts at. Two
supervisors are enough to meet on ports and files, and one signal to cut each start.

`CHECK_DEADLOCK FALSE` stands in the configurations of `SlotLocks` and `SlotContent`,
because the code can deadlock (`NoLockCycle`), and of `StackSupervisor`, whose
supervisors end.

Fairness. `SlotLocks!FairSpec`: a thread that can take its next step does (the
interpreter runs it, backend calls time out: 600 s for a forward). Waiting for
`_cache_lock` needs no strong fairness in `RequestsFinish`, since clients send
boundedly many requests. No client is obliged to send. `PrefixTrie!FairSpec`: a
process that is in an operation goes on with it. `StorageBudget!FairSpec`: the pruner
goes on. `StackSupervisor!FairSpec`: the script goes on, and a process that was sent a
TERM ends at last (llama-server and the proxy both do); nothing makes a child end, or
bind its port, of itself.

## Proofs

### SlotLocksProofs

For any number of requests, slots, anchors and rounds: type correctness,
`UnstolenExclusive`, `NoBlockedAcquire`, `AcquireFindsLock`, `RoutedSlotNotBusy`,
`QuiescentSlotIsFree`, the action property `OnlyUserReleases`, and that the locking
implements `SlotLease`. None of them is inductive. The invariant is built in three
layers, each proved with the ones below as context:

1. `TypedInv`: types, and which phases have a target slot.
2. `CacheLockInv`: the holder of `_cache_lock` is the one thread in a critical phase.
3. `LockInv`: a slot without users is free (`QuietInv`); the one user of a slot
   that was not forgotten has its flag and its lock (`UserInv`); a slot a request
   was routed to is not taken by another before it is acquired (`FreshInv`); the
   entry of `_slot_locks` made by the first half of `acquire_slot` is there for the
   second (`AcquireFindsLock`).

The refinement then checks each action against `SlotLease`: setting the flag is a
`Grant`, `release_slot` a `Return`, a `forget` of a used slot a `Revoke`, and all
others leave the lease unchanged. The assumptions are those on the constants at
the head of `SlotLocks`.

`NoLockCycle` is refuted (`slot_deadlock`); two theorems say how far it holds.
`DeadlockNeedsTheft`: a thread that another waits for waits itself only if a slot was
taken from its user (a `forget` of a slot in use) and the holder of `_cache_lock` is in
`acquire_slot` for that slot, so without it no cycle of waits, of any length, forms.
`NoOtherDeadlock`: and then the other thread of the cycle waits for `_cache_lock` to save,
so the cycle the run finds is the only one. Both rest on `OwnerInv`, proved by
itself: however often a slot is forgotten, its lock is held by a user of the slot who is
through `acquire_slot`.

### SlotContentProofs

For any number of requests, slots, prompts, anchors and old rows, and whether or not token
tables can be read: `ContentTypeOK`, `RoutedRowStays`, `StoredCoversNode`, `NamedContent`
and `RecordFitsUser`. `ContentImplementsLocks` comes first: every step of
`SlotContent` is a step of `SlotLocks`, so all that `SlotLocksProofs` shows of the locks
holds here and is used below. Then, each layer with the ones before it as context:

1. `DataInv`: types; a request has a prompt until it is answered, and a row while it is
   routed with one; while the default slot is filled from scratch it is not recorded
   (`_cache_lock` keeps others from recording it).
2. `RowsInv`: `StoredCoversNode` and `RoutedRowStays`. `PrunedCovers`, `EvictedRows` and
   `SavedRows` say what each operation does to a table whose checked files are long
   enough (`Covered`): pruning points a row at the file of a longer one, eviction leaves
   rows it writes over unchecked, a save writes what it has compared (`Proven`).
3. `RecordInv`: `NamedContent` and `RecordFitsUser` are not inductive. Between routing
   and `acquire_slot` nobody uses the slot, so nothing says yet that its record fits:
   `AcquireInv` does, of the request the slot was given to. `UsedInv` says that a slot in
   use by a request with a row has a record unless a forget took it.

What these properties do not promise is part of them. `StoredCoversNode` speaks of the
rows whose file was compared with their tokens, and `NamedContent` of the slots that no
step wrote to behind `SlotState`: the code breaks both for the others, in the ways listed
above. `RecordFitsUser` says of the record that it leads to the row the user was routed
with, and not that the row's tokens begin the prompt, which an anchor's may not.

`RecordedSlotsCanBeSkipped` follows from the same invariant and says how far the refuted
`SkippedRestoreIsSound` holds: on every slot outside `unrecorded` that a request was routed
to with a row, the slot holds the tokens of the node in its record, and they begin the
prompt if the row's do.

The assumptions are `ContentAssumption` (the prefix order is transitive, the special
values differ from the others), `OldRowsAssumption` (the files of the rows the proxy
starts with fit them) and those of `SlotLocks`.

### PrefixTrieProofs

`TypeOK` and `ParentIsPrefix` for any set of texts under a
prefix order, any number of processes, and any crashes. `ParentIsPrefix` speaks of
the table only, while a row is inserted with a `parent_id` read several steps
earlier (in `cmd_add`, before a long prefill), so the invariant adds `JobOK`: what
the locals of each operation hold between its steps, above all that the parent to
insert is still a strict prefix of the node, and that the table of an open
transaction is a tree too. Whether that parent is still a row is settled by the
foreign key at the insert. `WithoutTree`, `RedirectTree`, `IndexedTree` and
`InsertTree` say that each statement on the table keeps it a tree; `StepOf` says
once that a step of one process leaves the locals of the others valid, because only
the owner of a transaction ends it. The assumptions are `BelowAssumption`,
`AnchorsAssumption`, `OpsAssumption` and that the special values differ from all
others (`NamesAssumption`).

### PrefixTrieFileProofs

`BinCoversNode` and `NoDanglingRow` for any texts, with save, materialize, add and
prune, for one process that neither fails half way nor evicts (`Alone`: each of the
three is needed, see the refuted run `trie_evict` and the list under Runs). The table
and the files change in different steps, so `FileOK` says what each operation knows in
between: a file about to be written is not there, so no row names it; once it is
written it restores the node, the generated node, and the ancestor whose turn it is
(each is a prefix of the one before, by `IInv`); the redirect target of a cascade
restores the node that is next. `FilesOf` is then kept by every statement on its own:
`FilesWritten`, `FilesUnlinked`, `FilesWithout`, `FilesRedirect`, `FilesInsert`.

### PrefixTrieIndexProofs

`AnchorsAreIndexed` for any number of processes and all operations, if nothing fails
half way (with `Faults = TRUE` a kill before `insert_anchor` leaves a node without its
row). In between, a node without its row has a process at `InsertAnchorRow` for it, and
no other operation inserts an anchor node (`NameOK`). `KeepsIndex` says what a statement
on the table may do to the anchor nodes: delete them, not un-index or create them.

### StackSupervisorProofs

`TypeOK`, `OnlyTheUnrecordedStays` and `NoStalePidFile` for any number of supervisors
and signals, from `NamesAssumption` alone. What a finished cleanup leaves depends on
what it has waited for and removed so far, so `StackInv` says it for every place of
the script: `PendingInv`, a child is started only where the script says, and not
twice; `RecordInv`, a running child is in `known`, or the next command records it, or
a signal caught it there; `GoneInv`, a recorded child the cleanup has waited for is
gone; `FileInv`, a pid file the cleanup is past does not name the supervisor. Other
supervisors may write and remove the same files at any time, but only with their own
pids.

### StorageBudgetProofs

`TypeOK`, `RoomIsReal`, `RefusedOnlyWhenEmpty` and the action property
`NoNeedlessDeletion` for any finite set of nodes in any directories, any strict order as
the prefix relation, any sizes, limits and disk. Three facts about the totals carry the
argument (`CountedTotals`, from which `ExceedsGrows`): they are natural numbers; a larger scope counts no less; and as no file is
empty, only a scope without rows counts 0. The invariant adds to the types

* `TreeOf`: a parent is a row for a strict prefix, so it is in the same directory. The
  cascade needs it: it compares one directory with a limit meant for all, and what exceeds
  the limit alone exceeds it together (`NoNeedlessDeletion`);
* `JobOK`: what each step of the pruner knows. After the budget loop what is counted fits
  (`FitsBudget`) or nothing is left to delete; the loop over free disk space starts below
  the limit it was given and so keeps within it, until nothing is left. Both are needed
  for `RoomIsReal`, and the second alternative is the exception described under Runs.

`BudgetBoundsDisk` is refuted (`budget_disk`): a file without a row, or larger than its rows
say, is not counted. `BudgetBoundsRecordedDisk` says how far it holds: where every file is
named by a row that counts at least its size (`AsRecorded`) and some leaf could still be
deleted, what the disk holds and the room granted are within the budget.
`StoredIsCounted` compares the two totals.

The assumptions are those at the head of `StorageBudget`: `NodesAssumption`,
`SizesAssumption` (a saved file is not empty), `LimitsAssumption`, `BelowAssumption`,
`BelowInDirectory`, and that special values differ from the others.

### PromptTokensProofs

`TypeOK`, `FullPrefixIsStrict`, `ExactNodeServes`, `MaterializedAnchorServes` and the
action property `GeneratedIsProven` for any tokenizer, any chat template, any bodies,
anchors and responses. Of the tokenizer only its type is assumed (`TokenizeAssumption`):
it may merge anything with anything, and nothing relates the tokens of a text to those of
its beginnings, which is what the code has to cope with.

* `LookupFinds`: a lookup returns a beginning of the tokens, a strict one if it has to,
  and no row that would do is longer. With it and the comparison in the workaround,
  `ExactOK` (the changed prompt begins with the tokens that were found) gives
  `ExactNodeServes`; `RestoredOK` and `ContextOK` (the context is the one of the body
  that will be sent) give `FullPrefixIsStrict`.
* `BoundaryLocal`: a boundary found in one text is the boundary in every text that goes
  on with the same characters up to the marker's end. It is where the search from the left
  matters: `EndsFound` and `EndsIncrease` say where the markers before it are, `EndsLocal`
  that none of them moves. `RowOK` keeps, of each anchor node, the text it was cut from.
* `LcpIsLongest`: `LcpLen` is the length of the longest common prefix; as it is more than
  the prompt's, `GeneratedIsProven` follows.

`MarkerEnds` is a recursive function, and the library's induction theorems cannot be
applied; so each fact about it, that it is a function at all included
(`MarkerEndsDef`), is shown with a smallest number of markers for which it would fail
(`LeastElement`, from the well-foundedness of `<`). The assumptions are those beside `Texts`
in `PromptTokens`.

### Only model-checked

* The liveness properties `RequestsFinish`, `OperationsFinish`, `RoomMakingEnds` and
  `StackGoesTogether`: the provers here reason about neither fairness nor ENABLED. All
  other properties of the passing runs are theorems.
* What `CapturedResponseText` collects: it is a fold over the pieces of a response, and
  `GeneratedProven` holds whatever it is.

## Not modelled, and why

* `KVCache` and its use (lines 33-81, 1050-1063): with `--no-prefix-cache` only; it
  reads files that nothing in the repository writes, and keeps no state.
* The legacy proxy: no script starts it, and its `main` stops at line 378 (it reads
  `args.proxy_port`, which is no option of its parser) before it serves a request, so
  there is no behaviour to check.
* The launcher, the `run-*.sh` wrappers and `services/`: straight-line option handling
  without state.
* HTTP: streaming, headers and the event stream's format. A forward returns or raises.
* `estimate_save_size_bytes`: a regression over saved files. Its result is any reserve.
* `anchor_configs` are constant: the commands that change them run offline.
* `--background` of the supervisor: its parent starts the script again and writes the
  pid file too.

## Plan

Done, in this order: `SlotLocks`, `PrefixTrie`, `SlotContent`, `StorageBudget`,
`PromptTokens`, `StackSupervisor`, each with its runs; proofs for `SlotLocks`,
`SlotContent`, `PrefixTrie`, `StackSupervisor`, `StorageBudget`, `PromptTokens`: every
safety invariant and action property of the passing runs.

What is left:

1. The parent of `--background`, which races with the supervisor it starts for the
   stack's pid file.
2. Theorems beyond the runs: the files of the trie when saves can be redirected by several
   processes, under the condition that no two of them write the same node.
