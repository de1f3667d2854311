------------------------- MODULE PrefixTrieFileProofs -------------------------
(***************************************************************************)
(* The files of PrefixTrie.                                                *)
(*                                                                         *)
(* FilesOf joins BinCoversNode and NoDanglingRow: the file a row names is  *)
(* there and restores the row's tokens.  It holds for one process that is  *)
(* not killed and does not evict slots, for any texts and any cascades,    *)
(* redirects and shared files; the refuted runs and the README show what   *)
(* else goes wrong.  FileOK is what the locals of an operation know of the *)
(* files between its steps.                                                *)
(***************************************************************************)
EXTENDS PrefixTrieProofs

\* File f of the files k restores at least the tokens t.
Covers(k, f, t) == k[f] # NoFile /\ Upto(t, k[f])

FilesOf(d, k) == \A n \in Present(d) : Covers(k, d[n].bin, Text(n))

\* Steps at which the file of a save, an add or a materialization has its final name.
Written == {"parent", "insert", "row", "genParent", "insertGen", "updateStart",
            "update", "updateCommit"}

\* Steps before a file is chosen, and those of pruning.
Unwritten == {"room", "begin", "cascade", "unlink", "check", "prefill", "idle"}

\* What the locals j know of the files k while t is the open transaction.
FileOK(j, k, t) ==
    /\ j.at \notin {"cascade", "unlink", "updateCommit"} => t = NoTxn
    /\ j.at \in Unwritten => j.gen = None
    /\ j.at = "prefill" => k[Anchor(j.text)] = NoFile
    /\ j.op = "materialize" /\ j.at \in {"rename", "parent", "insert"} => j.file = Anchor(j.text)
    /\ j.at \in {"rename", "addSave"} =>
        /\ k[j.file] = NoFile
        /\ Upto(Text(j.file), j.content)
        /\ j.gen # None => Upto(j.gen, j.content)
    /\ j.at \in Written =>
        /\ Covers(k, j.file, Text(j.file))
        /\ j.gen # None => Covers(k, j.file, j.gen)
    /\ j.at \in {"update", "updateCommit"} /\ j.parent # None => Covers(k, j.file, Text(j.parent))
    /\ j.at \in {"room", "begin", "unlink"} => j.redirect = None
    /\ j.at = "cascade" /\ j.redirect # None => Covers(k, j.redirect, Text(j.cur))

FilesInv == FilesOf(Current, disk) /\ \A p \in Procs : FileOK(job[p], disk, txn)

\* The single-slot proxy without a second one, or the command line, at its side.
Alone == Faults = FALSE /\ "evict" \notin Ops /\ \A p, q \in Procs : p = q

-----------------------------------------------------------------------------
(* What the statements on the table and the file operations do to FilesOf. *)

\* A file that restores a node restores the prefixes of the node.
LEMMA CoversUp ==
    ASSUME NEW k \in [Ids -> Texts \cup {NoFile}], NEW f \in Ids,
           NEW s \in Texts, NEW t \in Texts, Covers(k, f, t), <<s, t>> \in Below
    PROVE  Covers(k, f, s)
<1>1. k[f] \in Texts
  BY DEF Covers
<1> QED
  BY <1>1, BelowAssumption DEF Covers, Upto

\* A file that was not there is written: no row names it.
LEMMA FilesWritten ==
    ASSUME NEW d \in Tables, NEW k \in [Ids -> Texts \cup {NoFile}], FilesOf(d, k),
           NEW f \in Ids, k[f] = NoFile, NEW c, NEW e, e = [k EXCEPT ![f] = c]
    PROVE  FilesOf(d, e)
<1> SUFFICES ASSUME NEW n \in Present(d) PROVE Covers(e, d[n].bin, Text(n))
  BY DEF FilesOf
<1>1. Covers(k, d[n].bin, Text(n)) /\ d[n].bin \in Ids
  BY DEF FilesOf, Present, Tables, Node
<1>2. d[n].bin # f
  BY <1>1 DEF Covers
<1> QED
  BY <1>1, <1>2 DEF Covers

\* A file that no row names is unlinked.
LEMMA FilesUnlinked ==
    ASSUME NEW d \in Tables, disk \in [Ids -> Texts \cup {NoFile}], FilesOf(d, disk),
           NEW f \in Ids
    PROVE  FilesOf(d, Unlinked(d, f))
<1>1. CASE Refs(d, f) = {}
  <2> SUFFICES ASSUME NEW n \in Present(d) PROVE Covers(Unlinked(d, f), d[n].bin, Text(n))
    BY DEF FilesOf
  <2>1. Covers(disk, d[n].bin, Text(n)) /\ d[n].bin \in Ids /\ d[n].bin # f
    BY <1>1 DEF FilesOf, Present, Tables, Node, Refs
  <2> QED
    BY <1>1, <2>1 DEF Covers, Unlinked
<1>2. CASE Refs(d, f) # {}
  BY <1>2 DEF Unlinked
<1> QED
  BY <1>1, <1>2

\* A row is deleted.
LEMMA FilesWithout ==
    ASSUME NEW d \in Tables, TreeOf(d), NEW k, FilesOf(d, k), NEW n \in Ids
    PROVE  /\ FilesOf(Without(d, n), k)
           /\ \A m \in Present(Without(d, n)) : Without(d, n)[m].bin = d[m].bin
<1> DEFINE w == Without(d, n)
<1>1. Present(w) = Present(d) \ {n}
  BY WithoutTree
<1>2. ASSUME NEW m \in Present(w) PROVE w[m].bin = d[m].bin
  <2>1. m \in Ids /\ m # n /\ d[m] \in Node
    BY <1>1 DEF Present, Tables
  <2>2. CASE m \in Children(d, n)
    <3>1. w[m] = [d[m] EXCEPT !.parent = None]
      BY <2>1, <2>2 DEF Without
    <3> QED
      BY <2>1, <3>1 DEF Node
  <2>3. CASE m \notin Children(d, n)
    BY <2>1, <2>3 DEF Without
  <2> QED
    BY <2>2, <2>3
<1>3. FilesOf(w, k)
  BY <1>1, <1>2 DEF FilesOf
<1> QED
  BY <1>2, <1>3

\* A row is pointed at a file that restores it.
LEMMA FilesRedirect ==
    ASSUME NEW d \in Tables, TreeOf(d), NEW k, FilesOf(d, k), NEW n \in Present(d),
           NEW f \in Ids, Covers(k, f, Text(n)), NEW e, e = [d EXCEPT ![n].bin = f]
    PROVE  FilesOf(e, k)
<1>1. Present(e) = Present(d)
  BY RedirectTree
<1> SUFFICES ASSUME NEW m \in Present(d) PROVE Covers(k, e[m].bin, Text(m))
  BY <1>1 DEF FilesOf
<1>2. m \in Ids /\ d[m] \in Node /\ n \in Ids
  BY DEF Present, Tables
<1>3. CASE m = n
  BY <1>2, <1>3 DEF Tables, Node
<1>4. CASE m # n
  BY <1>2, <1>4 DEF Tables, FilesOf
<1> QED
  BY <1>3, <1>4

\* A row is inserted that names a file that restores it.
LEMMA FilesInsert ==
    ASSUME NEW d \in Tables, NEW k, FilesOf(d, k), NEW n \in Ids, NEW f, NEW parent, NEW pin,
           Covers(k, f, Text(n)), NEW e, e = [d EXCEPT ![n] = Row(parent, f, pin)]
    PROVE  FilesOf(e, k)
<1> SUFFICES ASSUME NEW m \in Present(e) PROVE Covers(k, e[m].bin, Text(m))
  BY DEF FilesOf
<1>1. m \in Ids
  BY DEF Present
<1>2. CASE m = n
  BY <1>1, <1>2 DEF Tables, Row
<1>3. CASE m # n
  BY <1>1, <1>3 DEF Tables, FilesOf, Present
<1> QED
  BY <1>2, <1>3

\* A row of the anchors table is inserted.
LEMMA FilesIndexed ==
    ASSUME NEW d \in Tables, NEW k, FilesOf(d, k), NEW n \in Present(d),
           NEW e, e = [d EXCEPT ![n].row = TRUE]
    PROVE  FilesOf(e, k)
<1> SUFFICES ASSUME NEW m \in Present(e) PROVE Covers(k, e[m].bin, Text(m))
  BY DEF FilesOf
<1>1. m \in Ids /\ n \in Ids /\ d[n] \in Node
  BY DEF Present, Tables
<1>2. CASE m = n
  BY <1>1, <1>2 DEF Tables, Node, FilesOf
<1>3. CASE m # n
  BY <1>1, <1>3 DEF Tables, FilesOf, Present
<1> QED
  BY <1>2, <1>3

-----------------------------------------------------------------------------
(* One process at a time. *)

\* The step of the one process: d is the table that the writer sees after it.
LEMMA OneStep ==
    ASSUME IInv, Alone, NEW p \in Procs, NEW j, job' = [job EXCEPT ![p] = j],
           FileOK(j, disk', txn'), NEW d, d = IF txn' = NoTxn THEN db' ELSE txn'.db,
           FilesOf(d, disk')
    PROVE  FilesInv'
<1>1. job'[p] = j /\ \A q \in Procs : q = p
  BY DEF IInv, TypeOK, Alone
<1>2. \A q \in Procs : FileOK(job'[q], disk', txn')
  BY <1>1
<1>3. FilesOf(Current', disk')
  BY DEF Current
<1> QED
  BY <1>2, <1>3 DEF FilesInv

\* The same for a step that changes locals only.
LEMMA QuietStep ==
    ASSUME IInv, Alone, FilesInv, NEW p \in Procs, UNCHANGED <<db, txn, disk>>,
           NEW j, job' = [job EXCEPT ![p] = j], FileOK(j, disk, txn)
    PROVE  FilesInv'
<1>1. FilesOf(Current, disk) /\ Current = IF txn' = NoTxn THEN db' ELSE txn'.db
  BY DEF FilesInv, Current
<1> QED
  BY <1>1, OneStep

\* An operation that ends with no transaction open need say nothing of the files.
LEMMA NoJobFiles == \A k : FileOK(NoJob, k, NoTxn)
BY DEF NoJob, FileOK, Unwritten, Written

\* The same for a step that ends an operation.
LEMMA QuietEnd ==
    ASSUME IInv, Alone, FilesInv, NEW p \in Procs, UNCHANGED <<db, txn, disk>>, Done(p),
           job[p].at \notin {"cascade", "unlink", "updateCommit"}
    PROVE  FilesInv'
<1>1. txn = NoTxn
  BY DEF FilesInv, FileOK
<1> QED
  BY <1>1, NoJobFiles, QuietStep DEF Done

\* What the invariants say of the one process and of the table and files it sees.
LEMMA OldFiles ==
    ASSUME IInv, FilesInv, NEW p \in Procs
    PROVE  /\ job[p] \in Job /\ JobOK(p, job[p], txn) /\ FileOK(job[p], disk, txn)
           /\ job \in [Procs -> Job] /\ disk \in [Ids -> Texts \cup {NoFile}]
           /\ txn = NoTxn => db \in Tables /\ TreeOf(db) /\ FilesOf(db, disk)
           /\ txn # NoTxn => txn.db \in Tables /\ TreeOf(txn.db) /\ FilesOf(txn.db, disk)
BY OldJob, OldTables DEF IInv, TypeOK, FilesInv, Current

\* An operation starts.
LEMMA BeginFiles ==
    ASSUME IInv, Alone, FilesInv, NEW p \in Procs, Begin(p)
    PROVE  FilesInv'
<1>0. job[p].at = "idle" /\ UNCHANGED <<db, txn, disk>>
  BY DEF Begin, Start, StartMaterialize, StartEvict, StartAdd, At
<1>1. txn = NoTxn /\ disk \in [Ids -> Texts \cup {NoFile}]
  BY <1>0, OldFiles DEF FileOK
<1>2. ASSUME NEW op \in Ops, Start(p, op) PROVE FilesInv'
  <2> DEFINE j == [NoJob EXCEPT !.op = op, !.at = "room"]
  <2>1. FileOK(j, disk, txn)
    BY <1>1 DEF NoJob, FileOK, Unwritten, Written
  <2> QED
    BY <1>0, <1>2, <2>1, QuietStep DEF Start
<1>3. CASE StartMaterialize(p)
  <2>1. PICK text \in Anchors : job' = [job EXCEPT ![p] =
            [NoJob EXCEPT !.op = "materialize", !.at = "room", !.text = text]]
    BY <1>3 DEF StartMaterialize
  <2> DEFINE j == [NoJob EXCEPT !.op = "materialize", !.at = "room", !.text = text]
  <2>2. FileOK(j, disk, txn)
    BY <1>1 DEF NoJob, FileOK, Unwritten, Written
  <2> QED
    BY <1>0, <2>1, <2>2, QuietStep
<1>4. CASE StartEvict(p)
  BY <1>4 DEF StartEvict, Alone
<1>5. CASE StartAdd(p)
  <2>1. PICK t \in Texts, pin \in BOOLEAN : \E parent \in ParentFor(db, t) :
            /\ ~BinExists(Plain(t))
            /\ job' = [job EXCEPT ![p] =
                [NoJob EXCEPT !.op = "add", !.at = "addSave", !.file = Plain(t),
                              !.content = t, !.pin = pin, !.parent = parent]]
    BY <1>5 DEF StartAdd
  <2>2. PICK parent \in ParentFor(db, t) : job' = [job EXCEPT ![p] =
            [NoJob EXCEPT !.op = "add", !.at = "addSave", !.file = Plain(t),
                          !.content = t, !.pin = pin, !.parent = parent]]
    BY <2>1
  <2> DEFINE j == [NoJob EXCEPT !.op = "add", !.at = "addSave", !.file = Plain(t),
                                !.content = t, !.pin = pin, !.parent = parent]
  <2>3. disk[Plain(t)] = NoFile /\ Text(Plain(t)) = t
    BY <2>1, TextIds DEF BinExists
  <2>4. /\ j.at = "addSave" /\ j.file = Plain(t) /\ j.content = t /\ j.gen = None
    BY DEF NoJob
  <2> HIDE DEF j
  <2>5. FileOK(j, disk, txn)
    BY <1>1, <2>3, <2>4 DEF FileOK, Unwritten, Written, Upto
  <2> QED
    BY <1>0, <2>2, <2>5, QuietStep DEF j
<1> QED
  BY <1>2, <1>3, <1>4, <1>5 DEF Begin

\* One round of the cascade: a surviving child's file restores its parent too, and
\* the redirect target of an earlier round restores the ancestors that follow.
LEMMA CascadeFiles ==
    ASSUME IInv, Alone, FilesInv, NEW p \in Procs, NEW d \in Tables, TreeOf(d),
           FilesOf(d, disk), job[p].cur \in Present(d), job[p].gen = None,
           job[p].redirect # None => Covers(disk, job[p].redirect, Text(job[p].cur)),
           CascadeFrom(p, d), UNCHANGED <<db, disk>>
    PROVE  FilesInv'
<1> DEFINE n == job[p].cur
           parent == d[n].parent
           d1 == Without(d, n)
           siblings == Children(d1, parent)
           LocalsAfter(step, target) ==
               [job EXCEPT ![p].at = step,
                           ![p].cur = IF step = "cascade" THEN parent ELSE None,
                           ![p].redirect = IF step = "cascade" THEN target ELSE None,
                           ![p].bins = @ \cup {d[n].bin}]
           Round(d2, target) ==
               /\ txn' = [owner |-> p, db |-> d2]
               /\ \E step \in IF parent = None THEN {"unlink"} ELSE {"unlink", "cascade"} :
                   job' = LocalsAfter(step, target)
<1>1. n \in Ids /\ d[n] \in Node /\ parent \in Ids \cup {None} /\ Text(n) \in Texts
  BY IdText DEF Present, Tables, Node
<1>2. /\ d1 \in Tables /\ TreeOf(d1) /\ Present(d1) = Present(d) \ {n}
      /\ FilesOf(d1, disk)
  BY <1>1, WithoutTree, FilesWithout
<1>3. parent # None => /\ parent \in Present(d1) /\ Text(parent) \in Texts
                       /\ <<Text(parent), Text(n)>> \in Below
  <2> SUFFICES ASSUME parent # None
               PROVE  /\ parent \in Present(d1) /\ Text(parent) \in Texts
                      /\ <<Text(parent), Text(n)>> \in Below
    OBVIOUS
  <2>1. parent \in Present(d) /\ <<Text(parent), Text(n)>> \in Below /\ Text(parent) \in Texts
    BY <1>1, IdText DEF TreeOf
  <2>2. parent # n
    BY <2>1, <1>1, BelowAssumption
  <2> QED
    BY <2>1, <2>2, <1>2
<1>4. job[p] \in Job /\ job \in [Procs -> Job] /\ disk \in [Ids -> Texts \cup {NoFile}]
  BY OldFiles
<1>5. ASSUME NEW d2 \in Tables, FilesOf(d2, disk), NEW target, Round(d2, target),
             parent # None /\ target # None => Covers(disk, target, Text(parent))
      PROVE  FilesInv'
  <2>1. PICK step \in IF parent = None THEN {"unlink"} ELSE {"unlink", "cascade"} :
            job' = LocalsAfter(step, target)
    BY <1>5
  <2> DEFINE j == [job[p] EXCEPT !.at = step,
                                 !.cur = IF step = "cascade" THEN parent ELSE None,
                                 !.redirect = IF step = "cascade" THEN target ELSE None,
                                 !.bins = @ \cup {d[n].bin}]
  <2>2. job' = [job EXCEPT ![p] = j]
    BY <1>4, <2>1
  <2>3. txn' # NoTxn /\ txn'.db = d2
    BY <1>5, NamesAssumption
  <2>4. /\ j.at = step /\ j.gen = None
        /\ step = "cascade" => j.cur = parent /\ j.redirect = target
        /\ step = "unlink" => j.redirect = None
        /\ step = "unlink" \/ (step = "cascade" /\ parent # None)
    BY <1>4 DEF Job
  <2> HIDE DEF j
  <2>5. FileOK(j, disk', txn')
    BY <1>5, <2>4 DEF FileOK, Unwritten, Written
  <2> QED
    BY <1>5, <2>2, <2>3, <2>5, OneStep
<1>6. job[p].redirect # None /\ parent # None => Covers(disk, job[p].redirect, Text(parent))
  <2>1. job[p].redirect \in Ids \cup {None}
    BY <1>4 DEF Job
  <2> QED
    BY <1>1, <1>3, <1>4, <2>1, CoversUp
<1>7. CASE parent = None \/ siblings = {}
  <2>1. Round(d1, job[p].redirect)
    BY <1>7 DEF CascadeFrom
  <2> HIDE DEF Round
  <2> QED
    BY <2>1, <1>2, <1>5, <1>6
<1>8. CASE ~(parent = None \/ siblings = {})
  <2>1. PICK target \in IF job[p].redirect # None THEN {job[p].redirect}
                        ELSE {d1[c].bin : c \in siblings} :
            Round([d1 EXCEPT ![parent].bin = target], target)
    BY <1>8 DEF CascadeFrom
  <2>2. target \in Ids /\ Covers(disk, target, Text(parent))
    <3>1. CASE job[p].redirect # None
      BY <1>4, <1>6, <1>8, <2>1, <3>1 DEF Job
    <3>2. CASE job[p].redirect = None
      <4>1. PICK c \in siblings : target = d1[c].bin
        BY <2>1, <3>2
      <4>2. c \in Present(d1) /\ d1[c].parent = parent /\ c \in Ids /\ target \in Ids
        BY <1>2, <4>1 DEF Children, Present, Tables, Node
      <4>3. Covers(disk, target, Text(c)) /\ <<Text(parent), Text(c)>> \in Below
        BY <1>2, <1>8, <4>1, <4>2 DEF FilesOf, TreeOf
      <4> QED
        BY <1>3, <1>4, <1>8, <4>2, <4>3, IdText, CoversUp
    <3> QED
      BY <3>1, <3>2
  <2> DEFINE d2 == [d1 EXCEPT ![parent].bin = target]
  <2>3. d2 \in Tables /\ FilesOf(d2, disk)
    BY <2>2, <1>2, <1>3, <1>8, RedirectTree, FilesRedirect
  <2> HIDE DEF Round, d2
  <2> QED
    BY <2>1, <2>2, <2>3, <1>5 DEF d2
<1> QED
  BY <1>7, <1>8

\* The steps of prune and prune_global.
LEMMA PruneFiles ==
    ASSUME IInv, Alone, FilesInv, NEW p \in Procs, Prune(p)
    PROVE  FilesInv'
<1> DEFINE J == job[p]
<1>1. /\ J \in Job /\ JobOK(p, J, txn) /\ FileOK(J, disk, txn) /\ job \in [Procs -> Job]
      /\ disk \in [Ids -> Texts \cup {NoFile}]
      /\ txn = NoTxn => db \in Tables /\ TreeOf(db) /\ FilesOf(db, disk)
      /\ txn # NoTxn => txn.db \in Tables /\ TreeOf(txn.db) /\ FilesOf(txn.db, disk)
  BY OldFiles
<1>2. CASE PickVictim(p)
  <2>1. PICK n \in PrunableLeaves(db) : job' = [job EXCEPT ![p].at = "begin", ![p].cur = n]
    BY <1>2 DEF PickVictim
  <2> DEFINE j == [J EXCEPT !.at = "begin", !.cur = n]
  <2>2. job' = [job EXCEPT ![p] = j] /\ j.at = "begin" /\ j.gen = J.gen
        /\ j.redirect = J.redirect
    BY <1>1, <2>1 DEF Job
  <2>3. FileOK(j, disk, txn)
    BY <1>1, <1>2, <2>2 DEF FileOK, Unwritten, Written, PickVictim, At
  <2> QED
    BY <1>2, <2>2, <2>3, QuietStep DEF PickVictim
<1>3. CASE RoomMade(p) \/ NoRoom(p)
  <2>1. J.at = "room" /\ UNCHANGED <<db, txn, disk>> /\ (Done(p) \/ Goto(p, "check"))
    BY <1>3 DEF RoomMade, NoRoom, At
  <2>2. CASE Done(p)
    BY <2>1, <2>2, QuietEnd
  <2>3. CASE Goto(p, "check")
    <3> DEFINE j == [J EXCEPT !.at = "check"]
    <3>1. job' = [job EXCEPT ![p] = j] /\ j.at = "check" /\ j.gen = J.gen
      BY <1>1, <2>3 DEF Job, Goto
    <3>2. FileOK(j, disk, txn)
      BY <1>1, <2>1, <3>1 DEF FileOK, Unwritten, Written
    <3> QED
      BY <2>1, <3>1, <3>2, QuietStep
  <2> QED
    BY <2>1, <2>2, <2>3
<1>4. CASE BeginCascade(p)
  <2>1. /\ J.at = "begin" /\ J.cur \in Ids /\ J.gen = None /\ txn = NoTxn
        /\ UNCHANGED <<db, disk>>
    BY <1>1, <1>4 DEF BeginCascade, At, JobOK, FileOK, Unwritten
  <2>2. CASE db[J.cur] = Absent
    <3> DEFINE j == [J EXCEPT !.at = "room", !.cur = None]
    <3>1. /\ job' = [job EXCEPT ![p] = j] /\ UNCHANGED txn
          /\ j.at = "room" /\ j.gen = None /\ j.redirect = J.redirect
      BY <1>1, <1>4, <2>1, <2>2 DEF BeginCascade, Job
    <3>2. FileOK(j, disk, txn)
      BY <1>1, <2>1, <3>1 DEF FileOK, Unwritten, Written
    <3> QED
      BY <2>1, <3>1, <3>2, QuietStep
  <2>3. CASE db[J.cur] # Absent
    <3>1. CascadeFrom(p, db) /\ J.cur \in Present(db)
      BY <1>4, <2>1, <2>3 DEF BeginCascade, Present
    <3>2. J.redirect # None => Covers(disk, J.redirect, Text(J.cur))
      BY <1>1, <2>1 DEF FileOK
    <3> QED
      BY <1>1, <2>1, <3>1, <3>2, CascadeFiles
  <2> QED
    BY <2>2, <2>3
<1>5. CASE Cascade(p)
  <2>1. /\ J.at = "cascade" /\ txn # NoTxn /\ J.cur \in Present(txn.db) /\ J.gen = None
        /\ CascadeFrom(p, txn.db) /\ UNCHANGED <<db, disk>>
        /\ J.redirect # None => Covers(disk, J.redirect, Text(J.cur))
    BY <1>1, <1>5 DEF Cascade, At, JobOK, FileOK, Unwritten
  <2> QED
    BY <1>1, <2>1, CascadeFiles
<1>6. CASE UnlinkBin(p)
  <2>1. PICK f \in J.bins : /\ job' = [job EXCEPT ![p].bins = @ \ {f}]
                            /\ disk' = Unlinked(txn.db, f)
    BY <1>6 DEF UnlinkBin
  <2>2. f \in Ids /\ J.at = "unlink" /\ txn # NoTxn /\ UNCHANGED <<db, txn>>
    BY <1>1, <1>6 DEF Job, UnlinkBin, At, JobOK
  <2> DEFINE j == [J EXCEPT !.bins = @ \ {f}]
  <2>3. job' = [job EXCEPT ![p] = j] /\ j.at = "unlink" /\ j.gen = J.gen
        /\ j.redirect = J.redirect
    BY <1>1, <2>1, <2>2 DEF Job
  <2>4. FileOK(j, disk', txn')
    BY <1>1, <2>2, <2>3 DEF FileOK, Unwritten, Written
  <2>5. FilesOf(txn.db, disk')
    BY <1>1, <2>1, <2>2, FilesUnlinked
  <2> QED
    BY <2>2, <2>3, <2>4, <2>5, OneStep
<1>7. CASE CommitPrune(p)
  <2>1. /\ J.at = "unlink" /\ txn # NoTxn /\ db' = txn.db /\ txn' = NoTxn /\ disk' = disk
    BY <1>1, <1>7 DEF CommitPrune, At, JobOK
  <2> DEFINE j == [J EXCEPT !.at = "room"]
  <2>2. job' = [job EXCEPT ![p] = j] /\ j.at = "room" /\ j.gen = J.gen
        /\ j.redirect = J.redirect
    BY <1>1, <1>7 DEF CommitPrune, Goto, Job
  <2>3. FileOK(j, disk', txn')
    BY <1>1, <2>1, <2>2 DEF FileOK, Unwritten, Written
  <2> QED
    BY <1>1, <2>1, <2>2, <2>3, OneStep
<1> QED
  BY <1>2, <1>3, <1>4, <1>5, <1>6, <1>7 DEF Prune

\* The checks before a file is written, and the writing: no row names the file yet.
LEMMA WriteFiles ==
    ASSUME IInv, Alone, FilesInv, NEW p \in Procs,
           SaveCheck(p) \/ MaterializeCheck(p) \/ Prefill(p) \/ Rename(p) \/ AddSave(p)
    PROVE  FilesInv'
<1> DEFINE J == job[p]
<1>1. /\ J \in Job /\ JobOK(p, J, txn) /\ FileOK(J, disk, txn) /\ job \in [Procs -> Job]
      /\ disk \in [Ids -> Texts \cup {NoFile}]
  BY OldFiles
<1>2. J.at \in {"check", "prefill", "rename", "addSave"} /\ UNCHANGED <<db, txn>>
  BY DEF SaveCheck, MaterializeCheck, Prefill, Rename, AddSave, At
<1>3. txn = NoTxn /\ db \in Tables /\ FilesOf(db, disk)
  BY <1>1, <1>2, OldFiles DEF FileOK
<1>4. CASE SaveCheck(p)
  <2>1. PICK text \in Texts, content \in Texts, gen \in Texts \cup {None} :
          LET newGen == gen # None /\ db[Plain(gen)] = Absent
              file == IF db[Plain(text)] = Absent THEN Plain(text) ELSE Plain(gen)
          IN /\ Upto(text, content)
             /\ gen # None => <<text, gen>> \in Below /\ Upto(gen, content)
             /\ IF (db[Plain(text)] # Absent /\ ~newGen) \/ BinExists(file)
                  THEN Done(p)
                  ELSE job' = [job EXCEPT ![p] =
                        [@ EXCEPT !.at = "rename", !.text = text, !.content = content,
                                  !.file = file, !.gen = IF newGen THEN gen ELSE None]]
    BY <1>4 DEF SaveCheck
  <2> DEFINE newGen == gen # None /\ db[Plain(gen)] = Absent
             file == IF db[Plain(text)] = Absent THEN Plain(text) ELSE Plain(gen)
             g == IF newGen THEN gen ELSE None
             j == [J EXCEPT !.at = "rename", !.text = text, !.content = content,
                            !.file = file, !.gen = g]
  <2>2. J.at = "check" /\ UNCHANGED disk
    BY <1>4 DEF SaveCheck, At
  <2>3. CASE Done(p)
    BY <1>2, <2>2, <2>3, QuietEnd
  <2>4. CASE ~Done(p)
    <3>1. /\ db[Plain(text)] = Absent \/ newGen
          /\ disk[file] = NoFile
          /\ job' = [job EXCEPT ![p] = j]
      BY <2>1, <2>4 DEF BinExists
    <3>2. Upto(Text(file), content)
      BY <2>1, <3>1, TextIds
    <3>3. g # None => Upto(g, content)
      BY <2>1
    <3> HIDE DEF file, g, newGen
    <3>4. j.at = "rename" /\ j.content = content /\ j.file = file /\ j.gen = g /\ j.op = "save"
      BY <1>1, <1>4 DEF Job, SaveCheck
    <3> HIDE DEF j
    <3>5. FileOK(j, disk, txn)
      BY <1>3, <3>1, <3>2, <3>3, <3>4 DEF FileOK, Unwritten, Written
    <3> QED
      BY <1>2, <2>2, <3>1, <3>5, QuietStep
  <2> QED
    BY <2>3, <2>4
<1>5. CASE MaterializeCheck(p)
  <2>1. J.at = "check" /\ UNCHANGED disk /\ "evict" \notin Ops
    BY <1>5 DEF MaterializeCheck, At, Alone
  <2>2. CASE Done(p)
    BY <1>2, <2>1, <2>2, QuietEnd
  <2>3. CASE ~Done(p)
    <3>1. PICK pin \in BOOLEAN : job' = [job EXCEPT ![p].at = "prefill", ![p].pin = pin]
      BY <1>5, <2>1, <2>3 DEF MaterializeCheck
    <3>2. disk[Anchor(J.text)] = NoFile
      BY <1>5, <2>3 DEF MaterializeCheck, BinExists
    <3> DEFINE j == [J EXCEPT !.at = "prefill", !.pin = pin]
    <3>3. job' = [job EXCEPT ![p] = j] /\ j.at = "prefill" /\ j.text = J.text /\ j.gen = J.gen
      BY <1>1, <3>1 DEF Job
    <3>4. FileOK(j, disk, txn)
      BY <1>1, <1>3, <2>1, <3>2, <3>3 DEF FileOK, Unwritten, Written
    <3> QED
      BY <1>2, <2>1, <3>3, <3>4, QuietStep
  <2> QED
    BY <2>2, <2>3
<1>6. CASE Prefill(p)
  <2>1. J.at = "prefill" /\ UNCHANGED disk
    BY <1>6 DEF Prefill, At
  <2>2. CASE Done(p)
    BY <1>2, <2>1, <2>2, QuietEnd
  <2>3. CASE ~Done(p)
    <3> DEFINE j == [J EXCEPT !.at = "rename", !.file = Anchor(J.text), !.content = J.text]
    <3>1. job' = [job EXCEPT ![p] = j]
      BY <1>1, <1>6, <2>3 DEF Prefill
    <3>2. /\ j.at = "rename" /\ j.file = Anchor(J.text) /\ j.content = J.text
          /\ j.gen = J.gen /\ j.text = J.text
      BY <1>1 DEF Job
    <3>3. /\ disk[Anchor(J.text)] = NoFile /\ J.gen = None
          /\ Text(Anchor(J.text)) = J.text
      BY <1>1, <2>1, TextIds DEF FileOK, Unwritten, JobOK
    <3> HIDE DEF j
    <3>4. FileOK(j, disk, txn)
      BY <1>3, <3>2, <3>3 DEF FileOK, Unwritten, Written, Upto
    <3> QED
      BY <1>2, <2>1, <3>1, <3>4, QuietStep
  <2> QED
    BY <2>2, <2>3
<1>7. CASE Rename(p)
  <2> DEFINE next == IF J.op = "save" /\ J.file # Plain(J.text) THEN "genParent" ELSE "parent"
             j == [J EXCEPT !.at = next]
  <2>1. /\ J.at = "rename" /\ disk' = [disk EXCEPT ![J.file] = J.content]
        /\ job' = [job EXCEPT ![p] = j]
    BY <1>1, <1>7 DEF Rename, At, Goto
  <2>2. /\ J.file \in Ids /\ J.content \in Texts /\ disk[J.file] = NoFile
        /\ Upto(Text(J.file), J.content) /\ (J.gen # None => Upto(J.gen, J.content))
    BY <1>1, <2>1 DEF JobOK, Writing, FileOK
  <2>3. FilesOf(db, disk')
    BY <1>1, <1>3, <2>1, <2>2, FilesWritten
  <2>4. /\ j.at = next /\ next \in {"genParent", "parent"} /\ j.file = J.file
        /\ j.gen = J.gen /\ j.op = J.op /\ j.text = J.text
        /\ J.op = "materialize" => J.file = Anchor(J.text)
    BY <1>1, <2>1 DEF Job, FileOK
  <2>5. disk'[J.file] = J.content /\ J.content # NoFile
    BY <1>1, <2>1, <2>2, NamesAssumption
  <2>6. FileOK(j, disk', txn')
    <3> HIDE DEF j, next
    <3> QED
      BY <1>2, <1>3, <2>2, <2>4, <2>5 DEF FileOK, Unwritten, Written, Covers
  <2> QED
    BY <1>2, <1>3, <2>1, <2>3, <2>6, OneStep
<1>8. CASE AddSave(p)
  <2>1. J.at = "addSave"
    BY <1>8 DEF AddSave, At
  <2>2. /\ J.file \in Ids /\ J.content \in Texts /\ disk[J.file] = NoFile
        /\ Upto(Text(J.file), J.content) /\ (J.gen # None => Upto(J.gen, J.content))
    BY <1>1, <2>1 DEF JobOK, Writing, FileOK
  <2>3. CASE disk' = [disk EXCEPT ![J.file] = J.content] /\ Goto(p, "insert")
    <3> DEFINE j == [J EXCEPT !.at = "insert"]
    <3>1. /\ job' = [job EXCEPT ![p] = j]
          /\ j.at = "insert" /\ j.file = J.file /\ j.gen = J.gen /\ j.op = "add"
      BY <1>1, <2>1, <2>3 DEF Job, Goto, JobOK
    <3>2. FilesOf(db, disk')
      BY <1>1, <1>3, <2>2, <2>3, FilesWritten
    <3>3. disk'[J.file] = J.content /\ J.content # NoFile
      BY <1>1, <2>2, <2>3, NamesAssumption
    <3> HIDE DEF j
    <3>4. FileOK(j, disk', txn')
      BY <1>2, <1>3, <2>2, <3>1, <3>3 DEF FileOK, Unwritten, Written, Covers
    <3> QED
      BY <1>2, <1>3, <3>1, <3>2, <3>4, OneStep
  <2>4. CASE disk' = [disk EXCEPT ![J.file] = NoFile] /\ Done(p)
    <3>1. FilesOf(db, disk')
      BY <1>1, <1>3, <2>2, <2>4, FilesWritten
    <3> QED
      BY <1>2, <1>3, <2>4, <3>1, NoJobFiles, OneStep DEF Done
  <2> QED
    BY <1>8, <2>3, <2>4 DEF AddSave
<1> QED
  BY <1>4, <1>5, <1>6, <1>7, <1>8

\* The steps that read a parent.  Every ancestor is a prefix, so the new file, which
\* restores the node, restores the ancestor whose turn it is.
LEMMA ReadFiles ==
    ASSUME IInv, Alone, FilesInv, NEW p \in Procs,
           FindParent(p) \/ FindGenParent(p) \/ UpdateStart(p)
    PROVE  FilesInv'
<1> DEFINE J == job[p]
<1>1. /\ J \in Job /\ JobOK(p, J, txn) /\ FileOK(J, disk, txn) /\ job \in [Procs -> Job]
      /\ disk \in [Ids -> Texts \cup {NoFile}]
  BY OldFiles
<1>2. J.at \in {"parent", "genParent", "updateStart"} /\ UNCHANGED <<db, txn, disk>>
  BY DEF FindParent, FindGenParent, UpdateStart, At
<1>3. txn = NoTxn /\ db \in Tables /\ TreeOf(db)
  BY <1>1, <1>2, OldFiles DEF FileOK
<1>4. Covers(disk, J.file, Text(J.file)) /\ (J.gen # None => Covers(disk, J.file, J.gen))
  BY <1>1, <1>2 DEF FileOK, Written
<1>5. CASE FindParent(p) \/ FindGenParent(p)
  <2>1. PICK step, parent :
          /\ step \in {"insert", "insertGen"}
          /\ job' = [job EXCEPT ![p].at = step, ![p].parent = parent]
          /\ step = "insert" => J.at = "parent"
    BY <1>5 DEF FindParent, FindGenParent, At
  <2> DEFINE j == [J EXCEPT !.at = step, !.parent = parent]
  <2>2. /\ job' = [job EXCEPT ![p] = j]
        /\ j.at = step /\ j.file = J.file /\ j.gen = J.gen
        /\ step = "insert" /\ j.op = "materialize" => j.file = Anchor(j.text)
    BY <1>1, <2>1 DEF Job, FileOK
  <2> HIDE DEF j
  <2>3. FileOK(j, disk, txn)
    BY <1>3, <1>4, <2>1, <2>2 DEF FileOK, Unwritten, Written
  <2> QED
    BY <1>2, <2>2, <2>3, QuietStep
<1>6. CASE UpdateStart(p)
  <2> DEFINE parent == IF db[J.file] = Absent THEN None ELSE db[J.file].parent
             j == [J EXCEPT !.at = "update", !.parent = parent]
  <2>1. J.at = "updateStart" /\ J.file \in Ids
    BY <1>1, <1>6 DEF UpdateStart, At, JobOK, Writing
  <2>2. /\ job' = [job EXCEPT ![p] = j]
        /\ j.at = "update" /\ j.file = J.file /\ j.gen = J.gen /\ j.parent = parent
    BY <1>1, <1>6 DEF UpdateStart, Job
  <2>3. parent # None => Covers(disk, J.file, Text(parent))
    <3> SUFFICES ASSUME parent # None PROVE Covers(disk, J.file, Text(parent))
      OBVIOUS
    <3>1. J.file \in Present(db) /\ parent = db[J.file].parent
      BY <2>1 DEF Present
    <3>2. parent \in Present(db) /\ <<Text(parent), Text(J.file)>> \in Below
      BY <1>3, <3>1 DEF TreeOf
    <3>3. parent \in Ids
      BY <3>2 DEF Present
    <3> QED
      BY <1>1, <1>4, <2>1, <3>2, <3>3, IdText, CoversUp
  <2> HIDE DEF j, parent
  <2>4. FileOK(j, disk, txn)
    BY <1>3, <1>4, <2>2, <2>3 DEF FileOK, Unwritten, Written
  <2> QED
    BY <1>2, <2>2, <2>4, QuietStep
<1> QED
  BY <1>5, <1>6

\* The steps that insert a row.
LEMMA InsertFiles ==
    ASSUME IInv, Alone, FilesInv, NEW p \in Procs,
           Insert(p) \/ InsertAnchorRow(p) \/ InsertGen(p)
    PROVE  FilesInv'
<1> DEFINE J == job[p]
<1>1. /\ J \in Job /\ JobOK(p, J, txn) /\ FileOK(J, disk, txn) /\ job \in [Procs -> Job]
      /\ disk \in [Ids -> Texts \cup {NoFile}]
  BY OldFiles
<1>2. /\ J.at \in {"insert", "row", "insertGen"} /\ txn = NoTxn /\ UNCHANGED <<txn, disk>>
      /\ J.file \in Ids
  BY <1>1 DEF Insert, InsertAnchorRow, InsertGen, At, JobOK, Writing
<1>3. db \in Tables /\ TreeOf(db) /\ FilesOf(db, disk)
  BY <1>2, OldFiles
<1>4. Covers(disk, J.file, Text(J.file)) /\ (J.gen # None => Covers(disk, J.file, J.gen))
  BY <1>1, <1>2 DEF FileOK, Written
<1>5. ASSUME NEW e, FilesOf(e, disk), db' = e, Done(p) PROVE FilesInv'
  BY <1>2, <1>5, NoJobFiles, OneStep DEF Done
<1>6. CASE Insert(p)
  <2> DEFINE evicted == J.op = "evict" \/ (J.op = "materialize" /\ J.file # Anchor(J.text))
             next == CASE J.op = "save" -> IF J.gen # None THEN "genParent" ELSE "updateStart"
                       [] J.op = "materialize" -> IF evicted THEN "prefill" ELSE "row"
                       [] OTHER -> "idle"
             pin == J.pin /\ ~evicted
             e == [db EXCEPT ![J.file] = Row(J.parent, J.file, pin)]
  <2>1. CASE ~CanInsert(db, J.file, J.parent)
    BY <1>3, <1>5, <1>6, <2>1 DEF Insert
  <2>2. CASE CanInsert(db, J.file, J.parent)
    <3>1. db' = e /\ (IF next = "idle" THEN Done(p) ELSE Goto(p, next))
      BY <1>6, <2>2 DEF Insert
    <3>2. FilesOf(e, disk)
      <4> HIDE DEF pin
      <4> QED
        BY <1>2, <1>3, <1>4, FilesInsert
    <3>3. CASE next = "idle"
      BY <1>5, <3>1, <3>2, <3>3
    <3>4. CASE next # "idle"
      <4> DEFINE j == [J EXCEPT !.at = next]
      <4>1. next \in {"genParent", "updateStart", "row"}
        BY <1>1, <1>6, <3>4 DEF FileOK, Insert, At
      <4>2. job' = [job EXCEPT ![p] = j]
        BY <3>1, <3>4 DEF Goto
      <4> HIDE DEF next
      <4>3. j.at = next /\ j.file = J.file /\ j.gen = J.gen
        BY <1>1 DEF Job
      <4>4. FileOK(j, disk', txn')
        BY <1>2, <1>4, <4>1, <4>3 DEF FileOK, Unwritten, Written
      <4> HIDE DEF e, j
      <4> QED
        BY <1>2, <3>1, <3>2, <4>2, <4>4, OneStep
    <3> QED
      BY <3>3, <3>4
  <2> QED
    BY <2>1, <2>2
<1>7. CASE InsertAnchorRow(p)
  <2>1. /\ db' = IF db[J.file] = Absent THEN db ELSE [db EXCEPT ![J.file].row = TRUE]
        /\ Done(p)
    BY <1>7 DEF InsertAnchorRow
  <2>2. CASE db[J.file] = Absent
    BY <1>3, <1>5, <2>1, <2>2
  <2>3. CASE db[J.file] # Absent
    <3>1. J.file \in Present(db)
      BY <1>2, <2>3 DEF Present
    <3>2. FilesOf([db EXCEPT ![J.file].row = TRUE], disk)
      BY <1>3, <3>1, FilesIndexed
    <3> QED
      BY <1>5, <2>1, <2>3, <3>2
  <2> QED
    BY <2>2, <2>3
<1>8. CASE InsertGen(p)
  <2> DEFINE n == Plain(J.gen)
             e == [db EXCEPT ![n] = Row(J.parent, J.file, FALSE)]
  <2>1. /\ J.at = "insertGen" /\ J.gen \in Texts /\ J.gen # None
        /\ n \in Ids /\ Text(n) = J.gen
    BY <1>1, <1>8, TextIds, NamesAssumption DEF InsertGen, At, JobOK
  <2>2. CASE ~CanInsert(db, n, J.parent)
    BY <1>3, <1>5, <1>8, <2>2 DEF InsertGen
  <2>3. CASE CanInsert(db, n, J.parent)
    <3> DEFINE j == [J EXCEPT !.at = "updateStart"]
    <3>1. db' = e /\ job' = [job EXCEPT ![p] = j]
      BY <1>8, <2>3 DEF InsertGen, Goto
    <3>2. FilesOf(e, disk)
      BY <1>3, <1>4, <2>1, FilesInsert
    <3>3. j.at = "updateStart" /\ j.file = J.file /\ j.gen = J.gen
      BY <1>1 DEF Job
    <3> HIDE DEF e, j
    <3>4. FileOK(j, disk', txn')
      BY <1>2, <1>4, <3>3 DEF FileOK, Unwritten, Written
    <3> QED
      BY <1>2, <3>1, <3>2, <3>4, OneStep
  <2> QED
    BY <2>2, <2>3
<1> QED
  BY <1>6, <1>7, <1>8

\* The walk up the ancestors: each is pointed at the new file, which restores it, and
\* its old file goes only when no row names it.
LEMMA UpdateFiles ==
    ASSUME IInv, Alone, FilesInv, NEW p \in Procs, UpdateAncestor(p) \/ UpdateCommit(p)
    PROVE  FilesInv'
<1> DEFINE J == job[p]
<1>1. /\ J \in Job /\ JobOK(p, J, txn) /\ FileOK(J, disk, txn) /\ job \in [Procs -> Job]
      /\ disk \in [Ids -> Texts \cup {NoFile}]
      /\ txn = NoTxn => db \in Tables /\ TreeOf(db) /\ FilesOf(db, disk)
      /\ txn # NoTxn => txn.db \in Tables /\ TreeOf(txn.db) /\ FilesOf(txn.db, disk)
  BY OldFiles
<1>2. J.at \in {"update", "updateCommit"} /\ J.file \in Ids
  BY <1>1 DEF UpdateAncestor, UpdateCommit, At, JobOK, Writing
<1>3. /\ Covers(disk, J.file, Text(J.file)) /\ (J.gen # None => Covers(disk, J.file, J.gen))
      /\ J.parent # None => Covers(disk, J.file, Text(J.parent))
  BY <1>1, <1>2 DEF FileOK, Written
<1>4. ASSUME NEW d \in Tables, TreeOf(d), J.parent \in Present(d), d[J.parent].parent # None
      PROVE  Covers(disk, J.file, Text(d[J.parent].parent))
  <2>1. /\ d[J.parent].parent \in Present(d)
        /\ <<Text(d[J.parent].parent), Text(J.parent)>> \in Below
    BY <1>4 DEF TreeOf
  <2>2. J.parent \in Ids /\ J.parent # None /\ d[J.parent].parent \in Ids
    BY <1>4, <2>1, NamesAssumption DEF Present
  <2> QED
    BY <1>1, <1>2, <1>3, <2>1, <2>2, IdText, CoversUp
<1>5. CASE UpdateAncestor(p)
  <2> DEFINE n == J.parent
             d == [db EXCEPT ![n].bin = J.file]
  <2>1. J.at = "update" /\ UNCHANGED db
    BY <1>5 DEF UpdateAncestor, At
  <2>2. txn = NoTxn
    BY <1>1, <2>1 DEF FileOK
  <2>3. CASE n = None \/ db[n] = Absent
    BY <1>5, <2>1, <2>3, QuietEnd DEF UpdateAncestor
  <2>4. CASE ~(n = None \/ db[n] = Absent)
    <3>1. n \in Present(db) /\ n \in Ids /\ db[n] \in Node
      BY <1>1, <2>2, <2>4 DEF Job, Present, Tables
    <3>2. CASE db[n].bin = J.file
      <4> DEFINE j == [J EXCEPT !.parent = db[n].parent]
      <4>1. job' = [job EXCEPT ![p] = j] /\ UNCHANGED <<txn, disk>>
        BY <1>1, <1>5, <2>4, <3>2 DEF UpdateAncestor
      <4>2. /\ j.at = "update" /\ j.file = J.file /\ j.gen = J.gen
            /\ j.parent = db[n].parent
        BY <1>1, <2>1 DEF Job
      <4>3. db[n].parent # None => Covers(disk, J.file, Text(db[n].parent))
        BY <1>1, <1>4, <2>2, <3>1
      <4> HIDE DEF j
      <4>4. FileOK(j, disk, txn)
        BY <1>3, <2>2, <4>2, <4>3 DEF FileOK, Unwritten, Written
      <4> QED
        BY <2>1, <4>1, <4>4, QuietStep
    <3>3. CASE db[n].bin # J.file
      <4> DEFINE j == [J EXCEPT !.at = "updateCommit"]
      <4>1. /\ txn' = [owner |-> p, db |-> d]
            /\ disk' = Unlinked(d, db[n].bin) /\ job' = [job EXCEPT ![p] = j]
        BY <1>5, <2>4, <3>3 DEF UpdateAncestor, Goto
      <4>2. Covers(disk, J.file, Text(n))
        BY <1>3, <2>4
      <4>3. d \in Tables /\ Present(d) = Present(db) /\ FilesOf(d, disk)
        BY <1>1, <1>2, <2>2, <3>1, <4>2, RedirectTree, FilesRedirect
      <4>4. d[n].bin = J.file
        BY <1>1, <2>2, <3>1 DEF Tables, Node
      <4> HIDE DEF d
      <4>5. FilesOf(d, disk')
        BY <1>1, <3>1, <4>1, <4>3, FilesUnlinked DEF Node
      <4>6. disk'[J.file] = disk[J.file]
        <5>1. CASE Refs(d, db[n].bin) = {}
          BY <1>1, <1>2, <3>3, <4>1, <5>1 DEF Unlinked
        <5>2. CASE Refs(d, db[n].bin) # {}
          BY <4>1, <5>2 DEF Unlinked
        <5> QED
          BY <5>1, <5>2
      <4>7. txn' # NoTxn /\ txn'.db = d
        BY <4>1, <4>3, NamesAssumption
      <4>8. j.at = "updateCommit" /\ j.file = J.file /\ j.gen = J.gen /\ j.parent = n
        BY <1>1 DEF Job
      <4> HIDE DEF j
      <4>9. FileOK(j, disk', txn')
        BY <1>3, <4>6, <4>8 DEF FileOK, Unwritten, Written, Covers
      <4> QED
        BY <4>1, <4>5, <4>7, <4>9, OneStep
    <3> QED
      BY <3>2, <3>3
  <2> QED
    BY <2>3, <2>4
<1>6. CASE UpdateCommit(p)
  <2> DEFINE e == txn.db
             j == [J EXCEPT !.at = "update", !.parent = e[J.parent].parent]
  <2>1. J.at = "updateCommit" /\ txn # NoTxn /\ J.parent \in Present(e)
    BY <1>1, <1>6 DEF UpdateCommit, At, JobOK
  <2>2. db' = e /\ txn' = NoTxn /\ UNCHANGED disk /\ job' = [job EXCEPT ![p] = j]
    BY <1>1, <1>6 DEF UpdateCommit
  <2>3. e \in Tables /\ TreeOf(e) /\ FilesOf(e, disk)
    BY <1>1, <2>1
  <2> HIDE DEF e
  <2>4. /\ j.at = "update" /\ j.file = J.file /\ j.gen = J.gen
        /\ j.parent = e[J.parent].parent
    BY <1>1 DEF Job
  <2>5. e[J.parent].parent # None => Covers(disk, J.file, Text(e[J.parent].parent))
    BY <1>4, <2>1, <2>3
  <2> HIDE DEF j
  <2>6. FileOK(j, disk', txn')
    BY <1>3, <2>2, <2>4, <2>5 DEF FileOK, Unwritten, Written
  <2> QED
    BY <2>2, <2>3, <2>6, OneStep
<1> QED
  BY <1>5, <1>6

\* FilesInv holds in every reachable state.
LEMMA ReachableFiles ==
    ASSUME Alone
    PROVE  Spec => []FilesInv
<1>1. Init => FilesInv
  <2> SUFFICES ASSUME Init PROVE FilesInv
    OBVIOUS
  <2>1. Present(Current) = {} /\ txn = NoTxn /\ \A p \in Procs : job[p] = NoJob
    BY DEF Init, Present, Current
  <2> QED
    BY <2>1, NoJobFiles DEF FilesInv, FilesOf
<1>2. IInv /\ FilesInv /\ [Next]_vars => FilesInv'
  <2> SUFFICES ASSUME IInv, FilesInv, [Next]_vars PROVE FilesInv'
    OBVIOUS
  <2>1. CASE UNCHANGED vars
    BY <2>1 DEF vars, FilesInv, Current
  <2>2. ASSUME NEW p \in Procs, Write(p) PROVE FilesInv'
    BY <2>2, WriteFiles, ReadFiles, InsertFiles, UpdateFiles DEF Write
  <2>3. ASSUME NEW p \in Procs, Fail(p) PROVE FilesInv'
    BY <2>3 DEF Fail, Alone
  <2> QED
    BY <2>1, <2>2, <2>3, BeginFiles, PruneFiles DEF Next
<1> QED
  BY <1>1, <1>2, ReachableIInv, PTL DEF Spec

\* For one process that is not killed and evicts no slot: whatever redirects, shared
\* files and cascades follow each other, and in the middle of each of them, a file that
\* a row names restores at least the tokens of the row.
THEOREM BinsCoverNodes ==
    ASSUME Alone
    PROVE  Spec => []BinCoversNode
<1>1. FilesInv => BinCoversNode
  BY DEF FilesInv, FilesOf, Covers, BinCoversNode
<1> QED
  BY <1>1, ReachableFiles, PTL

\* For such a process, the last row that names a file goes before the file does, in
\* prune, prune_global and update_ancestors_bin alike.
THEOREM NoRowDangles ==
    ASSUME Alone
    PROVE  Spec => []NoDanglingRow
<1>1. FilesInv => NoDanglingRow
  BY DEF FilesInv, FilesOf, Covers, NoDanglingRow
<1> QED
  BY <1>1, ReachableFiles, PTL
=============================================================================
