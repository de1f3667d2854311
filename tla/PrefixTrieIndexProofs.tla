------------------------ MODULE PrefixTrieIndexProofs ------------------------
(***************************************************************************)
(* The index of PrefixTrie's anchor nodes, for any number of processes and *)
(* all operations, when nothing fails half way.                            *)
(*                                                                         *)
(* AnchorsAreIndexed speaks of the moments between operations.  IndexedOf  *)
(* adds what is true in between: an anchor node without its row has a      *)
(* process that is about to insert that row.  NameOK says that no other    *)
(* operation inserts an anchor node.                                       *)
(***************************************************************************)
EXTENDS PrefixTrieProofs

\* In table d an anchor node has its row in the anchors table, or the process that
\* inserted it is about to insert that row.
IndexedOf(d) ==
    \A t \in Anchors :
        d[Anchor(t)] # Absent =>
            \/ d[Anchor(t)].row
            \/ \E p \in Procs : job[p].at = "row" /\ job[p].file = Anchor(t)

\* Only a materialization writes an anchor node.
NameOK(j) ==
    j.at \in {"rename", "parent", "insert", "addSave"} =>
        \/ \E s \in Texts : j.file = Plain(s)
        \/ j.op = "materialize" /\ j.file = Anchor(j.text)

IndexInv ==
    /\ IndexedOf(db) /\ (txn # NoTxn => IndexedOf(txn.db))
    /\ \A p \in Procs : NameOK(job[p])

\* The table e has no anchor node that d has not, and keeps their index.
KeepsIndex(d, e) ==
    \A t \in Anchors :
        e[Anchor(t)] # Absent => d[Anchor(t)] # Absent /\ (d[Anchor(t)].row => e[Anchor(t)].row)

\* A plain node is no anchor node.
LEMMA PlainOrAnchor == \A s \in Texts, t \in Anchors : Plain(s) # Anchor(t)
BY DEF Plain, Anchor

\* A process that is not about to insert into the anchors table leaves the rest alone.
LEMMA IndexFrame ==
    ASSUME NEW p \in Procs, job[p].at # "row", \A q \in Procs \ {p} : job'[q] = job[q],
           NEW d, IndexedOf(d), NEW e, KeepsIndex(d, e)
    PROVE  \A t \in Anchors :
               e[Anchor(t)] # Absent =>
                   \/ e[Anchor(t)].row
                   \/ \E q \in Procs : job'[q].at = "row" /\ job'[q].file = Anchor(t)
<1> SUFFICES ASSUME NEW t \in Anchors, e[Anchor(t)] # Absent, ~e[Anchor(t)].row
             PROVE  \E q \in Procs : job'[q].at = "row" /\ job'[q].file = Anchor(t)
  OBVIOUS
<1>1. d[Anchor(t)] # Absent /\ ~d[Anchor(t)].row
  BY DEF KeepsIndex
<1>2. PICK q \in Procs : job[q].at = "row" /\ job[q].file = Anchor(t)
  BY <1>1 DEF IndexedOf
<1> QED
  BY <1>2

\* The step of one process.
LEMMA IndexStep ==
    ASSUME IInv, IndexInv, NEW p \in Procs, job[p].at # "row",
           NEW j, job' = [job EXCEPT ![p] = j], NameOK(j),
           \/ KeepsIndex(db, db')
           \/ txn # NoTxn /\ KeepsIndex(txn.db, db'),
           txn' # NoTxn => \/ KeepsIndex(db, txn'.db)
                           \/ txn # NoTxn /\ KeepsIndex(txn.db, txn'.db)
    PROVE  IndexInv'
<1>1. job'[p] = j /\ \A q \in Procs \ {p} : job'[q] = job[q]
  BY DEF IInv, TypeOK
<1>2. \A q \in Procs : NameOK(job'[q])
  BY <1>1 DEF IndexInv
<1>3. IndexedOf(db)'
  BY <1>1, IndexFrame DEF IndexInv, IndexedOf
<1>4. txn' # NoTxn => IndexedOf(txn.db)'
  BY <1>1, IndexFrame DEF IndexInv, IndexedOf
<1> QED
  BY <1>2, <1>3, <1>4 DEF IndexInv, NameOK

\* A table that stays keeps its index.
LEMMA KeepsSame == \A d : KeepsIndex(d, d)
BY DEF KeepsIndex

\* A step that leaves the tables alone.
LEMMA IndexQuiet ==
    ASSUME IInv, IndexInv, NEW p \in Procs, job[p].at # "row", UNCHANGED <<db, txn>>,
           NEW j, job' = [job EXCEPT ![p] = j], NameOK(j)
    PROVE  IndexInv'
BY KeepsSame, IndexStep

\* A process between operations writes nothing.
LEMMA NameNoJob == NameOK(NoJob)
BY DEF NameOK, NoJob

\* An operation that ends without touching the tables.
LEMMA IndexEnd ==
    ASSUME IInv, IndexInv, NEW p \in Procs, job[p].at # "row", UNCHANGED <<db, txn>>, Done(p)
    PROVE  IndexInv'
BY NameNoJob, IndexQuiet DEF Done

\* Deletion keeps the index of the rows that are left.
LEMMA KeepsWithout ==
    ASSUME NEW d \in Tables, NEW n \in Ids
    PROVE  KeepsIndex(d, Without(d, n))
<1> SUFFICES ASSUME NEW t \in Anchors, Without(d, n)[Anchor(t)] # Absent
             PROVE  /\ d[Anchor(t)] # Absent
                    /\ d[Anchor(t)].row => Without(d, n)[Anchor(t)].row
  BY DEF KeepsIndex
<1> DEFINE m == Anchor(t)
<1>1. m \in Ids
  BY TextIds
<1>2. m # n
  BY <1>1 DEF Without
<1>3. CASE m \in Children(d, n)
  <2>1. m \in Present(d) /\ d[m] \in Node /\ Without(d, n)[m] = [d[m] EXCEPT !.parent = None]
    BY <1>1, <1>2, <1>3 DEF Without, Children, Present, Tables
  <2> HIDE DEF m
  <2>2. Without(d, n)[m].row = d[m].row
    BY <2>1 DEF Node
  <2> QED
    BY <2>1, <2>2 DEF m, Present
<1>4. CASE m \notin Children(d, n)
  BY <1>1, <1>2, <1>4 DEF Without
<1> QED
  BY <1>3, <1>4

\* Redirection keeps the index.
LEMMA KeepsRedirect ==
    ASSUME NEW d \in Tables, NEW n \in Present(d), NEW f, NEW e, e = [d EXCEPT ![n].bin = f]
    PROVE  KeepsIndex(d, e)
<1> SUFFICES ASSUME NEW t \in Anchors, e[Anchor(t)] # Absent
             PROVE  d[Anchor(t)] # Absent /\ (d[Anchor(t)].row => e[Anchor(t)].row)
  BY DEF KeepsIndex
<1> DEFINE m == Anchor(t)
<1>1. m \in Ids /\ n \in Ids /\ d[n] \in Node /\ d[n] # Absent
  BY TextIds, NamesAssumption DEF Present, Tables
<1> HIDE DEF m
<1>2. m = n => e[m].row = d[m].row
  BY <1>1 DEF Tables, Node
<1>3. m # n => e[m] = d[m]
  BY <1>1 DEF Tables
<1> QED
  BY <1>1, <1>2, <1>3 DEF m

\* One change of a table after another keeps the index.
LEMMA KeepsBoth ==
    ASSUME NEW d, NEW e, NEW f, KeepsIndex(d, e), KeepsIndex(e, f)
    PROVE  KeepsIndex(d, f)
BY DEF KeepsIndex

\* A plain node is inserted.
LEMMA KeepsInsert ==
    ASSUME NEW d \in Tables, NEW s \in Texts, NEW r, NEW e, e = [d EXCEPT ![Plain(s)] = r]
    PROVE  KeepsIndex(d, e)
BY TextIds, PlainOrAnchor DEF KeepsIndex, Tables

\* One round of the cascade.
LEMMA CascadeIndex ==
    ASSUME IInv, IndexInv, NEW p \in Procs, NEW d \in Tables, TreeOf(d),
           job[p].cur \in Present(d), job[p].at # "row",
           d = db \/ (txn # NoTxn /\ d = txn.db), CascadeFrom(p, d), UNCHANGED db
    PROVE  IndexInv'
<1> DEFINE n == job[p].cur
           parent == d[n].parent
           d1 == Without(d, n)
           siblings == Children(d1, parent)
<1>1. n \in Ids /\ d1 \in Tables /\ KeepsIndex(d, d1) /\ job \in [Procs -> Job]
  BY WithoutTree, KeepsWithout DEF Present, IInv, TypeOK
<1>2. \E d2, target :
        /\ KeepsIndex(d1, d2)
        /\ txn' = [owner |-> p, db |-> d2]
        /\ \E step \in {"unlink", "cascade"} :
            job' = [job EXCEPT ![p].at = step,
                               ![p].cur = IF step = "cascade" THEN parent ELSE None,
                               ![p].redirect = IF step = "cascade" THEN target ELSE None,
                               ![p].bins = @ \cup {d[n].bin}]
  <2>1. CASE parent = None \/ siblings = {}
    <3> HIDE DEF d1
    <3> QED
      BY <2>1, KeepsSame DEF CascadeFrom, d1
  <2>2. CASE ~(parent = None \/ siblings = {})
    <3>1. parent \in Present(d1)
      <4>1. PICK c \in siblings : TRUE
        BY <2>2
      <4>2. c \in Present(d1) /\ d1[c].parent = parent /\ TreeOf(d1)
        BY <1>1, <4>1, WithoutTree DEF Children
      <4> HIDE DEF d1, parent
      <4> QED
        BY <2>2, <4>2 DEF TreeOf
    <3>2. \A target : KeepsIndex(d1, [d1 EXCEPT ![parent].bin = target])
      BY <1>1, <3>1, KeepsRedirect
    <3>3. PICK target : \E step \in {"unlink", "cascade"} :
            /\ txn' = [owner |-> p, db |-> [d1 EXCEPT ![parent].bin = target]]
            /\ job' = [job EXCEPT ![p].at = step,
                               ![p].cur = IF step = "cascade" THEN parent ELSE None,
                               ![p].redirect = IF step = "cascade" THEN target ELSE None,
                               ![p].bins = @ \cup {d[n].bin}]
      BY <2>2 DEF CascadeFrom
    <3> QED
      BY <3>2, <3>3
  <2> QED
    BY <2>1, <2>2
<1>3. PICK d2, target :
        /\ KeepsIndex(d1, d2)
        /\ txn' = [owner |-> p, db |-> d2]
        /\ \E step \in {"unlink", "cascade"} :
            job' = [job EXCEPT ![p].at = step,
                               ![p].cur = IF step = "cascade" THEN parent ELSE None,
                               ![p].redirect = IF step = "cascade" THEN target ELSE None,
                               ![p].bins = @ \cup {d[n].bin}]
  BY <1>2
<1>4. PICK step \in {"unlink", "cascade"} :
        job' = [job EXCEPT ![p].at = step,
                           ![p].cur = IF step = "cascade" THEN parent ELSE None,
                           ![p].redirect = IF step = "cascade" THEN target ELSE None,
                           ![p].bins = @ \cup {d[n].bin}]
  BY <1>3
<1> DEFINE j == [job[p] EXCEPT !.at = step,
                               !.cur = IF step = "cascade" THEN parent ELSE None,
                               !.redirect = IF step = "cascade" THEN target ELSE None,
                               !.bins = @ \cup {d[n].bin}]
<1>5. job' = [job EXCEPT ![p] = j]
  BY <1>1, <1>4
<1>6. j.at = step
  BY OldJob DEF Job
<1> HIDE DEF j
<1>7. NameOK(j)
  BY <1>6 DEF NameOK
<1>8. KeepsIndex(d, txn'.db)
  BY <1>1, <1>3, KeepsBoth
<1> QED
  BY <1>5, <1>7, <1>8, KeepsSame, IndexStep

\* Operations that start.
LEMMA BeginIndex ==
    ASSUME IInv, IndexInv, NEW p \in Procs, Begin(p)
    PROVE  IndexInv'
<1>1. job[p].at # "row" /\ UNCHANGED <<db, txn>> /\ job \in [Procs -> Job]
  BY DEF Begin, Start, StartMaterialize, StartEvict, StartAdd, At, IInv, TypeOK
<1>2. ASSUME NEW j, job' = [job EXCEPT ![p] = j],
             j.at = "room" \/ \E s \in Texts : j.file = Plain(s)
      PROVE  IndexInv'
  BY <1>1, <1>2, IndexQuiet DEF NameOK
<1>3. ASSUME NEW op \in Ops, Start(p, op) PROVE IndexInv'
  <2>1. [NoJob EXCEPT !.op = op, !.at = "room"].at = "room"
    BY DEF NoJob
  <2> QED
    BY <1>2, <1>3, <2>1 DEF Start
<1>4. CASE StartMaterialize(p)
  <2>1. PICK text \in Anchors : job' = [job EXCEPT ![p] =
            [NoJob EXCEPT !.op = "materialize", !.at = "room", !.text = text]]
    BY <1>4 DEF StartMaterialize
  <2> QED
    BY <1>2, <2>1 DEF NoJob
<1>5. CASE StartEvict(p)
  <2>1. PICK s \in Texts : job' = [job EXCEPT ![p] =
            [NoJob EXCEPT !.op = "evict", !.at = "rename", !.file = Plain(s), !.content = s]]
    BY <1>5 DEF StartEvict
  <2> DEFINE j == [NoJob EXCEPT !.op = "evict", !.at = "rename", !.file = Plain(s), !.content = s]
  <2>2. j.file = Plain(s)
    BY DEF NoJob
  <2> HIDE DEF j
  <2> QED
    BY <1>2, <2>1, <2>2 DEF j
<1>6. CASE StartAdd(p)
  <2>1. PICK t \in Texts, pin \in BOOLEAN : \E parent \in ParentFor(db, t) :
            job' = [job EXCEPT ![p] =
                [NoJob EXCEPT !.op = "add", !.at = "addSave", !.file = Plain(t),
                              !.content = t, !.pin = pin, !.parent = parent]]
    BY <1>6 DEF StartAdd
  <2>2. PICK parent \in ParentFor(db, t) : job' = [job EXCEPT ![p] =
            [NoJob EXCEPT !.op = "add", !.at = "addSave", !.file = Plain(t),
                          !.content = t, !.pin = pin, !.parent = parent]]
    BY <2>1
  <2> DEFINE j == [NoJob EXCEPT !.op = "add", !.at = "addSave", !.file = Plain(t),
                                !.content = t, !.pin = pin, !.parent = parent]
  <2>3. j.file = Plain(t)
    BY DEF NoJob
  <2> HIDE DEF j
  <2> QED
    BY <1>2, <2>2, <2>3 DEF j
<1> QED
  BY <1>3, <1>4, <1>5, <1>6 DEF Begin

\* The steps of prune and prune_global.
LEMMA PruneIndex ==
    ASSUME IInv, IndexInv, NEW p \in Procs, Prune(p)
    PROVE  IndexInv'
<1> DEFINE J == job[p]
<1>1. /\ J \in Job /\ JobOK(p, J, txn) /\ job \in [Procs -> Job]
      /\ db \in Tables /\ TreeOf(db)
      /\ txn # NoTxn => txn.db \in Tables /\ TreeOf(txn.db)
  BY OldJob, OldTables DEF IInv, TypeOK
<1>2. J.at # "row"
  BY DEF Prune, PickVictim, RoomMade, NoRoom, BeginCascade, Cascade, UnlinkBin, CommitPrune, At
<1>3. ASSUME NEW at \in {"room", "check", "begin", "unlink"}, NEW j,
             job' = [job EXCEPT ![p] = j], j.at = at, UNCHANGED <<db, txn>>
      PROVE  IndexInv'
  BY <1>2, <1>3, IndexQuiet DEF NameOK
<1>4. CASE PickVictim(p)
  <2>1. PICK n : job' = [job EXCEPT ![p] = [J EXCEPT !.at = "begin", !.cur = n]]
    BY <1>1, <1>4 DEF PickVictim
  <2> QED
    BY <1>1, <1>3, <1>4, <2>1 DEF PickVictim, Job
<1>5. CASE RoomMade(p) \/ NoRoom(p)
  <2>1. Done(p) \/ job' = [job EXCEPT ![p] = [J EXCEPT !.at = "check"]]
    BY <1>5 DEF RoomMade, NoRoom, Goto
  <2> QED
    BY <1>1, <1>2, <1>3, <1>5, <2>1, IndexEnd DEF RoomMade, NoRoom, Job
<1>6. CASE BeginCascade(p) /\ db[J.cur] = Absent
  <2>1. job' = [job EXCEPT ![p] = [J EXCEPT !.at = "room", !.cur = None]]
    BY <1>1, <1>6 DEF BeginCascade
  <2> QED
    BY <1>1, <1>3, <1>6, <2>1 DEF BeginCascade, Job
<1>7. CASE BeginCascade(p) /\ db[J.cur] # Absent
  BY <1>1, <1>2, <1>7, CascadeIndex DEF BeginCascade, At, JobOK, Present
<1>8. CASE Cascade(p)
  BY <1>1, <1>2, <1>8, CascadeIndex DEF Cascade, At, JobOK
<1>9. CASE UnlinkBin(p)
  <2>1. PICK f : job' = [job EXCEPT ![p] = [J EXCEPT !.bins = @ \ {f}]]
    BY <1>1, <1>9 DEF UnlinkBin
  <2> QED
    BY <1>1, <1>3, <1>9, <2>1 DEF UnlinkBin, Job, At
<1>10. CASE CommitPrune(p)
  <2> DEFINE j == [J EXCEPT !.at = "room"]
  <2>1. job' = [job EXCEPT ![p] = j] /\ j.at = "room"
    BY <1>1, <1>10 DEF CommitPrune, Goto, Job
  <2>2. txn # NoTxn /\ db' = txn.db /\ txn' = NoTxn
    BY <1>1, <1>10 DEF CommitPrune, At, JobOK
  <2> HIDE DEF j
  <2> QED
    BY <1>2, <2>1, <2>2, KeepsSame, IndexStep DEF NameOK
<1> QED
  BY <1>4, <1>5, <1>6, <1>7, <1>8, <1>9, <1>10 DEF Prune

\* The steps of a writer before and after its insert.
LEMMA WriteIndex ==
    ASSUME IInv, IndexInv, NEW p \in Procs,
           \/ SaveCheck(p) \/ MaterializeCheck(p) \/ Prefill(p) \/ Rename(p) \/ AddSave(p)
           \/ FindParent(p) \/ FindGenParent(p) \/ UpdateStart(p)
    PROVE  IndexInv'
<1> DEFINE J == job[p]
<1>1. J \in Job /\ NameOK(J) /\ job \in [Procs -> Job]
  BY OldJob DEF IInv, TypeOK, IndexInv
<1>2. J.at # "row" /\ UNCHANGED <<db, txn>>
  BY DEF SaveCheck, MaterializeCheck, Prefill, Rename, AddSave, FindParent, FindGenParent,
         UpdateStart, At
<1>3. CASE Done(p)
  BY <1>2, <1>3, IndexEnd
<1>4. CASE SaveCheck(p) /\ ~Done(p)
  <2>0. PICK text \in Texts, content \in Texts, gen \in Texts \cup {None} :
          LET newGen == gen # None /\ db[Plain(gen)] = Absent
              file == IF db[Plain(text)] = Absent THEN Plain(text) ELSE Plain(gen)
          IN ~(db[Plain(text)] # Absent /\ ~newGen) /\
             job' = [job EXCEPT ![p] =
                        [@ EXCEPT !.at = "rename", !.text = text, !.content = content,
                                  !.file = file, !.gen = IF newGen THEN gen ELSE None]]
    BY <1>4 DEF SaveCheck
  <2> DEFINE newGen == gen # None /\ db[Plain(gen)] = Absent
             file == IF db[Plain(text)] = Absent THEN Plain(text) ELSE Plain(gen)
             g == IF newGen THEN gen ELSE None
  <2>1. /\ job' = [job EXCEPT ![p] = [@ EXCEPT !.at = "rename", !.text = text,
                                !.content = content, !.file = file, !.gen = g]]
        /\ \E s \in Texts : file = Plain(s)
    BY <2>0
  <2> HIDE DEF newGen, file, g
  <2> DEFINE j == [J EXCEPT !.at = "rename", !.text = text, !.content = content,
                            !.file = file, !.gen = g]
  <2>2. job' = [job EXCEPT ![p] = j] /\ j.file = file
    BY <1>1, <2>1 DEF Job
  <2> HIDE DEF j
  <2> QED
    BY <1>2, <2>1, <2>2, IndexQuiet DEF NameOK
<1>5. CASE MaterializeCheck(p) /\ ~Done(p)
  <2>1. CASE \E pin \in BOOLEAN : job' = [job EXCEPT ![p].at = "prefill", ![p].pin = pin]
    <3>1. PICK pin \in BOOLEAN : job' = [job EXCEPT ![p] = [J EXCEPT !.at = "prefill", !.pin = pin]]
      BY <1>1, <2>1
    <3>2. [J EXCEPT !.at = "prefill", !.pin = pin].at = "prefill"
      BY <1>1 DEF Job
    <3> QED
      BY <1>2, <3>1, <3>2, IndexQuiet DEF NameOK
  <2>2. CASE \E pin \in BOOLEAN, s \in Texts : job' = [job EXCEPT ![p] =
                [@ EXCEPT !.at = "rename", !.pin = pin, !.file = Plain(s), !.content = s]]
    <3>1. PICK pin \in BOOLEAN, s \in Texts : job' = [job EXCEPT ![p] =
                [J EXCEPT !.at = "rename", !.pin = pin, !.file = Plain(s), !.content = s]]
      BY <1>1, <2>2
    <3> DEFINE j == [J EXCEPT !.at = "rename", !.pin = pin, !.file = Plain(s), !.content = s]
    <3>2. j.file = Plain(s)
      BY <1>1 DEF Job
    <3> HIDE DEF j
    <3> QED
      BY <1>2, <3>1, <3>2, IndexQuiet DEF NameOK, j
  <2> QED
    BY <1>5, <2>1, <2>2 DEF MaterializeCheck
<1>6. CASE Prefill(p) /\ ~Done(p)
  <2> DEFINE j == [J EXCEPT !.at = "rename", !.file = Anchor(J.text), !.content = J.text]
  <2>1. job' = [job EXCEPT ![p] = j] /\ J.op = "materialize"
    BY <1>1, <1>6, OldJob DEF Prefill, At, JobOK
  <2>2. j.op = J.op /\ j.file = Anchor(J.text) /\ j.text = J.text
    BY <1>1 DEF Job
  <2> HIDE DEF j
  <2> QED
    BY <1>2, <2>1, <2>2, IndexQuiet DEF NameOK
<1>7. CASE (Rename(p) \/ AddSave(p)) /\ ~Done(p)
  <2>1. J.at \in {"rename", "addSave"} /\ \E step : job' = [job EXCEPT ![p] = [J EXCEPT !.at = step]]
    BY <1>7 DEF Rename, AddSave, At, Goto
  <2>2. PICK step : job' = [job EXCEPT ![p] = [J EXCEPT !.at = step]]
    BY <2>1
  <2> DEFINE j == [J EXCEPT !.at = step]
  <2>3. j.op = J.op /\ j.file = J.file /\ j.text = J.text
    BY <1>1 DEF Job
  <2> HIDE DEF j
  <2>4. NameOK(j)
    BY <1>1, <2>1, <2>3 DEF NameOK
  <2> QED
    BY <1>2, <2>2, <2>4, IndexQuiet DEF j
<1>8. CASE FindParent(p)
  <2>1. PICK parent : job' = [job EXCEPT ![p] = [J EXCEPT !.at = "insert", !.parent = parent]]
    BY <1>1, <1>8 DEF FindParent
  <2> DEFINE j == [J EXCEPT !.at = "insert", !.parent = parent]
  <2>2. J.at = "parent" /\ j.op = J.op /\ j.file = J.file /\ j.text = J.text
    BY <1>1, <1>8 DEF Job, FindParent, At
  <2> HIDE DEF j
  <2>3. NameOK(j)
    BY <1>1, <2>2 DEF NameOK
  <2> QED
    BY <1>2, <2>1, <2>3, IndexQuiet DEF j
<1>9. ASSUME NEW step \in {"insertGen", "update"}, NEW parent,
             job' = [job EXCEPT ![p] = [J EXCEPT !.at = step, !.parent = parent]]
      PROVE  IndexInv'
  <2> DEFINE j == [J EXCEPT !.at = step, !.parent = parent]
  <2>1. j.at = step
    BY <1>1 DEF Job
  <2> HIDE DEF j
  <2> QED
    BY <1>2, <1>9, <2>1, IndexQuiet DEF NameOK, j
<1>10. CASE FindGenParent(p)
  <2>1. PICK parent : job' = [job EXCEPT ![p].at = "insertGen", ![p].parent = parent]
    BY <1>10 DEF FindGenParent
  <2>2. job' = [job EXCEPT ![p] = [J EXCEPT !.at = "insertGen", !.parent = parent]]
    BY <1>1, <2>1
  <2> QED
    BY <1>9, <2>2
<1>11. CASE UpdateStart(p)
  <2> DEFINE parent == IF db[J.file] = Absent THEN None ELSE db[J.file].parent
  <2>1. job' = [job EXCEPT ![p] = [J EXCEPT !.at = "update", !.parent = parent]]
    BY <1>1, <1>11 DEF UpdateStart
  <2> HIDE DEF parent
  <2> QED
    BY <1>9, <2>1
<1> QED
  BY <1>3, <1>4, <1>5, <1>6, <1>7, <1>8, <1>10, <1>11

\* The inserts.  An anchor node is inserted on the way to its row in the anchors table.
LEMMA InsertIndex ==
    ASSUME IInv, IndexInv, NEW p \in Procs, Insert(p) \/ InsertGen(p)
    PROVE  IndexInv'
<1> DEFINE J == job[p]
<1>1. /\ J \in Job /\ NameOK(J) /\ JobOK(p, J, txn) /\ job \in [Procs -> Job]
      /\ db \in Tables
  BY OldJob, OldTables DEF IInv, TypeOK, IndexInv
<1>2. J.at # "row" /\ txn = NoTxn /\ UNCHANGED txn
  BY DEF Insert, InsertGen, At
<1>3. ASSUME NEW s \in Texts, NEW r, db' = [db EXCEPT ![Plain(s)] = r],
             NEW j, job' = [job EXCEPT ![p] = j],
             j.at \notin {"rename", "parent", "insert", "addSave"}
      PROVE  IndexInv'
  <2>1. KeepsIndex(db, db')
    BY <1>1, <1>3, KeepsInsert
  <2>2. NameOK(j)
    BY <1>3 DEF NameOK
  <2> QED
    BY <1>2, <1>3, <2>1, <2>2, IndexStep
<1>4. CASE UNCHANGED db /\ Done(p)
  BY <1>2, <1>4, IndexEnd
<1>5. CASE Insert(p) /\ ~(UNCHANGED db /\ Done(p))
  <2> DEFINE evicted == J.op = "evict" \/ (J.op = "materialize" /\ J.file # Anchor(J.text))
             next == CASE J.op = "save" -> IF J.gen # None THEN "genParent" ELSE "updateStart"
                       [] J.op = "materialize" -> IF evicted THEN "prefill" ELSE "row"
                       [] OTHER -> "idle"
             r == Row(J.parent, J.file, J.pin /\ ~evicted)
             j == IF next = "idle" THEN NoJob ELSE [J EXCEPT !.at = next]
  <2>1. /\ J.at = "insert" /\ db' = [db EXCEPT ![J.file] = r]
        /\ job' = [job EXCEPT ![p] = j]
    BY <1>5 DEF Insert, At, Done, Goto
  <2>2. next \in {"genParent", "updateStart", "prefill", "row", "idle"}
    OBVIOUS
  <2>3. J.op = "materialize" /\ J.file = Anchor(J.text) => next = "row"
    OBVIOUS
  <2>4. \/ \E s \in Texts : J.file = Plain(s)
        \/ J.op = "materialize" /\ J.file = Anchor(J.text)
    BY <1>1, <2>1 DEF NameOK
  <2> HIDE DEF next, r
  <2>5. j.at = next /\ (next = "row" => j.file = J.file)
    BY <1>1, <2>2 DEF Job, NoJob
  <2> HIDE DEF j
  <2>6. CASE \E s \in Texts : J.file = Plain(s)
    BY <1>3, <2>1, <2>2, <2>5, <2>6
  <2>7. CASE J.op = "materialize" /\ J.file = Anchor(J.text)
    <3>1. /\ job'[p] = j /\ j.at = "row" /\ j.file = J.file
          /\ \A q \in Procs \ {p} : job'[q] = job[q]
      BY <1>1, <2>1, <2>3, <2>5, <2>7
    <3>2. \A q \in Procs : NameOK(job'[q])
      BY <3>1 DEF IndexInv, NameOK
    <3>3. IndexedOf(db)'
      <4> SUFFICES ASSUME NEW t \in Anchors, db'[Anchor(t)] # Absent, ~db'[Anchor(t)].row
                   PROVE  \E q \in Procs : job'[q].at = "row" /\ job'[q].file = Anchor(t)
        BY DEF IndexedOf
      <4>1. CASE Anchor(t) = J.file
        BY <3>1, <4>1
      <4>2. CASE Anchor(t) # J.file
        <5>1. db'[Anchor(t)] = db[Anchor(t)]
          BY <1>1, <2>1, <4>2, TextIds DEF Tables
        <5>2. PICK q \in Procs : job[q].at = "row" /\ job[q].file = Anchor(t)
          BY <5>1 DEF IndexInv, IndexedOf
        <5> QED
          BY <1>2, <3>1, <5>2
      <4> QED
        BY <4>1, <4>2
    <3> QED
      BY <1>2, <3>2, <3>3 DEF IndexInv, NameOK
  <2> QED
    BY <2>4, <2>6, <2>7
<1>6. CASE InsertGen(p) /\ ~(UNCHANGED db /\ Done(p))
  <2>1. /\ J.at = "insertGen" /\ J.gen \in Texts
        /\ db' = [db EXCEPT ![Plain(J.gen)] = Row(J.parent, J.file, FALSE)]
        /\ job' = [job EXCEPT ![p] = [J EXCEPT !.at = "updateStart"]]
    BY <1>1, <1>6 DEF InsertGen, At, Goto, JobOK
  <2>2. [J EXCEPT !.at = "updateStart"].at = "updateStart"
    BY <1>1 DEF Job
  <2> QED
    BY <1>3, <2>1, <2>2
<1> QED
  BY <1>4, <1>5, <1>6

\* insert_anchor indexes the node, if it is still there.
LEMMA RowIndex ==
    ASSUME IInv, IndexInv, NEW p \in Procs, InsertAnchorRow(p)
    PROVE  IndexInv'
<1> DEFINE n == job[p].file
<1>1. /\ job' = [job EXCEPT ![p] = NoJob] /\ job \in [Procs -> Job]
      /\ txn = NoTxn /\ UNCHANGED txn /\ db \in Tables /\ n \in Ids
      /\ db' = IF db[n] = Absent THEN db ELSE [db EXCEPT ![n].row = TRUE]
  BY OldJob, OldTables DEF InsertAnchorRow, Done, IInv, TypeOK, At, JobOK, Writing
<1>2. \A q \in Procs : NameOK(job'[q])
  BY <1>1, NameNoJob DEF IndexInv
<1>3. IndexedOf(db)'
  <2> SUFFICES ASSUME NEW t \in Anchors, db'[Anchor(t)] # Absent, ~db'[Anchor(t)].row
               PROVE  \E q \in Procs : job'[q].at = "row" /\ job'[q].file = Anchor(t)
    BY DEF IndexedOf
  <2>1. Anchor(t) \in Ids
    BY TextIds
  <2>2. Anchor(t) # n
    <3>1. CASE db[n] = Absent
      BY <1>1, <3>1
    <3>2. CASE db[n] # Absent
      <4>1. db[n] \in Node /\ db'[n] = [db[n] EXCEPT !.row = TRUE]
        BY <1>1, <3>2 DEF Tables
      <4>2. db'[n].row
        BY <4>1 DEF Node
      <4> QED
        BY <4>2
    <3> QED
      BY <3>1, <3>2
  <2>3. db'[Anchor(t)] = db[Anchor(t)]
    BY <1>1, <2>1, <2>2 DEF Tables
  <2>4. PICK q \in Procs : job[q].at = "row" /\ job[q].file = Anchor(t)
    BY <2>3 DEF IndexInv, IndexedOf
  <2>5. q # p
    BY <2>2, <2>4
  <2> QED
    BY <1>1, <2>4, <2>5
<1> QED
  BY <1>1, <1>2, <1>3 DEF IndexInv, NameOK

\* The walk up the ancestors.
LEMMA UpdateIndex ==
    ASSUME IInv, IndexInv, NEW p \in Procs, UpdateAncestor(p) \/ UpdateCommit(p)
    PROVE  IndexInv'
<1> DEFINE J == job[p]
<1>1. /\ J \in Job /\ JobOK(p, J, txn) /\ job \in [Procs -> Job]
      /\ db \in Tables
  BY OldJob, OldTables DEF IInv, TypeOK
<1>2. J.at # "row"
  BY DEF UpdateAncestor, UpdateCommit, At
<1>3. CASE UpdateAncestor(p)
  <2> DEFINE n == J.parent
             d == [db EXCEPT ![n].bin = J.file]
  <2>1. J.at = "update" /\ UNCHANGED db
    BY <1>3 DEF UpdateAncestor, At
  <2>2. CASE n = None \/ db[n] = Absent
    BY <1>2, <1>3, <2>1, <2>2, IndexEnd DEF UpdateAncestor
  <2>3. CASE ~(n = None \/ db[n] = Absent)
    <3>1. n \in Present(db)
      BY <1>1, <2>3 DEF Job, Present
    <3>2. CASE db[n].bin = J.file
      <4> DEFINE j == [J EXCEPT !.parent = db[n].parent]
      <4>1. job' = [job EXCEPT ![p] = j] /\ UNCHANGED txn
        BY <1>1, <1>3, <2>3, <3>2 DEF UpdateAncestor
      <4>2. j.at = "update"
        BY <1>1, <2>1 DEF Job
      <4> HIDE DEF j
      <4> QED
        BY <1>2, <2>1, <4>1, <4>2, IndexQuiet DEF NameOK
    <3>3. CASE db[n].bin # J.file
      <4> DEFINE j == [J EXCEPT !.at = "updateCommit"]
      <4>1. txn' = [owner |-> p, db |-> d] /\ job' = [job EXCEPT ![p] = j]
        BY <1>3, <2>3, <3>3 DEF UpdateAncestor, Goto
      <4>2. KeepsIndex(db, txn'.db)
        BY <1>1, <3>1, <4>1, KeepsRedirect
      <4>3. j.at = "updateCommit"
        BY <1>1 DEF Job
      <4> HIDE DEF j
      <4>4. NameOK(j)
        BY <4>3 DEF NameOK
      <4> QED
        BY <1>2, <2>1, <4>1, <4>2, <4>4, KeepsSame, IndexStep
    <3> QED
      BY <3>2, <3>3
  <2> QED
    BY <2>2, <2>3
<1>4. CASE UpdateCommit(p)
  <2> DEFINE j == [J EXCEPT !.at = "update", !.parent = txn.db[J.parent].parent]
  <2>1. /\ txn # NoTxn /\ db' = txn.db /\ txn' = NoTxn
        /\ job' = [job EXCEPT ![p] = j]
    BY <1>1, <1>4 DEF UpdateCommit, At, JobOK
  <2>2. j.at = "update"
    BY <1>1 DEF Job
  <2> HIDE DEF j
  <2>3. NameOK(j)
    BY <2>2 DEF NameOK
  <2> QED
    BY <1>2, <2>1, <2>3, KeepsSame, IndexStep
<1> QED
  BY <1>3, <1>4

\* If no process is killed or fails half way, then, however many of them save, add,
\* evict, materialize and prune at once: when all are done, an anchor node has the row
\* in the anchors table by which lookup_materialized_anchor finds it.
THEOREM AnchorsIndexed ==
    ASSUME Faults = FALSE
    PROVE  Spec => []AnchorsAreIndexed
<1>1. Init => IndexInv
  <2> SUFFICES ASSUME Init PROVE IndexInv
    OBVIOUS
  <2>1. /\ \A n \in Ids : db[n] = Absent
        /\ txn = NoTxn /\ \A p \in Procs : job[p] = NoJob
    BY DEF Init
  <2> QED
    BY <2>1, NameNoJob, TextIds DEF IndexInv, IndexedOf
<1>2. IInv /\ IndexInv /\ [Next]_vars => IndexInv'
  <2> SUFFICES ASSUME IInv, IndexInv, [Next]_vars PROVE IndexInv'
    OBVIOUS
  <2>1. CASE UNCHANGED vars
    BY <2>1 DEF vars, IndexInv, IndexedOf
  <2>2. ASSUME NEW p \in Procs, Write(p) PROVE IndexInv'
    BY <2>2, WriteIndex, InsertIndex, RowIndex, UpdateIndex DEF Write
  <2>3. ASSUME NEW p \in Procs, Fail(p) PROVE IndexInv'
    BY <2>3 DEF Fail
  <2> QED
    BY <2>1, <2>2, <2>3, BeginIndex, PruneIndex DEF Next
<1>3. IndexInv => AnchorsAreIndexed
  BY DEF IndexInv, IndexedOf, AnchorsAreIndexed, AllIdle, At
<1> QED
  BY <1>1, <1>2, <1>3, ReachableIInv, PTL DEF Spec
=============================================================================
