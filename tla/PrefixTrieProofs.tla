---------------------------- MODULE PrefixTrieProofs ----------------------------
(***************************************************************************)
(* PrefixTrie for any set of texts, any number of processes and any crash. *)
(*                                                                         *)
(* ParentIsPrefix is not inductive: it speaks of the table, and a row is   *)
(* inserted with a parent that was read some steps earlier.  IInv adds     *)
(* what the locals of an operation hold between its steps (JobOK), above   *)
(* all that a parent_id read by parent_for is a strict prefix of the node  *)
(* to insert, and that the table of an open transaction is a tree too.     *)
(* The steps are proved action by action; StepOf, LocalStep and CommitStep *)
(* say once that the other processes are not disturbed.                    *)
(***************************************************************************)
EXTENDS PrefixTrie, TLAPS

\* ParentIsPrefix of the table d.
TreeOf(d) ==
    \A n \in Present(d) :
        d[n].parent # None =>
            d[n].parent \in Present(d) /\ <<Text(d[n].parent), Text(n)>> \in Below

\* parent is None or a node with a strict prefix of t.
IsPrefixNode(parent, t) == parent # None => parent \in Ids /\ <<Text(parent), t>> \in Below

\* Steps at which the file local names the node that is being written.
Writing == {"rename", "parent", "insert", "row", "addSave", "updateStart", "update"}

\* What the locals j of process p hold while t is the open transaction.
JobOK(p, j, t) ==
    /\ j.at = "begin" => j.cur \in Ids
    /\ j.at \in {"cascade", "unlink", "updateCommit"} => t # NoTxn /\ t.owner = p
    /\ j.at = "cascade" => j.cur \in Present(t.db)
    /\ j.at = "updateCommit" => j.parent \in Present(t.db) /\ j.file \in Ids
    /\ j.op = "materialize" /\ j.at # "idle" => j.text \in Anchors
    /\ j.at = "prefill" => j.op = "materialize"
    /\ j.at = "addSave" => j.op = "add"
    /\ j.at \in Writing => j.file \in Ids
    /\ j.at \in {"rename", "addSave"} => j.content \in Texts
    /\ j.at \in {"addSave", "insert"} => IsPrefixNode(j.parent, Text(j.file))
    /\ j.op = "save" /\ j.at \in {"rename", "parent", "insert"} =>
        j.text \in Texts /\ (j.gen # None => <<j.text, j.gen>> \in Below)
    /\ j.op = "save" /\ j.at = "rename" => j.file = Plain(j.text) \/ j.gen # None
    /\ j.at \in {"genParent", "insertGen"} =>
        /\ j.file \in Ids
        /\ j.text \in Texts /\ j.gen \in Texts /\ <<j.text, j.gen>> \in Below
    /\ j.at = "insertGen" => IsPrefixNode(j.parent, j.gen)

JobInv == \A p \in Procs : JobOK(p, job[p], txn)

TreeInv == TreeOf(db) /\ (txn # NoTxn => TreeOf(txn.db))

IInv == TypeOK /\ TreeInv /\ JobInv

\* A table from which a row was deleted is still a tree.
LEMMA WithoutTree ==
    ASSUME NEW d \in Tables, TreeOf(d), NEW n \in Ids
    PROVE  /\ Without(d, n) \in Tables
           /\ Present(Without(d, n)) = Present(d) \ {n}
           /\ TreeOf(Without(d, n))
<1> DEFINE w == Without(d, n)
<1>1. ASSUME NEW m \in Children(d, n) PROVE [d[m] EXCEPT !.parent = None] \in Node
  BY <1>1 DEF Children, Present, Tables, Node
<1>2. w \in Tables
  BY <1>1 DEF Without, Tables
<1>3. Present(w) = Present(d) \ {n}
  <2>1. ASSUME NEW m \in Ids PROVE w[m] # Absent <=> m # n /\ d[m] # Absent
    <3>1. CASE m = n
      BY <3>1 DEF Without
    <3>2. CASE m # n /\ m \in Children(d, n)
      BY <3>2, <1>1, NamesAssumption DEF Without, Children, Present
    <3>3. CASE m # n /\ m \notin Children(d, n)
      BY <3>3 DEF Without
    <3> QED
      BY <3>1, <3>2, <3>3
  <2> QED
    BY <2>1 DEF Present
<1>4. TreeOf(w)
  <2> SUFFICES ASSUME NEW m \in Present(w), w[m].parent # None
               PROVE  w[m].parent \in Present(w) /\ <<Text(w[m].parent), Text(m)>> \in Below
    BY DEF TreeOf
  <2>1. m \in Present(d) /\ m # n /\ m \in Ids
    BY <1>3 DEF Present
  <2>2. m \notin Children(d, n)
    <3>1. m \in Children(d, n) => w[m] = [d[m] EXCEPT !.parent = None]
      BY <2>1 DEF Without
    <3>2. m \in Children(d, n) => w[m].parent = None
      BY <3>1, <2>1 DEF Tables, Node, Present
    <3> QED
      BY <3>2
  <2>3. w[m] = d[m] /\ d[m].parent # n
    BY <2>1, <2>2 DEF Without, Children
  <2> QED
    BY <2>1, <2>3, <1>3 DEF TreeOf
<1> QED
  BY <1>2, <1>3, <1>4

\* A new value of bin_file leaves the tree as it is.
LEMMA RedirectTree ==
    ASSUME NEW d \in Tables, TreeOf(d), NEW n \in Present(d), NEW f \in Ids,
           NEW e, e = [d EXCEPT ![n].bin = f]
    PROVE  e \in Tables /\ Present(e) = Present(d) /\ TreeOf(e)
<1>1. n \in Ids /\ d[n] \in Node
  BY DEF Present, Tables
<1>2. [d[n] EXCEPT !.bin = f] \in Node /\ [d[n] EXCEPT !.bin = f].parent = d[n].parent
  BY <1>1 DEF Node
<1>3. e \in Tables /\ e[n] = [d[n] EXCEPT !.bin = f] /\ \A m \in Ids \ {n} : e[m] = d[m]
  BY <1>1, <1>2 DEF Tables
<1>4. Present(e) = Present(d)
  BY <1>1, <1>2, <1>3, NamesAssumption DEF Present
<1>5. \A m \in Present(d) : e[m].parent = d[m].parent
  BY <1>2, <1>3 DEF Present
<1> QED
  BY <1>3, <1>4, <1>5 DEF TreeOf

\* So does a new row of the anchors table.
LEMMA IndexedTree ==
    ASSUME NEW d \in Tables, TreeOf(d), NEW n \in Present(d),
           NEW e, e = [d EXCEPT ![n].row = TRUE]
    PROVE  e \in Tables /\ TreeOf(e)
<1>1. n \in Ids /\ d[n] \in Node
  BY DEF Present, Tables
<1>2. [d[n] EXCEPT !.row = TRUE] \in Node /\ [d[n] EXCEPT !.row = TRUE].parent = d[n].parent
  BY <1>1 DEF Node
<1>3. e \in Tables /\ e[n] = [d[n] EXCEPT !.row = TRUE] /\ \A m \in Ids \ {n} : e[m] = d[m]
  BY <1>1, <1>2 DEF Tables
<1>4. Present(e) = Present(d)
  BY <1>1, <1>2, <1>3, NamesAssumption DEF Present
<1>5. \A m \in Present(d) : e[m].parent = d[m].parent
  BY <1>2, <1>3 DEF Present
<1> QED
  BY <1>3, <1>4, <1>5 DEF TreeOf

\* A row that insert_node accepts, with a parent parent_for can have returned, is a
\* new leaf of the tree.
LEMMA InsertTree ==
    ASSUME NEW d \in Tables, TreeOf(d), NEW n \in Ids, NEW parent \in Ids \cup {None},
           NEW f \in Ids, NEW pin \in BOOLEAN,
           CanInsert(d, n, parent), IsPrefixNode(parent, Text(n)),
           NEW e, e = [d EXCEPT ![n] = Row(parent, f, pin)]
    PROVE  e \in Tables /\ TreeOf(e)
<1>1. Row(parent, f, pin) \in Node /\ Row(parent, f, pin).parent = parent
  BY DEF Row, Node
<1>2. e \in Tables /\ e[n] = Row(parent, f, pin) /\ \A m \in Ids \ {n} : e[m] = d[m]
  BY <1>1 DEF Tables
<1>3. Present(e) = Present(d) \cup {n} /\ n \notin Present(d)
  BY <1>1, <1>2, NamesAssumption DEF Present, CanInsert
<1>4. ASSUME NEW m \in Present(e), e[m].parent # None
      PROVE  e[m].parent \in Present(e) /\ <<Text(e[m].parent), Text(m)>> \in Below
  <2>1. CASE m = n
    BY <2>1, <1>1, <1>2, <1>3, <1>4 DEF CanInsert, IsPrefixNode
  <2>2. CASE m # n
    <3>1. e[m] = d[m] /\ m \in Present(d)
      BY <2>2, <1>2, <1>3 DEF Present
    <3> QED
      BY <3>1, <1>3, <1>4 DEF TreeOf
  <2> QED
    BY <2>1, <2>2
<1> QED
  BY <1>2, <1>4 DEF TreeOf

\* What parent_for returns is a strict prefix.
LEMMA ParentForPrefix ==
    ASSUME NEW d \in Tables, NEW t \in Texts, NEW parent \in ParentFor(d, t)
    PROVE  parent \in Ids \cup {None} /\ IsPrefixNode(parent, t)
BY DEF ParentFor, IsPrefixNode, Present

\* The text of a node is one of Texts.
LEMMA IdText == \A n \in Ids : Text(n) \in Texts
BY AnchorsAssumption DEF Ids, Text

\* node_id_for and anchor_node_id_for name the text they are given.
LEMMA TextIds == /\ \A t \in Texts : Plain(t) \in Ids /\ Text(Plain(t)) = t
                 /\ \A t \in Anchors : Anchor(t) \in Ids /\ Text(Anchor(t)) = t
BY DEF Ids, Text, Plain, Anchor

\* The step of one process: the others are where they were, and a transaction is
\* touched only by its owner.
LEMMA StepOf ==
    ASSUME IInv, NEW p \in Procs,
           job' \in [Procs -> Job], \A q \in Procs \ {p} : job'[q] = job[q],
           JobOK(p, job'[p], txn'),
           txn' = txn \/ txn = NoTxn \/ txn.owner = p,
           db' \in Tables, TreeOf(db'),
           txn' \in [owner : Procs, db : Tables] \cup {NoTxn},
           txn' # NoTxn => TreeOf(txn'.db),
           disk' \in [Ids -> Texts \cup {NoFile}]
    PROVE  IInv'
<1>1. TypeOK' /\ TreeInv'
  BY DEF TypeOK, TreeInv
<1>2. ASSUME NEW q \in Procs, q # p PROVE JobOK(q, job'[q], txn')
  <2>1. JobOK(q, job[q], txn) /\ job'[q] = job[q]
    BY <1>2 DEF IInv, JobInv
  <2>2. CASE txn' = txn
    BY <2>1, <2>2
  <2>3. CASE txn = NoTxn \/ txn.owner = p
    <3>1. job[q].at \notin {"cascade", "unlink", "updateCommit"}
      BY <2>1, <2>3, <1>2 DEF JobOK
    <3> QED
      BY <2>1, <3>1 DEF JobOK
  <2> QED
    BY <2>2, <2>3
<1>3. JobInv'
  BY <1>2 DEF JobInv
<1> QED
  BY <1>1, <1>3 DEF IInv

\* The same for a step that leaves the tables alone and changes the locals of p to j.
LEMMA LocalStep ==
    ASSUME IInv, NEW p \in Procs, UNCHANGED <<db, txn>>,
           disk' \in [Ids -> Texts \cup {NoFile}],
           NEW j, j \in Job, JobOK(p, j, txn), job' = [job EXCEPT ![p] = j]
    PROVE  IInv'
<1>1. /\ job' \in [Procs -> Job] /\ job'[p] = j
      /\ \A q \in Procs \ {p} : job'[q] = job[q]
  BY DEF IInv, TypeOK
<1>2. /\ db' = db /\ txn' = txn /\ db \in Tables /\ TreeOf(db) /\ (txn # NoTxn => TreeOf(txn.db))
      /\ txn \in [owner : Procs, db : Tables] \cup {NoTxn}
  BY DEF IInv, TypeOK, TreeInv
<1> QED
  BY <1>1, <1>2, StepOf

\* A process between operations satisfies JobOK whatever the transaction.
LEMMA NoJobOK ==
    ASSUME NEW p \in Procs, NEW t
    PROVE  NoJob \in Job /\ JobOK(p, NoJob, t)
BY DEF NoJob, Job, Steps, JobOK, Writing

\* An operation that ends without touching the tables preserves IInv.
LEMMA IdleStep ==
    ASSUME IInv, NEW p \in Procs, UNCHANGED <<db, txn>>,
           disk' \in [Ids -> Texts \cup {NoFile}], Done(p)
    PROVE  IInv'
BY NoJobOK, LocalStep DEF Done

\* What IInv says of the locals of one process.
LEMMA OldJob ==
    ASSUME IInv, NEW p \in Procs
    PROVE  job[p] \in Job /\ JobOK(p, job[p], txn)
BY DEF IInv, TypeOK, JobInv

\* What IInv says of the committed and of the uncommitted table.
LEMMA OldTables ==
    ASSUME IInv
    PROVE  /\ db \in Tables /\ TreeOf(db) /\ disk \in [Ids -> Texts \cup {NoFile}]
           /\ txn \in [owner : Procs, db : Tables] \cup {NoTxn}
           /\ txn # NoTxn => txn.owner \in Procs /\ txn.db \in Tables /\ TreeOf(txn.db)
<1>1. txn # NoTxn => txn \in [owner : Procs, db : Tables]
  BY DEF IInv, TypeOK
<1> QED
  BY <1>1 DEF IInv, TypeOK, TreeInv

\* Starting any operation preserves IInv; cmd_add already reads its parent here.
LEMMA BeginStep ==
    ASSUME IInv, NEW p \in Procs, Begin(p)
    PROVE  IInv'
<1>0. disk \in [Ids -> Texts \cup {NoFile}]
  BY OldTables
<1>1. ASSUME NEW op \in Ops, Start(p, op) PROVE IInv'
  <2> DEFINE j == [NoJob EXCEPT !.op = op, !.at = "room"]
  <2>1. j \in Job /\ JobOK(p, j, txn)
    BY <1>1, NoJobOK DEF Start, Job, Steps, NoJob, JobOK, Writing, Operations
  <2> QED
    BY <1>0, <1>1, <2>1, LocalStep DEF Start
<1>2. CASE StartMaterialize(p)
  <2>1. PICK text \in Anchors :
          job' = [job EXCEPT ![p] =
            [NoJob EXCEPT !.op = "materialize", !.at = "room", !.text = text]]
    BY <1>2 DEF StartMaterialize
  <2> DEFINE j == [NoJob EXCEPT !.op = "materialize", !.at = "room", !.text = text]
  <2>2. j \in Job /\ JobOK(p, j, txn)
    BY AnchorsAssumption, NoJobOK DEF Job, Steps, NoJob, JobOK, Writing, Operations
  <2> QED
    BY <1>0, <1>2, <2>1, <2>2, LocalStep DEF StartMaterialize
<1>3. CASE StartEvict(p)
  <2>1. PICK s \in Texts :
          job' = [job EXCEPT ![p] =
            [NoJob EXCEPT !.op = "evict", !.at = "rename", !.file = Plain(s), !.content = s]]
    BY <1>3 DEF StartEvict
  <2> DEFINE j == [NoJob EXCEPT !.op = "evict", !.at = "rename", !.file = Plain(s), !.content = s]
  <2>2. Plain(s) \in Ids
    BY TextIds
  <2>3. j \in Job /\ JobOK(p, j, txn)
    BY <2>2 DEF Job, Steps, NoJob, JobOK, Writing, Operations
  <2> QED
    BY <1>0, <1>3, <2>1, <2>3, LocalStep DEF StartEvict
<1>4. CASE StartAdd(p)
  <2>1. PICK t \in Texts, pin \in BOOLEAN : \E parent \in ParentFor(db, t) :
          job' = [job EXCEPT ![p] =
            [NoJob EXCEPT !.op = "add", !.at = "addSave", !.file = Plain(t),
                          !.content = t, !.pin = pin, !.parent = parent]]
    BY <1>4 DEF StartAdd
  <2>2. PICK parent \in ParentFor(db, t) :
          job' = [job EXCEPT ![p] =
            [NoJob EXCEPT !.op = "add", !.at = "addSave", !.file = Plain(t),
                          !.content = t, !.pin = pin, !.parent = parent]]
    BY <2>1
  <2> DEFINE j == [NoJob EXCEPT !.op = "add", !.at = "addSave", !.file = Plain(t),
                                !.content = t, !.pin = pin, !.parent = parent]
  <2>3. /\ Plain(t) \in Ids /\ Text(Plain(t)) = t
        /\ parent \in Ids \cup {None} /\ IsPrefixNode(parent, t)
    BY OldTables, TextIds, ParentForPrefix
  <2>4. j \in Job /\ JobOK(p, j, txn)
    BY <2>3 DEF Job, Steps, NoJob, JobOK, Writing, Operations
  <2> QED
    BY <1>0, <1>4, <2>2, <2>4, LocalStep DEF StartAdd
<1> QED
  BY <1>1, <1>2, <1>3, <1>4 DEF Begin

\* One round of the cascade, in a table that is a tree and has the node to delete.
LEMMA CascadeRound ==
    ASSUME IInv, NEW p \in Procs, NEW d \in Tables, TreeOf(d), job[p].cur \in Present(d),
           job[p].at # "idle", txn = NoTxn \/ txn.owner = p, CascadeFrom(p, d),
           UNCHANGED <<db, disk>>
    PROVE  IInv'
<1> DEFINE n == job[p].cur
           parent == d[n].parent
           d1 == Without(d, n)
           siblings == Children(d1, parent)
           LocalsAfter(step, target) ==
               [job EXCEPT ![p].at = step,
                           ![p].cur = IF step = "cascade" THEN parent ELSE None,
                           ![p].redirect = IF step = "cascade" THEN target ELSE None,
                           ![p].bins = @ \cup {d[n].bin}]
           Round(d2, target) ==
               /\ txn' = [owner |-> p, db |-> d2]
               /\ \E step \in IF parent = None THEN {"unlink"} ELSE {"unlink", "cascade"} :
                   job' = LocalsAfter(step, target)
<1>1. n \in Ids /\ d[n] \in Node /\ parent \in Ids \cup {None} /\ d[n].bin \in Ids
  BY DEF Present, Tables, Node
<1>2. d1 \in Tables /\ TreeOf(d1) /\ Present(d1) = Present(d) \ {n}
  BY <1>1, WithoutTree
<1>3. parent # None => parent \in Present(d1)
  <2> SUFFICES ASSUME parent # None PROVE parent \in Present(d1)
    OBVIOUS
  <2>1. parent \in Present(d) /\ <<Text(parent), Text(n)>> \in Below
    BY DEF TreeOf
  <2>2. parent # n
    BY <2>1, <1>1, IdText, BelowAssumption
  <2> QED
    BY <2>1, <2>2, <1>2
<1>4. job[p] \in Job /\ JobOK(p, job[p], txn)
  BY OldJob
<1>5. ASSUME NEW d2 \in Tables, TreeOf(d2), Present(d2) = Present(d1),
             NEW target \in Ids \cup {None}, Round(d2, target)
      PROVE  IInv'
  <2>1. PICK step \in IF parent = None THEN {"unlink"} ELSE {"unlink", "cascade"} :
            job' = LocalsAfter(step, target)
    BY <1>5
  <2> DEFINE j == [job[p] EXCEPT !.at = step,
                                 !.cur = IF step = "cascade" THEN parent ELSE None,
                                 !.redirect = IF step = "cascade" THEN target ELSE None,
                                 !.bins = @ \cup {d[n].bin}]
  <2>2. /\ job' \in [Procs -> Job] /\ job'[p] = j /\ j \in Job
        /\ \A q \in Procs \ {p} : job'[q] = job[q]
    <3>1. j \in Job
      <4>1. /\ step \in Steps
            /\ (IF step = "cascade" THEN parent ELSE None) \in Ids \cup {None}
            /\ (IF step = "cascade" THEN target ELSE None) \in Ids \cup {None}
            /\ job[p].bins \cup {d[n].bin} \in SUBSET Ids
        BY <1>1, <1>4, <1>5 DEF Job, Steps
      <4>2. \A c, r \in Ids \cup {None}, bins \in SUBSET Ids :
                [job[p] EXCEPT !.at = step, !.cur = c, !.redirect = r, !.bins = bins] \in Job
        BY <4>1, <1>4 DEF Job
      <4> QED
        BY <4>1, <4>2
    <3>2. job \in [Procs -> Job]
      BY DEF IInv, TypeOK
    <3>3. job' = [job EXCEPT ![p] = j]
      BY <2>1, <3>2
    <3> QED
      BY <3>1, <3>2, <3>3
  <2>3. /\ txn' = [owner |-> p, db |-> d2] /\ txn'.owner = p /\ txn'.db = d2
        /\ txn' \in [owner : Procs, db : Tables] /\ txn' # NoTxn
    BY <1>5, NamesAssumption
  <2>4. JobOK(p, j, txn')
    <3>1. j.at = step /\ j.op = job[p].op /\ j.text = job[p].text
      BY <1>4 DEF Job
    <3>2. step = "cascade" => j.cur \in Present(d2)
      BY <1>3, <1>4, <1>5 DEF Job
    <3>3. step \in {"unlink", "cascade"}
      OBVIOUS
    <3>4. j.op = "materialize" => j.text \in Anchors
      BY <3>1, <1>4 DEF JobOK
    <3> HIDE DEF j
    <3> QED
      BY <3>1, <3>2, <3>3, <3>4, <2>3 DEF JobOK, Writing
  <2> QED
    BY <2>2, <2>3, <2>4, OldTables, StepOf, <1>5
<1>6. CASE parent = None \/ siblings = {}
  <2>1. Round(d1, job[p].redirect)
    BY <1>6 DEF CascadeFrom
  <2>2. job[p].redirect \in Ids \cup {None}
    BY <1>4 DEF Job
  <2> HIDE DEF Round
  <2> QED
    BY <2>1, <2>2, <1>2, <1>5
<1>7. CASE ~(parent = None \/ siblings = {})
  <2>1. PICK target \in IF job[p].redirect # None THEN {job[p].redirect}
                        ELSE {d1[c].bin : c \in siblings} :
            Round([d1 EXCEPT ![parent].bin = target], target)
    BY <1>7 DEF CascadeFrom
  <2>2. target \in Ids
    BY <1>2, <1>4 DEF Children, Present, Tables, Node, Job
  <2> DEFINE d2 == [d1 EXCEPT ![parent].bin = target]
  <2>3. d2 \in Tables /\ TreeOf(d2) /\ Present(d2) = Present(d1)
    BY <2>2, <1>2, <1>3, <1>7, RedirectTree
  <2> HIDE DEF Round, d2
  <2> QED
    BY <2>1, <2>2, <2>3, <1>5 DEF d2
<1> QED
  BY <1>6, <1>7

\* The steps of prune and prune_global preserve IInv.
LEMMA PruneStep ==
    ASSUME IInv, NEW p \in Procs, Prune(p)
    PROVE  IInv'
<1> DEFINE J == job[p]
<1>1. J \in Job /\ JobOK(p, J, txn) /\ job \in [Procs -> Job]
  BY OldJob DEF IInv, TypeOK
<1>2. /\ db \in Tables /\ TreeOf(db) /\ disk \in [Ids -> Texts \cup {NoFile}]
      /\ txn # NoTxn => txn.owner \in Procs /\ txn.db \in Tables /\ TreeOf(txn.db)
  BY OldTables
<1>3. CASE PickVictim(p)
  <2>1. PICK n \in PrunableLeaves(db) : job' = [job EXCEPT ![p].at = "begin", ![p].cur = n]
    BY <1>3 DEF PickVictim
  <2> DEFINE j == [J EXCEPT !.at = "begin", !.cur = n]
  <2>2. n \in Ids /\ J.at = "room"
    BY <1>3 DEF PrunableLeaves, Present, PickVictim, At
  <2>3. j \in Job /\ JobOK(p, j, txn)
    <3>1. j \in Job
      BY <1>1, <2>2 DEF Job, Steps
    <3>2. j.at = "begin" /\ j.cur = n /\ j.op = J.op /\ j.text = J.text
      BY <1>1 DEF Job
    <3> QED
      BY <1>1, <2>2, <3>1, <3>2 DEF JobOK, Writing
  <2>4. job' = [job EXCEPT ![p] = j]
    BY <2>1, <1>1
  <2> QED
    BY <1>2, <1>3, <2>3, <2>4, LocalStep DEF PickVictim
<1>4. CASE RoomMade(p)
  <2>1. CASE Done(p)
    BY <2>1, <1>2, <1>4, IdleStep DEF RoomMade
  <2>2. CASE Goto(p, "check")
    <3> DEFINE j == [J EXCEPT !.at = "check"]
    <3>1. j \in Job /\ JobOK(p, j, txn)
      BY <1>1, <1>4 DEF Job, Steps, JobOK, Writing, RoomMade, At
    <3> QED
      BY <1>2, <1>4, <2>2, <3>1, LocalStep DEF RoomMade, Goto
  <2> QED
    BY <1>4, <2>1, <2>2 DEF RoomMade
<1>5. CASE NoRoom(p)
  BY <1>2, <1>5, IdleStep DEF NoRoom
<1>6. CASE BeginCascade(p)
  <2>1. J.at = "begin" /\ J.cur \in Ids /\ UNCHANGED <<db, disk>>
    BY <1>1, <1>6 DEF BeginCascade, At, JobOK
  <2>2. CASE db[J.cur] = Absent
    <3> DEFINE j == [J EXCEPT !.at = "room", !.cur = None]
    <3>1. j \in Job /\ JobOK(p, j, txn)
      <4>1. j \in Job
        BY <1>1 DEF Job, Steps
      <4>2. j.at = "room" /\ j.op = J.op /\ j.text = J.text
        BY <1>1 DEF Job
      <4> QED
        BY <1>1, <2>1, <4>1, <4>2 DEF JobOK, Writing
    <3>2. job' = [job EXCEPT ![p] = j] /\ UNCHANGED txn
      BY <1>1, <1>6, <2>2 DEF BeginCascade
    <3> QED
      BY <1>2, <2>1, <3>1, <3>2, LocalStep
  <2>3. CASE db[J.cur] # Absent
    BY <1>2, <1>6, <2>1, <2>3, CascadeRound DEF BeginCascade, Present
  <2> QED
    BY <2>2, <2>3
<1>7. CASE Cascade(p)
  <2>1. /\ J.at = "cascade" /\ txn # NoTxn /\ txn.owner = p /\ J.cur \in Present(txn.db)
        /\ CascadeFrom(p, txn.db) /\ UNCHANGED <<db, disk>>
    BY <1>1, <1>7 DEF Cascade, At, JobOK
  <2> QED
    BY <1>2, <2>1, CascadeRound
<1>8. CASE UnlinkBin(p)
  <2>1. PICK f \in J.bins : /\ job' = [job EXCEPT ![p].bins = @ \ {f}]
                            /\ disk' = Unlinked(txn.db, f)
    BY <1>8 DEF UnlinkBin
  <2> DEFINE j == [J EXCEPT !.bins = @ \ {f}]
  <2>2. f \in Ids /\ J.at = "unlink" /\ txn # NoTxn
    BY <1>1, <1>8 DEF Job, UnlinkBin, At, JobOK
  <2>3. j \in Job /\ JobOK(p, j, txn)
    BY <1>1, <2>2 DEF Job, Steps, JobOK, Writing
  <2>4. disk' \in [Ids -> Texts \cup {NoFile}]
    BY <1>2, <2>1, <2>2 DEF Unlinked
  <2>5. job' = [job EXCEPT ![p] = j]
    BY <2>1, <1>1
  <2> QED
    BY <1>8, <2>3, <2>4, <2>5, LocalStep DEF UnlinkBin
<1>9. CASE CommitPrune(p)
  <2> DEFINE j == [J EXCEPT !.at = "room"]
  <2>1. J.at = "unlink" /\ txn # NoTxn /\ txn.owner = p
    BY <1>1, <1>9 DEF CommitPrune, At, JobOK
  <2>2. j \in Job /\ JobOK(p, j, NoTxn)
    BY <1>1, <2>1 DEF Job, Steps, JobOK, Writing
  <2>3. job' = [job EXCEPT ![p] = j]
    BY <1>9 DEF CommitPrune, Goto
  <2>4. /\ job' \in [Procs -> Job] /\ job'[p] = j
        /\ \A q \in Procs \ {p} : job'[q] = job[q]
    BY <1>1, <2>2, <2>3
  <2>5. db' = txn.db /\ txn' = NoTxn /\ disk' = disk
    BY <1>9 DEF CommitPrune
  <2> QED
    BY <1>2, <2>1, <2>2, <2>4, <2>5, StepOf
<1> QED
  BY <1>3, <1>4, <1>5, <1>6, <1>7, <1>8, <1>9 DEF Prune

\* The steps of a writer that change nothing but its locals and the files.
LEMMA FileStep ==
    ASSUME IInv, NEW p \in Procs,
           SaveCheck(p) \/ MaterializeCheck(p) \/ Prefill(p) \/ Rename(p) \/ AddSave(p)
    PROVE  IInv'
<1> DEFINE J == job[p]
<1>1. J \in Job /\ JobOK(p, J, txn) /\ job \in [Procs -> Job]
  BY OldJob DEF IInv, TypeOK
<1>2. disk \in [Ids -> Texts \cup {NoFile}]
  BY OldTables
<1>3. CASE SaveCheck(p)
  <2>1. PICK text \in Texts, content \in Texts, gen \in Texts \cup {None} :
          LET newGen == gen # None /\ db[Plain(gen)] = Absent
              file == IF db[Plain(text)] = Absent THEN Plain(text) ELSE Plain(gen)
          IN /\ Upto(text, content)
             /\ gen # None => <<text, gen>> \in Below /\ Upto(gen, content)
             /\ IF (db[Plain(text)] # Absent /\ ~newGen) \/ BinExists(file)
                  THEN Done(p)
                  ELSE job' = [job EXCEPT ![p] =
                        [@ EXCEPT !.at = "rename", !.text = text, !.content = content,
                                  !.file = file, !.gen = IF newGen THEN gen ELSE None]]
    BY <1>3 DEF SaveCheck
  <2> DEFINE newGen == gen # None /\ db[Plain(gen)] = Absent
             file == IF db[Plain(text)] = Absent THEN Plain(text) ELSE Plain(gen)
             g == IF newGen THEN gen ELSE None
             j == [J EXCEPT !.at = "rename", !.text = text, !.content = content,
                            !.file = file, !.gen = g]
  <2>2. CASE Done(p)
    BY <2>2, <1>2, <1>3, IdleStep DEF SaveCheck
  <2>3. CASE ~Done(p)
    <3>1. /\ db[Plain(text)] = Absent \/ newGen
          /\ job' = [job EXCEPT ![p] = j]
      BY <2>1, <2>3
    <3>2. file \in Ids /\ (file = Plain(text) \/ g # None)
      BY <3>1, TextIds
    <3>3. g \in Texts \cup {None} /\ (g # None => <<text, g>> \in Below)
      BY <2>1
    <3>4. J.op = "save"
      BY <1>3 DEF SaveCheck
    <3> HIDE DEF file, g, newGen
    <3>5. j \in Job /\ JobOK(p, j, txn)
      <4>1. j \in Job
        BY <1>1, <3>2, <3>3 DEF Job, Steps
      <4>2. /\ j.at = "rename" /\ j.op = J.op /\ j.text = text /\ j.content = content
            /\ j.file = file /\ j.gen = g
        BY <1>1 DEF Job
      <4> HIDE DEF j
      <4> QED
        BY <3>2, <3>3, <3>4, <4>1, <4>2 DEF JobOK, Writing
    <3> QED
      BY <1>2, <1>3, <3>1, <3>5, LocalStep DEF SaveCheck
  <2> QED
    BY <2>2, <2>3
<1>4. CASE MaterializeCheck(p)
  <2>1. J.op = "materialize" /\ J.at = "check" /\ J.text \in Anchors
    BY <1>1, <1>4 DEF MaterializeCheck, At, JobOK
  <2>2. CASE Done(p)
    BY <2>2, <1>2, <1>4, IdleStep DEF MaterializeCheck
  <2>3. ASSUME NEW pin \in BOOLEAN, job' = [job EXCEPT ![p].at = "prefill", ![p].pin = pin]
        PROVE  IInv'
    <3> DEFINE j == [J EXCEPT !.at = "prefill", !.pin = pin]
    <3>1. j \in Job
      BY <1>1 DEF Job, Steps
    <3>2. j.at = "prefill" /\ j.op = J.op /\ j.text = J.text
      BY <1>1 DEF Job
    <3>3. JobOK(p, j, txn)
      BY <2>1, <3>1, <3>2 DEF JobOK, Writing
    <3>4. job' = [job EXCEPT ![p] = j]
      BY <1>1, <2>3
    <3> QED
      BY <1>2, <1>4, <3>1, <3>3, <3>4, LocalStep DEF MaterializeCheck
  <2>4. ASSUME NEW pin \in BOOLEAN, NEW s \in Texts,
               job' = [job EXCEPT ![p] = [@ EXCEPT !.at = "rename", !.pin = pin,
                                                   !.file = Plain(s), !.content = s]]
        PROVE  IInv'
    <3> DEFINE j == [J EXCEPT !.at = "rename", !.pin = pin, !.file = Plain(s), !.content = s]
    <3>1. j \in Job
      BY <1>1, TextIds DEF Job, Steps
    <3>2. /\ j.at = "rename" /\ j.op = J.op /\ j.text = J.text
          /\ j.file = Plain(s) /\ j.content = s
      BY <1>1 DEF Job
    <3>3. JobOK(p, j, txn)
      BY <2>1, <3>1, <3>2, TextIds DEF JobOK, Writing
    <3>4. job' = [job EXCEPT ![p] = j]
      BY <1>1, <2>4
    <3> QED
      BY <1>2, <1>4, <3>1, <3>3, <3>4, LocalStep DEF MaterializeCheck
  <2> QED
    BY <1>4, <2>2, <2>3, <2>4 DEF MaterializeCheck
<1>5. CASE Prefill(p)
  <2>1. CASE Done(p)
    BY <2>1, <1>2, <1>5, IdleStep DEF Prefill
  <2>2. CASE ~Done(p)
    <3> DEFINE j == [J EXCEPT !.at = "rename", !.file = Anchor(J.text), !.content = J.text]
    <3>1. J.at = "prefill" /\ job' = [job EXCEPT ![p] = j]
      BY <1>1, <1>5, <2>2 DEF Prefill, At
    <3>2. J.op = "materialize" /\ J.text \in Anchors
      BY <1>1, <3>1 DEF JobOK
    <3>3. Anchor(J.text) \in Ids /\ J.text \in Texts
      BY <3>2, TextIds, AnchorsAssumption
    <3>4. j \in Job
      BY <1>1, <3>3 DEF Job, Steps
    <3>5. /\ j.at = "rename" /\ j.op = J.op /\ j.text = J.text
          /\ j.file = Anchor(J.text) /\ j.content = J.text
      BY <1>1 DEF Job
    <3>6. JobOK(p, j, txn)
      BY <3>2, <3>3, <3>4, <3>5 DEF JobOK, Writing
    <3> QED
      BY <1>2, <1>5, <3>1, <3>4, <3>6, LocalStep DEF Prefill
  <2> QED
    BY <2>1, <2>2
<1>6. CASE Rename(p)
  <2> DEFINE next == IF J.op = "save" /\ J.file # Plain(J.text) THEN "genParent" ELSE "parent"
             j == [J EXCEPT !.at = next]
  <2>1. J.at = "rename" /\ job' = [job EXCEPT ![p] = j]
    BY <1>1, <1>6 DEF Rename, At, Goto
  <2>2. J.file \in Ids /\ J.content \in Texts
    BY <1>1, <2>1 DEF JobOK, Writing
  <2>3. disk' \in [Ids -> Texts \cup {NoFile}]
    BY <1>2, <1>6, <2>2 DEF Rename
  <2>4. j \in Job
    BY <1>1 DEF Job, Steps
  <2>5. /\ j.at = next /\ next \in {"genParent", "parent"} /\ j.op = J.op /\ j.text = J.text
        /\ j.gen = J.gen /\ j.file = J.file
    BY <1>1 DEF Job
  <2>6. next = "genParent" => J.op = "save" /\ J.gen # None
    BY <1>1, <2>1 DEF JobOK
  <2>7. J.gen \in Texts \cup {None}
    BY <1>1 DEF Job
  <2>8. JobOK(p, j, txn)
    <3> HIDE DEF j, next
    <3> QED
      BY <1>1, <2>1, <2>2, <2>5, <2>6, <2>7 DEF JobOK, Writing
  <2> QED
    BY <1>6, <2>1, <2>3, <2>4, <2>8, LocalStep DEF Rename
<1>7. CASE AddSave(p)
  <2>1. J.at = "addSave" /\ UNCHANGED <<db, txn>>
    BY <1>7 DEF AddSave, At
  <2>2. J.file \in Ids /\ J.content \in Texts /\ IsPrefixNode(J.parent, Text(J.file))
    BY <1>1, <2>1 DEF JobOK, Writing
  <2>3. disk' \in [Ids -> Texts \cup {NoFile}]
    BY <1>2, <1>7, <2>2 DEF AddSave
  <2>4. CASE Done(p)
    BY <2>1, <2>3, <2>4, IdleStep
  <2>5. CASE ~Done(p)
    <3> DEFINE j == [J EXCEPT !.at = "insert"]
    <3>1. job' = [job EXCEPT ![p] = j]
      BY <1>1, <1>7, <2>5 DEF AddSave, Goto
    <3>2. j \in Job
      BY <1>1 DEF Job, Steps
    <3>3. /\ j.at = "insert" /\ j.op = J.op /\ j.text = J.text
          /\ j.gen = J.gen /\ j.file = J.file /\ j.parent = J.parent
      BY <1>1 DEF Job
    <3>4. JobOK(p, j, txn)
      BY <1>1, <2>1, <2>2, <3>3 DEF JobOK, Writing
    <3> QED
      BY <2>1, <2>3, <3>1, <3>2, <3>4, LocalStep
  <2> QED
    BY <2>4, <2>5
<1> QED
  BY <1>3, <1>4, <1>5, <1>6, <1>7

\* The steps that read the table: the parent they found is a prefix.
LEMMA ReadStep ==
    ASSUME IInv, NEW p \in Procs, FindParent(p) \/ FindGenParent(p) \/ UpdateStart(p)
    PROVE  IInv'
<1> DEFINE J == job[p]
<1>1. J \in Job /\ JobOK(p, J, txn) /\ job \in [Procs -> Job]
  BY OldJob DEF IInv, TypeOK
<1>2. disk \in [Ids -> Texts \cup {NoFile}] /\ db \in Tables
  BY OldTables
<1>3. CASE FindParent(p)
  <2>1. J.at = "parent" /\ J.file \in Ids /\ Text(J.file) \in Texts
    BY <1>1, <1>3, IdText DEF FindParent, At, JobOK, Writing
  <2>2. PICK parent \in ParentFor(db, Text(J.file)) :
          job' = [job EXCEPT ![p].at = "insert", ![p].parent = parent]
    BY <1>3 DEF FindParent
  <2>3. parent \in Ids \cup {None} /\ IsPrefixNode(parent, Text(J.file))
    BY <1>2, <2>1, ParentForPrefix
  <2> DEFINE j == [J EXCEPT !.at = "insert", !.parent = parent]
  <2>4. job' = [job EXCEPT ![p] = j] /\ j \in Job
    BY <1>1, <2>2, <2>3 DEF Job, Steps
  <2>5. /\ j.at = "insert" /\ j.op = J.op /\ j.text = J.text
        /\ j.gen = J.gen /\ j.file = J.file /\ j.parent = parent
    BY <1>1 DEF Job
  <2>6. JobOK(p, j, txn)
    BY <1>1, <2>1, <2>3, <2>5 DEF JobOK, Writing
  <2> QED
    BY <1>2, <1>3, <2>4, <2>6, LocalStep DEF FindParent
<1>4. CASE FindGenParent(p)
  <2> DEFINE prompt == Plain(J.text)
  <2>1. /\ J.at = "genParent" /\ J.file \in Ids /\ J.text \in Texts /\ J.gen \in Texts
        /\ <<J.text, J.gen>> \in Below
    BY <1>1, <1>4 DEF FindGenParent, At, JobOK
  <2>2. PICK parent \in IF db[prompt] # Absent THEN {prompt} ELSE ParentFor(db, J.gen) :
          job' = [job EXCEPT ![p].at = "insertGen", ![p].parent = parent]
    BY <1>4 DEF FindGenParent
  <2>3. prompt \in Ids /\ Text(prompt) = J.text
    BY <2>1, TextIds
  <2>4. parent \in Ids \cup {None} /\ IsPrefixNode(parent, J.gen)
    <3>1. CASE parent = prompt
      BY <2>1, <2>3, <3>1 DEF IsPrefixNode
    <3>2. CASE parent \in ParentFor(db, J.gen)
      BY <1>2, <2>1, <3>2, ParentForPrefix
    <3> QED
      BY <3>1, <3>2
  <2> DEFINE j == [J EXCEPT !.at = "insertGen", !.parent = parent]
  <2>5. job' = [job EXCEPT ![p] = j] /\ j \in Job
    BY <1>1, <2>2, <2>4 DEF Job, Steps
  <2>6. /\ j.at = "insertGen" /\ j.op = J.op /\ j.text = J.text
        /\ j.gen = J.gen /\ j.file = J.file /\ j.parent = parent
    BY <1>1 DEF Job
  <2>7. JobOK(p, j, txn)
    BY <1>1, <2>1, <2>4, <2>6 DEF JobOK, Writing
  <2> QED
    BY <1>2, <1>4, <2>5, <2>7, LocalStep DEF FindGenParent
<1>5. CASE UpdateStart(p)
  <2> DEFINE parent == IF db[J.file] = Absent THEN None ELSE db[J.file].parent
             j == [J EXCEPT !.at = "update", !.parent = parent]
  <2>1. J.at = "updateStart" /\ J.file \in Ids
    BY <1>1, <1>5 DEF UpdateStart, At, JobOK, Writing
  <2>2. parent \in Ids \cup {None}
    BY <1>2, <2>1 DEF Tables, Node
  <2>3. job' = [job EXCEPT ![p] = j]
    BY <1>1, <1>5 DEF UpdateStart
  <2> HIDE DEF parent
  <2>4. j \in Job
    BY <1>1, <2>2 DEF Job, Steps
  <2>5. j.at = "update" /\ j.op = J.op /\ j.text = J.text /\ j.file = J.file
    BY <1>1 DEF Job
  <2>6. JobOK(p, j, txn)
    BY <1>1, <2>1, <2>5 DEF JobOK, Writing
  <2> QED
    BY <1>2, <1>5, <2>3, <2>4, <2>6, LocalStep DEF UpdateStart
<1> QED
  BY <1>3, <1>4, <1>5

\* The same as LocalStep for a step that commits a table e of its own.
LEMMA CommitStep ==
    ASSUME IInv, NEW p \in Procs, NEW e \in Tables, TreeOf(e), db' = e,
           txn' = NoTxn, txn = NoTxn \/ txn.owner = p, UNCHANGED disk,
           NEW j, j \in Job, JobOK(p, j, NoTxn), job' = [job EXCEPT ![p] = j]
    PROVE  IInv'
<1>1. /\ job' \in [Procs -> Job] /\ job'[p] = j
      /\ \A q \in Procs \ {p} : job'[q] = job[q]
  BY DEF IInv, TypeOK
<1> QED
  BY <1>1, OldTables, StepOf

\* insert_node and insert_anchor preserve IInv: the parent read earlier is a prefix,
\* and the foreign key refuses it if its row is gone.
LEMMA InsertStep ==
    ASSUME IInv, NEW p \in Procs, Insert(p) \/ InsertAnchorRow(p) \/ InsertGen(p)
    PROVE  IInv'
<1> DEFINE J == job[p]
<1>1. J \in Job /\ JobOK(p, J, txn) /\ job \in [Procs -> Job]
  BY OldJob DEF IInv, TypeOK
<1>2. disk \in [Ids -> Texts \cup {NoFile}] /\ db \in Tables /\ TreeOf(db)
  BY OldTables
<1>3. NoJob \in Job /\ JobOK(p, NoJob, NoTxn)
  BY NoJobOK
<1>4. CASE Insert(p)
  <2> DEFINE evicted == J.op = "evict" \/ (J.op = "materialize" /\ J.file # Anchor(J.text))
             next == CASE J.op = "save" -> IF J.gen # None THEN "genParent" ELSE "updateStart"
                       [] J.op = "materialize" -> IF evicted THEN "prefill" ELSE "row"
                       [] OTHER -> "idle"
             pin == J.pin /\ ~evicted
             e == [db EXCEPT ![J.file] = Row(J.parent, J.file, pin)]
  <2>1. J.at = "insert" /\ J.file \in Ids /\ IsPrefixNode(J.parent, Text(J.file)) /\ txn = NoTxn
    BY <1>1, <1>4 DEF Insert, At, JobOK, Writing
  <2>2. UNCHANGED <<txn, disk>>
    BY <1>4 DEF Insert
  <2>3. CASE ~CanInsert(db, J.file, J.parent)
    <3>1. Done(p) /\ db' = db
      BY <1>4, <2>3 DEF Insert
    <3> QED
      BY <1>2, <2>2, <3>1, IdleStep
  <2>4. CASE CanInsert(db, J.file, J.parent)
    <3>1. db' = e /\ (IF next = "idle" THEN Done(p) ELSE Goto(p, next))
      BY <1>4, <2>4 DEF Insert
    <3>2. e \in Tables /\ TreeOf(e)
      <4>1. J.parent \in Ids \cup {None} /\ pin \in BOOLEAN
        BY <1>1 DEF Job
      <4> HIDE DEF pin
      <4> QED
        BY <1>2, <2>1, <2>4, <4>1, InsertTree
    <3>3. CASE next = "idle"
      BY <1>3, <2>1, <2>2, <3>1, <3>2, <3>3, CommitStep DEF Done
    <3>4. CASE next # "idle"
      <4> DEFINE j == [J EXCEPT !.at = next]
      <4>1. \/ J.op = "save" /\ J.gen # None /\ next = "genParent"
            \/ J.op = "save" /\ next = "updateStart"
            \/ J.op = "materialize" /\ next = "prefill"
            \/ J.op = "materialize" /\ next = "row"
        BY <3>4
      <4> HIDE DEF next
      <4>2. j \in Job
        BY <1>1, <4>1 DEF Job, Steps
      <4>3. j.at = next /\ j.op = J.op /\ j.text = J.text /\ j.file = J.file /\ j.gen = J.gen
        BY <1>1 DEF Job
      <4>4. J.gen \in Texts \cup {None}
        BY <1>1 DEF Job
      <4>5. JobOK(p, j, NoTxn)
        BY <1>1, <2>1, <4>1, <4>3, <4>4 DEF JobOK, Writing
      <4>6. job' = [job EXCEPT ![p] = j]
        BY <3>1, <3>4 DEF Goto
      <4> QED
        BY <2>1, <2>2, <3>1, <3>2, <4>2, <4>5, <4>6, CommitStep
    <3> QED
      BY <3>3, <3>4
  <2> QED
    BY <2>3, <2>4
<1>5. CASE InsertAnchorRow(p)
  <2>1. /\ J.file \in Ids /\ txn = NoTxn /\ Done(p) /\ UNCHANGED <<txn, disk>>
        /\ db' = IF db[J.file] = Absent THEN db ELSE [db EXCEPT ![J.file].row = TRUE]
    BY <1>1, <1>5 DEF InsertAnchorRow, At, JobOK, Writing
  <2>2. db' \in Tables /\ TreeOf(db')
    <3>1. CASE db[J.file] = Absent
      BY <1>2, <2>1, <3>1
    <3>2. CASE db[J.file] # Absent
      BY <1>2, <2>1, <3>2, IndexedTree DEF Present
    <3> QED
      BY <3>1, <3>2
  <2> QED
    BY <1>3, <2>1, <2>2, CommitStep DEF Done
<1>6. CASE InsertGen(p)
  <2> DEFINE n == Plain(J.gen)
             e == [db EXCEPT ![n] = Row(J.parent, J.file, FALSE)]
  <2>1. /\ J.at = "insertGen" /\ J.file \in Ids /\ J.gen \in Texts
        /\ IsPrefixNode(J.parent, J.gen) /\ txn = NoTxn /\ UNCHANGED <<txn, disk>>
    BY <1>1, <1>6 DEF InsertGen, At, JobOK
  <2>2. n \in Ids /\ Text(n) = J.gen
    BY <2>1, TextIds
  <2>3. CASE ~CanInsert(db, n, J.parent)
    <3>1. Done(p) /\ db' = db
      BY <1>6, <2>3 DEF InsertGen
    <3> QED
      BY <1>2, <2>1, <3>1, IdleStep
  <2>4. CASE CanInsert(db, n, J.parent)
    <3> DEFINE j == [J EXCEPT !.at = "updateStart"]
    <3>1. db' = e /\ job' = [job EXCEPT ![p] = j]
      BY <1>6, <2>4 DEF InsertGen, Goto
    <3>2. e \in Tables /\ TreeOf(e)
      <4>1. J.parent \in Ids \cup {None}
        BY <1>1 DEF Job
      <4> QED
        BY <1>2, <2>1, <2>2, <2>4, <4>1, InsertTree
    <3>3. j \in Job
      BY <1>1 DEF Job, Steps
    <3>4. j.at = "updateStart" /\ j.op = J.op /\ j.text = J.text /\ j.file = J.file
      BY <1>1 DEF Job
    <3>5. JobOK(p, j, NoTxn)
      BY <1>1, <2>1, <3>4 DEF JobOK, Writing
    <3> QED
      BY <2>1, <3>1, <3>2, <3>3, <3>5, CommitStep
  <2> QED
    BY <2>3, <2>4
<1> QED
  BY <1>4, <1>5, <1>6

\* The walk up the ancestors: redirecting one leaves the tree as it is.
LEMMA UpdateStep ==
    ASSUME IInv, NEW p \in Procs, UpdateAncestor(p) \/ UpdateCommit(p)
    PROVE  IInv'
<1> DEFINE J == job[p]
<1>1. J \in Job /\ JobOK(p, J, txn) /\ job \in [Procs -> Job]
  BY OldJob DEF IInv, TypeOK
<1>2. /\ disk \in [Ids -> Texts \cup {NoFile}] /\ db \in Tables /\ TreeOf(db)
      /\ txn # NoTxn => txn.db \in Tables /\ TreeOf(txn.db)
  BY OldTables
<1>3. CASE UpdateAncestor(p)
  <2> DEFINE n == J.parent
             d == [db EXCEPT ![n].bin = J.file]
  <2>1. J.at = "update" /\ J.file \in Ids /\ UNCHANGED db
    BY <1>1, <1>3 DEF UpdateAncestor, At, JobOK, Writing
  <2>2. CASE n = None \/ db[n] = Absent
    BY <1>2, <1>3, <2>1, <2>2, IdleStep DEF UpdateAncestor
  <2>3. CASE ~(n = None \/ db[n] = Absent)
    <3>1. n \in Present(db) /\ n \in Ids /\ db[n] \in Node
      BY <1>1, <1>2, <2>3 DEF Job, Present, Tables
    <3>2. CASE db[n].bin = J.file
      <4> DEFINE j == [J EXCEPT !.parent = db[n].parent]
      <4>1. job' = [job EXCEPT ![p] = j] /\ UNCHANGED <<txn, disk>>
        BY <1>1, <1>3, <2>3, <3>2 DEF UpdateAncestor
      <4>2. db[n].parent \in Ids \cup {None}
        BY <3>1 DEF Node
      <4>3. j \in Job
        BY <1>1, <4>2 DEF Job
      <4>4. j.at = "update" /\ j.op = J.op /\ j.text = J.text /\ j.file = J.file
        BY <1>1, <2>1 DEF Job
      <4>5. JobOK(p, j, txn)
        BY <1>1, <2>1, <4>4 DEF JobOK, Writing
      <4> QED
        BY <1>2, <2>1, <4>1, <4>3, <4>5, LocalStep
    <3>3. CASE db[n].bin # J.file
      <4> DEFINE j == [J EXCEPT !.at = "updateCommit"]
      <4>1. /\ txn = NoTxn /\ txn' = [owner |-> p, db |-> d]
            /\ disk' = Unlinked(d, db[n].bin) /\ job' = [job EXCEPT ![p] = j]
        BY <1>3, <2>3, <3>3 DEF UpdateAncestor, Goto
      <4>2. d \in Tables /\ Present(d) = Present(db) /\ TreeOf(d)
        BY <1>2, <2>1, <3>1, RedirectTree
      <4> HIDE DEF d
      <4>3. disk' \in [Ids -> Texts \cup {NoFile}]
        BY <1>2, <4>1 DEF Unlinked
      <4>4. /\ txn'.owner = p /\ txn'.db = d /\ txn' # NoTxn
            /\ txn' \in [owner : Procs, db : Tables]
        BY <4>1, <4>2, NamesAssumption
      <4>5. j \in Job
        BY <1>1 DEF Job, Steps
      <4>6. /\ j.at = "updateCommit" /\ j.op = J.op /\ j.text = J.text
            /\ j.file = J.file /\ j.parent = n
        BY <1>1 DEF Job
      <4>7. JobOK(p, j, txn')
        BY <1>1, <2>1, <3>1, <4>2, <4>4, <4>6 DEF JobOK, Writing
      <4>8. /\ job' \in [Procs -> Job] /\ job'[p] = j
            /\ \A q \in Procs \ {p} : job'[q] = job[q]
        BY <1>1, <4>1, <4>5
      <4> HIDE DEF j
      <4> QED
        BY <1>2, <2>1, <4>1, <4>2, <4>3, <4>4, <4>7, <4>8, StepOf
    <3> QED
      BY <3>2, <3>3
  <2> QED
    BY <2>2, <2>3
<1>4. CASE UpdateCommit(p)
  <2> DEFINE e == txn.db
             j == [J EXCEPT !.at = "update", !.parent = e[J.parent].parent]
  <2>1. /\ J.at = "updateCommit" /\ txn # NoTxn /\ txn.owner = p
        /\ J.parent \in Present(e) /\ J.file \in Ids
    BY <1>1, <1>4 DEF UpdateCommit, At, JobOK
  <2>2. e \in Tables /\ TreeOf(e)
    BY <1>2, <2>1
  <2>3. e[J.parent].parent \in Ids \cup {None}
    BY <2>1, <2>2 DEF Present, Tables, Node
  <2>4. db' = e /\ txn' = NoTxn /\ UNCHANGED disk /\ job' = [job EXCEPT ![p] = j]
    BY <1>1, <1>4 DEF UpdateCommit
  <2> HIDE DEF e
  <2>5. j \in Job
    BY <1>1, <2>3 DEF Job, Steps
  <2>6. j.at = "update" /\ j.op = J.op /\ j.text = J.text /\ j.file = J.file
    BY <1>1 DEF Job
  <2>7. JobOK(p, j, NoTxn)
    BY <1>1, <2>1, <2>6 DEF JobOK, Writing
  <2> QED
    BY <2>1, <2>2, <2>4, <2>5, <2>7, CommitStep
<1> QED
  BY <1>3, <1>4

\* A process killed, or an operation that raises, at any step.
LEMMA FailStep ==
    ASSUME IInv, NEW p \in Procs, Fail(p)
    PROVE  IInv'
<1>1. /\ job' = [job EXCEPT ![p] = NoJob] /\ UNCHANGED <<db, disk>>
      /\ txn' = IF txn # NoTxn /\ txn.owner = p THEN NoTxn ELSE txn
  BY DEF Fail, Done
<1>2. NoJob \in Job /\ JobOK(p, NoJob, txn) /\ JobOK(p, NoJob, NoTxn)
  BY NoJobOK
<1>3. CASE txn # NoTxn /\ txn.owner = p
  BY <1>1, <1>2, <1>3, OldTables, CommitStep
<1>4. CASE ~(txn # NoTxn /\ txn.owner = p)
  BY <1>1, <1>2, <1>4, OldTables, LocalStep
<1> QED
  BY <1>3, <1>4

\* The empty cache satisfies IInv.
LEMMA InitIInv == Init => IInv
<1> SUFFICES ASSUME Init PROVE IInv
  OBVIOUS
<1>1. \A p \in Procs : NoJob \in Job /\ JobOK(p, NoJob, txn)
  BY NoJobOK
<1>2. TypeOK
  BY <1>1 DEF Init, TypeOK, Tables
<1>3. Present(db) = {} /\ txn = NoTxn
  BY DEF Init, Present
<1>4. TreeInv
  BY <1>3 DEF TreeInv, TreeOf
<1>5. JobInv
  BY <1>1 DEF Init, JobInv
<1> QED
  BY <1>2, <1>4, <1>5 DEF IInv

\* Every step of every process preserves IInv.
LEMMA NextIInv == IInv /\ [Next]_vars => IInv'
<1> SUFFICES ASSUME IInv, [Next]_vars PROVE IInv'
  OBVIOUS
<1>1. CASE UNCHANGED vars
  BY <1>1 DEF vars, IInv, TypeOK, TreeInv, JobInv
<1>2. ASSUME NEW p \in Procs, Write(p) PROVE IInv'
  BY <1>2, FileStep, ReadStep, InsertStep, UpdateStep DEF Write
<1> QED
  BY <1>1, <1>2, BeginStep, PruneStep, FailStep DEF Next

\* IInv holds in every reachable state.
LEMMA ReachableIInv == Spec => []IInv
BY InitIInv, NextIInv, PTL DEF Spec

\* The tables, the files and the locals of every operation keep their types.
THEOREM TypeCorrect == Spec => []TypeOK
BY ReachableIInv, PTL DEF IInv

\* Whatever processes interleave or die: the parent_id chains that
\* _pick_slot_for_restore and update_ancestors_bin walk lead only through rows that
\* exist, each a strict prefix of the one before, so that the walks end.
THEOREM ParentsArePrefixes == Spec => []ParentIsPrefix
<1>1. IInv => ParentIsPrefix
  <2> SUFFICES ASSUME IInv PROVE ParentIsPrefix
    OBVIOUS
  <2>1. TreeOf(Current)
    BY DEF IInv, TreeInv, Current
  <2> QED
    BY <2>1 DEF TreeOf, ParentIsPrefix
<1> QED
  BY <1>1, ReachableIInv, PTL
=============================================================================
