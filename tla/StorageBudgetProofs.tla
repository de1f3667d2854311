-------------------------- MODULE StorageBudgetProofs --------------------------
(***************************************************************************)
(* StorageBudget for any number of directories, any prefix relation, any   *)
(* sizes and any budgets.                                                  *)
(*                                                                         *)
(* What the totals obey comes first: they are numbers, they grow with the  *)
(* scope, and only a scope without rows counts nothing.  The invariant     *)
(* then says what the pruner knows at each of its steps (JobOK) and that   *)
(* the rows form forests within a directory (TreeOf): the cascade compares *)
(* one directory with a limit for all, and that this never deletes more    *)
(* than the limit asks for rests on both.                                  *)
(***************************************************************************)
EXTENDS StorageBudget, FiniteSetTheorems, TLAPS

Tables == [Nodes -> Row \cup {Absent}]

\* A parent is a row for a strict prefix, so it belongs to the same directory.
TreeOf(t) ==
    \A n \in Present(t) :
        t[n].parent # None => t[n].parent \in Present(t) /\ <<t[n].parent, n>> \in Below

Pruning == {"prune", "cascade", "unlink"}

\* What is counted, and what the caller is about to save, fit in the budget.
FitsBudget(bytes) == bytes \in Nat /\ bytes + job.reserve <= MaxBytes

NothingToDelete == Prunable(rows, Nodes) = {}

JobOK ==
    /\ job.at # "idle" => job.scope = Nodes \/ \E d \in Directories : job.scope = In(d)
    /\ job.goal # "command" => job.scope = Nodes /\ job.maxNodes = None
    /\ job.at \in {"free", "granted", "refused"} => job.goal # "command"
    /\ At("cascade") =>
        /\ job.cur \in Present(rows) \cap job.scope
        /\ Exceeds(rows, job.scope, job.maxBytes, job.maxNodes)
    /\ job.goal = "budget" => job.maxBytes = Target(job.reserve)
    /\ job.goal = "disk" /\ job.at \in {"cascade", "unlink"} => job.removed
    /\ job.goal = "disk" /\ job.at \in Pruning =>
        FitsBudget(job.maxBytes) \/ (At("prune") /\ NothingToDelete)
    /\ job.goal = "disk" /\ At("prune") /\ ~job.removed =>
        job.maxBytes \in Nat /\ Counted(rows, Nodes) = job.maxBytes + 1
    /\ job.at \in {"free", "granted"} =>
        FitsBudget(Counted(rows, Nodes)) \/ (job.goal = "disk" /\ NothingToDelete)
    /\ At("granted") => Free >= MinFree + job.reserve
    /\ At("refused") => NothingToDelete

IInv == TypeOK /\ TreeOf(rows) /\ JobOK

-----------------------------------------------------------------------------
(* The totals. *)

LEMMA BytesFinite ==
    ASSUME NEW file, NEW size \in Nat
    PROVE  IsFiniteSet(Bytes(file, size))
<1>1. IsFiniteSet({file})
    BY FS_Singleton
<1>2. IsFiniteSet(1 .. size)
    BY FS_Interval
<1> QED
    BY <1>1, <1>2, FS_Product DEF Bytes

\* The bytes that are counted are finitely many, so their number is a number; a larger
\* scope counts no less; and a scope that counts nothing has no row, for no file is empty.
LEMMA CountedTotals ==
    ASSUME NEW t \in Tables, NEW S \in SUBSET Nodes, NEW T \in SUBSET S
    PROVE  /\ Counted(t, S) \in Nat
           /\ Counted(t, T) \in Nat
           /\ Counted(t, T) <= Counted(t, S)
           /\ Counted(t, S) = 0 => Present(t) \cap S = {}
<1> DEFINE Of(n) == Bytes(t[n].bin, t[n].size)
           All(U) == UNION {Of(n) : n \in Present(t) \cap U}
<1>1. ASSUME NEW n \in Present(t)
      PROVE  n \in Nodes /\ t[n] \in Row /\ t[n].size \in Nat /\ t[n].size >= 1
  <2>1. n \in Nodes /\ t[n] \in Row
      BY DEF Present, Tables
  <2>2. t[n].size \in Sizes
      BY <2>1 DEF Row
  <2>3. t[n].size \in Nat \ {0}
      BY <2>2, SizesAssumption
  <2> QED
      BY <2>1, <2>3
<1>2. IsFiniteSet(Present(t) \cap S)
    BY NodesAssumption, FS_Subset DEF Present
<1>3. IsFiniteSet(All(S))
  <2> DEFINE image == [n \in Present(t) \cap S |-> Of(n)]
             parts == {Of(n) : n \in Present(t) \cap S}
  <2>1. image \in Surjection(Present(t) \cap S, parts)
      BY DEF Surjection
  <2>2. IsFiniteSet(parts)
      BY <2>1, <1>2, FS_Surjection
  <2>3. \A P \in parts : IsFiniteSet(P)
      BY <1>1, BytesFinite
  <2> HIDE DEF parts
  <2>4. IsFiniteSet(UNION parts)
      BY <2>2, <2>3, FS_UNION
  <2> QED
      BY <2>4 DEF parts
<1>4. All(T) \subseteq All(S)
    OBVIOUS
<1>5. ASSUME All(S) = {}, NEW n \in Present(t) \cap S PROVE FALSE
  <2>1. <<t[n].bin, 1>> \in Of(n)
      BY <1>1 DEF Bytes
  <2> QED
      BY <2>1, <1>5
<1>6. Counted(t, S) = Cardinality(All(S)) /\ Counted(t, T) = Cardinality(All(T))
    BY DEF Counted
<1> HIDE DEF All
<1> QED
    BY <1>3, <1>4, <1>5, <1>6, FS_Subset, FS_CardinalityType, FS_EmptySet

\* What exceeds a limit in a part of the scope exceeds it in the scope.
LEMMA ExceedsGrows ==
    ASSUME NEW t \in Tables, NEW S \in SUBSET Nodes, NEW T \in SUBSET S,
           NEW b \in Nat \cup {None}, NEW k \in Nat \cup {None},
           Exceeds(t, T, b, k)
    PROVE  Exceeds(t, S, b, k)
<1>1. Counted(t, T) \in Nat /\ Counted(t, S) \in Nat /\ Counted(t, T) <= Counted(t, S)
    BY CountedTotals
<1>2. IsFiniteSet(Present(t) \cap S)
    BY NodesAssumption, FS_Subset DEF Present
<1>3. Present(t) \cap T \in SUBSET (Present(t) \cap S)
    OBVIOUS
<1>4. /\ Cardinality(Present(t) \cap T) \in Nat /\ Cardinality(Present(t) \cap S) \in Nat
      /\ Cardinality(Present(t) \cap T) <= Cardinality(Present(t) \cap S)
    BY <1>2, <1>3, FS_Subset, FS_CardinalityType
<1> QED
    BY <1>1, <1>4 DEF Exceeds

-----------------------------------------------------------------------------
(* The tables. *)

\* parent_for finds a row for a strict prefix whenever there is one: of finitely many
\* prefixes one has no other above it.
LEMMA ParentForFinds ==
    ASSUME NEW t \in Tables, NEW n \in Nodes
    PROVE  ParentFor(t, n) # None =>
               ParentFor(t, n) \in Present(t) /\ <<ParentFor(t, n), n>> \in Below
<1> DEFINE shorter == {m \in Present(t) : <<m, n>> \in Below}
           Longer(m) == {k \in shorter : <<m, k>> \in Below}
           family == {Longer(m) : m \in shorter}
<1>1. CASE shorter = {}
    BY <1>1 DEF ParentFor
<1>2. CASE shorter # {}
  <2>1. IsWellFoundedOn(StrictSubsetOrdering(Nodes), SUBSET Nodes)
      BY NodesAssumption, FS_StrictSubsetOrderingWellFounded, FS_FiniteSubsetsOfFinite
  <2>2. family \subseteq SUBSET Nodes /\ family # {}
      BY <1>2 DEF Present
  <2>3. PICK L \in family : \A K \in family : ~(<<K, L>> \in StrictSubsetOrdering(Nodes))
    <3> HIDE DEF family
    <3> QED
        BY <2>1, <2>2, WFMin
  <2>4. PICK m \in shorter : L = Longer(m)
      OBVIOUS
  <2>5. ASSUME NEW k \in shorter, <<m, k>> \in Below PROVE FALSE
    <3>1. k \in Nodes /\ m \in Nodes
        BY DEF Present
    <3>2. Longer(k) \subseteq Longer(m)
      <4> SUFFICES ASSUME NEW j \in shorter, <<k, j>> \in Below PROVE <<m, j>> \in Below
          OBVIOUS
      <4>1. j \in Nodes
          BY DEF Present
      <4> QED
          BY <4>1, <3>1, <2>5, BelowAssumption
    <3>3. k \in Longer(m) /\ k \notin Longer(k)
        BY <3>1, <2>5, BelowAssumption
    <3>4. Longer(k) \in family /\ Longer(k) \in SUBSET Nodes /\ Longer(m) \in SUBSET Nodes
        BY DEF Present
    <3>5. <<Longer(k), Longer(m)>> \in StrictSubsetOrdering(Nodes)
      <4> HIDE DEF Longer
      <4> QED
          BY <3>2, <3>3, <3>4 DEF StrictSubsetOrdering
    <3> QED
        BY <2>3, <2>4, <3>4, <3>5
  <2>6. \E l \in shorter : \A k \in shorter : <<l, k>> \notin Below
      BY <2>5
  <2>7. ParentFor(t, n) = CHOOSE l \in shorter : \A k \in shorter : <<l, k>> \notin Below
      BY <1>2 DEF ParentFor
  <2>8. ParentFor(t, n) \in shorter
    <3> HIDE DEF shorter
    <3> QED
        BY <2>6, <2>7
  <2> QED
      BY <2>8
<1> QED
    BY <1>1, <1>2

\* A table from which a row was deleted is a forest: its children have no parent now.
LEMMA WithoutTree ==
    ASSUME NEW t \in Tables, TreeOf(t), NEW n \in Nodes
    PROVE  /\ Without(t, n) \in Tables
           /\ Present(Without(t, n)) = Present(t) \ {n}
           /\ TreeOf(Without(t, n))
<1> DEFINE w == Without(t, n)
<1>1. ASSUME NEW m \in Children(t, n) PROVE [t[m] EXCEPT !.parent = None] \in Row
    BY DEF Children, Present, Tables, Row
<1>2. w \in Tables
    BY <1>1 DEF Without, Tables
<1>3. Present(w) = Present(t) \ {n}
    BY <1>1, AbsentAssumption DEF Without, Present, Children
<1>4. ASSUME NEW m \in Present(w), w[m].parent # None
      PROVE  w[m] = t[m] /\ t[m].parent # n
  <2>1. m \in Nodes /\ m # n
      BY <1>3 DEF Present
  <2>2. m \notin Children(t, n)
    <3> SUFFICES ASSUME m \in Children(t, n) PROVE FALSE
        OBVIOUS
    <3>1. w[m] = [t[m] EXCEPT !.parent = None]
        BY <2>1 DEF Without
    <3>2. t[m] \in Row
        BY DEF Children, Present, Tables
    <3> QED
        BY <3>1, <3>2, <1>4 DEF Row
  <2> QED
      BY <2>1, <2>2, <1>3 DEF Without, Children
<1>5. TreeOf(w)
    BY <1>3, <1>4 DEF TreeOf
<1> QED
    BY <1>2, <1>3, <1>5

\* Rows that come to name another file keep their place.
Renamed(t, S, file) == [m \in Nodes |-> IF m \in S THEN [t[m] EXCEPT !.bin = file] ELSE t[m]]

LEMMA RenamedTree ==
    ASSUME NEW t \in Tables, TreeOf(t), NEW file \in Nodes, NEW S \in SUBSET Present(t)
    PROVE  /\ Renamed(t, S, file) \in Tables
           /\ Present(Renamed(t, S, file)) = Present(t)
           /\ TreeOf(Renamed(t, S, file))
<1> DEFINE u == Renamed(t, S, file)
<1>1. ASSUME NEW m \in S
      PROVE  /\ m \in Nodes /\ u[m] = [t[m] EXCEPT !.bin = file]
             /\ u[m] \in Row /\ u[m].parent = t[m].parent
    BY DEF Present, Tables, Row, Renamed
<1>2. \A m \in Nodes \ S : u[m] = t[m]
    BY DEF Renamed
<1>3. u \in Tables
    BY <1>1 DEF Tables, Renamed
<1>4. Present(u) = Present(t)
    BY <1>1, <1>2, AbsentAssumption DEF Present
<1>5. \A m \in Present(t) : u[m].parent = t[m].parent
    BY <1>1, <1>2 DEF Present
<1> QED
    BY <1>3, <1>4, <1>5 DEF TreeOf

\* A new row for a node, under a row for a strict prefix of it or under none.
LEMMA InsertTree ==
    ASSUME NEW t \in Tables, TreeOf(t), NEW n \in Nodes, t[n] = Absent,
           NEW row \in Row,
           row.parent # None => row.parent \in Present(t) /\ <<row.parent, n>> \in Below
    PROVE  /\ [t EXCEPT ![n] = row] \in Tables
           /\ Present([t EXCEPT ![n] = row]) = Present(t) \cup {n}
           /\ TreeOf([t EXCEPT ![n] = row])
    BY AbsentAssumption DEF Tables, Present, TreeOf

\* NewRow gives a node such a row.
LEMMA NewRowTree ==
    ASSUME NEW t \in Tables, TreeOf(t), NEW n \in Nodes, t[n] = Absent,
           NEW file \in Nodes, NEW size \in Sizes, NEW pinned \in BOOLEAN
    PROVE  /\ NewRow(t, n, file, size, pinned) \in Tables
           /\ Present(NewRow(t, n, file, size, pinned)) = Present(t) \cup {n}
           /\ TreeOf(NewRow(t, n, file, size, pinned))
<1> DEFINE row == [parent |-> ParentFor(t, n), bin |-> file, size |-> size, pinned |-> pinned]
<1>1. row.parent # None => row.parent \in Present(t) /\ <<row.parent, n>> \in Below
    BY ParentForFinds
<1>2. row \in Row
    BY <1>1 DEF Row, Present
<1>3. /\ [t EXCEPT ![n] = row] \in Tables
      /\ Present([t EXCEPT ![n] = row]) = Present(t) \cup {n}
      /\ TreeOf([t EXCEPT ![n] = row])
  <2> HIDE DEF row
  <2> QED
      BY <1>1, <1>2, InsertTree
<1> QED
    BY <1>3 DEF NewRow

LEMMA UnlinkedType ==
    ASSUME TypeOK, NEW t, NEW S
    PROVE  Unlinked(t, S) \in [Nodes -> Sizes \cup {0}]
    BY DEF TypeOK, Unlinked

\* The whole directory of a row in the scope is in the scope.
LEMMA ScopeIsWhole ==
    ASSUME TypeOK, JobOK, job.at # "idle", NEW n \in job.scope
    PROVE  In(Directory[n]) \in SUBSET job.scope /\ job.scope \in SUBSET Nodes
    BY DEF TypeOK, Job, JobOK, In

-----------------------------------------------------------------------------
(* One step per action: the pruner. *)

LEMMA PickVictimStep ==
    ASSUME IInv, PickVictim
    PROVE  IInv'
<1> USE DEF IInv
<1>1. rows' = rows /\ files' = files
    BY DEF PickVictim
<1>2. PICK n \in Prunable(rows, job.scope) :
        job' = [job EXCEPT !.at = "cascade", !.cur = n, !.removed = TRUE]
    BY DEF PickVictim
<1>3. n \in Present(rows) \cap job.scope /\ n \in Nodes /\ n \in Prunable(rows, Nodes)
    BY DEF Prunable, Present
<1>4. TypeOK'
    BY <1>1, <1>2, <1>3 DEF TypeOK, Job, Steps
<1>5. JobOK'
    BY <1>1, <1>2, <1>3 DEF PickVictim, TypeOK, Job, JobOK, At, Pruning, FitsBudget,
        NothingToDelete
<1> QED
    BY <1>1, <1>4, <1>5 DEF TreeOf, Present

\* Over the limits of one directory, after the deletion: over the limits of the scope.
LEMMA GoesOnExceeds ==
    ASSUME IInv, At("cascade"), NEW t \in Tables, NEW parent, GoesOn(t, job.cur, parent)
    PROVE  Exceeds(t, job.scope, job.maxBytes, job.maxNodes)
<1>1. job.cur \in job.scope /\ job.at # "idle"
    BY DEF IInv, JobOK, At
<1>2. In(Directory[job.cur]) \in SUBSET job.scope /\ job.scope \in SUBSET Nodes
    BY <1>1, ScopeIsWhole DEF IInv
<1>3. job.maxBytes \in Nat \cup {None} /\ job.maxNodes \in Nat \cup {None}
    BY DEF IInv, TypeOK, Job
<1> QED
    BY <1>2, <1>3, ExceedsGrows DEF GoesOn

\* What a round of the cascade does with the job, when the node n goes.
Round(n, parent, target, more) ==
    job' = [job EXCEPT !.at = IF more THEN "cascade" ELSE "unlink",
                       !.cur = IF more THEN parent ELSE None,
                       !.redirect = IF more THEN target ELSE None,
                       !.bins = @ \cup {rows[n].bin}]

\* A round of the cascade that leaves the table u.
LEMMA RoundStep ==
    ASSUME IInv, At("cascade"), files' = files,
           NEW n, n = job.cur, NEW parent, parent = rows[n].parent,
           NEW u \in Tables, TreeOf(u), Present(u) = Present(rows) \ {n},
           NEW target \in Nodes \cup {None}, NEW more, more = GoesOn(u, n, parent),
           rows' = u, Round(n, parent, target, more)
    PROVE  IInv'
<1> USE DEF IInv, Round
<1>1. n \in Nodes /\ n \in Present(rows) /\ n \in job.scope
    BY DEF JobOK, Present
<1>2. rows[n] \in Row /\ rows[n].bin \in Nodes /\ parent \in Nodes \cup {None}
    BY <1>1 DEF TypeOK, Present, Row
<1>3. parent # None => parent \in Present(u) /\ parent \in In(Directory[n])
  <2> SUFFICES ASSUME parent # None PROVE parent \in Present(u) /\ parent \in In(Directory[n])
      OBVIOUS
  <2>1. parent \in Present(rows) /\ <<parent, n>> \in Below
      BY <1>1 DEF TreeOf
  <2>2. parent # n
      BY <1>1, <2>1, BelowAssumption
  <2>3. Directory[parent] = Directory[n]
      BY <2>1, BelowInDirectory
  <2> QED
      BY <2>1, <2>2, <2>3 DEF Present, In
<1>4. TypeOK'
    BY <1>2 DEF TypeOK, Job, Steps, Tables
<1>5. In(Directory[n]) \in SUBSET job.scope
    BY <1>1, ScopeIsWhole DEF At
<1>6. more => parent \in Present(u) \cap job.scope
    BY <1>3, <1>5 DEF GoesOn
<1>7. more => Exceeds(u, job.scope, job.maxBytes, job.maxNodes)
    BY GoesOnExceeds
<1>8. JobOK'
    BY <1>6, <1>7 DEF TypeOK, Job, JobOK, At, Pruning, FitsBudget
<1> QED
    BY <1>4, <1>8

LEMMA CascadeStep ==
    ASSUME IInv, Cascade
    PROVE  IInv'
<1> DEFINE n == job.cur
           parent == rows[n].parent
           t == Without(rows, n)
           siblings == Children(t, parent)
<1>1. At("cascade") /\ files' = files
    BY DEF Cascade
<1>2. n \in Nodes /\ rows \in Tables /\ TreeOf(rows)
    BY <1>1 DEF IInv, JobOK, Present, TypeOK, Tables
<1>3. t \in Tables /\ Present(t) = Present(rows) \ {n} /\ TreeOf(t)
    BY <1>2, WithoutTree
<1>4. job.redirect \in Nodes \cup {None}
    BY DEF IInv, TypeOK, Job
<1>5. CASE parent = None \/ siblings = {}
  <2> DEFINE more == GoesOn(t, n, parent)
  <2>1. rows' = t /\ Round(n, parent, job.redirect, more)
      BY <1>5 DEF Cascade, Round
  <2> HIDE DEF t, parent, n, more
  <2> QED
      BY <2>1, <1>1, <1>3, <1>4, RoundStep DEF n, parent, more
<1>6. CASE ~(parent = None \/ siblings = {})
  <2> DEFINE Redirected(target) == [t EXCEPT ![parent].bin = target]
             more(target) == GoesOn(Redirected(target), n, parent)
  <2>1. PICK target \in IF job.redirect # None THEN {job.redirect}
                        ELSE {t[m].bin : m \in siblings} :
            rows' = Redirected(target) /\ Round(n, parent, target, more(target))
      BY <1>6 DEF Cascade, Round
  <2>2. target \in Nodes
    <3>1. \A m \in siblings : t[m].bin \in Nodes
        BY <1>3 DEF Children, Present, Tables, Row
    <3> QED
        BY <3>1, <1>4, <2>1
  <2>3. parent \in Present(t)
    <3>1. n \in Present(rows)
        BY <1>1 DEF IInv, JobOK
    <3>2. parent \in Present(rows) /\ <<parent, n>> \in Below
        BY <3>1, <1>2, <1>6 DEF TreeOf
    <3> QED
        BY <3>2, <1>2, <1>3, BelowAssumption
  <2> DEFINE renamed == Renamed(t, {parent}, target)
  <2>4. renamed \in Tables /\ Present(renamed) = Present(t) /\ TreeOf(renamed)
    <3> HIDE DEF t, parent
    <3> QED
        BY <1>3, <2>2, <2>3, RenamedTree
  <2>5. renamed = Redirected(target)
      BY <1>3, <2>3 DEF Tables, Present, Renamed
  <2> DEFINE u == Redirected(target)
             on == more(target)
  <2>6. rows' = u /\ Round(n, parent, target, on)
      BY <2>1
  <2>7. on = GoesOn(u, n, parent) /\ u \in Tables /\ TreeOf(u) /\ Present(u) = Present(rows) \ {n}
    <3> HIDE DEF Redirected, renamed
    <3> QED
        BY <2>4, <2>5, <1>3
  <2> HIDE DEF u, on, t, parent, n
  <2> QED
      BY <2>2, <2>6, <2>7, <1>1, RoundStep DEF n, parent
<1> QED
    BY <1>5, <1>6

LEMMA UnlinkBinsStep ==
    ASSUME IInv, UnlinkBins
    PROVE  IInv'
<1> USE DEF IInv
<1>1. rows' = rows /\ At("unlink") /\ job' = [job EXCEPT !.at = "prune", !.bins = {}]
    BY DEF UnlinkBins
<1>2. files' \in [Nodes -> Sizes \cup {0}]
    BY UnlinkedType DEF UnlinkBins
<1>3. TypeOK'
    BY <1>1, <1>2 DEF TypeOK, Job, Steps
<1>4. JobOK'
    BY <1>1 DEF TypeOK, Job, JobOK, At, Pruning, FitsBudget, NothingToDelete
<1> QED
    BY <1>1, <1>3, <1>4 DEF TreeOf, Present

LEMMA NoJobStep ==
    ASSUME TypeOK', TreeOf(rows'), job' = NoJob
    PROVE  IInv'
    BY DEF IInv, NoJob, JobOK, At, Pruning

\* What the pruner leaves when it ends: a total within the limit, or no row it could delete.
LEMMA PrunedEnough ==
    ASSUME IInv, PruneEnds, job.goal # "command"
    PROVE  /\ Counted(rows, Nodes) \in Nat
           /\ Counted(rows, Nodes) = 0 => NothingToDelete
           /\ \/ job.maxBytes = None
              \/ job.maxBytes \in Nat /\ Counted(rows, Nodes) <= job.maxBytes
              \/ NothingToDelete
<1>1. rows \in Tables /\ job.maxBytes \in Nat \cup {None} /\ job.scope = Nodes
    BY DEF IInv, TypeOK, Tables, Job, JobOK
<1>2. Counted(rows, Nodes) \in Nat /\ (Counted(rows, Nodes) = 0 => Present(rows) \cap Nodes = {})
    BY <1>1, CountedTotals
<1> QED
    BY <1>1, <1>2 DEF PruneEnds, Exceeds, NothingToDelete, Prunable

\* Target is a limit, and a total within it fits in the budget or is nothing.
LEMMA TargetFits ==
    ASSUME NEW reserve \in Nat
    PROVE  /\ Target(reserve) \in Nat /\ Target(reserve) # None
           /\ \A total \in Nat :
                total <= Target(reserve) => total + reserve <= MaxBytes \/ total = 0
<1>1. MaxBytes \in Nat
    BY LimitsAssumption
<1>2. Target(reserve) \in 0 .. MaxBytes
    BY <1>1 DEF Target
<1> QED
    BY <1>1, <1>2, BudgetsAreNotNone DEF Target

LEMMA CheckBudgetStep ==
    ASSUME IInv, CheckBudget
    PROVE  IInv'
<1> USE DEF IInv
<1> DEFINE total == Counted(rows, Nodes)
<1>1. /\ rows' = rows /\ files' = files /\ At("prune") /\ job.goal = "budget"
      /\ job' = [job EXCEPT !.at = IF total + job.reserve > MaxBytes THEN "refused" ELSE "free"]
    BY DEF CheckBudget, PruneEnds
<1>2. total' = total
    BY <1>1
<1>3. job.reserve \in Nat /\ job.maxBytes = Target(job.reserve) /\ MaxBytes \in Nat
    BY <1>1, LimitsAssumption DEF TypeOK, Job, JobOK
<1>4. total \in Nat /\ (total + job.reserve > MaxBytes => NothingToDelete)
  <2>1. /\ total \in Nat /\ (total = 0 => NothingToDelete)
        /\ total <= job.maxBytes \/ NothingToDelete
      BY <1>1, <1>3, PrunedEnough, TargetFits DEF CheckBudget
  <2> HIDE DEF total
  <2> QED
      BY <2>1, <1>3, TargetFits
<1>5. TypeOK'
    BY <1>1 DEF TypeOK, Job, Steps
<1>6. NothingToDelete' = NothingToDelete
    BY <1>1 DEF NothingToDelete
<1>7. JobOK'
  <2> HIDE DEF total
  <2>1. Counted(rows, Nodes) = total /\ Counted(rows, Nodes)' = total
      BY <1>2 DEF total
  <2> QED
      BY <1>1, <1>3, <1>4, <1>6, <2>1 DEF TypeOK, Job, JobOK, At, Pruning, FitsBudget
<1> QED
    BY <1>1, <1>5, <1>7 DEF TreeOf, Present

LEMMA CheckRemovedStep ==
    ASSUME IInv, CheckRemoved
    PROVE  IInv'
<1> USE DEF IInv
<1> DEFINE total == Counted(rows, Nodes)
<1>1. /\ rows' = rows /\ files' = files /\ At("prune") /\ job.goal = "disk"
      /\ job' = [job EXCEPT !.at = IF job.removed THEN "free" ELSE "refused"]
    BY DEF CheckRemoved, PruneEnds
<1>2. total' = total
    BY <1>1
<1>3. job.reserve \in Nat /\ MaxBytes \in Nat /\ job.removed \in BOOLEAN /\ job.scope = Nodes
    BY <1>1, LimitsAssumption DEF TypeOK, Job, JobOK
<1>4. /\ total \in Nat
      /\ FitsBudget(total) \/ NothingToDelete
      /\ job.removed \/ NothingToDelete
  <2>1. /\ total \in Nat
        /\ \/ job.maxBytes = None
           \/ job.maxBytes \in Nat /\ total <= job.maxBytes
           \/ NothingToDelete
      BY <1>1, PrunedEnough DEF CheckRemoved
  <2>2. FitsBudget(job.maxBytes) \/ NothingToDelete
      BY <1>1 DEF JobOK, At, Pruning
  <2>3. ~job.removed => job.maxBytes \in Nat /\ total = job.maxBytes + 1
      BY <1>1 DEF JobOK, At
  <2>4. CASE job.maxBytes = None
    <3>1. FitsBudget(job.maxBytes) => job.maxBytes \in 0 .. MaxBytes
      <4> SUFFICES ASSUME FitsBudget(job.maxBytes) PROVE job.maxBytes \in 0 .. MaxBytes
          OBVIOUS
      <4>1. job.maxBytes \in Nat /\ job.maxBytes + job.reserve <= MaxBytes
          BY DEF FitsBudget
      <4> QED
          BY <4>1, <1>3
    <3>2. ~FitsBudget(job.maxBytes)
        BY <3>1, <2>4, BudgetsAreNotNone
    <3> QED
        BY <3>2, <2>1, <2>2
  <2>5. CASE job.maxBytes # None
    <3> HIDE DEF total
    <3> QED
        BY <2>1, <2>2, <2>3, <2>5, <1>3 DEF FitsBudget
  <2> QED
      BY <2>4, <2>5
<1>5. TypeOK'
    BY <1>1 DEF TypeOK, Job, Steps
<1>6. NothingToDelete' = NothingToDelete
    BY <1>1 DEF NothingToDelete
<1>7. JobOK'
  <2> HIDE DEF total
  <2>1. Counted(rows, Nodes) = total /\ Counted(rows, Nodes)' = total
      BY <1>2 DEF total
  <2> QED
      BY <1>1, <1>3, <1>4, <1>6, <2>1 DEF TypeOK, Job, JobOK, At, Pruning, FitsBudget
<1> QED
    BY <1>1, <1>5, <1>7 DEF TreeOf, Present

LEMMA CheckFreeStep ==
    ASSUME IInv, CheckFree
    PROVE  IInv'
<1> USE DEF IInv
<1> DEFINE total == Counted(rows, Nodes)
<1>1. /\ rows' = rows /\ files' = files /\ At("free")
      /\ job' = IF Free >= MinFree + job.reserve THEN [job EXCEPT !.at = "granted"]
                ELSE IF total = 0 THEN [job EXCEPT !.at = "refused"]
                ELSE [job EXCEPT !.at = "prune", !.goal = "disk", !.removed = FALSE,
                                 !.maxBytes = total - 1]
    BY DEF CheckFree
<1>2. total' = total /\ Free' = Free
    BY <1>1 DEF Free, Stored
<1>3. job.reserve \in Nat /\ MaxBytes \in Nat /\ rows \in Tables
    BY <1>1, LimitsAssumption DEF TypeOK, Job, Tables
<1>4. total \in Nat /\ (total = 0 => NothingToDelete)
  <2>1. total \in Nat /\ (total = 0 => Present(rows) \cap Nodes = {})
      BY <1>3, CountedTotals
  <2> QED
      BY <2>1 DEF NothingToDelete, Prunable
<1>5. NothingToDelete' = NothingToDelete
    BY <1>1 DEF NothingToDelete
<1> HIDE DEF total
<1>6. TypeOK'
  <2>1. total # 0 => total - 1 \in Nat
      BY <1>4
  <2> QED
      BY <1>1, <2>1 DEF TypeOK, Job, Steps
<1>7. Counted(rows, Nodes) = total /\ Counted(rows, Nodes)' = total
    BY <1>2 DEF total
<1>8. job.scope = Nodes /\ job.maxNodes = None /\ (FitsBudget(total) \/ NothingToDelete)
    BY <1>1, <1>7 DEF JobOK, At
<1>0. rows' = rows /\ files' = files /\ job.at = "free"
    BY <1>1 DEF At
<1> DEFINE room == Free >= MinFree + job.reserve
<1>9. ASSUME room PROVE JobOK'
  <2>1. job' = [job EXCEPT !.at = "granted"]
      BY <1>1, <1>9
  <2>2. At("granted")' => Free' >= MinFree + job'.reserve
      BY <2>1, <1>2, <1>9 DEF TypeOK, Job
  <2> HIDE DEF room
  <2> QED
      BY <1>0, <2>1, <2>2, <1>5, <1>7 DEF TypeOK, Job, JobOK, At, Pruning, FitsBudget
<1>10. ASSUME ~room /\ total = 0 PROVE JobOK'
  <2>1. job' = [job EXCEPT !.at = "refused"]
      BY <1>1, <1>10
  <2> HIDE DEF room
  <2> QED
      BY <1>0, <2>1, <1>4, <1>5, <1>7, <1>10 DEF TypeOK, Job, JobOK, At, Pruning, FitsBudget
<1>11. ASSUME ~room /\ total # 0 PROVE JobOK'
  <2>1. total - 1 \in Nat /\ total = (total - 1) + 1
      BY <1>4, <1>11
  <2>2. FitsBudget(total) => FitsBudget(total - 1)
      BY <2>1, <1>3 DEF FitsBudget
  <2> DEFINE limit == total - 1
  <2>3. job' = [job EXCEPT !.at = "prune", !.goal = "disk", !.removed = FALSE,
                           !.maxBytes = limit]
      BY <1>1, <1>11
  <2>4. limit \in Nat /\ total = limit + 1 /\ (FitsBudget(limit) \/ NothingToDelete)
      BY <2>1, <2>2, <1>8
  <2> HIDE DEF room, limit
  <2> QED
      BY <2>3, <2>4, <1>0, <1>5, <1>7, <1>8
      DEF TypeOK, Job, JobOK, At, Pruning, FitsBudget
<1>12. JobOK'
    BY <1>9, <1>10, <1>11
<1> QED
    BY <1>1, <1>6, <1>12 DEF TreeOf, Present

-----------------------------------------------------------------------------
(* One step per action: those that ask for room and those that save. *)

LEMMA MakeRoomStep ==
    ASSUME IInv, NEW reserve \in Reserves, MakeRoom(reserve)
    PROVE  IInv'
<1> USE DEF IInv
<1>1. reserve \in Nat /\ Target(reserve) \in Nat
    BY SizesAssumption, TargetFits
<1>2. /\ rows' = rows /\ files' = files
      /\ job' = [NoJob EXCEPT !.at = "prune", !.goal = "budget", !.scope = Nodes,
                              !.reserve = reserve, !.maxBytes = Target(reserve)]
    BY DEF MakeRoom
<1>3. TypeOK'
    BY <1>1, <1>2 DEF TypeOK, Job, Steps, NoJob
<1>4. JobOK'
    BY <1>2 DEF JobOK, NoJob, At, Pruning
<1> QED
    BY <1>2, <1>3, <1>4 DEF TreeOf, Present

LEMMA CommandPruneStep ==
    ASSUME IInv, NEW d \in Directories,
           NEW b \in Limits \cup {None}, NEW k \in Limits \cup {None}, CommandPrune(d, b, k)
    PROVE  IInv'
<1> USE DEF IInv
<1>1. b \in Nat \cup {None} /\ k \in Nat \cup {None} /\ In(d) \in SUBSET Nodes
    BY SizesAssumption DEF In
<1>2. /\ rows' = rows /\ files' = files
      /\ job' = [NoJob EXCEPT !.at = "prune", !.scope = In(d),
                              !.maxBytes = b, !.maxNodes = k]
    BY DEF CommandPrune
<1>3. TypeOK'
    BY <1>1, <1>2 DEF TypeOK, Job, Steps, NoJob
<1>4. JobOK'
    BY <1>2 DEF JobOK, NoJob, At, Pruning
<1> QED
    BY <1>2, <1>3, <1>4 DEF TreeOf, Present

LEMMA NoJobType == NoJob \in Job
    BY DEF NoJob, Job, Steps

LEMMA AddStep ==
    ASSUME IInv, NEW n \in Nodes, NEW size \in Sizes, NEW pinned \in BOOLEAN, Add(n, size, pinned)
    PROVE  IInv'
<1>1. rows \in Tables /\ TreeOf(rows) /\ rows[n] = Absent /\ files \in [Nodes -> Sizes \cup {0}]
    BY DEF IInv, TypeOK, Tables, Add, CanSave
<1>2. /\ rows' = NewRow(rows, n, n, size, pinned)
      /\ files' = [files EXCEPT ![n] = size] /\ job' = NoJob
    BY DEF Add
<1>3. rows' \in Tables /\ TreeOf(rows')
    BY <1>1, <1>2, NewRowTree
<1>4. TypeOK'
    BY <1>1, <1>2, <1>3, NoJobType DEF TypeOK, Tables
<1> QED
    BY <1>2, <1>3, <1>4, NoJobStep

LEMMA AutosaveStep ==
    ASSUME IInv, NEW n \in Nodes, NEW g \in Nodes \cup {None}, NEW size \in Sizes,
           Autosave(n, g, size)
    PROVE  IInv'
<1> DEFINE t == NewRow(rows, n, n, size, FALSE)
           row == [parent |-> n, bin |-> n, size |-> size, pinned |-> FALSE]
           both == IF g = None THEN t ELSE [t EXCEPT ![g] = row]
           above == Ancestors(both, n)
<1>1. rows \in Tables /\ TreeOf(rows) /\ rows[n] = Absent
    BY DEF IInv, TypeOK, Tables, Autosave, CanSave
<1>2. t \in Tables /\ Present(t) = Present(rows) \cup {n} /\ TreeOf(t)
    BY <1>1, NewRowTree
<1>3. both \in Tables /\ TreeOf(both)
  <2>1. CASE g = None
      BY <2>1, <1>2
  <2>2. CASE g # None
    <3>1. g \in Nodes /\ <<n, g>> \in Below /\ rows[g] = Absent /\ g # n
        BY <2>2, BelowAssumption DEF Autosave
    <3>2. t[g] = Absent
        BY <3>1, <1>1, <1>2 DEF Present
    <3>3. row \in Row /\ (row.parent # None => row.parent \in Present(t) /\ <<row.parent, g>> \in Below)
        BY <3>1, <1>2 DEF Row
    <3>4. [t EXCEPT ![g] = row] \in Tables /\ TreeOf([t EXCEPT ![g] = row])
      <4> HIDE DEF t, row
      <4> QED
          BY <3>1, <3>2, <3>3, <1>2, InsertTree
    <3> QED
        BY <3>4, <2>2
  <2> QED
      BY <2>1, <2>2
<1>4. above \in SUBSET Present(both)
    BY DEF Ancestors
<1>5. rows' = Renamed(both, above, n)
    BY DEF Autosave, Renamed
<1>6. rows' \in Tables /\ TreeOf(rows')
  <2> HIDE DEF both, above
  <2> QED
      BY <1>3, <1>4, <1>5, RenamedTree
<1>7. files' = [Unlinked(rows', Named(rows, above)) EXCEPT ![n] = size] /\ job' = NoJob
    BY DEF Autosave
<1>8. Unlinked(rows', Named(rows, above)) \in [Nodes -> Sizes \cup {0}]
    BY UnlinkedType DEF IInv
<1>9. TypeOK'
    BY <1>6, <1>7, <1>8, NoJobType DEF TypeOK, Tables
<1> QED
    BY <1>6, <1>7, <1>9, NoJobStep

LEMMA EndStep ==
    ASSUME IInv, CommandEnds \/ GiveUp
    PROVE  IInv'
<1>1. rows' = rows /\ files' = files /\ job' = NoJob
    BY DEF CommandEnds, GiveUp
<1>2. TypeOK' /\ TreeOf(rows')
    BY <1>1, NoJobType DEF IInv, TypeOK
<1> QED
    BY <1>1, <1>2, NoJobStep

-----------------------------------------------------------------------------
(* The invariant. *)

LEMMA Initially ==
    ASSUME Init
    PROVE  IInv
    BY NoJobType DEF Init, IInv, TypeOK, TreeOf, Present, NoJob, JobOK, At, Pruning

LEMMA Inductive ==
    ASSUME IInv, [Next]_vars
    PROVE  IInv'
<1>1. CASE UNCHANGED vars
  <2>1. Free' = Free /\ Counted(rows, Nodes)' = Counted(rows, Nodes)
      BY <1>1 DEF vars, Free, Stored
  <2> QED
      BY <1>1, <2>1 DEF vars, IInv, TypeOK, TreeOf, Present, JobOK, At, FitsBudget, NothingToDelete
<1>2. CASE Prune
    BY <1>2, PickVictimStep, CascadeStep, UnlinkBinsStep, EndStep, CheckBudgetStep,
        CheckFreeStep, CheckRemovedStep DEF Prune
<1>3. CASE Use
  <2>1. ASSUME NEW reserve \in Reserves, MakeRoom(reserve) PROVE IInv'
      BY <2>1, MakeRoomStep
  <2>2. ASSUME NEW d \in Directories, NEW b \in Limits \cup {None}, NEW k \in Limits \cup {None},
               CommandPrune(d, b, k)
        PROVE  IInv'
      BY <2>2, CommandPruneStep
  <2>3. ASSUME NEW n \in Nodes, NEW g \in Nodes \cup {None}, NEW size \in Sizes,
               Autosave(n, g, size)
        PROVE  IInv'
      BY <2>3, AutosaveStep
  <2>4. ASSUME NEW n \in Nodes, NEW size \in Sizes, NEW pinned \in BOOLEAN, Add(n, size, pinned)
        PROVE  IInv'
      BY <2>4, AddStep
  <2>5. CASE GiveUp
      BY <2>5, EndStep
  <2> QED
      BY <1>3, <2>1, <2>2, <2>3, <2>4, <2>5 DEF Use
<1> QED
    BY <1>1, <1>2, <1>3 DEF Next

LEMMA Invariance == Spec => []IInv
    BY Initially, Inductive, PTL DEF Spec

\* Rows, files and the job of the pruner keep their types, whatever the prefix relation:
\* parent_for always finds a row when there is one, the cascade never walks to a node
\* without a row, and the limit of a budget is never negative.
THEOREM TypeCorrect == Spec => []TypeOK
    BY Invariance, PTL DEF IInv

\* A caller that was granted room has it: _ensure_storage_room returns True only with
\* min_free_bytes and the reserve free on the disk, and with what is counted within the
\* budget, unless the second loop has deleted everything it may.
THEOREM RoomIsGranted == Spec => []RoomIsReal
<1>1. IInv => RoomIsReal
    BY DEF IInv, RoomIsReal, JobOK, At, FitsBudget, NothingToDelete
<1> QED
    BY <1>1, Invariance, PTL

\* _ensure_storage_room refuses an autosave only when no unpinned leaf is left in any
\* directory: with a reserve above the budget the limit is 0, and only an empty table
\* counts 0.
THEOREM RefusedWhenEmpty == Spec => []RefusedOnlyWhenEmpty
<1>1. IInv => RefusedOnlyWhenEmpty
    BY DEF IInv, RefusedOnlyWhenEmpty, JobOK, At, NothingToDelete
<1> QED
    BY <1>1, Invariance, PTL

\* The cascade of prune_global deletes a row only while the directories it prunes are
\* together over the limit, although it compares one of them with it.
THEOREM DeletesOnlyOverTheLimit == Spec => NoNeedlessDeletion
<1>1. IInv => [Present(rows') # Present(rows) /\ At("cascade")
                 => Exceeds(rows, job.scope, job.maxBytes, job.maxNodes)]_vars
    BY DEF IInv, JobOK
<1> QED
    BY <1>1, Invariance, PTL DEF NoNeedlessDeletion

\* Every file on the disk is named by a row that counts at least its size.
AsRecorded ==
    \A f \in Nodes :
        files[f] > 0 => \E n \in Present(rows) : rows[n].bin = f /\ files[f] <= rows[n].size

\* Then what is stored is no more than what is counted.
LEMMA StoredIsCounted ==
    ASSUME TypeOK, AsRecorded
    PROVE  Stored \in Nat /\ Stored <= Counted(rows, Nodes)
<1> DEFINE stored == UNION {Bytes(f, files[f]) : f \in Nodes}
           counted == UNION {Bytes(rows[n].bin, rows[n].size) : n \in Present(rows) \cap Nodes}
<1>1. stored \subseteq counted
  <2> SUFFICES ASSUME NEW f \in Nodes, NEW x \in Bytes(f, files[f]) PROVE x \in counted
      OBVIOUS
  <2>1. files[f] \in Nat
    <3>1. files[f] \in Sizes \cup {0}
        BY DEF TypeOK
    <3>2. \A s \in Sizes : s \in Nat
        BY SizesAssumption
    <3> QED
        BY <3>1, <3>2
  <2>2. x[2] \in 1 .. files[f] /\ x = <<f, x[2]>>
      BY DEF Bytes
  <2>3. PICK n \in Present(rows) : rows[n].bin = f /\ files[f] <= rows[n].size
      BY <2>1, <2>2 DEF AsRecorded
  <2>4. n \in Nodes /\ rows[n].size \in Nat
      BY SizesAssumption DEF TypeOK, Present, Row
  <2>5. x[2] \in 1 .. rows[n].size
      BY <2>1, <2>2, <2>3, <2>4
  <2>6. x \in Bytes(rows[n].bin, rows[n].size)
      BY <2>2, <2>3, <2>5 DEF Bytes
  <2> QED
      BY <2>4, <2>6
<1>2. IsFiniteSet(counted)
  <2> DEFINE image == [n \in Present(rows) \cap Nodes |-> Bytes(rows[n].bin, rows[n].size)]
             parts == {Bytes(rows[n].bin, rows[n].size) : n \in Present(rows) \cap Nodes}
  <2>1. IsFiniteSet(Present(rows) \cap Nodes)
      BY NodesAssumption, FS_Subset DEF Present
  <2>2. image \in Surjection(Present(rows) \cap Nodes, parts)
      BY DEF Surjection
  <2>3. IsFiniteSet(parts)
      BY <2>1, <2>2, FS_Surjection
  <2>4. \A n \in Present(rows) : rows[n].size \in Nat
      BY SizesAssumption DEF TypeOK, Present, Row
  <2>5. \A P \in parts : IsFiniteSet(P)
      BY <2>4, BytesFinite
  <2> HIDE DEF parts
  <2>6. IsFiniteSet(UNION parts)
      BY <2>3, <2>5, FS_UNION
  <2> QED
      BY <2>6 DEF parts
<1>3. Stored = Cardinality(stored) /\ Counted(rows, Nodes) = Cardinality(counted)
    BY DEF Stored, Counted
<1> HIDE DEF stored, counted
<1> QED
    BY <1>1, <1>2, <1>3, FS_Subset, FS_CardinalityType

\* With such files, the disk is within the budget when room is granted.
DiskWithinBudget ==
    At("granted") /\ AsRecorded /\ Prunable(rows, Nodes) # {} => Stored + job.reserve <= MaxBytes

\* What is left of BudgetBoundsDisk: PREFIX_CACHE_MAX_BYTES bounds what the disk holds as
\* long as no file is without a row or larger than the rows that name it say, and
\* something could still be deleted.
THEOREM BudgetBoundsRecordedDisk == Spec => []DiskWithinBudget
<1>1. IInv => DiskWithinBudget
  <2> SUFFICES ASSUME IInv, At("granted"), AsRecorded, Prunable(rows, Nodes) # {}
               PROVE  Stored + job.reserve <= MaxBytes
      BY DEF DiskWithinBudget
  <2>1. Counted(rows, Nodes) \in Nat /\ Counted(rows, Nodes) + job.reserve <= MaxBytes
      BY DEF IInv, JobOK, At, FitsBudget, NothingToDelete
  <2>2. Stored \in Nat /\ Stored <= Counted(rows, Nodes)
      BY StoredIsCounted DEF IInv
  <2>3. job.reserve \in Nat /\ MaxBytes \in Nat
      BY LimitsAssumption DEF IInv, TypeOK, Job
  <2> QED
      BY <2>1, <2>2, <2>3
<1> QED
    BY <1>1, Invariance, PTL
=============================================================================
