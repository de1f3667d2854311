------------------------- MODULE StackSupervisorProofs -------------------------
(***************************************************************************)
(* What a finished cleanup leaves behind, for any number of supervisors    *)
(* and signals.                                                            *)
(*                                                                         *)
(* Each property speaks of the end only.  RecordInv says where the pid of  *)
(* a process is at every point of the script: in backend_pid or proxy_pid, *)
(* about to be put there, or lost to a signal.  GoneInv and FileInv say    *)
(* what each command of the cleanup has achieved.                          *)
(***************************************************************************)
EXTENDS StackSupervisor, TLAPS

Recording(kind) == IF kind = "backend" THEN "recordBackend" ELSE "recordProxy"
Writing(kind) == IF kind = "backend" THEN "writeBackend" ELSE "writeProxy"

\* What comes after the wait for a child, and after its pid file was removed.
Waited(kind) ==
    (IF kind = "proxy" THEN {"waitBackend"} ELSE {}) \cup {"rmStack", "rmProxy", "rmBackend", "ended"}

Removed(kind) ==
    IF kind = "stack" THEN {"rmProxy", "rmBackend", "ended"}
    ELSE IF kind = "proxy" THEN {"rmBackend", "ended"} ELSE {"ended"}

\* A pid that is taken or written is that of a process that was started.
PendingInv ==
    \A s \in Supervisors, kind \in Kinds :
        /\ pc[s] = Recording(kind) => proc[<<s, kind>>] # "none"
        /\ pc[s] = Writing(kind) => <<s, kind>> \in known

\* A process whose pid is not known is one whose pid is taken next, or was to be.
RecordInv ==
    \A s \in Supervisors, kind \in Kinds :
        proc[<<s, kind>>] # "none" =>
            \/ <<s, kind>> \in known
            \/ pc[s] = Recording(kind)
            \/ pc[s] = "cut"
            \/ caught[s] = kind /\ pc[s] \in Cleanup \cup {"ended"}

GoneInv ==
    \A s \in Supervisors, kind \in Kinds :
        pc[s] \in Waited(kind) /\ <<s, kind>> \in known => ~Alive(<<s, kind>>)

\* A child's pid file names children with known pids only; a supervisor that has
\* removed its files is named by none.
FileInv ==
    \A s \in Supervisors :
        /\ \A kind \in Kinds : file[kind] = s => <<s, kind>> \in known
        /\ \A kind \in Kinds \cup {"stack"} : pc[s] \in Removed(kind) => file[kind] # s

TypedInv == TypeOK /\ PendingInv
StackInv == RecordInv /\ GoneInv /\ FileInv

-----------------------------------------------------------------------------
(* Types *)

LEMMA TypedInit == Init => TypedInv
BY NamesAssumption DEF Init, TypedInv, TypeOK, PendingInv, Recording, Writing, Main, Cleanup, Ended, Kinds, Children

LEMMA TypedStep ==
    ASSUME TypedInv, NEW s \in Supervisors, Begin(s) \/ Step(s)
    PROVE  TypedInv'
<1> USE DEF TypedInv, TypeOK, PendingInv, Recording, Writing, Main, Cleanup, Ended, Kinds,
            Children, At, Goto
<1>1. CASE Begin(s) BY <1>1 DEF Begin
<1>2. CASE SetTrap(s) BY <1>2 DEF SetTrap
<1>3. CASE StopFiles(s) BY <1>3 DEF StopFiles, Stop, Alive
<1>4. CASE StopListeners(s) BY <1>4 DEF StopListeners, Stop, Alive, Listening
<1>5. CASE CheckPorts(s) BY <1>5 DEF CheckPorts
<1>6. CASE SpawnBackend(s) BY <1>6 DEF SpawnBackend, Spawn
<1>7. CASE RecordBackend(s)
  <2>1. <<s, "backend">> \in Children /\ proc[<<s, "backend">>] # "none"
    BY <1>7 DEF RecordBackend, Record
  <2>2. TypeOK'
    BY <1>7, <2>1 DEF RecordBackend, Record
  <2>3. PendingInv'
    BY <1>7 DEF RecordBackend, Record
  <2>4. QED BY <2>2, <2>3
<1>8. CASE WriteBackend(s) BY <1>8 DEF WriteBackend, WritePid
<1>9. CASE AwaitHealth(s) BY <1>9 DEF AwaitHealth, Await
<1>10. CASE SpawnProxy(s) BY <1>10 DEF SpawnProxy, Spawn
<1>11. CASE RecordProxy(s)
  <2>1. <<s, "proxy">> \in Children /\ proc[<<s, "proxy">>] # "none"
    BY <1>11 DEF RecordProxy, Record
  <2>2. TypeOK'
    BY <1>11, <2>1 DEF RecordProxy, Record
  <2>3. PendingInv'
    BY <1>11 DEF RecordProxy, Record
  <2>4. QED BY <2>2, <2>3
<1>12. CASE WriteProxy(s) BY <1>12 DEF WriteProxy, WritePid
<1>13. CASE AwaitListener(s) BY <1>13 DEF AwaitListener, Await
<1>14. CASE Watch(s) BY <1>14 DEF Watch, Stop, Alive
<1>15. CASE StopProxy(s) BY <1>15 DEF StopProxy, StopChild, Stop, Alive
<1>16. CASE StopBackend(s) BY <1>16 DEF StopBackend, StopChild, Stop, Alive
<1>17. CASE WaitProxy(s) BY <1>17 DEF WaitProxy, WaitChild
<1>18. CASE WaitBackend(s) BY <1>18 DEF WaitBackend, WaitChild
<1>19. CASE RemoveStackFile(s)
  <2>1. TypeOK' BY <1>19 DEF RemoveStackFile, Remove
  <2>2. PendingInv' BY <1>19 DEF RemoveStackFile, Remove
  <2>3. QED BY <2>1, <2>2
<1>20. CASE RemoveProxyFile(s) BY <1>20 DEF RemoveProxyFile, Remove
<1>21. CASE RemoveBackendFile(s) BY <1>21 DEF RemoveBackendFile, Remove
<1>22. QED
  BY <1>1, <1>2, <1>3, <1>4, <1>5, <1>6, <1>7, <1>8, <1>9, <1>10, <1>11, <1>12, <1>13, <1>14,
     <1>15, <1>16, <1>17, <1>18, <1>19, <1>20, <1>21 DEF Step

LEMMA TypedOthers ==
    ASSUME TypedInv,
           \/ \E s \in Supervisors : Signal(s) \/ Kill(s)
           \/ \E c \in Children : Listen(c) \/ Exit(c)
    PROVE  TypedInv'
<1> USE NamesAssumption DEF TypedInv, TypeOK, PendingInv, Recording, Writing, Main, Cleanup, Ended,
                            Kinds, Children, Goto
<1>1. CASE \E s \in Supervisors : Signal(s) BY <1>1 DEF Signal
<1>2. CASE \E s \in Supervisors : Kill(s) BY <1>2 DEF Kill
<1>3. CASE \E c \in Children : Listen(c) BY <1>3 DEF Listen
<1>4. CASE \E c \in Children : Exit(c) BY <1>4 DEF Exit, Alive
<1>5. QED BY <1>1, <1>2, <1>3, <1>4

LEMMA TypedNext == TypedInv /\ [Next]_vars => TypedInv'
<1>1. CASE Next BY <1>1, TypedStep, TypedOthers DEF Next
<1>2. CASE UNCHANGED vars
  BY <1>2 DEF vars, TypedInv, TypeOK, PendingInv, Recording, Writing
<1>3. QED BY <1>1, <1>2

\* Every variable has its type; a recorded pid is that of a process that was started,
\* and so is every TERM's.
THEOREM TypeCorrect == Spec => []TypeOK
<1>1. TypedInv => TypeOK BY DEF TypedInv
<1>2. QED BY <1>1, TypedInit, TypedNext, PTL DEF Spec

-----------------------------------------------------------------------------
(* The three parts of the invariant, step by step. *)

LEMMA StackInit == Init => StackInv
BY NamesAssumption DEF Init, StackInv, RecordInv, GoneInv, FileInv, Waited, Removed, Kinds, Children

LEMMA RecordStep ==
    ASSUME TypedInv, RecordInv, NEW s \in Supervisors, Begin(s) \/ Step(s)
    PROVE  RecordInv'
<1> USE DEF TypedInv, TypeOK, RecordInv, Recording, Main, Cleanup, Ended, Kinds, Children, At, Goto
<1>1. CASE Begin(s) BY <1>1 DEF Begin
<1>2. CASE SetTrap(s) BY <1>2 DEF SetTrap
<1>3. CASE StopFiles(s) BY <1>3 DEF StopFiles
<1>4. CASE StopListeners(s) BY <1>4 DEF StopListeners
<1>5. CASE CheckPorts(s) BY <1>5 DEF CheckPorts
<1>6. CASE SpawnBackend(s) BY <1>6 DEF SpawnBackend, Spawn
<1>7. CASE RecordBackend(s) BY <1>7 DEF RecordBackend, Record
<1>8. CASE WriteBackend(s) BY <1>8 DEF WriteBackend, WritePid
<1>9. CASE AwaitHealth(s) BY <1>9 DEF AwaitHealth, Await
<1>10. CASE SpawnProxy(s) BY <1>10 DEF SpawnProxy, Spawn
<1>11. CASE RecordProxy(s) BY <1>11 DEF RecordProxy, Record
<1>12. CASE WriteProxy(s) BY <1>12 DEF WriteProxy, WritePid
<1>13. CASE AwaitListener(s) BY <1>13 DEF AwaitListener, Await
<1>14. CASE Watch(s) BY <1>14 DEF Watch
<1>15. CASE StopProxy(s) BY <1>15 DEF StopProxy, StopChild
<1>16. CASE StopBackend(s) BY <1>16 DEF StopBackend, StopChild
<1>17. CASE WaitProxy(s) BY <1>17 DEF WaitProxy, WaitChild
<1>18. CASE WaitBackend(s) BY <1>18 DEF WaitBackend, WaitChild
<1>19. CASE RemoveStackFile(s) BY <1>19 DEF RemoveStackFile, Remove
<1>20. CASE RemoveProxyFile(s) BY <1>20 DEF RemoveProxyFile, Remove
<1>21. CASE RemoveBackendFile(s) BY <1>21 DEF RemoveBackendFile, Remove
<1>22. QED
  BY <1>1, <1>2, <1>3, <1>4, <1>5, <1>6, <1>7, <1>8, <1>9, <1>10, <1>11,
     <1>12, <1>13, <1>14, <1>15, <1>16, <1>17, <1>18, <1>19, <1>20, <1>21 DEF Step

LEMMA GoneStep ==
    ASSUME TypedInv, GoneInv, NEW s \in Supervisors, Begin(s) \/ Step(s)
    PROVE  GoneInv'
<1> USE DEF TypedInv, TypeOK, PendingInv, GoneInv, Waited, Alive, Recording, Main, Cleanup, Ended, Kinds,
            Children, At, Goto
<1>1. CASE Begin(s) BY <1>1 DEF Begin
<1>2. CASE SetTrap(s) BY <1>2 DEF SetTrap
<1>3. CASE StopFiles(s) BY <1>3 DEF StopFiles
<1>4. CASE StopListeners(s) BY <1>4 DEF StopListeners
<1>5. CASE CheckPorts(s) BY <1>5 DEF CheckPorts
<1>6. CASE SpawnBackend(s) BY <1>6 DEF SpawnBackend, Spawn
<1>7. CASE RecordBackend(s) BY <1>7 DEF RecordBackend, Record
<1>8. CASE WriteBackend(s) BY <1>8 DEF WriteBackend, WritePid
<1>9. CASE AwaitHealth(s) BY <1>9 DEF AwaitHealth, Await
<1>10. CASE SpawnProxy(s) BY <1>10 DEF SpawnProxy, Spawn
<1>11. CASE RecordProxy(s) BY <1>11 DEF RecordProxy, Record
<1>12. CASE WriteProxy(s) BY <1>12 DEF WriteProxy, WritePid
<1>13. CASE AwaitListener(s) BY <1>13 DEF AwaitListener, Await
<1>14. CASE Watch(s) BY <1>14 DEF Watch
<1>15. CASE StopProxy(s) BY <1>15 DEF StopProxy, StopChild
<1>16. CASE StopBackend(s) BY <1>16 DEF StopBackend, StopChild
<1>17. CASE WaitProxy(s) BY <1>17 DEF WaitProxy, WaitChild
<1>18. CASE WaitBackend(s) BY <1>18 DEF WaitBackend, WaitChild
<1>19. CASE RemoveStackFile(s) BY <1>19 DEF RemoveStackFile, Remove
<1>20. CASE RemoveProxyFile(s) BY <1>20 DEF RemoveProxyFile, Remove
<1>21. CASE RemoveBackendFile(s) BY <1>21 DEF RemoveBackendFile, Remove
<1>22. QED
  BY <1>1, <1>2, <1>3, <1>4, <1>5, <1>6, <1>7, <1>8, <1>9, <1>10, <1>11,
     <1>12, <1>13, <1>14, <1>15, <1>16, <1>17, <1>18, <1>19, <1>20, <1>21 DEF Step

LEMMA FileStep ==
    ASSUME TypedInv, FileInv, NEW s \in Supervisors, Begin(s) \/ Step(s)
    PROVE  FileInv'
<1> USE NamesAssumption DEF TypedInv, TypeOK, PendingInv, FileInv, Removed, Writing, Main, Cleanup, Ended, Kinds,
            Children, At, Goto
<1>1. CASE Begin(s) BY <1>1 DEF Begin
<1>2. CASE SetTrap(s) BY <1>2 DEF SetTrap
<1>3. CASE StopFiles(s) BY <1>3 DEF StopFiles
<1>4. CASE StopListeners(s) BY <1>4 DEF StopListeners
<1>5. CASE CheckPorts(s) BY <1>5 DEF CheckPorts
<1>6. CASE SpawnBackend(s) BY <1>6 DEF SpawnBackend, Spawn
<1>7. CASE RecordBackend(s) BY <1>7 DEF RecordBackend, Record
<1>8. CASE WriteBackend(s) BY <1>8 DEF WriteBackend, WritePid
<1>9. CASE AwaitHealth(s) BY <1>9 DEF AwaitHealth, Await
<1>10. CASE SpawnProxy(s) BY <1>10 DEF SpawnProxy, Spawn
<1>11. CASE RecordProxy(s) BY <1>11 DEF RecordProxy, Record
<1>12. CASE WriteProxy(s) BY <1>12 DEF WriteProxy, WritePid
<1>13. CASE AwaitListener(s) BY <1>13 DEF AwaitListener, Await
<1>14. CASE Watch(s) BY <1>14 DEF Watch
<1>15. CASE StopProxy(s) BY <1>15 DEF StopProxy, StopChild
<1>16. CASE StopBackend(s) BY <1>16 DEF StopBackend, StopChild
<1>17. CASE WaitProxy(s) BY <1>17 DEF WaitProxy, WaitChild
<1>18. CASE WaitBackend(s) BY <1>18 DEF WaitBackend, WaitChild
<1>19. CASE RemoveStackFile(s)
  <2>1. CASE s \in mine
    <3>1. file' = [file EXCEPT !["stack"] = None] /\ UNCHANGED known
      BY <1>19, <2>1 DEF RemoveStackFile, Remove
    <3>2. \A t \in Supervisors : \A kind \in Kinds \cup {"stack"} :
            pc'[t] \in Removed(kind) => pc[t] \in Removed(kind) \/ kind = "stack"
      BY <1>19, <2>1 DEF RemoveStackFile, Remove
    <3>3. QED BY <3>1, <3>2
  <2>2. CASE s \notin mine
    <3>1. UNCHANGED <<file, known>>
      BY <1>19, <2>2 DEF RemoveStackFile, Remove
    <3>2. \A t \in Supervisors : \A kind \in Kinds \cup {"stack"} :
            pc'[t] \in Removed(kind) => pc[t] \in Removed(kind) \/ (t = s /\ kind = "stack")
      BY <1>19, <2>2 DEF RemoveStackFile, Remove
    <3>3. pc'[s] \in Removed("stack") => file["stack"] # s
      BY <1>19, <2>2 DEF RemoveStackFile, Remove
    <3>4. QED BY <3>1, <3>2, <3>3
  <2>3. QED BY <2>1, <2>2
<1>20. CASE RemoveProxyFile(s)
  <2>1. CASE s \in mine
    <3>1. file' = [file EXCEPT !["proxy"] = None] /\ UNCHANGED known
      BY <1>20, <2>1 DEF RemoveProxyFile, Remove
    <3>2. \A t \in Supervisors : \A kind \in Kinds \cup {"stack"} :
            pc'[t] \in Removed(kind) => pc[t] \in Removed(kind) \/ kind = "proxy"
      BY <1>20, <2>1 DEF RemoveProxyFile, Remove
    <3>3. QED BY <3>1, <3>2
  <2>2. CASE s \notin mine
    <3>1. UNCHANGED <<file, known>>
      BY <1>20, <2>2 DEF RemoveProxyFile, Remove
    <3>2. \A t \in Supervisors : \A kind \in Kinds \cup {"stack"} :
            pc'[t] \in Removed(kind) => pc[t] \in Removed(kind) \/ (t = s /\ kind = "proxy")
      BY <1>20, <2>2 DEF RemoveProxyFile, Remove
    <3>3. pc'[s] \in Removed("proxy") => file["proxy"] # s
      BY <1>20, <2>2 DEF RemoveProxyFile, Remove
    <3>4. QED BY <3>1, <3>2, <3>3
  <2>3. QED BY <2>1, <2>2
<1>21. CASE RemoveBackendFile(s)
  <2>1. CASE s \in mine
    <3>1. file' = [file EXCEPT !["backend"] = None] /\ UNCHANGED known
      BY <1>21, <2>1 DEF RemoveBackendFile, Remove
    <3>2. \A t \in Supervisors : \A kind \in Kinds \cup {"stack"} :
            pc'[t] \in Removed(kind) => pc[t] \in Removed(kind) \/ kind = "backend"
      BY <1>21, <2>1 DEF RemoveBackendFile, Remove
    <3>3. QED BY <3>1, <3>2
  <2>2. CASE s \notin mine
    <3>1. UNCHANGED <<file, known>>
      BY <1>21, <2>2 DEF RemoveBackendFile, Remove
    <3>2. \A t \in Supervisors : \A kind \in Kinds \cup {"stack"} :
            pc'[t] \in Removed(kind) => pc[t] \in Removed(kind) \/ (t = s /\ kind = "backend")
      BY <1>21, <2>2 DEF RemoveBackendFile, Remove
    <3>3. pc'[s] \in Removed("backend") => file["backend"] # s
      BY <1>21, <2>2 DEF RemoveBackendFile, Remove
    <3>4. QED BY <3>1, <3>2, <3>3
  <2>3. QED BY <2>1, <2>2
<1>22. QED
  BY <1>1, <1>2, <1>3, <1>4, <1>5, <1>6, <1>7, <1>8, <1>9, <1>10, <1>11,
     <1>12, <1>13, <1>14, <1>15, <1>16, <1>17, <1>18, <1>19, <1>20, <1>21 DEF Step

\* Signals.
LEMMA StackSignal ==
    ASSUME TypedInv, StackInv, NEW s \in Supervisors, Signal(s) \/ Kill(s)
    PROVE  StackInv'
<1> USE DEF TypedInv, TypeOK, StackInv, Main, Cleanup, Ended, Kinds, Children, Goto
<1>1. pc'[s] \in {"stopProxy", "cut"} /\ \A t \in Supervisors \ {s} : pc'[t] = pc[t]
  BY DEF Signal, Kill
<1>2. UNCHANGED <<known, file, proc>> BY DEF Signal, Kill
<1>3. RecordInv'
  <2>1. CASE Kill(s) \/ pc'[s] = "cut"
    <3>1. UNCHANGED caught BY <2>1 DEF Signal, Kill
    <3>2. pc'[s] = "cut" BY <2>1 DEF Kill
    <3>3. QED BY <1>1, <1>2, <3>1, <3>2 DEF RecordInv
  <2>2. CASE Signal(s) /\ pc'[s] = "stopProxy"
    <3>1. pc[s] \in Main BY <2>2 DEF Signal
    <3>2. \A kind \in Kinds : pc[s] = Recording(kind) => caught'[s] = kind
      BY <2>2 DEF Signal, Recording
    <3>3. \A t \in Supervisors \ {s} : caught'[t] = caught[t]
      BY <2>2 DEF Signal
    <3>4. QED BY <1>1, <1>2, <2>2, <3>1, <3>2, <3>3 DEF RecordInv
  <2>3. QED BY <1>1, <2>1, <2>2
<1>4. GoneInv' BY <1>1, <1>2 DEF GoneInv, Waited, Alive
<1>5. FileInv' BY <1>1, <1>2 DEF FileInv, Removed
<1>6. QED BY <1>3, <1>4, <1>5

\* Children.
LEMMA StackChild ==
    ASSUME TypedInv, StackInv, NEW c \in Children, Listen(c) \/ Exit(c)
    PROVE  StackInv'
BY DEF TypedInv, TypeOK, StackInv, RecordInv, GoneInv, FileInv, Recording, Waited, Removed,
       Alive, Listen, Exit, Children

LEMMA StackNext == TypedInv /\ StackInv /\ [Next]_vars => StackInv'
<1>1. CASE Next
  BY <1>1, RecordStep, GoneStep, FileStep, StackSignal, StackChild DEF Next, StackInv
<1>2. CASE UNCHANGED vars
  BY <1>2 DEF vars, StackInv, RecordInv, GoneInv, FileInv, Alive
<1>3. QED BY <1>1, <1>2

\* Types and StackInv hold always: what the children's records, the cleanup's waits and
\* the pid files are at each place of the script.
THEOREM StackCorrect == Spec => [](TypedInv /\ StackInv)
BY TypedInit, TypedNext, StackInit, StackNext, PTL DEF Spec

\* A finished cleanup leaves no child but the one that was started when the signal came
\* and whose pid had not been taken: both stop_pid and wait go by the recorded pid.
THEOREM OnlyUnrecordedChildrenStay == Spec => []OnlyTheUnrecordedStays
<1>1. TypedInv /\ StackInv => OnlyTheUnrecordedStays
  BY DEF TypedInv, TypeOK, StackInv, RecordInv, GoneInv, OnlyTheUnrecordedStays, Recording, Waited,
         Alive, At, Kinds, Children
<1>2. QED BY <1>1, StackCorrect, PTL

\* A finished cleanup leaves no pid file that names the supervisor or a child of it.
THEOREM NoPidFileIsStale == Spec => []NoStalePidFile
<1>1. TypedInv /\ StackInv => NoStalePidFile
  BY DEF TypedInv, TypeOK, StackInv, FileInv, NoStalePidFile, Removed, At, Kinds
<1>2. QED BY <1>1, StackCorrect, PTL
=============================================================================
