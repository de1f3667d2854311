---------------------------- MODULE StackSupervisor ----------------------------
(***************************************************************************)
(* run-lmcache-proxy-stack.sh: a supervisor starts the llama.cpp backend   *)
(* and the proxy, waits for both, watches them, and takes both down with   *)
(* it.  Several supervisors, started one after the other or at once, share *)
(* two ports and three pid files.                                          *)
(*                                                                         *)
(* A step is a command, or a few that nobody else can tell apart: bash     *)
(* runs a trap between two commands, and a signal can come at each of      *)
(* these points.  A pid is never used again; the parent of --background,   *)
(* which writes the pid file too, is left out.                             *)
(***************************************************************************)
EXTENDS Naturals, FiniteSets

CONSTANTS
    Supervisors,  \* runs of the script with the same ports and pid files
    MaxSignals,   \* bound on the signals they are sent
    None

ASSUME NamesAssumption == None \notin Supervisors /\ MaxSignals \in Nat

Kinds == {"backend", "proxy"}
Children == Supervisors \X Kinds

VARIABLES
    pc,        \* where each supervisor is
    known,     \* children whose pid is in backend_pid or proxy_pid
    mine,      \* supervisors that found their own pid in a file, to remove it
    file,      \* whose pid the stack's, the backend's and the proxy's pid file hold
    proc,      \* the processes
    told,      \* processes that were sent a TERM
    signals,   \* number of signals sent so far
    caught     \* history: the child whose pid was next to be taken when a signal came

vars == <<pc, known, mine, file, proc, told, signals, caught>>

Main == {"trap", "stopFiles", "stopListeners", "ports",
         "spawnBackend", "recordBackend", "writeBackend", "health",
         "spawnProxy", "recordProxy", "writeProxy", "listen", "monitor"}

Cleanup == {"stopProxy", "stopBackend", "waitProxy", "waitBackend",
            "rmStack", "rmProxy", "rmBackend"}

\* "cut": ended without its cleanup, or in the middle of it.
Ended == {"ended", "cut"}

TypeOK ==
    /\ pc \in [Supervisors -> {"new"} \cup Main \cup Cleanup \cup Ended]
    /\ known \subseteq Children
    /\ mine \subseteq Supervisors
    /\ file \in [Kinds \cup {"stack"} -> Supervisors \cup {None}]
    /\ proc \in [Children -> {"none", "starting", "listening", "gone"}]
    /\ told \subseteq {c \in Children : proc[c] # "none"}
    /\ known \subseteq {c \in Children : proc[c] # "none"}
    /\ signals \in 0 .. MaxSignals
    /\ caught \in [Supervisors -> Kinds \cup {None}]

Init ==
    /\ pc = [s \in Supervisors |-> "new"]
    /\ known = {}
    /\ mine = {}
    /\ file = [k \in Kinds \cup {"stack"} |-> None]
    /\ proc = [c \in Children |-> "none"]
    /\ told = {}
    /\ signals = 0
    /\ caught = [s \in Supervisors |-> None]

At(s, place) == pc[s] = place
Goto(s, place) == pc' = [pc EXCEPT ![s] = place]

Alive(c) == proc[c] \in {"starting", "listening"}
Listening(kind) == {c \in Children : c[2] = kind /\ proc[c] = "listening"}

\* stop_pid: a TERM to those of the processes that run.
Stop(S) == told' = told \cup {c \in S : Alive(c)}

-----------------------------------------------------------------------------
(* Slips: what the code would do with one plausible mistake in it.  Each one  *)
(* replaces the definition it is named after, to see a property fail.        *)

\* The cleanup does not wait for the backend.
WaitBackendNot(s) ==
    /\ At(s, "waitBackend")
    /\ Goto(s, "rmStack")
    /\ UNCHANGED <<known, mine, file, proc, told, signals, caught>>

\* The monitor watches the proxy only.
WatchProxyOnly(s) ==
    /\ At(s, "monitor")
    /\ ~Alive(<<s, "proxy">>)
    /\ Goto(s, "stopProxy")
    /\ UNCHANGED <<known, mine, file, proc, told, signals, caught>>

\* The pid file of the proxy stays.
RemoveProxyFileNot(s) ==
    /\ At(s, "rmProxy")
    /\ Goto(s, "rmBackend")
    /\ UNCHANGED <<known, mine, file, proc, told, signals, caught>>

\* backend_pid=$! before the command.
SpawnBackendRecorded(s) ==
    /\ At(s, "spawnBackend")
    /\ known' = known \cup {<<s, "backend">>}
    /\ Goto(s, "recordBackend")
    /\ UNCHANGED <<mine, file, proc, told, signals, caught>>

-----------------------------------------------------------------------------
(* Start: write the pid file, set the trap, stop what is there. *)

Begin(s) ==
    /\ At(s, "new")
    /\ file' = [file EXCEPT !["stack"] = s]
    /\ Goto(s, "trap")
    /\ UNCHANGED <<known, mine, proc, told, signals, caught>>

\* STOP_EXISTING or not.
SetTrap(s) ==
    /\ At(s, "trap")
    /\ Goto(s, "stopFiles") \/ Goto(s, "ports")
    /\ UNCHANGED <<known, mine, file, proc, told, signals, caught>>

StopFiles(s) ==
    /\ At(s, "stopFiles")
    /\ Stop({<<file[k], k>> : k \in {kind \in Kinds : file[kind] # None}})
    /\ Goto(s, "stopListeners")
    /\ UNCHANGED <<known, mine, file, proc, signals, caught>>

\* Then wait for the ports, 30 seconds at most.
StopListeners(s) ==
    /\ At(s, "stopListeners")
    /\ Stop(Listening("backend") \cup Listening("proxy"))
    /\ Goto(s, "ports")
    /\ UNCHANGED <<known, mine, file, proc, signals, caught>>

CheckPorts(s) ==
    /\ At(s, "ports")
    /\ Goto(s, IF Listening("backend") \cup Listening("proxy") = {}
                 THEN "spawnBackend" ELSE "stopProxy")
    /\ UNCHANGED <<known, mine, file, proc, told, signals, caught>>

-----------------------------------------------------------------------------
(* Start a child: the process, then its pid, then its pid file. *)

Spawn(s, kind, here, next) ==
    /\ At(s, here)
    /\ proc' = [proc EXCEPT ![<<s, kind>>] = "starting"]
    /\ Goto(s, next)
    /\ UNCHANGED <<known, mine, file, told, signals, caught>>

Record(s, kind, here, next) ==
    /\ At(s, here)
    /\ known' = known \cup {<<s, kind>>}
    /\ Goto(s, next)
    /\ UNCHANGED <<mine, file, proc, told, signals, caught>>

WritePid(s, kind, here, next) ==
    /\ At(s, here)
    /\ file' = [file EXCEPT ![kind] = s]
    /\ Goto(s, next)
    /\ UNCHANGED <<known, mine, proc, told, signals, caught>>

SpawnBackend(s) == Spawn(s, "backend", "spawnBackend", "recordBackend")
RecordBackend(s) == Record(s, "backend", "recordBackend", "writeBackend")
WriteBackend(s) == WritePid(s, "backend", "writeBackend", "health")

\* Something answers on the port; or the child is gone; or time is up.
Await(s, kind, here, next) ==
    /\ At(s, here)
    /\ \/ Listening(kind) # {} /\ Goto(s, next)
       \/ Listening(kind) = {} /\ Goto(s, "stopProxy")
    /\ UNCHANGED <<known, mine, file, proc, told, signals, caught>>

AwaitHealth(s) == Await(s, "backend", "health", "spawnProxy")

SpawnProxy(s) == Spawn(s, "proxy", "spawnProxy", "recordProxy")
RecordProxy(s) == Record(s, "proxy", "recordProxy", "writeProxy")
WriteProxy(s) == WritePid(s, "proxy", "writeProxy", "listen")
AwaitListener(s) == Await(s, "proxy", "listen", "monitor")

\* The monitor loop.
Watch(s) ==
    /\ At(s, "monitor")
    /\ \/ /\ ~Alive(<<s, "proxy">>)
          /\ Goto(s, "stopProxy")
          /\ UNCHANGED told
       \/ /\ Alive(<<s, "proxy">>) /\ ~Alive(<<s, "backend">>)
          /\ Stop({<<s, "proxy">>})
          /\ Goto(s, "stopProxy")
    /\ UNCHANGED <<known, mine, file, proc, signals, caught>>

-----------------------------------------------------------------------------
(* cleanup, with the traps reset: stop both, wait for both, remove the files. *)

StopChild(s, kind, here, next) ==
    /\ At(s, here)
    /\ Stop(known \cap {<<s, kind>>})
    /\ Goto(s, next)
    /\ UNCHANGED <<known, mine, file, proc, signals, caught>>

WaitChild(s, kind, here, next) ==
    /\ At(s, here)
    /\ <<s, kind>> \in known => ~Alive(<<s, kind>>)
    /\ Goto(s, next)
    /\ UNCHANGED <<known, mine, file, proc, told, signals, caught>>

\* The file is read, and then removed.
Remove(s, kind, here, next) ==
    /\ At(s, here)
    /\ IF s \in mine
         THEN /\ file' = [file EXCEPT ![kind] = None]
              /\ mine' = mine \ {s}
              /\ Goto(s, next)
         ELSE /\ UNCHANGED file
              /\ IF file[kind] = s /\ (kind \in Kinds => <<s, kind>> \in known)
                   THEN mine' = mine \cup {s} /\ UNCHANGED pc
                   ELSE UNCHANGED mine /\ Goto(s, next)
    /\ UNCHANGED <<known, proc, told, signals, caught>>

StopProxy(s) == StopChild(s, "proxy", "stopProxy", "stopBackend")
StopBackend(s) == StopChild(s, "backend", "stopBackend", "waitProxy")
WaitProxy(s) == WaitChild(s, "proxy", "waitProxy", "waitBackend")
WaitBackend(s) == WaitChild(s, "backend", "waitBackend", "rmStack")
RemoveStackFile(s) == Remove(s, "stack", "rmStack", "rmProxy")
RemoveProxyFile(s) == Remove(s, "proxy", "rmProxy", "rmBackend")
RemoveBackendFile(s) == Remove(s, "backend", "rmBackend", "ended")

-----------------------------------------------------------------------------
(* Signals, and the life of processes. *)

\* With the trap in place a signal starts the cleanup; before that, and once the
\* cleanup has reset the traps, it ends the supervisor.
Signal(s) ==
    /\ signals < MaxSignals
    /\ signals' = signals + 1
    /\ \/ /\ pc[s] \in Main \ {"trap"}
          /\ Goto(s, "stopProxy")
          /\ caught' = [caught EXCEPT ![s] = IF pc[s] = "recordBackend" THEN "backend"
                                            ELSE IF pc[s] = "recordProxy" THEN "proxy" ELSE None]
       \/ /\ pc[s] \in Cleanup \cup {"trap"}
          /\ Goto(s, "cut")
          /\ UNCHANGED caught
    /\ UNCHANGED <<known, mine, file, proc, told>>

\* SIGKILL, or the machine's memory ran out.
Kill(s) ==
    /\ pc[s] \in Main \cup Cleanup
    /\ signals < MaxSignals
    /\ signals' = signals + 1
    /\ Goto(s, "cut")
    /\ UNCHANGED <<known, mine, file, proc, told, caught>>

\* A child binds its port, or ends because it cannot.
Listen(c) ==
    /\ proc[c] = "starting"
    /\ proc' = [proc EXCEPT ![c] = IF Listening(c[2]) = {} THEN "listening" ELSE "gone"]
    /\ UNCHANGED <<pc, known, mine, file, told, signals, caught>>

Exit(c) ==
    /\ Alive(c)
    /\ proc' = [proc EXCEPT ![c] = "gone"]
    /\ UNCHANGED <<pc, known, mine, file, told, signals, caught>>

-----------------------------------------------------------------------------
Step(s) ==
    \/ SetTrap(s) \/ StopFiles(s) \/ StopListeners(s) \/ CheckPorts(s)
    \/ SpawnBackend(s) \/ RecordBackend(s) \/ WriteBackend(s) \/ AwaitHealth(s)
    \/ SpawnProxy(s) \/ RecordProxy(s) \/ WriteProxy(s) \/ AwaitListener(s) \/ Watch(s)
    \/ StopProxy(s) \/ StopBackend(s) \/ WaitProxy(s) \/ WaitBackend(s)
    \/ RemoveStackFile(s) \/ RemoveProxyFile(s) \/ RemoveBackendFile(s)

Next ==
    \/ \E s \in Supervisors : Begin(s) \/ Step(s) \/ Signal(s) \/ Kill(s)
    \/ \E c \in Children : Listen(c) \/ Exit(c)

Spec == Init /\ [][Next]_vars

\* The script goes on, and a process that is sent a TERM ends.
FairSpec ==
    /\ Spec
    /\ \A s \in Supervisors : WF_vars(Step(s))
    /\ \A c \in Children : WF_vars(c \in told /\ Exit(c))

-----------------------------------------------------------------------------
(* Properties *)

\* A supervisor that finished its cleanup leaves no child running, with one exception:
\* the child it had started and not yet taken the pid of when the signal came.
OnlyTheUnrecordedStays ==
    \A s \in Supervisors, kind \in Kinds :
        At(s, "ended") /\ Alive(<<s, kind>>) => caught[s] = kind

\* And no pid file that names it or a child of it: the next start would send a TERM to
\* whatever process has that pid then.
NoStalePidFile ==
    \A s \in Supervisors, kind \in DOMAIN file : At(s, "ended") => file[kind] # s

\* "If the proxy exits, the supervisor stops llama.cpp. If llama.cpp exits, the
\* supervisor stops the proxy": both go, and the supervisor, unless it is itself killed.
StackGoesTogether ==
    \A s \in Supervisors :
        At(s, "monitor") /\ (\E kind \in Kinds : ~Alive(<<s, kind>>)) ~>
            \/ At(s, "ended") /\ \A kind \in Kinds : ~Alive(<<s, kind>>)
            \/ At(s, "cut")

=============================================================================
