------------------------------ MODULE Pidfile ------------------------------
(***************************************************************************)
(* The pid file (common.c).  Instances of a daemon start, each writes its  *)
(* pid into the one file and takes the file away when it exits.  Nothing   *)
(* keeps a second instance from starting while the first runs, and an      *)
(* instance may be killed at any point.                                    *)
(*                                                                         *)
(* A file is what open returned: taking its name away leaves those who     *)
(* have it open with a file nobody else can find.  A lock of lockf belongs *)
(* to a process: it is lost when the process ends or closes the file, and  *)
(* a child does not inherit it.                                            *)
(***************************************************************************)
EXTENDS Integers, FiniteSets

CONSTANTS
    Instance,       \* daemons started, one after the other or together
    Digits,         \* digits in the pid of each
    File,           \* files open can create
    NoFile,
    NoOne

ASSUME PidAssumption ==
    /\ NoFile \notin File /\ NoOne \notin Instance
    /\ Digits \in [Instance -> Nat \ {0}]

VARIABLES
    named,          \* the file that has the name pidfile, or NoFile
    line,           \* the pid in the first line of each file
    extent,         \* characters in each file
    locked,         \* who holds the lock on each file
    pc,             \* where each instance is
    fd,             \* the file it opened
    saved_pidfile,  \* instances that registered pidfile_delete
    forks,          \* instances that started through background
    wrote,          \* history: instances that wrote their pid
    killed,         \* history: instances that ended without exit
    met             \* history: instances that another one ran beside

disk  == <<named, line, extent, locked>>
hist  == <<wrote, killed, met>>
pvars == <<disk, pc, fd, saved_pidfile, forks, hist>>

Active(p) == pc[p] \notin {"new", "ended"}

PidfileInit ==
    /\ named = NoFile
    /\ line = [f \in File |-> NoOne]
    /\ extent = [f \in File |-> 0]
    /\ locked = [f \in File |-> NoOne]
    /\ pc = [p \in Instance |-> "new"]
    /\ fd = [p \in Instance |-> NoFile]
    /\ saved_pidfile = {} /\ forks = {}
    /\ wrote = {} /\ killed = {} /\ met = {}

-----------------------------------------------------------------------------
(* pidfile_acquire.                                                        *)

\* An instance starts while others may be there.
Begin(p, to) ==
    /\ pc[p] = "new"
    /\ pc' = [pc EXCEPT ![p] = to]
    /\ LET others == {q \in Instance : Active(q)}
       IN  met' = IF others = {} THEN met ELSE met \cup others \cup {p}
    /\ forks' \in {forks, forks \cup {p}}

\* open(pidfile, O_CREAT | O_WRONLY): the file that is there is not emptied.
OpenOld(p) ==
    /\ named # NoFile
    /\ Begin(p, "lock")
    /\ fd' = [fd EXCEPT ![p] = named]
    /\ UNCHANGED <<disk, saved_pidfile, wrote, killed>>

OpenNew(p, f) ==
    /\ named = NoFile
    /\ \A q \in Instance : fd[q] # f
    /\ Begin(p, "lock")
    /\ fd' = [fd EXCEPT ![p] = f]
    /\ named' = f
    /\ line' = [line EXCEPT ![f] = NoOne]
    /\ extent' = [extent EXCEPT ![f] = 0]
    /\ UNCHANGED <<locked, saved_pidfile, wrote, killed>>

\* The daemon goes on without a pid file.
OpenFails(p) ==
    /\ Begin(p, "run")
    /\ UNCHANGED <<disk, fd, saved_pidfile, wrote, killed>>

\* Slip: pidfile_delete registered by background only.
RegisteredForks(p) == IF p \in forks THEN saved_pidfile \cup {p} ELSE saved_pidfile

\* atexit(pidfile_delete)
Registered(p) == saved_pidfile \cup {p}

\* Slip: a lock that is asked for without waiting, the answer not looked at.
LockTried(p) ==
    /\ pc[p] = "lock"
    /\ locked' = [locked EXCEPT ![fd[p]] = IF @ = NoOne THEN p ELSE @]
    /\ saved_pidfile' = saved_pidfile \cup {p}
    /\ pc' = [pc EXCEPT ![p] = IF p \in forks THEN "fork" ELSE "write"]
    /\ UNCHANGED <<named, line, extent, fd, forks, hist>>

\* lockf(pid_fd, F_LOCK, 0) waits for the lock.
Lock(p) ==
    /\ pc[p] = "lock"
    /\ locked[fd[p]] = NoOne
    /\ locked' = [locked EXCEPT ![fd[p]] = p]
    /\ saved_pidfile' = Registered(p)
    /\ pc' = [pc EXCEPT ![p] = IF p \in forks THEN "fork" ELSE "write"]
    /\ UNCHANGED <<named, line, extent, fd, forks, hist>>

\* The process that held p's lock closes the file or ends.
Unlock(p) == locked' = [f \in File |-> IF locked[f] = p THEN NoOne ELSE locked[f]]

\* exit(): pidfile_delete runs if it was registered, and takes the name away
\* from whatever file has it.
Leave(p) ==
    /\ pc' = [pc EXCEPT ![p] = "ended"]
    /\ named' = IF p \in saved_pidfile THEN NoFile ELSE named
    /\ fd' = [fd EXCEPT ![p] = NoFile]
    /\ Unlock(p)

-----------------------------------------------------------------------------
(* background: daemon() ends the parent, and with it its lock; the child   *)
(* goes on with the file, the handlers and a pid of its own.  If daemon()  *)
(* fails the instance exits.                                               *)

Daemonize(p) ==
    /\ pc[p] = "fork"
    /\ pc' = [pc EXCEPT ![p] = "write"]
    /\ Unlock(p)
    /\ UNCHANGED <<named, line, extent, fd, saved_pidfile, forks, hist>>

DaemonFails(p) ==
    /\ pc[p] = "fork"
    /\ Leave(p)
    /\ UNCHANGED <<line, extent, saved_pidfile, forks, hist>>

-----------------------------------------------------------------------------
(* pidfile_write_release.                                                  *)

\* Slips: the pid appended to what is there.
LineAppended(p) == IF line[fd[p]] = NoOne THEN p ELSE line[fd[p]]
ExtentAppended(p) == extent[fd[p]] + Digits[p] + 1

\* The pid and a newline go over the first characters of the file.
Line(p) == p
Extent(p) ==
    IF extent[fd[p]] > Digits[p] + 1 THEN extent[fd[p]] ELSE Digits[p] + 1

\* fclose flushes the line.
Write(p) ==
    /\ pc[p] = "write"
    /\ line' = [line EXCEPT ![fd[p]] = Line(p)]
    /\ extent' = [extent EXCEPT ![fd[p]] = Extent(p)]
    /\ wrote' = wrote \cup {p}
    /\ pc' = [pc EXCEPT ![p] = "close"]
    /\ UNCHANGED <<named, locked, fd, saved_pidfile, forks, killed, met>>

\* fdopen returns NULL.
WriteFails(p) ==
    /\ pc[p] = "write"
    /\ pc' = [pc EXCEPT ![p] = "close"]
    /\ UNCHANGED <<disk, fd, saved_pidfile, forks, hist>>

\* Slip: the file left open, and locked, for the life of the daemon.
CloseKeeps(p) ==
    /\ pc[p] = "close"
    /\ pc' = [pc EXCEPT ![p] = "run"]
    /\ UNCHANGED <<disk, fd, saved_pidfile, forks, hist>>

\* fclose, or lockf and close; after fclose both of those fail on a descriptor
\* that is closed.
Close(p) ==
    /\ pc[p] = "close"
    /\ Unlock(p)
    /\ pc' = [pc EXCEPT ![p] = "run"]
    /\ fd' = [fd EXCEPT ![p] = NoFile]
    /\ UNCHANGED <<named, line, extent, saved_pidfile, forks, hist>>

-----------------------------------------------------------------------------
\* main exits on SIGTERM or gives up its start.
Exit(p) ==
    /\ pc[p] = "run"
    /\ Leave(p)
    /\ UNCHANGED <<line, extent, saved_pidfile, forks, hist>>

\* SIGKILL, or a fault of the daemon.
Die(p) ==
    /\ Active(p)
    /\ pc' = [pc EXCEPT ![p] = "ended"]
    /\ fd' = [fd EXCEPT ![p] = NoFile]
    /\ Unlock(p)
    /\ killed' = killed \cup {p}
    /\ UNCHANGED <<named, line, extent, saved_pidfile, forks, wrote, met>>

\* What an instance does to get started.
StartUp(p) == Lock(p) \/ Daemonize(p) \/ DaemonFails(p) \/ Write(p) \/ WriteFails(p) \/ Close(p)

PidfileNext ==
    \E p \in Instance :
        \/ OpenOld(p) \/ OpenFails(p)
        \/ \E f \in File : OpenNew(p, f)
        \/ StartUp(p)
        \/ Exit(p) \/ Die(p)

PidfileSpec == PidfileInit /\ [][PidfileNext]_pvars

\* An instance runs, and a lock that is free goes to one who waits for it.
FairPidfileSpec == PidfileSpec /\ \A p \in Instance : WF_pvars(StartUp(p))

-----------------------------------------------------------------------------
(* Properties.                                                             *)

PidfileTypeOK ==
    /\ named \in File \cup {NoFile}
    /\ line \in [File -> Instance \cup {NoOne}]
    /\ extent \in [File -> {0} \cup {Digits[p] + 1 : p \in Instance}]
    /\ locked \in [File -> Instance \cup {NoOne}]
    /\ pc \in [Instance -> {"new", "lock", "fork", "write", "close", "run", "ended"}]
    /\ fd \in [Instance -> File \cup {NoFile}]
    /\ saved_pidfile \subseteq Instance /\ forks \subseteq Instance
    /\ wrote \subseteq Instance /\ killed \subseteq Instance /\ met \subseteq Instance

\* The pid of a daemon that no other ran beside is in the pid file while it
\* runs, and alone in it unless an earlier one was killed.
LoneDaemonNamed ==
    \A p \in wrote \ met : pc[p] = "run" =>
        /\ named # NoFile /\ line[named] = p
        /\ killed = {} => extent[named] = Digits[p] + 1

\* However instances overlapped, the last one to exit leaves no pid file, if
\* none was killed.
NothingLeft ==
    killed = {} /\ (\A p \in Instance : ~Active(p)) => named = NoFile

\* Between pidfile_acquire and the end of pidfile_write_release, and behind
\* daemon(), which ends the process that has the lock.
InWrite(p) == pc[p] \in {"fork", "write", "close"}
Forked(p) == p \in forks /\ pc[p] # "fork"

\* Two instances write to one file at the same time only if one of them went
\* through background, whatever files lose their names and whoever is killed
\* with the lock.
WritersApart ==
    \A p, q \in Instance :
        p # q /\ InWrite(p) /\ InWrite(q) /\ fd[p] = fd[q] => Forked(p) \/ Forked(q)

\* Nobody waits for the lock for good, although locks are taken by instances
\* that may be killed and on files whose name is gone.
LockPasses == \A p \in Instance : pc[p] = "lock" ~> pc[p] # "lock"
=============================================================================
