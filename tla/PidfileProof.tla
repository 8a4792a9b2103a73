---------------------------- MODULE PidfileProof ----------------------------
(***************************************************************************)
(* Proofs about the pid file, for any number of instances, pids and files: *)
(* a daemon that ran alone is named by the file, the last to exit leaves   *)
(* none if nobody was killed, and only daemon() lets two write one file.   *)
(***************************************************************************)
EXTENDS Pidfile, TLAPS

USE PidAssumption

HasFile == {"lock", "fork", "write", "close"}

-----------------------------------------------------------------------------
(* The inductive invariant.                                                *)

\* An instance has the file open from open to close.
FileKept == \A p \in Instance : fd[p] \in File <=> pc[p] \in HasFile

\* From the lock on pidfile_delete is registered.
Registration ==
    \A p \in Instance : pc[p] \in HasFile \ {"lock"} => p \in saved_pidfile

WrittenLate == \A p \in wrote : pc[p] \in {"close", "run", "ended"}

\* Some instance will take the name away when it exits.
Remover(p) == pc[p] \in HasFile \/ (pc[p] = "run" /\ p \in saved_pidfile)
RemoverThere == killed = {} /\ named # NoFile => \E p \in Instance : Remover(p)

\* An instance that met no other runs alone, and the file it opened is the
\* one that has the name.
Lone(p) == Active(p) /\ p \notin met
Alone == \A p, q \in Instance : Lone(p) /\ Active(q) => p = q

HasNamed(p) == pc[p] \in HasFile => fd[p] = named
NamedBy(p) ==
    p \in wrote => /\ named # NoFile /\ line[named] = p
                   /\ killed = {} => extent[named] = Digits[p] + 1
StillEmpty(p) == killed = {} /\ pc[p] \in HasFile \ {"close"} => extent[fd[p]] = 0

LoneFile == \A p \in Instance : Lone(p) => HasNamed(p) /\ NamedBy(p) /\ StillEmpty(p)

PidInv ==
    /\ PidfileTypeOK /\ FileKept /\ Registration /\ WrittenLate
    /\ RemoverThere /\ Alone /\ LoneFile

LEMMA PidInvInit == PidfileInit => PidInv
BY DEF PidfileInit, PidInv, PidfileTypeOK, FileKept, HasFile, Registration, WrittenLate,
    RemoverThere, Alone, LoneFile, Lone, Active

-----------------------------------------------------------------------------
(* Starting.                                                               *)

\* Who starts beside another has met it; one that met nobody started alone.
LEMMA BeginAlone ==
    ASSUME PidInv, NEW p \in Instance, NEW to, to \notin {"new", "ended"}, Begin(p, to)
    PROVE  /\ pc' = [pc EXCEPT ![p] = to]
           /\ met' \subseteq Instance /\ forks' \subseteq Instance
           /\ \A q \in Instance : Lone(q)' => q = p /\ \A r \in Instance : ~Active(r)
           /\ Alone'
<1> DEFINE others == {q \in Instance : Active(q)}
<1>1. /\ pc[p] = "new" /\ pc' = [pc EXCEPT ![p] = to]
      /\ met' = IF others = {} THEN met ELSE met \cup others \cup {p}
      /\ forks' \in {forks, forks \cup {p}}
    BY DEF Begin
<1>2. met' \subseteq Instance /\ forks' \subseteq Instance
    BY <1>1 DEF PidInv, PidfileTypeOK
<1>3. pc \in [Instance -> {"new", "lock", "fork", "write", "close", "run", "ended"}]
    BY DEF PidInv, PidfileTypeOK
<1>4. \A q \in Instance : Active(q)' <=> q = p \/ Active(q)
    BY <1>1, <1>3 DEF Active
<1>5. ASSUME NEW q \in Instance, Lone(q)' PROVE q = p /\ \A r \in Instance : ~Active(r)
    <2>1. Active(q)' /\ q \notin met'
        BY <1>5 DEF Lone
    <2>2. others = {}
        BY <1>1, <1>4, <2>1
    <2>3. QED
        BY <1>4, <2>1, <2>2
<1>6. Alone'
    BY <1>4, <1>5 DEF Alone
<1>7. QED
    BY <1>1, <1>2, <1>5, <1>6

LEMMA OpenOldKeeps ==
    ASSUME PidInv, NEW p \in Instance, OpenOld(p)
    PROVE  PidInv'
<1>1. Begin(p, "lock") /\ pc[p] = "new"
    BY DEF OpenOld, Begin
<1>2. /\ pc' = [pc EXCEPT ![p] = "lock"] /\ fd' = [fd EXCEPT ![p] = named]
      /\ named \in File
      /\ met' \subseteq Instance /\ forks' \subseteq Instance /\ Alone'
      /\ UNCHANGED <<disk, saved_pidfile, wrote, killed>>
    BY <1>1, BeginAlone DEF OpenOld, PidInv, PidfileTypeOK
<1>3. PidfileTypeOK'
    BY <1>2 DEF PidInv, PidfileTypeOK, disk
<1>4. FileKept' /\ Registration' /\ WrittenLate'
    BY <1>1, <1>2 DEF PidInv, PidfileTypeOK, FileKept, Registration, WrittenLate, HasFile
<1>5. RemoverThere'
    BY <1>2 DEF PidInv, PidfileTypeOK, RemoverThere, Remover, HasFile
<1>6. LoneFile'
    <2> SUFFICES ASSUME NEW q \in Instance, Lone(q)'
                 PROVE  (HasNamed(q) /\ NamedBy(q) /\ StillEmpty(q))'
        BY DEF LoneFile
    <2>1. q = p /\ \A r \in Instance : ~Active(r)
        BY <1>1, BeginAlone
    <2>2. p \notin wrote'
        BY <1>1, <1>2 DEF PidInv, WrittenLate
    <2>3. killed # {}
        BY <1>2, <2>1 DEF PidInv, RemoverThere, Remover, Active, HasFile
    <2>4. QED
        BY <1>2, <2>1, <2>2, <2>3 DEF HasNamed, NamedBy, StillEmpty, disk, PidInv, PidfileTypeOK
<1>7. QED
    BY <1>2, <1>3, <1>4, <1>5, <1>6 DEF PidInv

LEMMA OpenNewKeeps ==
    ASSUME PidInv, NEW p \in Instance, NEW f \in File, OpenNew(p, f)
    PROVE  PidInv'
<1>1. Begin(p, "lock") /\ pc[p] = "new"
    BY DEF OpenNew, Begin
<1>2. /\ pc' = [pc EXCEPT ![p] = "lock"] /\ fd' = [fd EXCEPT ![p] = f] /\ named' = f
      /\ line' = [line EXCEPT ![f] = NoOne] /\ extent' = [extent EXCEPT ![f] = 0]
      /\ met' \subseteq Instance /\ forks' \subseteq Instance /\ Alone'
      /\ UNCHANGED <<locked, saved_pidfile, wrote, killed>>
    BY <1>1, BeginAlone DEF OpenNew
<1>3. PidfileTypeOK'
    BY <1>2 DEF PidInv, PidfileTypeOK
<1>4. FileKept' /\ Registration' /\ WrittenLate'
    BY <1>1, <1>2 DEF PidInv, PidfileTypeOK, FileKept, Registration, WrittenLate, HasFile
<1>5. RemoverThere'
    BY <1>2 DEF PidInv, PidfileTypeOK, RemoverThere, Remover, HasFile
<1>6. LoneFile'
    <2> SUFFICES ASSUME NEW q \in Instance, Lone(q)'
                 PROVE  (HasNamed(q) /\ NamedBy(q) /\ StillEmpty(q))'
        BY DEF LoneFile
    <2>1. q = p
        BY <1>1, BeginAlone
    <2>2. p \notin wrote'
        BY <1>1, <1>2 DEF PidInv, WrittenLate
    <2>3. fd'[p] = f /\ extent'[f] = 0
        BY <1>2 DEF PidInv, PidfileTypeOK
    <2>4. QED
        BY <1>2, <2>1, <2>2, <2>3 DEF HasNamed, NamedBy, StillEmpty
<1>7. QED
    BY <1>2, <1>3, <1>4, <1>5, <1>6 DEF PidInv

LEMMA OpenFailsKeeps ==
    ASSUME PidInv, NEW p \in Instance, OpenFails(p)
    PROVE  PidInv'
<1>1. Begin(p, "run") /\ pc[p] = "new"
    BY DEF OpenFails, Begin
<1>2. /\ pc' = [pc EXCEPT ![p] = "run"]
      /\ met' \subseteq Instance /\ forks' \subseteq Instance /\ Alone'
      /\ UNCHANGED <<disk, fd, saved_pidfile, wrote, killed>>
    BY <1>1, BeginAlone DEF OpenFails
<1>3. PidfileTypeOK'
    BY <1>2 DEF PidInv, PidfileTypeOK, disk
<1>4. FileKept' /\ Registration' /\ WrittenLate'
    BY <1>1, <1>2 DEF PidInv, PidfileTypeOK, FileKept, Registration, WrittenLate, HasFile
<1>5. RemoverThere'
    <2> SUFFICES ASSUME killed = {}, named # NoFile PROVE \E q \in Instance : Remover(q)'
        BY <1>2 DEF RemoverThere, disk
    <2>1. PICK q \in Instance : Remover(q)
        BY DEF PidInv, RemoverThere
    <2>2. q # p
        BY <1>1, <2>1 DEF Remover, HasFile
    <2>3. QED
        BY <1>2, <2>1, <2>2 DEF Remover, PidInv, PidfileTypeOK
<1>6. LoneFile'
    <2> SUFFICES ASSUME NEW q \in Instance, Lone(q)'
                 PROVE  (HasNamed(q) /\ NamedBy(q) /\ StillEmpty(q))'
        BY DEF LoneFile
    <2>1. q = p
        BY <1>1, BeginAlone
    <2>2. p \notin wrote' /\ pc'[p] = "run"
        BY <1>1, <1>2 DEF PidInv, WrittenLate, PidfileTypeOK
    <2>3. QED
        BY <2>1, <2>2 DEF HasNamed, NamedBy, StillEmpty, HasFile
<1>7. QED
    BY <1>2, <1>3, <1>4, <1>5, <1>6 DEF PidInv

-----------------------------------------------------------------------------
(* Writing the pid.                                                        *)

\* A step from which p goes on with its file.
LEMMA GoesOn ==
    ASSUME PidInv, NEW p \in Instance, NEW to \in HasFile, pc[p] \in HasFile,
           pc' = [pc EXCEPT ![p] = to],
           saved_pidfile \subseteq saved_pidfile', to = "lock" \/ p \in saved_pidfile',
           wrote' \subseteq wrote \cup {p}, p \in wrote' => to = "close",
           UNCHANGED <<named, fd, met, killed>>
    PROVE  /\ FileKept' /\ WrittenLate' /\ RemoverThere' /\ Alone' /\ Registration'
           /\ \A q \in Instance : Lone(q)' <=> Lone(q)
<1>1. pc \in [Instance -> {"new", "lock", "fork", "write", "close", "run", "ended"}]
    BY DEF PidInv, PidfileTypeOK
<1>2. \A q \in Instance : q # p => pc'[q] = pc[q]
    BY <1>1
<1>3. pc'[p] = to
    BY <1>1
<1>4. \A q \in Instance : Active(q)' <=> Active(q)
    BY <1>2, <1>3 DEF Active, HasFile
<1>5. Alone' /\ \A q \in Instance : Lone(q)' <=> Lone(q)
    BY <1>4 DEF PidInv, Alone, Lone
<1>6. FileKept' /\ WrittenLate' /\ Registration'
    BY <1>2, <1>3 DEF PidInv, FileKept, WrittenLate, Registration, PidfileTypeOK
<1>7. RemoverThere'
    BY <1>2, <1>3 DEF RemoverThere, Remover
<1>8. QED
    BY <1>5, <1>6, <1>7

LEMMA LockKeeps ==
    ASSUME PidInv, NEW p \in Instance, Lock(p)
    PROVE  PidInv'
<1> DEFINE to == IF p \in forks THEN "fork" ELSE "write"
<1>1. /\ pc[p] = "lock" /\ to \in HasFile /\ to # "close"
      /\ pc' = [pc EXCEPT ![p] = to]
      /\ saved_pidfile' = saved_pidfile \cup {p}
      /\ UNCHANGED <<named, line, extent, fd, forks, hist>>
    BY DEF Lock, Registered, HasFile
<1>2. p \notin wrote
    BY <1>1 DEF PidInv, WrittenLate
<1>3. /\ FileKept' /\ WrittenLate' /\ RemoverThere' /\ Alone' /\ Registration'
      /\ \A q \in Instance : Lone(q)' <=> Lone(q)
    BY <1>1, <1>2, GoesOn DEF hist, HasFile
<1>4. PidfileTypeOK'
    <2>1. locked' \in [File -> Instance \cup {NoOne}]
        BY DEF Lock, PidInv, PidfileTypeOK
    <2>2. saved_pidfile' \subseteq Instance
        BY <1>1 DEF PidInv, PidfileTypeOK
    <2>3. QED
        BY <1>1, <2>1, <2>2 DEF PidInv, PidfileTypeOK, hist, HasFile
<1>5. LoneFile'
    BY <1>1, <1>3 DEF PidInv, PidfileTypeOK, LoneFile, HasNamed, NamedBy, StillEmpty, hist, HasFile
<1>6. QED
    BY <1>3, <1>4, <1>5 DEF PidInv

LEMMA DaemonizeKeeps ==
    ASSUME PidInv, NEW p \in Instance, Daemonize(p)
    PROVE  PidInv'
<1>1. /\ pc[p] = "fork" /\ pc' = [pc EXCEPT ![p] = "write"]
      /\ UNCHANGED <<named, line, extent, fd, saved_pidfile, forks, hist>>
    BY DEF Daemonize
<1>2. p \notin wrote /\ p \in saved_pidfile
    BY <1>1 DEF PidInv, WrittenLate, Registration, HasFile
<1>3. /\ FileKept' /\ WrittenLate' /\ RemoverThere' /\ Alone' /\ Registration'
      /\ \A q \in Instance : Lone(q)' <=> Lone(q)
    BY <1>1, <1>2, GoesOn DEF hist, HasFile
<1>4. PidfileTypeOK'
    BY <1>1 DEF Daemonize, Unlock, PidInv, PidfileTypeOK, hist
<1>5. LoneFile'
    BY <1>1, <1>3 DEF PidInv, PidfileTypeOK, LoneFile, HasNamed, NamedBy, StillEmpty, hist, HasFile
<1>6. QED
    BY <1>3, <1>4, <1>5 DEF PidInv

LEMMA WriteFailsKeeps ==
    ASSUME PidInv, NEW p \in Instance, WriteFails(p)
    PROVE  PidInv'
<1>1. /\ pc[p] = "write" /\ pc' = [pc EXCEPT ![p] = "close"]
      /\ UNCHANGED <<disk, fd, saved_pidfile, forks, hist>>
    BY DEF WriteFails
<1>2. p \notin wrote /\ p \in saved_pidfile
    BY <1>1 DEF PidInv, WrittenLate, Registration, HasFile
<1>3. /\ FileKept' /\ WrittenLate' /\ RemoverThere' /\ Alone' /\ Registration'
      /\ \A q \in Instance : Lone(q)' <=> Lone(q)
    BY <1>1, <1>2, GoesOn DEF hist, disk, HasFile
<1>4. PidfileTypeOK'
    BY <1>1 DEF PidInv, PidfileTypeOK, disk, hist
<1>5. LoneFile'
    BY <1>1, <1>3 DEF PidInv, PidfileTypeOK, LoneFile, HasNamed, NamedBy, StillEmpty, disk,
        hist, HasFile
<1>6. QED
    BY <1>3, <1>4, <1>5 DEF PidInv

\* The one step that changes what is in the file.
LEMMA WriteKeeps ==
    ASSUME PidInv, NEW p \in Instance, Write(p)
    PROVE  PidInv'
<1>1. /\ pc[p] = "write" /\ pc' = [pc EXCEPT ![p] = "close"]
      /\ line' = [line EXCEPT ![fd[p]] = p]
      /\ extent' = [extent EXCEPT ![fd[p]] = Extent(p)]
      /\ wrote' = wrote \cup {p}
      /\ UNCHANGED <<named, locked, fd, saved_pidfile, forks, killed, met>>
    BY DEF Write, Line
<1>2. fd[p] \in File /\ p \in saved_pidfile
    BY <1>1 DEF PidInv, FileKept, Registration, HasFile
<1>3. /\ FileKept' /\ WrittenLate' /\ RemoverThere' /\ Alone' /\ Registration'
      /\ \A q \in Instance : Lone(q)' <=> Lone(q)
    BY <1>1, <1>2, GoesOn DEF HasFile
<1>4. Extent(p) \in {0} \cup {Digits[q] + 1 : q \in Instance}
    BY <1>2 DEF Extent, PidInv, PidfileTypeOK
<1>5. PidfileTypeOK'
    BY <1>1, <1>2, <1>4 DEF PidInv, PidfileTypeOK
<1>6. LoneFile'
    <2> SUFFICES ASSUME NEW q \in Instance, Lone(q)
                 PROVE  (HasNamed(q) /\ NamedBy(q) /\ StillEmpty(q))'
        BY <1>3 DEF LoneFile
    <2>1. q = p
        BY <1>1 DEF PidInv, Alone, Active
    <2>2. fd[p] = named /\ (killed = {} => extent[fd[p]] = 0)
        BY <1>1, <2>1 DEF PidInv, LoneFile, HasNamed, StillEmpty, HasFile
    <2>3. killed = {} => Extent(p) = Digits[p] + 1
        BY <2>2 DEF Extent
    <2>4. line'[named] = p /\ (killed' = {} => extent'[named] = Digits[p] + 1)
        BY <1>1, <1>2, <2>2, <2>3 DEF PidInv, PidfileTypeOK
    <2>5. pc'[p] = "close"
        BY <1>1 DEF PidInv, PidfileTypeOK
    <2>6. QED
        BY <1>1, <1>2, <2>1, <2>2, <2>4, <2>5 DEF HasNamed, NamedBy, StillEmpty
<1>7. QED
    BY <1>3, <1>5, <1>6 DEF PidInv

LEMMA ClosingKeeps ==
    ASSUME PidInv, NEW p \in Instance, Close(p)
    PROVE  PidInv'
<1>1. /\ pc[p] = "close" /\ pc' = [pc EXCEPT ![p] = "run"] /\ fd' = [fd EXCEPT ![p] = NoFile]
      /\ UNCHANGED <<named, line, extent, saved_pidfile, forks, hist>>
    BY DEF Close
<1>2. p \in saved_pidfile
    BY <1>1 DEF PidInv, Registration, HasFile
<1>3. PidfileTypeOK'
    BY <1>1 DEF Close, Unlock, PidInv, PidfileTypeOK, hist
<1>4. FileKept' /\ Registration' /\ WrittenLate'
    BY <1>1 DEF PidInv, PidfileTypeOK, FileKept, Registration, WrittenLate, HasFile, hist
<1>5. RemoverThere'
    BY <1>1, <1>2 DEF PidInv, PidfileTypeOK, RemoverThere, Remover, HasFile, hist
<1>6. Alone' /\ \A q \in Instance : Lone(q)' <=> Lone(q)
    <2>1. \A q \in Instance : Active(q)' <=> Active(q)
        BY <1>1 DEF Active, PidInv, PidfileTypeOK
    <2>2. QED
        BY <1>1, <2>1 DEF PidInv, Alone, Lone, hist
<1>7. LoneFile'
    BY <1>1, <1>6 DEF PidInv, PidfileTypeOK, LoneFile, HasNamed, NamedBy, StillEmpty, hist, HasFile
<1>8. QED
    BY <1>3, <1>4, <1>5, <1>6, <1>7 DEF PidInv

-----------------------------------------------------------------------------
(* Ending.                                                                 *)

\* Who ends leaves the others as they were, and a lone instance leaves nobody.
LEMMA EndsAlone ==
    ASSUME PidInv, NEW p \in Instance, Active(p),
           pc' = [pc EXCEPT ![p] = "ended"], UNCHANGED <<met, wrote>>,
           fd' = [fd EXCEPT ![p] = NoFile], saved_pidfile' = saved_pidfile
    PROVE  /\ FileKept' /\ Registration' /\ WrittenLate' /\ Alone' /\ LoneFile'
<1>1. pc \in [Instance -> {"new", "lock", "fork", "write", "close", "run", "ended"}]
      /\ fd \in [Instance -> File \cup {NoFile}]
    BY DEF PidInv, PidfileTypeOK
<1>2. \A q \in Instance : Active(q)' <=> q # p /\ Active(q)
    BY <1>1 DEF Active
<1>3. \A q \in Instance : ~Lone(q)'
    BY <1>2 DEF PidInv, Alone, Lone
<1>4. FileKept' /\ Registration' /\ WrittenLate'
    BY <1>1 DEF PidInv, PidfileTypeOK, FileKept, Registration, WrittenLate, HasFile
<1>5. QED
    BY <1>3, <1>4 DEF Alone, LoneFile

LEMMA LeaveKeeps ==
    ASSUME PidInv, NEW p \in Instance, Exit(p) \/ DaemonFails(p)
    PROVE  PidInv'
<1>1. /\ Active(p) /\ pc[p] \in {"run", "fork"}
      /\ pc' = [pc EXCEPT ![p] = "ended"] /\ fd' = [fd EXCEPT ![p] = NoFile]
      /\ named' = IF p \in saved_pidfile THEN NoFile ELSE named
      /\ locked' = [f \in File |-> IF locked[f] = p THEN NoOne ELSE locked[f]]
      /\ UNCHANGED <<line, extent, saved_pidfile, forks, hist>>
    BY DEF Exit, DaemonFails, Leave, Unlock, Active
<1>2. FileKept' /\ Registration' /\ WrittenLate' /\ Alone' /\ LoneFile'
    BY <1>1, EndsAlone DEF hist
<1>3. PidfileTypeOK'
    BY <1>1 DEF PidInv, PidfileTypeOK, hist
<1>4. RemoverThere'
    <2> SUFFICES ASSUME killed = {}, named' # NoFile PROVE \E q \in Instance : Remover(q)'
        BY <1>1 DEF RemoverThere, hist
    <2>1. p \notin saved_pidfile /\ named # NoFile
        BY <1>1
    <2>2. PICK q \in Instance : Remover(q)
        BY <2>1 DEF PidInv, RemoverThere
    <2>3. q # p
        BY <1>1, <2>1, <2>2 DEF Remover, PidInv, Registration, HasFile
    <2>4. QED
        BY <1>1, <2>2, <2>3 DEF Remover, PidInv, PidfileTypeOK
<1>5. QED
    BY <1>2, <1>3, <1>4 DEF PidInv

LEMMA DieKeeps ==
    ASSUME PidInv, NEW p \in Instance, Die(p)
    PROVE  PidInv'
<1>1. /\ Active(p) /\ killed' = killed \cup {p}
      /\ pc' = [pc EXCEPT ![p] = "ended"] /\ fd' = [fd EXCEPT ![p] = NoFile]
      /\ locked' = [f \in File |-> IF locked[f] = p THEN NoOne ELSE locked[f]]
      /\ UNCHANGED <<named, line, extent, saved_pidfile, forks, wrote, met>>
    BY DEF Die, Unlock
<1>2. FileKept' /\ Registration' /\ WrittenLate' /\ Alone' /\ LoneFile'
    BY <1>1, EndsAlone
<1>3. PidfileTypeOK'
    BY <1>1 DEF PidInv, PidfileTypeOK
<1>4. RemoverThere'
    BY <1>1 DEF RemoverThere
<1>5. QED
    BY <1>2, <1>3, <1>4 DEF PidInv

-----------------------------------------------------------------------------

LEMMA PidInvStep == PidInv /\ [PidfileNext]_pvars => PidInv'
<1>1. ASSUME PidInv, NEW p \in Instance,
             \/ OpenOld(p) \/ OpenFails(p)
             \/ \E f \in File : OpenNew(p, f)
             \/ StartUp(p)
             \/ Exit(p) \/ Die(p)
      PROVE  PidInv'
    BY <1>1, OpenOldKeeps, OpenFailsKeeps, OpenNewKeeps, LockKeeps, DaemonizeKeeps,
        WriteKeeps, WriteFailsKeeps, ClosingKeeps, LeaveKeeps, DieKeeps DEF StartUp
<1>2. ASSUME PidInv, UNCHANGED pvars PROVE PidInv'
    BY <1>2 DEF pvars, disk, hist, PidInv, PidfileTypeOK, FileKept, Registration,
        WrittenLate, RemoverThere, Remover, Alone, LoneFile, Lone, Active, HasNamed,
        NamedBy, StillEmpty
<1>3. QED
    BY <1>1, <1>2 DEF PidfileNext

THEOREM PidInvariant == PidfileSpec => []PidInv
BY PidInvInit, PidInvStep, PTL DEF PidfileSpec

\* Type correctness, for any number of instances and files.
THEOREM PidfileTypeCorrect == PidfileSpec => []PidfileTypeOK
<1>1. PidInv => PidfileTypeOK
    BY DEF PidInv
<1>2. QED
    BY <1>1, PidInvariant, PTL

\* The pid of a daemon that ran alone is in the file while it runs.
THEOREM LoneDaemonNamedHolds == PidfileSpec => []LoneDaemonNamed
<1>1. PidInv => LoneDaemonNamed
    <2> SUFFICES ASSUME PidInv, NEW p \in wrote \ met, pc[p] = "run"
                 PROVE  /\ named # NoFile /\ line[named] = p
                        /\ killed = {} => extent[named] = Digits[p] + 1
        BY DEF LoneDaemonNamed
    <2>1. p \in Instance /\ Lone(p)
        BY DEF Lone, Active, PidInv, PidfileTypeOK
    <2>2. QED
        BY <2>1 DEF PidInv, LoneFile, NamedBy
<1>2. QED
    BY <1>1, PidInvariant, PTL

\* Without kills the last instance to exit leaves no pid file, however many
\* overlapped.
THEOREM NothingLeftHolds == PidfileSpec => []NothingLeft
<1>1. PidInv => NothingLeft
    BY DEF PidInv, RemoverThere, Remover, NothingLeft, Active, HasFile
<1>2. QED
    BY <1>1, PidInvariant, PTL

-----------------------------------------------------------------------------
(* Two at the file.                                                        *)

\* What keeps writers apart is not the name but the lock of the file, and
\* daemon() is the one step that loses it.
HoldsLock == \A p \in Instance : InWrite(p) /\ ~Forked(p) => locked[fd[p]] = p

ForkAsked == \A p \in Instance : pc[p] = "fork" => p \in forks

LEMMA HoldsLockInit == PidfileInit => HoldsLock /\ ForkAsked
BY DEF PidfileInit, HoldsLock, InWrite, ForkAsked

LEMMA ForkAskedStep == PidInv /\ ForkAsked /\ [PidfileNext]_pvars => ForkAsked'
<1> USE DEF PidInv, PidfileTypeOK, ForkAsked
<1>1. ASSUME PidInv, ForkAsked, NEW p \in Instance,
             OpenOld(p) \/ OpenFails(p) \/ \E f \in File : OpenNew(p, f)
      PROVE  ForkAsked'
    BY <1>1 DEF OpenOld, OpenFails, OpenNew, Begin
<1>2. ASSUME PidInv, ForkAsked, NEW p \in Instance,
             StartUp(p) \/ Exit(p) \/ Die(p)
      PROVE  ForkAsked'
    BY <1>2 DEF StartUp, Lock, Daemonize, DaemonFails, Write, WriteFails, Close, Exit, Die, Leave
<1>3. ASSUME ForkAsked, UNCHANGED pvars PROVE ForkAsked'
    BY <1>3 DEF pvars
<1>4. QED
    BY <1>1, <1>2, <1>3 DEF PidfileNext

\* A step of p that leaves the locks of the others alone, and after which p
\* holds its lock, is past daemon() or is not writing.
LEMMA OthersKeepLock ==
    ASSUME PidInv, HoldsLock, NEW p \in Instance, NEW to,
           pc' = [pc EXCEPT ![p] = to],
           \A q \in Instance \ {p} : fd'[q] = fd[q] /\ (q \in forks' <=> q \in forks),
           \A q \in Instance \ {p} : \A f \in File : locked[f] = q => locked'[f] = q,
           InWrite(p)' /\ ~Forked(p)' => locked'[fd'[p]] = p
    PROVE  HoldsLock'
<1> SUFFICES ASSUME NEW q \in Instance \ {p}, InWrite(q)', ~Forked(q)'
             PROVE  locked'[fd'[q]] = q
    BY DEF HoldsLock
<1>1. pc'[q] = pc[q]
    BY DEF PidInv, PidfileTypeOK
<1>2. InWrite(q) /\ ~Forked(q)
    BY <1>1 DEF InWrite, Forked
<1>3. fd[q] \in File
    BY <1>2 DEF InWrite, PidInv, FileKept, HasFile
<1>4. locked[fd[q]] = q
    BY <1>2 DEF HoldsLock
<1>5. QED
    BY <1>3, <1>4

LEMMA OpenHoldsLock ==
    ASSUME PidInv, HoldsLock, NEW p \in Instance,
           OpenOld(p) \/ OpenFails(p) \/ \E f \in File : OpenNew(p, f)
    PROVE  HoldsLock'
<1>1. PICK to \in {"lock", "run"} : Begin(p, to)
    BY DEF OpenOld, OpenFails, OpenNew
<1>2. pc' = [pc EXCEPT ![p] = to] /\ forks' \in {forks, forks \cup {p}}
    BY <1>1 DEF Begin
<1>3. locked' = locked /\ \A q \in Instance \ {p} : fd'[q] = fd[q]
    BY DEF OpenOld, OpenFails, OpenNew, disk, PidInv, PidfileTypeOK
<1>4. ~InWrite(p)'
    BY <1>2 DEF InWrite, PidInv, PidfileTypeOK
<1>5. QED
    BY <1>2, <1>3, <1>4, OthersKeepLock

LEMMA LockHoldsLock ==
    ASSUME PidInv, HoldsLock, NEW p \in Instance, Lock(p)
    PROVE  HoldsLock'
<1>1. /\ pc[p] = "lock" /\ locked[fd[p]] = NoOne
      /\ locked' = [locked EXCEPT ![fd[p]] = p]
      /\ pc' = [pc EXCEPT ![p] = IF p \in forks THEN "fork" ELSE "write"]
      /\ UNCHANGED <<fd, forks>>
    BY DEF Lock
<1>2. fd[p] \in File
    BY <1>1 DEF PidInv, FileKept, HasFile
<1>3. locked'[fd'[p]] = p
    BY <1>1, <1>2 DEF PidInv, PidfileTypeOK
<1>4. \A q \in Instance \ {p} : \A f \in File : locked[f] = q => locked'[f] = q
    BY <1>1 DEF PidInv, PidfileTypeOK
<1>5. QED
    BY <1>1, <1>3, <1>4, OthersKeepLock

\* Only the locks of p are given up, and p is past daemon() or has ended.
LEMMA UnlockHoldsLock ==
    ASSUME PidInv, HoldsLock, ForkAsked, NEW p \in Instance,
           Daemonize(p) \/ DaemonFails(p) \/ Close(p) \/ Exit(p) \/ Die(p)
    PROVE  HoldsLock'
<1>1. Unlock(p) /\ forks' = forks
    BY DEF Daemonize, DaemonFails, Close, Exit, Die, Leave
<1>2. \A q \in Instance \ {p} : fd'[q] = fd[q]
    BY DEF Daemonize, DaemonFails, Close, Exit, Die, Leave, PidInv, PidfileTypeOK
<1>3. \A q \in Instance \ {p} : \A f \in File : locked[f] = q => locked'[f] = q
    BY <1>1 DEF Unlock
<1>4. CASE Daemonize(p)
    <2>1. pc' = [pc EXCEPT ![p] = "write"] /\ p \in forks
        BY <1>4 DEF Daemonize, ForkAsked
    <2>2. Forked(p)'
        BY <1>1, <2>1 DEF Forked, PidInv, PidfileTypeOK
    <2>3. QED
        BY <1>1, <1>2, <1>3, <2>1, <2>2, OthersKeepLock
<1>5. CASE DaemonFails(p) \/ Close(p) \/ Exit(p) \/ Die(p)
    <2>1. PICK to \in {"run", "ended"} : pc' = [pc EXCEPT ![p] = to]
        BY <1>5 DEF DaemonFails, Close, Exit, Die, Leave
    <2>2. ~InWrite(p)'
        BY <2>1 DEF InWrite, PidInv, PidfileTypeOK
    <2>3. QED
        BY <1>1, <1>2, <1>3, <2>1, <2>2, OthersKeepLock
<1>6. QED
    BY <1>4, <1>5

LEMMA WriteHoldsLock ==
    ASSUME PidInv, HoldsLock, NEW p \in Instance, Write(p) \/ WriteFails(p)
    PROVE  HoldsLock'
<1>1. /\ pc[p] = "write" /\ pc' = [pc EXCEPT ![p] = "close"]
      /\ UNCHANGED <<locked, fd, forks>>
    BY DEF Write, WriteFails, disk
<1>2. InWrite(p)' /\ ~Forked(p)' => InWrite(p) /\ ~Forked(p)
    BY <1>1 DEF InWrite, Forked, PidInv, PidfileTypeOK
<1>3. QED
    BY <1>1, <1>2, OthersKeepLock DEF HoldsLock

LEMMA HoldsLockStep == PidInv /\ HoldsLock /\ ForkAsked /\ [PidfileNext]_pvars => HoldsLock'
<1>1. ASSUME PidInv, HoldsLock, ForkAsked, NEW p \in Instance,
             \/ OpenOld(p) \/ OpenFails(p)
             \/ \E f \in File : OpenNew(p, f)
             \/ StartUp(p)
             \/ Exit(p) \/ Die(p)
      PROVE  HoldsLock'
    BY <1>1, OpenHoldsLock, LockHoldsLock, UnlockHoldsLock, WriteHoldsLock DEF StartUp
<1>2. ASSUME HoldsLock, UNCHANGED pvars PROVE HoldsLock'
    BY <1>2 DEF pvars, disk, HoldsLock, InWrite, Forked
<1>3. QED
    BY <1>1, <1>2 DEF PidfileNext

\* Two instances are never at one file with the lock of pidfile_acquire still
\* theirs, whoever was killed and whatever lost its name: for two writers one
\* of them must have gone through daemon().
THEOREM WritersApartHolds == PidfileSpec => []WritersApart
<1>1. PidfileSpec => []HoldsLock
    BY HoldsLockInit, ForkAskedStep, HoldsLockStep, PidInvariant, PTL DEF PidfileSpec
<1>2. HoldsLock => WritersApart
    BY DEF HoldsLock, WritersApart
<1>3. QED
    BY <1>1, <1>2, PTL
=============================================================================
