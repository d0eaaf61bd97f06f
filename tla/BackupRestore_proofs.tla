------------------------- MODULE BackupRestore_proofs -------------------------
(***************************************************************************)
(* What restore and backup promise, for any number of module versions,      *)
(* credentials and restores, and any faults.  The argument is about owners: *)
(* a restore that has copied the database and has not failed.  While there  *)
(* is one the directory is not empty, so no other restore gets past its     *)
(* check, whoever holds the lock in between.                                *)
(***************************************************************************)
EXTENDS BackupRestore, TLAPS

Owning == {"copied", "invalidated", "returned"}

\* The service and the restores are in places of their own.
Places ==
    /\ pc[Service] \in {"idle", "looked", "up"}
    /\ \A p \in Restorers : pc[p] \notin {"looked", "up"}

\* A row never names a file that is not there, and the backup's walk has to find the
\* files of the rows it read.
RowsHaveFiles ==
    /\ live.modules \subseteq live.files
    /\ copy.phase = "database" => copy.modules \subseteq live.files
    /\ copy.phase = "artifacts" => copy.modules \subseteq copy.due
    /\ copy.phase = "published" => copy.modules \subseteq copy.files

\* A restore works on a published backup.
FromBackup == \A p \in Restorers : pc[p] # "idle" => copy.phase = "published"

OwnerAlone == \A p, q \in Restorers : pc[p] \in Owning /\ pc[q] \in Owning => p = q

\* What an owner's directory holds.
Owned ==
    \A p \in Restorers :
        /\ pc[p] \in Owning =>
              target.db = "whole" /\ target.modules = copy.modules /\ ~target.marker
        /\ pc[p] \in {"invalidated", "returned"} => target.open = {}
        /\ pc[p] = "returned" => copy.files \subseteq target.files

IInv == /\ TypeOK /\ Places /\ OneHolder /\ RowsHaveFiles
        /\ FromBackup /\ OwnerAlone /\ Owned

-----------------------------------------------------------------------------
LEMMA InitHolds == Init => IInv
PROOF
  <1> SUFFICES ASSUME Init PROVE IInv
    OBVIOUS
  <1>1. TypeOK
    BY DEF Init, Empty, Processes, TypeOK
  <1>2. OneHolder
    BY HoldersAssumption DEF Init, Empty, Processes, OneHolder
  <1>3. Places /\ RowsHaveFiles /\ FromBackup /\ OwnerAlone /\ Owned
    BY DEF Init, Empty, Processes, Places, RowsHaveFiles, FromBackup, OwnerAlone, Owned, Owning
  <1> QED
    BY <1>1, <1>2, <1>3 DEF IInv

\* What the running service does changes nothing but its own files and rows, which grow.
LEMMA LiveStep ==
    ASSUME IInv, UNCHANGED <<copy, target, pc>>,
           live' \in [files: SUBSET Modules, modules: SUBSET Modules, open: SUBSET Credentials],
           live.files \subseteq live'.files, live'.modules \subseteq live'.files
    PROVE  IInv'
PROOF
  <1>1. TypeOK'
    BY DEF IInv, TypeOK
  <1>2. RowsHaveFiles'
    BY DEF IInv, RowsHaveFiles
  <1>3. (Places /\ OneHolder /\ FromBackup /\ OwnerAlone /\ Owned)'
    BY DEF IInv, Places, OneHolder, FromBackup, OwnerAlone, Owned
  <1> QED
    BY <1>1, <1>2, <1>3 DEF IInv

LEMMA ServiceKeeps ==
    ASSUME IInv,
           \/ \E m \in Modules : WriteArtifact(m) \/ CreateModule(m)
           \/ \E c \in Credentials : Issue(c) \/ Withdraw(c)
    PROVE  IInv'
PROOF
  <1>1. live \in [files: SUBSET Modules, modules: SUBSET Modules, open: SUBSET Credentials]
    BY DEF IInv, TypeOK
  <1>2. live.modules \subseteq live.files
    BY DEF IInv, RowsHaveFiles
  <1>3. ASSUME NEW m \in Modules, WriteArtifact(m)
        PROVE  IInv'
    BY <1>1, <1>2, <1>3, LiveStep DEF WriteArtifact
  <1>4. ASSUME NEW m \in Modules, CreateModule(m)
        PROVE  IInv'
    BY <1>1, <1>2, <1>4, LiveStep DEF CreateModule
  <1>5. ASSUME NEW c \in Credentials, Issue(c)
        PROVE  IInv'
    BY <1>1, <1>2, <1>5, LiveStep DEF Issue
  <1>6. ASSUME NEW c \in Credentials, Withdraw(c)
        PROVE  IInv'
    BY <1>1, <1>2, <1>6, LiveStep DEF Withdraw
  <1> QED
    BY <1>3, <1>4, <1>5, <1>6

\* While a backup is taken there is nothing yet to restore.
LEMMA BackupStep ==
    ASSUME IInv, copy.phase # "published", UNCHANGED <<live, target, pc>>,
           copy' \in [phase: {"none", "database", "artifacts", "published"},
                      modules: SUBSET Modules, open: SUBSET Credentials,
                      due: SUBSET Modules, files: SUBSET Modules],
           RowsHaveFiles'
    PROVE  IInv'
PROOF
  <1>1. \A p \in Restorers : pc[p] = "idle"
    BY DEF IInv, FromBackup
  <1>2. TypeOK'
    BY DEF IInv, TypeOK
  <1>3. (Places /\ OneHolder)'
    BY DEF IInv, Places, OneHolder
  <1>4. (FromBackup /\ OwnerAlone /\ Owned)'
    BY <1>1 DEF FromBackup, OwnerAlone, Owned, Owning
  <1> QED
    BY <1>2, <1>3, <1>4 DEF IInv

LEMMA BackupKeeps ==
    ASSUME IInv, SnapshotDatabase \/ StartWalk \/ PublishBackup \/ BackupFails
    PROVE  IInv'
PROOF
  <1> USE DEF IInv, TypeOK, RowsHaveFiles
  <1>1. CASE SnapshotDatabase
    BY <1>1, BackupStep DEF SnapshotDatabase
  <1>2. CASE StartWalk
    BY <1>2, BackupStep DEF StartWalk
  <1>3. CASE PublishBackup
    BY <1>3, BackupStep DEF PublishBackup, WalkDone
  <1>4. CASE BackupFails
    BY <1>4, BackupStep DEF BackupFails
  <1> QED
    BY <1>1, <1>2, <1>3, <1>4

LEMMA BackupFileKeeps ==
    ASSUME IInv, NEW m \in Modules, BackupFile(m)
    PROVE  IInv'
  BY BackupStep DEF BackupFile, IInv, TypeOK, RowsHaveFiles

-----------------------------------------------------------------------------
\* A step of a restore leaves the service and the backup alone; what is left to show of
\* it is who holds the directory and what is in it.
LEMMA RestoreStep ==
    ASSUME IInv, NEW p \in Restorers, UNCHANGED <<live, copy>>, copy.phase = "published",
           NEW place \in {"verified", "locked", "copied", "invalidated", "returned",
                          "refused", "failed", "killed"},
           Goes(p, place),
           target' \in [db: {"none", "partial", "whole"}, modules: SUBSET Modules,
                        open: SUBSET Credentials, files: SUBSET Modules, marker: BOOLEAN,
                        lock: Processes \cup {Free}],
           OneHolder', OwnerAlone', Owned'
    PROVE  IInv'
PROOF
  <1> USE DEF Goes, Processes
  <1>1. TypeOK'
    BY DEF IInv, TypeOK
  <1>2. Places'
    BY HoldersAssumption DEF IInv, TypeOK, Places
  <1>3. RowsHaveFiles' /\ FromBackup'
    BY DEF IInv, TypeOK, RowsHaveFiles, FromBackup
  <1> QED
    BY <1>1, <1>2, <1>3 DEF IInv

\* The steps before the copy: nobody becomes an owner and no file changes.
LEMMA BeforeCopyKeeps ==
    ASSUME IInv, NEW p \in Restorers, Verify(p) \/ Lock(p) \/ RefuseDirectory(p)
    PROVE  IInv'
PROOF
  <1> USE DEF Goes, Processes, Unlocked
  <1>1. CASE Verify(p)
    <2>1. OneHolder'
      BY <1>1, HoldersAssumption DEF Verify, IInv, TypeOK, OneHolder
    <2>2. OwnerAlone' /\ Owned'
      BY <1>1 DEF Verify, IInv, TypeOK, OwnerAlone, Owned, Owning
    <2> QED
      BY <1>1, <2>1, <2>2, RestoreStep DEF Verify, IInv, TypeOK
  <1>2. CASE Lock(p)
    <2>1. OneHolder'
      BY <1>2, HoldersAssumption DEF Lock, IInv, TypeOK, OneHolder
    <2>2. OwnerAlone' /\ Owned'
      BY <1>2 DEF Lock, IInv, TypeOK, OwnerAlone, Owned, Owning
    <2>3. copy.phase = "published"
      BY <1>2 DEF Lock, IInv, FromBackup
    <2> QED
      BY <1>2, <2>1, <2>2, <2>3, RestoreStep DEF Lock, IInv, TypeOK
  <1>3. CASE RefuseDirectory(p)
    <2>1. OneHolder'
      BY <1>3, HoldersAssumption DEF RefuseDirectory, IInv, TypeOK, OneHolder
    <2>2. OwnerAlone' /\ Owned'
      BY <1>3 DEF RefuseDirectory, IInv, TypeOK, OwnerAlone, Owned, Owning
    <2>3. copy.phase = "published"
      BY <1>3 DEF RefuseDirectory, IInv, FromBackup
    <2> QED
      BY <1>3, <2>1, <2>2, <2>3, RestoreStep DEF RefuseDirectory, IInv, TypeOK
  <1> QED
    BY <1>1, <1>2, <1>3

\* An empty directory has no owner; who copies into it becomes the only one.
LEMMA CopyKeeps ==
    ASSUME IInv, NEW p \in Restorers, CopyDatabase(p) \/ CopyFails(p) \/ KillInCopy(p)
    PROVE  IInv'
PROOF
  <1> USE DEF Goes, Processes, WithDatabase
  <1>1. DirectoryEmpty /\ pc[p] = "locked" /\ copy.phase = "published" /\ target.lock = p
    BY DEF CopyDatabase, CopyFails, KillInCopy, CopyCutShort, IInv, FromBackup, OneHolder
  <1>2. \A q \in Restorers : pc[q] \notin Owning
    BY <1>1 DEF IInv, Owned, DirectoryEmpty
  <1>3. CASE CopyDatabase(p)
    <2>1. OneHolder'
      BY <1>3, HoldersAssumption DEF CopyDatabase, IInv, TypeOK, OneHolder
    <2>2. OwnerAlone' /\ Owned'
      BY <1>1, <1>2, <1>3
         DEF CopyDatabase, DirectoryEmpty, IInv, TypeOK, OwnerAlone, Owned, Owning
    <2> QED
      BY <1>1, <1>3, <2>1, <2>2, RestoreStep DEF CopyDatabase, IInv, TypeOK
  <1>4. ASSUME CopyCutShort(p), NEW place \in {"failed", "killed"}, Goes(p, place)
        PROVE  IInv'
    <2>1. OneHolder'
      BY <1>4, HoldersAssumption DEF CopyCutShort, IInv, TypeOK, OneHolder
    <2>2. OwnerAlone' /\ Owned'
      BY <1>1, <1>2, <1>4 DEF CopyCutShort, IInv, TypeOK, OwnerAlone, Owned, Owning
    <2> QED
      BY <1>1, <1>4, <2>1, <2>2, RestoreStep DEF CopyCutShort, IInv, TypeOK
  <1> QED
    BY <1>3, <1>4 DEF CopyFails, KillInCopy

\* What the owner does then concerns nobody else.
LEMMA OwnerKeeps ==
    ASSUME IInv, NEW p \in Restorers, Invalidate(p) \/ Return(p) \/ Fail(p) \/ Kill(p)
    PROVE  IInv'
PROOF
  <1> USE DEF Goes, Processes, Unlocked
  <1>1. copy.phase = "published"
    BY DEF Invalidate, Return, Fail, Kill, IInv, FromBackup
  <1>2. CASE Invalidate(p)
    <2>1. OneHolder'
      BY <1>2, HoldersAssumption DEF Invalidate, IInv, TypeOK, OneHolder
    <2>2. OwnerAlone' /\ Owned'
      BY <1>2 DEF Invalidate, Invalidated, IInv, TypeOK, OwnerAlone, Owned, Owning
    <2> QED
      BY <1>1, <1>2, <2>1, <2>2, RestoreStep DEF Invalidate, Invalidated, IInv, TypeOK
  <1>3. CASE Return(p)
    <2>1. OneHolder'
      BY <1>3, HoldersAssumption DEF Return, IInv, TypeOK, OneHolder
    <2>2. OwnerAlone' /\ Owned'
      BY <1>3 DEF Return, IInv, TypeOK, OwnerAlone, Owned, Owning
    <2> QED
      BY <1>1, <1>3, <2>1, <2>2, RestoreStep DEF Return, IInv, TypeOK
  <1>4. CASE Fail(p)
    <2>1. OneHolder'
      BY <1>4, HoldersAssumption DEF Fail, IInv, TypeOK, OneHolder
    <2>2. OwnerAlone' /\ Owned'
      BY <1>4 DEF Fail, IInv, TypeOK, OwnerAlone, Owned, Owning
    <2> QED
      BY <1>1, <1>4, <2>1, <2>2, RestoreStep DEF Fail, IInv, TypeOK
  <1>5. CASE Kill(p)
    <2>1. OneHolder'
      BY <1>5, HoldersAssumption DEF Kill, IInv, TypeOK, OneHolder
    <2>2. OwnerAlone' /\ Owned'
      BY <1>5 DEF Kill, IInv, TypeOK, OwnerAlone, Owned, Owning
    <2> QED
      BY <1>1, <1>5, <2>1, <2>2, RestoreStep DEF Kill, IInv, TypeOK
  <1> QED
    BY <1>2, <1>3, <1>4, <1>5

LEMMA RestoreFileKeeps ==
    ASSUME IInv, NEW p \in Restorers, NEW m \in Modules, RestoreFile(p, m)
    PROVE  IInv'
PROOF
  <1>1. TypeOK'
    BY DEF RestoreFile, IInv, TypeOK
  <1>2. (Places /\ OneHolder /\ RowsHaveFiles /\ FromBackup /\ OwnerAlone)'
    BY DEF RestoreFile, IInv, TypeOK, Places, OneHolder, RowsHaveFiles, FromBackup, OwnerAlone
  <1>3. Owned'
    BY DEF RestoreFile, IInv, TypeOK, Owned
  <1> QED
    BY <1>1, <1>2, <1>3 DEF IInv

\* A start waits for the lock and leaves a database that is there as it is.
LEMMA StartKeeps ==
    ASSUME IInv, LookForMarker \/ Start \/ StartFails \/ Stop
    PROVE  IInv'
PROOF
  <1> USE HoldersAssumption DEF Goes, Processes, IInv, TypeOK
  <1>1. UNCHANGED <<live, copy>> /\ \A p \in Restorers : pc'[p] = pc[p]
    BY DEF LookForMarker, Start, StartFails, Stop
  <1>2. (RowsHaveFiles /\ FromBackup /\ OwnerAlone)'
    BY <1>1 DEF RowsHaveFiles, FromBackup, OwnerAlone
  <1>3. CASE LookForMarker \/ StartFails
    <2>1. TypeOK' /\ Places'
      BY <1>1, <1>3 DEF LookForMarker, StartFails, Places
    <2>2. OneHolder' /\ Owned'
      BY <1>1, <1>3 DEF LookForMarker, StartFails, Places, OneHolder, Owned
    <2> QED
      BY <1>2, <2>1, <2>2
  <1>4. CASE Start
    <2>1. target'.db = IF target.db = "none" THEN "whole" ELSE target.db
      BY <1>4 DEF Start
    <2>2. target'.lock = Service /\ target'.modules = target.modules /\ target'.open = target.open
          /\ target'.files = target.files /\ target'.marker = target.marker
      BY <1>4 DEF Start
    <2>3. target' \in [db: {"none", "partial", "whole"}, modules: SUBSET Modules,
                       open: SUBSET Credentials, files: SUBSET Modules, marker: BOOLEAN,
                       lock: Processes \cup {Free}]
      BY <1>4 DEF Start
    <2>4. TypeOK' /\ Places'
      BY <1>1, <1>4, <2>3 DEF Start, Places
    <2>5. OneHolder'
      BY <1>1, <1>4, <2>2 DEF Start, Places, OneHolder
    <2>6. Owned'
      BY <1>1, <2>1, <2>2 DEF Owned, Owning
    <2> QED
      BY <1>2, <2>4, <2>5, <2>6
  <1>5. CASE Stop
    <2>1. TypeOK' /\ Places'
      BY <1>1, <1>5 DEF Stop, Unlocked, Places
    <2>2. OneHolder' /\ Owned'
      BY <1>1, <1>5 DEF Stop, Unlocked, Places, OneHolder, Owned
    <2> QED
      BY <1>2, <2>1, <2>2
  <1> QED
    BY <1>3, <1>4, <1>5

LEMMA NextHolds == IInv /\ [Next]_vars => IInv'
PROOF
  <1> SUFFICES ASSUME IInv, [Next]_vars PROVE IInv'
    OBVIOUS
  <1>1. CASE UNCHANGED vars
    BY <1>1 DEF vars, IInv, TypeOK, Places, OneHolder, RowsHaveFiles, FromBackup, OwnerAlone,
                Owned
  <1>2. ASSUME NEW m \in Modules, WriteArtifact(m) \/ CreateModule(m) \/ BackupFile(m)
        PROVE  IInv'
    BY <1>2, ServiceKeeps, BackupFileKeeps
  <1>3. ASSUME NEW c \in Credentials, Issue(c) \/ Withdraw(c)
        PROVE  IInv'
    BY <1>3, ServiceKeeps
  <1>4. ASSUME NEW p \in Restorers,
               \/ Verify(p) \/ Lock(p) \/ RefuseDirectory(p) \/ CopyDatabase(p)
               \/ CopyFails(p) \/ Invalidate(p) \/ Return(p) \/ Fail(p) \/ Kill(p)
               \/ KillInCopy(p) \/ \E m \in Modules : RestoreFile(p, m)
        PROVE  IInv'
    BY <1>4, BeforeCopyKeeps, CopyKeeps, OwnerKeeps, RestoreFileKeeps
  <1>5. CASE SnapshotDatabase \/ StartWalk \/ PublishBackup \/ BackupFails
    BY <1>5, BackupKeeps
  <1>6. CASE LookForMarker \/ Start \/ StartFails \/ Stop
    BY <1>6, StartKeeps
  <1> QED
    BY <1>1, <1>2, <1>3, <1>4, <1>5, <1>6 DEF Next

-----------------------------------------------------------------------------
(* The theorems *)

\* The inductive invariant: the lock follows the places of the processes, at most one
\* restore owns the directory, and what is in it is what its owner put there
\* (cli.py backup, restore).
THEOREM InvariantHolds == Spec => []IInv
PROOF
  <1>1. Init => IInv
    BY InitHolds
  <1>2. IInv /\ [Next]_vars => IInv'
    BY NextHolds
  <1> QED
    BY <1>1, <1>2, PTL DEF Spec

\* A published backup holds the artifact of every module version in its database,
\* however many are created while it is taken (cli.py:134-136).
THEOREM BackupsComplete == Spec => []BackupComplete
PROOF
  <1>1. IInv => BackupComplete
    BY DEF IInv, RowsHaveFiles, BackupComplete
  <1> QED
    BY <1>1, InvariantHolds, PTL

\* A restore that returned left the whole backup and not one credential, for any number
\* of restores and starts in the same directory (cli.py:189-240).
THEOREM RestoresComplete == Spec => []RestoreComplete
PROOF
  <1>1. IInv => RestoreComplete
    BY DEF IInv, RowsHaveFiles, FromBackup, Owned, Owning, RestoreComplete
  <1> QED
    BY <1>1, InvariantHolds, PTL

\* The lock of a data directory has one holder, which a crash frees (cli.py:29-63).
THEOREM HolderAlone == Spec => []OneHolder
PROOF
  <1>1. IInv => OneHolder
    BY DEF IInv
  <1> QED
    BY <1>1, InvariantHolds, PTL

\* No restore and no start replaces a database that is there (cli.py:217-219).
THEOREM DatabaseStays == Spec => NothingOverwritten
PROOF
  <1>1. IInv /\ [Next]_vars =>
          [target.db # "none" => target'.db = target.db /\ target'.modules = target.modules]_vars
    <2> SUFFICES ASSUME IInv, Next, target.db # "none"
                 PROVE  target'.db = target.db /\ target'.modules = target.modules
      OBVIOUS
    <2>1. ASSUME NEW m \in Modules, WriteArtifact(m) \/ CreateModule(m) \/ BackupFile(m)
          PROVE  UNCHANGED target
      BY <2>1 DEF WriteArtifact, CreateModule, BackupFile
    <2>2. ASSUME NEW c \in Credentials, Issue(c) \/ Withdraw(c)
          PROVE  UNCHANGED target
      BY <2>2 DEF Issue, Withdraw
    <2>3. ASSUME SnapshotDatabase \/ StartWalk \/ PublishBackup \/ BackupFails
          PROVE  UNCHANGED target
      BY <2>3 DEF SnapshotDatabase, StartWalk, PublishBackup, BackupFails
    <2>4. ASSUME NEW p \in Restorers,
                 \/ Verify(p) \/ Lock(p) \/ RefuseDirectory(p) \/ CopyDatabase(p)
                 \/ CopyFails(p) \/ Invalidate(p) \/ Return(p) \/ Fail(p) \/ Kill(p)
                 \/ KillInCopy(p) \/ \E m \in Modules : RestoreFile(p, m)
          PROVE  target'.db = target.db /\ target'.modules = target.modules
      BY <2>4 DEF IInv, TypeOK, Verify, Lock, RefuseDirectory, CopyDatabase, CopyFails,
                  KillInCopy, CopyCutShort, DirectoryEmpty, Invalidate, Return, Fail, Kill, RestoreFile, Unlocked
    <2>5. ASSUME LookForMarker \/ Start \/ StartFails \/ Stop
          PROVE  target'.db = target.db /\ target'.modules = target.modules
      BY <2>5 DEF IInv, TypeOK, LookForMarker, Start, StartFails, Stop, Unlocked
    <2> QED
      BY <2>1, <2>2, <2>3, <2>4, <2>5 DEF Next
  <1> QED
    BY <1>1, InvariantHolds, PTL DEF Spec, NothingOverwritten

=============================================================================
