---------------------------- MODULE BackupRestore ----------------------------
(***************************************************************************)
(* A backup taken of a running service, and its restoration into a new data *)
(* directory, where two operators may try to restore and the service may be *)
(* started meanwhile (cli.py, and the lifespan of app.py).                  *)
(*                                                                          *)
(* Of a database only what the properties tell apart is kept: the module    *)
(* versions, each of which names an artifact file, and the credentials it   *)
(* accepts, of whatever kind: sessions, group tokens, approvals, capability *)
(* hashes and device keys.                                                  *)
(***************************************************************************)
EXTENDS FiniteSets

CONSTANTS
    Modules,        \* module versions; the artifact is named for its content
    Credentials,
    Restorers,      \* `proxmox-ais restore` processes for the one new directory
    Service, Free,  \* the other holder of the directory's lock, and none
    CopyMayFail,    \* the copy of the database may raise an error
    MayBeKilled     \* a restore may be killed

ASSUME HoldersAssumption == Service \notin Restorers /\ Free \notin Restorers \cup {Service}
ASSUME FaultsAssumption == CopyMayFail \in BOOLEAN /\ MayBeKilled \in BOOLEAN

VARIABLES
    live,       \* the running service's directory: artifact files and database
    copy,       \* the backup, and the files its walk has to find (due)
    target,     \* the new data directory
    pc          \* how far every restore, and the start of the service there, has come

vars == <<live, copy, target, pc>>

Processes == Restorers \cup {Service}

Empty == [db |-> "none", modules |-> {}, open |-> {}, files |-> {}, marker |-> FALSE,
          lock |-> Free]

Init ==
    /\ live = [files |-> {}, modules |-> {}, open |-> {}]
    /\ copy = [phase |-> "none", modules |-> {}, open |-> {}, due |-> {}, files |-> {}]
    /\ target = Empty
    /\ pc = [p \in Processes |-> "idle"]

-----------------------------------------------------------------------------
(* The running service *)

\* atomic_artifact: the file appears under its name complete, before the row that names it.
WriteArtifact(m) ==
    /\ m \notin live.files
    /\ live' = [live EXCEPT !.files = @ \cup {m}]
    /\ UNCHANGED <<copy, target, pc>>

CreateModule(m) ==
    /\ m \in live.files \ live.modules
    /\ live' = [live EXCEPT !.modules = @ \cup {m}]
    /\ UNCHANGED <<copy, target, pc>>

\* A login, an approval, an answer, an enrollment; the end of one.
Issue(c) ==
    /\ c \notin live.open
    /\ live' = [live EXCEPT !.open = @ \cup {c}]
    /\ UNCHANGED <<copy, target, pc>>

Withdraw(c) ==
    /\ c \in live.open
    /\ live' = [live EXCEPT !.open = @ \ {c}]
    /\ UNCHANGED <<copy, target, pc>>

-----------------------------------------------------------------------------
(* backup *)

\* The SQLite backup API reads one state of the database.
SnapshotDatabase ==
    /\ copy.phase = "none"
    /\ copy' = [copy EXCEPT !.phase = "database", !.modules = live.modules, !.open = live.open]
    /\ UNCHANGED <<live, target, pc>>

\* The walk finds every file that is there when it starts; of later ones it may find some.
StartWalk ==
    /\ copy.phase = "database"
    /\ copy' = [copy EXCEPT !.phase = "artifacts", !.due = live.files]
    /\ UNCHANGED <<live, target, pc>>

BackupFile(m) ==
    /\ copy.phase = "artifacts" /\ m \in live.files \ copy.files
    /\ copy' = [copy EXCEPT !.files = @ \cup {m}]
    /\ UNCHANGED <<live, target, pc>>

\* Mutant: the directory is renamed when the first files are copied.
WalkDone_First == copy.due = {} \/ copy.files # {}

WalkDone == copy.due \subseteq copy.files

\* manifest.json, and the rename that makes it a backup.
PublishBackup ==
    /\ copy.phase = "artifacts" /\ WalkDone
    /\ copy' = [copy EXCEPT !.phase = "published"]
    /\ UNCHANGED <<live, target, pc>>

\* An error, also that of a temporary artifact renamed between walk and copy, or a
\* killed process: nothing is published.
BackupFails ==
    /\ copy.phase \in {"database", "artifacts"}
    /\ copy' = [copy EXCEPT !.phase = "none", !.modules = {}, !.open = {}, !.due = {},
                            !.files = {}]
    /\ UNCHANGED <<live, target, pc>>

-----------------------------------------------------------------------------
(* restore *)

Goes(p, place) == pc' = [pc EXCEPT ![p] = place]
Unlocked == [target EXCEPT !.lock = Free]

\* Checksums, format and master key of the backup are checked before the lock is taken.
Verify(p) ==
    /\ pc[p] = "idle" /\ copy.phase = "published"
    /\ Goes(p, "verified")
    /\ UNCHANGED <<live, copy, target>>

Lock(p) ==
    /\ pc[p] = "verified"
    /\ IF target.lock = Free
       THEN target' = [target EXCEPT !.lock = p] /\ Goes(p, "locked")
       ELSE UNCHANGED target /\ Goes(p, "refused")
    /\ UNCHANGED <<live, copy>>

\* Mutant: whether the directory is empty is not asked under the lock.
DirectoryEmpty_Unasked == target.lock # Free

DirectoryEmpty == target.db = "none" /\ target.files = {} /\ ~target.marker

RefuseDirectory(p) ==
    /\ pc[p] = "locked" /\ ~DirectoryEmpty
    /\ target' = Unlocked
    /\ Goes(p, "refused")
    /\ UNCHANGED <<live, copy>>

WithDatabase(db) ==
    [target EXCEPT !.db = db, !.modules = copy.modules, !.open = copy.open]

CopyDatabase(p) ==
    /\ pc[p] = "locked" /\ DirectoryEmpty
    /\ target' = WithDatabase("whole")
    /\ Goes(p, "copied")
    /\ UNCHANGED <<live, copy>>

\* copy2 copies the content and then the metadata; it stands before the try block, so that
\* an error leaves no marker, any more than a kill does.
CopyCutShort(p) ==
    /\ pc[p] = "locked" /\ DirectoryEmpty
    /\ \E db \in {"partial", "whole"} : target' = [WithDatabase(db) EXCEPT !.lock = Free]
    /\ UNCHANGED <<live, copy>>

CopyFails(p) == CopyMayFail /\ CopyCutShort(p) /\ Goes(p, "failed")

KillInCopy(p) == MayBeKilled /\ CopyCutShort(p) /\ Goes(p, "killed")

\* Mutant: what was revoked after the backup is closed, the rest is believed.
Invalidated_Since(open) == open \cap live.open

\* _invalidate_restored_state, one transaction: every table that lets anyone in.
Invalidated(open) == open \ Credentials

Invalidate(p) ==
    /\ pc[p] = "copied"
    /\ target' = [target EXCEPT !.open = Invalidated(@)]
    /\ Goes(p, "invalidated")
    /\ UNCHANGED <<live, copy>>

RestoreFile(p, m) ==
    /\ pc[p] = "invalidated" /\ m \in copy.files \ target.files
    /\ target' = [target EXCEPT !.files = @ \cup {m}]
    /\ UNCHANGED <<live, copy, pc>>

Return(p) ==
    /\ pc[p] = "invalidated" /\ copy.files \subseteq target.files
    /\ target' = Unlocked
    /\ Goes(p, "returned")
    /\ UNCHANGED <<live, copy>>

\* An error after the copy leaves the marker.
Fail(p) ==
    /\ pc[p] \in {"copied", "invalidated"}
    /\ target' = [Unlocked EXCEPT !.marker = TRUE]
    /\ Goes(p, "failed")
    /\ UNCHANGED <<live, copy>>

\* Between two steps, the copy of an artifact included: a partial file counts as none.  The
\* operating system releases the lock.
Kill(p) ==
    /\ MayBeKilled
    /\ pc[p] \in {"locked", "copied", "invalidated"}
    /\ target' = Unlocked
    /\ Goes(p, "killed")
    /\ UNCHANGED <<live, copy>>

-----------------------------------------------------------------------------
(* serve, in the new directory *)

\* serve and lifespan look for the marker before the lock is asked for.
LookForMarker ==
    /\ pc[Service] = "idle" /\ ~target.marker
    /\ Goes(Service, "looked")
    /\ UNCHANGED <<live, copy, target>>

\* In an empty directory db.initialize creates a database.
Start ==
    /\ pc[Service] = "looked" /\ target.lock = Free
    /\ target' = [target EXCEPT !.lock = Service, !.db = IF @ = "none" THEN "whole" ELSE @]
    /\ Goes(Service, "up")
    /\ UNCHANGED <<live, copy>>

\* The lock is taken, or SQLite cannot read what is there.
StartFails ==
    /\ pc[Service] = "looked" /\ (target.lock # Free \/ target.db = "partial")
    /\ Goes(Service, "idle")
    /\ UNCHANGED <<live, copy, target>>

Stop ==
    /\ pc[Service] = "up"
    /\ target' = Unlocked
    /\ Goes(Service, "idle")
    /\ UNCHANGED <<live, copy>>

Next ==
    \/ \E m \in Modules : WriteArtifact(m) \/ CreateModule(m) \/ BackupFile(m)
    \/ \E c \in Credentials : Issue(c) \/ Withdraw(c)
    \/ SnapshotDatabase \/ StartWalk \/ PublishBackup \/ BackupFails
    \/ \E p \in Restorers :
          \/ Verify(p) \/ Lock(p) \/ RefuseDirectory(p) \/ CopyDatabase(p) \/ CopyFails(p)
          \/ Invalidate(p) \/ Return(p) \/ Fail(p) \/ Kill(p) \/ KillInCopy(p)
          \/ \E m \in Modules : RestoreFile(p, m)
    \/ LookForMarker \/ Start \/ StartFails \/ Stop

Spec == Init /\ [][Next]_vars

-----------------------------------------------------------------------------
(* Properties *)

\* The shapes of directories and processes (cli.py backup, restore, serve).
TypeOK ==
    /\ live \in [files: SUBSET Modules, modules: SUBSET Modules, open: SUBSET Credentials]
    /\ copy \in [phase: {"none", "database", "artifacts", "published"},
                 modules: SUBSET Modules, open: SUBSET Credentials,
                 due: SUBSET Modules, files: SUBSET Modules]
    /\ target \in [db: {"none", "partial", "whole"}, modules: SUBSET Modules,
                   open: SUBSET Credentials, files: SUBSET Modules, marker: BOOLEAN,
                   lock: Processes \cup {Free}]
    /\ pc \in [Processes -> {"idle", "verified", "locked", "copied", "invalidated",
                             "returned", "refused", "failed", "killed", "looked", "up"}]

\* A backup taken while the service goes on is complete: the artifact of every module
\* version in its database is in it (cli.py:134-136).
BackupComplete ==
    copy.phase = "published" => copy.modules \subseteq copy.files

\* Where restore returned, the directory holds the backup's database and every artifact
\* it names, and accepts no credential of before, whatever other restores and starts
\* were tried there meanwhile (docs/operations.md, Restore step 5).
RestoreComplete ==
    \A p \in Restorers : pc[p] = "returned" =>
        /\ target.db = "whole" /\ target.modules = copy.modules
        /\ target.modules \subseteq target.files
        /\ target.open = {} /\ ~target.marker

\* No restore replaces a database, whether the service made it or another restore, and
\* where that one stopped (docs/operations.md:180).
NothingOverwritten ==
    [][target.db # "none" => target'.db = target.db /\ target'.modules = target.modules]_vars

\* One process at a time works in the directory, a killed one leaves no lock behind.
OneHolder ==
    \A p \in Processes :
        pc[p] \in {"locked", "copied", "invalidated", "up"} <=> target.lock = p

\* "Ein fehlgeschlagener Restore hinterlässt RESTORE_FAILED" (docs/operations.md:181).
FailureIsMarked ==
    \A p \in Restorers : pc[p] = "failed" => target.marker

\* "Prevent rollback of the database from resurrecting machine credentials." (cli.py:172)
NothingRevived == pc[Service] = "up" /\ ~target.marker => target.open = {}

\* "Leave failed restoration for inspection; never start it silently." (cli.py:236)
NeverStartedSilently ==
    pc[Service] = "up" => ~ \E p \in Restorers : pc[p] = "failed"
=============================================================================
