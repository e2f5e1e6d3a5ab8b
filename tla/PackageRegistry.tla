---------------------------- MODULE PackageRegistry ----------------------------
(***************************************************************************)
(* PackageRegistry and the folders LocalPackageManager keeps for it.       *)
(* Packages are fetched from peers, created from a folder, saved and       *)
(* deleted by concurrent tasks; discovered packages are noted; the process *)
(* crashes at any step, and a restart loads what it can read.              *)
(*                                                                         *)
(* Only one package object is at work at a time (PackageLocks has its      *)
(* tokens and the callers' races for the mark), a creation writes to a     *)
(* folder of its own that no restart looks at, and a file that was not     *)
(* written to its end cannot be read: it counts as missing.                *)
(***************************************************************************)
EXTENDS Naturals, FiniteSets

CONSTANTS
    Packages,
    Tasks,          \* background tasks and requests
    MaxCrashes,     \* bound
    Null

ASSUME RegistryAssumption == MaxCrashes \in Nat /\ Null \notin Packages \union Tasks

VARIABLES
    folders,        \* packages with a directory in the repository
    files,          \* files[p]: the whole files in it
    localPackages,  \* ids of the registry
    discovered,     \* discoveredPackages
    marked,         \* local packages marked for deletion
    packagesLock,   \* its owner, or Null
    pc,             \* pc[t]: what task t does next
    package,        \* package[t]: on which package
    spoiled,        \* spoiled[p]: the places where an operation on p ended half way, by
                    \* a crash or a throw, and nothing has repaired it since
    crashes

diskVars     == <<folders, files>>
registryVars == <<localPackages, discovered, marked>>
vars == <<diskVars, registryVars, packagesLock, pc, package, spoiled, crashes>>

Metadata == {"hashes", "status", "meta"}
Files    == Metadata \union {"data"}

Init ==
    /\ folders = {} /\ files = [p \in Packages |-> {}]
    /\ localPackages = {} /\ discovered = {} /\ marked = {}
    /\ packagesLock = Null
    /\ pc = [t \in Tasks |-> "idle"]
    /\ package = [t \in Tasks |-> Null]
    /\ spoiled = [p \in Packages |-> {}] /\ crashes = 0

Goto(t, place) == pc' = [pc EXCEPT ![t] = place] /\ UNCHANGED package

Begin(t, p, place) ==
    /\ pc[t] = "idle"
    /\ pc' = [pc EXCEPT ![t] = place]
    /\ package' = [package EXCEPT ![t] = p]

End(t) ==
    /\ pc' = [pc EXCEPT ![t] = "idle"]
    /\ package' = [package EXCEPT ![t] = Null]

\* The tasks that are at one of these places with p.
At(p, places) == {t \in Tasks : package[t] = p /\ pc[t] \in places}

Free == packagesLock = Null

Write(p, f) == files' = [files EXCEPT ![p] = @ \union {f}]
Truncate(p, f) == files' = [files EXCEPT ![p] = @ \ {f}]

Spoil(p, place) == spoiled' = [spoiled EXCEPT ![p] = @ \union {place}]

\* UpdateLists with a local package to add.
AddToLocal(p) ==
    /\ localPackages' = localPackages \union {p}
    /\ discovered' = discovered \ localPackages'

-----------------------------------------------------------------------------
(* SaveRemotePackage, under packagesLock from beginning to end. *)

\* A package that is not local is fetched, by one task only.
Fetch(t, p) ==
    /\ Free
    /\ p \notin localPackages
    /\ At(p, {"fetch", "create", "allocate", "register"} \union Metadata) = {}
    /\ Begin(t, p, "fetch")
    /\ UNCHANGED <<diskVars, registryVars, packagesLock, spoiled, crashes>>

\* RegisterPackage: "Package already exists in local repository."
LookForDirectory(t) ==
    /\ pc[t] = "fetch"
    /\ Free
    /\ IF package[t] \in folders
       THEN End(t) /\ UNCHANGED packagesLock
       ELSE packagesLock' = t /\ Goto(t, "create")
    /\ UNCHANGED <<diskVars, registryVars, spoiled, crashes>>

\* Directory.CreateDirectory succeeds with a folder that is there by now: a
\* creation moves its own without the lock.
CreateDirectory(t) ==
    /\ pc[t] = "create"
    /\ folders' = folders \union {package[t]}
    /\ Goto(t, "status")
    /\ UNCHANGED <<files, registryVars, packagesLock, spoiled, crashes>>

\* The status, the hashes and the metadata are written in this order; a file that
\* is there is truncated first.
Following == [status |-> "hashes", hashes |-> "meta", meta |-> "allocate"]

Store(t) ==
    LET p == package[t]
    IN  /\ pc[t] \in Metadata
        /\ IF pc[t] \in files[p]
           THEN Truncate(p, pc[t]) /\ UNCHANGED <<pc, package>>
           ELSE Write(p, pc[t]) /\ Goto(t, Following[pc[t]])
        /\ UNCHANGED <<folders, registryVars, packagesLock, spoiled, crashes>>

\* The data files are created at their full length; with one that is there
\* Allocate throws.
Allocate(t) ==
    /\ pc[t] = "allocate"
    /\ "data" \notin files[package[t]]
    /\ Write(package[t], "data")
    /\ Goto(t, "register")
    /\ UNCHANGED <<folders, registryVars, packagesLock, spoiled, crashes>>

\* A file cannot be written, or the allocation throws: the folder stays as it is.
StoreFails(t) ==
    /\ pc[t] \in Metadata \union {"allocate"}
    /\ Spoil(package[t], pc[t])
    /\ packagesLock' = Null
    /\ End(t)
    /\ UNCHANGED <<diskVars, registryVars, crashes>>

\* RegisterPackageInternal: "Registering package with existing hash." leaves
\* the folder of a package whose deletion has not reached the lists.
RegisterFetched(t) ==
    LET p == package[t]
    IN  /\ pc[t] = "register"
        /\ IF p \in localPackages
           THEN Spoil(p, pc[t]) /\ UNCHANGED <<localPackages, discovered>>
           ELSE AddToLocal(p) /\ UNCHANGED spoiled
        /\ packagesLock' = Null
        /\ End(t)
        /\ UNCHANGED <<diskVars, marked, crashes>>

-----------------------------------------------------------------------------
(* CreatePackageFromFolder. *)

\* The package is written to a build folder; what it turns out to be may be
\* there already.
Build(t, p) ==
    /\ Begin(t, p, "built")
    /\ UNCHANGED <<diskVars, registryVars, packagesLock, spoiled, crashes>>

\* Mutant: an existing folder is replaced.
MoveReplaces(t) ==
    LET p == package[t]
    IN  /\ pc[t] = "built"
        /\ folders' = folders \union {p}
        /\ files' = [files EXCEPT ![p] = Files]
        /\ Goto(t, "created")
        /\ UNCHANGED <<registryVars, packagesLock, spoiled, crashes>>

\* The build folder becomes the package's, unless there is one ("Folder for
\* package already exists."); nothing is locked.
Move(t) ==
    LET p == package[t]
    IN  /\ pc[t] = "built"
        /\ IF p \in folders
           THEN End(t) /\ UNCHANGED diskVars
           ELSE /\ folders' = folders \union {p}
                /\ files' = [files EXCEPT ![p] = Files]
                /\ Goto(t, "created")
        /\ UNCHANGED <<registryVars, packagesLock, spoiled, crashes>>

\* RegisterPackageInternal, and LocalPackageCreated.
RegisterCreated(t) ==
    LET p == package[t]
    IN  /\ pc[t] = "created"
        /\ Free
        /\ IF p \in localPackages
           THEN Spoil(p, pc[t]) /\ UNCHANGED <<localPackages, discovered>>
           ELSE AddToLocal(p) /\ UNCHANGED spoiled
        /\ End(t)
        /\ UNCHANGED <<diskVars, marked, packagesLock, crashes>>

-----------------------------------------------------------------------------
(* UpdateDownloadStatus. *)

\* TryLock keeps a deletion away ...
LockToSave(t, p) ==
    /\ p \in localPackages \ marked
    /\ Begin(t, p, "save")
    /\ UNCHANGED <<diskVars, registryVars, packagesLock, spoiled, crashes>>

\* ... while the file is truncated ...
BeginSave(t) ==
    /\ pc[t] = "save"
    /\ Free
    /\ packagesLock' = t
    /\ Truncate(package[t], "status")
    /\ Goto(t, "saving")
    /\ UNCHANGED <<folders, registryVars, spoiled, crashes>>

\* ... and written, which repairs a status that an earlier write had left half done.
EndSave(t) ==
    /\ pc[t] = "saving"
    /\ \/ /\ Write(package[t], "status")
          /\ spoiled' = [spoiled EXCEPT ![package[t]] = @ \ {"saving", "status"}]
       \/ Spoil(package[t], pc[t]) /\ UNCHANGED files
    /\ packagesLock' = Null
    /\ End(t)
    /\ UNCHANGED <<folders, registryVars, crashes>>

-----------------------------------------------------------------------------
(* DeletePackageAsync. *)

\* Mutant: the package leaves the lists before its folder is deleted.
MarkAndRemove(t, p) ==
    /\ Free
    /\ p \in localPackages \ marked
    /\ localPackages' = localPackages \ {p}
    /\ Begin(t, p, "delete")
    /\ UNCHANGED <<diskVars, marked, discovered, packagesLock, spoiled, crashes>>

MarkForDelete(t, p) ==
    /\ Free
    /\ p \in localPackages \ marked
    /\ marked' = marked \union {p}
    /\ Begin(t, p, "delete")
    /\ UNCHANGED <<diskVars, localPackages, discovered, packagesLock, spoiled, crashes>>

\* With no user left, the folder is deleted file by file; an error ends the
\* deletion where it is.
DeleteFolder(t) ==
    LET p == package[t]
    IN  /\ pc[t] = "delete"
        /\ At(p, {"save", "saving"}) = {}
        /\ \/ /\ files[p] # {}
              /\ \E f \in files[p] : Truncate(p, f)
              /\ UNCHANGED <<folders, pc, package, spoiled>>
           \/ /\ files[p] = {}
              /\ folders' = folders \ {p}
              /\ spoiled' = [spoiled EXCEPT ![p] = {}]
              /\ Goto(t, "update")
              /\ UNCHANGED files
           \/ /\ Spoil(p, pc[t])
              /\ End(t)
              /\ UNCHANGED diskVars
        /\ UNCHANGED <<registryVars, packagesLock, crashes>>

\* UpdateLists, and LocalPackageDeleted.
RemoveFromLocal(t) ==
    LET p == package[t]
    IN  /\ pc[t] = "update"
        /\ Free
        /\ localPackages' = localPackages \ {p}
        /\ marked' = marked \ {p}
        /\ End(t)
        /\ UNCHANGED <<diskVars, discovered, packagesLock, spoiled, crashes>>

-----------------------------------------------------------------------------

\* RegisterDiscoveredPackages, all of it under the lock.
RegisterDiscovered(p) ==
    /\ Free
    /\ p \notin localPackages
    /\ discovered' = discovered \union {p}
    /\ UNCHANGED <<diskVars, localPackages, marked, packagesLock, pc, package,
                   spoiled, crashes>>

\* Where a crash finds the folder of the task's package half done.
HalfDone == Metadata \union {"allocate", "saving", "delete"}

Readable(p) == Metadata \subseteq files[p]

\* Mutant: the constructor does not go on after a folder it cannot read.
RestartStopsAtFirst ==
    /\ crashes < MaxCrashes
    /\ crashes' = crashes + 1
    /\ localPackages' = IF \A p \in folders : Readable(p) THEN folders ELSE {}
    /\ discovered' = {} /\ marked' = {}
    /\ packagesLock' = Null
    /\ pc' = [t \in Tasks |-> "idle"]
    /\ package' = [t \in Tasks |-> Null]
    /\ spoiled' = [p \in Packages |-> spoiled[p] \union {pc[t] : t \in At(p, HalfDone)}]
    /\ UNCHANGED diskVars

\* The process crashes and starts again: ListPackages, and every package whose
\* files can be read is loaded; data files are not looked at.
Restart ==
    /\ crashes < MaxCrashes
    /\ crashes' = crashes + 1
    /\ localPackages' = {p \in folders : Readable(p)}
    /\ discovered' = {} /\ marked' = {}
    /\ packagesLock' = Null
    /\ pc' = [t \in Tasks |-> "idle"]
    /\ package' = [t \in Tasks |-> Null]
    /\ spoiled' = [p \in Packages |-> spoiled[p] \union {pc[t] : t \in At(p, HalfDone)}]
    /\ UNCHANGED diskVars

FetchStep(t) ==
    \/ \E p \in Packages : Fetch(t, p)
    \/ LookForDirectory(t) \/ CreateDirectory(t) \/ Store(t) \/ Allocate(t)
    \/ StoreFails(t) \/ RegisterFetched(t)

CreateStep(t) == (\E p \in Packages : Build(t, p)) \/ Move(t) \/ RegisterCreated(t)

SaveStep(t) == (\E p \in Packages : LockToSave(t, p)) \/ BeginSave(t) \/ EndSave(t)

DeleteStep(t) ==
    (\E p \in Packages : MarkForDelete(t, p)) \/ DeleteFolder(t) \/ RemoveFromLocal(t)

Next ==
    \/ \E t \in Tasks : FetchStep(t) \/ CreateStep(t) \/ SaveStep(t) \/ DeleteStep(t)
    \/ \E p \in Packages : RegisterDiscovered(p)
    \/ Restart

Spec == Init /\ [][Next]_vars

-----------------------------------------------------------------------------
(* Correctness. *)

\* What the registry offers is there.  No package is local and discovered, and a
\* local package that is not being deleted has its folder and all its files, but
\* for what has an operation to blame.  Hashes and metadata are missing only after
\* a fetch failed to write them (over the files of a creation that moved its folder
\* in meanwhile), the status only then, during a save, or after a save that was cut
\* off, and the data only after an allocation or a deletion was.
RegistryMatchesDisk ==
    /\ discovered \intersect localPackages = {}
    /\ \A p \in localPackages \ marked :
         /\ p \in folders
         /\ {"hashes", "meta"} \subseteq files[p] \union spoiled[p]
         /\ \/ "status" \in files[p]
            \/ At(p, {"saving"}) # {}
            \/ {"status", "saving"} \intersect spoiled[p] # {}
         /\ "data" \in files[p] \/ {"allocate", "delete"} \intersect spoiled[p] # {}

\* A folder the registry does not know blocks every later fetch and creation of
\* its package: there is one only while a task is at work on it, or where an
\* operation ended half way.
StrayFolderForAReason ==
    \A p \in folders \ localPackages :
        \/ spoiled[p] # {}
        \/ At(p, Metadata \union {"allocate", "register", "created"}) # {}

\* A restart neither loses nor invents a package.  One is lost only if its folder
\* has been deleted already, or if a save, a deletion or a fetch over its files was
\* cut off.  One is found only if a fetch or a creation had come as far as its
\* folder, or had left it behind.
RestartKeepsPackages ==
    [][crashes' # crashes =>
         \A p \in Packages :
            /\ p \in localPackages \ localPackages' =>
                 \/ At(p, {"update"}) # {}
                 \/ (Metadata \union {"saving", "delete"}) \intersect spoiled'[p] # {}
            /\ p \in localPackages' \ localPackages =>
                 \/ At(p, {"created", "register"}) # {}
                 \/ {"allocate", "register", "created"} \intersect spoiled'[p] # {}]_vars
=============================================================================
