------------------------ MODULE PackageRegistryProofs ------------------------
(***************************************************************************)
(* Proofs about PackageRegistry for any packages, any tasks at work on     *)
(* them, and any number of crashes: lists and folders agree, folders that  *)
(* are in the way are explained, and a restart loads what was there.       *)
(***************************************************************************)
EXTENDS PackageRegistry, TLAPS

-----------------------------------------------------------------------------
(* The inductive invariant. *)

Places == {"idle", "fetch", "create", "allocate", "register", "built", "created",
           "save", "saving", "delete", "update"} \union Metadata

\* What a task does to a folder: fetch into it, fill it, save its status, delete it.
Fetching == Metadata \union {"create", "allocate", "register"}
Filling  == Metadata \union {"allocate", "register", "created"}
Saving   == {"save", "saving"}
Deleting == {"delete", "update"}

\* What a fetch has not written when it is at one of the files.
Unwritten == [create |-> Metadata, status |-> Metadata, hashes |-> {"hashes", "meta"},
              meta |-> {"meta"}]

\* A task is at one of these places with p.
Some(p, places) == \E t \in Tasks : package[t] = p /\ pc[t] \in places

\* An operation on p ended at one of these places.
Blamed(p, places) == \E place \in places : place \in spoiled[p]

TypeInv ==
    /\ folders \subseteq Packages
    /\ files \in [Packages -> SUBSET Files]
    /\ localPackages \subseteq Packages
    /\ discovered \subseteq Packages
    /\ spoiled \in [Packages -> SUBSET Places]
    /\ crashes \in Nat
    /\ pc \in [Tasks -> Places]
    /\ package \in [Tasks -> Packages \union {Null}]
    /\ \A t \in Tasks : pc[t] # "idle" => package[t] \in Packages

\* Those places are inside packagesLock.
LockInv == \A t \in Tasks : pc[t] \in Fetching \union {"saving"} <=> packagesLock = t

\* Tasks do not get into each other's folders, but for a fetch that writes over
\* what a creation has moved in: that one finds the data there, and throws.
PairInv ==
    \A t, u \in Tasks : package[t] = package[u] =>
        /\ pc[t] = "created" /\ pc[u] = "created" => t = u
        /\ ~(pc[t] = "created" /\ pc[u] = "register")
        /\ pc[t] \in Deleting /\ pc[u] \in Deleting => t = u
        /\ ~(pc[t] \in Saving /\ pc[u] = "update")

\* What a task relies on at its place.
WorkInv ==
    \A t \in Tasks :
        LET p == package[t]
        IN  /\ pc[t] \in Filling => p \in folders
            /\ pc[t] \in Fetching \union Filling /\ p \in localPackages => Some(p, {"update"})
            /\ pc[t] = "create" => p \notin folders \/ Some(p, {"created"})
            /\ pc[t] \in Metadata =>
                 Unwritten[pc[t]] \intersect files[p] = {} \/ Some(p, {"created"})
            /\ pc[t] \in Metadata => Metadata \ Unwritten[pc[t]] \subseteq files[p]
            /\ pc[t] \in {"allocate", "register"} => Metadata \subseteq files[p]
            /\ pc[t] = "created" =>
                 \A f \in Metadata : f \in files[p] \/ Blamed(p, {f}) \/ Some(p, {f})
            /\ pc[t] \in {"register", "created"} => "data" \in files[p]
            /\ pc[t] \in Saving => p \in localPackages
            /\ pc[t] \in Deleting => p \in marked

\* Folders and lists agree, but where a task is at work or has failed.
FolderInv ==
    /\ marked \subseteq localPackages
    /\ \A p \in marked : Blamed(p, {"delete"}) \/ Some(p, Deleting)
    /\ \A p \in localPackages \ folders : Some(p, {"update"})
    /\ \A p \in folders : p \notin localPackages \/ Some(p, {"update"}) =>
         /\ spoiled[p] # {} \/ Some(p, Filling)
         /\ Readable(p) =>
              \/ Some(p, Filling)
              \/ Blamed(p, {"allocate", "register", "created"})
    /\ \A p \in Packages \ folders : files[p] = {}

\* Data files are missing from a folder only while it is filled or deleted, or
\* after that was cut off.
DataInv ==
    /\ \A p \in localPackages :
         "data" \in files[p] \/ Blamed(p, {"allocate", "delete"}) \/ Some(p, Deleting)
    /\ \A p \in folders : Readable(p) =>
         \/ "data" \in files[p]
         \/ Blamed(p, {"allocate", "delete"})
         \/ Some(p, Metadata \union {"allocate", "delete"})

\* What RegistryMatchesDisk says.
ContentInv ==
    /\ discovered \intersect localPackages = {}
    /\ \A p \in localPackages \ marked :
         /\ p \in folders
         /\ \A f \in {"hashes", "meta"} : f \in files[p] \/ Blamed(p, {f})
         /\ "status" \in files[p] \/ Some(p, {"saving"}) \/ Blamed(p, {"status", "saving"})

RegistryInv ==
    TypeInv /\ LockInv /\ PairInv /\ WorkInv /\ FolderInv /\ DataInv /\ ContentInv

-----------------------------------------------------------------------------
(* Every step keeps it. *)

\* A fetch fills a folder that was not there when it looked, under packagesLock.
LEMMA FetchStepKeeps ==
    ASSUME RegistryInv, NEW t \in Tasks, FetchStep(t)
    PROVE  RegistryInv'
<1>1. ASSUME NEW p \in Packages, Fetch(t, p)
      PROVE  RegistryInv'
    <2>1. TypeInv'
        BY <1>1 DEF RegistryInv, TypeInv, Fetch, Begin, diskVars, registryVars,
           Places, Metadata, Files
    <2>2. LockInv'
        BY <1>1, RegistryAssumption DEF RegistryInv, TypeInv, LockInv, Fetch, Begin,
           diskVars, registryVars, Fetching, Metadata
    <2>3. PairInv'
        BY <1>1 DEF RegistryInv, TypeInv, LockInv, PairInv, WorkInv, FolderInv, Fetch,
           Begin, diskVars, registryVars, Fetching, Filling, Saving, Deleting,
           Metadata, Some
    <2>4. WorkInv'
        BY <1>1 DEF RegistryInv, TypeInv, LockInv, PairInv, WorkInv, FolderInv, Fetch,
           Begin, diskVars, registryVars, Fetching, Filling, Saving, Deleting,
           Unwritten, Metadata, Files, Some, Blamed
    <2>5. FolderInv'
        BY <1>1 DEF RegistryInv, TypeInv, LockInv, PairInv, WorkInv, FolderInv, Fetch,
           Begin, diskVars, registryVars, Fetching, Filling, Deleting, Saving,
           Unwritten, Readable, Metadata, Files, Some, Blamed
    <2>6. DataInv'
        BY <1>1 DEF RegistryInv, TypeInv, LockInv, PairInv, WorkInv, FolderInv,
           DataInv, Fetch, Begin, diskVars, registryVars, Deleting, Filling, Saving,
           Fetching, Unwritten, Readable, Metadata, Files, Some, Blamed
    <2>7. ContentInv'
        BY <1>1 DEF RegistryInv, TypeInv, LockInv, PairInv, WorkInv, FolderInv,
           ContentInv, Fetch, Begin, diskVars, registryVars, Fetching, Filling,
           Deleting, Saving, Metadata, Files, Some, Blamed
    <2>8. QED
        BY <2>1, <2>2, <2>3, <2>4, <2>5, <2>6, <2>7 DEF RegistryInv
<1>2. CASE LookForDirectory(t)
    <2>1. TypeInv'
        BY <1>2 DEF RegistryInv, TypeInv, LookForDirectory, End, Goto, Free, diskVars,
           registryVars, Places, Metadata, Files
    <2>2. LockInv'
        BY <1>2, RegistryAssumption DEF RegistryInv, TypeInv, LockInv,
           LookForDirectory, End, Goto, Free, diskVars, registryVars, Fetching,
           Metadata
    <2>3. PairInv'
        BY <1>2 DEF RegistryInv, TypeInv, LockInv, PairInv, WorkInv, FolderInv,
           LookForDirectory, End, Goto, Free, diskVars, registryVars, Fetching,
           Filling, Saving, Deleting, Metadata, Some
    <2>4. WorkInv'
        BY <1>2 DEF RegistryInv, TypeInv, LockInv, PairInv, WorkInv, FolderInv,
           LookForDirectory, End, Goto, Free, diskVars, registryVars, Fetching,
           Filling, Saving, Deleting, Unwritten, Metadata, Files, Some, Blamed
    <2>5. FolderInv'
        BY <1>2 DEF RegistryInv, TypeInv, LockInv, PairInv, WorkInv, FolderInv,
           LookForDirectory, End, Goto, Free, diskVars, registryVars, Fetching,
           Filling, Deleting, Saving, Unwritten, Readable, Metadata, Files, Some,
           Blamed
    <2>6. DataInv'
        BY <1>2 DEF RegistryInv, TypeInv, LockInv, PairInv, WorkInv, FolderInv,
           DataInv, LookForDirectory, End, Goto, Free, diskVars, registryVars,
           Deleting, Filling, Saving, Fetching, Unwritten, Readable, Metadata, Files,
           Some, Blamed
    <2>7. ContentInv'
        BY <1>2 DEF RegistryInv, TypeInv, LockInv, PairInv, WorkInv, FolderInv,
           ContentInv, LookForDirectory, End, Goto, Free, diskVars, registryVars,
           Fetching, Filling, Deleting, Saving, Metadata, Files, Some, Blamed
    <2>8. QED
        BY <2>1, <2>2, <2>3, <2>4, <2>5, <2>6, <2>7 DEF RegistryInv
<1>3. CASE CreateDirectory(t)
    <2>1. TypeInv'
        BY <1>3 DEF RegistryInv, TypeInv, CreateDirectory, Goto, registryVars, Places,
           Metadata, Files
    <2>2. LockInv'
        BY <1>3, RegistryAssumption DEF RegistryInv, TypeInv, LockInv,
           CreateDirectory, Goto, registryVars, Fetching, Metadata
    <2>3. PairInv'
        BY <1>3 DEF RegistryInv, TypeInv, LockInv, PairInv, WorkInv, FolderInv,
           CreateDirectory, Goto, registryVars, Fetching, Filling, Saving, Deleting,
           Metadata, Some
    <2>4. WorkInv'
        BY <1>3 DEF RegistryInv, TypeInv, LockInv, PairInv, WorkInv, FolderInv,
           CreateDirectory, Goto, registryVars, Fetching, Filling, Saving, Deleting,
           Unwritten, Metadata, Files, Some, Blamed
    <2>5. FolderInv'
        BY <1>3 DEF RegistryInv, TypeInv, LockInv, PairInv, WorkInv, FolderInv,
           CreateDirectory, Goto, registryVars, Fetching, Filling, Deleting, Saving,
           Unwritten, Readable, Metadata, Files, Some, Blamed
    <2>6. DataInv'
        BY <1>3 DEF RegistryInv, TypeInv, LockInv, PairInv, WorkInv, FolderInv,
           DataInv, CreateDirectory, Goto, registryVars, Deleting, Filling, Saving,
           Fetching, Unwritten, Readable, Metadata, Files, Some, Blamed
    <2>7. ContentInv'
        BY <1>3 DEF RegistryInv, TypeInv, LockInv, PairInv, WorkInv, FolderInv,
           ContentInv, CreateDirectory, Goto, registryVars, Fetching, Filling,
           Deleting, Saving, Metadata, Files, Some, Blamed
    <2>8. QED
        BY <2>1, <2>2, <2>3, <2>4, <2>5, <2>6, <2>7 DEF RegistryInv
<1>4. CASE Store(t)
    <2>1. TypeInv'
        BY <1>4 DEF RegistryInv, TypeInv, Store, Goto, Write, Truncate, Following,
           registryVars, Places, Metadata, Files
    <2>2. LockInv'
        BY <1>4, RegistryAssumption DEF RegistryInv, TypeInv, LockInv, Store, Goto,
           Write, Truncate, Following, registryVars, Fetching, Metadata
    <2>3. PairInv'
        BY <1>4 DEF RegistryInv, TypeInv, LockInv, PairInv, WorkInv, FolderInv, Store,
           Goto, Write, Truncate, Following, registryVars, Fetching, Filling, Saving,
           Deleting, Metadata, Some
    <2>4. WorkInv'
        BY <1>4 DEF RegistryInv, TypeInv, LockInv, PairInv, WorkInv, FolderInv, Store,
           Goto, Write, Truncate, Following, registryVars, Fetching, Filling, Saving,
           Deleting, Unwritten, Metadata, Files, Some, Blamed
    <2>5. FolderInv'
        BY <1>4 DEF RegistryInv, TypeInv, LockInv, PairInv, WorkInv, FolderInv, Store,
           Goto, Write, Truncate, Following, registryVars, Fetching, Filling,
           Deleting, Saving, Unwritten, Readable, Metadata, Files, Some, Blamed
    <2>6. DataInv'
        BY <1>4 DEF RegistryInv, TypeInv, LockInv, PairInv, WorkInv, FolderInv,
           DataInv, Store, Goto, Write, Truncate, Following, registryVars, Deleting,
           Filling, Saving, Fetching, Unwritten, Readable, Metadata, Files, Some,
           Blamed
    <2>7. ContentInv'
        BY <1>4 DEF RegistryInv, TypeInv, LockInv, PairInv, WorkInv, FolderInv,
           ContentInv, Store, Goto, Write, Truncate, Following, registryVars,
           Fetching, Filling, Deleting, Saving, Metadata, Files, Some, Blamed
    <2>8. QED
        BY <2>1, <2>2, <2>3, <2>4, <2>5, <2>6, <2>7 DEF RegistryInv
<1>5. CASE Allocate(t)
    <2>1. TypeInv'
        BY <1>5 DEF RegistryInv, TypeInv, Allocate, Goto, Write, registryVars, Places,
           Metadata, Files
    <2>2. LockInv'
        BY <1>5, RegistryAssumption DEF RegistryInv, TypeInv, LockInv, Allocate, Goto,
           Write, registryVars, Fetching, Metadata
    <2>3. PairInv'
        BY <1>5 DEF RegistryInv, TypeInv, LockInv, PairInv, WorkInv, FolderInv,
           Allocate, Goto, Write, registryVars, Fetching, Filling, Saving, Deleting,
           Metadata, Some
    <2>4. WorkInv'
        BY <1>5 DEF RegistryInv, TypeInv, LockInv, PairInv, WorkInv, FolderInv,
           Allocate, Goto, Write, registryVars, Fetching, Filling, Saving, Deleting,
           Unwritten, Metadata, Files, Some, Blamed
    <2>5. FolderInv'
        BY <1>5 DEF RegistryInv, TypeInv, LockInv, PairInv, WorkInv, FolderInv,
           Allocate, Goto, Write, registryVars, Fetching, Filling, Deleting, Saving,
           Unwritten, Readable, Metadata, Files, Some, Blamed
    <2>6. DataInv'
        BY <1>5 DEF RegistryInv, TypeInv, LockInv, PairInv, WorkInv, FolderInv,
           DataInv, Allocate, Goto, Write, registryVars, Deleting, Filling, Saving,
           Fetching, Unwritten, Readable, Metadata, Files, Some, Blamed
    <2>7. ContentInv'
        BY <1>5 DEF RegistryInv, TypeInv, LockInv, PairInv, WorkInv, FolderInv,
           ContentInv, Allocate, Goto, Write, registryVars, Fetching, Filling,
           Deleting, Saving, Metadata, Files, Some, Blamed
    <2>8. QED
        BY <2>1, <2>2, <2>3, <2>4, <2>5, <2>6, <2>7 DEF RegistryInv
<1>6. CASE StoreFails(t)
    <2>1. TypeInv'
        BY <1>6 DEF RegistryInv, TypeInv, StoreFails, End, Spoil, diskVars,
           registryVars, Places, Metadata, Files
    <2>2. LockInv'
        BY <1>6, RegistryAssumption DEF RegistryInv, TypeInv, LockInv, StoreFails,
           End, Spoil, diskVars, registryVars, Fetching, Metadata
    <2>3. PairInv'
        BY <1>6 DEF RegistryInv, TypeInv, LockInv, PairInv, WorkInv, FolderInv,
           StoreFails, End, Spoil, diskVars, registryVars, Fetching, Filling, Saving,
           Deleting, Metadata, Some
    <2>4. WorkInv'
        BY <1>6 DEF RegistryInv, TypeInv, LockInv, PairInv, WorkInv, FolderInv,
           StoreFails, End, Spoil, diskVars, registryVars, Fetching, Filling, Saving,
           Deleting, Unwritten, Metadata, Files, Some, Blamed
    <2>5. FolderInv'
        <3>0. PICK p0 \in Packages : p0 = package[t]
            BY <1>6 DEF RegistryInv, TypeInv, StoreFails, Metadata
        <3>1. /\ p0 \in Packages /\ pc[t] \in Metadata \union {"allocate"}
              /\ UNCHANGED <<folders, files, localPackages, marked>>
              /\ \A p \in Packages : \A place \in spoiled[p] : place \in spoiled'[p]
              /\ pc[t] \in spoiled'[p0]
            BY <1>6, <3>0 DEF RegistryInv, TypeInv, StoreFails, Spoil, diskVars, registryVars,
               Metadata
        <3>2. \A places : \A p \in Packages : Blamed(p, places) => Blamed(p, places)'
            BY <3>1 DEF Blamed
        <3>3. \A u \in Tasks : u # t => pc'[u] = pc[u] /\ package'[u] = package[u]
            BY <1>6 DEF StoreFails, End, RegistryInv, TypeInv
        <3>4. \A places : \A p \in Packages :
                 Some(p, places) /\ (p # p0 \/ pc[t] \notin places) => Some(p, places)'
            BY <3>0, <3>3 DEF Some
        <3>5. Some(p0, {"created"}) => Some(p0, Filling)'
            <4>1. Some(p0, {"created"}) => Some(p0, {"created"})'
                BY <3>1, <3>4 DEF Metadata
            <4>2. QED
                BY <4>1 DEF Some, Filling
        <3>6. Readable(p0) => Some(p0, Filling)' \/ Blamed(p0, {"allocate"})'
            BY <3>0, <3>1, <3>5 DEF RegistryInv, WorkInv, Unwritten, Readable, Metadata, Blamed
        <3>7. FolderInv
            BY DEF RegistryInv
        <3>8. \A p \in Packages : p # p0 =>
                 /\ Some(p, Filling) => Some(p, Filling)'
                 /\ spoiled'[p] = spoiled[p]
            BY <1>6, <3>0, <3>4 DEF StoreFails, Spoil, RegistryInv, TypeInv
        <3>9. \A p \in Packages :
                 /\ Some(p, Deleting) => Some(p, Deleting)'
                 /\ Some(p, {"update"}) <=> Some(p, {"update"})'
            <4>1. \A p \in Packages : Some(p, {"update"})' => Some(p, {"update"})
                BY <1>6 DEF StoreFails, End, RegistryInv, TypeInv, Some
            <4>2. QED
                BY <3>1, <3>4, <4>1 DEF Metadata, Deleting
        <3>10. \A p \in folders : p \notin localPackages \/ Some(p, {"update"})' =>
                 /\ spoiled'[p] # {} \/ Some(p, Filling)'
                 /\ Readable(p) => \/ Some(p, Filling)'
                                   \/ Blamed(p, {"allocate", "register", "created"})'
            <4> SUFFICES ASSUME NEW p \in folders, p \notin localPackages \/ Some(p, {"update"})'
                         PROVE  /\ spoiled'[p] # {} \/ Some(p, Filling)'
                                /\ Readable(p) =>
                                     \/ Some(p, Filling)'
                                     \/ Blamed(p, {"allocate", "register", "created"})'
                OBVIOUS
            <4>1. p \in Packages
                BY DEF RegistryInv, TypeInv
            <4>2. CASE p = p0
                <5>1. Blamed(p0, {"allocate"})' => Blamed(p0, {"allocate", "register", "created"})'
                    BY DEF Blamed
                <5>2. QED
                    BY <3>1, <3>6, <4>2, <5>1
            <4>3. CASE p # p0
                BY <3>2, <3>7, <3>8, <3>9, <4>1, <4>3 DEF FolderInv
            <4>4. QED
                BY <4>2, <4>3
        <3>11. /\ \A p \in marked : Blamed(p, {"delete"})' \/ Some(p, Deleting)'
               /\ \A p \in localPackages \ folders : Some(p, {"update"})'
            BY <3>2, <3>7, <3>9 DEF FolderInv, RegistryInv, TypeInv
        <3>12. QED
            BY <3>1, <3>7, <3>10, <3>11 DEF FolderInv, Readable
    <2>6. DataInv'
        BY <1>6 DEF RegistryInv, TypeInv, LockInv, PairInv, WorkInv, FolderInv,
           DataInv, StoreFails, End, Spoil, diskVars, registryVars, Deleting, Filling,
           Saving, Fetching, Unwritten, Readable, Metadata, Files, Some, Blamed
    <2>7. ContentInv'
        BY <1>6 DEF RegistryInv, TypeInv, LockInv, PairInv, WorkInv, FolderInv,
           ContentInv, StoreFails, End, Spoil, diskVars, registryVars, Fetching,
           Filling, Deleting, Saving, Metadata, Files, Some, Blamed
    <2>8. QED
        BY <2>1, <2>2, <2>3, <2>4, <2>5, <2>6, <2>7 DEF RegistryInv
<1>7. CASE RegisterFetched(t)
    <2>1. TypeInv'
        BY <1>7 DEF RegistryInv, TypeInv, RegisterFetched, End, Spoil, AddToLocal,
           diskVars, Places, Metadata, Files
    <2>2. LockInv'
        BY <1>7, RegistryAssumption DEF RegistryInv, TypeInv, LockInv,
           RegisterFetched, End, Spoil, AddToLocal, diskVars, Fetching, Metadata
    <2>3. PairInv'
        BY <1>7 DEF RegistryInv, TypeInv, LockInv, PairInv, WorkInv, FolderInv,
           RegisterFetched, End, Spoil, AddToLocal, diskVars, Fetching, Filling,
           Saving, Deleting, Metadata, Some
    <2>4. WorkInv'
        BY <1>7 DEF RegistryInv, TypeInv, LockInv, PairInv, WorkInv, FolderInv,
           RegisterFetched, End, Spoil, AddToLocal, diskVars, Fetching, Filling,
           Saving, Deleting, Unwritten, Metadata, Files, Some, Blamed
    <2>5. FolderInv'
        BY <1>7 DEF RegistryInv, TypeInv, LockInv, PairInv, WorkInv, FolderInv,
           RegisterFetched, End, Spoil, AddToLocal, diskVars, Fetching, Filling,
           Deleting, Saving, Unwritten, Readable, Metadata, Files, Some, Blamed
    <2>6. DataInv'
        BY <1>7 DEF RegistryInv, TypeInv, LockInv, PairInv, WorkInv, FolderInv,
           DataInv, RegisterFetched, End, Spoil, AddToLocal, diskVars, Deleting,
           Filling, Saving, Fetching, Unwritten, Readable, Metadata, Files, Some,
           Blamed
    <2>7. ContentInv'
        BY <1>7 DEF RegistryInv, TypeInv, LockInv, PairInv, WorkInv, FolderInv,
           ContentInv, RegisterFetched, End, Spoil, AddToLocal, diskVars, Fetching,
           Filling, Deleting, Saving, Metadata, Files, Some, Blamed
    <2>8. QED
        BY <2>1, <2>2, <2>3, <2>4, <2>5, <2>6, <2>7 DEF RegistryInv
<1>8. QED
    BY <1>1, <1>2, <1>3, <1>4, <1>5, <1>6, <1>7 DEF FetchStep

\* A creation brings a whole folder, without the lock.
LEMMA CreateStepKeeps ==
    ASSUME RegistryInv, NEW t \in Tasks, CreateStep(t)
    PROVE  RegistryInv'
<1>1. ASSUME NEW p \in Packages, Build(t, p)
      PROVE  RegistryInv'
    <2>1. TypeInv'
        BY <1>1 DEF RegistryInv, TypeInv, Build, Begin, diskVars, registryVars,
           Places, Metadata, Files
    <2>2. LockInv'
        BY <1>1, RegistryAssumption DEF RegistryInv, TypeInv, LockInv, Build, Begin,
           diskVars, registryVars, Fetching, Metadata
    <2>3. PairInv'
        BY <1>1 DEF RegistryInv, TypeInv, LockInv, PairInv, WorkInv, FolderInv, Build,
           Begin, diskVars, registryVars, Fetching, Filling, Saving, Deleting,
           Metadata, Some
    <2>4. WorkInv'
        BY <1>1 DEF RegistryInv, TypeInv, LockInv, PairInv, WorkInv, FolderInv, Build,
           Begin, diskVars, registryVars, Fetching, Filling, Saving, Deleting,
           Unwritten, Metadata, Files, Some, Blamed
    <2>5. FolderInv'
        BY <1>1 DEF RegistryInv, TypeInv, LockInv, PairInv, WorkInv, FolderInv, Build,
           Begin, diskVars, registryVars, Fetching, Filling, Deleting, Saving,
           Unwritten, Readable, Metadata, Files, Some, Blamed
    <2>6. DataInv'
        BY <1>1 DEF RegistryInv, TypeInv, LockInv, PairInv, WorkInv, FolderInv,
           DataInv, Build, Begin, diskVars, registryVars, Deleting, Filling, Saving,
           Fetching, Unwritten, Readable, Metadata, Files, Some, Blamed
    <2>7. ContentInv'
        BY <1>1 DEF RegistryInv, TypeInv, LockInv, PairInv, WorkInv, FolderInv,
           ContentInv, Build, Begin, diskVars, registryVars, Fetching, Filling,
           Deleting, Saving, Metadata, Files, Some, Blamed
    <2>8. QED
        BY <2>1, <2>2, <2>3, <2>4, <2>5, <2>6, <2>7 DEF RegistryInv
<1>2. CASE Move(t)
    <2>1. TypeInv'
        BY <1>2 DEF RegistryInv, TypeInv, Move, End, Goto, diskVars, registryVars,
           Places, Metadata, Files
    <2>2. LockInv'
        BY <1>2, RegistryAssumption DEF RegistryInv, TypeInv, LockInv, Move, End,
           Goto, diskVars, registryVars, Fetching, Metadata
    <2>3. PairInv'
        BY <1>2 DEF RegistryInv, TypeInv, LockInv, PairInv, WorkInv, FolderInv, Move,
           End, Goto, diskVars, registryVars, Fetching, Filling, Saving, Deleting,
           Metadata, Some
    <2>4. WorkInv'
        BY <1>2 DEF RegistryInv, TypeInv, LockInv, PairInv, WorkInv, FolderInv, Move,
           End, Goto, diskVars, registryVars, Fetching, Filling, Saving, Deleting,
           Unwritten, Metadata, Files, Some, Blamed
    <2>5. FolderInv'
        BY <1>2 DEF RegistryInv, TypeInv, LockInv, PairInv, WorkInv, FolderInv, Move,
           End, Goto, diskVars, registryVars, Fetching, Filling, Deleting, Saving,
           Unwritten, Readable, Metadata, Files, Some, Blamed
    <2>6. DataInv'
        BY <1>2 DEF RegistryInv, TypeInv, LockInv, PairInv, WorkInv, FolderInv,
           DataInv, Move, End, Goto, diskVars, registryVars, Deleting, Filling,
           Saving, Fetching, Unwritten, Readable, Metadata, Files, Some, Blamed
    <2>7. ContentInv'
        BY <1>2 DEF RegistryInv, TypeInv, LockInv, PairInv, WorkInv, FolderInv,
           ContentInv, Move, End, Goto, diskVars, registryVars, Fetching, Filling,
           Deleting, Saving, Metadata, Files, Some, Blamed
    <2>8. QED
        BY <2>1, <2>2, <2>3, <2>4, <2>5, <2>6, <2>7 DEF RegistryInv
<1>3. CASE RegisterCreated(t)
    <2>1. TypeInv'
        BY <1>3 DEF RegistryInv, TypeInv, RegisterCreated, End, Free, Spoil,
           AddToLocal, diskVars, Places, Metadata, Files
    <2>2. LockInv'
        BY <1>3, RegistryAssumption DEF RegistryInv, TypeInv, LockInv,
           RegisterCreated, End, Free, Spoil, AddToLocal, diskVars, Fetching, Metadata
    <2>3. PairInv'
        BY <1>3 DEF RegistryInv, TypeInv, LockInv, PairInv, WorkInv, FolderInv,
           RegisterCreated, End, Free, Spoil, AddToLocal, diskVars, Fetching, Filling,
           Saving, Deleting, Metadata, Some
    <2>4. WorkInv'
        <3>0. PICK p0 \in Packages : p0 = package[t]
            BY <1>3 DEF RegistryInv, TypeInv, RegisterCreated
        <3>1. /\ p0 \in Packages /\ UNCHANGED <<folders, files, marked>>
              /\ localPackages \subseteq localPackages'
              /\ localPackages' \subseteq localPackages \union {p0}
              /\ p0 \in localPackages => localPackages' = localPackages
              /\ \A p \in Packages : \A place \in spoiled[p] : place \in spoiled'[p]
              /\ \A u \in Tasks : /\ u # t => pc'[u] = pc[u] /\ package'[u] = package[u]
                                  /\ pc[u] \notin Fetching
              /\ pc[t] = "created" /\ pc'[t] = "idle"
            BY <1>3, <3>0, RegistryAssumption DEF RegistryInv, TypeInv, LockInv, RegisterCreated,
               End, Free, Spoil, AddToLocal, diskVars
        <3>2. ASSUME NEW u \in Tasks, u # t, pc[u] = "created"
              PROVE  package[u] # p0
            BY <3>0, <3>1, <3>2 DEF RegistryInv, PairInv
        <3>3. \A p : Some(p, {"update"}) => Some(p, {"update"})'
            BY <3>1 DEF Some
        <3>4. ASSUME NEW u \in Tasks, pc'[u] = "created"
              PROVE  /\ package[u] \in Packages /\ package'[u] = package[u]
                     /\ pc[u] = "created" /\ package[u] # p0
            BY <3>1, <3>2, <3>4 DEF RegistryInv, TypeInv
        <3>5. ASSUME NEW u \in Tasks, pc'[u] = "created", NEW f \in Metadata
              PROVE  (f \in files[package[u]] \/ Blamed(package[u], {f}))'
            <4>1. ~Some(package[u], {f})
                BY <3>1 DEF Some, Fetching
            <4>2. f \in files[package[u]] \/ Blamed(package[u], {f})
                BY <3>4, <3>5, <4>1 DEF RegistryInv, WorkInv
            <4>3. QED
                BY <3>1, <3>4, <3>5, <4>2 DEF Blamed
        <3>6. \A u \in Tasks : pc'[u] \notin Fetching
            BY <3>1 DEF Fetching, Metadata
        <3>7. ASSUME NEW u \in Tasks
              PROVE  /\ pc'[u] \in Filling => package'[u] \in folders
                     /\ pc'[u] \in Filling /\ package'[u] \in localPackages'
                           => Some(package[u], {"update"})'
                     /\ pc'[u] = "created" => "data" \in files[package'[u]]
                     /\ pc'[u] \in Saving => package'[u] \in localPackages'
                     /\ pc'[u] \in Deleting => package'[u] \in marked
            <4>1. CASE u = t
                BY <3>1, <4>1 DEF Filling, Metadata, Saving, Deleting
            <4>2. CASE u # t
                <5>1. pc'[u] \in Filling => pc'[u] = "created"
                    BY <3>6 DEF Filling, Fetching
                <5>2. pc'[u] = pc[u] /\ package'[u] = package[u]
                    BY <3>1, <4>2
                <5>3. pc'[u] = "created" => package[u] # p0
                    BY <3>4
                <5>4. pc'[u] = "created" /\ package[u] \in localPackages'
                        => Some(package[u], {"update"})'
                    BY <3>1, <3>3, <5>2, <5>3 DEF RegistryInv, WorkInv, Filling
                <5>5. /\ pc[u] \in Filling => package[u] \in folders
                      /\ pc[u] = "created" => "data" \in files[package[u]]
                      /\ pc[u] \in Saving => package[u] \in localPackages
                      /\ pc[u] \in Deleting => package[u] \in marked
                    BY DEF RegistryInv, WorkInv
                <5>6. QED
                    BY <3>1, <5>1, <5>2, <5>4, <5>5
            <4>3. QED
                BY <4>1, <4>2
        <3>8. QED
            BY <3>1, <3>5, <3>6, <3>7 DEF WorkInv, Fetching
    <2>5. FolderInv'
        BY <1>3 DEF RegistryInv, TypeInv, LockInv, PairInv, WorkInv, FolderInv,
           RegisterCreated, End, Free, Spoil, AddToLocal, diskVars, Fetching, Filling,
           Deleting, Saving, Unwritten, Readable, Metadata, Files, Some, Blamed
    <2>6. DataInv'
        BY <1>3 DEF RegistryInv, TypeInv, LockInv, PairInv, WorkInv, FolderInv,
           DataInv, RegisterCreated, End, Free, Spoil, AddToLocal, diskVars, Deleting,
           Filling, Saving, Fetching, Unwritten, Readable, Metadata, Files, Some,
           Blamed
    <2>7. ContentInv'
        <3>0. PICK p0 \in Packages : p0 = package[t]
            BY <1>3 DEF RegistryInv, TypeInv, RegisterCreated
        <3>1. /\ UNCHANGED <<folders, files, marked>> /\ pc[t] = "created"
              /\ localPackages' \subseteq localPackages \union {p0}
              /\ \A p \in Packages : \A place \in spoiled[p] : place \in spoiled'[p]
              /\ \A u \in Tasks : pc[u] = "saving" => pc'[u] = "saving" /\ package'[u] = package[u]
              /\ \A u \in Tasks : pc[u] \notin Metadata
              /\ p0 \in Packages
            BY <1>3, <3>0, RegistryAssumption DEF RegistryInv, TypeInv, LockInv, RegisterCreated,
               End, Free, Spoil, AddToLocal, diskVars, Fetching
        <3>2. /\ p0 \in folders
              /\ \A f \in Metadata : f \in files[p0] \/ Blamed(p0, {f})
            <4>1. \A f \in Metadata : ~Some(p0, {f})
                BY <3>1 DEF Some
            <4>2. QED
                BY <3>0, <3>1, <4>1 DEF RegistryInv, WorkInv, Filling
        <3>3. \A places : \A p \in Packages : Blamed(p, places) => Blamed(p, places)'
            BY <3>1 DEF Blamed
        <3>4. \A p : Some(p, {"saving"}) => Some(p, {"saving"})'
            BY <3>1 DEF Some
        <3>5. Blamed(p0, {"status"}) => Blamed(p0, {"status", "saving"})
            BY DEF Blamed
        <3>6. discovered' \intersect localPackages' = {}
            BY <1>3 DEF RegistryInv, ContentInv, RegisterCreated, AddToLocal
        <3>7. \A p \in localPackages' \ marked :
                 /\ p \in folders
                 /\ \A f \in {"hashes", "meta"} : f \in files[p] \/ Blamed(p, {f})
                 /\ "status" \in files[p] \/ Some(p, {"saving"}) \/ Blamed(p, {"status", "saving"})
            BY <3>1, <3>2, <3>5 DEF RegistryInv, ContentInv, Metadata
        <3>8. QED
            BY <3>1, <3>3, <3>4, <3>6, <3>7 DEF ContentInv, RegistryInv, TypeInv
    <2>8. QED
        BY <2>1, <2>2, <2>3, <2>4, <2>5, <2>6, <2>7 DEF RegistryInv
<1>4. QED
    BY <1>1, <1>2, <1>3 DEF CreateStep

\* A save touches the status of a package that nobody has begun to delete.
LEMMA SaveStepKeeps ==
    ASSUME RegistryInv, NEW t \in Tasks, SaveStep(t)
    PROVE  RegistryInv'
<1>1. ASSUME NEW p \in Packages, LockToSave(t, p)
      PROVE  RegistryInv'
    <2>1. TypeInv'
        BY <1>1 DEF RegistryInv, TypeInv, LockToSave, Begin, diskVars, registryVars,
           Places, Metadata, Files
    <2>2. LockInv'
        BY <1>1, RegistryAssumption DEF RegistryInv, TypeInv, LockInv, LockToSave,
           Begin, diskVars, registryVars, Fetching, Metadata
    <2>3. PairInv'
        BY <1>1 DEF RegistryInv, TypeInv, LockInv, PairInv, WorkInv, FolderInv,
           LockToSave, Begin, diskVars, registryVars, Fetching, Filling, Saving,
           Deleting, Metadata, Some
    <2>4. WorkInv'
        BY <1>1 DEF RegistryInv, TypeInv, LockInv, PairInv, WorkInv, FolderInv,
           LockToSave, Begin, diskVars, registryVars, Fetching, Filling, Saving,
           Deleting, Unwritten, Metadata, Files, Some, Blamed
    <2>5. FolderInv'
        BY <1>1 DEF RegistryInv, TypeInv, LockInv, PairInv, WorkInv, FolderInv,
           LockToSave, Begin, diskVars, registryVars, Fetching, Filling, Deleting,
           Saving, Unwritten, Readable, Metadata, Files, Some, Blamed
    <2>6. DataInv'
        BY <1>1 DEF RegistryInv, TypeInv, LockInv, PairInv, WorkInv, FolderInv,
           DataInv, LockToSave, Begin, diskVars, registryVars, Deleting, Filling,
           Saving, Fetching, Unwritten, Readable, Metadata, Files, Some, Blamed
    <2>7. ContentInv'
        BY <1>1 DEF RegistryInv, TypeInv, LockInv, PairInv, WorkInv, FolderInv,
           ContentInv, LockToSave, Begin, diskVars, registryVars, Fetching, Filling,
           Deleting, Saving, Metadata, Files, Some, Blamed
    <2>8. QED
        BY <2>1, <2>2, <2>3, <2>4, <2>5, <2>6, <2>7 DEF RegistryInv
<1>2. CASE BeginSave(t)
    <2>1. TypeInv'
        BY <1>2 DEF RegistryInv, TypeInv, BeginSave, Goto, Free, Truncate,
           registryVars, Places, Metadata, Files
    <2>2. LockInv'
        BY <1>2, RegistryAssumption DEF RegistryInv, TypeInv, LockInv, BeginSave,
           Goto, Free, Truncate, registryVars, Fetching, Metadata
    <2>3. PairInv'
        BY <1>2 DEF RegistryInv, TypeInv, LockInv, PairInv, WorkInv, FolderInv,
           BeginSave, Goto, Free, Truncate, registryVars, Fetching, Filling, Saving,
           Deleting, Metadata, Some
    <2>4. WorkInv'
        BY <1>2 DEF RegistryInv, TypeInv, LockInv, PairInv, WorkInv, FolderInv,
           BeginSave, Goto, Free, Truncate, registryVars, Fetching, Filling, Saving,
           Deleting, Unwritten, Metadata, Files, Some, Blamed
    <2>5. FolderInv'
        BY <1>2 DEF RegistryInv, TypeInv, LockInv, PairInv, WorkInv, FolderInv,
           BeginSave, Goto, Free, Truncate, registryVars, Fetching, Filling, Deleting,
           Saving, Unwritten, Readable, Metadata, Files, Some, Blamed
    <2>6. DataInv'
        BY <1>2 DEF RegistryInv, TypeInv, LockInv, PairInv, WorkInv, FolderInv,
           DataInv, BeginSave, Goto, Free, Truncate, registryVars, Deleting, Filling,
           Saving, Fetching, Unwritten, Readable, Metadata, Files, Some, Blamed
    <2>7. ContentInv'
        BY <1>2 DEF RegistryInv, TypeInv, LockInv, PairInv, WorkInv, FolderInv,
           ContentInv, BeginSave, Goto, Free, Truncate, registryVars, Fetching,
           Filling, Deleting, Saving, Metadata, Files, Some, Blamed
    <2>8. QED
        BY <2>1, <2>2, <2>3, <2>4, <2>5, <2>6, <2>7 DEF RegistryInv
<1>3. CASE EndSave(t)
    <2>1. TypeInv'
        BY <1>3 DEF RegistryInv, TypeInv, EndSave, End, Write, Spoil, registryVars,
           Places, Metadata, Files
    <2>2. LockInv'
        BY <1>3, RegistryAssumption DEF RegistryInv, TypeInv, LockInv, EndSave, End,
           Write, Spoil, registryVars, Fetching, Metadata
    <2>3. PairInv'
        BY <1>3 DEF RegistryInv, TypeInv, LockInv, PairInv, WorkInv, FolderInv,
           EndSave, End, Write, Spoil, registryVars, Fetching, Filling, Saving,
           Deleting, Metadata, Some
    <2>4. WorkInv'
        BY <1>3 DEF RegistryInv, TypeInv, LockInv, PairInv, WorkInv, FolderInv,
           EndSave, End, Write, Spoil, registryVars, Fetching, Filling, Saving,
           Deleting, Unwritten, Metadata, Files, Some, Blamed
    <2>5. FolderInv'
        BY <1>3 DEF RegistryInv, TypeInv, LockInv, PairInv, WorkInv, FolderInv,
           EndSave, End, Write, Spoil, registryVars, Fetching, Filling, Deleting,
           Saving, Unwritten, Readable, Metadata, Files, Some, Blamed
    <2>6. DataInv'
        BY <1>3 DEF RegistryInv, TypeInv, LockInv, PairInv, WorkInv, FolderInv,
           DataInv, EndSave, End, Write, Spoil, registryVars, Deleting, Filling,
           Saving, Fetching, Unwritten, Readable, Metadata, Files, Some, Blamed
    <2>7. ContentInv'
        BY <1>3 DEF RegistryInv, TypeInv, LockInv, PairInv, WorkInv, FolderInv,
           ContentInv, EndSave, End, Write, Spoil, registryVars, Fetching, Filling,
           Deleting, Saving, Metadata, Files, Some, Blamed
    <2>8. QED
        BY <2>1, <2>2, <2>3, <2>4, <2>5, <2>6, <2>7 DEF RegistryInv
<1>4. QED
    BY <1>1, <1>2, <1>3 DEF SaveStep

\* A deletion empties the folder before the lists.
LEMMA DeleteStepKeeps ==
    ASSUME RegistryInv, NEW t \in Tasks, DeleteStep(t)
    PROVE  RegistryInv'
<1>1. ASSUME NEW p \in Packages, MarkForDelete(t, p)
      PROVE  RegistryInv'
    <2>1. TypeInv'
        BY <1>1 DEF RegistryInv, TypeInv, MarkForDelete, Begin, diskVars, Places,
           Metadata, Files
    <2>2. LockInv'
        BY <1>1, RegistryAssumption DEF RegistryInv, TypeInv, LockInv, MarkForDelete,
           Begin, diskVars, Fetching, Metadata
    <2>3. PairInv'
        BY <1>1 DEF RegistryInv, TypeInv, LockInv, PairInv, WorkInv, FolderInv,
           MarkForDelete, Begin, diskVars, Fetching, Filling, Saving, Deleting,
           Metadata, Some
    <2>4. WorkInv'
        BY <1>1 DEF RegistryInv, TypeInv, LockInv, PairInv, WorkInv, FolderInv,
           MarkForDelete, Begin, diskVars, Fetching, Filling, Saving, Deleting,
           Unwritten, Metadata, Files, Some, Blamed
    <2>5. FolderInv'
        BY <1>1 DEF RegistryInv, TypeInv, LockInv, PairInv, WorkInv, FolderInv,
           MarkForDelete, Begin, diskVars, Fetching, Filling, Deleting, Saving,
           Unwritten, Readable, Metadata, Files, Some, Blamed
    <2>6. DataInv'
        BY <1>1 DEF RegistryInv, TypeInv, LockInv, PairInv, WorkInv, FolderInv,
           DataInv, MarkForDelete, Begin, diskVars, Deleting, Filling, Saving,
           Fetching, Unwritten, Readable, Metadata, Files, Some, Blamed
    <2>7. ContentInv'
        BY <1>1 DEF RegistryInv, TypeInv, LockInv, PairInv, WorkInv, FolderInv,
           ContentInv, MarkForDelete, Begin, diskVars, Fetching, Filling, Deleting,
           Saving, Metadata, Files, Some, Blamed
    <2>8. QED
        BY <2>1, <2>2, <2>3, <2>4, <2>5, <2>6, <2>7 DEF RegistryInv
<1>2. CASE DeleteFolder(t)
    <2>1. TypeInv'
        BY <1>2 DEF RegistryInv, TypeInv, DeleteFolder, End, Goto, At, Truncate,
           Spoil, diskVars, registryVars, Places, Metadata, Files
    <2>2. LockInv'
        BY <1>2, RegistryAssumption DEF RegistryInv, TypeInv, LockInv, DeleteFolder,
           End, Goto, At, Truncate, Spoil, diskVars, registryVars, Fetching, Metadata
    <2>3. PairInv'
        BY <1>2 DEF RegistryInv, TypeInv, LockInv, PairInv, WorkInv, FolderInv,
           DeleteFolder, End, Goto, At, Truncate, Spoil, diskVars, registryVars,
           Fetching, Filling, Saving, Deleting, Metadata, Some
    <2>4. WorkInv'
        BY <1>2 DEF RegistryInv, TypeInv, LockInv, PairInv, WorkInv, FolderInv,
           DeleteFolder, End, Goto, At, Truncate, Spoil, diskVars, registryVars,
           Fetching, Filling, Saving, Deleting, Unwritten, Metadata, Files, Some,
           Blamed
    <2>5. FolderInv'
        BY <1>2 DEF RegistryInv, TypeInv, LockInv, PairInv, WorkInv, FolderInv,
           DeleteFolder, End, Goto, At, Truncate, Spoil, diskVars, registryVars,
           Fetching, Filling, Deleting, Saving, Unwritten, Readable, Metadata, Files,
           Some, Blamed
    <2>6. DataInv'
        BY <1>2 DEF RegistryInv, TypeInv, LockInv, PairInv, WorkInv, FolderInv,
           DataInv, DeleteFolder, End, Goto, At, Truncate, Spoil, diskVars,
           registryVars, Deleting, Filling, Saving, Fetching, Unwritten, Readable,
           Metadata, Files, Some, Blamed
    <2>7. ContentInv'
        BY <1>2 DEF RegistryInv, TypeInv, LockInv, PairInv, WorkInv, FolderInv,
           ContentInv, DeleteFolder, End, Goto, At, Truncate, Spoil, diskVars,
           registryVars, Fetching, Filling, Deleting, Saving, Metadata, Files, Some,
           Blamed
    <2>8. QED
        BY <2>1, <2>2, <2>3, <2>4, <2>5, <2>6, <2>7 DEF RegistryInv
<1>3. CASE RemoveFromLocal(t)
    <2>1. TypeInv'
        BY <1>3 DEF RegistryInv, TypeInv, RemoveFromLocal, End, diskVars, Places,
           Metadata, Files
    <2>2. LockInv'
        BY <1>3, RegistryAssumption DEF RegistryInv, TypeInv, LockInv,
           RemoveFromLocal, End, diskVars, Fetching, Metadata
    <2>3. PairInv'
        BY <1>3 DEF RegistryInv, TypeInv, LockInv, PairInv, WorkInv, FolderInv,
           RemoveFromLocal, End, diskVars, Fetching, Filling, Saving, Deleting,
           Metadata, Some
    <2>4. WorkInv'
        BY <1>3 DEF RegistryInv, TypeInv, LockInv, PairInv, WorkInv, FolderInv,
           RemoveFromLocal, End, diskVars, Fetching, Filling, Saving, Deleting,
           Unwritten, Metadata, Files, Some, Blamed
    <2>5. FolderInv'
        BY <1>3 DEF RegistryInv, TypeInv, LockInv, PairInv, WorkInv, FolderInv,
           RemoveFromLocal, End, diskVars, Fetching, Filling, Deleting, Saving,
           Unwritten, Readable, Metadata, Files, Some, Blamed
    <2>6. DataInv'
        BY <1>3 DEF RegistryInv, TypeInv, LockInv, PairInv, WorkInv, FolderInv,
           DataInv, RemoveFromLocal, End, diskVars, Deleting, Filling, Saving,
           Fetching, Unwritten, Readable, Metadata, Files, Some, Blamed
    <2>7. ContentInv'
        BY <1>3 DEF RegistryInv, TypeInv, LockInv, PairInv, WorkInv, FolderInv,
           ContentInv, RemoveFromLocal, End, diskVars, Fetching, Filling, Deleting,
           Saving, Metadata, Files, Some, Blamed
    <2>8. QED
        BY <2>1, <2>2, <2>3, <2>4, <2>5, <2>6, <2>7 DEF RegistryInv
<1>4. QED
    BY <1>1, <1>2, <1>3 DEF DeleteStep

LEMMA RegisterDiscoveredKeeps ==
    ASSUME RegistryInv, NEW p \in Packages, RegisterDiscovered(p)
    PROVE  RegistryInv'
<1>1. TypeInv' /\ LockInv' /\ PairInv' /\ WorkInv' /\ FolderInv' /\ DataInv'
    BY DEF RegistryInv, RegisterDiscovered, diskVars, TypeInv, LockInv, PairInv, WorkInv,
       FolderInv, DataInv, Some, Blamed, Readable
<1>2. ContentInv'
    BY DEF RegistryInv, RegisterDiscovered, diskVars, ContentInv, Some, Blamed
<1>3. QED
    BY <1>1, <1>2 DEF RegistryInv

\* What a crash leaves that can be read is what was local, or is explained: the
\* folder of a creation or a fetch that had come so far.
LEMMA RestartKeeps ==
    ASSUME RegistryInv, Restart
    PROVE  RegistryInv'
<1>1. TypeInv' /\ LockInv' /\ PairInv' /\ WorkInv'
    BY RegistryAssumption
       DEF RegistryInv, Restart, TypeInv, LockInv, PairInv, WorkInv, Places, Metadata,
           Fetching, Filling, Saving, Deleting, At, diskVars
<1>2. \A p \in Packages :
         /\ \A place \in spoiled[p] : place \in spoiled'[p]
         /\ \A t \in Tasks : package[t] = p /\ pc[t] \in HalfDone => pc[t] \in spoiled'[p]
    BY DEF Restart, At
<1>3. /\ localPackages' = {p \in folders : Readable(p)} /\ marked' = {}
      /\ UNCHANGED <<folders, files>>
      /\ \A p, places : Some(p, places)' => "idle" \in places
    BY DEF Restart, diskVars, Some
<1>4. ASSUME NEW p \in folders, ~Readable(p)
      PROVE  spoiled'[p] # {}
    <2>0. p \in Packages /\ (HalfDone \subseteq Filling \union {"saving", "delete"})
        BY DEF RegistryInv, TypeInv, HalfDone, Filling
    <2>1. Some(p, HalfDone) \/ spoiled[p] # {} => spoiled'[p] # {}
        BY <1>2, <2>0 DEF Some
    <2>2. Some(p, {"created", "register"}) => Some(p, HalfDone) \/ spoiled[p] # {}
        BY <1>4 DEF RegistryInv, WorkInv, Some, Blamed, Readable, HalfDone, Metadata
    <2>3. Some(p, Filling) => Some(p, {"created", "register"}) \/ Some(p, HalfDone)
        BY DEF Some, Filling, HalfDone
    <2>4. CASE p \notin localPackages \/ Some(p, {"update"})
        BY <2>1, <2>2, <2>3, <2>4 DEF RegistryInv, FolderInv
    <2>5. CASE p \in marked /\ ~Some(p, {"update"})
        BY <2>1, <2>5 DEF RegistryInv, FolderInv, Deleting, Some, Blamed, HalfDone
    <2>6. CASE p \in localPackages \ marked
        BY <1>4, <2>1, <2>6 DEF RegistryInv, ContentInv, Readable, Some, Blamed, HalfDone,
           Metadata
    <2>7. QED
        BY <2>4, <2>5, <2>6
<1>5. FolderInv'
    BY <1>3, <1>4 DEF RegistryInv, FolderInv, Readable
<1>6. DataInv'
    BY <1>2 DEF RegistryInv, Restart, TypeInv, WorkInv, DataInv, Some, Blamed, diskVars,
       HalfDone, Readable, Metadata, Unwritten
<1>7. ContentInv'
    BY DEF RegistryInv, Restart, ContentInv, Readable, Metadata, diskVars
<1>8. QED
    BY <1>1, <1>5, <1>6, <1>7 DEF RegistryInv

LEMMA StutterKeeps ==
    ASSUME RegistryInv, UNCHANGED vars
    PROVE  RegistryInv'
BY DEF RegistryInv, vars, diskVars, registryVars, TypeInv, LockInv, PairInv, WorkInv,
   FolderInv, DataInv, ContentInv, Some, Blamed, Readable

LEMMA InitRegistryInv == Init => RegistryInv
BY RegistryAssumption DEF Init, RegistryInv, TypeInv, LockInv, PairInv, WorkInv,
   FolderInv, DataInv, ContentInv, Places, Metadata, Fetching, Filling, Saving, Deleting

LEMMA NextKeeps == RegistryInv /\ [Next]_vars => RegistryInv'
<1> SUFFICES ASSUME RegistryInv, [Next]_vars
             PROVE  RegistryInv'
    OBVIOUS
<1>1. ASSUME NEW t \in Tasks, FetchStep(t) \/ CreateStep(t) \/ SaveStep(t) \/ DeleteStep(t)
      PROVE  RegistryInv'
    BY <1>1, FetchStepKeeps, CreateStepKeeps, SaveStepKeeps, DeleteStepKeeps
<1>2. ASSUME NEW p \in Packages, RegisterDiscovered(p)
      PROVE  RegistryInv'
    BY <1>2, RegisterDiscoveredKeeps
<1>3. QED
    BY <1>1, <1>2, RestartKeeps, StutterKeeps DEF Next

\* Tasks, locks, lists and folders agree, whatever fails or crashes.
THEOREM RegistryInvariant == Spec => []RegistryInv
BY InitRegistryInv, NextKeeps, PTL DEF Spec

-----------------------------------------------------------------------------
(* The properties. *)

LEMMA AtIsSome ==
    ASSUME NEW p, NEW places
    PROVE  At(p, places) # {} <=> Some(p, places)
BY DEF At, Some

\* What the registry offers is on disk, but for what the operations that ended half
\* way on the package's folder have left: each kind of file has its own culprits.
THEOREM MatchesDisk == Spec => []RegistryMatchesDisk
<1>1. ASSUME RegistryInv
      PROVE  RegistryMatchesDisk
    <2>1. discovered \intersect localPackages = {}
        BY <1>1 DEF RegistryInv, ContentInv
    <2>2. ASSUME NEW p \in localPackages \ marked
          PROVE  /\ p \in folders
                 /\ {"hashes", "meta"} \subseteq files[p] \union spoiled[p]
                 /\ \/ "status" \in files[p]
                    \/ At(p, {"saving"}) # {}
                    \/ {"status", "saving"} \intersect spoiled[p] # {}
        BY <1>1, AtIsSome DEF RegistryInv, ContentInv, Blamed
    <2>3. ASSUME NEW p \in localPackages \ marked
          PROVE  "data" \in files[p] \/ {"allocate", "delete"} \intersect spoiled[p] # {}
        <3>1. ~Some(p, Deleting)
            BY <1>1 DEF RegistryInv, WorkInv, Some
        <3>2. QED
            BY <1>1, <3>1 DEF RegistryInv, DataInv, Blamed
    <2>4. QED
        BY <2>1, <2>2, <2>3 DEF RegistryMatchesDisk
<1>2. QED
    BY <1>1, RegistryInvariant, PTL

\* Folders the registry does not know are being filled, or were left half done.
THEOREM StrayFolders == Spec => []StrayFolderForAReason
<1>1. RegistryInv => StrayFolderForAReason
    BY AtIsSome DEF RegistryInv, FolderInv, Filling, StrayFolderForAReason
<1>2. QED
    BY <1>1, RegistryInvariant, PTL

\* A restart loses a package only to a save, a deletion or a fetch over its files
\* that was cut off, or to a deletion that was almost done.
LEMMA RestartLoses ==
    ASSUME RegistryInv, Restart, NEW p \in localPackages \ localPackages'
    PROVE  \/ At(p, {"update"}) # {}
           \/ (Metadata \union {"saving", "delete"}) \intersect spoiled'[p] # {}
<1> SUFFICES ASSUME ~Some(p, {"update"})
             PROVE  (Metadata \union {"saving", "delete"}) \intersect spoiled'[p] # {}
    BY AtIsSome
<1>1. p \in Packages /\ p \in folders /\ ~Readable(p)
    BY DEF RegistryInv, TypeInv, FolderInv, Restart
<1>2. /\ \A place \in spoiled[p] : place \in spoiled'[p]
      /\ \A t \in Tasks : package[t] = p /\ pc[t] \in HalfDone => pc[t] \in spoiled'[p]
    BY <1>1 DEF Restart, At
<1>3. CASE p \in marked
    <2>1. Blamed(p, {"delete"}) \/ Some(p, {"delete"})
        BY <1>3 DEF RegistryInv, FolderInv, Deleting, Some
    <2>2. QED
        BY <1>2, <2>1 DEF Blamed, Some, HalfDone
<1>4. CASE p \notin marked
    <2>1. PICK f \in Metadata : f \notin files[p]
        BY <1>1 DEF Readable
    <2>2. Blamed(p, Metadata \union {"saving"}) \/ Some(p, {"saving"})
        BY <1>4, <2>1 DEF RegistryInv, ContentInv, Blamed, Metadata
    <2>3. QED
        BY <1>2, <2>2 DEF Blamed, Some, HalfDone
<1>5. QED
    BY <1>3, <1>4

\* It finds one that was not local only where a fetch or a creation had come as far
\* as its folder, or had left it behind.
LEMMA RestartFinds ==
    ASSUME RegistryInv, Restart, NEW p \in localPackages' \ localPackages
    PROVE  \/ At(p, {"created", "register"}) # {}
           \/ {"allocate", "register", "created"} \intersect spoiled'[p] # {}
<1> SUFFICES ASSUME ~Some(p, {"created", "register"})
             PROVE  {"allocate", "register", "created"} \intersect spoiled'[p] # {}
    BY AtIsSome
<1>1. p \in Packages /\ p \in folders /\ Readable(p)
    BY DEF RegistryInv, TypeInv, Restart
<1>2. /\ \A place \in spoiled[p] : place \in spoiled'[p]
      /\ \A t \in Tasks : package[t] = p /\ pc[t] \in HalfDone => pc[t] \in spoiled'[p]
    BY <1>1 DEF Restart, At
<1>3. ~Some(p, Metadata)
    BY <1>1 DEF RegistryInv, WorkInv, Unwritten, Readable, Metadata, Some
<1>4. Some(p, Filling) => Some(p, {"allocate"})
    BY <1>3 DEF Some, Filling
<1>5. Some(p, {"allocate"}) \/ Blamed(p, {"allocate", "register", "created"})
    BY <1>1, <1>4 DEF RegistryInv, FolderInv
<1>6. QED
    BY <1>2, <1>5 DEF Some, Blamed, HalfDone

\* A restart finds the packages that were local, and each one it loses or invents
\* has an operation to blame.
THEOREM RestartLoads == Spec => RestartKeepsPackages
<1>1. ASSUME RegistryInv, [Next]_vars, crashes' # crashes
      PROVE  Restart
    BY <1>1 DEF Next, vars, RegisterDiscovered, FetchStep, CreateStep, SaveStep,
       DeleteStep, Fetch, LookForDirectory, CreateDirectory, Store, Allocate, StoreFails,
       RegisterFetched, Build, Move, RegisterCreated, LockToSave, BeginSave,
       EndSave, MarkForDelete, DeleteFolder, RemoveFromLocal
<1>2. RegistryInv /\ [Next]_vars
        => [crashes' # crashes =>
              \A p \in Packages :
                /\ p \in localPackages \ localPackages' =>
                     \/ At(p, {"update"}) # {}
                     \/ (Metadata \union {"saving", "delete"}) \intersect spoiled'[p] # {}
                /\ p \in localPackages' \ localPackages =>
                     \/ At(p, {"created", "register"}) # {}
                     \/ {"allocate", "register", "created"} \intersect spoiled'[p] # {}]_vars
    BY <1>1, RestartLoses, RestartFinds
<1>3. QED
    BY <1>2, RegistryInvariant, PTL DEF Spec, RestartKeepsPackages
=============================================================================
