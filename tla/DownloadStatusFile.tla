-------------------------- MODULE DownloadStatusFile --------------------------
(***************************************************************************)
(* The ledger of one package and the file its state is saved to, across    *)
(* crashes.  Starting and stopping the download save it inside the         *)
(* manager's lock, a slot that returned segments saves it now and then.    *)
(* UpdateDownloadStatus serialises the ledger field by field under         *)
(* packagesLock, not under the ledger's syncLock, then truncates and       *)
(* writes the file; a restarted process builds its ledger from the file.   *)
(***************************************************************************)
EXTENDS PackageDownloadInfo, Sequences

CONSTANTS
    Manager,        \* the thread inside the manager's lock
    Torn            \* the content of a file that is being written

ASSUME FileAssumption ==
    Manager \notin Slots \union {Null}

VARIABLES
    after,          \* after[s]: what slot s does once it has returned segments
    managerSave,    \* the manager has a save to make before it unlocks
    writer,         \* the thread inside packagesLock, or Null
    wpc,            \* where that thread is
    member,         \* the member it serialises next
    snap,           \* what it has serialised so far
    file,           \* the content of the status file
    loaded,         \* the registry has loaded the package
    data            \* the segments whose verified data is in the data files

fileVars == <<after, managerSave, writer, wpc, member, snap, file, loaded, data>>
allVars  == <<vars, fileVars>>

\* What of the ledger is saved.
Ledger == [isDownloading |-> isDownloading, downloadedBytes |-> downloadedBytes,
           bitmap |-> bitmap]

FileInit ==
    /\ Init
    /\ after = [s \in Slots |-> "none"]
    /\ managerSave = FALSE
    /\ writer = Null /\ wpc = "free"
    /\ member = 1
    /\ snap = Ledger
    /\ file = Ledger
    /\ loaded = TRUE
    /\ data = Have

-----------------------------------------------------------------------------
(* The ledger's steps and what hangs on them. *)

\* Mutant: a stream that ends too soon passes for a success.
SlotWorkShortStream(s) ==
    /\ loaded /\ after[s] = "none"
    /\ pc[s] = "idle" => ~managerSave
    /\ SlotStep(s)
    /\ after' = [after EXCEPT ![s] =
         IF pc[s] \in ReturnPCs /\ pc'[s] = "idle" /\ areDownloaded[s]
         THEN "returned" ELSE @]
    /\ UNCHANGED <<data, managerSave, writer, wpc, member, snap, file, loaded>>

\* A slot that returned downloaded segments goes on to decide about saving;
\* data is written before the segments are returned.
SlotWork(s) ==
    /\ loaded /\ after[s] = "none"
    /\ pc[s] = "idle" => ~managerSave
    /\ SlotStep(s)
    /\ after' = [after EXCEPT ![s] =
         IF pc[s] \in ReturnPCs /\ pc'[s] = "idle" /\ areDownloaded[s]
         THEN "returned" ELSE @]
    /\ data' = data \union {k \in held[s] : pc[s] = "downloading" /\ areDownloaded'[s]}
    /\ UNCHANGED <<managerSave, writer, wpc, member, snap, file, loaded>>

StartDownloadPackage ==
    /\ loaded
    /\ ~managerSave
    /\ \/ CheckBeforeResume /\ UNCHANGED managerSave
       \/ Resume /\ managerSave' = ~isDownloading
    /\ UNCHANGED <<after, writer, wpc, member, snap, file, loaded, data>>

UserStop ==
    /\ loaded
    /\ ~managerSave
    /\ Stop
    /\ managerSave' = TRUE
    /\ UNCHANGED <<after, writer, wpc, member, snap, file, loaded, data>>

\* Mutant: the completed package is saved no more often than the others.
DecideSavePostponed(s) ==
    /\ after[s] = "returned"
    /\ after' = [after EXCEPT ![s] = "none"]
    /\ UNCHANGED <<vars, managerSave, writer, wpc, member, snap, file, loaded, data>>

\* A complete package is to be stopped, another one to be saved unless it was
\* saved in the last 20 seconds (either may be the case; the manager's lock,
\* taken to find out, can only delay the choice).
DecideSave(s) ==
    /\ after[s] = "returned"
    /\ \E next \in IF IsDownloaded THEN {"stop"} ELSE {"save", "none"} :
         after' = [after EXCEPT ![s] = next]
    /\ UNCHANGED <<vars, managerSave, writer, wpc, member, snap, file, loaded, data>>

\* StopDownloadPackage called by a slot that saw the package complete: it does
\* nothing for a package that has left the downloads.
SlotStop(s) ==
    /\ after[s] = "stop"
    /\ ~managerSave /\ ManagerLockFree
    /\ \/ queued /\ Stop /\ managerSave' = TRUE
       \/ ~queued /\ UNCHANGED <<vars, managerSave>>
    /\ after' = [after EXCEPT ![s] = "none"]
    /\ UNCHANGED <<writer, wpc, member, snap, file, loaded, data>>

-----------------------------------------------------------------------------
(* UpdateDownloadStatus. *)

WantsSave(w) == IF w = Manager THEN managerSave ELSE after[w] = "save"

\* Enter packagesLock.
BeginSave(w) ==
    /\ writer = Null
    /\ WantsSave(w)
    /\ writer' = w
    /\ wpc' = "serialize"
    /\ member' = 1
    /\ UNCHANGED <<vars, after, managerSave, snap, file, loaded, data>>

\* Mutant: the members are numbered the other way around.
MembersBackwards == <<"bitmap", "downloadedBytes", "isDownloading">>

\* The members of PackageDownload in the order they are serialised.
Members == <<"isDownloading", "downloadedBytes", "bitmap">>

\* Copy one member of the ledger, whatever its slots are doing.
SerializeMember ==
    /\ wpc = "serialize"
    /\ snap' = [snap EXCEPT ![Members[member]] = Ledger[Members[member]]]
    /\ member' = IF member < Len(Members) THEN member + 1 ELSE 1
    /\ wpc' = IF member < Len(Members) THEN "serialize" ELSE "truncate"
    /\ UNCHANGED <<vars, after, managerSave, writer, file, loaded, data>>

\* File.WriteAllBytes creates the file anew, then fills it with one write; what
\* lies between is not the file of this package to whoever reads it.
TruncateFile ==
    /\ wpc = "truncate"
    /\ file' = Torn
    /\ wpc' = "write"
    /\ UNCHANGED <<vars, after, managerSave, writer, member, snap, loaded, data>>

WriteFile ==
    /\ wpc = "write"
    /\ file' = snap
    /\ wpc' = "free"
    /\ writer' = Null
    /\ managerSave' = (managerSave /\ writer # Manager)
    /\ after' = [s \in Slots |-> IF s = writer THEN "none" ELSE after[s]]
    /\ UNCHANGED <<vars, member, snap, loaded, data>>

Save ==
    \/ \E w \in Slots \union {Manager} : BeginSave(w)
    \/ SerializeMember
    \/ TruncateFile
    \/ WriteFile

-----------------------------------------------------------------------------

\* The process dies and the registry loads the package again; a file that
\* cannot be read leaves the package out.
Restart ==
    /\ loaded
    /\ loaded' = (file # Torn)
    /\ isDownloading' = IF file = Torn THEN FALSE ELSE file.isDownloading
    /\ downloadedBytes' = IF file = Torn THEN 0 ELSE file.downloadedBytes
    /\ bitmap' = IF file = Torn THEN {} ELSE file.bitmap
    /\ partsInProgress' = {}
    /\ progressBytesReserved' = 0
    /\ syncLock' = Null
    /\ queued' = FALSE
    /\ resuming' = FALSE
    /\ pc' = [s \in Slots |-> "idle"]
    /\ held' = [s \in Slots |-> {}]
    /\ cur' = [s \in Slots |-> Last]
    /\ areDownloaded' = [s \in Slots |-> FALSE]
    /\ seenBytes' = [s \in Slots |-> 0]
    /\ after' = [s \in Slots |-> "none"]
    /\ managerSave' = FALSE
    /\ writer' = Null
    /\ wpc' = "free"
    /\ member' = 1
    /\ UNCHANGED <<snap, file, data>>

FileNext ==
    \/ StartDownloadPackage
    \/ UserStop
    \/ \E s \in Slots : SlotWork(s) \/ DecideSave(s) \/ SlotStop(s)
    \/ Save
    \/ Restart

FileSpec == FileInit /\ [][FileNext]_allVars

\* Threads that run go on running: a slot past its download, the manager and
\* the thread inside packagesLock.
FairFileSpec ==
    /\ FileSpec
    /\ WF_allVars(Save)
    /\ \A s \in Slots :
        /\ WF_allVars(DecideSave(s))
        /\ SF_allVars(SlotStop(s))
        /\ WF_allVars(SlotWork(s) /\ pc[s] \notin {"idle", "downloading"})

-----------------------------------------------------------------------------
(* Correctness. *)

\* The segments the file marks, and those the copy for it marks.
FileHave == IF file.bitmap = Null THEN Segment ELSE file.bitmap
SnapHave == IF snap.bitmap = Null THEN Segment ELSE snap.bitmap

\* However the copy made for the file straddles the returns of other slots, it
\* never claims more than there is: each segment it marks has its data on
\* disk, and its byte counter is at most the size of its bitmap.
FileNeverOverclaims ==
    file # Torn => /\ FileHave \subseteq data
                   /\ file.downloadedBytes <= Bytes(FileHave)

\* Saves of the manager and of several slots compete for packagesLock, each
\* decided on before it is entered.  Whichever comes last, what is about to be
\* written takes back nothing that the file it replaces says.
SaveCoversFile ==
    (wpc = "truncate" /\ file # Torn) =>
        /\ FileHave \subseteq SnapHave
        /\ file.downloadedBytes <= snap.downloadedBytes

\* Whatever was read back after a crash, a package passes for downloaded only
\* when the data of every segment is there.
CompleteMeansAllData == IsDownloaded => data = Segment

\* A download that is completed while it is queued is eventually complete in
\* the file, also if the user stops it then: unless a crash takes back what was
\* not saved.
CompletionSaved ==
    (IsDownloaded /\ queued) ~>
        \/ file # Torn /\ file.downloadedBytes = PackageSize /\ FileHave = Segment
        \/ ~loaded \/ ~IsDownloaded

-----------------------------------------------------------------------------
(* The inductive invariant behind them. *)

SavedLedger == [isDownloading : BOOLEAN, downloadedBytes : Int,
                bitmap : (SUBSET Segment) \union {Null}]

FileTypeOK ==
    /\ wpc \in {"free", "serialize", "truncate", "write"}
    /\ member \in 1..Len(Members)
    /\ snap \in SavedLedger
    /\ file # Torn => file \in SavedLedger
    /\ data \in SUBSET Segment

\* Data comes before its bit: what is marked, and what a slot is about to mark,
\* is in the data files.
DataFirst ==
    /\ Have \subseteq data
    /\ \A s \in Slots : (pc[s] \in ReturnPCs /\ areDownloaded[s]) => held[s] \subseteq data

\* The copy trails the ledger: the counter is copied before the bitmap, and
\* neither ever shrinks in between.
CopyTrails ==
    /\ (wpc = "serialize" /\ Members[member] = "bitmap")
          => snap.downloadedBytes <= Bytes(Have)
    /\ wpc \in {"truncate", "write"}
          => SnapHave \subseteq data /\ snap.downloadedBytes <= Bytes(SnapHave)

\* File, copy and ledger come in this order, however often the ledger moves on
\* while it is copied: nothing of one is missing in the next.
CoverInv ==
    /\ file # Torn => /\ FileHave \subseteq Have
                      /\ file.downloadedBytes <= downloadedBytes
    /\ (wpc = "serialize" /\ Members[member] = "bitmap")
          => /\ snap.downloadedBytes <= downloadedBytes
             /\ file # Torn => file.downloadedBytes <= snap.downloadedBytes
    /\ wpc \in {"truncate", "write"}
          => SnapHave \subseteq Have /\ snap.downloadedBytes <= downloadedBytes
    /\ SaveCoversFile

FileInv ==
    CoreInv /\ FileTypeOK /\ DataFirst /\ CopyTrails /\ FileNeverOverclaims
=============================================================================
