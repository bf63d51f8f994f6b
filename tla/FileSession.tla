---------------------------- MODULE FileSession ----------------------------
(***************************************************************************)
(* Sessions on files (filesystem/file.cc, filesystem.cc, directory.cc):    *)
(* what the classes add to FatFS, and what FatFS (third_party/ff) does     *)
(* with its objects when the volume is mounted again.  A call is a step,   *)
(* but for the loop of Filesystem::Init and for Mkdirs, between whose      *)
(* accesses something in the background may switch the disk access layer   *)
(* off or on.  Each File has a file of its own; its contents are a number  *)
(* of writes.                                                              *)
(***************************************************************************)
EXTENDS Integers

CONSTANTS Files,      \* the File objects
          IdSize,     \* 2^16: the mount number FatFS puts in its objects
          MaxMounts,  \* bound: mounts of the volume
          MaxWrites,  \* bound: writes to a file in a session
          Depth       \* components of the path given to Mkdirs

ASSUME NamesAssumption == "dir" \notin Files /\ "none" \notin Files
ASSUME BoundsAssumption == /\ IdSize \in Nat \ {0} /\ Depth \in Nat \ {0}
                           /\ MaxMounts \in Nat /\ MaxWrites \in Nat

VARIABLES vol,     \* FatFs[0]: registered, mounted, id; history: mounts
          disk,    \* the disk layer: does it work, is it initialised
          file,    \* the File objects, and the FIL in each
          dir,     \* one Directory object, and the DIR in it
          doing,   \* a call in progress
          last,    \* what the last call returned
          tree,    \* the directories of the path of Mkdirs that exist, and
                   \* whether a regular file has the name of the next one
          calm,    \* history: the files open since before the disk layer was
                   \* last disturbed, or the volume registered anew
          lost     \* history: the files whose last session ended with writes
                   \* that never came to the disk

sessions == <<calm, lost>>
fsVars == <<vol, disk, file, dir, doing, last, tree, sessions>>

NoFile == [opened |-> FALSE, fs |-> FALSE, id |-> 0, mode |-> "r",
           flush |-> FALSE, error |-> FALSE, written |-> 0, saved |-> 0,
           mount |-> 0]

FsInit ==
  /\ vol = [registered |-> FALSE, mounted |-> FALSE, id |-> 0, mounts |-> 0]
  /\ disk = [works |-> TRUE, ready |-> FALSE]
  /\ file = [f \in Files |-> NoFile]
  /\ dir = [fs |-> FALSE, id |-> 0, mount |-> 0]
  /\ doing = [pc |-> "idle"]
  /\ last = [op |-> "none", on |-> "none", result |-> "none"]
  /\ tree \in [dirs : 0 .. Depth, file : BOOLEAN]
  /\ calm = {} /\ lost = {}

Returns(op, on, result) == last' = [op |-> op, on |-> on, result |-> result]
OpenReturns(on, result, retry) ==
  last' = [op |-> "Open", on |-> on, result |-> result, retry |-> retry]

\* External: the layer fails for a while, or the card is taken out.
Background ==
  /\ disk' \in {[disk EXCEPT !.works = ~@], [disk EXCEPT !.ready = FALSE]}
  /\ calm' = {}
  /\ UNCHANGED <<vol, file, dir, doing, last, tree, lost>>

-----------------------------------------------------------------------------
(* FatFS.                                                                  *)

\* chk_mounted: a path is only looked up on a mounted volume, which it
\* mounts if need be.
MountsWide(v) == [v EXCEPT !.mounted = TRUE, !.id = @ + 1,     \* faulty
                           !.mounts = @ + 1]
Mounts(v) == [v EXCEPT !.mounted = TRUE, !.id = (@ + 1) % IdSize,
                       !.mounts = @ + 1]
ChkMounted(v, d) ==
  IF ~v.registered
  THEN [result |-> "VOLUME_NOT_INITIALIZED", vol |-> v, disk |-> d]
  ELSE IF v.mounted /\ d.ready THEN [result |-> "OK", vol |-> v, disk |-> d]
  ELSE IF d.works THEN [result |-> "OK", vol |-> Mounts(v),
                        disk |-> [d EXCEPT !.ready = TRUE]]
  ELSE [result |-> "DRIVE_NOT_READY", vol |-> [v EXCEPT !.mounted = FALSE],
        disk |-> [d EXCEPT !.ready = FALSE]]

\* chk_mounted, then follow_path: what looking up a path may end in.
LookUps(v, d) ==
  LET c == ChkMounted(v, d)
  IN IF c.result # "OK" THEN {c}
     ELSE {[c EXCEPT !.result = r] :
             r \in IF d.works THEN {"OK", "NOT_FOUND"} ELSE {"DISK_ERROR"}}

SameMount(o) == o.fs /\ vol.mounted /\ o.id = vol.id

\* validate
Validate(o) == IF ~SameMount(o) THEN "INVALID_OBJECT"
               ELSE IF ~disk.ready THEN "DRIVE_NOT_READY" ELSE "OK"

\* f_open: the object it leaves, which nothing can be done with when the
\* file could not be opened.
Opened(f, mode, l) ==
  IF l.result # "OK" THEN NoFile
  ELSE [NoFile EXCEPT !.opened = TRUE, !.fs = TRUE, !.id = l.vol.id,
                      !.mode = mode, !.flush = (mode = "w"),
                      !.mount = l.vol.mounts]

\* What f_opendir leaves in the DIR: its volume is set before anything else,
\* its mount number only in the end.
DirOpened(l) ==
  IF l.result = "OK" THEN [fs |-> TRUE, id |-> l.vol.id,
                           mount |-> l.vol.mounts]
  ELSE [dir EXCEPT !.fs = vol.registered]

\* f_sync, as its result and the object it leaves.
SyncResult(o) == IF Validate(o) # "OK" THEN Validate(o)
                 ELSE IF o.flush /\ ~disk.works THEN "DISK_ERROR" ELSE "OK"
SyncForgets(o) == IF SyncResult(o) = "OK"                     \* faulty
                  THEN [o EXCEPT !.flush = FALSE] ELSE o
Synced(o) == IF SyncResult(o) = "OK" /\ o.flush
             THEN [o EXCEPT !.flush = FALSE, !.saved = o.written] ELSE o

ClosedAnyway(o) == [Synced(o) EXCEPT !.fs = FALSE]             \* faulty
\* f_close discards the object when it has been flushed.
Closed(o) == IF SyncResult(o) = "OK" THEN [Synced(o) EXCEPT !.fs = FALSE]
             ELSE o

-----------------------------------------------------------------------------
(* File.                                                                   *)

Idle == doing.pc = "idle"
MayMount == vol.mounts < MaxMounts

\* The file that is open is closed before another is opened, and what Close
\* returns is ignored.
LeftOpen(o) == o                                               \* faulty
ClosedFirst(o) == IF o.opened THEN Closed(o) ELSE o

\* The session of f ends, and another begins if the file could be opened.
Ends(f) == LET o == ClosedFirst(file[f])
           IN  lost' = IF o.saved = o.written THEN lost \ {f} ELSE lost \cup {f}
Begins(f, result) == calm' = IF result = "OK" THEN calm \cup {f} ELSE calm \ {f}

OpenOnce(f, mode, retry) ==                                    \* faulty
  /\ Idle /\ MayMount
  /\ Ends(f)
  /\ \E l \in LookUps(vol, disk) :
       /\ disk' = l.disk /\ vol' = l.vol
       /\ file' = [file EXCEPT ![f] = Opened(f, mode, l)]
       /\ Begins(f, l.result)
       /\ OpenReturns(f, l.result, retry)
  /\ UNCHANGED <<doing, dir, tree>>

\* Open.  A disk error, and a time-out given, lead to Filesystem::Init.
Open(f, mode, retry) ==
  /\ Idle /\ MayMount
  /\ Ends(f)
  /\ \E l \in LookUps(vol, disk) :
       /\ disk' = l.disk
       /\ file' = [file EXCEPT ![f] = Opened(f, mode, l)]
       /\ Begins(f, l.result)
       /\ IF l.result = "DISK_ERROR" /\ retry
          THEN /\ vol' = [l.vol EXCEPT !.mounted = FALSE]      \* f_mount
               /\ doing' = [pc |-> "retry", on |-> f, mode |-> mode]
               /\ UNCHANGED last
          ELSE /\ vol' = l.vol
               /\ OpenReturns(f, l.result, retry) /\ UNCHANGED doing
  /\ UNCHANGED <<dir, tree>>

\* Filesystem::Init(timeout): disk_initialize, until it succeeds ...
InitAgain ==
  /\ doing.pc = "retry"
  /\ disk' = [disk EXCEPT !.ready = disk.works]
  /\ doing' = IF disk.works THEN [doing EXCEPT !.pc = "reopen"] ELSE doing
  /\ UNCHANGED <<vol, file, dir, last, tree, sessions>>

\* ... or until the time is over.
GiveUpInit ==
  /\ doing.pc = "retry"
  /\ doing' = [doing EXCEPT !.pc = "reopen"]
  /\ UNCHANGED <<vol, disk, file, dir, last, tree, sessions>>

NoReOpen ==                                                    \* faulty
  /\ doing.pc = "reopen" /\ doing' = [pc |-> "idle"]
  /\ OpenReturns(doing.on, "DISK_ERROR", TRUE)
  /\ UNCHANGED <<vol, disk, file, dir, tree, sessions>>

\* The second f_open, or f_opendir, whatever Init returned.
ReOpen ==
  /\ doing.pc = "reopen"
  /\ \E l \in LookUps(vol, disk) :
       /\ disk' = l.disk /\ vol' = l.vol
       /\ IF doing.on = "dir"
          THEN dir' = DirOpened(l) /\ UNCHANGED <<file, calm>>
          ELSE /\ file' = [file EXCEPT ![doing.on] =
                                       Opened(doing.on, doing.mode, l)]
               /\ Begins(doing.on, l.result)
               /\ UNCHANGED dir
       /\ OpenReturns(doing.on, l.result, TRUE)
  /\ doing' = [pc |-> "idle"]
  /\ UNCHANGED <<tree, lost>>

\* Operations on an open file, whose object is as the volume was then.
OpenedOnly(f) == Idle /\ file[f].opened

UseResult(o, mode) ==
  IF Validate(o) # "OK" THEN {Validate(o)}
  ELSE IF o.error THEN {"EXCEPTION"}
  ELSE IF o.mode # mode THEN {"ACCESS_DENIED"}
  ELSE IF disk.works THEN {"OK"} ELSE {"OK", "DISK_ERROR"}   \* OK: buffered

\* What a call leaves in the object: data to be flushed, or an error that stays.
Stored(o) == [o EXCEPT !.written = @ + 1, !.flush = TRUE]
Marked(o, r) == [o EXCEPT !.error = @ \/ r = "DISK_ERROR"]

\* Read, and Seek, which does not look at the mode.
Read(op, f) ==
  /\ OpenedOnly(f)
  /\ \E r \in UseResult(file[f], IF op = "Seek" THEN file[f].mode ELSE "r") :
       /\ file' = [file EXCEPT ![f] = Marked(@, r)]
       /\ Returns(op, f, r)
  /\ UNCHANGED <<vol, disk, dir, doing, tree, sessions>>

\* Write, and Truncate: both leave something to flush.
Write(op, f) ==
  /\ OpenedOnly(f) /\ file[f].written < MaxWrites
  /\ \E r \in UseResult(file[f], "w") :
       /\ file' = [file EXCEPT ![f] = IF r = "OK" THEN Stored(@) ELSE Marked(@, r)]
       /\ Returns(op, f, r)
  /\ UNCHANGED <<vol, disk, dir, doing, tree, sessions>>

SyncSaysOk(f) ==                   \* faulty: what f_sync returns is ignored
  /\ OpenedOnly(f)
  /\ file' = [file EXCEPT ![f] = Synced(@)]
  /\ Returns("Sync", f, "OK")
  /\ UNCHANGED <<vol, disk, dir, doing, tree, sessions>>

Sync(f) ==
  /\ OpenedOnly(f)
  /\ file' = [file EXCEPT ![f] = Synced(@)]
  /\ Returns("Sync", f, SyncResult(file[f]))
  /\ UNCHANGED <<vol, disk, dir, doing, tree, sessions>>

\* opened_ is neither looked at nor cleared: a second Close is an f_close of
\* a discarded object.
Close(f) ==
  /\ Idle
  /\ file' = [file EXCEPT ![f] = Closed(@)]
  /\ calm' = calm \ {f}
  /\ Returns("Close", f, SyncResult(file[f]))
  /\ UNCHANGED <<vol, disk, dir, doing, tree, lost>>

NotOpened(f) ==
  /\ Idle /\ ~file[f].opened
  /\ \E op \in {"Read", "Write", "Sync", "Seek", "Truncate"} :
       Returns(op, f, "NOT_OPENED")
  /\ UNCHANGED <<vol, disk, file, dir, doing, tree, sessions>>

-----------------------------------------------------------------------------
(* Filesystem and Directory.                                               *)

\* Filesystem::Init without a time-out: one attempt.
FsMount ==
  /\ Idle
  /\ vol' = [vol EXCEPT !.registered = TRUE, !.mounted = FALSE]
  /\ disk' = [disk EXCEPT !.ready = disk.works]
  /\ calm' = {}
  /\ Returns("Init", "none", IF disk.works THEN "OK" ELSE "DISK_ERROR")
  /\ UNCHANGED <<file, dir, doing, tree, lost>>

OpenDir(retry) ==
  /\ Idle /\ MayMount
  /\ \E l \in LookUps(vol, disk) :
       /\ disk' = l.disk /\ dir' = DirOpened(l)
       /\ IF l.result = "DISK_ERROR" /\ retry
          THEN /\ vol' = [l.vol EXCEPT !.mounted = FALSE]
               /\ doing' = [pc |-> "retry", on |-> "dir"]
               /\ UNCHANGED last
          ELSE /\ vol' = l.vol
               /\ OpenReturns("dir", l.result, retry) /\ UNCHANGED doing
  /\ UNCHANGED <<file, tree, sessions>>

\* Next and Rewind do not know whether the directory is open.
ReadDir(op) ==
  /\ Idle
  /\ \E r \in IF Validate(dir) # "OK" THEN {Validate(dir)}
             ELSE IF disk.works THEN {"OK"} ELSE {"OK", "DISK_ERROR"} :
       Returns(op, "dir", r)
  /\ UNCHANGED <<vol, disk, file, dir, doing, tree, sessions>>

\* Mkdirs: each prefix of the path that ends in a slash is made, one after
\* the other; one that exists is as good.
CallMkdirs(slashes) ==
  /\ Idle /\ MayMount
  /\ doing' = [pc |-> "mkdirs", k |-> 1, slashes |-> slashes]
  /\ UNCHANGED <<vol, disk, file, dir, last, tree, sessions>>

MkdirTolerant(r) == TRUE                                       \* faulty
Tolerated(r) == r \in {"OK", "FILE_EXISTS"}

\* f_mkdir: the name of any object will do for "exists", and a path leads
\* through directories only.
MkdirResult(l, k) ==
  IF l.result \notin {"OK", "NOT_FOUND"} THEN {l.result}
  ELSE IF k <= tree.dirs THEN {"FILE_EXISTS"}
  ELSE IF k > tree.dirs + 1 THEN {"PATH_NOT_FOUND"}
  ELSE IF tree.file THEN {"FILE_EXISTS"}
  ELSE {"OK", "ACCESS_DENIED"}                  \* no cluster is left

MkdirStep ==
  /\ doing.pc = "mkdirs" /\ doing.k <= doing.slashes /\ MayMount
  /\ \E l \in LookUps(vol, disk) : \E r \in MkdirResult(l, doing.k) :
       /\ vol' = l.vol /\ disk' = l.disk
       /\ tree' = IF r = "OK" THEN [dirs |-> doing.k, file |-> FALSE] ELSE tree
       /\ IF Tolerated(r)
          THEN doing' = [doing EXCEPT !.k = @ + 1] /\ UNCHANGED last
          ELSE doing' = [pc |-> "idle"] /\ Returns("Mkdirs", "none", r)
  /\ UNCHANGED <<file, dir, sessions>>

MkdirsEnd ==
  /\ doing.pc = "mkdirs" /\ doing.k > doing.slashes
  /\ doing' = [pc |-> "idle"]
  /\ Returns("Mkdirs", "none", "OK")
  /\ UNCHANGED <<vol, disk, file, dir, tree, sessions>>

CallMade == InitAgain \/ GiveUpInit \/ ReOpen \/ MkdirStep \/ MkdirsEnd

FsNext ==
  \/ Background \/ FsMount
  \/ \E f \in Files : \/ \E mode \in {"r", "w"}, retry \in BOOLEAN :
                           Open(f, mode, retry)
                      \/ Read("Read", f) \/ Read("Seek", f)
                      \/ Write("Write", f) \/ Write("Truncate", f)
                      \/ Sync(f) \/ Close(f) \/ NotOpened(f)
  \/ \E retry \in BOOLEAN : OpenDir(retry)
  \/ ReadDir("Next") \/ ReadDir("Rewind")
  \/ \E n \in {Depth - 1, Depth} : CallMkdirs(n)
  \/ CallMade

FsSpec == FsInit /\ [][FsNext]_fsVars

-----------------------------------------------------------------------------
(* Properties.                                                             *)

MountIds == 0 .. IdSize - 1
Mountings == 0 .. MaxMounts + 1

FsTypeOK ==
  /\ vol \in [registered : BOOLEAN, mounted : BOOLEAN, id : MountIds,
              mounts : Mountings]
  /\ disk \in [works : BOOLEAN, ready : BOOLEAN]
  /\ file \in [Files -> [opened : BOOLEAN, fs : BOOLEAN, id : MountIds,
                         mode : {"r", "w"}, flush : BOOLEAN, error : BOOLEAN,
                         written : 0 .. MaxWrites, saved : 0 .. MaxWrites,
                         mount : Mountings]]
  /\ dir \in [fs : BOOLEAN, id : MountIds, mount : Mountings]
  /\ doing \in [pc : {"idle"}]
              \cup [pc : {"retry", "reopen"}, on : {"dir"}]
              \cup [pc : {"retry", "reopen"}, on : Files, mode : {"r", "w"}]
              \cup [pc : {"mkdirs"}, k : 1 .. Depth + 1, slashes : 0 .. Depth]
  /\ tree \in [dirs : 0 .. Depth, file : BOOLEAN]
  /\ calm \subseteq Files /\ lost \subseteq Files

\* When Sync or Close says OK, all that was written in the session is in
\* the file.
SavedWhenTold ==
  last.op \in {"Sync", "Close"} /\ last.result = "OK"
    => file[last.on].saved = file[last.on].written

\* What was written in a session and is not in the file yet can still be
\* saved, by Sync or Close, as long as the volume is not mounted again, which
\* the Open of anything else may do (file.cc:65).
UnsavedIsPending ==
  \A f \in Files : file[f].saved # file[f].written =>
    /\ file[f].flush /\ file[f].fs
    /\ vol.mounted /\ vol.mounts = file[f].mount => SameMount(file[f])

\* "It is OK to have the disk access layer disabled between file access
\* sessions -- but it is not OK to have it disabled during a session"
\* (file.cc:61-63): where it is not, no call on the file fails for want of
\* the disk or of a valid object, whatever else is opened, closed or made
\* meanwhile, and the next Open on the object drops none of its writes.
CalmSessions ==
  [][\A f \in calm :
       /\ last' # last /\ last'.on = f =>
            last'.result \notin {"DISK_ERROR", "EXCEPTION", "DRIVE_NOT_READY",
                                "INVALID_OBJECT"}
       /\ f \in lost' => f \in lost]_fsVars

\* An Open that was given a time-out fails for want of the disk only when the
\* disk layer does not work at that moment, and with a disk error only at its
\* second attempt.
RetriedAfterInit ==
  [][last' # last /\ last'.op = "Open" /\ last'.retry =>
       /\ last'.result \in {"DISK_ERROR", "DRIVE_NOT_READY"} => ~disk.works
       /\ last'.result = "DISK_ERROR" => doing.pc = "reopen"]_fsVars

\* When Mkdirs says OK, every directory whose name ends in a slash exists,
\* but for the last: a regular file of that name will do.
MkdirsMakesAll ==
  [][doing.pc = "mkdirs" /\ doing'.pc = "idle" /\ last'.result = "OK" =>
       \/ tree.dirs >= doing.slashes
       \/ tree.dirs = doing.slashes - 1 /\ tree.file]_fsVars

\* The objects are sound: what is said to be saved is, and what is not can be.
FilesSound == FsTypeOK /\ SavedWhenTold /\ UnsavedIsPending

\* What the calls on files, directories and the volume return is true.
AnswersAreTrue == CalmSessions /\ RetriedAfterInit /\ MkdirsMakesAll
=============================================================================
