---------------------------- MODULE FatFileReader ----------------------------
(***************************************************************************)
(* avrlibx::FATFileReader (filesystem/fat_file_reader.h): a read-only FAT  *)
(* reader with one sector of memory, sector_, shared by all the handles.   *)
(*                                                                         *)
(* A call is a series of steps, each with at most one access to the media, *)
(* which may fail and then leaves sector_ as it was (SdCard::ReadSectors   *)
(* fails before it stores anything).  sector_ is modelled by the number of *)
(* the sector it holds, a byte of a file by its place on the disk.  The    *)
(* disk is described by constants; the sizes of sectors are scaled down.   *)
(***************************************************************************)
EXTENDS Integers, Sequences, SequencesExt

CONSTANTS Handles,        \* the FsHandles of the program
          Safe,           \* template parameter
          SectorBytes,    \* 512
          SectorEntries,  \* directory entries in a sector, 16
          FatEntries,     \* FAT entries in a sector, 256 or 128
          Sizes,          \* bound: what the program asks Read for
          BootAt,         \* where the boot sector is, 0 or a partition
          Boot,           \* its fields
          NumSectors,     \* of the media
          FatStart, RootStart, DataStart,  \* where the disk has its areas
          MaxCluster,     \* the last valid cluster
          Link,           \* the FAT: cluster -> cluster
          Entries,        \* place -> directory entry, where there is one
          Wanted          \* names the program passes to Open

\* Directory entries.  What is no entry has a NUL for a name.
DirEntry == [name : {""} \cup {Entries[place].name : place \in DOMAIN Entries},
             kind : {"file", "dir", "volume", "dot", "deleted", "end"},
             first : Nat, size : Nat]

ASSUME SizesAssumption ==
  /\ Safe \in BOOLEAN
  /\ {SectorBytes, SectorEntries, FatEntries} \subseteq Nat \ {0}
  /\ Sizes \subseteq Nat /\ {BootAt, MaxCluster} \subseteq Nat
  /\ NumSectors \in Nat \ {0}
ASSUME BootAssumption ==
  /\ Boot.fat_type \in {"FAT16", "FAT32"}
  /\ Boot.num_fats \in IF Safe THEN Nat ELSE {1, 2}
  /\ Boot.sec_per_cluster \in {1, 2, 4, 8, 16, 32, 64, 128}
  /\ {Boot.reserved, Boot.fat_size, Boot.root_entry_count,
      Boot.root_cluster} \subseteq Nat
ASSUME DiskAssumption ==
  /\ {FatStart, RootStart, DataStart} \subseteq Nat
  /\ \A cluster \in DOMAIN Link : Link[cluster] \in Nat
  /\ \A place \in DOMAIN Entries : Entries[place] \in DirEntry

VARIABLES fetched,    \* fetched_sector_
          held,       \* the sector whose bytes are in sector_
          fs,         \* fat_type_, fat_sector_, cluster_size_, ...
          mounted,    \* has Init returned FFR_OK?
          handles,    \* the program's handles
          call,       \* the call in progress, and where it is
          returned,   \* what the last call returned
          found,      \* for each handle, the entries Next has returned
          file,       \* the entry that was opened
          data        \* the bytes Read has stored, since then

memory == <<fetched, held>>
history == <<found, file, data>>
vars == <<memory, fs, mounted, handles, call, returned, history>>

-----------------------------------------------------------------------------
(* The disk.                                                               *)

EndEntry == [name |-> "", kind |-> "end", first |-> 0, size |-> 0]
EntryAt(place) == IF place \in DOMAIN Entries THEN Entries[place] ELSE EndEntry

\* The FAT entry at index i of a sector.
LinkAt(sector, i) ==
  LET c == (sector - FatStart) * FatEntries + i
  IN  IF c \in DOMAIN Link THEN Link[c] ELSE 0

-----------------------------------------------------------------------------
(* Calls, and the media.                                                   *)

Nothing == [op |-> "none", status |-> "OK", count |-> 0]
NoCall == [op |-> "none", at |-> "none"]
FFR_ERROR_READ == 2
h == call.h
handle == handles[h]

Begin(c) == call = NoCall /\ call' = c
At(place) == call.at = place
GoTo(place) == call' = [call EXCEPT !.at = place] /\ UNCHANGED returned
\* What a call returns, a status or the count of Read.
Return(status, count) ==
  /\ call' = NoCall
  /\ returned' = [op |-> call.op, status |-> status, count |-> count]

\* A call that returns before it has done anything.
Refuse(op, status) ==
  /\ mounted /\ call = NoCall
  /\ returned' = [op |-> op, status |-> status, count |-> 0]
  /\ UNCHANGED <<memory, fs, mounted, handles, call, history>>

\* Media::ReadSectors and ReadSector.
ReadSector(sector) ==
  /\ sector \in 0 .. NumSectors - 1
  /\ held' = sector
  /\ fetched' = IF Safe THEN sector ELSE fetched
ReadFails == UNCHANGED memory

-----------------------------------------------------------------------------
(* Init.                                                                   *)

\* The layout read from the boot sector; two FATs are told from one, and in
\* safe mode any number is multiplied.
Layout(boot, at) ==
  LET start == at + boot.reserved
                 + boot.fat_size * IF Safe \/ boot.num_fats = 2
                                   THEN boot.num_fats ELSE 1
  IN  [fat_type |-> boot.fat_type, cluster_size |-> boot.sec_per_cluster,
       fat_sector |-> at + boot.reserved,
       root_dir |-> IF boot.fat_type = "FAT32" THEN boot.root_cluster ELSE start,
       data_sector |-> start + boot.root_entry_count \div SectorEntries]

InitCall ==
  /\ ~mounted
  /\ Begin([op |-> "init", at |-> "boot", sector |-> 0])
  /\ fs' = [fs EXCEPT !.fat_type = "UNKNOWN"]
  /\ UNCHANGED <<memory, mounted, handles, returned, history>>

\* Media::Init, or the reading of sector 0 or of the partition, fails.
InitFails ==
  /\ At("boot")
  /\ ReadFails
  /\ Return("ERROR", 0)
  /\ UNCHANGED <<fs, mounted, handles, history>>

\* FindBootSector: a FAT boot sector, or else the partition table.
FindBootSector ==
  /\ At("boot")
  /\ ReadSector(call.sector)
  /\ IF call.sector = BootAt
     THEN fs' = Layout(Boot, BootAt) /\ mounted' = TRUE /\ Return("OK", 0)
     ELSE /\ call' = [call EXCEPT !.sector = BootAt]
          /\ UNCHANGED <<fs, mounted, returned>>
  /\ UNCHANGED <<handles, history>>

-----------------------------------------------------------------------------
(* What Next, Open and Read share.                                         *)

ClusterToSector(cluster) ==
  (cluster - 2) * fs.cluster_size + fs.data_sector
IsValidCluster(cluster) == cluster \in 2 .. MaxCluster

\* A handle whose sector has to be in memory is checked in safe mode only.
Entrance == IF Safe THEN "sync" ELSE "loop"

FinishForgets(copied, remaining) ==     \* faulty: file_size is not updated
  Return("OK", copied) /\ UNCHANGED handles

\* The end of Read: what is left of the file is stored in its entry.
Finish(copied, remaining) ==
  /\ handles' = [handles EXCEPT ![h].entry.size = remaining]
  /\ Return("OK", copied)

\* A failed access after SyncCache: Read returns what it has got so far, and
\* Open by name takes any error of Next for the end of the directory.
GiveUpAsEnd ==              \* faulty: Next reports a failure as the end
  IF call.op = "read"
  THEN Finish(call.copied, call.remaining)
  ELSE /\ Return(IF call.op = "next" THEN "NO_MORE_FILES"
                                     ELSE "FILE_NOT_FOUND", 0)
       /\ UNCHANGED handles

TryAgain == GoTo("loop") /\ UNCHANGED handles       \* faulty: no break

GiveUp == IF call.op = "read"
          THEN Finish(call.copied, call.remaining)
          ELSE /\ Return(IF call.op = "next" THEN "ERROR_READ"
                                             ELSE "FILE_NOT_FOUND", 0)
               /\ UNCHANGED handles

\* SyncCache.
SyncSkipped ==                            \* faulty: the sector is taken for granted
  /\ At("sync")
  /\ UNCHANGED memory /\ GoTo("loop")
  /\ UNCHANGED <<fs, mounted, handles, history>>

SyncCache ==
  /\ At("sync")
  /\ IF fetched = handle.current_sector
     THEN UNCHANGED memory
     ELSE ReadSector(handle.current_sector)
  /\ GoTo("loop")
  /\ UNCHANGED <<fs, mounted, handles, history>>

\* Read returns the error code where the caller expects a count.
SyncFails ==
  /\ At("sync") /\ fetched # handle.current_sector
  /\ ReadFails
  /\ IF call.op = "read" THEN Return("OK", FFR_ERROR_READ) /\ UNCHANGED handles
                         ELSE GiveUp
  /\ UNCHANGED <<fs, mounted, history>>

\* ReadNextSector is called at the start of a sector; by Read, while there is
\* something to read.
ReadsMore == call.op = "read" /\ call.size > 0 /\ call.remaining > 0
NeedsSector ==
  IF call.op = "read" THEN ReadsMore /\ handle.cursor = 0
                      ELSE handle.cursor % SectorEntries = 0
\* It follows the FAT at the end of a cluster; the root directory of a FAT16
\* is no cluster.
AtClusterEnd == /\ handle.cluster # 0
                /\ handle.cluster_position = fs.cluster_size

FatSectorOf(cluster) == fs.fat_sector + cluster \div FatEntries

SectorKept ==                   \* faulty: goes on to the sector behind
  /\ At("loop") /\ NeedsSector /\ AtClusterEnd
  /\ ReadSector(FatSectorOf(handle.cluster))
  /\ LET next == LinkAt(held', handle.cluster % FatEntries)
     IN  IF IsValidCluster(next)
         THEN /\ handles' = [handles EXCEPT
                   ![h].cluster = next,
                   ![h].cluster_position = 0]
              /\ GoTo("loop")
         ELSE GiveUp
  /\ UNCHANGED <<fs, mounted, history>>

\* NextCluster, and the end of the chain.
FollowLink ==
  /\ At("loop") /\ NeedsSector /\ AtClusterEnd
  /\ ReadSector(FatSectorOf(handle.cluster))
  /\ LET next == LinkAt(held', handle.cluster % FatEntries)
     IN  IF IsValidCluster(next)
         THEN /\ handles' = [handles EXCEPT
                   ![h].cluster = next,
                   ![h].sector = ClusterToSector(next),
                   ![h].cluster_position = 0]
              /\ GoTo("loop")
         ELSE GiveUp
  /\ UNCHANGED <<fs, mounted, history>>

LoadForgotten ==                \* faulty: current_sector is not updated
  /\ At("loop") /\ NeedsSector /\ ~AtClusterEnd
  /\ ReadSector(handle.sector)
  /\ handles' = [handles EXCEPT ![h].sector = @ + 1,
                                ![h].cluster_position = @ + 1]
  /\ GoTo("loaded")
  /\ UNCHANGED <<fs, mounted, history>>

LoadSector ==
  /\ At("loop") /\ NeedsSector /\ ~AtClusterEnd
  /\ ReadSector(handle.sector)
  /\ handles' = [handles EXCEPT
       ![h].current_sector = IF Safe THEN handle.sector ELSE @,
       ![h].sector = @ + 1,
       ![h].cluster_position = @ + 1]
  /\ GoTo("loaded")
  /\ UNCHANGED <<fs, mounted, history>>

\* Either of the two accesses fails.
NextSectorFails ==
  /\ At("loop") /\ NeedsSector
  /\ ReadFails
  /\ GiveUp
  /\ UNCHANGED <<fs, mounted, history>>

InMemory == At("loaded") \/ (At("loop") /\ ~NeedsSector)

-----------------------------------------------------------------------------
(* Directories.                                                            *)

NewHandle == [type |-> "dir", cluster_position |-> 0, cursor |-> 0,
              cluster |-> 0, sector |-> 0, current_sector |-> 0,
              entry |-> EndEntry]
RootHandle ==
  IF fs.fat_type = "FAT32"
  THEN [NewHandle EXCEPT !.cluster = fs.root_dir,
                         !.sector = ClusterToSector(fs.root_dir)]
  ELSE [NewHandle EXCEPT !.sector = fs.root_dir]

OpenRootDir(i) ==
  /\ mounted /\ call = NoCall
  /\ handles' = [handles EXCEPT ![i] = RootHandle]
  /\ found' = [found EXCEPT ![i] = << >>]
  /\ UNCHANGED <<memory, fs, mounted, call, returned, file, data>>

\* Without the checks of safe mode, the program calls Next on directories and
\* Read on files only.
NextCall(i) ==
  /\ mounted
  /\ handles[i].type = "dir"
  /\ Begin([op |-> "next", h |-> i, at |-> Entrance])
  /\ UNCHANGED <<memory, fs, mounted, handles, returned, history>>

NextRefused(i) ==
  /\ Safe /\ handles[i].type = "file"
  /\ Refuse("next", "NO_MORE_FILES")

\* Open by name, which starts with OpenRootDir.
OpenCall(i, name) ==
  /\ mounted
  /\ Begin([op |-> "open", h |-> i, at |-> Entrance, name |-> name])
  /\ handles' = [handles EXCEPT ![i] = RootHandle]
  /\ found' = [found EXCEPT ![i] = << >>]
  /\ UNCHANGED <<memory, fs, mounted, returned, file, data>>

\* Volumes are skipped, and "." and "..".  The mark of a deleted file, 0xe5,
\* is compared with a char, which is signed and never equal to it.
SkipsOnlyDots(entry) == entry.kind = "dot"           \* faulty
Skipped(entry) == entry.kind \in {"volume", "dot"}

\* Open by handle makes it the handle of a file, unless the entry is none.
IsFile(entry) == entry.kind \in {"file", "deleted"}
Opens(entry) == /\ Safe => IsFile(entry)
                /\ IsValidCluster(entry.first)
FileHandle(old) ==
  [old EXCEPT !.type = "file", !.cluster = old.entry.first,
              !.cluster_position = 0,
              !.sector = ClusterToSector(old.entry.first), !.cursor = 0]

\* One turn of the loop of Next, from the copying of an entry on, and what
\* Open does with the entry that Next has returned.
ScanEntry ==
  /\ call.op \in {"next", "open"} /\ InMemory
  /\ LET entry == EntryAt(<<held, handle.cursor % SectorEntries>>)
         scanned == [handle EXCEPT !.cursor = @ + 1, !.entry = entry]
         match == call.op = "open" /\ entry.name = call.name
     IN
     CASE entry.kind = "end" ->
            /\ handles' = [handles EXCEPT ![h] = scanned]
            /\ Return(IF call.op = "next" THEN "NO_MORE_FILES"
                                          ELSE "FILE_NOT_FOUND", 0)
            /\ UNCHANGED history
       [] entry.kind # "end" /\ Skipped(entry) ->
            /\ handles' = [handles EXCEPT ![h] = scanned]
            /\ GoTo("loop")
            /\ UNCHANGED history
       [] entry.kind # "end" /\ ~Skipped(entry) /\ match ->
            /\ found' = [found EXCEPT ![h] = Append(@, entry)]
            /\ IF Opens(entry)
               THEN /\ handles' = [handles EXCEPT ![h] = FileHandle(scanned)]
                    /\ file' = [file EXCEPT ![h] = entry]
                    /\ data' = [data EXCEPT ![h] = << >>]
                    /\ Return("OK", 0)
               ELSE /\ handles' = [handles EXCEPT ![h] = scanned]
                    /\ Return("BAD_FILE", 0)
                    /\ UNCHANGED <<file, data>>
       [] OTHER ->
            /\ handles' = [handles EXCEPT ![h] = scanned]
            /\ found' = [found EXCEPT ![h] = Append(@, entry)]
            /\ IF call.op = "next" THEN Return("OK", 0) ELSE GoTo(Entrance)
            /\ UNCHANGED <<file, data>>
  /\ UNCHANGED <<memory, fs, mounted>>

\* Open of the handle that Next has just returned.
OpenHandle(i) ==
  /\ mounted /\ call = NoCall
  /\ handles[i].type = "dir"
  /\ found[i] # << >> /\ handles[i].entry = Last(found[i])
  /\ Opens(handles[i].entry)
  /\ handles' = [handles EXCEPT ![i] = FileHandle(handles[i])]
  /\ file' = [file EXCEPT ![i] = handles[i].entry]
  /\ data' = [data EXCEPT ![i] = << >>]
  /\ returned' = [op |-> "open", status |-> "OK", count |-> 0]
  /\ UNCHANGED <<memory, fs, mounted, call, found>>

OpenRefused(i) ==
  /\ \/ Safe /\ handles[i].type = "file"
     \/ /\ handles[i].type = "dir"
        /\ found[i] # << >> /\ handles[i].entry = Last(found[i])
        /\ ~Opens(handles[i].entry)
  /\ Refuse("open", "BAD_FILE")

-----------------------------------------------------------------------------
(* Files.                                                                  *)

ReadCall(i, size) ==
  /\ mounted
  /\ handles[i].type = "file"
  /\ Begin([op |-> "read", h |-> i, at |-> Entrance, size |-> size,
            copied |-> 0, remaining |-> handles[i].entry.size])
  /\ UNCHANGED <<memory, fs, mounted, handles, returned, history>>

ReadRefused(i) ==
  /\ Safe /\ handles[i].type = "dir"
  /\ Refuse("read", "OK")

Least(a, b) == IF a < b THEN a ELSE b
CursorKept(cursor) == cursor                 \* faulty: never wraps
Wrapped(cursor) == IF cursor = SectorBytes THEN 0 ELSE cursor

\* One turn of the loop of Read, once the sector is in memory.
ReadCopy ==
  /\ ReadsMore /\ InMemory
  /\ LET readable == Least(SectorBytes - handle.cursor,
                           Least(call.size, call.remaining))
         bytes == [i \in 1 .. readable |-> <<held, handle.cursor + i - 1>>]
     IN  /\ data' = [data EXCEPT ![h] = @ \o bytes]
         /\ handles' = [handles EXCEPT ![h].cursor = Wrapped(@ + readable)]
         /\ call' = [call EXCEPT !.at = "loop", !.size = @ - readable,
                                 !.copied = @ + readable,
                                 !.remaining = @ - readable]
  /\ UNCHANGED <<memory, fs, mounted, returned, found, file>>

ReadFinish ==
  /\ call.op = "read" /\ At("loop") /\ ~ReadsMore
  /\ Finish(call.copied, call.remaining)
  /\ UNCHANGED <<memory, fs, mounted, history>>

-----------------------------------------------------------------------------
Init ==
  /\ fetched = 0 /\ held = 0
  /\ fs = [fat_type |-> "UNKNOWN", cluster_size |-> 0, fat_sector |-> 0,
           root_dir |-> 0, data_sector |-> 0]
  /\ mounted = FALSE
  /\ handles = [i \in Handles |-> [NewHandle EXCEPT !.type = "unused"]]
  /\ call = NoCall
  /\ returned = Nothing
  /\ found = [i \in Handles |-> << >>]
  /\ file = [i \in Handles |-> EndEntry]
  /\ data = [i \in Handles |-> << >>]

Step == \/ FindBootSector
        \/ InitFails
        \/ SyncCache
        \/ SyncFails
        \/ FollowLink
        \/ LoadSector
        \/ NextSectorFails
        \/ ScanEntry
        \/ ReadCopy
        \/ ReadFinish

Program == \/ InitCall
           \/ \E i \in Handles : \/ OpenRootDir(i)
                                 \/ NextCall(i)
                                 \/ OpenHandle(i)
                                 \/ NextRefused(i) \/ OpenRefused(i) \/ ReadRefused(i)
                                 \/ \E name \in Wanted : OpenCall(i, name)
                                 \/ \E size \in Sizes : ReadCall(i, size)

Next == Program \/ Step

Spec == Init /\ [][Next]_vars

\* A call goes on: the media answers, one way or the other.
FairSpec == Spec /\ WF_vars(Step)

-----------------------------------------------------------------------------
(* Properties.  What is on the disk, said without the reader's arithmetic. *)

Clusters == 2 .. MaxCluster

\* The cluster that the FAT gives after another, or 0 behind the last one; and
\* the one that k links lead to.
NextOf(cluster) ==
  IF cluster \in Clusters \cap DOMAIN Link /\ Link[cluster] \in Clusters
  THEN Link[cluster] ELSE 0
Walk(first, k) ==
  LET c[j \in 0 .. k] == IF j = 0 THEN first ELSE NextOf(c[j - 1]) IN c[k]

\* Where the n-th item of a chain is, counted from 0, per to a sector.
ChainCluster(first, per, n) == Walk(first, (n \div per) \div Boot.sec_per_cluster)
ChainPlace(first, per, n) ==
  <<DataStart + (ChainCluster(first, per, n) - 2) * Boot.sec_per_cluster
      + ((n \div per) % Boot.sec_per_cluster), n % per>>

\* The n-th slot of the root directory, and how many there may be: a chain has
\* each cluster once at most.
SlotPlace(n) ==
  IF Boot.fat_type = "FAT32" THEN ChainPlace(Boot.root_cluster, SectorEntries, n)
  ELSE <<RootStart + n \div SectorEntries, n % SectorEntries>>
InRoot(n) ==
  IF Boot.fat_type = "FAT32"
  THEN ChainCluster(Boot.root_cluster, SectorEntries, n) # 0
  ELSE n < Boot.root_entry_count
Slot(n) == IF InRoot(n) THEN EntryAt(SlotPlace(n)) ELSE EndEntry
RootSlots ==
  IF Boot.fat_type = "FAT32"
  THEN MaxCluster * Boot.sec_per_cluster * SectorEntries
  ELSE Boot.root_entry_count

\* The entries a directory listing has: up to the end of the directory, and
\* neither volumes, nor dots, nor deleted files.
RootSize ==
  LET ends == {n \in 0 .. RootSlots : n = RootSlots \/ Slot(n).kind = "end"}
  IN  CHOOSE n \in ends : \A m \in ends : n <= m
Listed(n) ==
  LET l[j \in 0 .. n] ==
        IF j = 0 THEN << >>
        ELSE IF Slot(j - 1).kind \in {"file", "dir"}
             THEN Append(l[j - 1], Slot(j - 1)) ELSE l[j - 1]
  IN  l[n]
Listing == Listed(RootSize)

\* The disks on which directories are read in order.  The areas are where the
\* boot sector says, and the root directory has an end mark or is a chain that
\* ends; it has no deleted files, and nothing behind its end.
DiskAsExpected ==
  /\ FatStart = BootAt + Boot.reserved
  /\ RootStart = FatStart + Boot.num_fats * Boot.fat_size
  /\ DataStart = RootStart + Boot.root_entry_count \div SectorEntries
  /\ IF Boot.fat_type = "FAT32"
     THEN /\ Boot.root_cluster \in Clusters
          /\ Walk(Boot.root_cluster, MaxCluster) = 0
          /\ \A n \in RootSize .. RootSlots : Slot(n).kind = "end"
     ELSE /\ RootSize < Boot.root_entry_count
          /\ \A n \in RootSize .. NumSectors * SectorEntries :
               EntryAt(SlotPlace(n)).kind = "end"
  /\ \A n \in 0 .. RootSize : Slot(n).kind # "deleted"

Handle == [type : {"unused", "dir", "file"}, cluster_position : Nat,
           cursor : Nat, cluster : Nat, sector : Int, current_sector : Int,
           entry : DirEntry]
FileSystem == [fat_type : {"UNKNOWN", "FAT16", "FAT32"}, cluster_size : Nat,
               fat_sector : Nat, root_dir : Nat, data_sector : Nat]

Calls ==
  LET CallPlaces == {"sync", "loop", "loaded"}
  IN  {NoCall} \cup [op : {"init"}, at : {"boot"}, sector : Nat]
      \cup [op : {"next"}, h : Handles, at : CallPlaces]
      \cup [op : {"open"}, h : Handles, at : CallPlaces, name : Wanted]
      \cup [op : {"read"}, h : Handles, at : CallPlaces, size : Nat,
            copied : Nat, remaining : Nat]

\* The cursor of a file is in the sector, and its cluster is one of the FAT.
TypeOK ==
  /\ fetched \in 0 .. NumSectors - 1 /\ held \in 0 .. NumSectors - 1
  /\ fs \in FileSystem
  /\ handles \in [Handles -> Handle]
  /\ \A i \in Handles : handles[i].type = "file" =>
       /\ handles[i].cursor \in 0 .. SectorBytes - 1
       /\ handles[i].cluster \in Clusters
  /\ file \in [Handles -> DirEntry]
  /\ data \in [Handles -> Seq(Nat \X Nat)]
  /\ call \in Calls

\* A directory is listed in order, no entry skipped or repeated, whatever the
\* other handles do meanwhile and whatever accesses fail.
ListsInOrder == \A i \in Handles : IsPrefix(found[i], Listing)

\* A file is read in order, no byte lost, repeated or taken from elsewhere,
\* nor from behind the end of the file or of its chain.
ReadsInOrder == \A i \in Handles :
  /\ Len(data[i]) <= file[i].size
  /\ \A n \in 1 .. Len(data[i]) :
       /\ ChainCluster(file[i].first, SectorBytes, n - 1) # 0
       /\ data[i][n] = ChainPlace(file[i].first, SectorBytes, n - 1)

\* Between two calls, the handle of a file knows what is left to read.
KnowsTheRest ==
  call = NoCall => \A i \in Handles :
    handles[i].type = "file" =>
      Len(data[i]) + handles[i].entry.size = file[i].size

\* Next reports the end of a directory only when all of it has been listed; a
\* failed access is not taken for the end.
EndStep == call.op = "next" /\ returned'.status = "NO_MORE_FILES"
             => found'[call.h] = Listing

EndIsTheEnd == [][call # NoCall /\ call' = NoCall => EndStep]_vars

\* Every call returns.
CallsReturn == []<>(call = NoCall)

\* Directories and files are read in order.
ReadInOrder == ListsInOrder /\ ReadsInOrder

\* The handles stay sound: their types, and what is left to read.
HandlesSound == TypeOK /\ KnowsTheRest
=============================================================================
