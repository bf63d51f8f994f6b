------------------------- MODULE FatFileReader_proofs -------------------------
(***************************************************************************)
(* Proofs about FatFileReader, for every disk, every number of handles and *)
(* every failure of the media: a handle knows what is left of its file;    *)
(* and on every disk as expected, directories and files are read in order  *)
(* and to their end.                                                       *)
(***************************************************************************)
EXTENDS FatFileReader, RemainderTheorems, SequenceTheorems, TLAPS

-----------------------------------------------------------------------------
(* The inductive invariant.                                                *)

\* A call works on a handle of its kind; Read has not stored anything before
\* its handle's sector is back in memory.
CallInv ==
  /\ call.op \in {"next", "open"} => handles[call.h].type = "dir"
  /\ call.op = "read" =>
       /\ handles[call.h].type = "file"
       /\ call.copied + call.remaining = handles[call.h].entry.size
       /\ call.at = "sync" => call.copied = 0

\* What the call in progress has stored, which the entry does not know yet.
Pending(i) == IF call.op = "read" /\ call.h = i THEN call.copied ELSE 0

RestInv == \A i \in Handles :
  handles[i].type = "file" =>
    Len(data[i]) + handles[i].entry.size = file[i].size + Pending(i)

FileInv == TypeOK /\ CallInv /\ RestInv

-----------------------------------------------------------------------------
(* Helpers.                                                                *)

\* What a call in progress looks like.
LEMMA CallShapes ==
  ASSUME call \in Calls
  PROVE  /\ call.op \in {"none", "init", "next", "open", "read"}
         /\ call.op \in {"next", "open", "read"} =>
              call.h \in Handles /\ call.at \in {"sync", "loop", "loaded"}
         /\ call.op = "read" =>
              /\ call.size \in Nat /\ call.copied \in Nat
              /\ call.remaining \in Nat
         /\ call.op = "none" => call = NoCall
         /\ call.op = "init" => call.at = "boot" /\ call.sector \in Nat
         /\ At("boot") => call.op = "init"
         /\ call.at \in {"sync", "loop", "loaded"} =>
              call.op \in {"next", "open", "read"}
         /\ \A place \in {"sync", "loop", "loaded"} :
              call.op \in {"next", "open", "read"} =>
                [call EXCEPT !.at = place] \in Calls
BY DEF Calls, NoCall, Nothing, At

\* Handles with other fields.
LEMMA HandleAtCursor ==
  ASSUME NEW x \in Handle, NEW cursor \in Nat
  PROVE  LET y == [x EXCEPT !.cursor = cursor]
         IN  /\ y \in Handle /\ y.type = x.type /\ y.entry = x.entry
             /\ y.cluster = x.cluster /\ y.cursor = cursor
BY DEF Handle

LEMMA HandleAtEntry ==
  ASSUME NEW x \in Handle, NEW cursor \in Nat, NEW entry \in DirEntry
  PROVE  LET y == [x EXCEPT !.cursor = cursor, !.entry = entry]
         IN  y \in Handle /\ y.type = x.type /\ y.entry = entry
BY DEF Handle

LEMMA NewHandleOK ==
  /\ EndEntry \in DirEntry
  /\ NewHandle \in Handle /\ NewHandle.type = "dir"
<1>1. EndEntry \in DirEntry
  BY DEF EndEntry, DirEntry
<1> QED
  BY <1>1 DEF NewHandle, Handle

\* A sector that is read is one of the media.
LEMMA MemoryOK ==
  ASSUME TypeOK, UNCHANGED memory \/ \E sector : ReadSector(sector)
  PROVE  fetched' \in 0 .. NumSectors - 1 /\ held' \in 0 .. NumSectors - 1
BY DEF TypeOK, memory, ReadSector

\* Going on somewhere else in a call changes nothing that FileInv speaks of.
LEMMA GoToKeeps ==
  ASSUME FileInv, NEW place \in {"loop", "loaded"}, GoTo(place),
         call.op \in {"next", "open", "read"},
         handles' = handles, file' = file, data' = data, fs' = fs,
         UNCHANGED memory \/ \E sector : ReadSector(sector)
  PROVE  FileInv'
<1>1. call \in Calls
  BY DEF FileInv, TypeOK
<1>2. call' = [call EXCEPT !.at = place]
  BY DEF GoTo
<1>3. /\ call' \in Calls /\ call'.op = call.op /\ call'.h = call.h
      /\ call'.at = place
      /\ call.op = "read" => call'.copied = call.copied
                             /\ call'.remaining = call.remaining
  BY <1>1, <1>2, CallShapes DEF Calls, NoCall, Nothing
<1>4. TypeOK'
  BY <1>3, MemoryOK DEF FileInv, TypeOK
<1>5. CallInv'
  BY <1>3 DEF FileInv, CallInv
<1>6. RestInv'
  BY <1>3, <1>1, CallShapes DEF FileInv, RestInv, Pending
<1> QED
  BY <1>4, <1>5, <1>6 DEF FileInv
\* Read is left with the count of what it has stored, and the entry is told.
LEMMA FinishKeeps ==
  ASSUME FileInv, call.op = "read", Finish(call.copied, call.remaining),
         file' = file, data' = data, fs' = fs,
         UNCHANGED memory \/ \E sector : ReadSector(sector)
  PROVE  FileInv'
<1> DEFINE left == [handles[call.h].entry EXCEPT !.size = call.remaining]
           x == [handles[call.h] EXCEPT !.entry = left]
<1>1. /\ call.h \in Handles /\ call.copied \in Nat /\ call.remaining \in Nat
      /\ call.copied + call.remaining = handles[call.h].entry.size
  BY CallShapes DEF FileInv, TypeOK, CallInv
<1>2. /\ call' = NoCall
      /\ handles' = [handles EXCEPT ![call.h] = x]
  BY DEF Finish, Return, h
<1>3. /\ handles' \in [Handles -> Handle]
      /\ \A i \in Handles :
           /\ handles'[i].type = handles[i].type
           /\ handles'[i].cursor = handles[i].cursor
           /\ handles'[i].cluster = handles[i].cluster
           /\ i # call.h => handles'[i].entry = handles[i].entry
      /\ handles'[call.h].entry.size = call.remaining
  <2>1. handles[call.h] \in Handle /\ handles[call.h].entry \in DirEntry
    BY <1>1 DEF FileInv, TypeOK, Handle
  <2>2. left \in DirEntry /\ left.size = call.remaining
    BY <1>1, <2>1 DEF DirEntry
  <2> HIDE DEF left
  <2>3. /\ x \in Handle /\ x.entry = left /\ x.type = handles[call.h].type
        /\ x.cursor = handles[call.h].cursor
        /\ x.cluster = handles[call.h].cluster
    BY <2>1, <2>2 DEF Handle
  <2> HIDE DEF x
  <2> QED
    BY <1>1, <1>2, <2>2, <2>3 DEF FileInv, TypeOK
<1>4. TypeOK'
  BY <1>2, <1>3, MemoryOK DEF FileInv, TypeOK, Calls
<1>5. CallInv'
  BY <1>2 DEF CallInv, NoCall, Nothing
<1>6. RestInv'
  <2> SUFFICES ASSUME NEW i \in Handles, handles'[i].type = "file"
               PROVE  Len(data[i]) + handles'[i].entry.size = file[i].size + 0
    BY <1>2 DEF RestInv, Pending, NoCall, Nothing
  <2>1. Len(data[i]) + handles[i].entry.size = file[i].size + Pending(i)
    BY <1>3 DEF FileInv, RestInv
  <2>2. /\ Len(data[i]) \in Nat /\ handles[i].entry.size \in Nat
        /\ file[i].size \in Nat
    BY LenProperties DEF FileInv, TypeOK, Handle, DirEntry
  <2>3. CASE i = call.h
    <3> DEFINE read == Len(data[i])
               all == file[i].size
               copied == call.copied
               remaining == call.remaining
               size == handles[i].entry.size
    <3>1. /\ {read, all, copied, remaining, size} \subseteq Nat
          /\ copied + remaining = size /\ read + size = all + copied
      BY <1>1, <2>1, <2>2, <2>3 DEF Pending
    <3>2. handles'[i].entry.size = remaining
      BY <1>3, <2>3
    <3> HIDE DEF read, all, copied, remaining, size
    <3>3. read + remaining = all + 0
      BY <3>1
    <3> QED
      BY <3>2, <3>3 DEF read, all
  <2>4. CASE i # call.h
    BY <1>3, <2>1, <2>2, <2>4 DEF Pending
  <2> QED
    BY <2>3, <2>4
<1> QED
  BY <1>4, <1>5, <1>6 DEF FileInv

\* A call that is left without having touched the handles.
LEMMA ReturnKeeps ==
  ASSUME FileInv, call' = NoCall, handles' = handles,
         call.op # "read" \/ call.copied = 0,
         file' = file, data' = data, fs' \in FileSystem,
         UNCHANGED memory \/ \E sector : ReadSector(sector)
  PROVE  FileInv'
<1>1. TypeOK'
  BY MemoryOK DEF FileInv, TypeOK, Calls
<1>2. CallInv'
  BY DEF CallInv, NoCall, Nothing
<1>3. RestInv'
  BY DEF FileInv, RestInv, Pending, NoCall, Nothing
<1> QED
  BY <1>1, <1>2, <1>3 DEF FileInv

LEMMA GiveUpKeeps ==
  ASSUME FileInv, call.op \in {"next", "open", "read"}, GiveUp,
         file' = file, data' = data, fs' = fs,
         UNCHANGED memory \/ \E sector : ReadSector(sector)
  PROVE  FileInv'
<1>1. CASE call.op = "read"
  BY <1>1, FinishKeeps DEF GiveUp
<1>2. CASE call.op # "read"
  <2>1. call' = NoCall /\ handles' = handles /\ fs' \in FileSystem
    BY <1>2 DEF GiveUp, Return, FileInv, TypeOK
  <2> QED
    BY <1>2, <2>1, ReturnKeeps
<1> QED
  BY <1>1, <1>2

-----------------------------------------------------------------------------
(* Init: the layout of the disk.                                           *)

LEMMA LayoutOK ==
  ASSUME NEW at \in Nat
  PROVE  Layout(Boot, at) \in FileSystem
<1> USE SizesAssumption, BootAssumption
<1> DEFINE fats == IF Safe \/ Boot.num_fats = 2 THEN Boot.num_fats ELSE 1
           start == at + Boot.reserved + Boot.fat_size * fats
<1>1. fats \in Nat /\ Boot.fat_size \in Nat
  OBVIOUS
<1>2. Boot.fat_size * fats \in Nat
  BY <1>1, Z3
<1>3. /\ start \in Nat /\ Boot.root_entry_count \div SectorEntries \in Nat
      /\ at + Boot.reserved \in Nat
  BY <1>1, <1>2, Z3
<1>4. /\ start + Boot.root_entry_count \div SectorEntries \in Nat
      /\ Boot.sec_per_cluster \in Nat /\ Boot.root_cluster \in Nat
      /\ Boot.fat_type \in {"FAT16", "FAT32"}
  BY <1>3
<1> HIDE DEF fats
<1> QED
  BY <1>3, <1>4 DEF Layout, FileSystem, fats

LEMMA FindBootSectorKeeps ==
  ASSUME FileInv, FindBootSector
  PROVE  FileInv'
<1>1. call \in Calls /\ call.op = "init" /\ call.sector \in Nat
  BY CallShapes DEF FindBootSector, FileInv, TypeOK
<1>2. CASE call.sector = BootAt
  <2>1. /\ fs' \in FileSystem /\ call' = NoCall
        /\ \E sector : ReadSector(sector)
        /\ UNCHANGED <<handles, file, data>>
    BY <1>2, LayoutOK, SizesAssumption DEF FindBootSector, Return, history
  <2> QED
    BY <1>1, <2>1, ReturnKeeps
<1>3. CASE call.sector # BootAt
  <2>1. /\ call' = [call EXCEPT !.sector = BootAt]
        /\ \E sector : ReadSector(sector)
        /\ UNCHANGED <<fs, handles, file, data>>
    BY <1>3 DEF FindBootSector, history
  <2>2. call' \in Calls /\ call'.op = "init"
    BY <1>1, <2>1, SizesAssumption DEF Calls, NoCall, Nothing
  <2>3. TypeOK'
    BY <2>1, <2>2, MemoryOK DEF FileInv, TypeOK
  <2> QED
    BY <1>1, <2>1, <2>2, <2>3 DEF FileInv, CallInv, RestInv, Pending
<1> QED
  BY <1>2, <1>3
-----------------------------------------------------------------------------
(* What Next, Open and Read share.                                         *)

LEMMA SyncCacheKeeps ==
  ASSUME FileInv, SyncCache
  PROVE  FileInv'
<1>1. /\ call.op \in {"next", "open", "read"}
      /\ GoTo("loop")
      /\ UNCHANGED memory \/ \E sector : ReadSector(sector)
      /\ handles' = handles /\ file' = file /\ data' = data /\ fs' = fs
  BY CallShapes DEF SyncCache, At, FileInv, TypeOK, history
<1> QED
  BY <1>1, GoToKeeps

LEMMA SyncFailsKeeps ==
  ASSUME FileInv, SyncFails
  PROVE  FileInv'
<1>1. /\ call.op \in {"next", "open", "read"} /\ call.at = "sync"
      /\ UNCHANGED memory
      /\ file' = file /\ data' = data /\ fs' = fs
  BY CallShapes DEF SyncFails, At, FileInv, TypeOK, history, ReadFails
<1>2. CASE call.op = "read"
  <2>1. /\ call.copied = 0 /\ call' = NoCall /\ handles' = handles
        /\ fs' \in FileSystem
    BY <1>1, <1>2 DEF SyncFails, Return, FileInv, CallInv, TypeOK
  <2> QED
    BY <1>1, <2>1, ReturnKeeps
<1>3. CASE call.op # "read"
  BY <1>1, <1>3, GiveUpKeeps DEF SyncFails
<1> QED
  BY <1>2, <1>3

\* The handle of the call moves to another sector, in the same file.
LEMMA MoveKeeps ==
  ASSUME FileInv, NEW x \in Handle, NEW place \in {"loop", "loaded"},
         call.op \in {"next", "open", "read"}, GoTo(place),
         handles' = [handles EXCEPT ![call.h] = x],
         x.type = handles[call.h].type, x.entry = handles[call.h].entry,
         x.cursor = handles[call.h].cursor,
         x.cluster = handles[call.h].cluster \/ x.cluster \in Clusters,
         file' = file, data' = data, fs' = fs,
         UNCHANGED memory \/ \E sector : ReadSector(sector)
  PROVE  FileInv'
<1>1. call \in Calls /\ call.h \in Handles
  BY CallShapes DEF FileInv, TypeOK
<1>2. /\ call' \in Calls /\ call'.op = call.op /\ call'.h = call.h
      /\ call'.at = place
      /\ call.op = "read" => call'.copied = call.copied
                             /\ call'.remaining = call.remaining
  BY <1>1, CallShapes DEF Calls, NoCall, Nothing, GoTo
<1>3. /\ handles' \in [Handles -> Handle]
      /\ \A i \in Handles :
           /\ handles'[i].type = handles[i].type
           /\ handles'[i].entry = handles[i].entry
           /\ handles'[i].cursor = handles[i].cursor
           /\ \/ handles'[i].cluster = handles[i].cluster
              \/ handles'[i].cluster \in Clusters
  BY <1>1 DEF FileInv, TypeOK
<1>4. TypeOK'
  BY <1>2, <1>3, MemoryOK DEF FileInv, TypeOK
<1>5. CallInv'
  BY <1>1, <1>2, <1>3 DEF FileInv, CallInv
<1>6. RestInv'
  BY <1>1, <1>2, <1>3 DEF FileInv, RestInv, Pending
<1> QED
  BY <1>4, <1>5, <1>6 DEF FileInv

\* A sector of a cluster is designated by an integer, and a link by a number.
LEMMA SectorsOK ==
  ASSUME TypeOK, NEW cluster \in Nat
  PROVE  /\ ClusterToSector(cluster) \in Int
         /\ \A i : LinkAt(held', i) \in Nat
<1>1. /\ fs.cluster_size \in Nat /\ fs.data_sector \in Nat
      /\ cluster - 2 \in Int
  BY DEF TypeOK, FileSystem
<1>2. (cluster - 2) * fs.cluster_size \in Int
  BY <1>1, Z3
<1>3. ClusterToSector(cluster) \in Int
  BY <1>1, <1>2 DEF ClusterToSector
<1>4. \A i : LinkAt(held', i) \in Nat
  BY DiskAssumption DEF LinkAt
<1> QED
  BY <1>3, <1>4

LEMMA FollowLinkKeeps ==
  ASSUME FileInv, FollowLink
  PROVE  FileInv'
<1> DEFINE next == LinkAt(held', handle.cluster % FatEntries)
           x == [handles[call.h] EXCEPT !.cluster = next,
                                        !.sector = ClusterToSector(next),
                                        !.cluster_position = 0]
<1>1. /\ call.op \in {"next", "open", "read"} /\ call.h \in Handles
      /\ \E sector : ReadSector(sector)
      /\ file' = file /\ data' = data /\ fs' = fs
      /\ handles[call.h] \in Handle
  BY CallShapes DEF FollowLink, At, FileInv, TypeOK, history
<1>2. next \in Nat /\ ClusterToSector(next) \in Int
  BY SectorsOK DEF FileInv
<1> HIDE DEF next
<1>3. CASE IsValidCluster(next)
  <2>1. GoTo("loop") /\ handles' = [handles EXCEPT ![call.h] = x]
    BY <1>1, <1>3 DEF FollowLink, h, next
  <2>2. /\ x \in Handle /\ x.type = handles[call.h].type
        /\ x.entry = handles[call.h].entry
        /\ x.cursor = handles[call.h].cursor /\ x.cluster \in Clusters
    BY <1>1, <1>2, <1>3 DEF Handle, IsValidCluster, Clusters
  <2> HIDE DEF x
  <2> QED
    BY <1>1, <2>1, <2>2, MoveKeeps
<1>4. CASE ~IsValidCluster(next)
  BY <1>1, <1>4, GiveUpKeeps DEF FollowLink, next
<1> QED
  BY <1>3, <1>4

LEMMA LoadSectorKeeps ==
  ASSUME FileInv, LoadSector
  PROVE  FileInv'
<1> DEFINE x == [handles[call.h] EXCEPT
                   !.current_sector = IF Safe THEN handle.sector ELSE @,
                   !.sector = @ + 1,
                   !.cluster_position = @ + 1]
<1>1. /\ call.op \in {"next", "open", "read"} /\ call.h \in Handles
      /\ \E sector : ReadSector(sector)
      /\ file' = file /\ data' = data /\ fs' = fs
      /\ handles[call.h] \in Handle
      /\ GoTo("loaded")
  BY CallShapes DEF LoadSector, At, FileInv, TypeOK, history
<1>2. handles' = [handles EXCEPT ![call.h] = x]
  BY <1>1 DEF LoadSector, h, handle
<1>3. /\ x \in Handle /\ x.type = handles[call.h].type
      /\ x.entry = handles[call.h].entry
      /\ x.cursor = handles[call.h].cursor
      /\ x.cluster = handles[call.h].cluster
  <2> DEFINE y == handles[call.h]
  <2>1. PICK current \in Int : x = [y EXCEPT
                                     !.current_sector = current,
                                     !.sector = y.sector + 1,
                                     !.cluster_position = y.cluster_position + 1]
    <3>1. handle.sector \in Int /\ y.current_sector \in Int
      BY <1>1 DEF Handle, handle, h
    <3>2. CASE Safe
      BY <3>1, <3>2
    <3>3. CASE ~Safe
      BY <3>1, <3>3
    <3> QED
      BY <3>2, <3>3
  <2>2. y \in Handle /\ y.sector + 1 \in Int /\ y.cluster_position + 1 \in Nat
    BY <1>1 DEF Handle
  <2> DEFINE sector == y.sector + 1
             position == y.cluster_position + 1
             z == [y EXCEPT !.current_sector = current, !.sector = sector,
                            !.cluster_position = position]
  <2>3. x = z /\ sector \in Int /\ position \in Nat
    BY <2>1, <2>2
  <2> HIDE DEF x, y, sector, position
  <2>4. /\ z \in Handle /\ z.type = y.type /\ z.entry = y.entry
        /\ z.cursor = y.cursor /\ z.cluster = y.cluster
    BY <2>2, <2>3 DEF Handle
  <2> QED
    BY <2>3, <2>4 DEF y
<1> HIDE DEF x
<1> QED
  BY <1>1, <1>2, <1>3, MoveKeeps

LEMMA NextSectorFailsKeeps ==
  ASSUME FileInv, NextSectorFails
  PROVE  FileInv'
<1>1. /\ call.op \in {"next", "open", "read"} /\ GiveUp
      /\ UNCHANGED memory
      /\ file' = file /\ data' = data /\ fs' = fs
  BY CallShapes DEF NextSectorFails, At, FileInv, TypeOK, history, ReadFails
<1> QED
  BY <1>1, GiveUpKeeps
-----------------------------------------------------------------------------
(* Directories, and the opening of a file.                                 *)

\* A handle becomes that of a directory, or of a file of which nothing has
\* been read.
LEMMA SetKeeps ==
  ASSUME FileInv, NEW i \in Handles, NEW x \in Handle,
         call.op # "read", call' \in Calls, call'.op # "read",
         call'.op \in {"next", "open"} => call'.h = i /\ x.type = "dir",
         handles' = [handles EXCEPT ![i] = x],
         \/ x.type = "dir" /\ file' = file /\ data' = data
         \/ /\ x.type = "file" /\ x.cursor = 0 /\ x.cluster \in Clusters
            /\ file' = [file EXCEPT ![i] = x.entry]
            /\ data' = [data EXCEPT ![i] = << >>],
         fs' = fs,
         UNCHANGED memory \/ \E sector : ReadSector(sector)
  PROVE  FileInv'
<1>1. handles' \in [Handles -> Handle]
  BY DEF FileInv, TypeOK
<1>2. x.entry \in DirEntry /\ << >> \in Seq(Nat \X Nat) /\ Len(<< >>) = 0
  BY DEF Handle
<1>3. file' \in [Handles -> DirEntry] /\ data' \in [Handles -> Seq(Nat \X Nat)]
  BY <1>2 DEF FileInv, TypeOK
<1>4. \A j \in Handles : handles'[j].type = "file" =>
        /\ handles'[j].cursor \in 0 .. SectorBytes - 1
        /\ handles'[j].cluster \in Clusters
  BY SizesAssumption DEF FileInv, TypeOK
<1>5. TypeOK'
  BY <1>1, <1>3, <1>4, MemoryOK DEF FileInv, TypeOK
<1>6. CallInv'
  BY DEF FileInv, TypeOK, CallInv
<1>7. RestInv'
  <2> SUFFICES ASSUME NEW j \in Handles, handles'[j].type = "file"
               PROVE  Len(data'[j]) + handles'[j].entry.size = file'[j].size + 0
    BY DEF RestInv, Pending
  <2>1. CASE j # i
    BY <2>1 DEF FileInv, TypeOK, RestInv, Pending
  <2>2. CASE j = i
    <3>1. /\ handles'[j] = x /\ data'[j] = << >> /\ file'[j] = x.entry
          /\ x.entry.size \in Nat
      BY <2>2, <1>2 DEF FileInv, TypeOK, DirEntry
    <3> QED
      BY <1>2, <3>1
  <2> QED
    BY <2>1, <2>2
<1> QED
  BY <1>5, <1>6, <1>7 DEF FileInv

LEMMA RootHandleOK ==
  ASSUME TypeOK
  PROVE  RootHandle \in Handle /\ RootHandle.type = "dir"
<1>1. fs.root_dir \in Nat /\ ClusterToSector(fs.root_dir) \in Int
  BY SectorsOK DEF TypeOK, FileSystem
<1>2. fs.root_dir \in Int
  BY <1>1
<1> QED
  BY <1>1, <1>2, NewHandleOK DEF RootHandle, Handle

LEMMA FileHandleOK ==
  ASSUME TypeOK, NEW x \in Handle, Opens(x.entry)
  PROVE  /\ FileHandle(x) \in Handle /\ FileHandle(x).type = "file"
         /\ FileHandle(x).cursor = 0 /\ FileHandle(x).cluster \in Clusters
         /\ FileHandle(x).entry = x.entry
<1>1. x.entry.first \in Clusters /\ x.entry.first \in Nat
  BY DEF Opens, IsValidCluster, Clusters, Handle, DirEntry
<1>2. ClusterToSector(x.entry.first) \in Int
  BY <1>1, SectorsOK
<1> QED
  BY <1>1, <1>2 DEF FileHandle, Handle

\* Where ScanEntry leads: back into the loop, or out of the call.
LEMMA ScanEntryLeads ==
  ASSUME ScanEntry
  PROVE  \/ \E status : Return(status, 0)
         \/ GoTo("loop") \/ GoTo(Entrance)
<1> DEFINE entry == EntryAt(<<held, handle.cursor % SectorEntries>>)
           match == call.op = "open" /\ entry.name = call.name
<1> HIDE DEF entry
<1>1. CASE entry.kind = "end"
  BY <1>1 DEF ScanEntry, entry
<1>2. CASE entry.kind # "end" /\ Skipped(entry)
  BY <1>2 DEF ScanEntry, entry
<1>3. CASE entry.kind # "end" /\ ~Skipped(entry) /\ match
  BY <1>3 DEF ScanEntry, entry
<1>4. CASE entry.kind # "end" /\ ~Skipped(entry) /\ ~match
  BY <1>4 DEF ScanEntry, entry
<1> QED
  BY <1>1, <1>2, <1>3, <1>4

\* What a turn of the loop of Next does with the entry.
LEMMA ScanEntryMoves ==
  ASSUME ScanEntry
  PROVE  LET entry == EntryAt(<<held, handle.cursor % SectorEntries>>)
             scanned == [handle EXCEPT !.cursor = @ + 1, !.entry = entry]
         IN  \/ /\ handles' = [handles EXCEPT ![h] = scanned]
                /\ call' = NoCall \/ GoTo("loop") \/ GoTo(Entrance)
                /\ UNCHANGED <<file, data>>
             \/ /\ handles' = [handles EXCEPT ![h] = FileHandle(scanned)]
                /\ Opens(entry) /\ call' = NoCall
                /\ file' = [file EXCEPT ![h] = entry]
                /\ data' = [data EXCEPT ![h] = << >>]
<1> DEFINE entry == EntryAt(<<held, handle.cursor % SectorEntries>>)
           scanned == [handle EXCEPT !.cursor = @ + 1, !.entry = entry]
           match == call.op = "open" /\ entry.name = call.name
<1> HIDE DEF entry, scanned
<1>1. CASE entry.kind = "end"
  BY <1>1 DEF ScanEntry, Return, history, entry, scanned
<1>2. CASE entry.kind # "end" /\ Skipped(entry)
  BY <1>2 DEF ScanEntry, Return, history, entry, scanned
<1>3. CASE entry.kind # "end" /\ ~Skipped(entry) /\ match
  BY <1>3 DEF ScanEntry, Return, history, entry, scanned
<1>4. CASE entry.kind # "end" /\ ~Skipped(entry) /\ ~match
  BY <1>4 DEF ScanEntry, Return, history, entry, scanned
<1> QED
  BY <1>1, <1>2, <1>3, <1>4

LEMMA ScanEntryKeeps ==
  ASSUME FileInv, ScanEntry
  PROVE  FileInv'
<1> DEFINE entry == EntryAt(<<held, handle.cursor % SectorEntries>>)
           scanned == [handle EXCEPT !.cursor = @ + 1, !.entry = entry]
<1>1. /\ call.op \in {"next", "open"} /\ call.h \in Handles
      /\ call \in Calls
      /\ UNCHANGED memory /\ fs' = fs
      /\ handle \in Handle /\ handle.type = "dir"
  BY CallShapes DEF ScanEntry, FileInv, TypeOK, CallInv, handle, h
<1>2. entry \in DirEntry
  BY DiskAssumption DEF EntryAt, EndEntry, DirEntry
<1>3. scanned \in Handle /\ scanned.type = "dir" /\ scanned.entry = entry
  <2> HIDE DEF entry
  <2>1. handle.cursor + 1 \in Nat
    BY <1>1 DEF Handle
  <2>2. scanned = [handle EXCEPT !.cursor = handle.cursor + 1, !.entry = entry]
    OBVIOUS
  <2> HIDE DEF scanned
  <2> QED
    BY <1>1, <1>2, <2>1, <2>2, HandleAtEntry
<1>4. /\ \A place \in {"loop", "sync"} :
           LET c == [call EXCEPT !.at = place]
           IN  c \in Calls /\ c.op = call.op /\ c.h = call.h
      /\ Entrance \in {"loop", "sync"}
  BY <1>1, CallShapes DEF Calls, Entrance
<1>5. NoCall \in Calls /\ NoCall.op = "none"
  BY DEF Calls, NoCall, Nothing
<1>6. \/ /\ handles' = [handles EXCEPT ![h] = scanned]
         /\ call' = NoCall \/ GoTo("loop") \/ GoTo(Entrance)
         /\ UNCHANGED <<file, data>>
      \/ /\ handles' = [handles EXCEPT ![h] = FileHandle(scanned)]
         /\ Opens(entry) /\ call' = NoCall
         /\ file' = [file EXCEPT ![h] = entry]
         /\ data' = [data EXCEPT ![h] = << >>]
  BY ScanEntryMoves, Zenon
<1> HIDE DEF scanned, entry
<1>7. CASE /\ handles' = [handles EXCEPT ![h] = scanned]
           /\ call' = NoCall \/ GoTo("loop") \/ GoTo(Entrance)
           /\ UNCHANGED <<file, data>>
  <2>1. call' \in Calls /\ call'.op # "read"
        /\ (call'.op \in {"next", "open"} => call'.h = call.h)
    BY <1>1, <1>4, <1>5, <1>7 DEF GoTo
  <2> QED
    BY <1>1, <1>3, <1>7, <2>1, SetKeeps DEF h
<1>8. CASE /\ handles' = [handles EXCEPT ![h] = FileHandle(scanned)]
           /\ Opens(entry) /\ call' = NoCall
           /\ file' = [file EXCEPT ![h] = entry]
           /\ data' = [data EXCEPT ![h] = << >>]
  <2>1. /\ FileHandle(scanned) \in Handle /\ FileHandle(scanned).type = "file"
        /\ FileHandle(scanned).cursor = 0
        /\ FileHandle(scanned).cluster \in Clusters
        /\ FileHandle(scanned).entry = entry
    BY <1>3, <1>8, FileHandleOK DEF FileInv
  <2> QED
    BY <1>1, <1>5, <1>8, <2>1, SetKeeps DEF h
<1> QED
  BY <1>6, <1>7, <1>8

-----------------------------------------------------------------------------
(* Read.                                                                   *)

LEMMA ReadCopyKeeps ==
  ASSUME FileInv, ReadCopy
  PROVE  FileInv'
<1> DEFINE readable == Least(SectorBytes - handle.cursor,
                             Least(call.size, call.remaining))
           bytes == [i \in 1 .. readable |-> <<held, handle.cursor + i - 1>>]
<1>1. /\ call \in Calls /\ call.op = "read" /\ call.h \in Handles
      /\ call.size \in Nat \ {0} /\ call.copied \in Nat
      /\ call.remaining \in Nat \ {0}
      /\ handle \in Handle /\ handle.type = "file"
      /\ handle.cursor \in 0 .. SectorBytes - 1 /\ handle.cluster \in Clusters
      /\ call.copied + call.remaining = handle.entry.size
      /\ held \in Nat /\ SectorBytes \in Nat
  BY CallShapes, SizesAssumption
     DEF ReadCopy, ReadsMore, FileInv, TypeOK, CallInv, handle, h
<1>2. /\ readable \in Nat /\ readable <= SectorBytes - handle.cursor
      /\ readable <= call.size /\ readable <= call.remaining
  BY <1>1 DEF Least
<1> HIDE DEF readable
<1>3. bytes \in Seq(Nat \X Nat) /\ Len(bytes) = readable
  <2>1. \A i \in 1 .. readable : <<held, handle.cursor + i - 1>> \in Nat \X Nat
    BY <1>1, <1>2
  <2>2. bytes \in [1 .. readable -> Nat \X Nat]
    BY <2>1
  <2> QED
    BY <1>2, <2>2
<1> HIDE DEF bytes
<1> DEFINE cursor == Wrapped(handle.cursor + readable)
           x == [handle EXCEPT !.cursor = cursor]
<1>4. /\ data' = [data EXCEPT ![call.h] = data[call.h] \o bytes]
      /\ handles' = [handles EXCEPT ![call.h] = x]
      /\ call' = [call EXCEPT !.at = "loop", !.size = call.size - readable,
                              !.copied = call.copied + readable,
                              !.remaining = call.remaining - readable]
      /\ UNCHANGED memory /\ fs' = fs /\ file' = file
  BY <1>1 DEF ReadCopy, readable, bytes, h, handle
<1>5. cursor \in 0 .. SectorBytes - 1 /\ cursor \in Nat
  BY <1>1, <1>2 DEF Wrapped
<1> HIDE DEF cursor
<1>6. /\ x \in Handle /\ x.type = handle.type /\ x.cluster = handle.cluster
      /\ x.entry = handle.entry /\ x.cursor = cursor
  BY <1>1, <1>5, HandleAtCursor
<1> HIDE DEF x
<1>7. /\ handles' \in [Handles -> Handle]
      /\ \A i \in Handles :
           /\ handles'[i].type = handles[i].type
           /\ handles'[i].cluster = handles[i].cluster
           /\ handles'[i].entry = handles[i].entry
           /\ i # call.h => handles'[i] = handles[i]
      /\ handles'[call.h].cursor \in 0 .. SectorBytes - 1
  BY <1>1, <1>4, <1>5, <1>6 DEF FileInv, TypeOK, handle, h
<1>8. /\ data' \in [Handles -> Seq(Nat \X Nat)]
      /\ \A i \in Handles : i # call.h => data'[i] = data[i]
      /\ Len(data'[call.h]) = Len(data[call.h]) + readable
  <2>1. data[call.h] \in Seq(Nat \X Nat)
    BY <1>1 DEF FileInv, TypeOK
  <2>2. /\ data[call.h] \o bytes \in Seq(Nat \X Nat)
        /\ Len(data[call.h] \o bytes) = Len(data[call.h]) + readable
    BY <2>1, <1>3, ConcatProperties
  <2> QED
    BY <1>1, <1>4, <2>2 DEF FileInv, TypeOK
<1>9. /\ call' \in Calls /\ call'.op = "read" /\ call'.h = call.h
      /\ call'.at = "loop" /\ call'.copied = call.copied + readable
      /\ call'.remaining = call.remaining - readable
  <2>1. /\ call.size - readable \in Nat /\ call.copied + readable \in Nat
        /\ call.remaining - readable \in Nat
    BY <1>1, <1>2
  <2>2. call \in [op : {"read"}, h : Handles, at : {"sync", "loop", "loaded"},
                  size : Nat, copied : Nat, remaining : Nat]
    BY <1>1 DEF Calls, NoCall, Nothing
  <2> QED
    BY <1>4, <2>1, <2>2 DEF Calls
<1>10. TypeOK'
  <2>1. \A i \in Handles : handles'[i].type = "file" =>
          /\ handles'[i].cursor \in 0 .. SectorBytes - 1
          /\ handles'[i].cluster \in Clusters
    BY <1>1, <1>7 DEF FileInv, TypeOK
  <2>2. /\ fetched' \in 0 .. NumSectors - 1 /\ held' \in 0 .. NumSectors - 1
        /\ fs' \in FileSystem /\ file' \in [Handles -> DirEntry]
    BY <1>4, MemoryOK DEF FileInv, TypeOK
  <2> QED
    BY <1>7, <1>8, <1>9, <2>1, <2>2 DEF TypeOK
<1>11. CallInv'
  <2>1. call'.copied + call'.remaining = handle.entry.size
    BY <1>1, <1>2, <1>9
  <2>2. handles'[call.h].type = "file" /\ handles'[call.h].entry = handle.entry
    BY <1>1, <1>7 DEF handle, h
  <2> QED
    BY <1>9, <2>1, <2>2 DEF CallInv
<1>12. RestInv'
  <2> SUFFICES ASSUME NEW i \in Handles, handles'[i].type = "file"
               PROVE  Len(data'[i]) + handles'[i].entry.size
                        = file'[i].size + Pending(i)'
    BY DEF RestInv
  <2> /\ handles[i].type = "file" /\ handles'[i].entry = handles[i].entry
      /\ file' = file
    BY <1>4, <1>7
  <2>1. Len(data[i]) + handles[i].entry.size = file[i].size + Pending(i)
    BY DEF FileInv, RestInv
  <2>2. /\ Len(data[i]) \in Nat /\ handles[i].entry.size \in Nat
        /\ file[i].size \in Nat
    BY LenProperties DEF FileInv, TypeOK, Handle, DirEntry
  <2>3. CASE i = call.h
    <3> DEFINE read == Len(data[i])
               all == file[i].size
               copied == call.copied
               size == handles[i].entry.size
    <3>1. /\ {read, all, copied, size} \subseteq Nat
          /\ read + size = all + copied
      BY <1>1, <2>1, <2>2, <2>3 DEF Pending
    <3>2. Pending(i)' = copied + readable /\ Len(data'[i]) = read + readable
      BY <1>1, <1>8, <1>9, <2>3 DEF Pending
    <3> HIDE DEF read, all, copied, size
    <3>3. (read + readable) + size = all + (copied + readable)
      BY <1>2, <3>1
    <3> QED
      BY <3>2, <3>3 DEF all, size
  <2>4. CASE i # call.h
    BY <1>8, <1>9, <2>1, <2>4 DEF Pending
  <2> QED
    BY <2>3, <2>4
<1> QED
  BY <1>10, <1>11, <1>12 DEF FileInv

LEMMA ReadFinishKeeps ==
  ASSUME FileInv, ReadFinish
  PROVE  FileInv'
BY FinishKeeps DEF ReadFinish, history
-----------------------------------------------------------------------------
(* The calls of the program.                                               *)

LEMMA InitCallKeeps ==
  ASSUME FileInv, InitCall
  PROVE  FileInv'
<1>1. /\ call' = [op |-> "init", at |-> "boot", sector |-> 0]
      /\ call = NoCall /\ call.op = "none"
      /\ UNCHANGED <<fetched, held, handles, file, data>>
  BY DEF InitCall, Begin, memory, history, NoCall, Nothing
<1>2. call' \in Calls /\ call'.op = "init"
  BY <1>1 DEF Calls
<1>3. fs' \in FileSystem
  BY DEF InitCall, FileInv, TypeOK, FileSystem
<1> QED
  BY <1>1, <1>2, <1>3 DEF FileInv, TypeOK, CallInv, RestInv, Pending

LEMMA OpenRootDirKeeps ==
  ASSUME FileInv, NEW i \in Handles, OpenRootDir(i)
  PROVE  FileInv'
<1>1. /\ call' = NoCall /\ call = NoCall
      /\ handles' = [handles EXCEPT ![i] = RootHandle]
      /\ UNCHANGED <<memory, fs, file, data>>
  BY DEF OpenRootDir
<1>2. NoCall \in Calls /\ NoCall.op = "none"
  BY DEF Calls, NoCall, Nothing
<1> QED
  BY <1>1, <1>2, RootHandleOK, SetKeeps DEF FileInv

LEMMA NextCallKeeps ==
  ASSUME FileInv, NEW i \in Handles, NextCall(i)
  PROVE  FileInv'
<1>1. /\ call' = [op |-> "next", h |-> i, at |-> Entrance]
      /\ call.op = "none" /\ handles[i].type = "dir"
      /\ UNCHANGED <<fetched, held, fs, handles, file, data>>
  BY DEF NextCall, Begin, memory, history, NoCall, Nothing
<1>2. call' \in Calls /\ call'.op = "next" /\ call'.h = i
  BY <1>1 DEF Calls, Entrance
<1> QED
  BY <1>1, <1>2 DEF FileInv, TypeOK, CallInv, RestInv, Pending

LEMMA OpenCallKeeps ==
  ASSUME FileInv, NEW i \in Handles, NEW name \in Wanted, OpenCall(i, name)
  PROVE  FileInv'
<1>1. /\ call' = [op |-> "open", h |-> i, at |-> Entrance, name |-> name]
      /\ call.op = "none"
      /\ handles' = [handles EXCEPT ![i] = RootHandle]
      /\ UNCHANGED <<memory, fs, file, data>>
  BY DEF OpenCall, Begin, NoCall, Nothing
<1>2. call' \in Calls /\ call'.op = "open" /\ call'.h = i
  BY <1>1 DEF Calls, Entrance
<1> QED
  BY <1>1, <1>2, RootHandleOK, SetKeeps DEF FileInv

\* A call that is refused changes nothing but what was returned.
LEMMA RefusedKeeps ==
  ASSUME NEW i \in Handles, NextRefused(i) \/ OpenRefused(i) \/ ReadRefused(i)
  PROVE  /\ mounted /\ call = NoCall
         /\ UNCHANGED <<fetched, held, fs, mounted, handles, call>>
         /\ UNCHANGED <<found, file, data>>
BY DEF NextRefused, OpenRefused, ReadRefused, Refuse, memory, history

LEMMA OpenHandleKeeps ==
  ASSUME FileInv, NEW i \in Handles, OpenHandle(i)
  PROVE  FileInv'
<1>1. /\ call' = NoCall /\ call = NoCall /\ Opens(handles[i].entry)
      /\ handles' = [handles EXCEPT ![i] = FileHandle(handles[i])]
      /\ file' = [file EXCEPT ![i] = handles[i].entry]
      /\ data' = [data EXCEPT ![i] = << >>]
      /\ UNCHANGED <<memory, fs>>
      /\ handles[i] \in Handle
  BY DEF OpenHandle, FileInv, TypeOK
<1>2. NoCall \in Calls /\ NoCall.op = "none"
  BY DEF Calls, NoCall, Nothing
<1>3. /\ FileHandle(handles[i]) \in Handle
      /\ FileHandle(handles[i]).type = "file"
      /\ FileHandle(handles[i]).cursor = 0
      /\ FileHandle(handles[i]).cluster \in Clusters
      /\ FileHandle(handles[i]).entry = handles[i].entry
  BY <1>1, FileHandleOK DEF FileInv
<1> QED
  BY <1>1, <1>2, <1>3, SetKeeps

LEMMA ReadCallKeeps ==
  ASSUME FileInv, NEW i \in Handles, NEW size \in Sizes, ReadCall(i, size)
  PROVE  FileInv'
<1>1. /\ call' = [op |-> "read", h |-> i, at |-> Entrance, size |-> size,
                  copied |-> 0, remaining |-> handles[i].entry.size]
      /\ call.op = "none" /\ handles[i].type = "file"
      /\ UNCHANGED <<fetched, held, fs, handles, file, data>>
  BY DEF ReadCall, Begin, memory, history, NoCall, Nothing
<1>2. size \in Nat /\ handles[i].entry.size \in Nat
  BY SizesAssumption DEF FileInv, TypeOK, Handle, DirEntry
<1>3. /\ call' \in Calls /\ call'.op = "read" /\ call'.h = i
      /\ call'.copied = 0 /\ call'.remaining = handles[i].entry.size
  BY <1>1, <1>2 DEF Calls, Entrance
<1>4. TypeOK' /\ CallInv'
  BY <1>1, <1>2, <1>3 DEF FileInv, TypeOK, CallInv
<1>5. RestInv'
  BY <1>1, <1>3 DEF FileInv, RestInv, Pending
<1> QED
  BY <1>4, <1>5 DEF FileInv

-----------------------------------------------------------------------------
(* The theorems.                                                           *)

LEMMA FileInvInit ==
  ASSUME Init
  PROVE  FileInv
<1>1. /\ [NewHandle EXCEPT !.type = "unused"] \in Handle
      /\ NoCall \in Calls /\ NoCall.op = "none"
      /\ << >> \in Seq(Nat \X Nat)
  BY NewHandleOK DEF Handle, NoCall, Nothing, Calls
<1>2. \A i \in Handles : handles[i].type = "unused"
  BY DEF Init, NewHandle
<1>3. TypeOK
  BY <1>1, <1>2, NewHandleOK, SizesAssumption DEF Init, TypeOK, FileSystem
<1> QED
  BY <1>1, <1>2, <1>3 DEF Init, FileInv, CallInv, RestInv

LEMMA FileInvNext ==
  ASSUME FileInv, [Next]_vars
  PROVE  FileInv'
<1>1. CASE InitCall
  BY <1>1, InitCallKeeps
<1>2. ASSUME NEW i \in Handles, OpenRootDir(i)
      PROVE  FileInv'
  BY <1>2, OpenRootDirKeeps
<1>3. ASSUME NEW i \in Handles, NextCall(i)
      PROVE  FileInv'
  BY <1>3, NextCallKeeps
<1>4. ASSUME NEW i \in Handles, OpenHandle(i)
      PROVE  FileInv'
  BY <1>4, OpenHandleKeeps
<1>5. ASSUME NEW i \in Handles, NEW name \in Wanted, OpenCall(i, name)
      PROVE  FileInv'
  BY <1>5, OpenCallKeeps
<1>6. ASSUME NEW i \in Handles, NEW size \in Sizes, ReadCall(i, size)
      PROVE  FileInv'
  BY <1>6, ReadCallKeeps
<1>7. CASE FindBootSector
  BY <1>7, FindBootSectorKeeps
<1>8. CASE InitFails
  <2>1. call.op = "init"
    BY <1>8, CallShapes DEF InitFails, FileInv, TypeOK
  <2>2. /\ call' = NoCall /\ fs' \in FileSystem
        /\ UNCHANGED <<memory, handles, file, data>>
    BY <1>8 DEF InitFails, Return, ReadFails, history, FileInv, TypeOK
  <2> QED
    BY <2>1, <2>2, ReturnKeeps
<1>9. CASE SyncCache
  BY <1>9, SyncCacheKeeps
<1>10. CASE SyncFails
  BY <1>10, SyncFailsKeeps
<1>11. CASE FollowLink
  BY <1>11, FollowLinkKeeps
<1>12. CASE LoadSector
  BY <1>12, LoadSectorKeeps
<1>13. CASE NextSectorFails
  BY <1>13, NextSectorFailsKeeps
<1>14. CASE ScanEntry
  BY <1>14, ScanEntryKeeps
<1>15. CASE ReadCopy
  BY <1>15, ReadCopyKeeps
<1>16. CASE ReadFinish
  BY <1>16, ReadFinishKeeps
<1>17. CASE UNCHANGED vars
  BY <1>17 DEF vars, memory, history, FileInv, TypeOK, CallInv, RestInv, Pending
<1>18. ASSUME NEW i \in Handles,
              NextRefused(i) \/ OpenRefused(i) \/ ReadRefused(i)
       PROVE  FileInv'
  BY <1>18, RefusedKeeps DEF FileInv, TypeOK, CallInv, RestInv, Pending
<1> QED
  BY <1>1, <1>2, <1>3, <1>4, <1>5, <1>6, <1>7, <1>8, <1>9, <1>10, <1>11, <1>12,
     <1>13, <1>14, <1>15, <1>16, <1>17, <1>18 DEF Next, Program, Step

LEMMA FileInvAlways == Spec => []FileInv
<1>1. Init => FileInv
  BY FileInvInit
<1>2. FileInv /\ [Next]_vars => FileInv'
  BY FileInvNext
<1> QED
  BY <1>1, <1>2, PTL DEF Spec

\* Every variable keeps its type, on every disk: the cursor of a file is in
\* the sector between two steps, and its cluster is never one of the marks
\* that end a chain.
THEOREM FileTypes == Spec => []TypeOK
<1>1. FileInv => TypeOK
  BY DEF FileInv
<1> QED
  BY <1>1, FileInvAlways, PTL

\* Between two calls, what has been read of a file and what its handle says
\* is left add up to its size, whatever accesses failed and whatever the
\* other handles did.
THEOREM RestIsKnown == Spec => []KnowsTheRest
<1>1. FileInv => KnowsTheRest
  <2> SUFFICES ASSUME FileInv, call = NoCall, NEW i \in Handles,
                      handles[i].type = "file"
               PROVE  Len(data[i]) + handles[i].entry.size = file[i].size
    BY DEF KnowsTheRest
  <2>1. Pending(i) = 0
    BY DEF Pending, NoCall, Nothing
  <2>2. file[i].size \in Nat
    BY DEF FileInv, TypeOK, DirEntry
  <2> QED
    BY <2>1, <2>2 DEF FileInv, RestInv
<1> QED
  BY <1>1, FileInvAlways, PTL

\* The two together: the handles keep their types, and agree with what has been
\* read.
THEOREM HandlesStaySound == Spec => []HandlesSound
<1>1. []TypeOK /\ []KnowsTheRest => []HandlesSound
  BY PTL DEF HandlesSound
<1> QED
  BY <1>1, FileTypes, RestIsKnown, PTL

-----------------------------------------------------------------------------
(* What the disk holds: chains and listings are what recursion says.       *)

LEMMA NextOfOK == \A cluster : NextOf(cluster) \in Nat
  BY DiskAssumption DEF NextOf

LEMMA WalkSteps ==
  ASSUME NEW first \in Nat
  PROVE  /\ Walk(first, 0) = first
         /\ \A k \in Nat : /\ Walk(first, k) \in Nat
                           /\ Walk(first, k + 1) = NextOf(Walk(first, k))
<1> DEFINE F == [p \in Nat \X Nat |-> NextOf(p[2])]
<1>1. F \in [Nat \X Nat -> Nat]
  BY NextOfOK
<1>2. PICK g : Iterates(g, Nat, first, F)
  <2> HIDE DEF F
  <2> QED
    BY <1>1, IterationExists
<1>3. ASSUME NEW k \in Nat
      PROVE  Walk(first, k) = g[k]
  <2> DEFINE Is(c) == c = [j \in 0 .. k |-> IF j = 0 THEN first ELSE NextOf(c[j - 1])]
             w == CHOOSE c : Is(c)
  <2>1. Walk(first, k) = w[k]
    BY DEF Walk
  <2>2. Is([j \in 0 .. k |-> g[j]])
    <3> DEFINE d == [j \in 0 .. k |-> g[j]]
    <3>1. ASSUME NEW j \in 0 .. k, j # 0
          PROVE  g[j] = NextOf(d[j - 1])
      <4>1. j - 1 \in Nat /\ j - 1 \in 0 .. k /\ (j - 1) + 1 = j
        BY <3>1
      <4>2. g[(j - 1) + 1] = F[<<j - 1, g[j - 1]>>] /\ g[j - 1] \in Nat
        BY <1>2, <4>1 DEF Iterates
      <4> QED
        BY <4>1, <4>2
    <3> QED
      BY <1>2, <3>1 DEF Iterates
  <2>3. Is(w)
    <3> HIDE DEF Is
    <3> QED
      BY <2>2
  <2> HIDE DEF w
  <2>4. \A j \in 0 .. k : w[j] = IF j = 0 THEN first ELSE NextOf(w[j - 1])
    BY <2>3
  <2>5. w[0] = first /\ \A j \in 0 .. k : w[j] \in Nat
    BY <2>4, NextOfOK
  <2>6. \A j \in 1 .. k : w[j] = F[<<j - 1, w[j - 1]>>]
    BY <2>4, <2>5
  <2> HIDE DEF Is, F
  <2> QED
    BY <1>2, <2>1, <2>5, <2>6, IterationIs
<1>4. /\ g[0] = first
      /\ \A k \in Nat : g[k] \in Nat /\ g[k + 1] = NextOf(g[k])
  BY <1>2 DEF Iterates
<1> QED
  BY <1>3, <1>4

\* Behind the last cluster of a chain there is none.
LEMMA WalkEnds ==
  ASSUME NEW first \in Nat, NEW n \in Nat, Walk(first, n) = 0,
         NEW k \in Nat, k >= n
  PROVE  Walk(first, k) = 0
<1> DEFINE S == {d \in Nat : Walk(first, n + d) = 0}
<1>1. 0 \in S
  BY WalkSteps
<1>2. ASSUME NEW d \in Nat, d \in S
      PROVE  d + 1 \in S
  <2>1. Walk(first, n + d) = 0 /\ n + d \in Nat /\ (n + d) + 1 = n + (d + 1)
    BY <1>2
  <2>2. Walk(first, n + (d + 1)) = NextOf(0)
    BY <2>1, WalkSteps
  <2>3. NextOf(0) = 0
    BY SizesAssumption DEF NextOf, Clusters
  <2> QED
    BY <2>2, <2>3
<1>3. Nat \subseteq S
  <2> HIDE DEF S
  <2> QED
    BY <1>1, <1>2, SetInduction
<1>4. k - n \in S /\ n + (k - n) = k
  BY <1>3
<1> QED
  BY <1>4

LEMMA SlotOK == \A n : Slot(n) \in DirEntry
  BY DiskAssumption, NewHandleOK DEF Slot, EntryAt

\* What is listed of n slots, and of the next one.
LEMMA ListedSteps ==
  /\ Listed(0) = << >>
  /\ \A n \in Nat :
       /\ Listed(n) \in Seq(DirEntry)
       /\ Listed(n + 1) = IF Slot(n).kind \in {"file", "dir"}
                          THEN Append(Listed(n), Slot(n)) ELSE Listed(n)
<1> DEFINE More(n, l) == IF Slot(n).kind \in {"file", "dir"}
                         THEN Append(l, Slot(n)) ELSE l
           F == [p \in Nat \X Seq(DirEntry) |-> More(p[1], p[2])]
<1>1. F \in [Nat \X Seq(DirEntry) -> Seq(DirEntry)]
  BY SlotOK
<1>2. << >> \in Seq(DirEntry)
  OBVIOUS
<1>3. PICK g : Iterates(g, Seq(DirEntry), << >>, F)
  <2> HIDE DEF F
  <2> QED
    BY <1>1, <1>2, IterationExists
<1>4. /\ g[0] = << >>
      /\ \A n \in Nat : g[n] \in Seq(DirEntry) /\ g[n + 1] = More(n, g[n])
  BY <1>3 DEF Iterates
<1>5. ASSUME NEW k \in Nat
      PROVE  Listed(k) = g[k]
  <2> DEFINE Is(l) == l = [j \in 0 .. k |->
                             IF j = 0 THEN << >>
                             ELSE IF Slot(j - 1).kind \in {"file", "dir"}
                                  THEN Append(l[j - 1], Slot(j - 1))
                                  ELSE l[j - 1]]
             w == CHOOSE l : Is(l)
  <2>1. Listed(k) = w[k]
    BY DEF Listed
  <2>2. Is([j \in 0 .. k |-> g[j]])
    <3> DEFINE d == [j \in 0 .. k |-> g[j]]
    <3>1. ASSUME NEW j \in 0 .. k, j # 0
          PROVE  g[j] = More(j - 1, d[j - 1])
      <4>1. j - 1 \in Nat /\ j - 1 \in 0 .. k /\ (j - 1) + 1 = j
        BY <3>1
      <4>2. g[(j - 1) + 1] = More(j - 1, g[j - 1]) /\ d[j - 1] = g[j - 1]
        BY <1>4, <4>1
      <4> QED
        BY <4>1, <4>2
    <3> QED
      BY <1>4, <3>1
  <2>3. Is(w)
    <3> HIDE DEF Is
    <3> QED
      BY <2>2
  <2> HIDE DEF w
  <2>4. w[0] = << >> /\ \A j \in 1 .. k : w[j] = More(j - 1, w[j - 1])
    <3>1. \A j \in 0 .. k : w[j] = IF j = 0 THEN << >> ELSE More(j - 1, w[j - 1])
      BY <2>3
    <3> HIDE DEF Is, More
    <3>2. 0 \in 0 .. k /\ \A j \in 1 .. k : j \in 0 .. k /\ j # 0
      OBVIOUS
    <3> QED
      BY <3>1, <3>2, Zenon
  <2>5. \A j \in 1 .. k : w[j] = F[<<j - 1, w[j - 1]>>]
    <3> DEFINE S == {j \in Nat : j <= k => w[j] \in Seq(DirEntry)}
    <3>1. 0 \in S
      BY <1>2, <2>4
    <3>2. ASSUME NEW j \in Nat, j \in S
          PROVE  j + 1 \in S
      <4> SUFFICES ASSUME j + 1 <= k
                   PROVE  w[j + 1] \in Seq(DirEntry)
        OBVIOUS
      <4>1. w[j] \in Seq(DirEntry) /\ j + 1 \in 1 .. k /\ (j + 1) - 1 = j
        BY <3>2
      <4>2. w[j + 1] = More(j, w[j])
        BY <2>4, <4>1
      <4> QED
        BY <4>1, <4>2, SlotOK
    <3>3. Nat \subseteq S
      <4> HIDE DEF S
      <4> QED
        BY <3>1, <3>2, SetInduction
    <3>4. \A j \in 1 .. k : j - 1 \in Nat /\ w[j - 1] \in Seq(DirEntry)
      BY <3>3
    <3> HIDE DEF S, More
    <3> QED
      BY <2>4, <3>4
  <2> HIDE DEF Is, F
  <2> QED
    BY <1>3, <2>1, <2>4, <2>5, IterationIs
<1>6. \A n \in Nat : Listed(n) = g[n] /\ Listed(n + 1) = g[n + 1]
  BY <1>5
<1> QED
  BY <1>4, <1>6

LEMMA QuotientBound ==
  ASSUME NEW n \in Nat, NEW d \in Nat \ {0}, NEW q \in Nat, n >= q * d
  PROVE  n \div d >= q
<1> DEFINE p == n \div d
           r == n % d
<1>1. p \in Nat /\ r \in 0 .. d - 1 /\ n = d * p + r
  BY SMT
<1> HIDE DEF p, r
<1>2. CASE p < q
  <2>1. q = p + 1 + (q - p - 1) /\ q - p - 1 >= 0
    BY <1>1, <1>2
  <2>2. q * d = p * d + d + (q - p - 1) * d /\ (q - p - 1) * d >= 0
    BY <1>1, <2>1
  <2>3. p * d = d * p
    BY <1>1
  <2> QED
    BY <1>1, <2>2, <2>3
<1> QED
  BY <1>1, <1>2 DEF p

\* The root directory ends at its first end mark, or with its slots.
LEMMA RootSizeIs ==
  /\ RootSlots \in Nat /\ RootSize \in 0 .. RootSlots
  /\ \A n \in 0 .. RootSlots : Slot(n).kind = "end" => RootSize <= n
<1> DEFINE ends == {n \in 0 .. RootSlots : n = RootSlots \/ Slot(n).kind = "end"}
<1>1. RootSlots \in Nat
  <2>1. /\ MaxCluster \in Nat /\ Boot.sec_per_cluster \in Nat
        /\ SectorEntries \in Nat /\ Boot.root_entry_count \in Nat
    BY SizesAssumption, BootAssumption
  <2>2. \A a, b, c \in Nat : a * b * c \in Nat
    BY Z3
  <2>3. MaxCluster * Boot.sec_per_cluster * SectorEntries \in Nat
    BY <2>1, <2>2
  <2> QED
    BY <2>1, <2>3 DEF RootSlots
<1>2. ends \subseteq Nat /\ RootSlots \in ends
  BY <1>1
<1>3. RootSize = CHOOSE n \in ends : \A m \in ends : n <= m
  BY DEF RootSize
<1>4. \E n \in ends : \A m \in ends : n <= m
  <2> HIDE DEF ends
  <2> QED
    BY <1>2, LeastOf
<1>5. RootSize \in ends /\ \A m \in ends : RootSize <= m
  <2> HIDE DEF ends
  <2> QED
    BY <1>3, <1>4
<1> QED
  BY <1>1, <1>5

\* The slots that a reader may look at, and where they end.
MayLookAt(n) == Boot.fat_type = "FAT32" \/ n <= NumSectors * SectorEntries

LEMMA SlotsEnd ==
  ASSUME DiskAsExpected, NEW n \in Nat, MayLookAt(n)
  PROVE  Slot(n).kind = "end" <=> n >= RootSize
<1>1. RootSlots \in Nat /\ RootSize \in 0 .. RootSlots
  BY RootSizeIs
<1>2. Slot(n).kind = "end" => n >= RootSize
  BY <1>1, RootSizeIs
<1>3. ASSUME n >= RootSize, Boot.fat_type = "FAT32"
      PROVE  Slot(n).kind = "end"
  <2>1. CASE n <= RootSlots
    BY <1>1, <1>3, <2>1 DEF DiskAsExpected
  <2>2. CASE n > RootSlots
    <3> DEFINE spc == Boot.sec_per_cluster
               s == n \div SectorEntries
    <3>1. /\ MaxCluster \in Nat /\ spc \in Nat \ {0}
          /\ SectorEntries \in Nat \ {0} /\ Boot.root_cluster \in Nat
      BY SizesAssumption, BootAssumption
    <3>2. MaxCluster * spc \in Nat /\ n >= (MaxCluster * spc) * SectorEntries
      BY <1>1, <1>3, <2>2, <3>1 DEF RootSlots
    <3>3. s >= MaxCluster * spc /\ s \in Nat
      BY <3>1, <3>2, QuotientBound
    <3> HIDE DEF s
    <3>4. s \div spc >= MaxCluster /\ s \div spc \in Nat
      BY <3>1, <3>3, QuotientBound
    <3>5. Walk(Boot.root_cluster, s \div spc) = 0
      BY <1>3, <3>1, <3>4, WalkEnds DEF DiskAsExpected
    <3> QED
      BY <1>3, <3>5 DEF Slot, InRoot, ChainCluster, EndEntry, s
  <2> QED
    BY <1>1, <2>1, <2>2
<1>4. ASSUME n >= RootSize, Boot.fat_type # "FAT32"
      PROVE  Slot(n).kind = "end"
  <2>1. NumSectors * SectorEntries \in Nat
    BY SizesAssumption
  <2>2. n \in RootSize .. NumSectors * SectorEntries
    BY <1>1, <1>4, <2>1 DEF MayLookAt
  <2>3. EntryAt(SlotPlace(n)).kind = "end"
    BY <1>4, <2>2 DEF DiskAsExpected
  <2> QED
    BY <2>3 DEF Slot, EndEntry
<1> QED
  BY <1>2, <1>3, <1>4

LEMMA PrefixElements ==
  ASSUME NEW S, NEW s \in Seq(S), NEW t \in Seq(S),
         Len(s) <= Len(t), \A i \in 1 .. Len(s) : s[i] = t[i]
  PROVE  IsPrefix(s, t)
<1>1. Len(s) \in Nat /\ Len(t) \in Nat
  BY LenProperties
<1>2. \A i \in 1 .. Len(s) : s[i] \in S /\ t[i] \in S
  BY <1>1, ElementOfSeq
<1>3. /\ SubSeq(s, 1, Len(s)) = [i \in 1 .. Len(s) |-> s[i]]
      /\ SubSeq(t, 1, Len(s)) = [i \in 1 .. Len(s) |-> t[i]]
  BY <1>1
<1>4. SubSeq(s, 1, Len(s)) = SubSeq(t, 1, Len(s))
  BY <1>3
<1> QED
  BY <1>4 DEF IsPrefix

LEMMA PrefixHasElements ==
  ASSUME NEW S, NEW s \in Seq(S), NEW t \in Seq(S), IsPrefix(s, t)
  PROVE  Len(s) <= Len(t) /\ \A i \in 1 .. Len(s) : s[i] = t[i]
<1>1. Len(s) \in Nat /\ Len(t) \in Nat /\ Len(s) <= Len(t)
  BY LenProperties DEF IsPrefix
<1>2. /\ SubSeq(s, 1, Len(s)) = [i \in 1 .. Len(s) |-> s[i]]
      /\ SubSeq(t, 1, Len(s)) = [i \in 1 .. Len(s) |-> t[i]]
  BY <1>1
<1>3. [i \in 1 .. Len(s) |-> s[i]] = [i \in 1 .. Len(s) |-> t[i]]
  BY <1>2 DEF IsPrefix
<1> QED
  BY <1>1, <1>3

\* The listing of fewer slots starts the listing of more.
LEMMA ListedGrows ==
  ASSUME NEW a \in Nat, NEW b \in Nat, a <= b
  PROVE  IsPrefix(Listed(a), Listed(b))
<1> DEFINE S == {d \in Nat : IsPrefix(Listed(a), Listed(a + d))}
<1>1. 0 \in S
  <2>1. Listed(a) \in Seq(DirEntry)
    BY ListedSteps
  <2>2. Len(Listed(a)) \in Nat
    BY <2>1
  <2> QED
    BY <2>1, <2>2, PrefixElements
<1>2. ASSUME NEW d \in Nat, d \in S
      PROVE  d + 1 \in S
  <2> DEFINE s == Listed(a)
             t == Listed(a + d)
             u == Listed(a + (d + 1))
  <2>1. /\ a + d \in Nat /\ a + (d + 1) \in Nat
        /\ (a + d) + 1 = a + (d + 1)
    OBVIOUS
  <2>2. s \in Seq(DirEntry) /\ t \in Seq(DirEntry) /\ u \in Seq(DirEntry)
    BY <2>1, ListedSteps
  <2>3. u = t \/ u = Append(t, Slot(a + d))
    BY <2>1, ListedSteps
  <2>4. Slot(a + d) \in DirEntry
    BY SlotOK
  <2>5. IsPrefix(s, t)
    BY <1>2
  <2> HIDE DEF s, t, u
  <2>6. Len(s) <= Len(t) /\ \A i \in 1 .. Len(s) : s[i] = t[i]
    BY <2>2, <2>5, PrefixHasElements
  <2>7. Len(s) <= Len(u) /\ \A i \in 1 .. Len(s) : s[i] = u[i]
    BY <2>2, <2>3, <2>4, <2>6
  <2>8. IsPrefix(s, u)
    BY <2>2, <2>7, PrefixElements
  <2> QED
    BY <2>8 DEF s, u
<1>3. Nat \subseteq S
  <2> HIDE DEF S
  <2> QED
    BY <1>1, <1>2, SetInduction
<1>4. b - a \in S /\ a + (b - a) = b
  BY <1>3
<1> QED
  BY <1>4

\* Nothing is listed from behind the end of the directory.
LEMMA ListedToTheEnd ==
  ASSUME DiskAsExpected, NEW n \in Nat, MayLookAt(n), n >= RootSize
  PROVE  Listed(n) = Listing
<1>1. RootSize \in Nat
  BY RootSizeIs
<1> DEFINE S == {d \in Nat : RootSize + d <= n => Listed(RootSize + d) = Listing}
<1>2. 0 \in S
  BY <1>1 DEF Listing
<1>3. ASSUME NEW d \in Nat, d \in S
      PROVE  d + 1 \in S
  <2> SUFFICES ASSUME RootSize + (d + 1) <= n
               PROVE  Listed(RootSize + (d + 1)) = Listing
    OBVIOUS
  <2>1. /\ RootSize + d \in Nat /\ (RootSize + d) + 1 = RootSize + (d + 1)
        /\ RootSize + d <= n /\ RootSize + d >= RootSize
    BY <1>1
  <2>2. MayLookAt(RootSize + d)
    BY <2>1, SizesAssumption DEF MayLookAt
  <2>3. Slot(RootSize + d).kind = "end"
    BY <2>1, <2>2, SlotsEnd
  <2>4. Listed(RootSize + (d + 1)) = Listed(RootSize + d)
    BY <2>1, <2>3, ListedSteps
  <2> QED
    BY <1>3, <2>1, <2>4
<1>4. Nat \subseteq S
  <2> HIDE DEF S
  <2> QED
    BY <1>2, <1>3, SetInduction
<1>5. n - RootSize \in S /\ RootSize + (n - RootSize) = n
  BY <1>1, <1>4
<1> QED
  BY <1>5

LEMMA ListedIsPrefix ==
  ASSUME DiskAsExpected, NEW n \in Nat, MayLookAt(n)
  PROVE  IsPrefix(Listed(n), Listing)
<1>1. RootSize \in Nat
  BY RootSizeIs
<1>2. CASE n <= RootSize
  BY <1>1, <1>2, ListedGrows DEF Listing
<1>3. CASE n >= RootSize
  <2>1. Listed(n) = Listed(RootSize)
    BY <1>3, ListedToTheEnd DEF Listing
  <2> QED
    BY <1>1, <2>1, ListedGrows DEF Listing
<1> QED
  BY <1>1, <1>2, <1>3

-----------------------------------------------------------------------------
(* Where a handle stands.                                                  *)

Per(x) == IF x.type = "file" THEN SectorBytes ELSE SectorEntries

\* The root directory of a FAT16 is an area of its own.
NoChain(x) == x.type = "dir" /\ Boot.fat_type # "FAT32"

\* The handle x has m sectors behind it, of the root directory or of the chain
\* that starts at first.
Stands(x, first, m) ==
  IF NoChain(x)
  THEN x.cluster = 0 /\ x.sector = RootStart + m /\ m <= NumSectors
  ELSE \E k \in Nat :
         /\ m = k * Boot.sec_per_cluster + x.cluster_position
         /\ x.cluster_position <= Boot.sec_per_cluster
         /\ x.cluster = Walk(first, k) /\ x.cluster \in Clusters
         /\ x.sector = DataStart + (x.cluster - 2) * Boot.sec_per_cluster
                       + x.cluster_position

\* Where there is something left in the last sector behind it, that is the one
\* before its sector, the handle's own in safe mode, and in memory when the
\* handle is being worked on.
SectorKnown(x, working, sector) ==
  /\ NoChain(x) \/ x.cluster_position >= 1
  /\ Safe => x.current_sector = x.sector - 1
  /\ working => sector = x.sector - 1

\* All the items of the sectors behind it are done, or those of all but the
\* last one, which has just been loaded or has some left.
Placed(x, first, done, loading, working, sector) ==
  /\ x.cursor = IF x.type = "file" THEN done % SectorBytes ELSE done
  /\ \E m \in Nat :
       /\ Stands(x, first, m)
       /\ IF loading THEN m >= 1 /\ done = (m - 1) * Per(x)
                     ELSE (m - 1) * Per(x) < done /\ done <= m * Per(x)
       /\ loading \/ done # m * Per(x) => SectorKnown(x, working, sector)

First(i) == IF handles[i].type = "file" THEN file[i].first ELSE Boot.root_cluster
Done(i) == IF handles[i].type = "file" THEN Len(data[i]) ELSE handles[i].cursor
CallOf(i, places) ==
  call.op \in {"next", "open", "read"} /\ call.h = i /\ call.at \in places

HandleInv(i) ==
  handles[i].type # "unused" =>
    /\ mounted
    /\ Placed(handles[i], First(i), Done(i), CallOf(i, {"loaded"}),
              ~Safe \/ CallOf(i, {"loop", "loaded"}), held)

\* What has been found is what the slots behind the cursor hold.
FoundInv(i) == \E n \in Nat :
  /\ found[i] = Listed(n) /\ MayLookAt(n)
  /\ handles[i].type = "dir" => n = handles[i].cursor

\* What has been read of a file is what its chain holds.
ReadInv(i) ==
  /\ Len(data[i]) <= file[i].size
  /\ \A n \in 1 .. Len(data[i]) :
       /\ ChainCluster(file[i].first, SectorBytes, n - 1) # 0
       /\ data[i][n] = ChainPlace(file[i].first, SectorBytes, n - 1)

MemoryInv ==
  /\ Safe => fetched = held
  /\ mounted => fs = Layout(Boot, BootAt)
  /\ call.op = "init" => ~mounted
  /\ call.op \in {"next", "open", "read"} => mounted
  /\ call.at = "sync" => Safe

OrderInv ==
  /\ FileInv /\ MemoryInv /\ found \in [Handles -> Seq(DirEntry)]
  /\ \A i \in Handles : HandleInv(i) /\ FoundInv(i) /\ ReadInv(i)

-----------------------------------------------------------------------------
(* Sectors in a row.                                                       *)

LEMMA SectorsInARow ==
  ASSUME NEW p \in Nat \ {0}, NEW m \in Nat
  PROVE  (m - 1) * p \in Int /\ m * p \in Nat /\ m * p = (m - 1) * p + p
         /\ (m + 1) * p = m * p + p
<1>1. m - 1 \in Int /\ m = (m - 1) + 1
  OBVIOUS
<1>2. \A a, b \in Int : a * b \in Int /\ (a + 1) * b = a * b + b
  BY Z3
<1>3. m * p >= 0
  BY Z3
<1>4. m * p = ((m - 1) + 1) * p
  BY <1>1
<1> QED
  BY <1>1, <1>2, <1>3, <1>4

\* An item of the last of m sectors.
LEMMA InTheLastSector ==
  ASSUME NEW p \in Nat \ {0}, NEW m \in Nat, NEW d \in Nat,
         (m - 1) * p <= d, d < m * p
  PROVE  m >= 1 /\ d \div p = m - 1 /\ d % p = d - (m - 1) * p
<1> DEFINE b == (m - 1) * p
           r == d - b
<1>1. b \in Int /\ m * p = b + p
  BY SectorsInARow
<1>2. b <= d /\ d < b + p /\ d = b + r /\ r \in 0 .. p - 1
  BY <1>1
<1>3. m >= 1
  <2> SUFFICES ASSUME m = 0 PROVE FALSE
    OBVIOUS
  <2>1. m * p = 0
    OBVIOUS
  <2> QED
    BY <1>1, <1>2, <2>1
<1>4. b = p * (m - 1)
  OBVIOUS
<1> HIDE DEF b, r
<1>5. d = p * (m - 1) + r /\ m - 1 \in Int
  BY <1>2, <1>4
<1>6. d \div p = m - 1 /\ d % p = r
  BY <1>2, <1>5, Digits
<1> QED
  BY <1>3, <1>6 DEF r, b

\* At a multiple of their size, all the items of m sectors are done.
LEMMA AtASectorEnd ==
  ASSUME NEW p \in Nat \ {0}, NEW m \in Nat, NEW d \in Nat,
         (m - 1) * p < d, d <= m * p
  PROVE  d % p = 0 <=> d = m * p
<1>1. (m - 1) * p \in Int /\ m * p \in Nat
  BY SectorsInARow
<1>2. CASE d = m * p
  <2>1. d = p * m + 0 /\ m \in Int /\ 0 \in 0 .. p - 1
    BY <1>2
  <2>2. d % p = 0
    BY <2>1, Digits
  <2> QED
    BY <1>2, <2>2
<1>3. CASE d < m * p
  <2>1. d % p = d - (m - 1) * p
    <3>1. (m - 1) * p <= d
      BY <1>1
    <3> QED
      BY <1>3, <3>1, InTheLastSector, Zenon
  <2> QED
    BY <1>1, <1>3, <2>1
<1> QED
  BY <1>1, <1>2, <1>3

LEMMA PerOK == \A x : Per(x) \in Nat \ {0}
  BY SizesAssumption DEF Per

LEMMA BootOK ==
  /\ Boot.sec_per_cluster \in Nat \ {0} /\ Boot.root_cluster \in Nat
  /\ RootStart \in Nat /\ DataStart \in Nat /\ FatStart \in Nat
  /\ FatEntries \in Nat \ {0} /\ NumSectors \in Nat \ {0}
  /\ SectorBytes \in Nat \ {0} /\ SectorEntries \in Nat \ {0}
  /\ MaxCluster \in Nat
BY SizesAssumption, BootAssumption, DiskAssumption

\* Placed looks at some fields of a handle only, and at the memory only when
\* the handle is being worked on.
LEMMA PlacedSame ==
  ASSUME NEW x, NEW y, NEW first, NEW done, NEW loading, NEW a, NEW s,
         NEW b, NEW t, Placed(x, first, done, loading, a, s),
         y.type = x.type, y.cursor = x.cursor, y.cluster = x.cluster,
         y.cluster_position = x.cluster_position, y.sector = x.sector,
         y.current_sector = x.current_sector,
         b => a /\ t = s
  PROVE  Placed(y, first, done, loading, b, t)
BY DEF Placed, Stands, SectorKnown, Per, NoChain

\* A handle that has just been made.
LEMMA PlacedAtStart ==
  ASSUME NEW x \in Handle, NEW first \in Nat, NEW a, NEW s,
         x.cursor = 0, x.cluster_position = 0,
         IF NoChain(x) THEN x.cluster = 0 /\ x.sector = RootStart
         ELSE /\ x.cluster = first /\ first \in Clusters
              /\ x.sector = DataStart + (first - 2) * Boot.sec_per_cluster
  PROVE  Placed(x, first, 0, FALSE, a, s)
<1>1. 0 % SectorBytes = 0
  BY BootOK
<1>2. Stands(x, first, 0)
  <2>1. CASE NoChain(x)
    BY <2>1, BootOK DEF Stands
  <2>2. CASE ~NoChain(x)
    <3>1. (first - 2) * Boot.sec_per_cluster \in Int
      BY BootOK
    <3>2. /\ 0 = 0 * Boot.sec_per_cluster + x.cluster_position
          /\ x.cluster_position <= Boot.sec_per_cluster
      <4>1. 0 = 0 * Boot.sec_per_cluster
        BY BootOK
      <4> QED
        BY <4>1, BootOK
    <3>5. x.cluster = Walk(first, 0)
      BY <2>2, WalkSteps
    <3>3. x.sector = DataStart + (x.cluster - 2) * Boot.sec_per_cluster
                     + x.cluster_position
      BY <2>2, <3>1, BootOK
    <3>4. x.cluster \in Clusters /\ 0 \in Nat
      BY <2>2
    <3> HIDE DEF Clusters
    <3> QED
      BY <2>2, <3>2, <3>3, <3>4, <3>5 DEF Stands
  <2> QED
    BY <2>1, <2>2
<1>3. (0 - 1) * Per(x) < 0 /\ 0 <= 0 * Per(x) /\ 0 = 0 * Per(x)
  <2> DEFINE p == Per(x)
  <2>1. p \in Nat \ {0}
    BY PerOK
  <2> HIDE DEF p
  <2>2. (0 - 1) * p < 0 /\ 0 <= 0 * p /\ 0 = 0 * p
    BY <2>1
  <2> QED
    BY <2>2 DEF p
<1>4. x.cursor = IF x.type = "file" THEN 0 % SectorBytes ELSE 0
  BY <1>1
<1>5. 0 \in Nat
  OBVIOUS
<1> QED
  BY <1>2, <1>3, <1>4, <1>5 DEF Placed

-----------------------------------------------------------------------------
(* A handle moves on.                                                      *)

\* A sector is needed.
Due(x) == IF x.type = "file" THEN x.cursor = 0 ELSE x.cursor % SectorEntries = 0

LEMMA DueMeans ==
  ASSUME NEW x, NEW first, NEW done \in Nat, NEW a, NEW s, NEW m \in Nat,
         x.cursor = IF x.type = "file" THEN done % SectorBytes ELSE done,
         (m - 1) * Per(x) < done, done <= m * Per(x)
  PROVE  Due(x) <=> done = m * Per(x)
<1>1. Due(x) <=> done % Per(x) = 0
  BY DEF Due, Per
<1> DEFINE p == Per(x)
<1>2. p \in Nat \ {0} /\ (m - 1) * p < done /\ done <= m * p
  BY PerOK
<1> HIDE DEF p
<1>3. done % p = 0 <=> done = m * p
  BY <1>2, AtASectorEnd
<1> QED
  BY <1>1, <1>3 DEF p

\* The next sector is loaded.
LEMMA PlacedLoads ==
  ASSUME NEW x \in Handle, NEW y \in Handle, NEW first, NEW done \in Nat,
         NEW a, NEW s, NEW b, Placed(x, first, done, FALSE, a, s), Due(x),
         x.cluster = 0 \/ x.cluster_position # Boot.sec_per_cluster,
         x.sector \in 0 .. NumSectors - 1,
         y.type = x.type, y.cursor = x.cursor, y.cluster = x.cluster,
         y.sector = x.sector + 1, y.cluster_position = x.cluster_position + 1,
         Safe => y.current_sector = x.sector
  PROVE  Placed(y, first, done, TRUE, b, x.sector)
<1>1. PICK m \in Nat :
        /\ Stands(x, first, m)
        /\ (m - 1) * Per(x) < done /\ done <= m * Per(x)
  BY DEF Placed
<1>2. x.cursor = IF x.type = "file" THEN done % SectorBytes ELSE done
  BY DEF Placed
<1>3. done = m * Per(x)
  BY <1>1, <1>2, DueMeans
<1>4. /\ NoChain(y) <=> NoChain(x)
      /\ Per(y) = Per(x)
      /\ x.sector \in Int /\ x.cluster_position \in Nat
  BY DEF NoChain, Per, Handle
<1>5. Stands(y, first, m + 1)
  <2>1. CASE NoChain(x)
    BY <1>1, <1>4, <2>1, BootOK DEF Stands
  <2>2. CASE ~NoChain(x)
    <3>1. PICK k \in Nat :
            /\ m = k * Boot.sec_per_cluster + x.cluster_position
            /\ x.cluster_position <= Boot.sec_per_cluster
            /\ x.cluster = Walk(first, k) /\ x.cluster \in Clusters
            /\ x.sector = DataStart + (x.cluster - 2) * Boot.sec_per_cluster
                          + x.cluster_position
      BY <1>1, <2>2 DEF Stands
    <3>2. x.cluster # 0 /\ x.cluster \in Int
      BY <3>1 DEF Clusters
    <3>3. y.cluster_position <= Boot.sec_per_cluster
      <4>1. /\ x.cluster_position \in Nat /\ Boot.sec_per_cluster \in Nat
            /\ x.cluster_position # Boot.sec_per_cluster
            /\ x.cluster_position <= Boot.sec_per_cluster
        BY <1>4, <3>1, <3>2, BootOK
      <4> QED
        BY <4>1
    <3>4. m + 1 = k * Boot.sec_per_cluster + y.cluster_position
      <4>1. k * Boot.sec_per_cluster \in Int
        BY BootOK
      <4> QED
        BY <1>4, <3>1, <4>1
    <3>5. y.sector = DataStart + (y.cluster - 2) * Boot.sec_per_cluster
                     + y.cluster_position
      <4>1. (x.cluster - 2) * Boot.sec_per_cluster \in Int
        BY <3>2, BootOK
      <4> QED
        BY <1>4, <3>1, <4>1, BootOK
    <3>6. y.cluster = Walk(first, k) /\ y.cluster \in Clusters
      BY <3>1
    <3> QED
      BY <1>4, <2>2, <3>3, <3>4, <3>5, <3>6 DEF Stands
  <2> QED
    BY <2>1, <2>2
<1>6. m + 1 \in Nat /\ m + 1 >= 1 /\ done = ((m + 1) - 1) * Per(y)
  <2>1. (m + 1) - 1 = m
    OBVIOUS
  <2> QED
    BY <1>3, <1>4, <2>1
<1>7. SectorKnown(y, b, x.sector)
  BY <1>4 DEF SectorKnown
<1>8. y.cursor = IF y.type = "file" THEN done % SectorBytes ELSE done
  BY <1>2
<1> QED
  BY <1>5, <1>6, <1>7, <1>8 DEF Placed

\* The link of the last cluster is followed.
LEMMA PlacedFollows ==
  ASSUME NEW x \in Handle, NEW y \in Handle, NEW first \in Nat,
         NEW done \in Nat, NEW a, NEW s, NEW b, NEW t,
         Placed(x, first, done, FALSE, a, s), Due(x),
         x.cluster # 0, x.cluster_position = Boot.sec_per_cluster,
         NextOf(x.cluster) \in Clusters,
         y.type = x.type, y.cursor = x.cursor, y.cluster = NextOf(x.cluster),
         y.sector = DataStart + (y.cluster - 2) * Boot.sec_per_cluster,
         y.cluster_position = 0
  PROVE  Placed(y, first, done, FALSE, b, t)
<1>1. PICK m \in Nat :
        /\ Stands(x, first, m)
        /\ (m - 1) * Per(x) < done /\ done <= m * Per(x)
  BY DEF Placed
<1>2. x.cursor = IF x.type = "file" THEN done % SectorBytes ELSE done
  BY DEF Placed
<1>3. done = m * Per(x)
  BY <1>1, <1>2, DueMeans
<1>4. /\ NoChain(y) <=> NoChain(x)
      /\ Per(y) = Per(x)
  BY DEF NoChain, Per
<1>5. ~NoChain(x)
  BY <1>1 DEF Stands
<1>6. PICK k \in Nat :
        /\ m = k * Boot.sec_per_cluster + x.cluster_position
        /\ x.cluster = Walk(first, k)
  BY <1>1, <1>5 DEF Stands
<1>7. m = (k + 1) * Boot.sec_per_cluster + y.cluster_position
  <2>1. k * Boot.sec_per_cluster \in Int /\ (k + 1) * Boot.sec_per_cluster \in Int
        /\ (k + 1) * Boot.sec_per_cluster
             = k * Boot.sec_per_cluster + Boot.sec_per_cluster
    <3>1. \A n \in Nat : k * n \in Int /\ (k + 1) * n \in Int
                         /\ (k + 1) * n = k * n + n
      BY Z3
    <3> QED
      BY <3>1, BootOK
  <2> QED
    BY <1>6, <2>1, BootOK
<1>8. y.cluster = Walk(first, k + 1)
  BY <1>6, WalkSteps
<1>9. y.cluster_position <= Boot.sec_per_cluster
  BY BootOK
<1>10. y.sector = DataStart + (y.cluster - 2) * Boot.sec_per_cluster
                  + y.cluster_position
  <2>1. y.cluster \in Int
    BY DEF Clusters
  <2>2. (y.cluster - 2) * Boot.sec_per_cluster \in Int
    BY <2>1, BootOK
  <2> QED
    BY <2>2, BootOK
<1>11. Stands(y, first, m)
  <2>1. k + 1 \in Nat
    OBVIOUS
  <2> QED
    BY <1>4, <1>5, <1>7, <1>8, <1>9, <1>10, <2>1 DEF Stands
<1>12. y.cursor = IF y.type = "file" THEN done % SectorBytes ELSE done
  BY <1>2
<1> QED
  BY <1>1, <1>3, <1>4, <1>11, <1>12 DEF Placed

\* A handle whose sector has been brought back to memory.
LEMMA PlacedSyncs ==
  ASSUME NEW x, NEW first, NEW done, NEW s, Safe,
         Placed(x, first, done, FALSE, FALSE, s)
  PROVE  Placed(x, first, done, FALSE, TRUE, x.current_sector)
BY DEF Placed, SectorKnown

\* With its sector in memory, a handle is at one of the items of the last
\* sector behind it.
LEMMA PlacedInSector ==
  ASSUME NEW x, NEW first, NEW done \in Nat, NEW loading \in BOOLEAN, NEW a, NEW s,
         Placed(x, first, done, loading, a, s), loading \/ ~Due(x)
  PROVE  \E m \in Nat :
           /\ Stands(x, first, m) /\ SectorKnown(x, a, s)
           /\ m >= 1 /\ m * Per(x) \in Nat /\ (m - 1) * Per(x) \in Nat
           /\ m * Per(x) = (m - 1) * Per(x) + Per(x)
           /\ (m - 1) * Per(x) <= done /\ done < m * Per(x)
           /\ done % Per(x) = done - (m - 1) * Per(x)
<1>1. PICK m \in Nat :
        /\ Stands(x, first, m)
        /\ IF loading THEN m >= 1 /\ done = (m - 1) * Per(x)
                      ELSE (m - 1) * Per(x) < done /\ done <= m * Per(x)
        /\ loading \/ done # m * Per(x) => SectorKnown(x, a, s)
  BY DEF Placed
<1>2. x.cursor = IF x.type = "file" THEN done % SectorBytes ELSE done
  BY DEF Placed
<1>3. loading \/ done # m * Per(x)
  BY <1>1, <1>2, DueMeans
<1> DEFINE p == Per(x)
<1>4. /\ p \in Nat \ {0}
      /\ loading \/ done # m * p
      /\ IF loading THEN m >= 1 /\ done = (m - 1) * p
                    ELSE (m - 1) * p < done /\ done <= m * p
  BY <1>1, <1>3, PerOK
<1> HIDE DEF p
<1>5. (m - 1) * p \in Int /\ m * p \in Nat /\ m * p = (m - 1) * p + p
  BY <1>4, SectorsInARow
<1>6. (m - 1) * p <= done /\ done < m * p
  BY <1>4, <1>5
<1>7. m >= 1 /\ done % p = done - (m - 1) * p
  BY <1>4, <1>6, InTheLastSector, Zenon
<1>8. (m - 1) * p \in Nat
  <2>1. m - 1 \in Nat
    BY <1>7
  <2>2. \A i \in Nat : i * p \in Nat
    BY <1>4, Z3
  <2> QED
    BY <2>1, <2>2
<1> QED
  BY <1>1, <1>3, <1>5, <1>6, <1>7, <1>8 DEF p

\* Item n of what a handle goes through is the one at index e of a sector.
ItemIs(x, first, n, sector, e) ==
  IF NoChain(x)
  THEN /\ sector = RootStart + n \div SectorEntries /\ e = n % SectorEntries
       /\ n < NumSectors * SectorEntries
  ELSE /\ ChainCluster(first, Per(x), n) # 0
       /\ <<sector, e>> = ChainPlace(first, Per(x), n)

\* What is read next, and the items behind it in the sector, are where they
\* have to be on the disk.
LEMMA PlacedReads ==
  ASSUME NEW x \in Handle, NEW first \in Nat, NEW done \in Nat,
         NEW loading \in BOOLEAN, NEW s,
         Placed(x, first, done, loading, TRUE, s), loading \/ ~Due(x),
         NEW j \in Nat, (done % Per(x)) + j < Per(x)
  PROVE  ItemIs(x, first, done + j, s, (done % Per(x)) + j)
<1>0. PICK a : a = TRUE
  OBVIOUS
<1>1. PICK m \in Nat :
           /\ Stands(x, first, m) /\ SectorKnown(x, a, s)
           /\ m >= 1 /\ m * Per(x) \in Nat /\ (m - 1) * Per(x) \in Nat
           /\ m * Per(x) = (m - 1) * Per(x) + Per(x)
           /\ (m - 1) * Per(x) <= done /\ done < m * Per(x)
           /\ done % Per(x) = done - (m - 1) * Per(x)
  <2>1. Placed(x, first, done, loading, a, s)
    BY <1>0
  <2> QED
    BY <2>1, PlacedInSector
<1> DEFINE p == Per(x)
           d == done + j
<1>2. p \in Nat \ {0} /\ d \in Nat
  BY PerOK
<1>3. (m - 1) * p <= d /\ d < m * p /\ d - (m - 1) * p = (done % p) + j
  BY <1>1, <1>2
<1>4. d \div p = m - 1 /\ d % p = (done % p) + j
  <2> HIDE DEF p, d
  <2>1. d \div p = m - 1 /\ d % p = d - (m - 1) * p
    BY <1>2, <1>3, InTheLastSector, Zenon
  <2> QED
    BY <1>3, <2>1
<1>5. s = x.sector - 1 /\ (NoChain(x) \/ x.cluster_position >= 1)
  BY <1>0, <1>1 DEF SectorKnown
<1>6. CASE NoChain(x)
  <2>1. p = SectorEntries
    BY <1>6 DEF Per, NoChain
  <2>2. x.sector = RootStart + m /\ m <= NumSectors
    BY <1>1, <1>6 DEF Stands
  <2>3. s = RootStart + (m - 1)
    BY <1>5, <2>2, BootOK
  <2>4. m * p <= NumSectors * p /\ NumSectors * p \in Nat /\ m * p \in Nat
    <3>1. \A u, v, c \in Nat : u <= v => u * c <= v * c /\ v * c \in Nat
      BY Z3
    <3> QED
      BY <1>1, <1>2, <2>2, <3>1, BootOK
  <2>5. d < NumSectors * p
    BY <1>2, <1>3, <2>4
  <2> QED
    BY <1>4, <1>6, <2>1, <2>3, <2>5 DEF ItemIs
<1>7. CASE ~NoChain(x)
  <2> DEFINE spc == Boot.sec_per_cluster
             c == x.cluster_position - 1
  <2>1. PICK k \in Nat :
          /\ m = k * spc + x.cluster_position
          /\ x.cluster_position <= spc
          /\ x.cluster = Walk(first, k) /\ x.cluster \in Clusters
          /\ x.sector = DataStart + (x.cluster - 2) * spc + x.cluster_position
    BY <1>1, <1>7 DEF Stands
  <2>2. spc \in Nat \ {0} /\ x.cluster_position \in Nat /\ x.cluster \in Int
        /\ x.cluster # 0
    BY <2>1, BootOK DEF Handle, Clusters
  <2>3. c \in 0 .. spc - 1
    BY <1>5, <1>7, <2>1, <2>2
  <2>4. m - 1 = spc * k + c /\ k \in Int
    <3>1. k * spc = spc * k /\ spc * k \in Int
      BY <2>2
    <3> QED
      BY <2>1, <2>2, <3>1
  <2>5. (m - 1) \div spc = k /\ (m - 1) % spc = c
    <3> HIDE DEF spc, c
    <3> QED
      BY <2>2, <2>3, <2>4, Digits
  <2>6. ChainCluster(first, p, d) = x.cluster
    BY <1>4, <2>1, <2>5 DEF ChainCluster
  <2>7. s = DataStart + (x.cluster - 2) * spc + c
    <3>1. (x.cluster - 2) * spc \in Int
      BY <2>2
    <3> QED
      BY <1>5, <2>1, <2>2, <3>1, BootOK
  <2>8. ChainPlace(first, p, d)
          = <<DataStart + (x.cluster - 2) * spc + c, (done % p) + j>>
    BY <1>4, <2>5, <2>6 DEF ChainPlace
  <2> HIDE DEF c
  <2> QED
    BY <1>7, <2>2, <2>6, <2>7, <2>8 DEF ItemIs
<1> QED
  BY <1>6, <1>7

\* Some more items of the sector are done.
LEMMA PlacedAdvances ==
  ASSUME NEW x, NEW y, NEW first, NEW done \in Nat,
         NEW loading \in BOOLEAN, NEW a, NEW s, NEW b,
         Placed(x, first, done, loading, a, s), loading \/ ~Due(x),
         NEW r \in Nat \ {0}, (done % Per(x)) + r <= Per(x), b => a,
         y.type = x.type, y.cluster = x.cluster, y.sector = x.sector,
         y.cluster_position = x.cluster_position,
         y.current_sector = x.current_sector,
         y.cursor = IF x.type = "file" THEN (done + r) % SectorBytes ELSE done + r
  PROVE  Placed(y, first, done + r, FALSE, b, s)
<1>1. PICK m \in Nat :
           /\ Stands(x, first, m) /\ SectorKnown(x, a, s)
           /\ m >= 1 /\ m * Per(x) \in Nat /\ (m - 1) * Per(x) \in Nat
           /\ m * Per(x) = (m - 1) * Per(x) + Per(x)
           /\ (m - 1) * Per(x) <= done /\ done < m * Per(x)
           /\ done % Per(x) = done - (m - 1) * Per(x)
  BY PlacedInSector
<1> DEFINE p == Per(x)
<1>2. p \in Nat \ {0} /\ Per(y) = p
  BY PerOK DEF Per
<1>3. (m - 1) * p < done + r /\ done + r <= m * p
  BY <1>1, <1>2
<1>4. Stands(y, first, m) /\ SectorKnown(y, b, s)
  BY <1>1 DEF Stands, SectorKnown, NoChain
<1>5. y.cursor = IF y.type = "file" THEN (done + r) % SectorBytes ELSE done + r
  OBVIOUS
<1> HIDE DEF p
<1> QED
  BY <1>2, <1>3, <1>4, <1>5 DEF Placed

LEMMA WrappedIs ==
  ASSUME NEW d \in Nat, NEW p \in Nat \ {0}, NEW r \in Nat, (d % p) + r <= p
  PROVE  /\ (d % p) + r = p => (d + r) % p = 0
         /\ (d % p) + r # p => (d + r) % p = (d % p) + r
<1> DEFINE q == d \div p
           e == d % p
<1>1. q \in Int /\ e \in 0 .. p - 1 /\ d = p * q + e
  BY SMT
<1> HIDE DEF q, e
<1>2. CASE e + r = p
  <2>1. d + r = p * (q + 1) + 0 /\ q + 1 \in Int /\ 0 \in 0 .. p - 1
    BY <1>1, <1>2
  <2>2. (d + r) % p = 0
    BY <2>1, Digits
  <2> QED
    BY <1>2, <2>2 DEF e
<1>3. CASE e + r < p
  <2>1. d + r = p * q + (e + r) /\ e + r \in 0 .. p - 1
    BY <1>1, <1>3
  <2>2. (d + r) % p = e + r
    BY <1>1, <2>1, Digits
  <2> QED
    BY <1>1, <1>3, <2>2 DEF e
<1> QED
  BY <1>1, <1>2, <1>3 DEF e

-----------------------------------------------------------------------------
(* The invariant from step to step.                                        *)

\* Where the sector of a handle is taken for granted, there is one handle.
Sole == Safe \/ \A i, j \in Handles : i = j

\* The areas of the disk are where the layout says.
LEMMA LayoutIs ==
  ASSUME DiskAsExpected
  PROVE  LET layout == Layout(Boot, BootAt)
         IN  /\ layout.fat_sector = FatStart /\ layout.data_sector = DataStart
             /\ layout.cluster_size = Boot.sec_per_cluster
             /\ layout.fat_type = Boot.fat_type
             /\ layout.root_dir = IF Boot.fat_type = "FAT32"
                                  THEN Boot.root_cluster ELSE RootStart
<1> DEFINE fats == IF Safe \/ Boot.num_fats = 2 THEN Boot.num_fats ELSE 1
           start == BootAt + Boot.reserved + Boot.fat_size * fats
           roots == Boot.root_entry_count \div SectorEntries
<1>1. /\ fats = Boot.num_fats /\ fats \in Nat /\ Boot.fat_size \in Nat
      /\ Boot.reserved \in Nat /\ BootAt \in Nat
  BY SizesAssumption, BootAssumption
<1> HIDE DEF fats
<1>2. Boot.num_fats * Boot.fat_size = Boot.fat_size * fats
  BY <1>1
<1>3. /\ FatStart = BootAt + Boot.reserved
      /\ RootStart = FatStart + Boot.num_fats * Boot.fat_size
      /\ DataStart = RootStart + roots
  BY DEF DiskAsExpected
<1>4. start = RootStart
  BY <1>2, <1>3
<1>5. start + roots = DataStart
  BY <1>3, <1>4
<1>6. Layout(Boot, BootAt) =
        [fat_type |-> Boot.fat_type, cluster_size |-> Boot.sec_per_cluster,
         fat_sector |-> BootAt + Boot.reserved,
         root_dir |-> IF Boot.fat_type = "FAT32" THEN Boot.root_cluster
                      ELSE start,
         data_sector |-> start + roots]
  BY DEF Layout, fats
<1> HIDE DEF start, roots
<1> QED
  BY <1>3, <1>4, <1>5, <1>6

LEMMA MountedIs ==
  ASSUME DiskAsExpected, MemoryInv, mounted
  PROVE  /\ fs.fat_sector = FatStart /\ fs.data_sector = DataStart
         /\ fs.cluster_size = Boot.sec_per_cluster
         /\ fs.fat_type = Boot.fat_type
         /\ fs.root_dir = IF Boot.fat_type = "FAT32"
                          THEN Boot.root_cluster ELSE RootStart
BY LayoutIs DEF MemoryInv

\* A step that only looks at one handle keeps what is known of the others.
LEMMA OthersKeep ==
  ASSUME FileInv, Sole, NEW w \in Handles, NEW i \in Handles \ {w},
         HandleInv(i), FoundInv(i), ReadInv(i),
         handles'[i] = handles[i], file'[i] = file[i],
         data'[i] = data[i], found'[i] = found[i], mounted' = mounted,
         ~CallOf(i, {"loaded"}), ~CallOf(i, {"loop", "loaded"}),
         ~CallOf(i, {"loaded"})', ~CallOf(i, {"loop", "loaded"})'
  PROVE  HandleInv(i)' /\ FoundInv(i)' /\ ReadInv(i)'
<1>1. Safe
  BY DEF Sole
<1>2. FoundInv(i)' /\ ReadInv(i)'
  BY DEF FoundInv, ReadInv
<1>3. ASSUME handles[i].type # "unused"
      PROVE  /\ mounted'
             /\ Placed(handles'[i], First(i)', Done(i)', CallOf(i, {"loaded"})',
                       ~Safe \/ CallOf(i, {"loop", "loaded"})', held')
  <2>1. Placed(handles[i], First(i), Done(i), CallOf(i, {"loaded"}),
               ~Safe \/ CallOf(i, {"loop", "loaded"}), held)
    BY <1>3 DEF HandleInv
  <2>2. Placed(handles[i], First(i), Done(i), FALSE, FALSE, held)
    <3>1. CallOf(i, {"loaded"}) = FALSE
          /\ (~Safe \/ CallOf(i, {"loop", "loaded"})) = FALSE
      BY <1>1
    <3> HIDE DEF CallOf
    <3> QED
      BY <2>1, <3>1
  <2>3. Placed(handles'[i], First(i), Done(i), FALSE, FALSE, held')
    BY <2>2, PlacedSame
  <2>4. First(i)' = First(i) /\ Done(i)' = Done(i)
    BY DEF First, Done
  <2>5. CallOf(i, {"loaded"})' = FALSE
        /\ (~Safe \/ CallOf(i, {"loop", "loaded"})') = FALSE
    BY <1>1
  <2>6. mounted'
    BY <1>3 DEF HandleInv
  <2> QED
    BY <2>3, <2>4, <2>5, <2>6
<1> QED
  BY <1>2, <1>3 DEF HandleInv

\* What a call leaves of the memory and the mount.
LEMMA MemoryInvNext ==
  ASSUME FileInv, MemoryInv, [Next]_vars
  PROVE  MemoryInv'
<1> DEFINE Kept == /\ Safe => fetched' = held'
                   /\ fs' = fs /\ mounted' = mounted
<1>1. ASSUME Kept, \/ call' = call \/ call' = NoCall
                   \/ GoTo("loop") \/ GoTo("loaded") \/ GoTo(Entrance)
                   \/ mounted /\ call'.op \in {"next", "open", "read"}
                              /\ call'.at = Entrance
      PROVE  MemoryInv'
  <2>1. call \in Calls
    BY DEF FileInv, TypeOK
  <2>2. CASE call' = call \/ call' = NoCall
    BY <1>1, <2>2 DEF MemoryInv, NoCall, Nothing
  <2>3. ASSUME NEW place, place = "sync" => Safe, GoTo(place)
        PROVE  MemoryInv'
    <3>1. call' = [call EXCEPT !.at = place]
      BY <2>3 DEF GoTo
    <3>2. call'.op = call.op /\ (call'.at = "sync" => Safe)
      BY <2>1, <2>3, <3>1 DEF Calls, NoCall, Nothing
    <3> QED
      BY <1>1, <3>2 DEF MemoryInv
  <2>4. CASE mounted /\ call'.op \in {"next", "open", "read"}
                     /\ call'.at = Entrance
    BY <1>1, <2>4 DEF MemoryInv, Entrance
  <2> QED
    BY <1>1, <2>2, <2>3, <2>4 DEF Entrance
<1>2. ASSUME UNCHANGED memory \/ \E sector : ReadSector(sector)
      PROVE  Safe => fetched' = held'
  BY <1>2 DEF MemoryInv, memory, ReadSector
<1>3. CASE InitCall
  BY <1>3 DEF InitCall, Begin, memory, MemoryInv
<1>4. CASE \E i \in Handles : \/ OpenRootDir(i) \/ NextCall(i) \/ OpenHandle(i)
                              \/ \E name \in Wanted : OpenCall(i, name)
                              \/ \E size \in Sizes : ReadCall(i, size)
  <2> HIDE DEF Kept
  <2>1. Kept
    BY <1>2, <1>4 DEF Kept, OpenRootDir, NextCall, OpenHandle, OpenCall, ReadCall
  <2>2. \/ call' = call
        \/ mounted /\ call'.op \in {"next", "open", "read"}
                   /\ call'.at = Entrance
    BY <1>4 DEF OpenRootDir, NextCall, OpenHandle, OpenCall, ReadCall, Begin
  <2> QED
    BY <1>1, <2>1, <2>2
<1>5. CASE FindBootSector
  <2>1. /\ Safe => fetched' = held'
        /\ call \in Calls /\ call.op = "init" /\ call.at = "boot"
    BY <1>2, <1>5, CallShapes DEF FindBootSector, FileInv, TypeOK, At
  <2>2. CASE call.sector = BootAt
    BY <1>5, <2>1, <2>2 DEF FindBootSector, Return, MemoryInv, NoCall, Nothing
  <2>3. CASE call.sector # BootAt
    <3>1. /\ call' = [call EXCEPT !.sector = BootAt]
          /\ mounted' = mounted /\ fs' = fs
      BY <1>5, <2>3 DEF FindBootSector
    <3>2. call'.op = "init" /\ call'.at = "boot"
      BY <2>1, <3>1 DEF Calls, NoCall, Nothing
    <3> QED
      BY <2>1, <3>1, <3>2 DEF MemoryInv
  <2> QED
    BY <2>2, <2>3
<1>6. CASE InitFails \/ SyncCache \/ SyncFails \/ FollowLink \/ LoadSector
           \/ NextSectorFails \/ ScanEntry \/ ReadFinish
  <2> HIDE DEF Kept
  <2>1. Kept
    BY <1>2, <1>6 DEF Kept, InitFails, SyncCache, SyncFails, FollowLink,
                      LoadSector, NextSectorFails, ScanEntry, ReadFinish,
                      ReadFails
  <2>2. GiveUp => call' = NoCall
    BY DEF GiveUp, Finish, Return
  <2>3. CASE ScanEntry
    <3>1. \/ \E status : Return(status, 0)
          \/ GoTo("loop") \/ GoTo(Entrance)
      BY <2>3, ScanEntryLeads
    <3> QED
      BY <1>1, <2>1, <3>1 DEF Return
  <2>4. CASE ~ScanEntry
    <3>1. call' = NoCall \/ GoTo("loop") \/ GoTo("loaded")
      BY <1>6, <2>2, <2>4 DEF InitFails, SyncCache, SyncFails, FollowLink,
                         LoadSector, NextSectorFails, ReadFinish, Return, Finish
    <3> QED
      BY <1>1, <2>1, <3>1
  <2> QED
    BY <2>3, <2>4
<1>7. CASE ReadCopy
  <2>1. call \in Calls /\ call.op = "read"
    BY <1>7 DEF ReadCopy, ReadsMore, FileInv, TypeOK
  <2>2. call'.op = "read" /\ call'.at = "loop"
    BY <1>7, <2>1 DEF ReadCopy, Calls, NoCall, Nothing
  <2>3. UNCHANGED <<fetched, held, fs, mounted>>
    BY <1>7 DEF ReadCopy, memory
  <2> QED
    BY <2>1, <2>2, <2>3 DEF MemoryInv
<1>8. CASE UNCHANGED vars
  BY <1>8 DEF vars, memory, MemoryInv
<1>9. CASE \E i \in Handles : NextRefused(i) \/ OpenRefused(i) \/ ReadRefused(i)
  BY <1>9, RefusedKeeps DEF MemoryInv
<1> QED
  BY <1>3, <1>4, <1>5, <1>6, <1>7, <1>8, <1>9 DEF Next, Program, Step

\* A step of a call, or of the program, is about one handle.
LEMMA StepKeeps ==
  ASSUME OrderInv, Sole, NEW w \in Handles, mounted' = mounted,
         \A i \in Handles \ {w} :
           /\ handles'[i] = handles[i] /\ file'[i] = file[i]
           /\ data'[i] = data[i] /\ found'[i] = found[i],
         call.op \in {"next", "open", "read"} => call.h = w,
         call'.op \in {"next", "open", "read"} => call'.h = w,
         HandleInv(w)' /\ FoundInv(w)' /\ ReadInv(w)'
  PROVE  \A i \in Handles : HandleInv(i)' /\ FoundInv(i)' /\ ReadInv(i)'
<1> SUFFICES ASSUME NEW i \in Handles \ {w}
             PROVE  HandleInv(i)' /\ FoundInv(i)' /\ ReadInv(i)'
  OBVIOUS
<1>1. /\ ~CallOf(i, {"loaded"}) /\ ~CallOf(i, {"loop", "loaded"})
      /\ ~CallOf(i, {"loaded"})' /\ ~CallOf(i, {"loop", "loaded"})'
  BY DEF CallOf
<1>2. FileInv /\ HandleInv(i) /\ FoundInv(i) /\ ReadInv(i)
  BY DEF OrderInv
<1> QED
  BY <1>1, <1>2, OthersKeep

\* The handle of the call in progress.
LEMMA AtWork ==
  ASSUME OrderInv, call.op \in {"next", "open", "read"}
  PROVE  /\ call.h \in Handles /\ handles[call.h] \in Handle
         /\ handles[call.h].type = IF call.op = "read" THEN "file" ELSE "dir"
         /\ mounted /\ First(call.h) \in Nat /\ Done(call.h) \in Nat
         /\ Placed(handles[call.h], First(call.h), Done(call.h),
                   call.at = "loaded", ~Safe \/ call.at \in {"loop", "loaded"},
                   held)
<1> DEFINE w == call.h
<1>1. /\ w \in Handles /\ handles[w] \in Handle /\ file[w] \in DirEntry
      /\ handles[w].type = IF call.op = "read" THEN "file" ELSE "dir"
      /\ data[w] \in Seq(Nat \X Nat)
  BY CallShapes DEF OrderInv, FileInv, TypeOK, CallInv
<1>2. First(w) \in Nat /\ Done(w) \in Nat
  BY <1>1, BootOK, LenProperties DEF First, Done, Handle, DirEntry
<1>3. /\ mounted
      /\ Placed(handles[w], First(w), Done(w), CallOf(w, {"loaded"}),
                ~Safe \/ CallOf(w, {"loop", "loaded"}), held)
  BY <1>1 DEF OrderInv, HandleInv
<1>4. /\ CallOf(w, {"loaded"}) = (call.at = "loaded")
      /\ CallOf(w, {"loop", "loaded"}) = (call.at \in {"loop", "loaded"})
  BY DEF CallOf
<1> HIDE DEF CallOf
<1> QED
  BY <1>1, <1>2, <1>3, <1>4

LEMMA AtWorkCases ==
  ASSUME OrderInv, call.op \in {"next", "open", "read"}
  PROVE  LET P(loading, working) == Placed(handles[call.h], First(call.h),
                                           Done(call.h), loading, working, held)
         IN  /\ call.at = "sync" => Safe /\ P(FALSE, FALSE)
             /\ call.at = "loop" => P(FALSE, TRUE)
             /\ call.at = "loaded" => P(TRUE, TRUE)
<1> DEFINE P(loading, working) == Placed(handles[call.h], First(call.h),
                                         Done(call.h), loading, working, held)
<1>1. P(call.at = "loaded", ~Safe \/ call.at \in {"loop", "loaded"})
  BY AtWork
<1>2. ASSUME call.at = "sync"
      PROVE  Safe /\ P(FALSE, FALSE)
  <2>1. /\ Safe
        /\ (call.at = "loaded") = FALSE
        /\ (~Safe \/ call.at \in {"loop", "loaded"}) = FALSE
    BY <1>2 DEF OrderInv, MemoryInv
  <2> QED
    BY <1>1, <2>1
<1>3. ASSUME call.at = "loop"
      PROVE  P(FALSE, TRUE)
  <2>1. /\ (call.at = "loaded") = FALSE
        /\ (~Safe \/ call.at \in {"loop", "loaded"}) = TRUE
    BY <1>3
  <2> QED
    BY <1>1, <2>1
<1>4. ASSUME call.at = "loaded"
      PROVE  P(TRUE, TRUE)
  <2>1. /\ (call.at = "loaded") = TRUE
        /\ (~Safe \/ call.at \in {"loop", "loaded"}) = TRUE
    BY <1>4
  <2> QED
    BY <1>1, <2>1
<1> QED
  BY <1>2, <1>3, <1>4

\* Where a step leads, what has to be known of the handle.
LEMMA LeadsOut ==
  ASSUME NEW w \in Handles, mounted', call' = NoCall, 
         Placed(handles'[w], First(w)', Done(w)', FALSE, ~Safe, held')
  PROVE  HandleInv(w)'
<1>1. /\ CallOf(w, {"loaded"})' = FALSE
      /\ (~Safe \/ CallOf(w, {"loop", "loaded"})') = ~Safe
  BY DEF CallOf, NoCall, Nothing
<1> QED
  BY <1>1 DEF HandleInv

LEMMA LeadsToSync ==
  ASSUME NEW w \in Handles, mounted', Safe, call'.at = "sync",
         Placed(handles'[w], First(w)', Done(w)', FALSE, FALSE, held')
  PROVE  HandleInv(w)'
<1>1. /\ CallOf(w, {"loaded"})' = FALSE
      /\ (~Safe \/ CallOf(w, {"loop", "loaded"})') = FALSE
  BY DEF CallOf
<1> QED
  BY <1>1 DEF HandleInv

LEMMA LeadsToLoop ==
  ASSUME NEW w \in Handles, mounted', call'.at = "loop", call'.h = w,
         call'.op \in {"next", "open", "read"},
         Placed(handles'[w], First(w)', Done(w)', FALSE, TRUE, held')
  PROVE  HandleInv(w)'
<1>1. /\ CallOf(w, {"loaded"})' = FALSE
      /\ (~Safe \/ CallOf(w, {"loop", "loaded"})') = TRUE
  BY DEF CallOf
<1> QED
  BY <1>1 DEF HandleInv

LEMMA LeadsToLoaded ==
  ASSUME NEW w \in Handles, mounted', call'.at = "loaded", call'.h = w,
         call'.op \in {"next", "open", "read"},
         Placed(handles'[w], First(w)', Done(w)', TRUE, TRUE, held')
  PROVE  HandleInv(w)'
<1>1. /\ CallOf(w, {"loaded"})' = TRUE
      /\ (~Safe \/ CallOf(w, {"loop", "loaded"})') = TRUE
  BY DEF CallOf
<1> QED
  BY <1>1 DEF HandleInv

-----------------------------------------------------------------------------
(* Handles that are opened.                                                *)

LEMMA ClusterToSectorIs ==
  ASSUME DiskAsExpected, MemoryInv, mounted, NEW cluster \in Nat
  PROVE  ClusterToSector(cluster)
           = DataStart + (cluster - 2) * Boot.sec_per_cluster
<1>1. (cluster - 2) * Boot.sec_per_cluster \in Int /\ DataStart \in Int
  BY BootOK
<1> QED
  BY <1>1, MountedIs DEF ClusterToSector

LEMMA RootHandlePlaced ==
  ASSUME DiskAsExpected, FileInv, MemoryInv, mounted, NEW a, NEW s
  PROVE  /\ RootHandle \in Handle /\ RootHandle.type = "dir"
         /\ RootHandle.cursor = 0
         /\ Placed(RootHandle, Boot.root_cluster, 0, FALSE, a, s)
<1>1. RootHandle \in Handle /\ RootHandle.type = "dir"
  BY RootHandleOK DEF FileInv
<1>2. /\ fs.fat_type = Boot.fat_type
      /\ fs.root_dir = IF Boot.fat_type = "FAT32"
                       THEN Boot.root_cluster ELSE RootStart
  BY MountedIs
<1>3. RootHandle.cursor = 0 /\ RootHandle.cluster_position = 0
  BY DEF RootHandle, NewHandle
<1>4. NoChain(RootHandle) <=> Boot.fat_type # "FAT32"
  BY <1>1 DEF NoChain
<1>5. CASE Boot.fat_type = "FAT32"
  <2>1. /\ RootHandle.cluster = Boot.root_cluster
        /\ RootHandle.sector = ClusterToSector(Boot.root_cluster)
    BY <1>2, <1>5 DEF RootHandle, NewHandle
  <2>2. RootHandle.sector
          = DataStart + (Boot.root_cluster - 2) * Boot.sec_per_cluster
    BY <2>1, BootOK, ClusterToSectorIs
  <2>3. Boot.root_cluster \in Clusters
    BY <1>5 DEF DiskAsExpected
  <2> QED
    BY <1>1, <1>3, <1>4, <1>5, <2>1, <2>2, <2>3, BootOK, PlacedAtStart
<1>6. CASE Boot.fat_type # "FAT32"
  <2>1. RootHandle.cluster = 0 /\ RootHandle.sector = RootStart
    BY <1>2, <1>6 DEF RootHandle, NewHandle
  <2> QED
    BY <1>1, <1>3, <1>4, <1>6, <2>1, BootOK, PlacedAtStart
<1> QED
  BY <1>5, <1>6

LEMMA FileHandlePlaced ==
  ASSUME DiskAsExpected, FileInv, MemoryInv, mounted, NEW x \in Handle,
         Opens(x.entry), NEW a, NEW s
  PROVE  /\ FileHandle(x) \in Handle /\ FileHandle(x).type = "file"
         /\ Placed(FileHandle(x), x.entry.first, 0, FALSE, a, s)
<1>1. FileHandle(x) \in Handle /\ FileHandle(x).type = "file"
  BY FileHandleOK DEF FileInv
<1>2. x.entry.first \in Clusters /\ x.entry.first \in Nat
  BY DEF Opens, IsValidCluster, Clusters, Handle, DirEntry
<1>3. /\ FileHandle(x).cursor = 0 /\ FileHandle(x).cluster_position = 0
      /\ FileHandle(x).cluster = x.entry.first
      /\ FileHandle(x).sector = ClusterToSector(x.entry.first)
  BY DEF FileHandle, Handle
<1>4. FileHandle(x).sector
        = DataStart + (x.entry.first - 2) * Boot.sec_per_cluster
  BY <1>2, <1>3, ClusterToSectorIs
<1>5. ~NoChain(FileHandle(x))
  BY <1>1 DEF NoChain
<1> QED
  BY <1>1, <1>2, <1>3, <1>4, <1>5, PlacedAtStart

\* A handle of which nothing is done yet, as that of the root directory or of
\* a file.
LEMMA DirectoryStarts ==
  ASSUME OrderInv, NEW w \in Handles,
         handles'[w].type = "dir", handles'[w].cursor = 0,
         found' = [found EXCEPT ![w] = << >>], file' = file, data' = data
  PROVE  /\ First(w)' = Boot.root_cluster /\ Done(w)' = 0
         /\ FoundInv(w)' /\ ReadInv(w)'
<1>1. First(w)' = Boot.root_cluster /\ Done(w)' = 0
  BY DEF First, Done
<1>2. ReadInv(w)'
  BY DEF OrderInv, ReadInv
<1>3. found'[w] = Listed(0)
  BY ListedSteps DEF OrderInv
<1>4. 0 \in Nat /\ MayLookAt(0)
  BY SizesAssumption DEF MayLookAt
<1> QED
  BY <1>1, <1>2, <1>3, <1>4 DEF FoundInv

LEMMA FileStarts ==
  ASSUME OrderInv, NEW w \in Handles, NEW entry \in DirEntry,
         handles'[w].type = "file", file' = [file EXCEPT ![w] = entry],
         data' = [data EXCEPT ![w] = << >>]
  PROVE  First(w)' = entry.first /\ Done(w)' = 0 /\ ReadInv(w)'
<1>1. file'[w] = entry /\ data'[w] = << >> /\ entry.size \in Nat
  BY DEF OrderInv, FileInv, TypeOK, DirEntry
<1>2. Len(data'[w]) = 0
  BY <1>1
<1> QED
  BY <1>1, <1>2 DEF First, Done, ReadInv

-----------------------------------------------------------------------------
(* The calls of the program.                                               *)

KeepsOrder == \A i \in Handles : HandleInv(i)' /\ FoundInv(i)' /\ ReadInv(i)'

\* Nothing is known of the handles before the disk has been mounted.
LEMMA UnmountedKeeps ==
  ASSUME OrderInv, ~mounted, UNCHANGED <<handles, file, data, found>>
  PROVE  KeepsOrder
<1>1. \A i \in Handles : handles'[i].type = "unused"
  BY DEF OrderInv, HandleInv
<1>2. \A i \in Handles : FoundInv(i)' /\ ReadInv(i)'
  BY DEF OrderInv, FoundInv, ReadInv
<1> QED
  BY <1>1, <1>2 DEF HandleInv, KeepsOrder

LEMMA OpenRootDirOrder ==
  ASSUME DiskAsExpected, Sole, OrderInv, NEW w \in Handles, OpenRootDir(w)
  PROVE  KeepsOrder
<1>1. /\ mounted /\ mounted' = mounted /\ call = NoCall /\ call' = NoCall
      /\ handles' = [handles EXCEPT ![w] = RootHandle]
      /\ found' = [found EXCEPT ![w] = << >>]
      /\ file' = file /\ data' = data
  BY DEF OpenRootDir
<1>2. handles'[w] = RootHandle
  BY <1>1 DEF OrderInv, FileInv, TypeOK
<1>3. /\ RootHandle.type = "dir" /\ RootHandle.cursor = 0
      /\ Placed(RootHandle, Boot.root_cluster, 0, FALSE, ~Safe, held')
  BY <1>1, RootHandlePlaced DEF OrderInv
<1>4. /\ First(w)' = Boot.root_cluster /\ Done(w)' = 0
      /\ FoundInv(w)' /\ ReadInv(w)'
  BY <1>1, <1>2, <1>3, DirectoryStarts
<1>5. HandleInv(w)'
  BY <1>1, <1>2, <1>3, <1>4, LeadsOut
<1>6. \A i \in Handles \ {w} :
        /\ handles'[i] = handles[i] /\ file'[i] = file[i]
        /\ data'[i] = data[i] /\ found'[i] = found[i]
  BY <1>1 DEF OrderInv, FileInv, TypeOK
<1>7. call.op = "none" /\ call'.op = "none"
  BY <1>1 DEF NoCall, Nothing
<1> QED
  BY <1>1, <1>4, <1>5, <1>6, <1>7, StepKeeps DEF KeepsOrder

LEMMA OpenCallOrder ==
  ASSUME DiskAsExpected, Sole, OrderInv, NEW w \in Handles, NEW name \in Wanted,
         OpenCall(w, name)
  PROVE  KeepsOrder
<1>1. /\ mounted /\ mounted' = mounted /\ call = NoCall
      /\ call' = [op |-> "open", h |-> w, at |-> Entrance, name |-> name]
      /\ handles' = [handles EXCEPT ![w] = RootHandle]
      /\ found' = [found EXCEPT ![w] = << >>]
      /\ file' = file /\ data' = data
  BY DEF OpenCall, Begin
<1>2. handles'[w] = RootHandle
  BY <1>1 DEF OrderInv, FileInv, TypeOK
<1>3. /\ RootHandle.type = "dir" /\ RootHandle.cursor = 0
      /\ \A a : Placed(RootHandle, Boot.root_cluster, 0, FALSE, a, held')
  BY <1>1, RootHandlePlaced DEF OrderInv
<1>4. /\ First(w)' = Boot.root_cluster /\ Done(w)' = 0
      /\ FoundInv(w)' /\ ReadInv(w)'
  BY <1>1, <1>2, <1>3, DirectoryStarts
<1>5. HandleInv(w)'
  <2>1. CASE Safe
    BY <1>1, <1>2, <1>3, <1>4, <2>1, LeadsToSync DEF Entrance
  <2>2. CASE ~Safe
    <3>1. call'.at = "loop" /\ call'.op = "open" /\ call'.h = w
      BY <1>1, <2>2 DEF Entrance
    <3>2. Placed(handles'[w], First(w)', Done(w)', FALSE, TRUE, held')
      BY <1>2, <1>3, <1>4
    <3> QED
      BY <1>1, <3>1, <3>2, LeadsToLoop
  <2> QED
    BY <2>1, <2>2
<1>6. \A i \in Handles \ {w} :
        /\ handles'[i] = handles[i] /\ file'[i] = file[i]
        /\ data'[i] = data[i] /\ found'[i] = found[i]
  BY <1>1 DEF OrderInv, FileInv, TypeOK
<1>7. call.op = "none" /\ call'.h = w
  BY <1>1 DEF NoCall, Nothing
<1> QED
  BY <1>1, <1>4, <1>5, <1>6, <1>7, StepKeeps DEF KeepsOrder

\* Next and Read begin with a handle as they find it.
LEMMA CallOrder ==
  ASSUME DiskAsExpected, Sole, OrderInv, NEW w \in Handles,
         NextCall(w) \/ \E size \in Sizes : ReadCall(w, size)
  PROVE  KeepsOrder
<1>1. /\ mounted /\ mounted' = mounted /\ call = NoCall /\ call.op = "none"
      /\ call'.op \in {"next", "read"} /\ call'.h = w /\ call'.at = Entrance
      /\ handles[w].type # "unused"
      /\ UNCHANGED <<held, handles, file, data, found>>
  BY DEF NextCall, ReadCall, Begin, memory, history, NoCall, Nothing
<1>2. Placed(handles[w], First(w), Done(w), FALSE, ~Safe, held)
  <2>1. CallOf(w, {"loaded"}) = FALSE
        /\ (~Safe \/ CallOf(w, {"loop", "loaded"})) = ~Safe
    BY <1>1 DEF CallOf
  <2>2. Placed(handles[w], First(w), Done(w), CallOf(w, {"loaded"}),
               ~Safe \/ CallOf(w, {"loop", "loaded"}), held)
    BY <1>1 DEF OrderInv, HandleInv
  <2> HIDE DEF CallOf
  <2> QED
    BY <2>1, <2>2
<1>3. First(w)' = First(w) /\ Done(w)' = Done(w)
  BY <1>1 DEF First, Done
<1>4. FoundInv(w)' /\ ReadInv(w)'
  BY <1>1 DEF OrderInv, FoundInv, ReadInv
<1>5. HandleInv(w)'
  <2>1. CASE Safe
    <3>1. Placed(handles'[w], First(w)', Done(w)', FALSE, FALSE, held')
      <4>1. (~Safe) = FALSE
        BY <2>1
      <4> QED
        BY <1>1, <1>2, <1>3, <4>1
    <3> QED
      BY <1>1, <2>1, <3>1, LeadsToSync DEF Entrance
  <2>2. CASE ~Safe
    <3>1. Placed(handles'[w], First(w)', Done(w)', FALSE, TRUE, held')
      <4>1. (~Safe) = TRUE
        BY <2>2
      <4> QED
        BY <1>1, <1>2, <1>3, <4>1
    <3> QED
      BY <1>1, <2>2, <3>1, LeadsToLoop DEF Entrance
  <2> QED
    BY <2>1, <2>2
<1> QED
  BY <1>1, <1>4, <1>5, StepKeeps DEF KeepsOrder

LEMMA OpenHandleOrder ==
  ASSUME DiskAsExpected, Sole, OrderInv, NEW w \in Handles, OpenHandle(w)
  PROVE  KeepsOrder
<1> DEFINE x == handles[w]
<1>1. /\ mounted /\ mounted' = mounted /\ call = NoCall /\ call' = NoCall
      /\ Opens(x.entry)
      /\ handles' = [handles EXCEPT ![w] = FileHandle(x)]
      /\ file' = [file EXCEPT ![w] = x.entry]
      /\ data' = [data EXCEPT ![w] = << >>]
      /\ found' = found
  BY DEF OpenHandle
<1>2. x \in Handle /\ x.entry \in DirEntry /\ handles'[w] = FileHandle(x)
  BY <1>1 DEF OrderInv, FileInv, TypeOK, Handle
<1> HIDE DEF x
<1>3. /\ FileHandle(x).type = "file"
      /\ Placed(FileHandle(x), x.entry.first, 0, FALSE, ~Safe, held')
  BY <1>1, <1>2, FileHandlePlaced DEF OrderInv
<1>4. First(w)' = x.entry.first /\ Done(w)' = 0 /\ ReadInv(w)'
  BY <1>1, <1>2, <1>3, FileStarts
<1>5. FoundInv(w)'
  BY <1>1, <1>2, <1>3 DEF OrderInv, FoundInv
<1>6. HandleInv(w)'
  BY <1>1, <1>2, <1>3, <1>4, LeadsOut
<1>7. \A i \in Handles \ {w} :
        /\ handles'[i] = handles[i] /\ file'[i] = file[i]
        /\ data'[i] = data[i] /\ found'[i] = found[i]
  BY <1>1 DEF OrderInv, FileInv, TypeOK
<1>8. call.op = "none" /\ call'.op = "none"
  BY <1>1 DEF NoCall, Nothing
<1> QED
  BY <1>1, <1>4, <1>5, <1>6, <1>7, <1>8, StepKeeps DEF KeepsOrder

-----------------------------------------------------------------------------
(* The steps of a call up to the sector.                                   *)

\* The fields that Placed looks at.
SamePlace(y, x) ==
  /\ y.type = x.type /\ y.cursor = x.cursor /\ y.cluster = x.cluster
  /\ y.cluster_position = x.cluster_position /\ y.sector = x.sector
  /\ y.current_sector = x.current_sector

LEMMA FinishLeaves ==
  ASSUME OrderInv, call.op \in {"next", "open", "read"}, NEW copied, NEW remaining,
         Finish(copied, remaining)
  PROVE  /\ call' = NoCall
         /\ \A i \in Handles \ {call.h} : handles'[i] = handles[i]
         /\ SamePlace(handles'[call.h], handles[call.h])
<1> DEFINE left == [handles[call.h].entry EXCEPT !.size = remaining]
           x == [handles[call.h] EXCEPT !.entry = left]
<1>1. call' = NoCall /\ handles' = [handles EXCEPT ![call.h] = x]
  BY DEF Finish, Return, h
<1>2. call.h \in Handles /\ handles[call.h] \in Handle
  BY AtWork
<1> HIDE DEF left
<1>3. SamePlace(x, handles[call.h])
  BY <1>2 DEF SamePlace, Handle
<1> HIDE DEF x
<1>4. handles \in [Handles -> Handle]
  BY DEF OrderInv, FileInv, TypeOK
<1> QED
  BY <1>1, <1>2, <1>3, <1>4

LEMMA GiveUpLeaves ==
  ASSUME OrderInv, call.op \in {"next", "open", "read"}, GiveUp
  PROVE  /\ call' = NoCall
         /\ \A i \in Handles \ {call.h} : handles'[i] = handles[i]
         /\ SamePlace(handles'[call.h], handles[call.h])
<1>1. CASE call.op = "read"
  BY <1>1, FinishLeaves DEF GiveUp
<1>2. CASE call.op # "read"
  BY <1>2 DEF GiveUp, Return, SamePlace
<1> QED
  BY <1>1, <1>2

\* A call is left with its handle where it was: the sector is still there, or
\* all of it was done.
LEMMA LeftWhereItWas ==
  ASSUME Sole, OrderInv, call.op \in {"next", "open", "read"}, call' = NoCall,
         \A i \in Handles \ {call.h} : handles'[i] = handles[i],
         SamePlace(handles'[call.h], handles[call.h]),
         call.at # "loaded",
         Due(handles[call.h]) \/ held' = held \/ Safe,
         UNCHANGED <<mounted, file, data, found>>
  PROVE  KeepsOrder
<1>0. PICK w \in Handles : w = call.h
  BY AtWork
<1> DEFINE x == handles[w]
           y == handles'[w]
<1>1. /\ x \in Handle /\ mounted /\ Done(w) \in Nat
      /\ Placed(x, First(w), Done(w), call.at = "loaded",
                ~Safe \/ call.at \in {"loop", "loaded"}, held)
      /\ SamePlace(y, x)
  BY <1>0, AtWork
<1> HIDE DEF x, y
<1>2. First(w)' = First(w) /\ Done(w)' = Done(w)
  BY <1>1 DEF First, Done, SamePlace, x, y
<1>3. FoundInv(w)' /\ ReadInv(w)'
  BY <1>1 DEF OrderInv, FoundInv, ReadInv, SamePlace, x, y
<1>4. Placed(y, First(w), Done(w), FALSE, ~Safe, held')
  <2> DEFINE a == ~Safe \/ call.at \in {"loop", "loaded"}
  <2>1. (call.at = "loaded") = FALSE
    OBVIOUS
  <2>2. Placed(x, First(w), Done(w), FALSE, a, held)
    BY <1>1, <2>1
  <2>4. CASE held' = held \/ Safe
    <3>1. ~Safe => a /\ held' = held
      BY <2>4
    <3> HIDE DEF a
    <3> QED
      BY <2>2, <1>1, <3>1, PlacedSame DEF SamePlace
  <2>5. CASE Due(x)
    <3> HIDE DEF a
    <3>1. x.cursor = IF x.type = "file" THEN Done(w) % SectorBytes ELSE Done(w)
      BY <2>2 DEF Placed
    <3>2. PICK m \in Nat :
            /\ Stands(x, First(w), m)
            /\ (m - 1) * Per(x) < Done(w) /\ Done(w) <= m * Per(x)
      BY <2>2 DEF Placed
    <3>3. Done(w) = m * Per(x)
      BY <1>1, <2>5, <3>1, <3>2, DueMeans
    <3>4. Placed(x, First(w), Done(w), FALSE, ~Safe, held')
      BY <3>1, <3>2, <3>3 DEF Placed
    <3> QED
      BY <1>1, <3>4, PlacedSame DEF SamePlace
  <2> QED
    BY <1>0, <2>4, <2>5 DEF x
<1>5. HandleInv(w)'
  BY <1>1, <1>2, <1>4, LeadsOut DEF y
<1>6. call'.op = "none"
  BY DEF NoCall, Nothing
<1> QED
  BY <1>0, <1>1, <1>3, <1>5, <1>6, StepKeeps DEF KeepsOrder

\* In which sector a call is, and whether it needs another one.
LEMMA NeedsIsDue ==
  ASSUME OrderInv, call.op \in {"next", "open", "read"}
  PROVE  /\ NeedsSector => Due(handles[call.h])
         /\ Due(handles[call.h]) /\ (call.op = "read" => ReadsMore) => NeedsSector
<1>1. handles[call.h].type = IF call.op = "read" THEN "file" ELSE "dir"
  BY AtWork
<1> QED
  BY <1>1 DEF NeedsSector, Due, handle, h

LEMMA SyncCacheOrder ==
  ASSUME DiskAsExpected, Sole, OrderInv, SyncCache
  PROVE  KeepsOrder
<1>1. /\ call.op \in {"next", "open", "read"} /\ call.at = "sync"
      /\ call \in Calls
      /\ UNCHANGED <<mounted, handles, file, data, found>>
      /\ call' = [call EXCEPT !.at = "loop"]
  BY CallShapes DEF SyncCache, At, GoTo, OrderInv, FileInv, TypeOK, history
<1>2. PICK w \in Handles : w = call.h
  BY <1>1, AtWork
<1>3. /\ mounted /\ Safe
      /\ Placed(handles[w], First(w), Done(w), FALSE, FALSE, held)
  BY <1>1, <1>2, AtWork, AtWorkCases
<1>4. held' = handles[w].current_sector
  <2>1. fetched = held
    BY <1>3 DEF OrderInv, MemoryInv
  <2> QED
    BY <1>2, <2>1 DEF SyncCache, ReadSector, memory, handle, h
<1>5. Placed(handles[w], First(w), Done(w), FALSE, TRUE, held')
  BY <1>3, <1>4, PlacedSyncs
<1>6. First(w)' = First(w) /\ Done(w)' = Done(w)
  BY <1>1 DEF First, Done
<1>7. call'.at = "loop" /\ call'.h = w /\ call'.op = call.op
  BY <1>1, <1>2 DEF Calls, NoCall, Nothing
<1>8. HandleInv(w)'
  BY <1>1, <1>3, <1>5, <1>6, <1>7, LeadsToLoop
<1>9. FoundInv(w)' /\ ReadInv(w)'
  BY <1>1 DEF OrderInv, FoundInv, ReadInv
<1> QED
  BY <1>1, <1>2, <1>7, <1>8, <1>9, StepKeeps DEF KeepsOrder

LEMMA SyncFailsOrder ==
  ASSUME DiskAsExpected, Sole, OrderInv, SyncFails
  PROVE  KeepsOrder
<1>1. /\ call.op \in {"next", "open", "read"} /\ call.at = "sync"
      /\ UNCHANGED <<held, mounted, file, data, found>>
  BY CallShapes DEF SyncFails, At, ReadFails, memory, OrderInv, FileInv, TypeOK,
                    history
<1>2. /\ call' = NoCall
      /\ \A i \in Handles \ {call.h} : handles'[i] = handles[i]
      /\ SamePlace(handles'[call.h], handles[call.h])
  <2>1. CASE call.op = "read"
    BY <2>1 DEF SyncFails, Return, SamePlace
  <2>2. CASE call.op # "read"
    BY <1>1, <2>2, GiveUpLeaves DEF SyncFails
  <2> QED
    BY <2>1, <2>2
<1> QED
  BY <1>1, <1>2, LeftWhereItWas

LEMMA NextSectorFailsOrder ==
  ASSUME DiskAsExpected, Sole, OrderInv, NextSectorFails
  PROVE  KeepsOrder
<1>1. /\ call.op \in {"next", "open", "read"} /\ call.at = "loop"
      /\ GiveUp
      /\ UNCHANGED <<held, mounted, file, data, found>>
  BY CallShapes DEF NextSectorFails, At, ReadFails, memory, OrderInv, FileInv,
                    TypeOK, history
<1> QED
  BY <1>1, GiveUpLeaves, LeftWhereItWas

LEMMA ReadFinishOrder ==
  ASSUME DiskAsExpected, Sole, OrderInv, ReadFinish
  PROVE  KeepsOrder
<1>1. /\ call.op = "read" /\ call.at = "loop"
      /\ Finish(call.copied, call.remaining)
      /\ UNCHANGED <<held, mounted, file, data, found>>
  BY DEF ReadFinish, At, memory, history
<1> QED
  BY <1>1, FinishLeaves, LeftWhereItWas

\* The link found at the end of a cluster is that of the cluster.
LEMMA LinkIsNext ==
  ASSUME DiskAsExpected, MemoryInv, mounted, NEW cluster \in Clusters,
         NEW sector, sector = FatSectorOf(cluster),
         LinkAt(sector, cluster % FatEntries) \in Clusters
  PROVE  LinkAt(sector, cluster % FatEntries) = NextOf(cluster)
<1> DEFINE q == cluster \div FatEntries
           r == cluster % FatEntries
           c == (sector - FatStart) * FatEntries + r
<1>1. cluster \in Nat /\ FatEntries \in Nat \ {0} /\ FatStart \in Nat
  BY BootOK DEF Clusters
<1>2. q \in Nat /\ r \in 0 .. FatEntries - 1 /\ cluster = FatEntries * q + r
  BY <1>1
<1>3. sector = FatStart + q
  BY MountedIs DEF FatSectorOf
<1> HIDE DEF q, r
<1>4. c = cluster
  <2>1. sector - FatStart = q
    BY <1>1, <1>2, <1>3
  <2>2. q * FatEntries = FatEntries * q
    BY <1>1, <1>2
  <2> QED
    BY <1>2, <2>1, <2>2
<1>5. LinkAt(sector, r) = IF cluster \in DOMAIN Link THEN Link[cluster] ELSE 0
  BY <1>4 DEF LinkAt
<1>6. LinkAt(sector, r) \in Clusters
  BY DEF r
<1>7. 0 \notin Clusters
  BY DEF Clusters
<1> QED
  BY <1>5, <1>6, <1>7 DEF NextOf, r

LEMMA FollowLinkOrder ==
  ASSUME DiskAsExpected, Sole, OrderInv, FollowLink
  PROVE  KeepsOrder
<1>1. /\ call.op \in {"next", "open", "read"} /\ call.at = "loop"
      /\ call \in Calls /\ NeedsSector /\ AtClusterEnd
      /\ held' = FatSectorOf(handle.cluster)
      /\ UNCHANGED <<fs, mounted, file, data, found>>
  BY CallShapes DEF FollowLink, At, ReadSector, OrderInv, FileInv, TypeOK, history
<1>2. PICK w \in Handles : w = call.h
  BY <1>1, AtWork
<1> DEFINE x == handles[w]
           next == LinkAt(held', x.cluster % FatEntries)
           y == [x EXCEPT !.cluster = next, !.sector = ClusterToSector(next),
                          !.cluster_position = 0]
<1>3. /\ x \in Handle /\ mounted /\ First(w) \in Nat /\ Done(w) \in Nat
      /\ Placed(x, First(w), Done(w), FALSE, TRUE, held)
      /\ Due(x)
  BY <1>1, <1>2, AtWork, AtWorkCases, NeedsIsDue
<1>4. CASE ~IsValidCluster(next)
  <2>1. GiveUp
    BY <1>2, <1>4 DEF FollowLink, handle, h
  <2> QED
    BY <1>1, <1>2, <1>3, <2>1, GiveUpLeaves, LeftWhereItWas
<1>5. CASE IsValidCluster(next)
  <2>1. /\ handles' = [handles EXCEPT ![w] = y]
        /\ call' = [call EXCEPT !.at = "loop"]
    BY <1>2, <1>5 DEF FollowLink, handle, h, GoTo
  <2>2. next \in Clusters /\ next \in Nat
    <3> HIDE DEF next
    <3> QED
      BY <1>5 DEF IsValidCluster, Clusters
  <2>3. x.cluster # 0 /\ x.cluster_position = Boot.sec_per_cluster
    BY <1>1, <1>2, <1>3, MountedIs DEF AtClusterEnd, OrderInv, handle, h
  <2>4. x.cluster \in Clusters
    <3>1. PICK m \in Nat : Stands(x, First(w), m)
      BY <1>3 DEF Placed
    <3> QED
      BY <2>3, <3>1 DEF Stands
  <2>5. next = NextOf(x.cluster)
    <3>1. held' = FatSectorOf(x.cluster)
      BY <1>1, <1>2 DEF handle, h
    <3> QED
      BY <1>3, <2>2, <2>4, <3>1, LinkIsNext DEF OrderInv
  <2> HIDE DEF next
  <2>6. /\ ClusterToSector(next)
             = DataStart + (next - 2) * Boot.sec_per_cluster
        /\ ClusterToSector(next) \in Int
    <3>1. TypeOK
      BY DEF OrderInv, FileInv
    <3> QED
      BY <1>3, <2>2, <3>1, ClusterToSectorIs, SectorsOK DEF OrderInv
  <2>7. /\ y \in Handle /\ y.type = x.type /\ y.cursor = x.cursor
        /\ y.cluster = NextOf(x.cluster) /\ y.cluster_position = 0
        /\ y.sector = DataStart + (y.cluster - 2) * Boot.sec_per_cluster
    BY <1>3, <2>2, <2>5, <2>6 DEF Handle
  <2>8. handles'[w] = y
    BY <2>1 DEF OrderInv, FileInv, TypeOK
  <2> HIDE DEF x, y
  <2>9. Placed(y, First(w), Done(w), FALSE, TRUE, held')
    BY <1>3, <2>2, <2>3, <2>5, <2>7, PlacedFollows
  <2>10. First(w)' = First(w) /\ Done(w)' = Done(w)
    BY <1>1, <2>7, <2>8 DEF First, Done, x
  <2>11. call'.at = "loop" /\ call'.h = w /\ call'.op = call.op
    BY <1>1, <1>2, <2>1 DEF Calls, NoCall, Nothing
  <2>12. HandleInv(w)'
    BY <1>1, <1>3, <2>8, <2>9, <2>10, <2>11, LeadsToLoop
  <2>13. FoundInv(w)' /\ ReadInv(w)'
    BY <1>1, <2>7, <2>8 DEF OrderInv, FoundInv, ReadInv, x
  <2>14. \A i \in Handles \ {w} : handles'[i] = handles[i]
    BY <2>1 DEF OrderInv, FileInv, TypeOK
  <2> QED
    BY <1>1, <1>2, <2>11, <2>12, <2>13, <2>14, StepKeeps DEF KeepsOrder
<1> QED
  BY <1>4, <1>5

LEMMA LoadSectorOrder ==
  ASSUME DiskAsExpected, Sole, OrderInv, LoadSector
  PROVE  KeepsOrder
<1>1. /\ call.op \in {"next", "open", "read"} /\ call.at = "loop"
      /\ call \in Calls /\ NeedsSector /\ ~AtClusterEnd
      /\ UNCHANGED <<fs, mounted, file, data, found>>
      /\ call' = [call EXCEPT !.at = "loaded"]
  BY CallShapes DEF LoadSector, At, GoTo, OrderInv, FileInv, TypeOK, history
<1>2. PICK w \in Handles : w = call.h
  BY <1>1, AtWork
<1> DEFINE x == handles[w]
           current == IF Safe THEN x.sector ELSE x.current_sector
           sector == x.sector + 1
           position == x.cluster_position + 1
           y == [x EXCEPT !.current_sector = current, !.sector = sector,
                          !.cluster_position = position]
<1>3. /\ x \in Handle /\ mounted /\ First(w) \in Nat /\ Done(w) \in Nat
      /\ Placed(x, First(w), Done(w), FALSE, TRUE, held)
      /\ Due(x)
  BY <1>1, <1>2, AtWork, AtWorkCases, NeedsIsDue
<1>4. /\ handles' = [handles EXCEPT ![w] = y]
      /\ held' = x.sector /\ x.sector \in 0 .. NumSectors - 1
  <2>1. /\ handles' = [handles EXCEPT
              ![w].current_sector = IF Safe THEN handles[w].sector ELSE @,
              ![w].sector = @ + 1,
              ![w].cluster_position = @ + 1]
        /\ held' = handles[w].sector /\ handles[w].sector \in 0 .. NumSectors - 1
    BY <1>2 DEF LoadSector, ReadSector, handle, h
  <2>2. handles' = [handles EXCEPT ![w] = [handles[w] EXCEPT
              !.current_sector = IF Safe THEN handles[w].sector ELSE @,
              !.sector = @ + 1,
              !.cluster_position = @ + 1]]
    BY <2>1
  <2>3. y = [x EXCEPT !.current_sector = IF Safe THEN x.sector ELSE @,
                      !.sector = @ + 1,
                      !.cluster_position = @ + 1]
    BY Zenon
  <2> HIDE DEF y
  <2> QED
    BY <2>1, <2>2, <2>3
<1>5. x.cluster = 0 \/ x.cluster_position # Boot.sec_per_cluster
  BY <1>1, <1>2, <1>3, MountedIs DEF AtClusterEnd, OrderInv, handle, h
<1>6. current \in Int /\ sector \in Int /\ position \in Nat
      /\ (Safe => current = x.sector)
  <2>1. x.sector \in Int /\ x.current_sector \in Int /\ x.cluster_position \in Nat
    BY <1>3 DEF Handle
  <2> QED
    BY <2>1
<1>7. handles \in [Handles -> Handle]
  BY DEF OrderInv, FileInv, TypeOK
<1>8. sector = x.sector + 1 /\ position = x.cluster_position + 1
  OBVIOUS
<1> HIDE DEF current, sector, position
<1>9. /\ y \in Handle /\ y.type = x.type /\ y.cursor = x.cursor
      /\ y.cluster = x.cluster /\ y.sector = x.sector + 1
      /\ y.cluster_position = x.cluster_position + 1
      /\ y.current_sector = current
  BY <1>3, <1>6, <1>8 DEF Handle
<1>10. handles'[w] = y /\ \A i \in Handles \ {w} : handles'[i] = handles[i]
  BY <1>4, <1>7
<1> HIDE DEF x, y
<1>11. Placed(y, First(w), Done(w), TRUE, TRUE, held')
  <2>1. Safe => y.current_sector = x.sector
    BY <1>6, <1>9
  <2>2. Placed(y, First(w), Done(w), TRUE, TRUE, x.sector)
    BY <1>3, <1>4, <1>5, <1>9, <2>1, PlacedLoads
  <2> QED
    BY <1>4, <2>2
<1>12. First(w)' = First(w) /\ Done(w)' = Done(w)
  BY <1>1, <1>9, <1>10 DEF First, Done, x
<1>13. call'.at = "loaded" /\ call'.h = w /\ call'.op = call.op
  BY <1>1, <1>2 DEF Calls, NoCall, Nothing
<1>14. HandleInv(w)'
  BY <1>1, <1>3, <1>10, <1>11, <1>12, <1>13, LeadsToLoaded
<1>15. FoundInv(w)' /\ ReadInv(w)'
  BY <1>1, <1>9, <1>10 DEF OrderInv, FoundInv, ReadInv, x
<1> QED
  BY <1>1, <1>2, <1>10, <1>13, <1>14, <1>15, StepKeeps DEF KeepsOrder

-----------------------------------------------------------------------------
(* The turns of the loop of Next.                                          *)

\* The handle of the call in progress has something left in its sector, which is
\* in memory.
LEMMA InItsSector ==
  ASSUME OrderInv, call.op \in {"next", "open", "read"}, InMemory,
         call.op = "read" => ReadsMore, NEW w \in Handles, w = call.h
  PROVE  \E loading \in BOOLEAN :
           /\ Placed(handles[w], First(w), Done(w), loading, TRUE, held)
           /\ loading \/ ~Due(handles[w])
<1>1. CASE At("loaded")
  BY <1>1, AtWorkCases DEF At
<1>2. CASE At("loop") /\ ~NeedsSector
  <2>1. ~Due(handles[w])
    BY <1>2, NeedsIsDue
  <2> QED
    BY <1>2, <2>1, AtWorkCases DEF At
<1> QED
  BY <1>1, <1>2 DEF InMemory

\* The handle of a directory is at the slot that comes next, which is in memory.
LEMMA AtTheSlot ==
  ASSUME DiskAsExpected, OrderInv, call.op \in {"next", "open"}, InMemory
  PROVE  LET n == handle.cursor
             entry == EntryAt(<<held, n % SectorEntries>>)
         IN  /\ n \in Nat /\ MayLookAt(n) /\ MayLookAt(n + 1)
             /\ entry \in DirEntry
             /\ \/ entry = Slot(n)
                \/ entry.kind = "end" /\ Slot(n).kind = "end"
             /\ found[h] = Listed(n)
<1>1. PICK w \in Handles : w = call.h
  BY AtWork
<1> DEFINE x == handles[w]
           n == x.cursor
           entry == EntryAt(<<held, n % SectorEntries>>)
<1>2. /\ x \in Handle /\ x.type = "dir" /\ n \in Nat
      /\ First(w) = Boot.root_cluster /\ Done(w) = n
  BY <1>1, AtWork DEF First, Done, Handle
<1>3. entry \in DirEntry
  BY DiskAssumption, NewHandleOK DEF EntryAt
<1>4. PICK loading \in BOOLEAN :
        /\ Placed(x, First(w), Done(w), loading, TRUE, held)
        /\ loading \/ ~Due(x)
  BY <1>1, InItsSector
<1>5. Per(x) = SectorEntries /\ (NoChain(x) <=> Boot.fat_type # "FAT32")
  BY <1>2 DEF Per, NoChain
<1>6. n % SectorEntries \in Nat /\ n % SectorEntries < SectorEntries
  BY <1>2, BootOK
<1>7. IF Boot.fat_type # "FAT32"
      THEN /\ held = RootStart + n \div SectorEntries
           /\ n < NumSectors * SectorEntries
      ELSE /\ ChainCluster(Boot.root_cluster, SectorEntries, n) # 0
           /\ <<held, n % SectorEntries>>
                = ChainPlace(Boot.root_cluster, SectorEntries, n)
  <2> HIDE DEF x, n
  <2>1. PICK j \in Nat : j = 0
    OBVIOUS
  <2>2. n + j = n /\ (n % SectorEntries) + j = n % SectorEntries
    BY <1>2, <1>6, <2>1
  <2>3. (n % Per(x)) + j < Per(x) /\ Boot.root_cluster \in Nat
    BY <1>5, <1>6, <2>2, BootOK
  <2>4. /\ Placed(x, Boot.root_cluster, n, loading, TRUE, held)
        /\ x \in Handle /\ n \in Nat /\ (loading \/ ~Due(x))
    BY <1>2, <1>4
  <2>5. ItemIs(x, Boot.root_cluster, n + j, held, (n % Per(x)) + j)
    BY <2>1, <2>3, <2>4, PlacedReads, Zenon
  <2> QED
    BY <1>5, <2>2, <2>5 DEF ItemIs
<1>8. MayLookAt(n) /\ MayLookAt(n + 1)
  <2>1. NumSectors * SectorEntries \in Nat
    BY BootOK
  <2> QED
    BY <1>2, <1>7, <2>1 DEF MayLookAt
<1>9. entry = Slot(n) \/ (entry.kind = "end" /\ Slot(n).kind = "end")
  <2>1. CASE Boot.fat_type = "FAT32"
    BY <1>7, <2>1 DEF Slot, SlotPlace, InRoot
  <2>2. CASE Boot.fat_type # "FAT32"
    <3>1. entry = EntryAt(SlotPlace(n))
      BY <1>7, <2>2 DEF SlotPlace
    <3>2. CASE n < Boot.root_entry_count
      BY <2>2, <3>1, <3>2 DEF Slot, InRoot
    <3>3. CASE ~(n < Boot.root_entry_count)
      <4>1. Slot(n) = EndEntry /\ EndEntry.kind = "end"
        BY <2>2, <3>3 DEF Slot, InRoot, EndEntry
      <4>2. Slot(n).kind = "end"
        BY <4>1
      <4>3. n >= RootSize /\ NumSectors * SectorEntries \in Nat
        BY <1>2, <1>8, <4>2, SlotsEnd, BootOK
      <4>4. n \in RootSize .. NumSectors * SectorEntries
        BY <1>2, <1>7, <2>2, <4>3, RootSizeIs
      <4>5. entry.kind = "end"
        BY <2>2, <3>1, <4>4 DEF DiskAsExpected
      <4> QED
        BY <4>2, <4>5
    <3> QED
      BY <3>2, <3>3
  <2> QED
    BY <2>1, <2>2
<1>10. found[w] = Listed(n)
  BY <1>2 DEF OrderInv, FoundInv
<1> QED
  BY <1>1, <1>2, <1>3, <1>8, <1>9, <1>10 DEF handle, h

\* Going on is not leaving.
LEMMA GoesOnCalling ==
  ASSUME OrderInv, call.op \in {"next", "open", "read"}, NEW place, GoTo(place)
  PROVE  call' # NoCall
<1>1. call \in Calls
  BY DEF OrderInv, FileInv, TypeOK
<1>2. call'.op = call.op
  BY <1>1 DEF GoTo, Calls, NoCall, Nothing
<1> QED
  BY <1>2 DEF NoCall, Nothing

\* What has been found is what is listed up to the next slot, and all of it
\* when Next says so.
LEMMA ScanEntryFinds ==
  ASSUME DiskAsExpected, OrderInv, ScanEntry
  PROVE  /\ MayLookAt(handle.cursor + 1)
         /\ found'[h] = Listed(handle.cursor + 1)
         /\ \A i \in Handles \ {h} : found'[i] = found[i]
         /\ found' \in [Handles -> Seq(DirEntry)]
         /\ \/ call' # NoCall \/ returned'.status # "NO_MORE_FILES"
            \/ found'[h] = Listing
<1> DEFINE n == handle.cursor
           entry == EntryAt(<<held, n % SectorEntries>>)
           match == call.op = "open" /\ entry.name = call.name
<1>1. /\ call.op \in {"next", "open"} /\ InMemory /\ call.h \in Handles
      /\ found \in [Handles -> Seq(DirEntry)]
  BY AtWork DEF ScanEntry, OrderInv
<1>2. /\ n \in Nat /\ MayLookAt(n) /\ MayLookAt(n + 1)
      /\ entry \in DirEntry
      /\ \/ entry = Slot(n)
         \/ entry.kind = "end" /\ Slot(n).kind = "end"
      /\ found[h] = Listed(n)
  BY <1>1, AtTheSlot
<1>3. Slot(n).kind = entry.kind
  BY <1>2
<1>4. Listed(n + 1) = IF entry.kind \in {"file", "dir"}
                      THEN Append(found[h], entry) ELSE found[h]
  BY <1>2, <1>3, ListedSteps
<1>5. ASSUME found' = found, entry.kind \notin {"file", "dir"},
             call' # NoCall \/ entry.kind = "end"
      PROVE  /\ found'[h] = Listed(n + 1)
             /\ \A i \in Handles \ {h} : found'[i] = found[i]
             /\ found' \in [Handles -> Seq(DirEntry)]
             /\ call' # NoCall \/ found'[h] = Listing
  <2>1. entry.kind = "end" => found[h] = Listing
    BY <1>2, <1>3, SlotsEnd, ListedToTheEnd
  <2> QED
    BY <1>1, <1>4, <1>5, <2>1
<1>6. ASSUME found' = [found EXCEPT ![h] = Append(@, entry)],
             entry.kind \notin {"end", "volume", "dot"}
      PROVE  /\ found'[h] = Listed(n + 1)
             /\ \A i \in Handles \ {h} : found'[i] = found[i]
             /\ found' \in [Handles -> Seq(DirEntry)]
  <2>1. n < RootSize
    BY <1>2, <1>3, <1>6, SlotsEnd, RootSizeIs
  <2>2. entry.kind # "deleted"
    BY <1>2, <1>3, <2>1, RootSizeIs DEF DiskAsExpected
  <2>3. entry.kind \in {"file", "dir"}
    BY <1>2, <1>6, <2>2 DEF DirEntry
  <2>4. found[h] \in Seq(DirEntry)
    BY <1>1 DEF h
  <2>5. Append(found[h], entry) \in Seq(DirEntry)
    BY <1>2, <2>4
  <2> QED
    BY <1>1, <1>4, <1>6, <2>3, <2>5 DEF h
<1> HIDE DEF n, entry
<1>7. CASE entry.kind = "end"
  BY <1>2, <1>5, <1>7 DEF ScanEntry, history, entry, n
<1>8. CASE entry.kind # "end" /\ Skipped(entry)
  <2>1. GoTo("loop") /\ found' = found
    BY <1>8 DEF ScanEntry, history, entry, n
  <2>2. call' # NoCall
    BY <1>1, <2>1, GoesOnCalling
  <2> QED
    BY <1>2, <1>5, <1>8, <2>1, <2>2 DEF Skipped, n
<1>9. CASE entry.kind # "end" /\ ~Skipped(entry)
  <2>1. found' = [found EXCEPT ![h] = Append(@, entry)]
    <3>1. CASE match
      BY <1>9, <3>1 DEF ScanEntry, entry, n
    <3>2. CASE ~match
      BY <1>9, <3>2 DEF ScanEntry, entry, n
    <3> QED
      BY <3>1, <3>2
  <2>2. entry.kind \notin {"end", "volume", "dot"}
    BY <1>9 DEF Skipped
  <2>3. call' # NoCall \/ returned'.status # "NO_MORE_FILES"
    <3>1. CASE match
      BY <1>9, <3>1 DEF ScanEntry, Return, entry, n
    <3>2. CASE ~match
      <4>1. GoTo(Entrance) \/ Return("OK", 0)
        BY <1>9, <3>2 DEF ScanEntry, entry, n
      <4> QED
        BY <1>1, <4>1, GoesOnCalling DEF Return
    <3> QED
      BY <3>1, <3>2
  <2> QED
    BY <1>2, <1>6, <2>1, <2>2, <2>3 DEF n
<1> QED
  BY <1>7, <1>8, <1>9

\* The handle of the call in progress is in its sector, and goes on in it.
LEMMA GoesOn ==
  ASSUME OrderInv, call.op \in {"next", "open", "read"}, InMemory,
         call.op = "read" => ReadsMore,
         NEW w \in Handles, w = call.h, NEW y, NEW r \in Nat \ {0},
         (Done(w) % Per(handles[w])) + r <= Per(handles[w]),
         y.type = handles[w].type, y.cluster = handles[w].cluster,
         y.sector = handles[w].sector,
         y.cluster_position = handles[w].cluster_position,
         y.current_sector = handles[w].current_sector,
         y.cursor = IF handles[w].type = "file"
                    THEN (Done(w) + r) % SectorBytes ELSE Done(w) + r
  PROVE  /\ Placed(y, First(w), Done(w) + r, FALSE, TRUE, held)
         /\ Placed(y, First(w), Done(w) + r, FALSE, FALSE, held)
         /\ Placed(y, First(w), Done(w) + r, FALSE, ~Safe, held)
<1> DEFINE x == handles[w]
<1>1. PICK loading \in BOOLEAN :
        /\ Placed(x, First(w), Done(w), loading, TRUE, held)
        /\ loading \/ ~Due(x)
  BY InItsSector
<1>2. Done(w) \in Nat
  BY AtWork
<1> HIDE DEF x
<1>3. /\ y.type = x.type /\ y.cluster = x.cluster
      /\ y.sector = x.sector
      /\ y.cluster_position = x.cluster_position
      /\ y.current_sector = x.current_sector
      /\ y.cursor = IF x.type = "file"
                    THEN (Done(w) + r) % SectorBytes ELSE Done(w) + r
      /\ (Done(w) % Per(x)) + r <= Per(x)
  BY DEF x
<1>4. Placed(y, First(w), Done(w) + r, FALSE, TRUE, held)
  BY <1>1, <1>2, <1>3, PlacedAdvances, Zenon
<1>5. Placed(y, First(w), Done(w) + r, FALSE, FALSE, held)
  BY <1>1, <1>2, <1>3, PlacedAdvances, Zenon
<1>6. Placed(y, First(w), Done(w) + r, FALSE, ~Safe, held)
  <2>1. ~Safe = TRUE \/ ~Safe = FALSE
    OBVIOUS
  <2> QED
    BY <1>4, <1>5, <2>1
<1> QED
  BY <1>4, <1>5, <1>6

LEMMA ScanEntryOrder ==
  ASSUME DiskAsExpected, Sole, OrderInv, ScanEntry
  PROVE  KeepsOrder
<1>1. /\ call.op \in {"next", "open"} /\ InMemory
      /\ held' = held /\ mounted' = mounted
  BY DEF ScanEntry, memory
<1>2. PICK w \in Handles : w = call.h
  BY <1>1, AtWork
<1> DEFINE x == handles[w]
           n == x.cursor
           entry == EntryAt(<<held, n % SectorEntries>>)
           cursor == n + 1
           scanned == [x EXCEPT !.cursor = cursor, !.entry = entry]
<1>3. /\ x \in Handle /\ x.type = "dir" /\ mounted /\ n \in Nat
      /\ First(w) = Boot.root_cluster /\ Done(w) = n
  BY <1>1, <1>2, AtWork DEF First, Done, Handle
<1>4. entry \in DirEntry /\ cursor \in Nat
  BY <1>3, DiskAssumption, NewHandleOK DEF EntryAt
<1>5. \/ /\ handles' = [handles EXCEPT ![w] = scanned]
         /\ call' = NoCall \/ GoTo("loop") \/ GoTo(Entrance)
         /\ UNCHANGED <<file, data>>
      \/ /\ handles' = [handles EXCEPT ![w] = FileHandle(scanned)]
         /\ Opens(entry) /\ call' = NoCall
         /\ file' = [file EXCEPT ![w] = entry]
         /\ data' = [data EXCEPT ![w] = << >>]
  BY <1>2, ScanEntryMoves, Zenon DEF handle, h
<1> HIDE DEF entry, cursor
<1>6. /\ scanned \in Handle /\ scanned.type = "dir" /\ scanned.cursor = n + 1
      /\ scanned.entry = entry
      /\ scanned.cluster = x.cluster /\ scanned.sector = x.sector
      /\ scanned.cluster_position = x.cluster_position
      /\ scanned.current_sector = x.current_sector
  <2>1. scanned.cursor = cursor /\ scanned \in Handle /\ scanned.entry = entry
    BY <1>3, <1>4 DEF Handle
  <2>2. /\ scanned.type = "dir"
        /\ scanned.cluster = x.cluster /\ scanned.sector = x.sector
        /\ scanned.cluster_position = x.cluster_position
        /\ scanned.current_sector = x.current_sector
    BY <1>3 DEF Handle
  <2> QED
    BY <2>1, <2>2 DEF cursor
<1> HIDE DEF scanned
<1>7. /\ Placed(scanned, Boot.root_cluster, n + 1, FALSE, TRUE, held)
      /\ Placed(scanned, Boot.root_cluster, n + 1, FALSE, FALSE, held)
      /\ Placed(scanned, Boot.root_cluster, n + 1, FALSE, ~Safe, held)
  <2>1. (n % Per(x)) + 1 <= Per(x)
    BY <1>3, PerOK
  <2>2. scanned.type = x.type /\ x.type # "file"
    BY <1>3, <1>6
  <2>3. PICK r \in Nat \ {0} : r = 1
    OBVIOUS
  <2>4. /\ (Done(w) % Per(x)) + r <= Per(x) /\ Done(w) + r = n + 1
        /\ First(w) = Boot.root_cluster
    BY <1>3, <2>1, <2>3
  <2>5. /\ Placed(scanned, First(w), Done(w) + r, FALSE, TRUE, held)
        /\ Placed(scanned, First(w), Done(w) + r, FALSE, FALSE, held)
        /\ Placed(scanned, First(w), Done(w) + r, FALSE, ~Safe, held)
    BY <1>1, <1>2, <1>3, <1>6, <2>2, <2>3, <2>4, GoesOn
  <2> QED
    BY <2>4, <2>5
<1>8. /\ MayLookAt(n + 1) /\ found'[w] = Listed(n + 1)
      /\ \A i \in Handles \ {w} : found'[i] = found[i]
  BY <1>1, <1>2, ScanEntryFinds DEF handle, h
<1>9. call' = NoCall \/ (call'.op = call.op /\ call'.h = w)
  <2>1. call \in Calls
    BY DEF OrderInv, FileInv, TypeOK
  <2> QED
    BY <1>1, <1>2, <1>5, <2>1 DEF GoTo, Calls, NoCall, Nothing
<1>10. CASE /\ handles' = [handles EXCEPT ![w] = scanned]
            /\ call' = NoCall \/ GoTo("loop") \/ GoTo(Entrance)
            /\ UNCHANGED <<file, data>>
  <2>1. handles'[w] = scanned /\ \A i \in Handles \ {w} : handles'[i] = handles[i]
    BY <1>10 DEF OrderInv, FileInv, TypeOK
  <2>2. First(w)' = Boot.root_cluster /\ Done(w)' = n + 1
    BY <1>6, <2>1 DEF First, Done
  <2>3. HandleInv(w)'
    <3>1. CASE call' = NoCall
      BY <1>1, <1>3, <1>7, <2>1, <2>2, <3>1, LeadsOut
    <3>2. CASE call' # NoCall /\ call'.at = "loop"
      BY <1>1, <1>3, <1>7, <1>9, <2>1, <2>2, <3>2, LeadsToLoop
    <3>3. CASE Safe /\ call'.at = "sync"
      BY <1>1, <1>3, <1>7, <2>1, <2>2, <3>3, LeadsToSync
    <3>4. \/ call' = NoCall
          \/ call' # NoCall /\ call'.at = "loop"
          \/ Safe /\ call'.at = "sync"
      <4>1. call \in Calls
        BY DEF OrderInv, FileInv, TypeOK
      <4> QED
        BY <1>1, <1>10, <4>1 DEF GoTo, Entrance, Calls, NoCall, Nothing
    <3> QED
      BY <3>1, <3>2, <3>3, <3>4
  <2>4. FoundInv(w)'
    BY <1>3, <1>6, <1>8, <2>1 DEF FoundInv, MayLookAt
  <2>5. ReadInv(w)'
    BY <1>10 DEF OrderInv, ReadInv
  <2> QED
    BY <1>1, <1>2, <1>8, <1>9, <1>10, <2>1, <2>3, <2>4, <2>5, StepKeeps
       DEF KeepsOrder, NoCall, Nothing
<1>11. CASE /\ handles' = [handles EXCEPT ![w] = FileHandle(scanned)]
            /\ Opens(entry) /\ call' = NoCall
            /\ file' = [file EXCEPT ![w] = entry]
            /\ data' = [data EXCEPT ![w] = << >>]
  <2>1. /\ handles'[w] = FileHandle(scanned)
        /\ \A i \in Handles \ {w} : handles'[i] = handles[i]
        /\ \A i \in Handles \ {w} : file'[i] = file[i] /\ data'[i] = data[i]
    BY <1>11 DEF OrderInv, FileInv, TypeOK
  <2>2. /\ FileHandle(scanned).type = "file"
        /\ Placed(FileHandle(scanned), entry.first, 0, FALSE, ~Safe, held')
    BY <1>3, <1>6, <1>11, FileHandlePlaced DEF OrderInv
  <2>3. First(w)' = entry.first /\ Done(w)' = 0 /\ ReadInv(w)'
    BY <1>4, <1>11, <2>1, <2>2, FileStarts
  <2>4. HandleInv(w)'
    BY <1>1, <1>3, <1>11, <2>1, <2>2, <2>3, LeadsOut
  <2>5. FoundInv(w)'
    BY <1>3, <1>6, <1>8, <2>1, <2>2 DEF FoundInv, MayLookAt
  <2> QED
    BY <1>1, <1>2, <1>8, <1>9, <1>11, <2>1, <2>3, <2>4, <2>5, StepKeeps
       DEF KeepsOrder, NoCall, Nothing
<1> QED
  BY <1>5, <1>10, <1>11

-----------------------------------------------------------------------------
(* The bytes of a file.                                                    *)

LEMMA ReadCopyOrder ==
  ASSUME DiskAsExpected, Sole, OrderInv, ReadCopy
  PROVE  KeepsOrder
<1>1. /\ call.op = "read" /\ InMemory /\ ReadsMore
      /\ call.size \in Nat \ {0} /\ call.remaining \in Nat \ {0}
      /\ held' = held /\ mounted' = mounted /\ file' = file /\ found' = found
  BY CallShapes DEF ReadCopy, ReadsMore, memory, OrderInv, FileInv, TypeOK
<1>2. PICK w \in Handles : w = call.h
  BY <1>1, AtWork
<1> DEFINE x == handles[w]
           first == file[w].first
           done == Len(data[w])
           readable == Least(SectorBytes - x.cursor,
                             Least(call.size, call.remaining))
           bytes == [i \in 1 .. readable |-> <<held, x.cursor + i - 1>>]
           cursor == Wrapped(x.cursor + readable)
           y == [x EXCEPT !.cursor = cursor]
<1>3. /\ x \in Handle /\ x.type = "file" /\ mounted
      /\ First(w) = first /\ Done(w) = done
      /\ first \in Nat /\ done \in Nat
      /\ x.cursor \in 0 .. SectorBytes - 1 /\ x.cursor \in Nat
      /\ data[w] \in Seq(Nat \X Nat) /\ data \in [Handles -> Seq(Nat \X Nat)]
      /\ handles \in [Handles -> Handle] /\ SectorBytes \in Nat \ {0}
  BY <1>1, <1>2, AtWork, LenProperties, BootOK
     DEF First, Done, OrderInv, FileInv, TypeOK, Handle
<1>4. /\ readable \in Nat \ {0} /\ readable <= SectorBytes - x.cursor
      /\ readable <= call.remaining
  BY <1>1, <1>3 DEF Least
<1>5. /\ data' = [data EXCEPT ![w] = data[w] \o bytes]
      /\ handles' = [handles EXCEPT ![w] = y]
      /\ call'.at = "loop" /\ call'.op = "read" /\ call'.h = w
  <2>1. call \in Calls
    BY DEF OrderInv, FileInv, TypeOK
  <2>2. call' = [call EXCEPT !.at = "loop", !.size = call.size - readable,
                             !.copied = call.copied + readable,
                             !.remaining = call.remaining - readable]
    BY <1>2 DEF ReadCopy, h, handle
  <2>3. call'.at = "loop" /\ call'.op = "read" /\ call'.h = w
    <3> HIDE DEF readable
    <3> QED
      BY <1>1, <1>2, <2>1, <2>2 DEF Calls, NoCall, Nothing
  <2> QED
    BY <1>2, <2>3 DEF ReadCopy, h, handle
<1> HIDE DEF readable
<1>6. Len(bytes) = readable /\ bytes \in Seq(Nat \X Nat)
  <2>1. held \in Nat
    BY DEF OrderInv, FileInv, TypeOK
  <2>2. \A i \in 1 .. readable : <<held, x.cursor + i - 1>> \in Nat \X Nat
    BY <1>3, <1>4, <2>1
  <2>3. bytes \in [1 .. readable -> Nat \X Nat]
    BY <2>2
  <2> QED
    BY <1>4, <2>3
<1>7. \A i \in 1 .. readable : bytes[i] = <<held, x.cursor + i - 1>>
  OBVIOUS
<1>8. /\ Len(data'[w]) = done + readable
      /\ \A n \in 1 .. done : data'[w][n] = data[w][n]
      /\ \A i \in 1 .. readable : data'[w][done + i] = bytes[i]
      /\ \A i \in Handles \ {w} : data'[i] = data[i]
  <2> HIDE DEF bytes
  <2>1. data'[w] = data[w] \o bytes
    BY <1>3, <1>5
  <2>2. /\ Len(data[w] \o bytes) = done + readable
        /\ \A n \in 1 .. done : (data[w] \o bytes)[n] = data[w][n]
        /\ \A i \in 1 .. readable : (data[w] \o bytes)[done + i] = bytes[i]
    <3> DEFINE s == data[w]
    <3>1. s \in Seq(Nat \X Nat) /\ Len(s) = done
      BY <1>3
    <3> HIDE DEF s, done
    <3>2. /\ Len(s \o bytes) = Len(s) + Len(bytes)
          /\ \A k \in 1 .. Len(s) + Len(bytes) : (s \o bytes)[k] =
               IF k <= Len(s) THEN s[k] ELSE bytes[k - Len(s)]
      BY <1>6, <3>1, ConcatProperties
    <3>3. done \in Nat /\ readable \in Nat
      BY <1>3, <1>4
    <3>4. \A k \in 1 .. done + readable : (s \o bytes)[k] =
            IF k <= done THEN s[k] ELSE bytes[k - done]
      BY <1>6, <3>1, <3>2
    <3>5. \A n \in 1 .. done : (s \o bytes)[n] = s[n]
      <4> TAKE n \in 1 .. done
      <4>1. n \in 1 .. done + readable /\ n <= done
        BY <3>3
      <4> QED
        BY <3>4, <4>1
    <3>6. \A i \in 1 .. readable : (s \o bytes)[done + i] = bytes[i]
      <4> TAKE i \in 1 .. readable
      <4>1. /\ done + i \in 1 .. done + readable /\ ~(done + i <= done)
            /\ (done + i) - done = i
        BY <3>3
      <4> QED
        BY <3>4, <4>1
    <3> QED
      BY <1>6, <3>1, <3>2, <3>5, <3>6 DEF s
  <2> QED
    BY <1>3, <1>5, <2>1, <2>2
<1> HIDE DEF bytes
<1>9. PICK loading \in BOOLEAN :
        Placed(x, first, done, loading, TRUE, held) /\ (loading \/ ~Due(x))
  BY <1>1, <1>2, <1>3, InItsSector
<1>10. Per(x) = SectorBytes /\ ~NoChain(x) /\ x.cursor = done % SectorBytes
  BY <1>3, <1>9 DEF Per, NoChain, Placed
<1>11. cursor = (done + readable) % SectorBytes /\ cursor \in Nat
  <2> HIDE DEF x, done
  <2>1. (done % SectorBytes) + readable <= SectorBytes
    BY <1>3, <1>4, <1>10
  <2>2. /\ (done % SectorBytes) + readable = SectorBytes
             => (done + readable) % SectorBytes = 0
        /\ (done % SectorBytes) + readable # SectorBytes
             => (done + readable) % SectorBytes = (done % SectorBytes) + readable
    <3>1. done \in Nat /\ SectorBytes \in Nat \ {0} /\ readable \in Nat
      BY <1>3, <1>4
    <3> QED
      BY <2>1, <3>1, WrappedIs, Zenon
  <2> QED
    BY <1>3, <1>4, <1>10, <2>2 DEF Wrapped
<1> HIDE DEF cursor
<1>12. /\ y \in Handle /\ y.type = x.type /\ y.cluster = x.cluster
       /\ y.sector = x.sector /\ y.cluster_position = x.cluster_position
       /\ y.current_sector = x.current_sector /\ y.cursor = cursor
  BY <1>3, <1>11 DEF Handle
<1> HIDE DEF y
<1>13. Placed(y, first, done + readable, FALSE, TRUE, held)
  <2>1. (Done(w) % Per(x)) + readable <= Per(x)
    BY <1>3, <1>4, <1>10
  <2>2. y.cursor = (Done(w) + readable) % SectorBytes
    BY <1>3, <1>11, <1>12
  <2> QED
    BY <1>1, <1>2, <1>3, <1>4, <1>12, <2>1, <2>2, GoesOn
<1>14. /\ handles'[w] = y
       /\ \A i \in Handles \ {w} : handles'[i] = handles[i]
       /\ First(w)' = first /\ Done(w)' = done + readable
  BY <1>1, <1>3, <1>5, <1>8, <1>12 DEF First, Done
<1>15. HandleInv(w)'
  BY <1>1, <1>3, <1>5, <1>13, <1>14, LeadsToLoop
<1>16. FoundInv(w)'
  BY <1>1, <1>3, <1>12, <1>14 DEF OrderInv, FoundInv
<1>17. ReadInv(w)'
  <2>1. done + readable <= file[w].size
    <3> DEFINE size == x.entry.size
               all == file[w].size
               copied == call.copied
               remaining == call.remaining
    <3>1. /\ {done, size, all, copied, remaining} \subseteq Nat
          /\ copied + remaining = size /\ done + size = all + copied
      <4>1. size \in Nat /\ all \in Nat
        BY <1>3 DEF OrderInv, FileInv, TypeOK, Handle, DirEntry
      <4>2. copied \in Nat /\ remaining \in Nat
        BY <1>1, CallShapes DEF OrderInv, FileInv, TypeOK
      <4>3. copied + remaining = size
        BY <1>1, <1>2 DEF OrderInv, FileInv, CallInv
      <4>4. done + size = all + copied
        BY <1>1, <1>2, <1>3 DEF OrderInv, FileInv, RestInv, Pending
      <4> QED
        BY <1>3, <4>1, <4>2, <4>3, <4>4
    <3> HIDE DEF size, all, copied, remaining, done
    <3>2. readable <= remaining /\ readable \in Nat
      BY <1>4 DEF remaining
    <3>3. done + readable <= all
      BY <3>1, <3>2
    <3> QED
      BY <3>3 DEF all
  <2>2. ASSUME NEW n \in 1 .. done
        PROVE  /\ ChainCluster(first, SectorBytes, n - 1) # 0
               /\ data'[w][n] = ChainPlace(first, SectorBytes, n - 1)
    BY <1>8 DEF OrderInv, ReadInv
  <2>3. ASSUME NEW i \in 1 .. readable
        PROVE  /\ ChainCluster(first, SectorBytes, (done + i) - 1) # 0
               /\ data'[w][done + i]
                    = ChainPlace(first, SectorBytes, (done + i) - 1)
    <3>1. PICK j \in Nat : j = i - 1
      BY <1>4
    <3>2. (done % Per(x)) + j < Per(x)
      BY <1>3, <1>4, <1>10, <3>1
    <3>3. ItemIs(x, first, done + j, held, (done % Per(x)) + j)
      <4> HIDE DEF x, first, done
      <4> QED
        BY <1>3, <1>9, <3>2, PlacedReads, Zenon
    <3>4. (done + i) - 1 = done + j /\ x.cursor + i - 1 = (done % SectorBytes) + j
      BY <1>3, <1>10, <3>1
    <3> QED
      BY <1>7, <1>8, <1>10, <3>3, <3>4 DEF ItemIs
  <2>4. ASSUME NEW n \in 1 .. done + readable
        PROVE  /\ ChainCluster(first, SectorBytes, n - 1) # 0
               /\ data'[w][n] = ChainPlace(first, SectorBytes, n - 1)
    <3>1. CASE n <= done
      BY <1>3, <2>2, <3>1
    <3>2. CASE n > done
      <4>1. n - done \in 1 .. readable /\ done + (n - done) = n
        BY <1>3, <1>4, <3>2
      <4> QED
        BY <2>3, <4>1
    <3> QED
      BY <1>3, <3>1, <3>2
  <2> QED
    BY <1>1, <1>8, <2>1, <2>4 DEF ReadInv
<1> QED
  BY <1>1, <1>2, <1>5, <1>8, <1>14, <1>15, <1>16, <1>17, StepKeeps DEF KeepsOrder

-----------------------------------------------------------------------------
(* The theorems on order.                                                  *)

LEMMA OrderInvInit ==
  ASSUME DiskAsExpected, Init
  PROVE  OrderInv
<1>1. FileInv
  BY FileInvInit
<1>2. MemoryInv
  BY DEF Init, MemoryInv, NoCall, Nothing
<1>3. found \in [Handles -> Seq(DirEntry)]
  BY DEF Init
<1>4. ASSUME NEW i \in Handles
      PROVE  HandleInv(i) /\ FoundInv(i) /\ ReadInv(i)
  <2>1. handles[i].type = "unused"
    BY DEF Init, NewHandle
  <2>2. found[i] = << >> /\ data[i] = << >> /\ file[i].size = 0
    BY DEF Init, EndEntry
  <2>3. Listed(0) = << >> /\ MayLookAt(0)
    BY ListedSteps, BootOK DEF MayLookAt
  <2>4. FoundInv(i)
    BY <2>1, <2>2, <2>3 DEF FoundInv
  <2> QED
    BY <2>1, <2>2, <2>4 DEF HandleInv, ReadInv
<1> QED
  BY <1>1, <1>2, <1>3, <1>4 DEF OrderInv

\* The steps of Init and the reading of sectors keep what has been found.
LEMMA FoundType ==
  ASSUME DiskAsExpected, OrderInv, [Next]_vars
  PROVE  found' \in [Handles -> Seq(DirEntry)]
<1>1. found \in [Handles -> Seq(DirEntry)]
  BY DEF OrderInv
<1>2. CASE ScanEntry
  BY <1>2, ScanEntryFinds
<1>3. CASE \E i \in Handles : found' = [found EXCEPT ![i] = << >>]
  BY <1>1, <1>3
<1>4. CASE found' = found
  BY <1>1, <1>4
<1>5. CASE \E i \in Handles : NextRefused(i) \/ OpenRefused(i) \/ ReadRefused(i)
  BY <1>4, <1>5, RefusedKeeps
<1> QED
  BY <1>2, <1>3, <1>4, <1>5
     DEF Next, Program, Step, InitCall, OpenRootDir, NextCall, OpenHandle,
         OpenCall, ReadCall, FindBootSector, InitFails, SyncCache, SyncFails,
         FollowLink, LoadSector, NextSectorFails, ReadCopy, ReadFinish,
         vars, history

LEMMA OrderKept ==
  ASSUME DiskAsExpected, Sole, OrderInv, [Next]_vars
  PROVE  KeepsOrder
<1>1. CASE InitCall
  BY <1>1, UnmountedKeeps DEF InitCall, history
<1>2. ASSUME NEW i \in Handles, OpenRootDir(i)
      PROVE  KeepsOrder
  BY <1>2, OpenRootDirOrder
<1>3. ASSUME NEW i \in Handles,
             NextCall(i) \/ \E size \in Sizes : ReadCall(i, size)
      PROVE  KeepsOrder
  BY <1>3, CallOrder
<1>4. ASSUME NEW i \in Handles, OpenHandle(i)
      PROVE  KeepsOrder
  BY <1>4, OpenHandleOrder
<1>5. ASSUME NEW i \in Handles, NEW name \in Wanted, OpenCall(i, name)
      PROVE  KeepsOrder
  BY <1>5, OpenCallOrder
<1>6. CASE FindBootSector \/ InitFails
  <2>1. call.op = "init" /\ ~mounted
    BY <1>6, CallShapes
       DEF FindBootSector, InitFails, OrderInv, FileInv, TypeOK, MemoryInv
  <2> QED
    BY <1>6, <2>1, UnmountedKeeps DEF FindBootSector, InitFails, history
<1>7. CASE SyncCache
  BY <1>7, SyncCacheOrder
<1>8. CASE SyncFails
  BY <1>8, SyncFailsOrder
<1>9. CASE FollowLink
  BY <1>9, FollowLinkOrder
<1>10. CASE LoadSector
  BY <1>10, LoadSectorOrder
<1>11. CASE NextSectorFails
  BY <1>11, NextSectorFailsOrder
<1>12. CASE ScanEntry
  BY <1>12, ScanEntryOrder
<1>13. CASE ReadCopy
  BY <1>13, ReadCopyOrder
<1>14. CASE ReadFinish
  BY <1>14, ReadFinishOrder
<1>15. CASE UNCHANGED vars
  BY <1>15 DEF vars, memory, history, KeepsOrder, OrderInv, HandleInv, FoundInv,
               ReadInv, First, Done, CallOf
<1>16. CASE \E i \in Handles : NextRefused(i) \/ OpenRefused(i) \/ ReadRefused(i)
  BY <1>16, RefusedKeeps
     DEF KeepsOrder, OrderInv, HandleInv, FoundInv, ReadInv, First, Done, CallOf
<1> QED
  BY <1>1, <1>2, <1>3, <1>4, <1>5, <1>6, <1>7, <1>8, <1>9, <1>10, <1>11,
     <1>12, <1>13, <1>14, <1>15, <1>16 DEF Next, Program, Step

LEMMA OrderInvNext ==
  ASSUME DiskAsExpected, Sole, OrderInv, [Next]_vars
  PROVE  OrderInv'
<1>1. FileInv' /\ MemoryInv'
  BY FileInvNext, MemoryInvNext DEF OrderInv
<1> QED
  BY <1>1, FoundType, OrderKept DEF OrderInv, KeepsOrder

LEMMA OrderInvAlways ==
  ASSUME DiskAsExpected, Sole
  PROVE  Spec => []OrderInv
<1>1. Init => OrderInv
  BY OrderInvInit
<1>2. OrderInv /\ [Next]_vars => OrderInv'
  BY OrderInvNext
<1> QED
  BY <1>1, <1>2, PTL DEF Spec

\* Directories are listed and files read in order: nothing is skipped,
\* repeated or taken from elsewhere, whatever accesses fail and whatever the
\* other handles do, on every disk as expected and with every size of sectors
\* and clusters; in safe mode, or with a single handle.
THEOREM ReadIsInOrder ==
  ASSUME DiskAsExpected, Safe \/ \A i, j \in Handles : i = j
  PROVE  Spec => []ReadInOrder
<1>1. OrderInv => ReadInOrder
  <2> SUFFICES ASSUME OrderInv, NEW i \in Handles
               PROVE  IsPrefix(found[i], Listing) /\ ReadInv(i)
    BY DEF ReadInOrder, ListsInOrder, ReadsInOrder, ReadInv
  <2> QED
    BY ListedIsPrefix DEF OrderInv, FoundInv
<1>2. Spec => []OrderInv
  BY OrderInvAlways DEF Sole
<1> QED
  BY <1>1, <1>2, PTL

\* Next reports the end of a directory only when all that is listed has been
\* found, on the same disks: a failed access is not taken for the end.
THEOREM TheEndIsTheEnd ==
  ASSUME DiskAsExpected, Safe \/ \A i, j \in Handles : i = j
  PROVE  Spec => EndIsTheEnd
<1>1. OrderInv /\ [Next]_vars => [call # NoCall /\ call' = NoCall => EndStep]_vars
  <2> SUFFICES ASSUME OrderInv, Next, call # NoCall, call' = NoCall,
                      call.op = "next", returned'.status = "NO_MORE_FILES"
               PROVE  found'[call.h] = Listing
    BY DEF EndStep
  <2>1. CASE Program
    BY <2>1, RefusedKeeps
       DEF Program, InitCall, OpenRootDir, NextCall, OpenHandle, OpenCall,
           ReadCall, Begin
  <2>2. ~(FindBootSector \/ InitFails)
    BY CallShapes DEF FindBootSector, InitFails, OrderInv, FileInv, TypeOK
  <2>3. ~GiveUp
    BY DEF GiveUp, Return
  <2>4. \A place : ~GoTo(place)
    BY GoesOnCalling
  <2>5. ~(SyncCache \/ SyncFails \/ FollowLink \/ LoadSector \/ NextSectorFails)
    BY <2>3, <2>4
       DEF SyncCache, SyncFails, FollowLink, LoadSector, NextSectorFails
  <2>6. ~(ReadCopy \/ ReadFinish)
    BY DEF ReadCopy, ReadsMore, ReadFinish
  <2>7. CASE ScanEntry
    BY <2>7, ScanEntryFinds DEF h
  <2> QED
    BY <2>1, <2>2, <2>5, <2>6, <2>7 DEF Next, Step
<1>2. Spec => []OrderInv
  BY OrderInvAlways DEF Sole
<1> QED
  BY <1>1, <1>2, PTL DEF Spec, EndIsTheEnd
==============================================================================
