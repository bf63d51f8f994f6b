--------------------------- MODULE MCFatFileReader ---------------------------
(***************************************************************************)
(* Two small disks: sectors of two bytes or two directory entries, FATs of *)
(* four entries a sector, clusters of two sectors.  Both have a file whose *)
(* clusters are not in order, one that fits a cluster exactly, an empty    *)
(* one, and a volume label.                                                *)
(***************************************************************************)
EXTENDS FatFileReader, TLC

FileEntry(name, first, size) ==
  [name |-> name, kind |-> "file", first |-> first, size |-> size]
VolumeEntry == [name |-> "volume", kind |-> "volume", first |-> 0, size |-> 0]
DeletedEntry == [name |-> "gone", kind |-> "deleted", first |-> 5, size |-> 2]

\* Clusters 5 -> 3 are file a, 6 is file b, 2 -> 4 the root of the FAT32.
Links == (2 :> 4) @@ (4 :> 99) @@ (5 :> 3) @@ (3 :> 99) @@ (6 :> 99)
FileA == FileEntry("a", 5, 7)
FileB == FileEntry("b", 6, 4)
Empty == FileEntry("e", 0, 0)

\* FAT32 in a partition at sector 2, two FATs of two sectors: FAT at 3, data
\* at 7.
Boot32 == [fat_type |-> "FAT32", reserved |-> 1, num_fats |-> 2,
           fat_size |-> 2, root_entry_count |-> 0, sec_per_cluster |-> 2,
           root_cluster |-> 2]
Entries32 == (<<7, 0>> :> VolumeEntry) @@ (<<7, 1>> :> FileA)
          @@ (<<8, 0>> :> Empty) @@ (<<8, 1>> :> VolumeEntry)
          @@ (<<11, 0>> :> FileB)

\* FAT16 at sector 0, one FAT: FAT at 1, root directory at 3, data at 5.
Boot16 == [fat_type |-> "FAT16", reserved |-> 1, num_fats |-> 1,
           fat_size |-> 2, root_entry_count |-> 4, sec_per_cluster |-> 2,
           root_cluster |-> 0]
Entries16 == (<<3, 0>> :> FileA) @@ (<<3, 1>> :> VolumeEntry)
          @@ (<<4, 0>> :> FileB)
\* With a deleted file, and with a root directory that is full.
EntriesDeleted == (<<3, 0>> :> FileA) @@ (<<3, 1>> :> DeletedEntry)
               @@ (<<4, 0>> :> FileB)
EntriesFull == (<<3, 0>> :> FileA) @@ (<<3, 1>> :> VolumeEntry)
            @@ (<<4, 0>> :> FileB) @@ (<<4, 1>> :> Empty)
            @@ (<<5, 0>> :> [name |-> "bytes", kind |-> "file",
                             first |-> 0, size |-> 0])

\* The disks on which directories are read in order are those.
ASSUME DiskIsAsExpected ==
  Entries \in {Entries32, Entries16} <=> DiskAsExpected
=============================================================================
