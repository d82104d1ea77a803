------------------------------ MODULE PageCache ------------------------------
(***************************************************************************)
(* The page cache (kernel/mem/pagecache.c), the frame allocator it shares  *)
(* memory with (kernel/mem/mem.c) and the block numbers the file system    *)
(* gives it (read_block and write_block of kernel/fs/fs.c).                *)
(*                                                                         *)
(* A call never sleeps and is never interrupted by another one, so each    *)
(* is one step, after the one in which the file system makes it.  The disk *)
(* is the block store that module Nvme implements, whose reads may fail.   *)
(***************************************************************************)
EXTENDS Naturals, FiniteSets, Sequences, Functions

CONSTANTS Frames,                   \* the usable frames of the memory map
          Blocks, Values,           \* file system blocks, contents of a sector
          PARTITION_OFFSET,         \* the first sector of the partition
          SectorsPerBlock,          \* CROWFS_BLOCK_SIZE / nvme_block_size()
          PAGECACHE_ENTRY_COUNT,
          Other,                    \* the bytes of a frame that holds no block
          None

ASSUME PageCacheAssumption ==
  /\ IsFiniteSet(Frames) /\ Blocks \subseteq Nat
  /\ PARTITION_OFFSET \in Nat
  /\ SectorsPerBlock \in Nat \ {0} /\ PAGECACHE_ENTRY_COUNT \in Nat \ {0}

VARIABLES disk,        \* the sectors
          freepages,   \* the linked list of free frames
          mem,         \* what each frame holds
          entries,     \* the entries of all lists, the static one first
          lists,       \* the frames of the lists after the static one
          held,        \* the frames the rest of the kernel has allocated
          request,     \* the arguments of read_block or write_block, or None
          result,      \* what the last read_block returned
          faulty,      \* whether reads of the disk may fail
          panic

memory == <<freepages, mem, entries, lists, held>>
vars == <<disk, memory, request, result, faulty, panic>>

Pages == [0 .. SectorsPerBlock - 1 -> Values]
Requests ==
  [op : {"read"}, block : Blocks] \union [op : {"write"}, block : Blocks, page : Pages]

(* The sector at which a file system block starts.                          *)
Lba(b) == PARTITION_OFFSET + b * SectorsPerBlock

Sectors == UNION {Lba(b) .. Lba(b) + SectorsPerBlock - 1 : b \in Blocks}

OnDisk(lba) == [k \in 0 .. SectorsPerBlock - 1 |-> disk[lba + k]]

(* pagecache_nvme_read: a page of sectors, or what was in the buffer that   *)
(* nvme_read allocated, since nobody looks at the status of the command.    *)
pagecache_nvme_read(lba) == {OnDisk(lba)} \union (IF faulty THEN {Other} ELSE {})

Invalid == [valid |-> FALSE, disk_block |-> 0, cache |-> Other, dirty |-> FALSE]
EmptyList == [i \in 1 .. PAGECACHE_ENTRY_COUNT |-> Invalid]

(* The usable frames, in the order in which init_mem meets them.            *)
MemoryMap == CHOOSE s \in [1 .. Cardinality(Frames) -> Frames] : IsInjective(s)

Init ==
  /\ disk \in [Sectors -> Values]
  /\ freepages = MemoryMap /\ mem = [f \in Frames |-> Other]
  /\ entries = EmptyList /\ lists = <<>>
  /\ held = {} /\ panic = FALSE
  /\ request = None /\ result \in Pages /\ faulty \in BOOLEAN

-----------------------------------------------------------------------------
(* get_pagecache_entry_of_index                                             *)

HitsAnything(lba) == {i \in DOMAIN entries : entries[i].valid}

Hits(lba) == {i \in DOMAIN entries : entries[i].valid /\ entries[i].disk_block = lba}
FreeEntries == {i \in DOMAIN entries : ~entries[i].valid}

(* free_entry is the last one of the walk over the lists, or the first of a *)
(* new list.                                                                *)
FreeEntry ==
  IF FreeEntries = {} THEN Len(entries) + 1
  ELSE CHOOSE i \in FreeEntries : \A j \in FreeEntries : j <= i

(* Frames a miss takes for good.                                            *)
Needed == IF FreeEntries = {} THEN 2 ELSE 1

(* A miss: a new list of entries if none is free, then a page for the data. *)
AddEntry(lba, page, dirty) ==
  LET cache == freepages[Needed]
  IN /\ Needed <= Len(freepages)
     /\ freepages' = SubSeq(freepages, Needed + 1, Len(freepages))
     /\ mem' = [mem EXCEPT ![cache] = page]
     /\ lists' = IF FreeEntries = {} THEN Append(lists, Head(freepages)) ELSE lists
     /\ entries' = [(IF FreeEntries = {} THEN entries \o EmptyList ELSE entries) EXCEPT
                     ![FreeEntry] = [valid |-> TRUE, disk_block |-> lba, cache |-> cache, dirty |-> dirty]]

(* pagecache_read: from the cache, or from the disk into a new entry.       *)
(* nvme_read takes one more frame while it runs.                            *)
pagecache_read(lba) ==
  \/ \E i \in Hits(lba) :
       /\ result' = mem[entries[i].cache]
       /\ UNCHANGED <<freepages, mem, entries, lists>>
  \/ /\ Hits(lba) = {} /\ Needed + 1 <= Len(freepages)
     /\ \E page \in pagecache_nvme_read(lba) :
          AddEntry(lba, page, FALSE) /\ result' = page

WriteLeavingClean(lba, page) ==
  /\ \/ \E i \in Hits(lba) :
          /\ mem' = [mem EXCEPT ![entries[i].cache] = page]
          /\ UNCHANGED <<entries, freepages, lists>>
     \/ Hits(lba) = {} /\ AddEntry(lba, page, TRUE)
  /\ UNCHANGED result

(* pagecache_write: into the cache only.                                    *)
pagecache_write(lba, page) ==
  /\ \/ \E i \in Hits(lba) :
          /\ mem' = [mem EXCEPT ![entries[i].cache] = page]
          /\ entries' = [entries EXCEPT ![i].dirty = TRUE]
          /\ UNCHANGED <<freepages, lists>>
     \/ Hits(lba) = {} /\ AddEntry(lba, page, TRUE)
  /\ UNCHANGED result

-----------------------------------------------------------------------------
(* CrowFS reads or writes a block.                                          *)
Call ==
  /\ request = None /\ request' \in Requests
  /\ UNCHANGED <<disk, memory, result, faulty, panic>>

read_block ==
  /\ request # None /\ request.op = "read" /\ request' = None
  /\ pagecache_read(Lba(request.block))
  /\ UNCHANGED <<disk, held, faulty, panic>>

write_block ==
  /\ request # None /\ request.op = "write" /\ request' = None
  /\ pagecache_write(Lba(request.block), request.page)
  /\ UNCHANGED <<disk, held, faulty, panic>>

AllocateWithoutUnlinking ==
  /\ request = None /\ freepages # <<>>
  /\ held' = held \union {Head(freepages)}
  /\ mem' = [mem EXCEPT ![Head(freepages)] = Other]
  /\ UNCHANGED <<disk, freepages, entries, lists, request, result, faulty, panic>>

(* kalloc for the rest of the kernel, which writes into the frame.          *)
kalloc ==
  /\ request = None /\ freepages # <<>>
  /\ freepages' = Tail(freepages) /\ held' = held \union {Head(freepages)}
  /\ mem' = [mem EXCEPT ![Head(freepages)] = Other]
  /\ UNCHANGED <<disk, entries, lists, request, result, faulty, panic>>

kfree(f) ==
  /\ request = None /\ f \in held
  /\ freepages' = <<f>> \o freepages /\ held' = held \ {f}
  /\ mem' = [mem EXCEPT ![f] = Other]
  /\ UNCHANGED <<disk, entries, lists, request, result, faulty, panic>>

(* Without a free frame, kalloc and the page cache call pagecache_do_steal, *)
(* which panics: nothing sets next_eviction_victim.entry_frames.  A read    *)
(* that misses needs one frame more, in the kalloc of nvme_read.            *)
pagecache_do_steal ==
  /\ IF request = None THEN freepages = <<>>
     ELSE /\ Hits(Lba(request.block)) = {}
          /\ Len(freepages) < IF request.op = "read" THEN Needed + 1 ELSE Needed
  /\ panic' = TRUE
  /\ UNCHANGED <<disk, memory, request, result, faulty>>

Next ==
  /\ ~panic
  /\ \/ Call \/ read_block \/ write_block
     \/ kalloc
     \/ \E f \in held : kfree(f)
     \/ pagecache_do_steal

Spec == Init /\ [][Next]_vars

-----------------------------------------------------------------------------
Caches == {i \in DOMAIN entries : entries[i].valid}

(* No frame has two owners among the free list, the lists of entries, the   *)
(* cached pages and the rest of the kernel, and none is lost.               *)
CachedFrames == {entries[i].cache : i \in Caches}
FrameHasOneOwner ==
  /\ Frames = Range(freepages) \union Range(lists) \union held \union CachedFrames
  /\ IsInjective(freepages) /\ IsInjective(lists)
  /\ \A i, j \in Caches : entries[i].cache = entries[j].cache => i = j
  /\ Range(freepages) \intersect (Range(lists) \union held \union CachedFrames) = {}
  /\ Range(lists) \intersect (held \union CachedFrames) = {}
  /\ held \intersect CachedFrames = {}

(* A block is cached once: a second copy would hide the writes to the first. *)
OneEntryPerBlock ==
  \A i, j \in Caches : entries[i].disk_block = entries[j].disk_block => i = j

(* An entry that is not dirty has the contents of its own block on the disk *)
(* or, after a read that failed, the junk of that read: never what an older *)
(* use of the frame, or another block, left there.                          *)
CleanIsOnDisk ==
  \A i \in Caches :
    ~entries[i].dirty => \/ mem[entries[i].cache] = OnDisk(entries[i].disk_block)
                         \/ faulty /\ mem[entries[i].cache] = Other

(* The file system sees a block store: a call reads or writes the block it  *)
(* names and no other, whatever is cached, allocated and freed in between,  *)
(* and a read that does not fail returns what was last written.             *)
DirtyHits(b) == {i \in Hits(Lba(b)) : entries[i].dirty}
Contents ==
  [b \in Blocks |->
     IF DirtyHits(b) = {} THEN OnDisk(Lba(b))
     ELSE mem[entries[CHOOSE i \in DirtyHits(b) : TRUE].cache]]
Storage == INSTANCE BlockStore WITH store <- Contents, Junk <- Other
StorageSpec == Storage!Spec

(* pagecache.c says of running out of memory that "In that case, we simply  *)
(* do not cache and pass through the data in the disk".                     *)
OutOfMemoryIsSurvived == ~panic
=============================================================================
