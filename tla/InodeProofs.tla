----------------------------- MODULE InodeProofs ----------------------------
(***************************************************************************)
(* The inodes of open files, for any number of processes, names,           *)
(* descriptors and inodes, and whatever programs unlink: an inode outlives *)
(* its users, and a file has one inode.                                    *)
(***************************************************************************)
EXTENDS Files, FiniteSetTheorems, TLAPS

Inode == [type : {"INODE_EMPTY", "INODE_FILE", "INODE_DIRECTORY"},
          dnode : Dnodes \union {"root", None}, size : Nat, reference_count : Nat]
File == [type : {"FD_EMPTY", "FD_DEVICE", "FD_INODE"}, inode : Inodes \union {None},
         device : Devices \union {"serial", None}, offset : Nat,
         readble : BOOLEAN, writable : BOOLEAN]

Types ==
  /\ entry \in [Names -> Dnodes \union {None}]
  /\ kind \in [Dnodes -> {"free", "file", "dir"}] /\ size \in [Dnodes -> Nat]
  /\ inodes \in [Inodes -> Inode]
  /\ open_files \in [Procs -> [Fds -> File]]
  /\ working_directory \in [Procs -> Inodes \union {None}]
  /\ alive \subseteq Procs

(* The descriptors and the working directories that name an inode.          *)
InUse(p, fd) == open_files[p][fd].type = "FD_INODE"
Uses(k) == {u \in alive \X Fds : u[2] \in InodeFds(u[1], k)}
Dirs(k) == {p \in alive : working_directory[p] = k}

(* A descriptor names an inode, a process has a working directory, and a    *)
(* slot that no process uses names no inode.                                *)
NamesInodes ==
  /\ \A p \in Procs, fd \in Fds : InUse(p, fd) => p \in alive /\ open_files[p][fd].inode \in Inodes
  /\ \A p \in alive : working_directory[p] \in Inodes

TableInv == Types /\ NamesInodes /\ InodesOutliveTheirUsers /\ OneInodePerDnode

-----------------------------------------------------------------------------
(* Counting users.                                                          *)

(* The users of an inode can be counted.                                    *)
LEMMA Counting ==
  ASSUME Types, NEW k
  PROVE  /\ IsFiniteSet(Uses(k)) /\ IsFiniteSet(Dirs(k))
         /\ Cardinality(Uses(k)) \in Nat /\ Cardinality(Dirs(k)) \in Nat
         /\ Users(k) = Cardinality(Uses(k)) + Cardinality(Dirs(k))
         /\ Users(k) = 0 <=> Uses(k) = {} /\ Dirs(k) = {}
<1>1. IsFiniteSet(Fds)
  <2>1. MAX_OPEN_FILES - 1 \in Int
    BY FilesAssumption
  <2> QED
    BY <2>1, FS_Interval DEF Fds
<1>2. IsFiniteSet(alive)
  BY FilesAssumption, FS_Subset, Zenon DEF Types
<1>3. IsFiniteSet(alive \X Fds)
  BY <1>1, <1>2, FS_Product, Zenon
<1>4. Uses(k) \in SUBSET (alive \X Fds) /\ Dirs(k) \in SUBSET alive
  BY Zenon DEF Uses, Dirs
<1>5. IsFiniteSet(Uses(k)) /\ IsFiniteSet(Dirs(k))
  BY <1>2, <1>3, <1>4, FS_Subset, Zenon
<1>6. Cardinality(Uses(k)) \in Nat /\ Cardinality(Dirs(k)) \in Nat
  BY <1>5, FS_CardinalityType, Zenon
<1>7. Users(k) = Cardinality(Uses(k)) + Cardinality(Dirs(k))
  BY Zenon DEF Users, Uses, Dirs
<1>8. /\ Cardinality(Uses(k)) = 0 <=> Uses(k) = {}
      /\ Cardinality(Dirs(k)) = 0 <=> Dirs(k) = {}
  BY <1>5, FS_EmptySet, Zenon
<1> QED
  BY <1>5, <1>6, <1>7, <1>8

(* A user of an inode is a descriptor of a live process that names it.      *)
LEMMA UsesMembers ==
  ASSUME Types, NEW p \in Procs, NEW fd \in Fds, NEW k \in Inodes
  PROVE  <<p, fd>> \in Uses(k) <=> p \in alive /\ InUse(p, fd) /\ open_files[p][fd].inode = k
BY Zenon DEF Uses, InodeFds, InUse

(* What is named has been counted, so it is not empty.                      *)
LEMMA Named ==
  ASSUME TableInv
  PROVE  /\ \A p \in Procs, fd \in Fds : InUse(p, fd) =>
              /\ open_files[p][fd].inode \in Inodes
              /\ inodes[open_files[p][fd].inode].reference_count \in Nat \ {0}
              /\ inodes[open_files[p][fd].inode].type # "INODE_EMPTY"
         /\ \A p \in alive :
              /\ working_directory[p] \in Inodes
              /\ inodes[working_directory[p]].reference_count \in Nat \ {0}
              /\ inodes[working_directory[p]].type # "INODE_EMPTY"
         /\ \A k \in Free : Uses(k) = {} /\ Dirs(k) = {} /\ Users(k) = 0
<1>0. Types
  BY Zenon DEF TableInv
<1>1. ASSUME NEW k \in Inodes
      PROVE  /\ inodes[k].reference_count \in Nat /\ inodes[k].reference_count >= Users(k)
             /\ inodes[k].type = "INODE_EMPTY" <=> inodes[k].reference_count = 0
             /\ Users(k) \in Nat
             /\ Users(k) = 0 <=> Uses(k) = {} /\ Dirs(k) = {}
  <2>1. Users(k) \in Nat /\ (Users(k) = 0 <=> Uses(k) = {} /\ Dirs(k) = {})
    BY <1>0, Counting
  <2> QED
    BY <2>1, Zenon DEF TableInv, Types, Inode, InodesOutliveTheirUsers
<1>2. ASSUME NEW p \in Procs, NEW fd \in Fds, InUse(p, fd)
      PROVE  /\ open_files[p][fd].inode \in Inodes
             /\ inodes[open_files[p][fd].inode].reference_count \in Nat \ {0}
             /\ inodes[open_files[p][fd].inode].type # "INODE_EMPTY"
  <2> DEFINE k == open_files[p][fd].inode
  <2>1. k \in Inodes /\ p \in alive
    BY <1>2, Zenon DEF TableInv, NamesInodes
  <2>2. <<p, fd>> \in Uses(k)
    BY <1>0, <1>2, <2>1, UsesMembers, Zenon
  <2> QED
    BY <1>1, <2>1, <2>2
<1>3. ASSUME NEW p \in alive
      PROVE  /\ working_directory[p] \in Inodes
             /\ inodes[working_directory[p]].reference_count \in Nat \ {0}
             /\ inodes[working_directory[p]].type # "INODE_EMPTY"
  <2>1. working_directory[p] \in Inodes /\ p \in Dirs(working_directory[p])
    BY Zenon DEF TableInv, NamesInodes, Dirs
  <2> QED
    BY <1>1, <2>1
<1>4. ASSUME NEW k \in Free PROVE Uses(k) = {} /\ Dirs(k) = {} /\ Users(k) = 0
  <2>1. k \in Inodes /\ inodes[k].type = "INODE_EMPTY"
    BY Zenon DEF Free
  <2> QED
    BY <1>1, <2>1
<1> QED
  BY <1>2, <1>3, <1>4, Zenon

-----------------------------------------------------------------------------
(* The table of inodes.                                                     *)

(* An inode that keeps what it says of its dnode.                           *)
Stays(j) ==
  /\ inodes'[j].type = inodes[j].type /\ inodes'[j].dnode = inodes[j].dnode
  /\ inodes'[j].size = inodes[j].size

(* A step that changes no count and lets nobody name another inode.         *)
LEMMA TableKept ==
  ASSUME TableInv, Types', alive' = alive, working_directory' = working_directory,
         \A p \in Procs, fd \in Fds :
           /\ open_files'[p][fd].type = "FD_INODE" <=> open_files[p][fd].type = "FD_INODE"
           /\ InUse(p, fd) => open_files'[p][fd].inode = open_files[p][fd].inode,
         \A k \in Inodes :
           /\ inodes'[k].type = inodes[k].type /\ inodes'[k].dnode = inodes[k].dnode
           /\ inodes'[k].reference_count = inodes[k].reference_count
  PROVE  TableInv'
<1>1. ASSUME NEW k PROVE Users(k)' = Users(k)
  <2>1. alive \subseteq Procs
    BY Zenon DEF TableInv, Types
  <2>2. ASSUME NEW p \in alive, NEW fd \in Fds
        PROVE  (fd \in InodeFds(p, k))' <=> fd \in InodeFds(p, k)
    BY <2>1, Zenon DEF InodeFds, InUse
  <2>3. \A u \in alive \X Fds : (u[2] \in InodeFds(u[1], k))' <=> u[2] \in InodeFds(u[1], k)
    BY <2>2, Zenon
  <2>4. Uses(k)' = Uses(k)
    BY <2>3, Zenon DEF Uses
  <2>5. Dirs(k)' = Dirs(k)
    BY Zenon DEF Dirs
  <2> QED
    BY <2>4, <2>5, Zenon DEF Users, Uses, Dirs
<1>2. NamesInodes'
  BY Zenon DEF TableInv, NamesInodes, InUse
<1>3. InodesOutliveTheirUsers'
  BY <1>1, ZenonT(30) DEF TableInv, InodesOutliveTheirUsers
<1>4. OneInodePerDnode'
  BY DEF TableInv, OneInodePerDnode
<1> QED
  BY <1>2, <1>3, <1>4, Zenon DEF TableInv

(* CrowFS keeps the types of what is on the disk.                           *)
LEMMA DiskTypes ==
  ASSUME Types, NEW path \in Paths, NEW create, NEW dir, NEW d \in Dnodes \union {"root"},
         crowfs_open(path, create, dir, d)
  PROVE  /\ entry' \in [Names -> Dnodes \union {None}]
         /\ kind' \in [Dnodes -> {"free", "file", "dir"}] /\ size' \in [Dnodes -> Nat]
<1>1. CASE UNCHANGED disk
  BY <1>1, Zenon DEF Types, disk
<1>2. CASE Lookup(path) = None /\ d \in Dnodes
           /\ entry' = [entry EXCEPT ![path] = d]
           /\ kind' = [kind EXCEPT ![d] = IF dir THEN "dir" ELSE "file"]
           /\ size' = [size EXCEPT ![d] = 0]
  <2>1. path \in Names
    BY <1>2, FilesAssumption, Zenon DEF Lookup, Paths
  <2> QED
    BY <1>2, <2>1, Zenon DEF Types
<1> QED
  BY <1>1, <1>2, Zenon DEF crowfs_open

(* The size that crowfs_stat returns.                                       *)
LEMMA StatSizeType ==
  ASSUME entry' \in [Names -> Dnodes \union {None}], size' \in [Dnodes -> Nat],
         NEW d \in Dnodes \union {"root"}
  PROVE  StatSize(d)' \in Nat
<1>1. {n \in Names : entry'[n] # None} \in SUBSET Names
  BY Zenon
<1>2. Cardinality({n \in Names : entry'[n] # None}) \in Nat
  BY <1>1, FilesAssumption, FS_Subset, FS_CardinalityType, Zenon
<1>3. Entries(d)' \in Nat
  BY <1>2, Zenon DEF Entries
<1>4. d = "root" => Kind(d)' = "dir"
  BY Zenon DEF Kind
<1> QED
  BY <1>3, <1>4, Zenon DEF StatSize

(* fs_open counts one more user of k, which is the inode of d from now on.  *)
LEMMA OpenedFacts ==
  ASSUME TableInv, NEW d \in Dnodes \union {"root"}, NEW k \in Inodes, fs_open(d, k),
         StatSize(d)' \in Nat
  PROVE  /\ Opened(d, k) \in [Inodes -> Inode]
         /\ \A j \in Inodes \ {k} : Opened(d, k)[j] = inodes[j]
         /\ Opened(d, k)[k].type # "INODE_EMPTY" /\ Opened(d, k)[k].dnode = d
         /\ Opened(d, k)[k].reference_count = inodes[k].reference_count + 1
         /\ \A j \in Inodes \ {k} : inodes[j].type # "INODE_EMPTY" => inodes[j].dnode # d
<1>1. inodes \in [Inodes -> Inode]
  BY Zenon DEF TableInv, Types
<1>2. CASE k \in Free
  <2>1. inodes[k].reference_count = 0 /\ inodes[k].type = "INODE_EMPTY"
    BY <1>2, Zenon DEF Free, TableInv, InodesOutliveTheirUsers
  <2>2. Holding(d) = {}
    BY <2>1, Zenon DEF fs_open, Holding
  <2> QED
    BY <1>1, <1>2, <2>1, <2>2 DEF Opened, Inode, Holding
<1>3. CASE k \notin Free
  <2>1. k \in Holding(d)
    BY <1>3, Zenon DEF fs_open, LastFree
  <2>2. inodes[k].type # "INODE_EMPTY" /\ inodes[k].dnode = d
    BY <2>1, Zenon DEF Holding
  <2>3. \A j \in Inodes \ {k} : inodes[j].type # "INODE_EMPTY" => inodes[j].dnode # d
    BY <2>2, Zenon DEF TableInv, OneInodePerDnode
  <2> QED
    BY <1>1, <1>3, <2>2, <2>3 DEF Opened, Inode
<1> QED
  BY <1>2, <1>3, Zenon

(* n calls of fs_close count n users less, and empty k with the last.       *)
LEMMA ClosedFacts ==
  ASSUME NEW table \in [Inodes -> Inode], NEW k \in Inodes, NEW n \in Nat,
         table[k].reference_count >= n,
         table[k].type = "INODE_EMPTY" <=> table[k].reference_count = 0
  PROVE  /\ fs_close(table, k, n) \in [Inodes -> Inode]
         /\ \A j \in Inodes \ {k} : fs_close(table, k, n)[j] = table[j]
         /\ fs_close(table, k, n)[k].reference_count = table[k].reference_count - n
         /\ fs_close(table, k, n)[k].type = "INODE_EMPTY"
              <=> fs_close(table, k, n)[k].reference_count = 0
         /\ fs_close(table, k, n)[k].type # "INODE_EMPTY" =>
              /\ fs_close(table, k, n)[k].type = table[k].type
              /\ fs_close(table, k, n)[k].dnode = table[k].dnode
              /\ fs_close(table, k, n)[k].size = table[k].size
<1> DEFINE t == fs_close(table, k, n)
<1>1. table[k] \in Inode
  BY Zenon
<1>2. CASE n > 0 /\ table[k].reference_count = n
  <2>1. t = [table EXCEPT ![k] = NoInode]
    BY <1>2, Zenon DEF fs_close
  <2>2. NoInode \in Inode /\ NoInode.reference_count = 0 /\ NoInode.type = "INODE_EMPTY"
    BY Zenon DEF NoInode, Inode
  <2> QED
    BY <1>2, <2>1, <2>2
<1>3. CASE ~(n > 0 /\ table[k].reference_count = n)
  <2>1. t = [table EXCEPT ![k] = [table[k] EXCEPT !.reference_count = @ - n]]
    BY <1>3, ZenonT(30) DEF fs_close
  <2>2. table[k].reference_count \in Nat /\ table[k].reference_count - n \in Nat
    BY <1>1 DEF Inode
  <2>3. table[k].reference_count - n = 0 => n = 0
    BY <1>3, <2>2
  <2> QED
    BY <1>1, <2>1, <2>2, <2>3 DEF Inode
<1> QED
  BY <1>2, <1>3, Zenon

(* One descriptor of a process changes.                                     *)
LEMMA OneDescriptor ==
  ASSUME Types, NEW p \in alive, NEW fd \in Fds, NEW f \in File, alive' = alive,
         open_files' \in [Procs -> [Fds -> File]], open_files'[p][fd] = f,
         \A q \in Procs, e \in Fds : q # p \/ e # fd => open_files'[q][e] = open_files[q][e],
         NEW j
  PROVE  Uses(j)' = IF f.type = "FD_INODE" /\ f.inode = j
                    THEN Uses(j) \union {<<p, fd>>} ELSE Uses(j) \ {<<p, fd>>}
<1>1. p \in Procs /\ alive \subseteq Procs /\ open_files \in [Procs -> [Fds -> File]]
  BY Zenon DEF Types
<1>2. ASSUME NEW q \in alive, NEW e \in Fds
      PROVE  (e \in InodeFds(q, j))' <=>
               IF q = p /\ e = fd THEN f.type = "FD_INODE" /\ f.inode = j
               ELSE e \in InodeFds(q, j)
  BY <1>1, Zenon DEF InodeFds
<1>3. ASSUME NEW u \in alive \X Fds
      PROVE  u \in Uses(j)' <=>
               IF u = <<p, fd>> THEN f.type = "FD_INODE" /\ f.inode = j ELSE u \in Uses(j)
  <2>1. u[1] \in alive /\ u[2] \in Fds /\ u = <<u[1], u[2]>>
    OBVIOUS
  <2> QED
    BY <1>2, <2>1 DEF Uses
<1>4. Uses(j) \subseteq alive \X Fds /\ Uses(j)' \subseteq alive \X Fds
      /\ <<p, fd>> \in alive \X Fds
  BY Zenon DEF Uses
<1> QED
  BY <1>3, <1>4, Zenon

(* open of a file.                                                          *)
LEMMA FileOpenTable ==
  ASSUME TableInv, NEW p \in Procs, NEW path \in Paths, NEW create, NEW dir, NEW mode,
         file_open(p, path, create, dir, mode)
  PROVE  TableInv'
<1>1. PICK fd \in Fds, d \in Dnodes \union {"root"}, k \in Inodes :
        /\ FirstEmpty(p, fd)
        /\ crowfs_open(path, create, dir, d)
        /\ fs_open(d, k) /\ inodes' = Opened(d, k)
        /\ open_files' = [open_files EXCEPT ![p][fd] =
             [type |-> "FD_INODE", inode |-> k, device |-> None, offset |-> 0,
              readble |-> mode # "O_WRONLY", writable |-> mode # "O_RDONLY"]]
  BY ZenonT(30) DEF file_open
<1>2. p \in alive /\ alive' = alive /\ working_directory' = working_directory
  BY Zenon DEF file_open, Calls
<1>3. Types
  BY Zenon DEF TableInv
<1>4. /\ entry' \in [Names -> Dnodes \union {None}]
      /\ kind' \in [Dnodes -> {"free", "file", "dir"}] /\ size' \in [Dnodes -> Nat]
  BY <1>1, <1>3, DiskTypes, Zenon
<1>5. /\ inodes' \in [Inodes -> Inode]
      /\ \A j \in Inodes \ {k} : inodes'[j] = inodes[j]
      /\ inodes'[k].type # "INODE_EMPTY" /\ inodes'[k].dnode = d
      /\ inodes'[k].reference_count = inodes[k].reference_count + 1
      /\ \A j \in Inodes \ {k} : inodes[j].type # "INODE_EMPTY" => inodes[j].dnode # d
  <2>1. StatSize(d)' \in Nat
    BY <1>4, StatSizeType, Zenon
  <2>2. /\ Opened(d, k) \in [Inodes -> Inode]
        /\ \A j \in Inodes \ {k} : Opened(d, k)[j] = inodes[j]
        /\ Opened(d, k)[k].type # "INODE_EMPTY" /\ Opened(d, k)[k].dnode = d
        /\ Opened(d, k)[k].reference_count = inodes[k].reference_count + 1
        /\ \A j \in Inodes \ {k} : inodes[j].type # "INODE_EMPTY" => inodes[j].dnode # d
    BY <1>1, <2>1, OpenedFacts, Zenon
  <2>3. inodes' = Opened(d, k)
    BY <1>1, Zenon
  <2> QED
    BY <2>2, <2>3, Zenon
<1>6. PICK f \in File :
        /\ f.type = "FD_INODE" /\ f.inode = k
        /\ open_files' \in [Procs -> [Fds -> File]] /\ open_files'[p][fd] = f
        /\ \A q \in Procs, e \in Fds :
             q # p \/ e # fd => open_files'[q][e] = open_files[q][e]
  <2> DEFINE f == [type |-> "FD_INODE", inode |-> k, device |-> None, offset |-> 0,
                   readble |-> mode # "O_WRONLY", writable |-> mode # "O_RDONLY"]
  <2>1. f \in File /\ f.type = "FD_INODE" /\ f.inode = k
    BY Zenon DEF File
  <2>2. open_files' = [open_files EXCEPT ![p][fd] = f]
    BY <1>1, Zenon
  <2> HIDE DEF f
  <2> QED
    BY <1>3, <2>1, <2>2, Zenon DEF Types
<1>7. Types'
  BY <1>2, <1>3, <1>4, <1>5, <1>6, Zenon DEF Types
<1>8. NamesInodes'
  BY <1>2, <1>3, <1>6, Zenon DEF NamesInodes, InUse, TableInv
<1>9. ASSUME NEW j \in Inodes
      PROVE  Users(j)' = IF j = k THEN Users(j) + 1 ELSE Users(j)
  <2>0. Uses(j)' = IF f.type = "FD_INODE" /\ f.inode = j
                   THEN Uses(j) \union {<<p, fd>>} ELSE Uses(j) \ {<<p, fd>>}
    BY <1>2, <1>3, <1>6, OneDescriptor, SMT
  <2>1. <<p, fd>> \notin Uses(j)
    BY <1>1, <1>2, <1>3, UsesMembers, Zenon DEF FirstEmpty, InUse, Types
  <2>2. Cardinality(Uses(j)') = IF j = k THEN Cardinality(Uses(j)) + 1 ELSE Cardinality(Uses(j))
    <3>1. IsFiniteSet(Uses(j))
      BY <1>3, Counting, Zenon
    <3>2. Cardinality(Uses(j) \union {<<p, fd>>}) = Cardinality(Uses(j)) + 1
      BY <2>1, <3>1, FS_AddElement, ZenonT(30)
    <3>3. Uses(j) \ {<<p, fd>>} = Uses(j)
      BY <2>1, Zenon
    <3> QED
      BY <1>6, <2>0, <3>2, <3>3, ZenonT(30)
  <2>3. Dirs(j)' = Dirs(j)
    BY <1>2, Zenon DEF Dirs
  <2>4. Users(j)' = Cardinality(Uses(j)') + Cardinality(Dirs(j)')
    BY Zenon DEF Users, Uses, Dirs
  <2> QED
    BY <1>3, <2>2, <2>3, <2>4, Counting
<1>10. InodesOutliveTheirUsers'
  <2> SUFFICES ASSUME NEW j \in Inodes
               PROVE  /\ inodes'[j].reference_count >= Users(j)'
                      /\ inodes'[j].type = "INODE_EMPTY" <=> inodes'[j].reference_count = 0
    BY Zenon DEF InodesOutliveTheirUsers
  <2>1. /\ inodes[j].reference_count >= Users(j) /\ inodes[j].reference_count \in Nat
        /\ inodes[j].type = "INODE_EMPTY" <=> inodes[j].reference_count = 0
        /\ Users(j) \in Nat
    BY <1>3, Counting DEF TableInv, InodesOutliveTheirUsers, Types, Inode
  <2> QED
    BY <1>5, <1>9, <2>1
<1>11. OneInodePerDnode'
  BY <1>5 DEF OneInodePerDnode, TableInv
<1> QED
  BY <1>7, <1>8, <1>10, <1>11, Zenon DEF TableInv

(* close of a file.                                                         *)
LEMMA CloseTable ==
  ASSUME TableInv, NEW p \in Procs, NEW fd \in Fds, sys_close(p, fd)
  PROVE  TableInv'
<1> DEFINE k == open_files[p][fd].inode
<1>1. /\ p \in alive /\ alive' = alive /\ working_directory' = working_directory
      /\ InUse(p, fd) /\ inodes' = fs_close(inodes, k, 1)
      /\ open_files' = [open_files EXCEPT ![p][fd] = NoFile]
      /\ entry' = entry /\ kind' = kind /\ size' = size
  BY Zenon DEF sys_close, Calls, InUse, disk
<1>2. Types /\ inodes \in [Inodes -> Inode]
  BY Zenon DEF TableInv, Types
<1>3. /\ k \in Inodes /\ inodes[k].reference_count \in Nat \ {0}
      /\ inodes[k].type # "INODE_EMPTY"
  BY <1>1, Named, Zenon
<1> HIDE DEF k
<1>4. /\ fs_close(inodes, k, 1) \in [Inodes -> Inode]
      /\ \A j \in Inodes \ {k} : fs_close(inodes, k, 1)[j] = inodes[j]
      /\ fs_close(inodes, k, 1)[k].reference_count = inodes[k].reference_count - 1
      /\ fs_close(inodes, k, 1)[k].type = "INODE_EMPTY"
           <=> fs_close(inodes, k, 1)[k].reference_count = 0
      /\ fs_close(inodes, k, 1)[k].type # "INODE_EMPTY" =>
           /\ fs_close(inodes, k, 1)[k].type = inodes[k].type
           /\ fs_close(inodes, k, 1)[k].dnode = inodes[k].dnode
           /\ fs_close(inodes, k, 1)[k].size = inodes[k].size
  <2>1. /\ inodes[k].reference_count >= 1 /\ 1 \in Nat
        /\ inodes[k].type = "INODE_EMPTY" <=> inodes[k].reference_count = 0
    BY <1>3
  <2> QED
    BY <1>2, <1>3, <2>1, ClosedFacts, ZenonT(30)
<1>5. /\ NoFile \in File /\ NoFile.type # "FD_INODE"
      /\ open_files' \in [Procs -> [Fds -> File]] /\ open_files'[p][fd] = NoFile
      /\ \A q \in Procs, e \in Fds :
           q # p \/ e # fd => open_files'[q][e] = open_files[q][e]
  <2>1. NoFile \in File /\ NoFile.type # "FD_INODE"
    BY Zenon DEF NoFile, File
  <2> QED
    BY <1>1, <1>2, <2>1, Zenon DEF Types
<1>6. ASSUME NEW j \in Inodes
      PROVE  Users(j)' = IF j = k THEN Users(j) - 1 ELSE Users(j)
  <2>1. Uses(j)' = IF NoFile.type = "FD_INODE" /\ NoFile.inode = j
                   THEN Uses(j) \union {<<p, fd>>} ELSE Uses(j) \ {<<p, fd>>}
    BY <1>1, <1>2, <1>5, OneDescriptor, SMT
  <2>2. <<p, fd>> \in Uses(j) <=> j = k
    BY <1>1, <1>2, UsesMembers, Zenon DEF k
  <2>3. IsFiniteSet(Uses(j))
    BY <1>2, Counting, Zenon
  <2>4. j = k => Cardinality(Uses(j) \ {<<p, fd>>}) = Cardinality(Uses(j)) - 1
    BY <2>2, <2>3, FS_RemoveElement, ZenonT(30)
  <2>5. j # k => Uses(j) \ {<<p, fd>>} = Uses(j)
    BY <2>2, Zenon
  <2>6. Cardinality(Uses(j)') = IF j = k THEN Cardinality(Uses(j)) - 1 ELSE Cardinality(Uses(j))
    BY <1>5, <2>1, <2>4, <2>5, ZenonT(30)
  <2>7. Dirs(j)' = Dirs(j)
    BY <1>1, Zenon DEF Dirs
  <2>8. Users(j)' = Cardinality(Uses(j)') + Cardinality(Dirs(j)')
    BY Zenon DEF Users, Uses, Dirs
  <2> QED
    BY <1>2, <2>6, <2>7, <2>8, Counting
<1>7. Types'
  BY <1>1, <1>2, <1>4, <1>5, Zenon DEF Types
<1>8. NamesInodes'
  BY <1>1, <1>5, Zenon DEF NamesInodes, InUse, TableInv
<1>9. InodesOutliveTheirUsers'
  <2> SUFFICES ASSUME NEW j \in Inodes
               PROVE  /\ inodes'[j].reference_count >= Users(j)'
                      /\ inodes'[j].type = "INODE_EMPTY" <=> inodes'[j].reference_count = 0
    BY Zenon DEF InodesOutliveTheirUsers
  <2>1. /\ inodes[j].reference_count >= Users(j) /\ inodes[j].reference_count \in Nat
        /\ inodes[j].type = "INODE_EMPTY" <=> inodes[j].reference_count = 0
        /\ Users(j) \in Nat
    BY <1>2, Counting DEF TableInv, InodesOutliveTheirUsers, Types, Inode
  <2> QED
    BY <1>1, <1>4, <1>6, <2>1
<1>10. OneInodePerDnode'
  BY <1>1, <1>4 DEF OneInodePerDnode, TableInv
<1> QED
  BY <1>7, <1>8, <1>9, <1>10, Zenon DEF TableInv

(* A call that only moves an offset.                                        *)
Moved(p, fd, x) == open_files' = [open_files EXCEPT ![p][fd].offset = x]

(* Moving an offset changes no user.                                        *)
LEMMA OffsetMoved ==
  ASSUME Types, NEW p \in Procs, NEW fd \in Fds, NEW x \in Nat,
         Moved(p, fd, x)
  PROVE  /\ open_files' \in [Procs -> [Fds -> File]]
         /\ open_files'[p][fd].offset = x
         /\ \A q \in Procs, e \in Fds :
              /\ open_files'[q][e].type = open_files[q][e].type
              /\ open_files'[q][e].inode = open_files[q][e].inode
              /\ q # p \/ e # fd => open_files'[q][e] = open_files[q][e]
<1>1. open_files \in [Procs -> [Fds -> File]] /\ open_files[p][fd] \in File
  BY Zenon DEF Types
<1>2. PICK f \in File :
        /\ f.type = open_files[p][fd].type /\ f.inode = open_files[p][fd].inode /\ f.offset = x
        /\ open_files' = [open_files EXCEPT ![p][fd] = f]
  <2> DEFINE f == [open_files[p][fd] EXCEPT !.offset = x]
  <2>1. /\ f \in File
        /\ f.type = open_files[p][fd].type /\ f.inode = open_files[p][fd].inode /\ f.offset = x
    BY <1>1, ZenonT(30) DEF File
  <2>2. open_files' = [open_files EXCEPT ![p][fd] = f]
    BY <1>1, Zenon DEF Moved
  <2> HIDE DEF f
  <2> QED
    BY <2>1, <2>2, ZenonT(30)
<1>3. /\ open_files' \in [Procs -> [Fds -> File]] /\ open_files'[p][fd] = f
      /\ \A q \in Procs, e \in Fds : q # p \/ e # fd => open_files'[q][e] = open_files[q][e]
  BY <1>1, <1>2, Zenon
<1> QED
  BY <1>2, <1>3, Zenon

(* So it leaves the table as it is.                                         *)
LEMMA OffsetTable ==
  ASSUME TableInv, NEW p \in Procs, NEW fd \in Fds, NEW x \in Nat,
         Moved(p, fd, x), UNCHANGED <<disk, inodes, working_directory, alive>>
  PROVE  TableInv'
<1>1. Types
  BY Zenon DEF TableInv
<1>2. /\ open_files' \in [Procs -> [Fds -> File]]
      /\ open_files'[p][fd].offset = x
      /\ \A q \in Procs, e \in Fds :
           /\ open_files'[q][e].type = open_files[q][e].type
           /\ open_files'[q][e].inode = open_files[q][e].inode
           /\ q # p \/ e # fd => open_files'[q][e] = open_files[q][e]
  BY <1>1, OffsetMoved, Zenon
<1>3. Types'
  BY <1>1, <1>2, Zenon DEF Types, disk
<1> QED
  BY <1>2, <1>3, TableKept, Zenon

(* Where read, lseek and readdir move it.                                   *)
LEMMA SeekTargetType ==
  ASSUME NEW whence \in {"SEEK_SET", "SEEK_CUR", "SEEK_END"}, NEW offset \in Nat,
         NEW delta \in Int, NEW file_size \in Nat
  PROVE  SeekTarget(whence, offset, delta, file_size) \in Nat
<1>1. Word \in Nat /\ Word > 0
  BY FilesAssumption
<1>2. \A x \in Int : x % Word \in Nat
  BY <1>1
<1>3. delta % Word \in Nat /\ (offset + delta) % Word \in Nat /\ (file_size - (delta % Word)) % Word \in Nat
  BY <1>2
<1> QED
  BY <1>3, Zenon DEF SeekTarget

(* file_read moves an offset at most.                                       *)
LEMMA ReadMoves ==
  ASSUME TableInv, NEW p \in Procs, NEW fd \in Fds, NEW len \in 1 .. MaxSize, file_read(p, fd, len)
  PROVE  \E x \in Nat : Moved(p, fd, x) /\ x <= size[InodeOf(p, fd).dnode]
<1>1. InodeOf(p, fd).dnode \in Dnodes
  BY Zenon DEF file_read, OfFile
<1>2. open_files[p][fd].offset \in Nat /\ size[InodeOf(p, fd).dnode] \in Nat
  BY <1>1, Zenon DEF TableInv, Types, File
<1>3. len \in Nat
  BY FilesAssumption
<1> DEFINE x == Smaller(open_files[p][fd].offset + len, size[InodeOf(p, fd).dnode])
<1>4. x \in Nat /\ x <= size[InodeOf(p, fd).dnode]
  BY <1>2, <1>3 DEF Smaller
<1>5. Moved(p, fd, x)
  BY Zenon DEF file_read, TableInv, Types, Moved
<1> HIDE DEF x
<1> QED
  BY <1>4, <1>5, Zenon

(* file_seek moves an offset at most.                                       *)
LEMMA SeekMoves ==
  ASSUME TableInv, NEW p \in Procs, NEW fd \in Fds,
         NEW whence \in {"SEEK_SET", "SEEK_CUR", "SEEK_END"}, NEW delta \in -MaxSize .. MaxSize,
         file_seek(p, fd, whence, delta)
  PROVE  \E x \in Nat : Moved(p, fd, x) /\ x <= InodeOf(p, fd).size
<1>1. InodeOf(p, fd) \in Inode
  BY Named, Zenon DEF file_seek, InodeOf, InUse, TableInv, Types
<1>2. open_files[p][fd].offset \in Nat /\ InodeOf(p, fd).size \in Nat
  BY <1>1, ZenonT(30) DEF TableInv, Types, File, Inode
<1>3. delta \in Int
  BY FilesAssumption
<1> DEFINE t == SeekTarget(whence, open_files[p][fd].offset, delta, InodeOf(p, fd).size)
           x == Smaller(t, InodeOf(p, fd).size)
<1>4. t \in Nat
  BY <1>2, <1>3, SeekTargetType, ZenonT(30)
<1>5. Moved(p, fd, x)
  BY Zenon DEF file_seek, TableInv, Types, Moved
<1> HIDE DEF t
<1>6. x \in Nat /\ x <= InodeOf(p, fd).size
  BY <1>2, <1>4 DEF Smaller
<1> HIDE DEF x
<1> QED
  BY <1>5, <1>6, Zenon

(* sys_readdir moves an offset at most.                                     *)
LEMMA ReaddirMoves ==
  ASSUME TableInv, NEW p \in Procs, NEW fd \in Fds, NEW n \in 1 .. MaxSize, sys_readdir(p, fd, n)
  PROVE  \E x \in Nat : Moved(p, fd, x)
<1> DEFINE d == InodeOf(p, fd).dnode
           x == Smaller(open_files[p][fd].offset + n, Entries(d))
<1>1. {m \in Names : entry[m] # None} \in SUBSET Names
  BY Zenon
<1>2. Cardinality({m \in Names : entry[m] # None}) \in Nat
  BY <1>1, FilesAssumption, FS_Subset, FS_CardinalityType, Zenon
<1>3. Entries(d) \in Nat
  BY <1>2, Zenon DEF Entries
<1>4. open_files[p][fd].offset \in Nat /\ n \in Nat
  BY FilesAssumption DEF TableInv, Types, File
<1>5. Moved(p, fd, x)
  BY Zenon DEF sys_readdir, TableInv, Types, Moved
<1> HIDE DEF d
<1>6. x \in Nat
  BY <1>3, <1>4 DEF Smaller
<1> HIDE DEF x
<1> QED
  BY <1>5, <1>6, Zenon

(* A call that changes the disk at most.                                    *)
LEMMA DiskOnlyTable ==
  ASSUME TableInv, UNCHANGED <<inodes, open_files, working_directory, alive>>,
         entry' \in [Names -> Dnodes \union {None}],
         kind' \in [Dnodes -> {"free", "file", "dir"}], size' \in [Dnodes -> Nat]
  PROVE  TableInv'
<1>1. Types'
  BY Zenon DEF TableInv, Types
<1> QED
  BY <1>1, TableKept, Zenon

(* crowfs_delete keeps the types of the disk.                               *)
LEMMA DeleteTypes ==
  ASSUME Types, NEW path \in Names, entry[path] # None, crowfs_delete(path)
  PROVE  /\ entry' \in [Names -> Dnodes \union {None}]
         /\ kind' \in [Dnodes -> {"free", "file", "dir"}] /\ size' \in [Dnodes -> Nat]
BY Zenon DEF Types, crowfs_delete

(* device_open adds a descriptor that uses no inode.                        *)
LEMMA DeviceOpenTable ==
  ASSUME TableInv, NEW p \in Procs, NEW dev \in Devices, device_open(p, dev)
  PROVE  TableInv'
<1>1. PICK fd \in Fds :
        /\ FirstEmpty(p, fd)
        /\ open_files' = [open_files EXCEPT ![p][fd] = DeviceFile(dev, HasRead(dev), HasWrite(dev))]
  BY ZenonT(30) DEF device_open
<1>2. UNCHANGED <<disk, inodes, working_directory, alive>>
  BY Zenon DEF device_open
<1>3. PICK f \in File : /\ f.type = "FD_DEVICE"
                        /\ open_files' = [open_files EXCEPT ![p][fd] = f]
  <2> DEFINE f == DeviceFile(dev, HasRead(dev), HasWrite(dev))
  <2>1. f \in File /\ f.type = "FD_DEVICE"
    BY Zenon DEF DeviceFile, HasRead, HasWrite, File
  <2> HIDE DEF f
  <2> QED
    BY <1>1, <2>1, ZenonT(30) DEF f
<1>4. open_files \in [Procs -> [Fds -> File]] /\ open_files[p][fd].type = "FD_EMPTY"
  BY <1>1, Zenon DEF FirstEmpty, TableInv, Types
<1>5. /\ open_files' \in [Procs -> [Fds -> File]] /\ open_files'[p][fd] = f
      /\ \A q \in Procs, e \in Fds : q # p \/ e # fd => open_files'[q][e] = open_files[q][e]
  BY <1>3, <1>4, Zenon
<1>6. Types'
  BY <1>2, <1>5, Zenon DEF TableInv, Types, disk
<1>7. \A q \in Procs, e \in Fds :
        /\ open_files'[q][e].type = "FD_INODE" <=> open_files[q][e].type = "FD_INODE"
        /\ InUse(q, e) => open_files'[q][e].inode = open_files[q][e].inode
  BY <1>3, <1>4, <1>5, Zenon DEF InUse
<1> QED
  BY <1>2, <1>6, <1>7, TableKept, Zenon

(* What a write does to the inode, the disk and the offset.                 *)
Written(p, fd, k, d, x) ==
  /\ k = open_files[p][fd].inode /\ d = inodes[k].dnode /\ kind[d] = "file"
  /\ InUse(p, fd) /\ p \in alive
  /\ Moved(p, fd, x)
  /\ UNCHANGED <<entry, kind, working_directory, alive>>
  /\ size' \in [Dnodes -> Nat] /\ size'[d] = Larger(size[d], x)
  /\ \A e \in Dnodes \ {d} : size'[e] = size[e]
  /\ inodes' \in [Inodes -> Inode] /\ inodes'[k].size = Larger(inodes[k].size, x)
  /\ \A j \in Inodes \ {k} : inodes'[j] = inodes[j]
  /\ inodes'[k].type = inodes[k].type /\ inodes'[k].dnode = d
  /\ inodes'[k].reference_count = inodes[k].reference_count

(* file_write changes a size and an offset.                                 *)
LEMMA WriteFacts ==
  ASSUME TableInv, NEW p \in Procs, NEW fd \in Fds, NEW len \in 1 .. MaxSize, file_write(p, fd, len)
  PROVE  \E k \in Inodes, d \in Dnodes, x \in Nat : Written(p, fd, k, d, x)
<1> DEFINE f == open_files[p][fd]  k == f.inode  d == inodes[k].dnode  x == f.offset + len
<1>1. /\ InUse(p, fd) /\ p \in alive /\ d \in Dnodes /\ kind[d] = "file"
      /\ UNCHANGED <<entry, kind, working_directory, alive>>
  BY Zenon DEF file_write, OfFile, InUse, Calls, InodeOf
<1>2. k \in Inodes /\ open_files \in [Procs -> [Fds -> File]] /\ f \in File
  BY <1>1, Named, ZenonT(30) DEF TableInv, Types
<1>3. x \in Nat
  BY <1>2, FilesAssumption DEF File
<1>4. /\ size' = [size EXCEPT ![d] = Larger(size[d], x)]
      /\ inodes' = [inodes EXCEPT ![k].size = Larger(inodes[k].size, x)]
      /\ Moved(p, fd, x)
  <2>1. /\ size \in [Dnodes -> Nat] /\ inodes \in [Inodes -> Inode] /\ inodes[k] \in Inode
    BY <1>2, Zenon DEF TableInv, Types
  <2> QED
    BY <1>1, <1>2, <2>1, Zenon DEF file_write, Moved, InodeOf
<1>5. /\ size \in [Dnodes -> Nat] /\ inodes \in [Inodes -> Inode] /\ inodes[k] \in Inode
      /\ inodes[k].size \in Nat
  BY <1>2, Zenon DEF TableInv, Types, Inode
<1> HIDE DEF x, k
<1>6. Larger(inodes[k].size, x) \in Nat
  BY <1>3, <1>5, Zenon DEF Larger
<1>7. /\ inodes' \in [Inodes -> Inode] /\ inodes'[k].size = Larger(inodes[k].size, x)
      /\ \A j \in Inodes \ {k} : inodes'[j] = inodes[j]
      /\ inodes'[k].type = inodes[k].type /\ inodes'[k].dnode = inodes[k].dnode
      /\ inodes'[k].reference_count = inodes[k].reference_count
  BY <1>2, <1>4, <1>5, <1>6, Zenon DEF Inode
<1> HIDE DEF d
<1>8. Larger(size[d], x) \in Nat
  BY <1>1, <1>3, <1>5, Zenon DEF Larger
<1>9. /\ size' \in [Dnodes -> Nat] /\ size'[d] = Larger(size[d], x)
      /\ \A e \in Dnodes \ {d} : size'[e] = size[e]
  BY <1>1, <1>4, <1>5, <1>8, Zenon
<1>10. k = open_files[p][fd].inode /\ d = inodes[k].dnode
  BY Zenon DEF k, d
<1>11. Written(p, fd, k, d, x)
  BY <1>1, <1>4, <1>7, <1>9, <1>10, ZenonT(30) DEF Written
<1> QED
  BY <1>1, <1>2, <1>3, <1>11, ZenonT(30)

(* So it leaves counts and users as they are.                               *)
LEMMA WriteTable ==
  ASSUME TableInv, NEW p \in Procs, NEW fd \in Fds, NEW len \in 1 .. MaxSize, file_write(p, fd, len)
  PROVE  TableInv'
<1>1. PICK k \in Inodes, d \in Dnodes, x \in Nat : Written(p, fd, k, d, x)
  BY WriteFacts, ZenonT(30)
<1>2. /\ Moved(p, fd, x) /\ UNCHANGED <<entry, kind, working_directory, alive>>
      /\ size' \in [Dnodes -> Nat] /\ inodes' \in [Inodes -> Inode]
  BY <1>1, ZenonT(30) DEF Written
<1>3. Types
  BY Zenon DEF TableInv
<1>4. /\ open_files' \in [Procs -> [Fds -> File]]
      /\ open_files'[p][fd].offset = x
      /\ \A q \in Procs, e \in Fds :
           /\ open_files'[q][e].type = open_files[q][e].type
           /\ open_files'[q][e].inode = open_files[q][e].inode
           /\ q # p \/ e # fd => open_files'[q][e] = open_files[q][e]
  BY <1>2, <1>3, OffsetMoved, Zenon
<1>5. Types'
  BY <1>2, <1>3, <1>4, Zenon DEF Types
<1>6. \A j \in Inodes :
        /\ inodes'[j].type = inodes[j].type /\ inodes'[j].dnode = inodes[j].dnode
        /\ inodes'[j].reference_count = inodes[j].reference_count
  BY <1>1, ZenonT(30) DEF Written
<1> QED
  BY <1>2, <1>4, <1>5, <1>6, TableKept, Zenon

(* One working directory changes, or a process appears or disappears.       *)
LEMMA CountDirs ==
  ASSUME Types, NEW j \in Inodes, NEW p, Uses(j)' = Uses(j),
         Dirs(j)' = Dirs(j) \union {p} \/ Dirs(j)' = Dirs(j) \ {p}
  PROVE  Users(j)' = Users(j)
           + (IF p \in Dirs(j) THEN 0 ELSE IF p \in Dirs(j)' THEN 1 ELSE 0)
           - (IF p \in Dirs(j) /\ p \notin Dirs(j)' THEN 1 ELSE 0)
<1>1. Users(j)' = Cardinality(Uses(j)') + Cardinality(Dirs(j)')
  BY Zenon DEF Users, Uses, Dirs
<1>2. /\ IsFiniteSet(Dirs(j)) /\ Cardinality(Uses(j)) \in Nat /\ Cardinality(Dirs(j)) \in Nat
      /\ Users(j) = Cardinality(Uses(j)) + Cardinality(Dirs(j))
  BY Counting, Zenon
<1>3. Cardinality(Dirs(j) \union {p}) =
        IF p \in Dirs(j) THEN Cardinality(Dirs(j)) ELSE Cardinality(Dirs(j)) + 1
  BY <1>2, FS_AddElement, Zenon
<1>4. Cardinality(Dirs(j) \ {p}) =
        IF p \in Dirs(j) THEN Cardinality(Dirs(j)) - 1 ELSE Cardinality(Dirs(j))
  BY <1>2, FS_RemoveElement, Zenon
<1>5. CASE Dirs(j)' = Dirs(j) \union {p}
  BY <1>1, <1>2, <1>3, <1>5
<1>6. CASE Dirs(j)' = Dirs(j) \ {p}
  BY <1>1, <1>2, <1>4, <1>6
<1> QED
  BY <1>5, <1>6, Zenon

(* proc_exec adds a user, the working directory of the new process.         *)
LEMMA ExecTable ==
  ASSUME TableInv, NEW p \in Procs, NEW c \in Procs, NEW path \in Names, proc_exec(p, c, path)
  PROVE  TableInv'
<1> DEFINE w == working_directory[p]
<1>1. /\ p \in alive /\ c \notin alive /\ alive' = alive \union {c}
      /\ entry' = entry /\ kind' = kind /\ size' = size
      /\ open_files' = [open_files EXCEPT ![c] = StdioFiles(open_files[c])]
      /\ inodes' = [inodes EXCEPT ![w].reference_count = @ + 1]
      /\ working_directory' = [working_directory EXCEPT ![c] = w]
  BY Zenon DEF proc_exec, Calls, disk, fs_dup, TableInv, Types
<1>2. Types
  BY Zenon DEF TableInv
<1>3. w \in Inodes /\ inodes[w].reference_count \in Nat \ {0} /\ inodes[w].type # "INODE_EMPTY"
  BY <1>1, Named, Zenon
<1>4. /\ StdioFiles(open_files[c]) \in [Fds -> File]
      /\ \A fd \in Fds : StdioFiles(open_files[c])[fd].type # "FD_INODE"
  <2>1. \A fd \in Fds : open_files[c][fd] \in File /\ open_files[c][fd].type # "FD_INODE"
    BY <1>1, <1>2, Zenon DEF Types, TableInv, NamesInodes, InUse
  <2>2. \A fd \in Fds : DeviceFile("serial", fd = 0, fd # 0) \in File
                        /\ DeviceFile("serial", fd = 0, fd # 0).type # "FD_INODE"
    BY Zenon DEF DeviceFile, File
  <2> QED
    BY <2>1, <2>2, Zenon DEF StdioFiles
<1> HIDE DEF w
<1>5. /\ open_files' \in [Procs -> [Fds -> File]]
      /\ \A q \in Procs \ {c} : open_files'[q] = open_files[q]
      /\ \A fd \in Fds : open_files'[c][fd].type # "FD_INODE"
  BY <1>1, <1>2, <1>4, Zenon DEF Types
<1>6. /\ inodes' \in [Inodes -> Inode] /\ inodes'[w].reference_count = inodes[w].reference_count + 1
      /\ \A j \in Inodes \ {w} : inodes'[j] = inodes[j]
      /\ inodes'[w].type = inodes[w].type /\ inodes'[w].dnode = inodes[w].dnode
  <2>1. inodes \in [Inodes -> Inode] /\ inodes[w] \in Inode
    BY <1>2, <1>3, Zenon DEF Types
  <2> QED
    BY <1>1, <1>3, <2>1 DEF Inode
<1>7. /\ working_directory' \in [Procs -> Inodes \union {None}] /\ working_directory'[c] = w
      /\ \A q \in Procs \ {c} : working_directory'[q] = working_directory[q]
  BY <1>1, <1>2, <1>3, Zenon DEF Types
<1>8. Types'
  BY <1>1, <1>2, <1>5, <1>6, <1>7, Zenon DEF Types
<1>9. NamesInodes'
  BY <1>1, <1>2, <1>3, <1>5, <1>7, ZenonT(30) DEF NamesInodes, InUse, TableInv, Types
<1>10. ASSUME NEW j \in Inodes PROVE Users(j)' = IF j = w THEN Users(j) + 1 ELSE Users(j)
  <2>1. \A q \in alive \union {c}, e \in Fds :
          (e \in InodeFds(q, j))' <=> q \in alive /\ e \in InodeFds(q, j)
    BY <1>1, <1>2, <1>5, Zenon DEF InodeFds, Types
  <2>2. \A u \in (alive \union {c}) \X Fds : u \in Uses(j)' <=> u \in Uses(j)
    BY <1>1, <2>1, Zenon DEF Uses
  <2>3. Uses(j)' \subseteq (alive \union {c}) \X Fds /\ Uses(j) \subseteq (alive \union {c}) \X Fds
    BY <1>1, Zenon DEF Uses
  <2>4. Uses(j)' = Uses(j)
    BY <2>2, <2>3, Zenon
  <2>5. c \notin Dirs(j)
    BY <1>1, Zenon DEF Dirs
  <2>6. Dirs(j)' = IF j = w THEN Dirs(j) \union {c} ELSE Dirs(j) \ {c}
    BY <1>1, <1>2, <1>7, Zenon DEF Dirs, Types
  <2>7. Users(j)' = Users(j)
           + (IF c \in Dirs(j) THEN 0 ELSE IF c \in Dirs(j)' THEN 1 ELSE 0)
           - (IF c \in Dirs(j) /\ c \notin Dirs(j)' THEN 1 ELSE 0)
    BY <1>2, <2>4, <2>6, CountDirs, Zenon
  <2>8. Users(j) \in Nat
    BY <1>2, Counting
  <2> QED
    BY <2>5, <2>6, <2>7, <2>8
<1>11. InodesOutliveTheirUsers'
  <2> SUFFICES ASSUME NEW j \in Inodes
               PROVE  /\ inodes'[j].reference_count >= Users(j)'
                      /\ inodes'[j].type = "INODE_EMPTY" <=> inodes'[j].reference_count = 0
    BY Zenon DEF InodesOutliveTheirUsers
  <2>1. /\ inodes[j].reference_count >= Users(j) /\ inodes[j].reference_count \in Nat
        /\ inodes[j].type = "INODE_EMPTY" <=> inodes[j].reference_count = 0
        /\ Users(j) \in Nat
    BY <1>2, Counting DEF TableInv, InodesOutliveTheirUsers, Types, Inode
  <2> QED
    BY <1>3, <1>6, <1>10, <2>1
<1>12. OneInodePerDnode'
  BY <1>6 DEF OneInodePerDnode, TableInv
<1> QED
  BY <1>8, <1>9, <1>11, <1>12, Zenon DEF TableInv

(* chdir opens the new directory before it closes the old one.              *)
LEMMA ChdirTable ==
  ASSUME TableInv, NEW p \in Procs, NEW path \in Paths, sys_chdir(p, path)
  PROVE  TableInv'
<1>1. PICK d \in Dnodes \union {"root"}, k \in Inodes :
        /\ crowfs_open(path, FALSE, TRUE, d)
        /\ fs_open(d, k)
        /\ inodes' = fs_close(Opened(d, k), working_directory[p], 1)
        /\ working_directory' = [working_directory EXCEPT ![p] = k]
  BY ZenonT(30) DEF sys_chdir
<1> DEFINE w == working_directory[p]
<1>2. p \in alive /\ alive' = alive /\ open_files' = open_files
  BY Zenon DEF sys_chdir, Calls
<1>3. Types /\ w \in Inodes /\ inodes[w].reference_count \in Nat \ {0} /\ inodes[w].type # "INODE_EMPTY"
  BY <1>2, Named, ZenonT(30) DEF TableInv
<1>4. /\ entry' \in [Names -> Dnodes \union {None}]
      /\ kind' \in [Dnodes -> {"free", "file", "dir"}] /\ size' \in [Dnodes -> Nat]
  BY <1>1, <1>3, DiskTypes, ZenonT(30)
<1>5. PICK t \in [Inodes -> Inode] :
        /\ inodes' = fs_close(t, w, 1)
        /\ \A j \in Inodes \ {k} : t[j] = inodes[j]
        /\ t[k].type # "INODE_EMPTY" /\ t[k].dnode = d
        /\ t[k].reference_count = inodes[k].reference_count + 1
        /\ \A j \in Inodes \ {k} : inodes[j].type # "INODE_EMPTY" => inodes[j].dnode # d
  <2>1. StatSize(d)' \in Nat
    BY <1>4, StatSizeType, Zenon
  <2>2. /\ Opened(d, k) \in [Inodes -> Inode]
        /\ \A j \in Inodes \ {k} : Opened(d, k)[j] = inodes[j]
        /\ Opened(d, k)[k].type # "INODE_EMPTY" /\ Opened(d, k)[k].dnode = d
        /\ Opened(d, k)[k].reference_count = inodes[k].reference_count + 1
        /\ \A j \in Inodes \ {k} : inodes[j].type # "INODE_EMPTY" => inodes[j].dnode # d
    BY <1>1, <2>1, OpenedFacts, Zenon
  <2> QED
    BY <1>1, <2>2, Zenon
<1>6. inodes' = fs_close(t, w, 1)
  BY <1>5, Zenon
<1>7. inodes[k].reference_count \in Nat
  BY <1>3, Zenon DEF Types, Inode
<1> HIDE DEF w
<1>8. /\ fs_close(t, w, 1) \in [Inodes -> Inode]
      /\ \A j \in Inodes \ {w} : fs_close(t, w, 1)[j] = t[j]
      /\ fs_close(t, w, 1)[w].reference_count = t[w].reference_count - 1
      /\ fs_close(t, w, 1)[w].type = "INODE_EMPTY"
           <=> fs_close(t, w, 1)[w].reference_count = 0
      /\ fs_close(t, w, 1)[w].type # "INODE_EMPTY" =>
           /\ fs_close(t, w, 1)[w].type = t[w].type
           /\ fs_close(t, w, 1)[w].dnode = t[w].dnode
           /\ fs_close(t, w, 1)[w].size = t[w].size
  <2>1. /\ t[w].reference_count >= 1 /\ 1 \in Nat
        /\ t[w].type = "INODE_EMPTY" <=> t[w].reference_count = 0
    BY <1>3, <1>5, <1>7
  <2> QED
    BY <1>3, <2>1, ClosedFacts, ZenonT(30)
<1>9. /\ working_directory' \in [Procs -> Inodes \union {None}] /\ working_directory'[p] = k
      /\ \A q \in Procs \ {p} : working_directory'[q] = working_directory[q]
  BY <1>1, <1>3, Zenon DEF Types
<1>10. Types'
  BY <1>2, <1>3, <1>4, <1>6, <1>8, <1>9, Zenon DEF Types
<1>11. NamesInodes'
  BY <1>2, <1>3, <1>9, Zenon DEF NamesInodes, InUse, TableInv, Types
<1>12. ASSUME NEW j \in Inodes
       PROVE  Users(j)' = Users(j) + (IF j = k THEN 1 ELSE 0) - (IF j = w THEN 1 ELSE 0)
  <2>1. Uses(j)' = Uses(j)
    BY <1>2, Zenon DEF Uses, InodeFds
  <2>2. p \in Dirs(j) <=> j = w
    BY <1>2, Zenon DEF Dirs, w
  <2>3. Dirs(j)' = IF j = k THEN Dirs(j) \union {p} ELSE Dirs(j) \ {p}
    BY <1>2, <1>3, <1>9, Zenon DEF Dirs, Types
  <2>4. Users(j)' = Users(j)
           + (IF p \in Dirs(j) THEN 0 ELSE IF p \in Dirs(j)' THEN 1 ELSE 0)
           - (IF p \in Dirs(j) /\ p \notin Dirs(j)' THEN 1 ELSE 0)
    BY <1>3, <2>1, <2>3, CountDirs, Zenon
  <2>5. Users(j) \in Nat
    BY <1>3, Counting
  <2> QED
    BY <2>2, <2>3, <2>4, <2>5
<1>13. InodesOutliveTheirUsers'
  <2> SUFFICES ASSUME NEW j \in Inodes
               PROVE  /\ inodes'[j].reference_count >= Users(j)'
                      /\ inodes'[j].type = "INODE_EMPTY" <=> inodes'[j].reference_count = 0
    BY Zenon DEF InodesOutliveTheirUsers
  <2>1. /\ inodes[j].reference_count >= Users(j) /\ inodes[j].reference_count \in Nat
        /\ inodes[j].type = "INODE_EMPTY" <=> inodes[j].reference_count = 0
        /\ Users(j) \in Nat
    BY <1>3, Counting DEF TableInv, InodesOutliveTheirUsers, Types, Inode
  <2>2. inodes'[j].reference_count =
          inodes[j].reference_count + (IF j = k THEN 1 ELSE 0) - (IF j = w THEN 1 ELSE 0)
    BY <1>3, <1>5, <1>6, <1>8, <2>1, SMTT(30)
  <2>3. inodes'[j].type = "INODE_EMPTY" <=> inodes'[j].reference_count = 0
    BY <1>3, <1>5, <1>6, <1>7, <1>8, <2>1
  <2> QED
    BY <1>12, <2>1, <2>2, <2>3
<1>14. OneInodePerDnode'
  BY <1>3, <1>5, <1>6, <1>8 DEF OneInodePerDnode, TableInv
<1> QED
  BY <1>10, <1>11, <1>13, <1>14, Zenon DEF TableInv

(* exit closes each inode once for each descriptor that names it.           *)
LEMMA ExitInodes ==
  ASSUME TableInv, NEW p \in alive, NEW j \in Inodes
  PROVE  /\ Cardinality(InodeFds(p, j)) \in Nat
         /\ {p} \X InodeFds(p, j) \subseteq Uses(j)
         /\ Cardinality(Uses(j) \ ({p} \X InodeFds(p, j))) =
              Cardinality(Uses(j)) - Cardinality(InodeFds(p, j))
         /\ inodes[j].reference_count >= Cardinality(InodeFds(p, j))
<1> DEFINE S == InodeFds(p, j)
<1>1. S \subseteq Fds
  BY Zenon DEF InodeFds
<1>2. IsFiniteSet(Fds)
  <2>1. MAX_OPEN_FILES - 1 \in Int
    BY FilesAssumption
  <2> QED
    BY <2>1, FS_Interval DEF Fds
<1>3. IsFiniteSet(S) /\ Cardinality(S) \in Nat
  BY <1>1, <1>2, FS_Subset, FS_CardinalityType, Zenon
<1>4. \A u \in {p} \X S : u \in alive \X Fds /\ u[1] = p /\ u[2] \in S
  BY <1>1, Zenon
<1>5. {p} \X S \subseteq Uses(j)
  BY <1>4, Zenon DEF Uses
<1> HIDE DEF S
<1>6. IsFiniteSet({p}) /\ Cardinality({p}) = 1
  BY FS_Singleton, ZenonT(30)
<1>7. Cardinality({p} \X S) = Cardinality(S)
  <2>1. Cardinality({p} \X S) = Cardinality({p}) * Cardinality(S)
    BY <1>3, <1>6, FS_Product, Zenon
  <2> QED
    BY <1>3, <1>6, <2>1
<1>8. /\ IsFiniteSet(Uses(j)) /\ Cardinality(Uses(j)) \in Nat /\ Cardinality(Dirs(j)) \in Nat
      /\ Users(j) = Cardinality(Uses(j)) + Cardinality(Dirs(j))
  BY Counting, Zenon DEF TableInv
<1>9. Uses(j) \cap ({p} \X S) = {p} \X S
  BY <1>5, Zenon
<1>10. Cardinality(Uses(j) \ ({p} \X S)) = Cardinality(Uses(j)) - Cardinality(S)
  <2>1. Cardinality(Uses(j) \ ({p} \X S)) = Cardinality(Uses(j)) - Cardinality(Uses(j) \cap ({p} \X S))
    BY <1>8, FS_Difference, ZenonT(30)
  <2> QED
    BY <1>7, <1>9, <2>1, Zenon
<1>11. Cardinality({p} \X S) <= Cardinality(Uses(j))
  BY <1>5, <1>8, FS_Subset, Zenon
<1>12. inodes[j].reference_count >= Users(j) /\ inodes[j].reference_count \in Nat
  BY Zenon DEF TableInv, InodesOutliveTheirUsers, Types, Inode
<1>13. inodes[j].reference_count >= Cardinality(S)
  BY <1>3, <1>7, <1>8, <1>11, <1>12, SMTT(30)
<1> QED
  BY <1>3, <1>5, <1>10, <1>13, Zenon DEF S

(* proc_exit gives back a count for every use that ends.                    *)
LEMMA ExitClosed ==
  ASSUME TableInv, NEW p \in Procs, proc_exit(p), NEW j \in Inodes
  PROVE  /\ Cardinality(InodeFds(p, j)) \in Nat /\ inodes'[j] \in Inode
         /\ inodes'[j].reference_count = inodes[j].reference_count - Cardinality(InodeFds(p, j))
         /\ inodes'[j].type = "INODE_EMPTY" <=> inodes'[j].reference_count = 0
         /\ inodes'[j].type # "INODE_EMPTY" => Stays(j)
<1> DEFINE n == Cardinality(InodeFds(p, j))
<1>1. inodes \in [Inodes -> Inode]
  BY Zenon DEF TableInv, Types
<1>2. n \in Nat /\ inodes[j].reference_count >= n
  BY ExitInodes, ZenonT(30) DEF proc_exit, Calls
<1>3. inodes[j].type = "INODE_EMPTY" <=> inodes[j].reference_count = 0
  BY Zenon DEF TableInv, InodesOutliveTheirUsers
<1>4. inodes'[j] = fs_close(inodes, j, n)[j]
  BY Zenon DEF proc_exit
<1> HIDE DEF n
<1>5. /\ fs_close(inodes, j, n) \in [Inodes -> Inode]
      /\ \A i \in Inodes \ {j} : fs_close(inodes, j, n)[i] = inodes[i]
      /\ fs_close(inodes, j, n)[j].reference_count = inodes[j].reference_count - n
      /\ fs_close(inodes, j, n)[j].type = "INODE_EMPTY"
           <=> fs_close(inodes, j, n)[j].reference_count = 0
      /\ fs_close(inodes, j, n)[j].type # "INODE_EMPTY" =>
           /\ fs_close(inodes, j, n)[j].type = inodes[j].type
           /\ fs_close(inodes, j, n)[j].dnode = inodes[j].dnode
           /\ fs_close(inodes, j, n)[j].size = inodes[j].size
  BY <1>1, <1>2, <1>3, ClosedFacts, Zenon
<1>6. fs_close(inodes, j, n)[j] \in Inode
  BY <1>5, Zenon
<1> QED
  BY <1>2, <1>4, <1>5, <1>6, Zenon DEF n, Stays

(* So the counts of an exit cover the users that stay.                      *)
LEMMA ExitTable ==
  ASSUME TableInv, NEW p \in Procs, proc_exit(p)
  PROVE  TableInv'
<1>1. /\ p \in alive /\ alive' = alive \ {p}
      /\ entry' = entry /\ kind' = kind /\ size' = size
      /\ inodes' = [k \in Inodes |-> fs_close(inodes, k, Cardinality(InodeFds(p, k)))[k]]
      /\ working_directory' = [working_directory EXCEPT ![p] = None]
  BY Zenon DEF proc_exit, Calls, disk
<1>2. Types /\ inodes \in [Inodes -> Inode]
  BY Zenon DEF TableInv, Types
<1>3. ASSUME NEW j \in Inodes
      PROVE  /\ Cardinality(InodeFds(p, j)) \in Nat /\ inodes'[j] \in Inode
             /\ inodes'[j].reference_count = inodes[j].reference_count - Cardinality(InodeFds(p, j))
             /\ inodes'[j].type = "INODE_EMPTY" <=> inodes'[j].reference_count = 0
             /\ inodes'[j].type # "INODE_EMPTY" => Stays(j)
  BY ExitClosed, Zenon
<1>4. inodes' \in [Inodes -> Inode]
  <2>1. \A j \in Inodes : inodes'[j] \in Inode
    BY <1>3, Zenon
  <2>2. inodes' = [j \in Inodes |-> inodes'[j]]
    BY <1>1, Zenon
  <2> QED
    BY <2>1, <2>2, Zenon
<1>5. /\ open_files' \in [Procs -> [Fds -> File]]
      /\ \A q \in Procs \ {p} : open_files'[q] = open_files[q]
      /\ \A fd \in Fds : open_files'[p][fd].type # "FD_INODE"
  <2> DEFINE g == [fd \in Fds |-> IF open_files[p][fd].type = "FD_INODE" THEN NoFile
                                  ELSE open_files[p][fd]]
  <2>1. open_files' = [open_files EXCEPT ![p] = g]
    BY <1>2, Zenon DEF proc_exit, Types
  <2>2. NoFile \in File /\ NoFile.type # "FD_INODE"
    BY Zenon DEF NoFile, File
  <2>3. g \in [Fds -> File] /\ \A fd \in Fds : g[fd].type # "FD_INODE"
    BY <1>2, <2>2, Zenon DEF Types
  <2> HIDE DEF g
  <2> QED
    BY <1>2, <2>1, <2>3, Zenon DEF Types
<1>6. /\ working_directory' \in [Procs -> Inodes \union {None}]
      /\ \A q \in Procs \ {p} : working_directory'[q] = working_directory[q]
  BY <1>1, <1>2, ZenonT(30) DEF Types
<1>7. Types'
  BY <1>1, <1>2, <1>4, <1>5, <1>6, ZenonT(30) DEF Types
<1>8. NamesInodes'
  BY <1>1, <1>2, <1>5, <1>6, ZenonT(30) DEF NamesInodes, InUse, TableInv, Types
<1>9. ASSUME NEW j \in Inodes
      PROVE  /\ Users(j) \in Nat /\ Users(j)' \in Int
             /\ Users(j)' <= Users(j) - Cardinality(InodeFds(p, j))
  <2> DEFINE S == {p} \X InodeFds(p, j)
  <2>1. \A q \in alive, e \in Fds :
          q \in alive' /\ (e \in InodeFds(q, j))' <=> q # p /\ e \in InodeFds(q, j)
    BY <1>1, <1>2, <1>5, Zenon DEF InodeFds, Types
  <2>2. \A u \in alive \X Fds : u \in Uses(j)' <=> u \in Uses(j) /\ u[1] # p
    BY <1>1, <2>1, Zenon DEF Uses
  <2>3. Uses(j)' \subseteq alive \X Fds /\ Uses(j) \subseteq alive \X Fds
    BY <1>1, Zenon DEF Uses
  <2>4. \A u \in Uses(j) : u \in S <=> u[1] = p
    BY Zenon DEF Uses
  <2>5. Uses(j)' = Uses(j) \ S
    BY <2>2, <2>3, <2>4, Zenon
  <2>6. /\ Cardinality(Uses(j) \ S) = Cardinality(Uses(j)) - Cardinality(InodeFds(p, j))
        /\ Cardinality(InodeFds(p, j)) \in Nat
    BY <1>1, ExitInodes, ZenonT(30)
  <2>7. Dirs(j)' = Dirs(j) \ {p}
    BY <1>1, <1>2, <1>6, Zenon DEF Dirs, Types
  <2>8. /\ IsFiniteSet(Dirs(j)) /\ Cardinality(Uses(j)) \in Nat /\ Cardinality(Dirs(j)) \in Nat
        /\ Users(j) = Cardinality(Uses(j)) + Cardinality(Dirs(j))
    BY <1>2, Counting, Zenon
  <2>9. Cardinality(Dirs(j) \ {p}) =
          IF p \in Dirs(j) THEN Cardinality(Dirs(j)) - 1 ELSE Cardinality(Dirs(j))
    BY <2>8, FS_RemoveElement, ZenonT(30)
  <2>10. Users(j)' = Cardinality(Uses(j)') + Cardinality(Dirs(j)')
    BY Zenon DEF Users, Uses, Dirs
  <2> HIDE DEF S
  <2> QED
    BY <2>5, <2>6, <2>7, <2>8, <2>9, <2>10, SMTT(30)
<1>10. InodesOutliveTheirUsers'
  <2> SUFFICES ASSUME NEW j \in Inodes
               PROVE  /\ inodes'[j].reference_count >= Users(j)'
                      /\ inodes'[j].type = "INODE_EMPTY" <=> inodes'[j].reference_count = 0
    BY Zenon DEF InodesOutliveTheirUsers
  <2>1. inodes[j].reference_count >= Users(j) /\ inodes[j].reference_count \in Nat
    BY <1>2, Zenon DEF TableInv, InodesOutliveTheirUsers, Inode
  <2> QED
    BY <1>3, <1>9, <2>1
<1>11. OneInodePerDnode'
  <2>1. \A j \in Inodes : inodes'[j].type # "INODE_EMPTY" =>
          inodes'[j].type = inodes[j].type /\ inodes'[j].dnode = inodes[j].dnode
    BY <1>3, Zenon DEF Stays
  <2> QED
    BY <2>1, ZenonT(30) DEF OneInodePerDnode, TableInv
<1> QED
  BY <1>7, <1>8, <1>10, <1>11, Zenon DEF TableInv

-----------------------------------------------------------------------------
(* At boot the working directory of the first process is in use.            *)
LEMMA InitTable ==
  ASSUME Init
  PROVE  TableInv
<1>1. PICK p \in Procs :
        /\ alive = {p}
        /\ open_files = [q \in Procs |->
             IF q = p THEN StdioFiles([fd \in Fds |-> NoFile]) ELSE [fd \in Fds |-> NoFile]]
        /\ working_directory = [q \in Procs |-> IF q = p THEN MAX_INODES - 1 ELSE None]
  BY Zenon DEF Init
<1> DEFINE r == MAX_INODES - 1
<1>2. r \in Inodes
  BY FilesAssumption DEF Inodes
<1>3. /\ inodes \in [Inodes -> Inode]
      /\ inodes[r].type # "INODE_EMPTY" /\ inodes[r].reference_count = 1
      /\ \A j \in Inodes \ {r} : inodes[j].type = "INODE_EMPTY" /\ inodes[j].reference_count = 0
  <2>1. NoInode \in Inode /\ NoInode.type = "INODE_EMPTY" /\ NoInode.reference_count = 0
    BY Zenon DEF NoInode, Inode
  <2>2. [type |-> "INODE_DIRECTORY", dnode |-> "root", size |-> 0, reference_count |-> 1] \in Inode
    BY Zenon DEF Inode
  <2> QED
    BY <1>2, <2>1, <2>2, Zenon DEF Init
<1>4. /\ open_files \in [Procs -> [Fds -> File]]
      /\ \A q \in Procs, fd \in Fds : open_files[q][fd].type # "FD_INODE"
  <2>1. NoFile \in File /\ NoFile.type # "FD_INODE"
    BY Zenon DEF NoFile, File
  <2>2. \A fd \in Fds : DeviceFile("serial", fd = 0, fd # 0) \in File
                        /\ DeviceFile("serial", fd = 0, fd # 0).type # "FD_INODE"
    BY Zenon DEF DeviceFile, File
  <2>3. StdioFiles([fd \in Fds |-> NoFile]) \in [Fds -> File]
        /\ \A fd \in Fds : StdioFiles([e \in Fds |-> NoFile])[fd].type # "FD_INODE"
    BY <2>1, <2>2, Zenon DEF StdioFiles
  <2> QED
    BY <1>1, <2>1, <2>3, Zenon
<1>5. /\ working_directory \in [Procs -> Inodes \union {None}] /\ alive \subseteq Procs
      /\ working_directory[p] = r
  BY <1>1, <1>2, Zenon
<1> HIDE DEF r
<1>6. Types
  BY <1>3, <1>4, <1>5, Zenon DEF Types, Init
<1>7. NamesInodes
  BY <1>1, <1>2, <1>4, <1>5, Zenon DEF NamesInodes, InUse
<1>8. ASSUME NEW j \in Inodes PROVE Users(j) = IF j = r THEN 1 ELSE 0
  <2>1. Uses(j) = {}
    BY <1>4, <1>5, Zenon DEF Uses, InodeFds
  <2>2. Dirs(j) = IF j = r THEN {p} ELSE {}
    BY <1>1, <1>5, Zenon DEF Dirs
  <2>3. Cardinality({}) = 0 /\ Cardinality({p}) = 1
    BY FS_EmptySet, FS_Singleton, ZenonT(30)
  <2>4. Users(j) = Cardinality(Uses(j)) + Cardinality(Dirs(j))
    BY <1>6, Counting, Zenon
  <2> QED
    BY <2>1, <2>2, <2>3, <2>4
<1>9. InodesOutliveTheirUsers
  BY <1>3, <1>8 DEF InodesOutliveTheirUsers
<1>10. OneInodePerDnode
  BY <1>3, Zenon DEF OneInodePerDnode
<1> QED
  BY <1>6, <1>7, <1>9, <1>10, Zenon DEF TableInv

(* No step breaks it.                                                       *)
LEMMA TableStep ==
  ASSUME TableInv, [Next]_vars
  PROVE  TableInv'
<1>1. CASE UNCHANGED vars
  <2>1. Types'
    BY <1>1, Zenon DEF vars, disk, TableInv, Types
  <2> QED
    BY <1>1, <2>1, TableKept, Zenon DEF vars
<1>2. CASE Next
  <2>0. Types
    BY Zenon DEF TableInv
  <2>1. PICK p \in Procs :
          \/ \E path \in Paths, create, dir \in BOOLEAN :
               \/ \E mode \in Modes : file_open(p, path, create, dir, mode)
               \/ file_open_no_inode(p, path, create, dir)
          \/ \E dev \in Devices : device_open(p, dev)
          \/ \E fd \in Fds, len \in 1 .. MaxSize :
               file_write(p, fd, len) \/ file_read(p, fd, len) \/ sys_readdir(p, fd, len)
          \/ \E fd \in Fds, whence \in {"SEEK_SET", "SEEK_CUR", "SEEK_END"}, delta \in -MaxSize .. MaxSize :
               file_seek(p, fd, whence, delta)
          \/ \E fd \in Fds : sys_close(p, fd) \/ readdir_panics(p, fd)
          \/ \E path \in Names :
               fs_mkdir(p, path) \/ fs_delete(p, path) \/ \E c \in Procs : proc_exec(p, c, path)
          \/ \E path \in Paths : sys_chdir(p, path)
          \/ proc_exit(p)
    BY <1>2, Zenon DEF Next
  <2>2. ASSUME NEW path \in Paths, NEW create \in BOOLEAN, NEW dir \in BOOLEAN, NEW mode \in Modes,
               file_open(p, path, create, dir, mode)
        PROVE  TableInv'
    BY <2>2, FileOpenTable, Zenon
  <2>3. ASSUME NEW path \in Paths, NEW create \in BOOLEAN, NEW dir \in BOOLEAN,
               file_open_no_inode(p, path, create, dir)
        PROVE  TableInv'
    <3>1. PICK d \in Dnodes \union {"root"} : crowfs_open(path, create, dir, d)
      BY <2>3, Zenon DEF file_open_no_inode
    <3>2. UNCHANGED <<inodes, open_files, working_directory, alive>>
      BY <2>3, Zenon DEF file_open_no_inode
    <3> QED
      BY <2>0, <3>1, <3>2, DiskTypes, DiskOnlyTable, Zenon
  <2>4. ASSUME NEW dev \in Devices, device_open(p, dev) PROVE TableInv'
    BY <2>4, DeviceOpenTable, Zenon
  <2>5. ASSUME NEW fd \in Fds, NEW len \in 1 .. MaxSize, file_write(p, fd, len) PROVE TableInv'
    BY <2>5, WriteTable, Zenon
  <2>6. ASSUME NEW fd \in Fds, NEW len \in 1 .. MaxSize, file_read(p, fd, len) PROVE TableInv'
    <3>1. UNCHANGED <<disk, inodes, working_directory, alive>>
      BY <2>6, Zenon DEF file_read
    <3> QED
      BY <2>6, <3>1, ReadMoves, OffsetTable, Zenon
  <2>7. ASSUME NEW fd \in Fds, NEW len \in 1 .. MaxSize, sys_readdir(p, fd, len) PROVE TableInv'
    <3>1. UNCHANGED <<disk, inodes, working_directory, alive>>
      BY <2>7, Zenon DEF sys_readdir
    <3> QED
      BY <2>7, <3>1, ReaddirMoves, OffsetTable, Zenon
  <2>8. ASSUME NEW fd \in Fds, NEW whence \in {"SEEK_SET", "SEEK_CUR", "SEEK_END"},
               NEW delta \in -MaxSize .. MaxSize, file_seek(p, fd, whence, delta)
        PROVE  TableInv'
    <3>1. UNCHANGED <<disk, inodes, working_directory, alive>>
      BY <2>8, Zenon DEF file_seek
    <3> QED
      BY <2>8, <3>1, SeekMoves, OffsetTable, Zenon
  <2>9. ASSUME NEW fd \in Fds, sys_close(p, fd) PROVE TableInv'
    BY <2>9, CloseTable, Zenon
  <2>10. ASSUME NEW fd \in Fds, readdir_panics(p, fd) PROVE TableInv'
    <3>1. /\ UNCHANGED <<inodes, open_files, working_directory, alive>>
          /\ entry' = entry /\ kind' = kind /\ size' = size
      BY <2>10, Zenon DEF readdir_panics, disk
    <3> QED
      BY <2>0, <3>1, DiskOnlyTable, Zenon DEF Types
  <2>11. ASSUME NEW path \in Names, fs_mkdir(p, path) PROVE TableInv'
    <3>1. PICK d \in Dnodes : crowfs_open(path, TRUE, TRUE, d)
      BY <2>11, ZenonT(30) DEF fs_mkdir
    <3>2. UNCHANGED <<inodes, open_files, working_directory, alive>>
      BY <2>11, Zenon DEF fs_mkdir
    <3>3. path \in Paths /\ d \in Dnodes \union {"root"}
      BY Zenon DEF Paths
    <3> QED
      BY <2>0, <3>1, <3>2, <3>3, DiskTypes, DiskOnlyTable, ZenonT(30)
  <2>12. ASSUME NEW path \in Names, fs_delete(p, path) PROVE TableInv'
    <3>1. /\ UNCHANGED <<inodes, open_files, working_directory, alive>>
          /\ entry[path] # None /\ crowfs_delete(path)
      BY <2>12, Zenon DEF fs_delete
    <3> QED
      BY <2>0, <3>1, DeleteTypes, DiskOnlyTable, Zenon
  <2>13. ASSUME NEW path \in Names, NEW c \in Procs, proc_exec(p, c, path) PROVE TableInv'
    BY <2>13, ExecTable, Zenon
  <2>14. ASSUME NEW path \in Paths, sys_chdir(p, path) PROVE TableInv'
    BY <2>14, ChdirTable, Zenon
  <2>15. ASSUME proc_exit(p) PROVE TableInv'
    BY <2>15, ExitTable, Zenon
  <2> QED
    BY <2>1, <2>2, <2>3, <2>4, <2>5, <2>6, <2>7, <2>8, <2>9, <2>10, <2>11, <2>12, <2>13, <2>14, <2>15, ZenonT(30)
<1> QED
  BY <1>1, <1>2, Zenon

(* The table of inodes and its users agree in every reachable state.        *)
THEOREM TableInvariance == Spec => []TableInv
<1>1. Init => TableInv
  BY InitTable, Zenon
<1>2. TableInv /\ [Next]_vars => TableInv'
  BY TableStep, Zenon
<1> QED
  BY <1>1, <1>2, PTL DEF Spec

(* No process is left with a descriptor or a working directory whose inode  *)
(* fs_close has emptied: reference_count never falls below the number of    *)
(* users, whatever processes open, close, inherit and unlink.               *)
THEOREM InodesOutlive == Spec => []InodesOutliveTheirUsers
<1>1. TableInv => InodesOutliveTheirUsers
  BY Zenon DEF TableInv
<1> QED
  BY <1>1, TableInvariance, PTL

(* fs_open never gives one file two inodes, so its lock and its size are    *)
(* the same for every process that has it open.                             *)
THEOREM OneInode == Spec => []OneInodePerDnode
<1>1. TableInv => OneInodePerDnode
  BY Zenon DEF TableInv
<1> QED
  BY <1>1, TableInvariance, PTL
=============================================================================
