---------------------------- MODULE FilesProofs -----------------------------
(***************************************************************************)
(* Open files and the disk, for any number of processes, names,            *)
(* descriptors and inodes: as long as programs unlink closed files only,   *)
(* the sizes in the inodes are those on the disk and no offset is past the *)
(* end of its file.                                                        *)
(***************************************************************************)
EXTENDS InodeProofs

(* A name is bound to a dnode of its own, which is a file or a directory;   *)
(* and an inode knows which of them its dnode is.                           *)
Directory ==
  /\ \A m, n \in Names : entry[m] # None /\ entry[m] = entry[n] => m = n
  /\ \A n \in Names : entry[n] # None => kind[entry[n]] # "free"
  /\ \A k \in Inodes : inodes[k].type # "INODE_EMPTY" =>
       /\ inodes[k].dnode \in Dnodes \union {"root"}
       /\ Kind(inodes[k].dnode) = IF inodes[k].type = "INODE_FILE" THEN "file" ELSE "dir"

DiskInv == TableInv /\ Directory /\ SizeIsOnDisk /\ OffsetsWithinFile

UsedInodes ==
  \A p \in Procs, fd \in Fds : open_files[p][fd].type = "FD_INODE" =>
    /\ open_files[p][fd].inode \in Inodes
    /\ inodes[open_files[p][fd].inode].type # "INODE_EMPTY"

(* The inode of every descriptor and working directory is in use.           *)
LEMMA Used == TableInv => UsedInodes
BY Named, Zenon DEF UsedInodes, InUse

(* So it is after the step.                                                 *)
LEMMA UsedNext == TableInv' => UsedInodes'
BY Used, PTL

(* What fs_open puts into the inode of d.                                   *)
LEMMA OpenedInode ==
  ASSUME TableInv, NEW d \in Dnodes \union {"root"}, NEW k \in Inodes, fs_open(d, k)
  PROVE  /\ inodes[k].type = "INODE_EMPTY" =>
              /\ Opened(d, k)[k].type = IF Kind(d)' = "dir" THEN "INODE_DIRECTORY" ELSE "INODE_FILE"
              /\ Opened(d, k)[k].size = StatSize(d)'
         /\ inodes[k].type # "INODE_EMPTY" =>
              /\ Opened(d, k)[k].type = inodes[k].type
              /\ Opened(d, k)[k].dnode = inodes[k].dnode
              /\ Opened(d, k)[k].size = inodes[k].size
<1>1. inodes \in [Inodes -> Inode] /\ inodes[k] \in Inode
  BY Zenon DEF TableInv, Types
<1>2. CASE inodes[k].type = "INODE_EMPTY"
  <2>1. k \in Free
    BY <1>2, Zenon DEF Free
  <2> QED
    BY <1>1, <1>2, <2>1, Zenon DEF Opened
<1>3. CASE inodes[k].type # "INODE_EMPTY"
  <2>1. k \notin Free
    BY <1>3, Zenon DEF Free
  <2> QED
    BY <1>1, <1>3, <2>1, Zenon DEF Opened, Inode
<1> QED
  BY <1>2, <1>3, Zenon

(* A new inode says what crowfs_stat said of its dnode.                     *)
Fresh(j) ==
  /\ inodes[j].type = "INODE_EMPTY"
  /\ \E d \in Dnodes \union {"root"} :
       /\ inodes'[j].dnode = d /\ Kind(d)' # "free"
       /\ inodes'[j].type = IF Kind(d)' = "dir" THEN "INODE_DIRECTORY" ELSE "INODE_FILE"
       /\ inodes'[j].size = StatSize(d)'

(* CrowFS binds names to dnodes of their own.                               *)
Bound ==
  /\ \A m, n \in Names : entry[m] # None /\ entry[m] = entry[n] => m = n
  /\ \A n \in Names : entry[n] # None => kind[entry[n]] # "free"

DisksAgree ==
  \A j \in Inodes : inodes[j].type # "INODE_EMPTY" /\ inodes[j].dnode \in Dnodes =>
    kind'[inodes[j].dnode] = kind[inodes[j].dnode] /\ size'[inodes[j].dnode] = size[inodes[j].dnode]

(* Inodes that stay, or are read from the disk afresh, agree with it.       *)
LEMMA InodesFollow ==
  ASSUME DiskInv, Types', Bound', DisksAgree,
         \A j \in Inodes : inodes'[j].type # "INODE_EMPTY" => Fresh(j) \/ Stays(j)
  PROVE  Directory' /\ SizeIsOnDisk'
<1>1. Types /\ Directory /\ SizeIsOnDisk
  BY Zenon DEF DiskInv, TableInv
<1>2. ASSUME NEW j \in Inodes, inodes'[j].type # "INODE_EMPTY"
      PROVE  \E d \in Dnodes \union {"root"} :
               /\ inodes'[j].dnode = d
               /\ Kind(d)' = IF inodes'[j].type = "INODE_FILE" THEN "file" ELSE "dir"
               /\ inodes'[j].type = "INODE_FILE" => inodes'[j].size = size'[d]
  <2>1. CASE Fresh(j)
    <3>1. PICK d \in Dnodes \union {"root"} :
            /\ inodes'[j].dnode = d /\ Kind(d)' # "free"
            /\ inodes'[j].type = IF Kind(d)' = "dir" THEN "INODE_DIRECTORY" ELSE "INODE_FILE"
            /\ inodes'[j].size = StatSize(d)'
      BY <2>1, Zenon DEF Fresh
    <3>2. Kind(d)' \in {"file", "dir"}
      BY <3>1, Zenon DEF Types, Kind
    <3>3. Kind(d)' = "file" => StatSize(d)' = size'[d]
      BY Zenon DEF StatSize
    <3> QED
      BY <3>1, <3>2, <3>3, Zenon
  <2>2. CASE Stays(j)
    <3>1. inodes[j].type # "INODE_EMPTY"
      BY <1>2, <2>2, Zenon DEF Stays
    <3>2. PICK d \in Dnodes \union {"root"} :
            /\ d = inodes[j].dnode
            /\ Kind(d) = IF inodes[j].type = "INODE_FILE" THEN "file" ELSE "dir"
      BY <1>1, <3>1, Zenon DEF Directory
    <3>3. d \in Dnodes => kind'[d] = kind[d] /\ size'[d] = size[d]
      BY <3>1, <3>2, Zenon DEF DisksAgree
    <3>4. Kind(d)' = Kind(d)
      BY <3>3, Zenon DEF Kind
    <3>5. inodes[j].type = "INODE_FILE" => d \in Dnodes
      BY <3>2, Zenon DEF Kind
    <3>6. inodes[j].type = "INODE_FILE" => inodes[j].size = size'[d]
      BY <1>1, <3>2, <3>3, <3>5, Zenon DEF SizeIsOnDisk
    <3> QED
      BY <2>2, <3>2, <3>4, <3>6, Zenon DEF Stays
  <2> QED
    BY <1>2, <2>1, <2>2, Zenon
<1>3. ASSUME NEW j \in Inodes, inodes'[j].type # "INODE_EMPTY"
      PROVE  /\ inodes'[j].dnode \in Dnodes \union {"root"}
             /\ (Kind(inodes[j].dnode) = IF inodes[j].type = "INODE_FILE" THEN "file" ELSE "dir")'
             /\ inodes'[j].type = "INODE_FILE" => inodes'[j].size = size'[inodes'[j].dnode]
  BY <1>2, <1>3, Zenon DEF Kind
<1> QED
  BY <1>3, Zenon DEF Directory, Bound, SizeIsOnDisk

(* Offsets that are zero or have not moved are within their files.          *)
LEMMA OffsetsFollow ==
  ASSUME DiskInv, TableInv', DisksAgree,
         \A j \in Inodes : inodes'[j].type # "INODE_EMPTY" => Fresh(j) \/ Stays(j),
         \A q \in Procs, e \in Fds : open_files'[q][e].type = "FD_INODE" =>
           \/ open_files'[q][e].offset = 0
           \/ q \in alive /\ open_files'[q][e] = open_files[q][e]
  PROVE  OffsetsWithinFile'
<1>1. /\ TableInv /\ Directory /\ OffsetsWithinFile /\ UsedInodes /\ UsedInodes'
  BY Used, UsedNext, Zenon DEF DiskInv
<1>2. Types /\ Types' /\ alive' \subseteq Procs
  BY <1>1, Zenon DEF TableInv, Types
<1> SUFFICES ASSUME NEW q \in alive', NEW e \in Fds, OfFile(q, e)'
             PROVE  open_files'[q][e].offset <= size'[inodes'[open_files'[q][e].inode].dnode]
  BY Zenon DEF OffsetsWithinFile, InodeOf
<1> DEFINE i == open_files'[q][e].inode  d == inodes'[i].dnode
<1>3. q \in Procs /\ open_files'[q][e].type = "FD_INODE" /\ d \in Dnodes /\ kind'[d] = "file"
  BY <1>2, Zenon DEF OfFile, InodeOf
<1>4. i \in Inodes /\ inodes'[i].type # "INODE_EMPTY" /\ size'[d] \in Nat
  BY <1>1, <1>2, <1>3, Zenon DEF UsedInodes, Types
<1>5. CASE open_files'[q][e].offset = 0
  BY <1>4, <1>5
<1>6. CASE q \in alive /\ open_files'[q][e] = open_files[q][e]
  <2>1. inodes[i].type # "INODE_EMPTY" /\ open_files[q][e].type = "FD_INODE"
    BY <1>1, <1>3, <1>6, ZenonT(30) DEF UsedInodes
  <2>2. inodes[i].dnode = d
    BY <1>4, <2>1, Zenon DEF Fresh, Stays
  <2>3. kind[d] = "file" /\ size'[d] = size[d]
    BY <1>3, <1>4, <2>1, <2>2, Zenon DEF DisksAgree
  <2>4. OfFile(q, e)
    BY <1>3, <1>6, <2>1, <2>2, <2>3, ZenonT(30) DEF OfFile, InodeOf
  <2> QED
    BY <1>1, <1>6, <2>2, <2>3, <2>4, ZenonT(30) DEF OffsetsWithinFile, InodeOf
<1> QED
  BY <1>3, <1>5, <1>6, Zenon

(* CrowFS finds a bound name, or binds a free dnode to a name.              *)
LEMMA OpenDisk ==
  ASSUME DiskInv, NEW path \in Paths, NEW create, NEW dir, NEW d \in Dnodes \union {"root"},
         crowfs_open(path, create, dir, d)
  PROVE  Bound' /\ DisksAgree /\ Kind(d)' # "free"
<1>1. Types /\ Directory
  BY Zenon DEF DiskInv, TableInv
<1>2. CASE d = Lookup(path) /\ d # None /\ UNCHANGED disk
  <2>1. entry' = entry /\ kind' = kind /\ size' = size
    BY <1>2, Zenon DEF disk
  <2>2. Bound'
    BY <1>1, <2>1, Zenon DEF Bound, Directory
  <2>3. DisksAgree
    BY <2>1, Zenon DEF DisksAgree
  <2>4. d # "root" => path \in Names /\ entry[path] = d
    BY <1>2, ZenonT(30) DEF Lookup, Paths
  <2>5. Kind(d)' # "free"
    BY <1>1, <1>2, <2>1, <2>4, Zenon DEF Kind, Directory
  <2> QED
    BY <2>2, <2>3, <2>5, Zenon
<1>3. CASE /\ Lookup(path) = None /\ d \in Dnodes /\ kind[d] = "free"
           /\ entry' = [entry EXCEPT ![path] = d]
           /\ kind' = [kind EXCEPT ![d] = IF dir THEN "dir" ELSE "file"]
           /\ size' = [size EXCEPT ![d] = 0]
  <2>1. path \in Names /\ d # "root" /\ d # None
    BY <1>3, FilesAssumption, Zenon DEF Lookup, Paths
  <2>2. /\ entry'[path] = d /\ \A n \in Names \ {path} : entry'[n] = entry[n]
        /\ kind'[d] # "free" /\ \A e \in Dnodes \ {d} : kind'[e] = kind[e] /\ size'[e] = size[e]
    BY <1>1, <1>3, <2>1, Zenon DEF Types
  <2>3. \A n \in Names : entry[n] # d
    BY <1>1, <1>3, <2>1, Zenon DEF Directory
  <2>4. \A n \in Names : entry[n] \in Dnodes \union {None}
    BY <1>1, Zenon DEF Types
  <2>5. Bound'
    BY <1>1, <2>1, <2>2, <2>3, <2>4 DEF Bound, Directory
  <2>6. DisksAgree
    BY <1>1, <1>3, <2>1, <2>2, Zenon DEF DisksAgree, Directory, Kind
  <2>7. Kind(d)' # "free"
    BY <2>1, <2>2, Zenon DEF Kind
  <2> QED
    BY <2>5, <2>6, <2>7, Zenon
<1> QED
  BY <1>2, <1>3, Zenon DEF crowfs_open

(* fs_delete frees a file that no inode is of.                              *)
LEMMA DeleteDisk ==
  ASSUME DiskInv, Unlinks = "closed", NEW p \in Procs, NEW path \in Names, fs_delete(p, path)
  PROVE  Bound' /\ DisksAgree
<1>1. Types /\ Directory
  BY Zenon DEF DiskInv, TableInv
<1>2. /\ entry[path] # None /\ Holding(entry[path]) = {}
      /\ entry' = [entry EXCEPT ![path] = None]
      /\ kind' = [kind EXCEPT ![entry[path]] = "free"] /\ size' = size
  BY Zenon DEF fs_delete, crowfs_delete
<1>3. entry[path] \in Dnodes
  BY <1>1, <1>2, Zenon DEF Types
<1>4. /\ entry'[path] = None /\ \A n \in Names \ {path} : entry'[n] = entry[n]
      /\ \A e \in Dnodes \ {entry[path]} : kind'[e] = kind[e]
  BY <1>1, <1>2, <1>3, Zenon DEF Types
<1>5. \A n \in Names \ {path} : entry[n] # entry[path] /\ entry[n] \in Dnodes \union {None}
  BY <1>1, <1>2, Zenon DEF Directory, Types
<1>6. Bound'
  BY <1>1, <1>4, <1>5 DEF Bound, Directory
<1>7. \A j \in Inodes : inodes[j].type # "INODE_EMPTY" => inodes[j].dnode # entry[path]
  BY <1>2, Zenon DEF Holding
<1>8. DisksAgree
  BY <1>2, <1>4, <1>7, Zenon DEF DisksAgree
<1> QED
  BY <1>6, <1>8, Zenon

InodesKnown == \A j \in Inodes : inodes'[j].type # "INODE_EMPTY" => Fresh(j) \/ Stays(j)

DescriptorsKnown ==
  \A q \in Procs, e \in Fds : open_files'[q][e].type = "FD_INODE" =>
    \/ open_files'[q][e].offset = 0
    \/ q \in alive /\ open_files'[q][e] = open_files[q][e]

(* A step that writes no file and moves no offset.                          *)
LEMMA DiskFollows ==
  ASSUME DiskInv, TableInv', Bound', DisksAgree, InodesKnown, DescriptorsKnown
  PROVE  DiskInv'
<1>1. Types'
  BY Zenon DEF TableInv
<1>2. Directory' /\ SizeIsOnDisk'
  BY <1>1, InodesFollow, Zenon DEF InodesKnown
<1>3. OffsetsWithinFile'
  BY OffsetsFollow, Zenon DEF InodesKnown, DescriptorsKnown
<1> QED
  BY <1>2, <1>3, Zenon DEF DiskInv

(* What is in use belongs to a process, so a descriptor that is left alone  *)
(* is known, and so is a disk that is left alone.                           *)
LEMMA LeftAlone ==
  ASSUME DiskInv
  PROVE  /\ Bound
         /\ \A q \in Procs, e \in Fds : open_files[q][e].type = "FD_INODE" => q \in alive
         /\ UNCHANGED disk => Bound' /\ DisksAgree
         /\ inodes' = inodes => InodesKnown
         /\ open_files' = open_files => DescriptorsKnown
<1>1. Bound
  BY Zenon DEF DiskInv, Directory, Bound
<1>2. \A q \in Procs, e \in Fds : open_files[q][e].type = "FD_INODE" => q \in alive
  BY Zenon DEF DiskInv, TableInv, NamesInodes, InUse
<1>3. UNCHANGED disk => Bound' /\ DisksAgree
  BY <1>1, Zenon DEF disk, Bound, DisksAgree
<1>4. inodes' = inodes => InodesKnown
  BY Zenon DEF InodesKnown, Stays
<1>5. open_files' = open_files => DescriptorsKnown
  BY <1>2, Zenon DEF DescriptorsKnown
<1> QED
  BY <1>1, <1>2, <1>3, <1>4, <1>5, Zenon

(* fs_open takes the size of a file from the disk.                          *)
LEMMA OpenKnown ==
  ASSUME DiskInv, NEW path \in Paths, NEW create, NEW dir, NEW d \in Dnodes \union {"root"},
         crowfs_open(path, create, dir, d), NEW k \in Inodes, fs_open(d, k)
  PROVE  /\ \A j \in Inodes \ {k} : Opened(d, k)[j] = inodes[j]
         /\ Opened(d, k)[k].dnode = d /\ Kind(d)' # "free"
         /\ inodes[k].type = "INODE_EMPTY" =>
              /\ Opened(d, k)[k].type = IF Kind(d)' = "dir" THEN "INODE_DIRECTORY" ELSE "INODE_FILE"
              /\ Opened(d, k)[k].size = StatSize(d)'
         /\ inodes[k].type # "INODE_EMPTY" =>
              /\ Opened(d, k)[k].type = inodes[k].type
              /\ Opened(d, k)[k].dnode = inodes[k].dnode
              /\ Opened(d, k)[k].size = inodes[k].size
<1>1. TableInv /\ Types
  BY Zenon DEF DiskInv, TableInv
<1>2. /\ entry' \in [Names -> Dnodes \union {None}]
      /\ kind' \in [Dnodes -> {"free", "file", "dir"}] /\ size' \in [Dnodes -> Nat]
  BY <1>1, DiskTypes, Zenon
<1>3. StatSize(d)' \in Nat
  BY <1>2, StatSizeType, Zenon
<1>4. /\ Opened(d, k) \in [Inodes -> Inode]
      /\ \A j \in Inodes \ {k} : Opened(d, k)[j] = inodes[j]
      /\ Opened(d, k)[k].type # "INODE_EMPTY" /\ Opened(d, k)[k].dnode = d
      /\ Opened(d, k)[k].reference_count = inodes[k].reference_count + 1
      /\ \A j \in Inodes \ {k} : inodes[j].type # "INODE_EMPTY" => inodes[j].dnode # d
  BY <1>1, <1>3, OpenedFacts, Zenon
<1>5. Kind(d)' # "free"
  BY OpenDisk, Zenon
<1> QED
  BY <1>1, <1>4, <1>5, OpenedInode, Zenon

(* file_open starts at offset zero.                                         *)
LEMMA FileOpenDisk ==
  ASSUME DiskInv, NEW p \in Procs, NEW path \in Paths, NEW create, NEW dir, NEW mode,
         file_open(p, path, create, dir, mode)
  PROVE  DiskInv'
<1>1. PICK fd \in Fds, d \in Dnodes \union {"root"}, k \in Inodes :
        /\ FirstEmpty(p, fd)
        /\ crowfs_open(path, create, dir, d)
        /\ fs_open(d, k) /\ inodes' = Opened(d, k)
        /\ open_files' = [open_files EXCEPT ![p][fd] =
             [type |-> "FD_INODE", inode |-> k, device |-> None, offset |-> 0,
              readble |-> mode # "O_WRONLY", writable |-> mode # "O_RDONLY"]]
  BY ZenonT(30) DEF file_open
<1>2. TableInv /\ TableInv' /\ open_files \in [Procs -> [Fds -> File]]
  BY FileOpenTable, Zenon DEF DiskInv, TableInv, Types
<1>3. Bound' /\ DisksAgree
  BY <1>1, OpenDisk, Zenon
<1>4. InodesKnown
  <2>1. /\ \A j \in Inodes \ {k} : Opened(d, k)[j] = inodes[j]
        /\ Opened(d, k)[k].dnode = d /\ Kind(d)' # "free"
        /\ inodes[k].type = "INODE_EMPTY" =>
             /\ Opened(d, k)[k].type = IF Kind(d)' = "dir" THEN "INODE_DIRECTORY" ELSE "INODE_FILE"
             /\ Opened(d, k)[k].size = StatSize(d)'
        /\ inodes[k].type # "INODE_EMPTY" =>
             /\ Opened(d, k)[k].type = inodes[k].type
             /\ Opened(d, k)[k].dnode = inodes[k].dnode
             /\ Opened(d, k)[k].size = inodes[k].size
    BY <1>1, OpenKnown, ZenonT(30)
  <2>2. inodes' = Opened(d, k)
    BY <1>1, Zenon
  <2>3. \A j \in Inodes \ {k} : Stays(j)
    BY <2>1, <2>2, Zenon DEF Stays
  <2>4. inodes[k].type = "INODE_EMPTY" => Fresh(k)
    BY <2>1, <2>2, Zenon DEF Fresh
  <2>5. inodes[k].type # "INODE_EMPTY" => Stays(k)
    BY <2>1, <2>2, Zenon DEF Stays
  <2> QED
    BY <2>3, <2>4, <2>5, Zenon DEF InodesKnown
<1>5. DescriptorsKnown
  <2>1. /\ open_files'[p][fd].offset = 0
        /\ \A q \in Procs, e \in Fds : q # p \/ e # fd => open_files'[q][e] = open_files[q][e]
    BY <1>1, <1>2, Zenon
  <2> QED
    BY <2>1, LeftAlone, Zenon DEF DescriptorsKnown
<1> QED
  BY <1>2, <1>3, <1>4, <1>5, DiskFollows, Zenon

(* sys_close.                                                               *)
LEMMA CloseDisk ==
  ASSUME DiskInv, NEW p \in Procs, NEW fd \in Fds, sys_close(p, fd)
  PROVE  DiskInv'
<1> DEFINE k == open_files[p][fd].inode
<1>1. /\ InUse(p, fd) /\ inodes' = fs_close(inodes, k, 1) /\ UNCHANGED disk
      /\ open_files' = [open_files EXCEPT ![p][fd] = NoFile]
  BY Zenon DEF sys_close, InUse
<1>2. TableInv /\ TableInv' /\ inodes \in [Inodes -> Inode] /\ open_files \in [Procs -> [Fds -> File]]
  BY CloseTable, Zenon DEF DiskInv, TableInv, Types
<1>3. k \in Inodes /\ inodes[k].reference_count \in Nat \ {0} /\ inodes[k].type # "INODE_EMPTY"
  BY <1>1, <1>2, Named, Zenon
<1>4. DescriptorsKnown
  <2>1. /\ open_files'[p][fd].type # "FD_INODE"
        /\ \A q \in Procs, e \in Fds : q # p \/ e # fd => open_files'[q][e] = open_files[q][e]
    BY <1>1, <1>2, Zenon DEF NoFile
  <2> QED
    BY <2>1, LeftAlone, Zenon DEF DescriptorsKnown
<1> HIDE DEF k
<1>5. InodesKnown
  <2>1. /\ inodes[k].reference_count >= 1 /\ 1 \in Nat
        /\ inodes[k].type = "INODE_EMPTY" <=> inodes[k].reference_count = 0
    BY <1>3
  <2>2. /\ \A j \in Inodes \ {k} : fs_close(inodes, k, 1)[j] = inodes[j]
        /\ fs_close(inodes, k, 1)[k].type # "INODE_EMPTY" =>
             /\ fs_close(inodes, k, 1)[k].type = inodes[k].type
             /\ fs_close(inodes, k, 1)[k].dnode = inodes[k].dnode
             /\ fs_close(inodes, k, 1)[k].size = inodes[k].size
    BY <1>2, <1>3, <2>1, ClosedFacts, ZenonT(30)
  <2> QED
    BY <1>1, <2>2, Zenon DEF InodesKnown, Stays
<1> QED
  BY <1>1, <1>2, <1>4, <1>5, LeftAlone, DiskFollows, Zenon

(* sys_chdir.                                                               *)
LEMMA ChdirDisk ==
  ASSUME DiskInv, NEW p \in Procs, NEW path \in Paths, sys_chdir(p, path)
  PROVE  DiskInv'
<1>1. PICK d \in Dnodes \union {"root"}, k \in Inodes :
        /\ crowfs_open(path, FALSE, TRUE, d)
        /\ fs_open(d, k)
        /\ inodes' = fs_close(Opened(d, k), working_directory[p], 1)
        /\ working_directory' = [working_directory EXCEPT ![p] = k]
  BY ZenonT(30) DEF sys_chdir
<1>2. TableInv /\ TableInv' /\ open_files' = open_files
  BY ChdirTable, ZenonT(30) DEF DiskInv, sys_chdir
<1>3. Bound' /\ DisksAgree
  BY <1>1, OpenDisk, ZenonT(30)
<1> DEFINE w == working_directory[p]
<1>4. /\ w \in Inodes /\ inodes[w].reference_count \in Nat \ {0} /\ inodes[w].type # "INODE_EMPTY"
      /\ inodes[k].reference_count \in Nat
  BY <1>2, Named, Zenon DEF sys_chdir, Calls, TableInv, Types, Inode
<1> HIDE DEF w
<1>5. PICK t \in [Inodes -> Inode] :
        /\ inodes' = fs_close(t, w, 1)
        /\ \A j \in Inodes \ {k} : t[j] = inodes[j]
        /\ t[k].dnode = d /\ Kind(d)' # "free" /\ t[k].type # "INODE_EMPTY"
        /\ t[k].reference_count = inodes[k].reference_count + 1
        /\ inodes[k].type = "INODE_EMPTY" =>
             /\ t[k].type = IF Kind(d)' = "dir" THEN "INODE_DIRECTORY" ELSE "INODE_FILE"
             /\ t[k].size = StatSize(d)'
        /\ inodes[k].type # "INODE_EMPTY" =>
             t[k].type = inodes[k].type /\ t[k].dnode = inodes[k].dnode /\ t[k].size = inodes[k].size
  <2>1. /\ \A j \in Inodes \ {k} : Opened(d, k)[j] = inodes[j]
        /\ Opened(d, k)[k].dnode = d /\ Kind(d)' # "free"
        /\ inodes[k].type = "INODE_EMPTY" =>
             /\ Opened(d, k)[k].type = IF Kind(d)' = "dir" THEN "INODE_DIRECTORY" ELSE "INODE_FILE"
             /\ Opened(d, k)[k].size = StatSize(d)'
        /\ inodes[k].type # "INODE_EMPTY" =>
             /\ Opened(d, k)[k].type = inodes[k].type
             /\ Opened(d, k)[k].dnode = inodes[k].dnode
             /\ Opened(d, k)[k].size = inodes[k].size
    BY <1>1, OpenKnown, ZenonT(30)
  <2>2. /\ entry' \in [Names -> Dnodes \union {None}] /\ size' \in [Dnodes -> Nat]
    BY <1>2, Zenon DEF TableInv, Types
  <2>3. StatSize(d)' \in Nat
    BY <2>2, StatSizeType, Zenon
  <2>4. /\ Opened(d, k) \in [Inodes -> Inode]
        /\ \A j \in Inodes \ {k} : Opened(d, k)[j] = inodes[j]
        /\ Opened(d, k)[k].type # "INODE_EMPTY" /\ Opened(d, k)[k].dnode = d
        /\ Opened(d, k)[k].reference_count = inodes[k].reference_count + 1
        /\ \A j \in Inodes \ {k} : inodes[j].type # "INODE_EMPTY" => inodes[j].dnode # d
    BY <1>1, <1>2, <2>3, OpenedFacts, Zenon
  <2>5. inodes' = fs_close(Opened(d, k), w, 1)
    BY <1>1, Zenon DEF w
  <2> QED
    BY <2>1, <2>4, <2>5, Zenon
<1>6. /\ fs_close(t, w, 1) \in [Inodes -> Inode]
      /\ \A j \in Inodes \ {w} : fs_close(t, w, 1)[j] = t[j]
      /\ fs_close(t, w, 1)[w].reference_count = t[w].reference_count - 1
      /\ fs_close(t, w, 1)[w].type = "INODE_EMPTY"
           <=> fs_close(t, w, 1)[w].reference_count = 0
      /\ fs_close(t, w, 1)[w].type # "INODE_EMPTY" =>
           /\ fs_close(t, w, 1)[w].type = t[w].type
           /\ fs_close(t, w, 1)[w].dnode = t[w].dnode
           /\ fs_close(t, w, 1)[w].size = t[w].size
  <2>1. /\ t[w].reference_count >= 1 /\ 1 \in Nat
        /\ t[w].type = "INODE_EMPTY" <=> t[w].reference_count = 0
    BY <1>4, <1>5
  <2> QED
    BY <1>4, <2>1, ClosedFacts, ZenonT(30)
<1>7. ASSUME NEW j \in Inodes, inodes'[j].type # "INODE_EMPTY"
      PROVE  inodes'[j].type = t[j].type /\ inodes'[j].dnode = t[j].dnode /\ inodes'[j].size = t[j].size
  BY <1>4, <1>5, <1>6, <1>7, Zenon
<1>8. InodesKnown
  <2> SUFFICES ASSUME NEW j \in Inodes, inodes'[j].type # "INODE_EMPTY"
               PROVE  Fresh(j) \/ Stays(j)
    BY Zenon DEF InodesKnown
  <2>1. inodes'[j].type = t[j].type /\ inodes'[j].dnode = t[j].dnode /\ inodes'[j].size = t[j].size
    BY <1>7, Zenon
  <2>2. CASE j = k /\ inodes[k].type = "INODE_EMPTY"
    BY <1>5, <2>1, <2>2, Zenon DEF Fresh
  <2>3. CASE j # k \/ inodes[k].type # "INODE_EMPTY"
    BY <1>5, <2>1, <2>3, Zenon DEF Stays
  <2> QED
    BY <2>2, <2>3, Zenon
<1> QED
  BY <1>2, <1>3, <1>8, LeftAlone, DiskFollows, Zenon

(* proc_exec: the new process has standard descriptors only.                *)
LEMMA ExecDisk ==
  ASSUME DiskInv, NEW p \in Procs, NEW c \in Procs, NEW path \in Names, proc_exec(p, c, path)
  PROVE  DiskInv'
<1> DEFINE w == working_directory[p]
<1>1. TableInv /\ TableInv' /\ UNCHANGED disk
  BY ExecTable, ZenonT(30) DEF DiskInv, proc_exec
<1>2. inodes' = [inodes EXCEPT ![w].reference_count = @ + 1] /\ inodes \in [Inodes -> Inode]
  BY <1>1, Zenon DEF proc_exec, fs_dup, TableInv, Types
<1>3. w \in Inodes
  BY <1>1, Named, Zenon DEF proc_exec, Calls
<1> HIDE DEF w
<1>4. InodesKnown
  BY <1>2, <1>3, Zenon DEF InodesKnown, Stays, Inode
<1>5. /\ c \notin alive /\ open_files \in [Procs -> [Fds -> File]]
      /\ open_files' = [open_files EXCEPT ![c] = StdioFiles(open_files[c])]
  BY <1>1, Zenon DEF proc_exec, TableInv, Types
<1>6. \A fd \in Fds : open_files[c][fd].type # "FD_INODE"
  BY <1>5, LeftAlone, Zenon
<1>7. \A fd \in Fds : StdioFiles(open_files[c])[fd].type # "FD_INODE"
  BY <1>6, Zenon DEF StdioFiles, DeviceFile
<1>8. DescriptorsKnown
  BY <1>5, <1>7, LeftAlone, Zenon DEF DescriptorsKnown
<1> QED
  BY <1>1, <1>4, <1>8, LeftAlone, DiskFollows, Zenon

(* proc_exit closes what the process had open.                              *)
LEMMA ExitDisk ==
  ASSUME DiskInv, NEW p \in Procs, proc_exit(p)
  PROVE  DiskInv'
<1>1. TableInv /\ TableInv' /\ UNCHANGED disk /\ open_files \in [Procs -> [Fds -> File]]
  BY ExitTable, ZenonT(30) DEF DiskInv, proc_exit, TableInv, Types
<1>2. InodesKnown
  BY <1>1, ExitClosed, Zenon DEF InodesKnown
<1>3. /\ \A q \in Procs \ {p} : open_files'[q] = open_files[q]
      /\ \A fd \in Fds : open_files'[p][fd].type # "FD_INODE"
  BY <1>1, Zenon DEF proc_exit, NoFile
<1>4. DescriptorsKnown
  BY <1>3, LeftAlone, Zenon DEF DescriptorsKnown
<1> QED
  BY <1>1, <1>2, <1>4, LeftAlone, DiskFollows, Zenon

(* device_open: a descriptor without a file.                                *)
LEMMA DeviceOpenDisk ==
  ASSUME DiskInv, NEW p \in Procs, NEW dev \in Devices, device_open(p, dev)
  PROVE  DiskInv'
<1>1. TableInv' /\ UNCHANGED disk /\ inodes' = inodes /\ open_files \in [Procs -> [Fds -> File]]
  BY DeviceOpenTable, ZenonT(30) DEF DiskInv, device_open, TableInv, Types
<1>2. PICK fd \in Fds :
        /\ FirstEmpty(p, fd)
        /\ open_files' = [open_files EXCEPT ![p][fd] = DeviceFile(dev, HasRead(dev), HasWrite(dev))]
  BY ZenonT(30) DEF device_open
<1>3. DeviceFile(dev, HasRead(dev), HasWrite(dev)).type # "FD_INODE"
  BY Zenon DEF DeviceFile
<1>4. /\ open_files'[p][fd].type # "FD_INODE"
      /\ \A q \in Procs, e \in Fds : q # p \/ e # fd => open_files'[q][e] = open_files[q][e]
  BY <1>1, <1>2, <1>3, Zenon
<1>5. DescriptorsKnown
  BY <1>4, LeftAlone, Zenon DEF DescriptorsKnown
<1> QED
  BY <1>1, <1>5, LeftAlone, DiskFollows, Zenon

(* What a descriptor of a file says: its inode is one of a file, and the    *)
(* size in it is the one on the disk.                                       *)
LEMMA FileInode ==
  ASSUME DiskInv, NEW p \in Procs, NEW fd \in Fds, OfFile(p, fd)
  PROVE  /\ InodeOf(p, fd).type = "INODE_FILE" /\ InodeOf(p, fd).dnode \in Dnodes
         /\ InodeOf(p, fd).size = size[InodeOf(p, fd).dnode]
<1>1. /\ open_files[p][fd].inode \in Inodes /\ InodeOf(p, fd).type # "INODE_EMPTY"
  BY Used, Zenon DEF DiskInv, UsedInodes, OfFile, InodeOf
<1>2. InodeOf(p, fd).dnode \in Dnodes /\ InodeOf(p, fd).dnode # "root" /\ kind[InodeOf(p, fd).dnode] = "file"
  BY FilesAssumption, Zenon DEF OfFile
<1>3. InodeOf(p, fd).type = "INODE_FILE"
  BY <1>1, <1>2, Zenon DEF DiskInv, Directory, Kind, InodeOf
<1> QED
  BY <1>1, <1>2, <1>3, Zenon DEF DiskInv, SizeIsOnDisk, InodeOf

(* A step that moves one offset to a place within its file.                 *)
LEMMA OffsetDisk ==
  ASSUME DiskInv, NEW p \in Procs, NEW fd \in Fds, NEW x \in Nat, Moved(p, fd, x),
         UNCHANGED <<disk, inodes, working_directory, alive>>,
         OfFile(p, fd) => x <= size[InodeOf(p, fd).dnode]
  PROVE  DiskInv'
<1>1. TableInv /\ Types /\ OffsetsWithinFile
  BY Zenon DEF DiskInv, TableInv
<1>2. TableInv'
  BY <1>1, OffsetTable, Zenon
<1>3. entry' = entry /\ kind' = kind /\ size' = size /\ inodes' = inodes /\ alive' = alive
  BY Zenon DEF disk
<1>4. Directory' /\ SizeIsOnDisk'
  BY <1>3, Zenon DEF DiskInv, Directory, SizeIsOnDisk, Kind
<1>5. /\ open_files' \in [Procs -> [Fds -> File]]
      /\ open_files'[p][fd].offset = x
      /\ \A q \in Procs, e \in Fds :
           /\ open_files'[q][e].type = open_files[q][e].type
           /\ open_files'[q][e].inode = open_files[q][e].inode
           /\ q # p \/ e # fd => open_files'[q][e] = open_files[q][e]
  BY <1>1, OffsetMoved, Zenon
<1>6. OffsetsWithinFile'
  <2> SUFFICES ASSUME NEW q \in alive, NEW e \in Fds, OfFile(q, e)'
               PROVE  (open_files[q][e].offset <= size[InodeOf(q, e).dnode])'
    BY <1>3, Zenon DEF OffsetsWithinFile
  <2>1. q \in Procs
    BY <1>1, Zenon DEF Types
  <2>2. OfFile(q, e) /\ InodeOf(q, e)' = InodeOf(q, e)
    BY <1>3, <1>5, <2>1, ZenonT(30) DEF OfFile, InodeOf
  <2>3. open_files[q][e].offset <= size[InodeOf(q, e).dnode]
    BY <1>1, <2>2, Zenon DEF OffsetsWithinFile
  <2> QED
    BY <1>3, <1>5, <2>1, <2>2, <2>3, ZenonT(30)
<1> QED
  BY <1>2, <1>4, <1>6, Zenon DEF DiskInv

(* file_read moves the offset by what was read, at most to the end.         *)
LEMMA ReadDisk ==
  ASSUME DiskInv, NEW p \in Procs, NEW fd \in Fds, NEW len \in 1 .. MaxSize, file_read(p, fd, len)
  PROVE  DiskInv'
<1>1. TableInv /\ UNCHANGED <<disk, inodes, working_directory, alive>>
  BY Zenon DEF DiskInv, file_read
<1>2. PICK x \in Nat : Moved(p, fd, x) /\ x <= size[InodeOf(p, fd).dnode]
  BY <1>1, ReadMoves, Zenon
<1> QED
  BY <1>1, <1>2, OffsetDisk, Zenon

(* file_seek refuses to go past the end.                                    *)
LEMMA SeekDisk ==
  ASSUME DiskInv, NEW p \in Procs, NEW fd \in Fds,
         NEW whence \in {"SEEK_SET", "SEEK_CUR", "SEEK_END"}, NEW delta \in -MaxSize .. MaxSize,
         file_seek(p, fd, whence, delta)
  PROVE  DiskInv'
<1>1. TableInv /\ UNCHANGED <<disk, inodes, working_directory, alive>>
  BY Zenon DEF DiskInv, file_seek
<1>2. PICK x \in Nat : Moved(p, fd, x) /\ x <= InodeOf(p, fd).size
  BY <1>1, SeekMoves, Zenon
<1>3. OfFile(p, fd) => x <= size[InodeOf(p, fd).dnode]
  BY <1>2, FileInode, Zenon
<1> QED
  BY <1>1, <1>2, <1>3, OffsetDisk, ZenonT(30)

(* sys_readdir moves the offset of a directory only.                        *)
LEMMA ReaddirDisk ==
  ASSUME DiskInv, NEW p \in Procs, NEW fd \in Fds, NEW n \in 1 .. MaxSize, sys_readdir(p, fd, n)
  PROVE  DiskInv'
<1>1. /\ TableInv /\ UNCHANGED <<disk, inodes, working_directory, alive>>
      /\ InodeOf(p, fd).type = "INODE_DIRECTORY"
  BY Zenon DEF DiskInv, sys_readdir
<1>2. PICK x \in Nat : Moved(p, fd, x)
  BY <1>1, ReaddirMoves, Zenon
<1>3. ~OfFile(p, fd)
  BY <1>1, FileInode, Zenon
<1> QED
  BY <1>1, <1>2, <1>3, OffsetDisk, Zenon

(* A write moves the end of the file in its one inode and on the disk, and  *)
(* never back, so the offsets of the other descriptors stay within it.      *)
LEMMA WrittenSizes ==
  ASSUME DiskInv, NEW p \in Procs, NEW fd \in Fds, NEW k \in Inodes, NEW d \in Dnodes, NEW x \in Nat,
         Written(p, fd, k, d, x), OfFile(p, fd)
  PROVE  /\ Directory' /\ SizeIsOnDisk'
         /\ \A e \in Dnodes : size[e] \in Nat /\ size'[e] \in Nat /\ size'[e] >= size[e]
         /\ size'[d] >= x
<1>1. Types /\ Directory /\ SizeIsOnDisk /\ OneInodePerDnode
  BY Zenon DEF DiskInv, TableInv
<1>2. /\ entry' = entry /\ kind' = kind /\ d = inodes[k].dnode /\ k = open_files[p][fd].inode
      /\ size'[d] = Larger(size[d], x) /\ inodes'[k].size = Larger(inodes[k].size, x)
      /\ inodes'[k].type = inodes[k].type /\ inodes'[k].dnode = d
  BY ZenonT(30) DEF Written
<1>3. inodes[k].type = "INODE_FILE" /\ inodes[k].size = size[d]
  BY <1>2, FileInode, ZenonT(30) DEF InodeOf
<1>4. \A j \in Inodes \ {k} : inodes'[j] = inodes[j]
  BY ZenonT(30) DEF Written
<1>5. \A e \in Dnodes \ {d} : size'[e] = size[e]
  BY ZenonT(30) DEF Written
<1>6. \A e \in Dnodes : size[e] \in Nat /\ size'[e] \in Nat
  <2>1. size' \in [Dnodes -> Nat]
    BY ZenonT(30) DEF Written
  <2> QED
    BY <1>1, <2>1, Zenon DEF Types
<1>7. size'[d] >= size[d] /\ size'[d] >= x
  <2>1. size'[d] = Larger(size[d], x)
    BY <1>2, ZenonT(30)
  <2> QED
    BY <1>6, <2>1, SMTT(30) DEF Larger
<1>8. ASSUME NEW e \in Dnodes PROVE size'[e] >= size[e]
  BY <1>5, <1>6, <1>7
<1>9. \A j \in Inodes : inodes'[j].type = inodes[j].type /\ inodes'[j].dnode = inodes[j].dnode
  BY <1>2, <1>4, ZenonT(30)
<1>10. Directory'
  BY <1>1, <1>2, <1>9, ZenonT(30) DEF Directory, Kind
<1>11. ASSUME NEW j \in Inodes, inodes'[j].type = "INODE_FILE"
       PROVE  inodes'[j].size = size'[inodes'[j].dnode]
  <2>1. CASE j = k
    BY <1>2, <1>3, <2>1, ZenonT(30)
  <2>2. CASE j # k
    <3>1. inodes[j].type = "INODE_FILE"
      BY <1>9, <1>11, ZenonT(30)
    <3>2. inodes[j].dnode # d
      BY <1>1, <1>2, <1>3, <2>2, <3>1, ZenonT(30) DEF OneInodePerDnode
    <3>3. inodes[j].dnode \in Dnodes
      BY <1>1, <3>1, Zenon DEF Directory, Kind
    <3>4. inodes[j].size = size[inodes[j].dnode]
      BY <1>1, <3>1, Zenon DEF SizeIsOnDisk
    <3> QED
      BY <1>4, <1>5, <2>2, <3>2, <3>3, <3>4, ZenonT(30)
  <2> QED
    BY <2>1, <2>2, Zenon
<1> QED
  BY <1>6, <1>7, <1>8, <1>10, <1>11, Zenon DEF SizeIsOnDisk

(* After a write every offset is within the file, its own included.         *)
LEMMA WrittenOffsets ==
  ASSUME DiskInv, NEW p \in Procs, NEW fd \in Fds, NEW k \in Inodes, NEW d \in Dnodes, NEW x \in Nat,
         Written(p, fd, k, d, x),
         \A e \in Dnodes : size[e] \in Nat /\ size'[e] \in Nat /\ size'[e] >= size[e],
         size'[d] >= x
  PROVE  OffsetsWithinFile'
<1>1. Types /\ OffsetsWithinFile /\ UsedInodes
  BY Used, Zenon DEF DiskInv, TableInv
<1>2. /\ alive' = alive /\ kind' = kind /\ k = open_files[p][fd].inode /\ Moved(p, fd, x)
      /\ inodes'[k].dnode = d
  BY ZenonT(30) DEF Written
<1>3. \A j \in Inodes : inodes'[j].dnode = inodes[j].dnode
  BY ZenonT(30) DEF Written
<1>4. /\ open_files' \in [Procs -> [Fds -> File]]
      /\ open_files'[p][fd].offset = x
      /\ \A q \in Procs, e \in Fds :
           /\ open_files'[q][e].type = open_files[q][e].type
           /\ open_files'[q][e].inode = open_files[q][e].inode
           /\ q # p \/ e # fd => open_files'[q][e] = open_files[q][e]
  BY <1>1, <1>2, OffsetMoved, Zenon
<1> SUFFICES ASSUME NEW q \in alive, NEW e \in Fds, OfFile(q, e)'
             PROVE  open_files'[q][e].offset <= size'[inodes'[open_files'[q][e].inode].dnode]
  BY <1>2, ZenonT(30) DEF OffsetsWithinFile, InodeOf
<1>5. q \in Procs
  BY <1>1, Zenon DEF Types
<1>6. PICK i \in Inodes : i = open_files[q][e].inode /\ open_files'[q][e].inode = i
  BY <1>1, <1>4, <1>5, ZenonT(30) DEF UsedInodes, OfFile
<1>7. PICK c \in Dnodes : inodes[i].dnode = c /\ inodes'[i].dnode = c /\ kind[c] = "file"
  BY <1>2, <1>3, <1>6, Zenon DEF OfFile, InodeOf
<1>8. OfFile(q, e) /\ InodeOf(q, e).dnode = c
  BY <1>4, <1>5, <1>6, <1>7, ZenonT(30) DEF OfFile, InodeOf
<1>9. open_files[q][e].offset <= size[c] /\ open_files[q][e].offset \in Nat
  BY <1>1, <1>5, <1>8, Zenon DEF OffsetsWithinFile, Types, File
<1>10. CASE q = p /\ e = fd
  <2>1. open_files'[q][e].offset = x /\ c = d
    BY <1>2, <1>4, <1>6, <1>7, <1>10, ZenonT(30)
  <2> QED
    BY <1>6, <1>7, <2>1, ZenonT(30)
<1>11. CASE q # p \/ e # fd
  <2>1. open_files'[q][e].offset = open_files[q][e].offset
    BY <1>4, <1>5, <1>11, ZenonT(30)
  <2>2. open_files'[q][e].offset <= size'[c]
    BY <1>9, <2>1
  <2> QED
    BY <1>6, <1>7, <2>2, ZenonT(30)
<1> QED
  BY <1>10, <1>11, Zenon

(* file_write enlarges the file on disk and in the inode alike.             *)
LEMMA WriteDisk ==
  ASSUME DiskInv, NEW p \in Procs, NEW fd \in Fds, NEW len \in 1 .. MaxSize, file_write(p, fd, len)
  PROVE  DiskInv'
<1>1. TableInv /\ TableInv' /\ OfFile(p, fd)
  BY WriteTable, ZenonT(30) DEF DiskInv, file_write
<1>2. PICK k \in Inodes, d \in Dnodes, x \in Nat : Written(p, fd, k, d, x)
  BY <1>1, WriteFacts, Zenon
<1>3. /\ Directory' /\ SizeIsOnDisk'
      /\ \A e \in Dnodes : size[e] \in Nat /\ size'[e] \in Nat /\ size'[e] >= size[e]
      /\ size'[d] >= x
  BY <1>1, <1>2, WrittenSizes, ZenonT(30)
<1>4. OffsetsWithinFile'
  BY <1>2, <1>3, WrittenOffsets, ZenonT(30)
<1> QED
  BY <1>1, <1>3, <1>4, ZenonT(30) DEF DiskInv

-----------------------------------------------------------------------------
(* At boot nothing is open.                                                 *)
LEMMA InitDisk ==
  ASSUME Init
  PROVE  DiskInv
<1>1. TableInv
  BY InitTable, Zenon
<1>2. /\ entry = [n \in Names |-> None]
      /\ inodes = [k \in Inodes |->
           IF k = MAX_INODES - 1
           THEN [type |-> "INODE_DIRECTORY", dnode |-> "root", size |-> 0, reference_count |-> 1]
           ELSE NoInode]
  BY Zenon DEF Init
<1>3. Directory /\ SizeIsOnDisk
  BY <1>2, Zenon DEF Directory, SizeIsOnDisk, NoInode, Kind
<1>4. \A p \in Procs, fd \in Fds : open_files[p][fd].type # "FD_INODE"
  BY DEF Init, StdioFiles, DeviceFile, NoFile
<1>5. OffsetsWithinFile
  BY <1>1, <1>4, Zenon DEF OffsetsWithinFile, OfFile, TableInv, Types
<1> QED
  BY <1>1, <1>3, <1>5, Zenon DEF DiskInv

(* No step breaks it.                                                       *)
LEMMA DiskStep ==
  ASSUME DiskInv, [Next]_vars, Unlinks = "closed"
  PROVE  DiskInv'
<1>0. TableInv /\ TableInv'
  BY TableStep, Zenon DEF DiskInv
<1>1. ASSUME UNCHANGED <<inodes, open_files>>, Bound', DisksAgree PROVE DiskInv'
  BY <1>0, <1>1, LeftAlone, DiskFollows, Zenon
<1>2. CASE UNCHANGED vars
  BY <1>1, <1>2, LeftAlone, Zenon DEF vars
<1>3. CASE Next
  <2>1. PICK p \in Procs :
          \/ \E path \in Paths, create, dir \in BOOLEAN :
               \/ \E mode \in Modes : file_open(p, path, create, dir, mode)
               \/ file_open_no_inode(p, path, create, dir)
          \/ \E dev \in Devices : device_open(p, dev)
          \/ \E fd \in Fds, len \in 1 .. MaxSize :
               file_write(p, fd, len) \/ file_read(p, fd, len) \/ sys_readdir(p, fd, len)
          \/ \E fd \in Fds, whence \in {"SEEK_SET", "SEEK_CUR", "SEEK_END"}, delta \in -MaxSize .. MaxSize :
               file_seek(p, fd, whence, delta)
          \/ \E fd \in Fds : sys_close(p, fd) \/ readdir_panics(p, fd)
          \/ \E path \in Names :
               fs_mkdir(p, path) \/ fs_delete(p, path) \/ \E c \in Procs : proc_exec(p, c, path)
          \/ \E path \in Paths : sys_chdir(p, path)
          \/ proc_exit(p)
    BY <1>3, Zenon DEF Next
  <2>2. ASSUME NEW path \in Paths, NEW create \in BOOLEAN, NEW dir \in BOOLEAN, NEW mode \in Modes,
               file_open(p, path, create, dir, mode)
        PROVE  DiskInv'
    BY <2>2, FileOpenDisk, ZenonT(30)
  <2>3. ASSUME NEW path \in Paths, NEW create \in BOOLEAN, NEW dir \in BOOLEAN,
               file_open_no_inode(p, path, create, dir)
        PROVE  DiskInv'
    <3>1. PICK d \in Dnodes \union {"root"} : crowfs_open(path, create, dir, d)
      BY <2>3, Zenon DEF file_open_no_inode
    <3>2. UNCHANGED <<inodes, open_files>>
      BY <2>3, Zenon DEF file_open_no_inode
    <3> QED
      BY <1>1, <3>1, <3>2, OpenDisk, Zenon
  <2>4. ASSUME NEW dev \in Devices, device_open(p, dev) PROVE DiskInv'
    BY <2>4, DeviceOpenDisk, ZenonT(30)
  <2>5. ASSUME NEW fd \in Fds, NEW len \in 1 .. MaxSize, file_write(p, fd, len) PROVE DiskInv'
    BY <2>5, WriteDisk, Zenon
  <2>6. ASSUME NEW fd \in Fds, NEW len \in 1 .. MaxSize, file_read(p, fd, len) PROVE DiskInv'
    BY <2>6, ReadDisk, ZenonT(30)
  <2>7. ASSUME NEW fd \in Fds, NEW len \in 1 .. MaxSize, sys_readdir(p, fd, len) PROVE DiskInv'
    BY <2>7, ReaddirDisk, Zenon
  <2>8. ASSUME NEW fd \in Fds, NEW whence \in {"SEEK_SET", "SEEK_CUR", "SEEK_END"},
               NEW delta \in -MaxSize .. MaxSize, file_seek(p, fd, whence, delta)
        PROVE  DiskInv'
    BY <2>8, SeekDisk, Zenon
  <2>9. ASSUME NEW fd \in Fds, sys_close(p, fd) PROVE DiskInv'
    BY <2>9, CloseDisk, ZenonT(30)
  <2>10. ASSUME NEW fd \in Fds, readdir_panics(p, fd) PROVE DiskInv'
    BY <1>1, <2>10, LeftAlone, Zenon DEF readdir_panics
  <2>11. ASSUME NEW path \in Names, fs_mkdir(p, path) PROVE DiskInv'
    <3>1. PICK d \in Dnodes : crowfs_open(path, TRUE, TRUE, d)
      BY <2>11, ZenonT(30) DEF fs_mkdir
    <3>2. UNCHANGED <<inodes, open_files>> /\ path \in Paths /\ d \in Dnodes \union {"root"}
      BY <2>11, ZenonT(30) DEF fs_mkdir, Paths
    <3> QED
      BY <1>1, <3>1, <3>2, OpenDisk, ZenonT(30)
  <2>12. ASSUME NEW path \in Names, fs_delete(p, path) PROVE DiskInv'
    <3>1. UNCHANGED <<inodes, open_files>>
      BY <2>12, ZenonT(30) DEF fs_delete
    <3> QED
      BY <1>1, <2>12, <3>1, DeleteDisk, Zenon
  <2>13. ASSUME NEW path \in Names, NEW c \in Procs, proc_exec(p, c, path) PROVE DiskInv'
    BY <2>13, ExecDisk, Zenon
  <2>14. ASSUME NEW path \in Paths, sys_chdir(p, path) PROVE DiskInv'
    BY <2>14, ChdirDisk, ZenonT(30)
  <2>15. ASSUME proc_exit(p) PROVE DiskInv'
    BY <2>15, ExitDisk, Zenon
  <2> QED
    BY <2>1, <2>2, <2>3, <2>4, <2>5, <2>6, <2>7, <2>8, <2>9, <2>10, <2>11, <2>12, <2>13, <2>14, <2>15, ZenonT(30)
<1> QED
  BY <1>2, <1>3, Zenon

(* As long as programs unlink closed files only, the disk and the table of  *)
(* inodes agree.                                                            *)
THEOREM DiskInvariance ==
  ASSUME Unlinks = "closed"
  PROVE  Spec => []DiskInv
<1>1. Init => DiskInv
  BY InitDisk, Zenon
<1>2. DiskInv /\ [Next]_vars => DiskInv'
  BY DiskStep, Zenon
<1> QED
  BY <1>1, <1>2, PTL DEF Spec

(* The size that lseek reads from the inode is the size of the file on the  *)
(* disk, whichever process wrote last: file_write updates both, and a file  *)
(* has one inode.                                                           *)
THEOREM SizeOnDisk ==
  ASSUME Unlinks = "closed"
  PROVE  Spec => []SizeIsOnDisk
<1>1. DiskInv => SizeIsOnDisk
  BY Zenon DEF DiskInv
<1> QED
  BY <1>1, DiskInvariance, PTL

(* No descriptor of a file points past its end: read and lseek stop there,  *)
(* whatever lseek computes modulo 2^32, and no write moves the end back.    *)
THEOREM OffsetsWithin ==
  ASSUME Unlinks = "closed"
  PROVE  Spec => []OffsetsWithinFile
<1>1. DiskInv => OffsetsWithinFile
  BY Zenon DEF DiskInv
<1> QED
  BY <1>1, DiskInvariance, PTL
=============================================================================
