------------------------------- MODULE Files --------------------------------
(***************************************************************************)
(* Open files: the descriptors of each process (kernel/fs/syscall.c,       *)
(* kernel/fs/file.c, kernel/fs/device.c), the table of inodes they share   *)
(* (kernel/fs/fs.c), and the parts of exec and exit that hand them on.     *)
(* CrowFS, which keeps the files on the disk, is external: a flat          *)
(* directory of names, each bound to the number of a dnode.                *)
(*                                                                         *)
(* None of these calls sleeps, so each is one step.  A call that only      *)
(* returns an error changes nothing and is left out.                       *)
(***************************************************************************)
EXTENDS Integers, FiniteSets

CONSTANTS Procs,            \* the slots of the process table
          Names,            \* the names of files and directories
          Dnodes,           \* the dnodes CrowFS can give to them
          Devices,          \* the devices a program opens
          MAX_OPEN_FILES, MAX_INODES,
          MaxSize,          \* bound on the size of a file
          MaxRefs,          \* bound on reference_count
          Word,             \* 2^32, the modulus of a file offset
          Unlinks,          \* "any", or "closed": programs unlink only closed files
          None

ASSUME FilesAssumption ==
  /\ IsFiniteSet(Procs) /\ IsFiniteSet(Names)
  /\ MAX_OPEN_FILES \in Nat /\ MAX_OPEN_FILES > 3
  /\ MAX_INODES \in Nat \ {0}
  /\ MaxSize \in Nat /\ MaxRefs \in Nat /\ Word \in Nat /\ Word > 2 * MaxSize
  /\ Devices \subseteq {"serial", "serial_async", "fb"}
  /\ Unlinks \in {"any", "closed"}
  /\ None \notin Dnodes /\ "/" \notin Names /\ "root" \notin Dnodes \union {None}

VARIABLES entry,              \* CrowFS: the dnode of each name, or None
          kind, size,         \* CrowFS: what each dnode is, and its size
          inodes,             \* fs_inode_list.inodes
          open_files,         \* struct process: open_files
          working_directory,  \* struct process: working_directory
          alive,              \* the slots in use
          panic

disk == <<entry, kind, size>>
vars == <<disk, inodes, open_files, working_directory, alive, panic>>

Inodes == 0 .. MAX_INODES - 1
Fds == 0 .. MAX_OPEN_FILES - 1
Stdio == 0 .. 2    \* DEFAULT_STDIN, DEFAULT_STDOUT, DEFAULT_STDERR
NoInode == [type |-> "INODE_EMPTY", dnode |-> None, size |-> 0, reference_count |-> 0]
NoFile == [type |-> "FD_EMPTY", inode |-> None, device |-> None, offset |-> 0, readble |-> FALSE, writable |-> FALSE]
DeviceFile(dev, r, w) ==
  [type |-> "FD_DEVICE", inode |-> None, device |-> dev, offset |-> 0, readble |-> r, writable |-> w]

(* The devices table: which operations each device has.                     *)
HasRead(dev) == dev # "fb"
HasWrite(dev) == TRUE

(* The descriptors proc_exec gives to a new process; the ones above stdio   *)
(* are those its slot was left with.                                        *)
StdioFiles(old) ==
  [fd \in Fds |-> IF fd \in Stdio THEN DeviceFile("serial", fd = 0, fd # 0) ELSE old[fd]]

(* /init runs in the root directory, whose inode scheduler_init opened.     *)
Init ==
  /\ entry = [n \in Names |-> None]
  /\ kind = [d \in Dnodes |-> "free"]
  /\ size = [d \in Dnodes |-> 0]
  /\ inodes = [k \in Inodes |->
                 IF k = MAX_INODES - 1
                 THEN [type |-> "INODE_DIRECTORY", dnode |-> "root", size |-> 0, reference_count |-> 1]
                 ELSE NoInode]
  /\ \E p \in Procs :
       /\ alive = {p}
       /\ open_files = [q \in Procs |->
                          IF q = p THEN StdioFiles([fd \in Fds |-> NoFile]) ELSE [fd \in Fds |-> NoFile]]
       /\ working_directory = [q \in Procs |-> IF q = p THEN MAX_INODES - 1 ELSE None]
  /\ panic = FALSE

Calls(p) == p \in alive /\ ~panic

-----------------------------------------------------------------------------
(* CrowFS, as fs.c uses it.                                                 *)

Lookup(path) == IF path = "/" THEN "root" ELSE entry[path]
Kind(d) == IF d = "root" THEN "dir" ELSE kind[d]
Entries(d) == IF d = "root" THEN Cardinality({n \in Names : entry[n] # None}) ELSE 0
StatSize(d) == IF Kind(d) = "dir" THEN Entries(d) ELSE size[d]

(* crowfs_open_relative finds the path, or creates it if it may.            *)
crowfs_open(path, create, dir, d) ==
  \/ /\ d = Lookup(path) /\ d # None
     /\ dir => Kind(d) = "dir"
     /\ UNCHANGED disk
  \/ /\ create /\ Lookup(path) = None
     /\ d \in Dnodes /\ kind[d] = "free"
     /\ entry' = [entry EXCEPT ![path] = d]
     /\ kind' = [kind EXCEPT ![d] = IF dir THEN "dir" ELSE "file"]
     /\ size' = [size EXCEPT ![d] = 0]

crowfs_delete(path) ==
  /\ entry' = [entry EXCEPT ![path] = None]
  /\ kind' = [kind EXCEPT ![entry[path]] = "free"]
  /\ UNCHANGED size

-----------------------------------------------------------------------------
(* The inode table.                                                         *)

Holding(d) == {k \in Inodes : inodes[k].type # "INODE_EMPTY" /\ inodes[k].dnode = d}
Free == {k \in Inodes : inodes[k].type = "INODE_EMPTY"}

LastFree(k) == k \in Free /\ \A j \in Free : j <= k

AlwaysTakeFree(d, k) ==
  \/ LastFree(k)
  \/ Free = {} /\ k \in Holding(d) /\ inodes[k].reference_count < MaxRefs

(* fs_open returns the inode of a dnode that is in the table already, or    *)
(* else the last free one.                                                  *)
fs_open(d, k) ==
  \/ k \in Holding(d) /\ inodes[k].reference_count < MaxRefs
  \/ Holding(d) = {} /\ LastFree(k)

(* The table after it, with what crowfs_stat says of a new inode.           *)
Opened(d, k) ==
  IF k \in Free
  THEN [inodes EXCEPT ![k] =
          [type |-> IF Kind(d)' = "dir" THEN "INODE_DIRECTORY" ELSE "INODE_FILE",
           dnode |-> d, size |-> StatSize(d)', reference_count |-> 1]]
  ELSE [inodes EXCEPT ![k].reference_count = @ + 1]

fs_dup(k) ==
  /\ inodes[k].reference_count < MaxRefs
  /\ inodes' = [inodes EXCEPT ![k].reference_count = @ + 1]

(* The table after n calls of fs_close on the inode k.                      *)
fs_close(table, k, n) ==
  [table EXCEPT ![k] = IF n > 0 /\ table[k].reference_count = n THEN NoInode
                       ELSE [table[k] EXCEPT !.reference_count = @ - n]]

-----------------------------------------------------------------------------
(* open and close.                                                          *)

(* proc_allocate_fd                                                         *)
FirstEmpty(p, fd) ==
  /\ open_files[p][fd].type = "FD_EMPTY"
  /\ \A e \in Fds : e < fd => open_files[p][e].type # "FD_EMPTY"

file_open(p, path, create, dir, mode) ==
  /\ Calls(p)
  /\ \E fd \in Fds, d \in Dnodes \union {"root"}, k \in Inodes :
       /\ FirstEmpty(p, fd)
       /\ crowfs_open(path, create, dir, d)
       /\ fs_open(d, k) /\ inodes' = Opened(d, k)
       /\ open_files' = [open_files EXCEPT ![p][fd] =
            [type |-> "FD_INODE", inode |-> k, device |-> None, offset |-> 0,
             readble |-> mode # "O_WRONLY", writable |-> mode # "O_RDONLY"]]
  /\ UNCHANGED <<working_directory, alive, panic>>

(* Every inode is in use: open fails, but a file it created stays.          *)
file_open_no_inode(p, path, create, dir) ==
  /\ Calls(p)
  /\ \E fd \in Fds : FirstEmpty(p, fd)
  /\ \E d \in Dnodes \union {"root"} :
       /\ crowfs_open(path, create, dir, d)
       /\ Holding(d) = {} /\ Free = {}
  /\ UNCHANGED <<inodes, open_files, working_directory, alive, panic>>

device_open(p, dev) ==
  /\ Calls(p)
  /\ \E fd \in Fds :
       /\ FirstEmpty(p, fd)
       /\ open_files' = [open_files EXCEPT ![p][fd] = DeviceFile(dev, HasRead(dev), HasWrite(dev))]
  /\ UNCHANGED <<disk, inodes, working_directory, alive, panic>>

(* On a device sys_close does nothing.                                      *)
sys_close(p, fd) ==
  /\ Calls(p) /\ open_files[p][fd].type = "FD_INODE"
  /\ inodes' = fs_close(inodes, open_files[p][fd].inode, 1)
  /\ open_files' = [open_files EXCEPT ![p][fd] = NoFile]
  /\ UNCHANGED <<disk, working_directory, alive, panic>>

-----------------------------------------------------------------------------
(* read, write, lseek and readdir.                                          *)

InodeOf(p, fd) == inodes[open_files[p][fd].inode]
OfFile(p, fd) ==
  /\ open_files[p][fd].type = "FD_INODE"
  /\ InodeOf(p, fd).dnode \in Dnodes /\ kind[InodeOf(p, fd).dnode] = "file"
Larger(a, b) == IF a > b THEN a ELSE b
Smaller(a, b) == IF a < b THEN a ELSE b

WriteKeepingSize(p, fd, len) ==
  LET f == open_files[p][fd]  d == InodeOf(p, fd).dnode
  IN /\ Calls(p) /\ OfFile(p, fd) /\ f.writable
     /\ f.offset + len <= MaxSize
     /\ size' = [size EXCEPT ![d] = Larger(@, f.offset + len)]
     /\ open_files' = [open_files EXCEPT ![p][fd].offset = @ + len]
     /\ UNCHANGED <<entry, kind, inodes, working_directory, alive, panic>>

(* crowfs_write either writes everything or reports an error.               *)
file_write(p, fd, len) ==
  LET f == open_files[p][fd]  d == InodeOf(p, fd).dnode
  IN /\ Calls(p) /\ OfFile(p, fd) /\ f.writable
     /\ f.offset + len <= MaxSize
     /\ size' = [size EXCEPT ![d] = Larger(@, f.offset + len)]
     /\ inodes' = [inodes EXCEPT ![f.inode].size = Larger(@, f.offset + len)]
     /\ open_files' = [open_files EXCEPT ![p][fd].offset = @ + len]
     /\ UNCHANGED <<entry, kind, working_directory, alive, panic>>

(* crowfs_read stops at the end of the file.                                *)
file_read(p, fd, len) ==
  LET f == open_files[p][fd]  d == InodeOf(p, fd).dnode
  IN /\ Calls(p) /\ OfFile(p, fd) /\ f.readble /\ f.offset < size[d]
     /\ open_files' = [open_files EXCEPT ![p][fd].offset = Smaller(@ + len, size[d])]
     /\ UNCHANGED <<disk, inodes, working_directory, alive, panic>>

SeekTarget(whence, offset, delta, file_size) ==
  CASE whence = "SEEK_SET" -> delta % Word
    [] whence = "SEEK_CUR" -> (offset + delta) % Word
    [] whence = "SEEK_END" -> (file_size - (delta % Word)) % Word

SeekUnbounded(p, fd, whence, delta) ==
  /\ Calls(p) /\ open_files[p][fd].type = "FD_INODE"
  /\ open_files' = [open_files EXCEPT ![p][fd].offset =
                      SeekTarget(whence, @, delta, InodeOf(p, fd).size)]
  /\ UNCHANGED <<disk, inodes, working_directory, alive, panic>>

file_seek(p, fd, whence, delta) ==
  /\ Calls(p) /\ open_files[p][fd].type = "FD_INODE"
  /\ open_files' = [open_files EXCEPT ![p][fd].offset =
                      Smaller(SeekTarget(whence, @, delta, InodeOf(p, fd).size), InodeOf(p, fd).size)]
  /\ UNCHANGED <<disk, inodes, working_directory, alive, panic>>

(* n is the number of entries that fit in the buffer.                       *)
sys_readdir(p, fd, n) ==
  LET f == open_files[p][fd]  d == InodeOf(p, fd).dnode
  IN /\ Calls(p) /\ f.type = "FD_INODE"
     /\ InodeOf(p, fd).type = "INODE_DIRECTORY" /\ f.offset < Entries(d)
     /\ open_files' = [open_files EXCEPT ![p][fd].offset = Smaller(@ + n, Entries(d))]
     /\ UNCHANGED <<disk, inodes, working_directory, alive, panic>>

readdir_panics(p, fd) ==
  /\ Calls(p) /\ open_files[p][fd].type # "FD_INODE"
  /\ panic' = TRUE
  /\ UNCHANGED <<disk, inodes, open_files, working_directory, alive>>

-----------------------------------------------------------------------------
(* mkdir, unlink and chdir.  rename is not implemented and panics.          *)

fs_mkdir(p, path) ==
  /\ Calls(p)
  /\ \E d \in Dnodes : crowfs_open(path, TRUE, TRUE, d)
  /\ UNCHANGED <<inodes, open_files, working_directory, alive, panic>>

fs_delete(p, path) ==
  /\ Calls(p) /\ entry[path] # None
  /\ Unlinks = "closed" => Holding(entry[path]) = {}
  /\ crowfs_delete(path)
  /\ UNCHANGED <<inodes, open_files, working_directory, alive, panic>>

sys_chdir(p, path) ==
  /\ Calls(p)
  /\ \E d \in Dnodes \union {"root"}, k \in Inodes :
       /\ crowfs_open(path, FALSE, TRUE, d)
       /\ fs_open(d, k)
       /\ inodes' = fs_close(Opened(d, k), working_directory[p], 1)
       /\ working_directory' = [working_directory EXCEPT ![p] = k]
  /\ UNCHANGED <<open_files, alive, panic>>

-----------------------------------------------------------------------------
(* proc_exec opens the program, which takes an inode for as long as the     *)
(* call lasts, and gives the child the working directory of the parent.     *)

ExecSharingDirectory(p, c, path) ==
  /\ Calls(p) /\ c \notin alive
  /\ entry[path] # None /\ Kind(entry[path]) = "file"
  /\ Holding(entry[path]) # {} \/ Free # {}
  /\ open_files' = [open_files EXCEPT ![c] = StdioFiles(@)]
  /\ working_directory' = [working_directory EXCEPT ![c] = working_directory[p]]
  /\ alive' = alive \union {c}
  /\ UNCHANGED <<disk, inodes, panic>>

proc_exec(p, c, path) ==
  /\ Calls(p) /\ c \notin alive
  /\ entry[path] # None /\ Kind(entry[path]) = "file"
  /\ Holding(entry[path]) # {} \/ Free # {}
  /\ open_files' = [open_files EXCEPT ![c] = StdioFiles(@)]
  /\ fs_dup(working_directory[p])
  /\ working_directory' = [working_directory EXCEPT ![c] = working_directory[p]]
  /\ alive' = alive \union {c}
  /\ UNCHANGED <<disk, panic>>

InodeFds(p, k) == {fd \in Fds : open_files[p][fd].type = "FD_INODE" /\ open_files[p][fd].inode = k}

(* proc_exit closes the inodes of the descriptors.  The descriptors of      *)
(* devices stay in the slot, and so does the reference to the directory.    *)
proc_exit(p) ==
  /\ Calls(p)
  /\ inodes' = [k \in Inodes |-> fs_close(inodes, k, Cardinality(InodeFds(p, k)))[k]]
  /\ open_files' = [open_files EXCEPT ![p] =
                      [fd \in Fds |-> IF @[fd].type = "FD_INODE" THEN NoFile ELSE @[fd]]]
  /\ working_directory' = [working_directory EXCEPT ![p] = None]
  /\ alive' = alive \ {p}
  /\ UNCHANGED <<disk, panic>>

-----------------------------------------------------------------------------
Modes == {"O_RDONLY", "O_WRONLY", "O_RDWR"}
Paths == Names \union {"/"}

Next ==
  \E p \in Procs :
    \/ \E path \in Paths, create, dir \in BOOLEAN :
         \/ \E mode \in Modes : file_open(p, path, create, dir, mode)
         \/ file_open_no_inode(p, path, create, dir)
    \/ \E dev \in Devices : device_open(p, dev)
    \/ \E fd \in Fds, len \in 1 .. MaxSize :
         file_write(p, fd, len) \/ file_read(p, fd, len) \/ sys_readdir(p, fd, len)
    \/ \E fd \in Fds, whence \in {"SEEK_SET", "SEEK_CUR", "SEEK_END"}, delta \in -MaxSize .. MaxSize :
         file_seek(p, fd, whence, delta)
    \/ \E fd \in Fds : sys_close(p, fd) \/ readdir_panics(p, fd)
    \/ \E path \in Names :
         fs_mkdir(p, path) \/ fs_delete(p, path) \/ \E c \in Procs : proc_exec(p, c, path)
    \/ \E path \in Paths : sys_chdir(p, path)
    \/ proc_exit(p)

Spec == Init /\ [][Next]_vars

-----------------------------------------------------------------------------
Users(k) ==
  Cardinality({u \in alive \X Fds : u[2] \in InodeFds(u[1], k)})
    + Cardinality({p \in alive : working_directory[p] = k})

(* No process is left with a descriptor or a working directory whose inode  *)
(* fs_close has emptied: the count never falls below the number of users.   *)
InodesOutliveTheirUsers ==
  \A k \in Inodes :
    /\ inodes[k].reference_count >= Users(k)
    /\ inodes[k].type = "INODE_EMPTY" <=> inodes[k].reference_count = 0

(* A file has one inode however often and by whomever it is opened, so its  *)
(* lock and its size are the same for all of them.                          *)
OneInodePerDnode ==
  \A j, k \in Inodes :
    inodes[j].type # "INODE_EMPTY" /\ inodes[k].type # "INODE_EMPTY" /\ inodes[j].dnode = inodes[k].dnode
      => j = k

(* The size that lseek reads from the inode is the size of the file on the  *)
(* disk, whichever process wrote to it last.                                *)
SizeIsOnDisk ==
  \A k \in Inodes : inodes[k].type = "INODE_FILE" => inodes[k].size = size[inodes[k].dnode]

(* No descriptor of a file points past its end, though lseek computes       *)
(* modulo 2^32 and several processes move the end.                          *)
OffsetsWithinFile ==
  \A p \in alive, fd \in Fds :
    OfFile(p, fd) => open_files[p][fd].offset <= size[InodeOf(p, fd).dnode]

-----------------------------------------------------------------------------
(* What comments of the repository say and the code does not do.            *)

(* struct fs_inode: reference_count is "How many of file are using this     *)
(* inode", so an inode that nobody uses is free again.                      *)
ReferenceCountIsUsers == \A k \in Inodes : inodes[k].reference_count = Users(k)

(* fs_delete: "Will fail if the file/directory is open in a program."  An   *)
(* open file is never taken off the disk.                                   *)
OpenFilesExist ==
  \A k \in Inodes : inodes[k].type # "INODE_EMPTY" => Kind(inodes[k].dnode) # "free"

(* proc_exit: "Close all files".  A slot that no process uses has no file   *)
(* that the next process in it would find open.                             *)
FreeSlotsHaveNoFiles ==
  \A p \in Procs \ alive : \A fd \in Fds \ Stdio : open_files[p][fd].type = "FD_EMPTY"

(* sys_readdir "Returns the number of entries read or a negative item if    *)
(* there was an error": no call of it stops the kernel.                     *)
ReaddirReturns == ~panic
=============================================================================
