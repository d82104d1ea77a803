------------------------------- MODULE Memory -------------------------------
(***************************************************************************)
(* The memory of processes (kernel/mem/vmm.c, proc_sbrk of                 *)
(* kernel/userspace/proc.c and the loading of segments in                  *)
(* kernel/userspace/exec.c): which frames the page tables of a process and *)
(* its pages take, and which of them come back.                            *)
(*                                                                         *)
(* A page table is the set of its entries.  Entry <<0, x>> maps page x;    *)
(* entry <<l, x>> with l > 0 points to the table that covers the pages     *)
(* whose number divided by PAGETABLE_PTE_COUNT^l is x.  The entries of the *)
(* kernel's half, which every root has, are kept apart: KernelEntries.     *)
(* Addresses are in bytes, a page has PAGE_SIZE of them.  Only enough      *)
(* memory is considered: module PageCache has what happens without.        *)
(***************************************************************************)
EXTENDS Naturals, FiniteSets, Sequences, Functions

CONSTANTS Procs,
          KernelHalf,            \* the entries of the kernel in every root
          KernelTables,          \* tables below the root of the kernel's page table
          PAGETABLE_PTE_COUNT, PAGE_SIZE,
          USER_STACK, INTSTACK, SYSCALLSTACK,   \* the pages of the stacks
          VA_MIN, VA_MAX,        \* the first user page, and the first behind them
          Images,                \* sets of pages that programs are loaded to
          Requests,              \* amounts that programs call sbrk with
          Scenarios,             \* the processes, the usable frames, and whether the
                                 \* processes call sbrk with negative amounts
          MaxBreak,              \* bound: the heap stays below the stacks
          NULL

ASSUME MemoryAssumption ==
  /\ KernelTables \in Nat
  /\ PAGETABLE_PTE_COUNT \in Nat \ {0, 1} /\ PAGE_SIZE \in Nat \ {0}
  /\ {USER_STACK, INTSTACK, SYSCALLSTACK, VA_MIN, VA_MAX, MaxBreak} \subseteq Nat
  /\ USER_STACK < INTSTACK /\ USER_STACK < SYSCALLSTACK
  /\ KernelHalf \subseteq Nat
  /\ \A x \in KernelHalf : VA_MAX <= x * (PAGETABLE_PTE_COUNT * PAGETABLE_PTE_COUNT * PAGETABLE_PTE_COUNT)
  \* Programs end, and their heaps grow, below the page before the stack.
  /\ \A i \in Images : i # {} /\ i \subseteq VA_MIN .. USER_STACK - 2
  /\ Requests \subseteq Nat \ {0}
  /\ Scenarios \subseteq [procs : SUBSET Procs, frames : Nat, shrinks : BOOLEAN]
  /\ MaxBreak < USER_STACK * PAGE_SIZE
  /\ NULL \notin Nat

VARIABLES freepages,       \* the free frames; their order does not matter and is kept
                           \* the one of their numbers
          pagetables,      \* the root of each process, or NULL
          ptes,            \* its entries: presence, user bit and address
          image,           \* the pages its segments were loaded to
          initial_data_segment, current_sbrk,
          panic,
          scenario         \* which of Scenarios this is

memoryVars == <<freepages, pagetables, ptes, image, initial_data_segment, current_sbrk, panic, scenario>>

Frames == 1 .. scenario.frames     \* 0 is the address in an entry never used
Stacks == {USER_STACK, INTSTACK, SYSCALLSTACK}
Unused == [present |-> FALSE, us |-> FALSE, address |-> 0]
NoEntries == [n \in {} |-> Unused]

(* What copy_pagetable copies into every root: entries that point to the    *)
(* kernel's own tables, whose frames are not usable memory.                 *)
KernelNodes == {<<3, x>> : x \in KernelHalf}
KernelEntry(n) == [present |-> TRUE, us |-> FALSE, address |-> scenario.frames + 1 + n[2]]

MemoryInit ==
  /\ scenario \in Scenarios /\ freepages = [i \in Frames |-> i]
  /\ pagetables = [p \in Procs |-> NULL] /\ ptes = [p \in Procs |-> NoEntries]
  /\ image = [p \in Procs |-> {}]
  /\ initial_data_segment = [p \in Procs |-> 0] /\ current_sbrk = [p \in Procs |-> 0]
  /\ panic = FALSE

-----------------------------------------------------------------------------
(* The entries that walk follows, and makes, for a page.                    *)
Path(page) ==
  LET n == PAGETABLE_PTE_COUNT
  IN {<<0, page>>, <<1, page \div n>>, <<2, page \div (n * n)>>, <<3, page \div (n * n * n)>>}
Paths(pages) == UNION {Path(x) : x \in pages}

Before(m, n) == m[1] < n[1] \/ (m[1] = n[1] /\ m[2] < n[2])
InOrder(nodes) ==
  [i \in 1 .. Cardinality(nodes) |->
     CHOOSE n \in nodes : Cardinality({m \in nodes : Before(m, n)}) = i - 1]

(* The entries that are new, each with a frame of its own from s.           *)
Fresh(new, s) ==
  LET order == InOrder(new)
  IN [n \in new |-> [present |-> TRUE,
                     us |-> n \notin {<<0, INTSTACK>>, <<0, SYSCALLSTACK>>},
                     address |-> s[CHOOSE i \in DOMAIN order : order[i] = n]]]

(* pages get frames, and the tables on the way to them when they have none. *)
vmm_allocate(entries, pages, s) ==
  LET new == {n \in Paths(pages) : n \in DOMAIN entries => ~entries[n].present}
      fresh == Fresh(new, s)
  IN [n \in DOMAIN entries \union new |-> IF n \in new THEN fresh[n] ELSE entries[n]]

(* How many frames that takes.                                              *)
Allocated(entries, pages) ==
  Cardinality({n \in Paths(pages) : n \in DOMAIN entries => ~entries[n].present})

Sorted(s) ==
  LET Rank(i) == Cardinality({j \in DOMAIN s : s[j] < s[i] \/ (s[j] = s[i] /\ j <= i)})
      ranked == {<<Rank(i), s[i]>> : i \in DOMAIN s}
  IN [k \in DOMAIN s |-> (CHOOSE r \in ranked : r[1] = k)[2]]

(* kfree of every frame of s.                                               *)
kfree(s, free) == Sorted(s \o free)
Drop(n) == SubSeq(freepages, n + 1, Len(freepages))
Addresses(entries, nodes) ==
  LET order == InOrder(nodes) IN [i \in DOMAIN order |-> entries[order[i]].address]

(* The test of vmm_user_pagetable_free_recursive: both ends of what an      *)
(* entry covers are behind the user's addresses, or before them.            *)
Outside(n) ==
  LET N == PAGETABLE_PTE_COUNT
      span == <<1, N, N * N, N * N * N>>[n[1] + 1]
      low == n[2] * span
      high == (n[2] + 1) * span
  IN (high >= VA_MAX /\ low >= VA_MAX) \/ (high < VA_MIN /\ low < VA_MIN)

WithKernel(entries) ==
  [n \in DOMAIN entries \union KernelNodes |->
     IF n \in KernelNodes THEN KernelEntry(n) ELSE entries[n]]

FreeKernelToo(root, entries) ==
  LET all == WithKernel(entries)
  IN Addresses(all, {n \in DOMAIN all : all[n].present /\ (n[1] # 0 \/ n[2] \in Stacks)})
     \o <<root>>

(* vmm_user_pagetable_free: the frames it gives back.  The recursion stops  *)
(* at level 0, with a table of the last level in its hands, so the frames   *)
(* of the pages are not among them, the stacks apart.                       *)
vmm_user_pagetable_free(root, entries) ==
  LET all == WithKernel(entries)
  IN Addresses(all, {n \in DOMAIN all : /\ all[n].present
                                       /\ IF n[1] = 0 THEN n[2] \in Stacks ELSE ~Outside(n)})
     \o <<root>>

(* vmm_user_pagetable_new takes the root, a frame for every table of the    *)
(* kernel that copy_pagetable copies, and the stacks; the segments of the   *)
(* program follow.                                                          *)
UserRoot == freepages[1]
UserEntries(pages) ==
  vmm_allocate(NoEntries, pages \union Stacks, Drop(1 + KernelTables))
UserFrames(pages) == 1 + KernelTables + Allocated(NoEntries, pages \union Stacks)

proc_exec(p, pages) ==
  /\ pagetables[p] = NULL /\ UserFrames(pages) <= Len(freepages)
  /\ freepages' = Drop(UserFrames(pages))
  /\ pagetables' = [pagetables EXCEPT ![p] = UserRoot]
  /\ ptes' = [ptes EXCEPT ![p] = UserEntries(pages)]
  /\ image' = [image EXCEPT ![p] = pages]
  /\ LET top == (1 + CHOOSE x \in pages : \A y \in pages : y <= x) * PAGE_SIZE
     IN /\ initial_data_segment' = [initial_data_segment EXCEPT ![p] = top]
        /\ current_sbrk' = [current_sbrk EXCEPT ![p] = top]
  /\ UNCHANGED panic

(* proc_exec, when a segment cannot be read: goto bad.                      *)
proc_exec_fails(p, pages) ==
  /\ pagetables[p] = NULL /\ UserFrames(pages) <= Len(freepages)
  /\ freepages' = kfree(vmm_user_pagetable_free(UserRoot, UserEntries(pages)),
                        Drop(UserFrames(pages)))
  /\ UNCHANGED <<pagetables, ptes, image, initial_data_segment, current_sbrk, panic>>

(* The scheduler reaps an exited process.  That vmm_user_pagetable_free     *)
(* finds the stacks is part of BreakIsMapped.                               *)
Reap(p) ==
  /\ pagetables[p] # NULL
  /\ freepages' = kfree(vmm_user_pagetable_free(pagetables[p], ptes[p]), freepages)
  /\ pagetables' = [pagetables EXCEPT ![p] = NULL]
  /\ ptes' = [ptes EXCEPT ![p] = NoEntries]
  /\ image' = [image EXCEPT ![p] = {}]
  /\ initial_data_segment' = [initial_data_segment EXCEPT ![p] = 0]
  /\ current_sbrk' = [current_sbrk EXCEPT ![p] = 0]
  /\ UNCHANGED panic

-----------------------------------------------------------------------------
RoundUp(a) == (a + PAGE_SIZE - 1) \div PAGE_SIZE
RoundDown(a) == a \div PAGE_SIZE

Present(p, x) == <<0, x>> \in DOMAIN ptes[p] /\ ptes[p][<<0, x>>].present

(* The frame of a page, 0 if it is not mapped or of the other mode.         *)
vmm_walkaddr(p, x, user) ==
  IF Present(p, x) /\ ptes[p][<<0, x>>].us = user THEN ptes[p][<<0, x>>].address ELSE 0

OnePageMore(old, new) == {x \in RoundUp(old) .. MaxBreak : x * PAGE_SIZE <= new}

PageOfBreakThere(old, new) == {x \in RoundDown(old) + 1 .. MaxBreak : x * PAGE_SIZE < new}

(* The pages that vmm_user_sbrk_allocate adds.                              *)
Added(old, new) == {x \in RoundUp(old) .. MaxBreak : x * PAGE_SIZE < new}

(* proc_sbrk with a positive amount.                                        *)
proc_sbrk(p, delta) ==
  LET new == current_sbrk[p] + delta
      pages == Added(current_sbrk[p], new)
      needed == Allocated(ptes[p], pages)
  IN /\ pagetables[p] # NULL /\ new <= MaxBreak /\ needed <= Len(freepages)
     /\ \A x \in pages : ~Present(p, x)
     /\ freepages' = Drop(needed)
     /\ ptes' = [ptes EXCEPT ![p] = vmm_allocate(@, pages, freepages)]
     /\ current_sbrk' = [current_sbrk EXCEPT ![p] = new]
     /\ UNCHANGED <<pagetables, image, initial_data_segment, panic>>

(* vmm_allocate finds one of the pages there already.                       *)
proc_sbrk_remaps(p, delta) ==
  /\ pagetables[p] # NULL /\ current_sbrk[p] + delta <= MaxBreak
  /\ \E x \in Added(current_sbrk[p], current_sbrk[p] + delta) : Present(p, x)
  /\ panic' = TRUE
  /\ UNCHANGED <<freepages, pagetables, ptes, image, initial_data_segment, current_sbrk>>

(* proc_sbrk with a negative amount: the new break, and the pages that      *)
(* vmm_user_sbrk_deallocate gives back.  A difference below zero wraps      *)
(* around to an address behind every segment.                               *)
Break(p, delta) ==
  IF delta > current_sbrk[p] \/ initial_data_segment[p] + delta <= current_sbrk[p]
  THEN initial_data_segment[p] ELSE current_sbrk[p] - delta

Removed(old, new) == {x \in 0 .. RoundDown(old) : x * PAGE_SIZE > new}

proc_sbrk_shrinks(p, delta) ==
  LET new == Break(p, delta)
      gone == {<<0, x>> : x \in Removed(current_sbrk[p], new)}
      entry(n) == IF n \in DOMAIN ptes[p] THEN [ptes[p][n] EXCEPT !.present = FALSE]
                  ELSE Unused
      entries == [n \in DOMAIN ptes[p] \union gone |->
                    IF n \in gone THEN entry(n) ELSE ptes[p][n]]
  IN /\ scenario.shrinks /\ pagetables[p] # NULL
     /\ \A n \in gone : n[2] >= VA_MIN /\ <<1, n[2] \div PAGETABLE_PTE_COUNT>> \in DOMAIN ptes[p]
     /\ freepages' = kfree(Addresses(entries, gone), freepages)
     /\ ptes' = [ptes EXCEPT ![p] = entries]
     /\ current_sbrk' = [current_sbrk EXCEPT ![p] = new]
     /\ UNCHANGED <<pagetables, image, initial_data_segment, panic>>

(* walk panics below VA_MIN, and the loop where there is no table.          *)
proc_sbrk_misses(p, delta) ==
  /\ scenario.shrinks /\ pagetables[p] # NULL
  /\ \E x \in Removed(current_sbrk[p], Break(p, delta)) :
       x < VA_MIN \/ <<1, x \div PAGETABLE_PTE_COUNT>> \notin DOMAIN ptes[p]
  /\ panic' = TRUE
  /\ UNCHANGED <<freepages, pagetables, ptes, image, initial_data_segment, current_sbrk>>

Started == {p \in Procs : pagetables[p] # NULL}
Entries(p) == {n \in DOMAIN ptes[p] : ptes[p][n].present}

(* Every frame is used for one thing at most, and only usable memory is     *)
(* free: neither the tables of the kernel nor frame 0.                      *)
NoFrameShared ==
  /\ freepages \in Seq(Frames)
  /\ Cardinality(Range(freepages)) = Len(freepages)
  /\ \A p \in Started :
       /\ pagetables[p] \notin Range(freepages)
       /\ \A q \in Started \ {p} : pagetables[p] # pagetables[q]
       /\ \A n \in Entries(p) :
            /\ ptes[p][n].address \notin Range(freepages)
            /\ \A q \in Started :
                 /\ ptes[p][n].address # pagetables[q]
                 /\ \A m \in Entries(q) :
                      ptes[p][n].address = ptes[q][m].address => p = q /\ m = n

(* Once a frame has two uses, what one of them writes there is read as the  *)
(* other, and once other memory is taken for free it is written to:         *)
(* anything may follow, and the model stops.                                *)
Corrupted == ~NoFrameShared

MemoryNext ==
  /\ ~(panic \/ Corrupted)
  /\ UNCHANGED scenario
  /\ \E p \in scenario.procs :
       \/ \E pages \in Images : proc_exec(p, pages) \/ proc_exec_fails(p, pages)
       \/ Reap(p)
       \/ \E delta \in Requests :
            \/ proc_sbrk(p, delta) \/ proc_sbrk_remaps(p, delta)
            \/ proc_sbrk_shrinks(p, delta) \/ proc_sbrk_misses(p, delta)

MemorySpec == MemoryInit /\ [][MemoryNext]_memoryVars

-----------------------------------------------------------------------------
(* As long as programs do not give memory back, no frame is used for two    *)
(* things: as two roots, two tables or pages of any two processes, or while *)
(* it is on the list of free frames; and exec and exit never put a table of *)
(* the kernel on that list, although every root points to them.             *)
FrameHasOneUse == ~scenario.shrinks => NoFrameShared

(* Such a process has exactly its image, its stacks and the pages below its *)
(* break, and the tables that lead to them: sbrk maps what it returned, and *)
(* maps no page twice over the calls that share it.                         *)
HeapMatchesBreak ==
  ~scenario.shrinks => \A p \in Started :
    Entries(p) = Paths(image[p] \union Stacks \union
                       {x \in 0 .. MaxBreak : /\ initial_data_segment[p] <= x * PAGE_SIZE
                                             /\ x * PAGE_SIZE < current_sbrk[p]})

(* Memory between the end of the program and its break is mapped for the    *)
(* user, however the calls of proc_sbrk moved the break up, down and below  *)
(* the program; and vmm_user_pagetable_free finds the three stacks, so its  *)
(* panics are not reached.  This says nothing of what follows a frame with  *)
(* two uses, which negative amounts lead to.                                *)
BreakIsMapped ==
  \A p \in Started :
    /\ vmm_walkaddr(p, USER_STACK, TRUE) # 0
    /\ vmm_walkaddr(p, INTSTACK, FALSE) # 0 /\ vmm_walkaddr(p, SYSCALLSTACK, FALSE) # 0
    /\ \A x \in 0 .. MaxBreak :
         initial_data_segment[p] <= x * PAGE_SIZE /\ x * PAGE_SIZE < current_sbrk[p]
           => vmm_walkaddr(p, x, TRUE) # 0

(* The comment on vmm_user_pagetable_free_recursive says that at level 0    *)
(* "it's the data frame which the virtual address resolves to" that is      *)
(* freed: without a process, all memory is free.                            *)
AllPagesFreed == Started = {} => Range(freepages) = Frames

(* copy_pagetable is to "Deep copy the pagetable (and not the frames) to    *)
(* another pagetable": the frames it takes become part of the copy, and no  *)
(* frame is out of reach of both the free list and the processes.           *)
CopiesInUse ==
  Frames = Range(freepages) \union {pagetables[p] : p \in Started}
           \union UNION {{ptes[p][n].address : n \in Entries(p)} : p \in Started}

(* proc_sbrk says of negative amounts "Do not deallocate memory which is    *)
(* not allocated with sbrk": the segments of the program stay.              *)
SbrkKeepsImage == \A p \in Started : \A x \in image[p] : Present(p, x)
=============================================================================
