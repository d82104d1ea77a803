----------------------------- MODULE LazyState ------------------------------
(***************************************************************************)
(* The registers that the scheduler (kernel/userspace/proc.c) saves and    *)
(* loads only when the process to run is not the one that ran last: the    *)
(* FPU state (kernel/cpu/fpu.S) and the gs base, which swapgs exchanges    *)
(* with the kernel's at every entry and exit (kernel/userspace/ring3.S,    *)
(* trampoline.S); and the page table, which stays installed after the      *)
(* process has switched back.  Module Kernel has the locks of these steps; *)
(* here a pass of the scheduler over a slot is one step.                   *)
(*                                                                         *)
(* The kernel itself is compiled without SSE and leaves the FPU alone.     *)
(***************************************************************************)
EXTENDS Naturals

CONSTANTS N,         \* MAX_PROCESSES
          Values,    \* what a program computes in the FPU
          Zero,      \* the FPU state after fxrstor of a zeroed save area
          CpuLocal,  \* the address of cpu_locals[0]
          Tables,    \* the frames of the page tables of processes
          kernel_pagetable,
          NULL

ASSUME LazyAssumption ==
  /\ N \in Nat \ {0}
  /\ Zero \notin Values /\ CpuLocal # Zero /\ NULL \notin 1 .. N
  /\ kernel_pagetable \notin Tables /\ NULL \notin Tables

Slots == 1 .. N
States == {"UNUSED", "SLEEPING", "RUNNABLE", "RUNNING", "EXITED"}

VARIABLES state,                 \* struct process: state
          pagetable,             \* struct process: pagetable
          fpu_state, gs_base,    \* struct process: additional_data
          running_process, last_running_process,   \* struct cpu_local_data
          fpu,                   \* the registers of the FPU
          GS_BASE, KERNEL_GS_BASE,   \* the model specific registers
          cr3,                   \* the installed page table
          mode,                  \* "kernel", "leaving" after its last swapgs, "user",
                                 \* or "faulted" after an interrupt while leaving
          own                    \* history: what the program last had in the FPU

processes == <<state, pagetable, fpu_state, gs_base>>
registers == <<fpu, GS_BASE, KERNEL_GS_BASE, cr3>>
lazyVars == <<processes, running_process, last_running_process, registers, mode, own>>

(* cpu_local_setup has set both bases; scheduler_init has made /init.       *)
LazyInit ==
  /\ state = [s \in Slots |-> IF s = 1 THEN "RUNNABLE" ELSE "UNUSED"]
  /\ \E t \in Tables : pagetable = [s \in Slots |-> IF s = 1 THEN t ELSE NULL]
  /\ fpu_state = [s \in Slots |-> Zero] /\ gs_base = [s \in Slots |-> Zero]
  /\ running_process = NULL /\ last_running_process = NULL
  /\ fpu \in Values \union {Zero}
  /\ GS_BASE = CpuLocal /\ KERNEL_GS_BASE = CpuLocal /\ cr3 = kernel_pagetable
  /\ mode = "kernel"
  /\ own = [s \in Slots |-> Zero]

Live(s) == state[s] # "UNUSED"
FreeTables == Tables \ {pagetable[s] : s \in {s \in Slots : Live(s)}}

swapgs == GS_BASE' = KERNEL_GS_BASE /\ KERNEL_GS_BASE' = GS_BASE

LoadWithoutSave(old, new) ==
  IF new = old
  THEN UNCHANGED <<fpu_state, fpu, KERNEL_GS_BASE>>
  ELSE /\ KERNEL_GS_BASE' = gs_base[new]
       /\ UNCHANGED fpu_state
       /\ fpu' = fpu_state[new]

load_additional_data_if_needed(old, new) ==
  IF new = old
  THEN UNCHANGED <<fpu_state, fpu, KERNEL_GS_BASE>>
  ELSE /\ KERNEL_GS_BASE' = gs_base[new]
       /\ fpu_state' = IF old = NULL THEN fpu_state ELSE [fpu_state EXCEPT ![old] = fpu]
       /\ fpu' = fpu_state[new]

-----------------------------------------------------------------------------
(* The scheduler.                                                           *)

SchedulerRun(s) ==
  /\ running_process = NULL /\ state[s] = "RUNNABLE"
  /\ state' = [state EXCEPT ![s] = "RUNNING"]
  /\ load_additional_data_if_needed(last_running_process, s)
  /\ running_process' = s /\ last_running_process' = s
  /\ cr3' = pagetable[s]
  /\ UNCHANGED <<pagetable, gs_base, GS_BASE, mode, own>>

ReapInstalled(s) ==
  /\ running_process = NULL /\ state[s] = "EXITED"
  /\ UNCHANGED cr3
  /\ state' = [state EXCEPT ![s] = "UNUSED"]
  /\ pagetable' = [pagetable EXCEPT ![s] = NULL]
  /\ fpu_state' = [fpu_state EXCEPT ![s] = Zero]
  /\ gs_base' = [gs_base EXCEPT ![s] = Zero]
  /\ last_running_process' = IF last_running_process = s THEN NULL ELSE last_running_process
  /\ UNCHANGED <<running_process, fpu, GS_BASE, KERNEL_GS_BASE, mode, own>>

SchedulerReap(s) ==
  /\ running_process = NULL /\ state[s] = "EXITED"
  /\ cr3' = IF cr3 = pagetable[s] THEN kernel_pagetable ELSE cr3
  /\ state' = [state EXCEPT ![s] = "UNUSED"]
  /\ pagetable' = [pagetable EXCEPT ![s] = NULL]
  /\ fpu_state' = [fpu_state EXCEPT ![s] = Zero]
  /\ gs_base' = [gs_base EXCEPT ![s] = Zero]
  /\ last_running_process' = IF last_running_process = s THEN NULL ELSE last_running_process
  /\ UNCHANGED <<running_process, fpu, GS_BASE, KERNEL_GS_BASE, mode, own>>

(* The serial interrupt or another process wakes a sleeper.                 *)
proc_wakeup(s) ==
  /\ state[s] = "SLEEPING" /\ mode = "kernel"
  /\ state' = [state EXCEPT ![s] = "RUNNABLE"]
  /\ UNCHANGED <<pagetable, fpu_state, gs_base, running_process, last_running_process, registers, mode, own>>

-----------------------------------------------------------------------------
(* The running process.                                                     *)

(* The last swapgs of a system call, of an interrupt of the program and of  *)
(* jump_to_ring3, and the sysretq or iretq after it.                        *)
Leave ==
  /\ running_process # NULL /\ mode = "kernel"
  /\ swapgs /\ mode' = "leaving"
  /\ UNCHANGED <<processes, running_process, last_running_process, fpu, cr3, own>>

ToUser ==
  /\ mode = "leaving" /\ mode' = "user"
  /\ UNCHANGED <<processes, running_process, last_running_process, registers, own>>

(* interrupt_handler_asm finds the code segment of the kernel and swaps     *)
(* nothing: the handler runs on the gs base of the program.  Module Kernel  *)
(* says when interrupts are on here; what such a handler does is left out.  *)
InterruptWhileLeaving ==
  /\ mode = "leaving" /\ mode' = "faulted"
  /\ UNCHANGED <<processes, running_process, last_running_process, registers, own>>

Compute(v) ==
  /\ mode = "user"
  /\ fpu' = v /\ own' = [own EXCEPT ![running_process] = v]
  /\ UNCHANGED <<processes, running_process, last_running_process, GS_BASE, KERNEL_GS_BASE, cr3, mode>>

(* syscall_handler_asm, or interrupt_handler_asm under the user's code      *)
(* segment, with interrupts masked until the gs base is swapped.            *)
ToKernel ==
  /\ mode = "user"
  /\ swapgs /\ mode' = "kernel"
  /\ UNCHANGED <<processes, running_process, last_running_process, fpu, cr3, own>>

(* Sleep, yield and exit end in scheduler_switch_back; the scheduler goes   *)
(* on after its context_switch.                                             *)
scheduler_switch_back(new) ==
  /\ running_process # NULL /\ mode = "kernel"
  /\ state' = [state EXCEPT ![running_process] = new]
  /\ running_process' = NULL
  /\ UNCHANGED <<pagetable, fpu_state, gs_base, last_running_process, registers, mode, own>>

(* proc_allocate gives the slot a page table and clears its additional      *)
(* data; a call that fails later frees the table and the slot, whose fields *)
(* keep their values.                                                       *)
proc_allocate(s, new) ==
  /\ running_process # NULL /\ mode = "kernel" /\ state[s] = "UNUSED"
  /\ \E t \in FreeTables : pagetable' = [pagetable EXCEPT ![s] = t]
  /\ state' = [state EXCEPT ![s] = new]
  /\ fpu_state' = [fpu_state EXCEPT ![s] = Zero]
  /\ gs_base' = [gs_base EXCEPT ![s] = Zero]
  /\ own' = [own EXCEPT ![s] = Zero]
  /\ UNCHANGED <<running_process, last_running_process, registers, mode>>

LazyNext ==
  \/ \E s \in Slots : SchedulerRun(s) \/ SchedulerReap(s) \/ proc_wakeup(s)
  \/ \E s \in Slots, new \in {"RUNNABLE", "UNUSED"} : proc_allocate(s, new)
  \/ \E new \in {"RUNNABLE", "SLEEPING", "EXITED"} : scheduler_switch_back(new)
  \/ \E v \in Values : Compute(v)
  \/ Leave \/ ToUser \/ InterruptWhileLeaving \/ ToKernel

LazySpec == LazyInit /\ [][LazyNext]_lazyVars

-----------------------------------------------------------------------------
(* Type correctness.                                                        *)
LazyTypeOK ==
  /\ state \in [Slots -> States] /\ pagetable \in [Slots -> Tables \union {NULL}]
  /\ fpu_state \in [Slots -> Values \union {Zero}] /\ gs_base \in [Slots -> {Zero}]
  /\ running_process \in Slots \union {NULL} /\ last_running_process \in Slots \union {NULL}
  /\ fpu \in Values \union {Zero}
  /\ GS_BASE \in {CpuLocal, Zero} /\ KERNEL_GS_BASE \in {CpuLocal, Zero}
  /\ cr3 \in Tables \union {kernel_pagetable}
  /\ mode \in {"kernel", "leaving", "user", "faulted"}
  /\ own \in [Slots -> Values \union {Zero}]

(* A program finds in the FPU and in gs what it left there, or zeroes if it *)
(* is new: whoever ran in between, whichever process had its slot before,   *)
(* and although nothing is saved while the same process runs on; and the    *)
(* kernel finds its per-CPU data in gs.  Between the last swapgs and the    *)
(* return nothing is said of gs: an interrupt there has the program's.      *)
OwnRegisters ==
  /\ mode = "user" => fpu = own[running_process] /\ GS_BASE = Zero /\ KERNEL_GS_BASE = CpuLocal
  /\ mode = "kernel" => GS_BASE = CpuLocal

(* The page table the CPU uses is never one that has been freed, although   *)
(* it stays installed when its process sleeps or exits; it is the process's *)
(* own while one runs; and no two processes share a table.                  *)
InstalledTableIsLive ==
  /\ cr3 # kernel_pagetable => \E s \in Slots : Live(s) /\ pagetable[s] = cr3
  /\ running_process # NULL => cr3 = pagetable[running_process]
  /\ \A s, t \in Slots : Live(s) /\ Live(t) /\ pagetable[s] = pagetable[t] => s = t
=============================================================================
