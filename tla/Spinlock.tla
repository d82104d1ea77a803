------------------------------ MODULE Spinlock ------------------------------
(***************************************************************************)
(* The spinlock of kernel/common/spinlock.c, one shared-memory access per  *)
(* step, on any number of CPUs.  A lock is a test-and-set word and the id  *)
(* of the CPU that holds it; taking one masks the interrupts of the CPU,   *)
(* and the per-CPU interrupt_enable_stack (kernel/cpu/smp.h) remembers     *)
(* whether they were on when the first lock was taken.                     *)
(*                                                                         *)
(* The code that uses the locks is any code that releases only what its    *)
(* CPU holds: kernel threads, and the interrupt handlers that may start    *)
(* whenever the CPU's interrupts are enabled.                              *)
(***************************************************************************)
EXTENDS Naturals, FiniteSets

CONSTANTS CPUs,     \* ids of the cores: next_cpuid counts from zero
          Locks     \* the locks of the kernel

ASSUME CPUsAssumption == CPUs \subseteq Nat
ASSUME LocksAssumption == IsFiniteSet(Locks)

VARIABLES locked,       \* struct spinlock: the test-and-set word
          holding_cpu,  \* struct spinlock: its holder (0 also when nobody holds it)
          if_flag,      \* the interrupt flag of each CPU
          depth,        \* interrupt_enable_stack.depth
          was_enabled,  \* interrupt_enable_stack.was_enabled
          pc,           \* where each CPU is in spinlock_lock/spinlock_unlock
          op,           \* the lock that call is about
          held,         \* the locks for which spinlock_lock has returned
          in_irq        \* an interrupt handler is running on the CPU

memory == <<locked, holding_cpu>>
cpu_local == <<if_flag, depth, was_enabled>>
vars == <<memory, cpu_local, pc, op, held, in_irq>>

Locking == {"check_locked", "check_cpu", "tas", "own"}
Unlocking == {"ucheck_locked", "ucheck_cpu", "disown", "release", "restore"}
Panics == {"deadlock", "not_holding"}    \* the CPU goes no further

Init ==
  /\ locked = [l \in Locks |-> 0]
  /\ holding_cpu = [l \in Locks |-> 0]
  /\ if_flag = [c \in CPUs |-> FALSE]
  /\ depth = [c \in CPUs |-> 0]
  /\ was_enabled = [c \in CPUs |-> FALSE]
  /\ pc = [c \in CPUs |-> "idle"]
  /\ op \in [CPUs -> Locks]
  /\ held = [c \in CPUs |-> {}]
  /\ in_irq = [c \in CPUs |-> FALSE]

-----------------------------------------------------------------------------
Step(c, from, to) == pc[c] = from /\ pc' = [pc EXCEPT ![c] = to]

(* Per-CPU data only; after its cli nothing can interrupt it. *)
save_and_disable_interrupts(c) ==
  /\ was_enabled' = [was_enabled EXCEPT ![c] = IF depth[c] = 0 THEN if_flag[c] ELSE @]
  /\ if_flag' = [if_flag EXCEPT ![c] = FALSE]
  /\ depth' = [depth EXCEPT ![c] = @ + 1]

restore_at_every_unlock(c) ==
  /\ depth' = [depth EXCEPT ![c] = @ - 1]
  /\ if_flag' = [if_flag EXCEPT ![c] = @ \/ was_enabled[c]]
  /\ UNCHANGED was_enabled

restore_interrupts(c) ==
  /\ depth' = [depth EXCEPT ![c] = @ - 1]
  /\ if_flag' = [if_flag EXCEPT ![c] = @ \/ (depth[c] = 1 /\ was_enabled[c])]
  /\ UNCHANGED was_enabled

spinlock_lock(c, l) ==
  /\ Step(c, "idle", "check_locked")
  /\ op' = [op EXCEPT ![c] = l]
  /\ save_and_disable_interrupts(c)
  /\ UNCHANGED <<memory, held, in_irq>>

(* this_cpu_holding_lock reads the two words one after the other; its own   *)
(* save/restore of the interrupts is nested in the caller's and changes     *)
(* nothing.  yes and no are where the caller goes on.                       *)
this_cpu_holding_lock(c, locked_at, cpu_at, yes, no) ==
  /\ \/ locked[op[c]] = 1 /\ Step(c, locked_at, cpu_at)
     \/ locked[op[c]] = 0 /\ Step(c, locked_at, no)
     \/ holding_cpu[op[c]] = c /\ Step(c, cpu_at, yes)
     \/ holding_cpu[op[c]] # c /\ Step(c, cpu_at, no)
  /\ UNCHANGED <<memory, cpu_local, op, held, in_irq>>

CheckLock(c) == this_cpu_holding_lock(c, "check_locked", "check_cpu", "deadlock", "tas")

test_then_set(c) ==
  /\ Step(c, "tas", "own")
  /\ locked' = [locked EXCEPT ![op[c]] = 1]
  /\ UNCHANGED <<holding_cpu, cpu_local, op, held, in_irq>>

(* The successful exchange that leaves the loop of spinlock_lock. *)
test_and_set(c) ==
  /\ locked[op[c]] = 0
  /\ Step(c, "tas", "own")
  /\ locked' = [locked EXCEPT ![op[c]] = 1]
  /\ UNCHANGED <<holding_cpu, cpu_local, op, held, in_irq>>

TakeOwnership(c) ==
  /\ Step(c, "own", "idle")
  /\ holding_cpu' = [holding_cpu EXCEPT ![op[c]] = c]
  /\ held' = [held EXCEPT ![c] = @ \union {op[c]}]
  /\ UNCHANGED <<locked, cpu_local, op, in_irq>>

spinlock_unlock(c, l) ==
  /\ l \in held[c]
  /\ Step(c, "idle", "ucheck_locked")
  /\ op' = [op EXCEPT ![c] = l]
  /\ held' = [held EXCEPT ![c] = @ \ {l}]
  /\ UNCHANGED <<memory, cpu_local, in_irq>>

CheckUnlock(c) ==
  this_cpu_holding_lock(c, "ucheck_locked", "ucheck_cpu", "disown", "not_holding")

release_before_disown(c) ==
  /\ Step(c, "disown", "release")
  /\ locked' = [locked EXCEPT ![op[c]] = 0]
  /\ UNCHANGED <<holding_cpu, cpu_local, op, held, in_irq>>

keep_owner(c) ==
  /\ Step(c, "disown", "release")
  /\ UNCHANGED <<memory, cpu_local, op, held, in_irq>>

ClearOwner(c) ==
  /\ Step(c, "disown", "release")
  /\ holding_cpu' = [holding_cpu EXCEPT ![op[c]] = 0]
  /\ UNCHANGED <<locked, cpu_local, op, held, in_irq>>

Release(c) ==
  /\ Step(c, "release", "restore")
  /\ locked' = [locked EXCEPT ![op[c]] = 0]
  /\ UNCHANGED <<holding_cpu, cpu_local, op, held, in_irq>>

Restore(c) ==
  /\ Step(c, "restore", "idle")
  /\ restore_interrupts(c)
  /\ UNCHANGED <<memory, op, held, in_irq>>

-----------------------------------------------------------------------------
(* Code outside spinlock.c that moves the interrupt flag: the sti of the   *)
(* scheduler loop, taken with no lock held; the entry of an interrupt      *)
(* through its gate, and the iretq with which the handler ends.            *)
Sti(c) ==
  /\ pc[c] = "idle" /\ held[c] = {} /\ ~in_irq[c]
  /\ if_flag' = [if_flag EXCEPT ![c] = TRUE]
  /\ UNCHANGED <<memory, depth, was_enabled, pc, op, held, in_irq>>

IrqEnter(c) ==
  /\ if_flag[c] /\ pc[c] = "idle"
  /\ if_flag' = [if_flag EXCEPT ![c] = FALSE]
  /\ in_irq' = [in_irq EXCEPT ![c] = TRUE]
  /\ UNCHANGED <<memory, depth, was_enabled, pc, op, held>>

IrqReturn(c) ==
  /\ in_irq[c] /\ pc[c] = "idle" /\ held[c] = {}
  /\ if_flag' = [if_flag EXCEPT ![c] = TRUE]
  /\ in_irq' = [in_irq EXCEPT ![c] = FALSE]
  /\ UNCHANGED <<memory, depth, was_enabled, pc, op, held>>

Next ==
  \E c \in CPUs :
    \/ \E l \in Locks : spinlock_lock(c, l) \/ spinlock_unlock(c, l)
    \/ CheckLock(c) \/ test_and_set(c) \/ TakeOwnership(c)
    \/ CheckUnlock(c) \/ ClearOwner(c) \/ Release(c) \/ Restore(c)
    \/ Sti(c) \/ IrqEnter(c) \/ IrqReturn(c)

Spec == Init /\ [][Next]_vars

-----------------------------------------------------------------------------
(* Type correctness: the depth of the interrupt stack never underflows in  *)
(* restore_interrupts.                                                     *)
TypeOK ==
  /\ locked \in [Locks -> {0, 1}]
  /\ holding_cpu \in [Locks -> CPUs \union {0}]
  /\ if_flag \in [CPUs -> BOOLEAN]
  /\ depth \in [CPUs -> Nat]
  /\ was_enabled \in [CPUs -> BOOLEAN]
  /\ pc \in [CPUs -> {"idle"} \union Locking \union Unlocking \union Panics]
  /\ op \in [CPUs -> Locks]
  /\ held \in [CPUs -> SUBSET Locks]
  /\ in_irq \in [CPUs -> BOOLEAN]

(* CPU c has won the test-and-set of l and has not yet released it. *)
Owns(c, l) ==
  \/ l \in held[c]
  \/ op[c] = l /\ pc[c] \in {"own", "ucheck_locked", "ucheck_cpu", "disown", "release"}

(* No lock is owned by two CPUs, whatever the interleaving of their reads  *)
(* and writes of the lock's two words.                                     *)
MutualExclusion ==
  \A c, d \in CPUs, l \in Locks : Owns(c, l) /\ Owns(d, l) => c = d

(* While a CPU accepts interrupts, it holds no lock at all: a handler that *)
(* takes a lock cannot meet one that the code it interrupted holds, and    *)
(* the panic("deadlock") of spinlock_lock cannot be its doing.             *)
InterruptsMaskedWhileHolding ==
  \A c \in CPUs : if_flag[c] => depth[c] = 0 /\ \A l \in Locks : ~Owns(c, l)

(* The nesting depth counts exactly the locks the CPU holds or is taking,  *)
(* so the interrupts come back with the last unlock and not before.        *)
DepthCountsLocks ==
  \A c \in CPUs :
    ~(pc[c] \in Panics) =>
      depth[c] = Cardinality(held[c]) + (IF pc[c] = "idle" THEN 0 ELSE 1)

(* spinlock_unlock of a lock the CPU holds never panics with "cpu not      *)
(* holding lock", though holding_cpu is written after the test-and-set.    *)
UnlockNeverPanics == \A c \in CPUs : pc[c] # "not_holding"

(* this_cpu_holding_lock ("Checks if this CPU is holding the given lock"): *)
(* the panic("deadlock") of spinlock_lock is reached only by a CPU that    *)
(* does hold the lock it asks for, though the lock word and its holder are *)
(* read in two steps.  CPU 0 is left out: its id is also what a lock has   *)
(* between the test-and-set of another CPU and its write of holding_cpu.   *)
DeadlockPanicIsReal ==
  \A c \in CPUs \ {0} : pc[c] = "deadlock" => op[c] \in held[c]
=============================================================================
