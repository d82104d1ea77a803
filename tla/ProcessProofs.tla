--------------------------- MODULE ProcessProofs ---------------------------
(***************************************************************************)
(* What a process runs on, for any number of CPUs, locks, process slots,   *)
(* page tables and values of registers.  The spinlock excludes, the        *)
(* interrupts are masked while a lock is held, unlocking never panics, and *)
(* a CPU other than the first panics for a deadlock only if there is one.  *)
(* The registers that are switched lazily are those of the process that    *)
(* runs, and the page table that is installed is not one that was freed.   *)
(* The blocks of the heap that malloc keeps for a program never overlap,   *)
(* and its list of free ones is in order at every turn of the loops.       *)
(***************************************************************************)
EXTENDS Spinlock, LazyState, Malloc, FiniteSetTheorems, TLAPS

(* What a CPU's place in the code says about the lock it works on: between *)
(* winning the test-and-set and releasing it the word is set, an unlock is *)
(* about a lock no longer counted as held, and the id of the holder is in  *)
(* place from the return of spinlock_lock until the unlock clears it.      *)
LockWords ==
  \A c \in CPUs :
    /\ \A l \in Locks : Owns(c, l) => locked[l] = 1
    /\ pc[c] \in Unlocking \union {"own"} => op[c] \notin held[c]
    /\ \A l \in held[c] : holding_cpu[l] = c
    /\ pc[c] \in {"ucheck_locked", "ucheck_cpu", "disown"} => holding_cpu[op[c]] = c

(* Interrupts are on only outside the lock code, and then no lock is held.  *)
Masked == \A c \in CPUs : if_flag[c] => pc[c] = "idle" /\ held[c] = {}

IInv ==
  /\ TypeOK
  /\ MutualExclusion
  /\ LockWords
  /\ DepthCountsLocks
  /\ Masked
  /\ UnlockNeverPanics

(* The sets of held locks are finite, so their cardinality moves by one     *)
(* with each lock taken or given back.                                      *)
LEMMA HeldCardinality ==
  ASSUME TypeOK, NEW c \in CPUs
  PROVE  /\ Cardinality(held[c]) \in Nat
         /\ Cardinality(held[c]) = 0 <=> held[c] = {}
         /\ \A l \in Locks \ held[c] :
              Cardinality(held[c] \union {l}) = Cardinality(held[c]) + 1
         /\ \A l \in held[c] :
              Cardinality(held[c] \ {l}) = Cardinality(held[c]) - 1
<1>1. held[c] \subseteq Locks
  BY Zenon DEF TypeOK
<1>2. IsFiniteSet(held[c])
  BY <1>1, LocksAssumption, FS_Subset, Zenon
<1>3. QED
  BY <1>2, FS_CardinalityType, FS_EmptySet, FS_AddElement, FS_RemoveElement, Zenon

(* Initially no lock is taken and every CPU has its interrupts off.         *)
LEMMA InitEstablishes == Init => IInv
<1> SUFFICES ASSUME Init PROVE IInv
  BY Zenon
<1>1. Cardinality({}) = 0
  BY FS_EmptySet, Zenon
<1>2. QED
  BY <1>1 DEF Init, IInv, TypeOK, MutualExclusion, LockWords, DepthCountsLocks,
     Masked, UnlockNeverPanics, Owns, Locking, Unlocking, Panics

(* No step of a CPU, and no interrupt, breaks the inductive invariant.      *)
LEMMA NextPreserves == IInv /\ [Next]_vars => IInv'
<1> SUFFICES ASSUME IInv, [Next]_vars PROVE IInv'
  BY Zenon
<1> USE DEF IInv, Step, memory, cpu_local
<1>h. ASSUME NEW c \in CPUs
      PROVE  /\ Cardinality(held[c]) \in Nat
             /\ Cardinality(held[c]) = 0 <=> held[c] = {}
             /\ \A l \in Locks \ held[c] :
                  Cardinality(held[c] \union {l}) = Cardinality(held[c]) + 1
             /\ \A l \in held[c] :
                  Cardinality(held[c] \ {l}) = Cardinality(held[c]) - 1
  BY <1>h, HeldCardinality, Zenon
<1>1. ASSUME NEW c \in CPUs, NEW l \in Locks, spinlock_lock(c, l)
      PROVE  IInv'
  <2> USE <1>1 DEF spinlock_lock, save_and_disable_interrupts
  <2>1. TypeOK'
    BY DEF TypeOK, Locking
  <2>2. MutualExclusion' /\ LockWords'
    BY ZenonT(30) DEF TypeOK, MutualExclusion, LockWords, Owns, Unlocking
  <2>3. DepthCountsLocks' /\ Masked' /\ UnlockNeverPanics'
    BY <1>h DEF TypeOK, DepthCountsLocks, Masked, UnlockNeverPanics, Panics
  <2>4. QED
    BY <2>1, <2>2, <2>3, Zenon
<1>2. ASSUME NEW c \in CPUs, CheckLock(c)
      PROVE  IInv'
  <2> USE <1>2 DEF CheckLock, this_cpu_holding_lock
  <2>1. TypeOK'
    BY Zenon DEF TypeOK, Locking, Panics
  <2>2. MutualExclusion' /\ LockWords'
    BY SMTT(30) DEF TypeOK, MutualExclusion, LockWords, Owns, Unlocking
  <2>3. DepthCountsLocks' /\ Masked' /\ UnlockNeverPanics'
    BY ZenonT(30) DEF TypeOK, DepthCountsLocks, Masked, UnlockNeverPanics, Panics
  <2>4. QED
    BY <2>1, <2>2, <2>3, Zenon
<1>3. ASSUME NEW c \in CPUs, test_and_set(c)
      PROVE  IInv'
  <2> USE <1>3 DEF test_and_set
  <2>1. TypeOK'
    BY Zenon DEF TypeOK, Locking
  <2>2. \A d \in CPUs : ~Owns(d, op[c])
    BY DEF LockWords, TypeOK
  <2>3. MutualExclusion' /\ LockWords'
    BY <2>2 DEF TypeOK, MutualExclusion, LockWords, Owns, Unlocking
  <2>4. DepthCountsLocks' /\ Masked' /\ UnlockNeverPanics'
    BY Zenon DEF TypeOK, DepthCountsLocks, Masked, UnlockNeverPanics, Panics
  <2>5. QED
    BY <2>1, <2>3, <2>4, Zenon
<1>4. ASSUME NEW c \in CPUs, TakeOwnership(c)
      PROVE  IInv'
  <2> USE <1>4 DEF TakeOwnership
  <2>1. TypeOK'
    BY ZenonT(30) DEF TypeOK
  <2>2. Owns(c, op[c]) /\ op[c] \notin held[c]
    BY Zenon DEF Owns, LockWords, Unlocking
  <2>3. MutualExclusion' /\ LockWords'
    BY <2>2 DEF TypeOK, MutualExclusion, LockWords, Owns, Unlocking
  <2>4. Cardinality(held'[c]) = Cardinality(held[c]) + 1
    BY <1>h, <2>2, Zenon DEF TypeOK
  <2>5. DepthCountsLocks' /\ Masked' /\ UnlockNeverPanics'
    BY <1>h, <2>4 DEF TypeOK, DepthCountsLocks, Masked, UnlockNeverPanics, Panics
  <2>6. QED
    BY <2>1, <2>3, <2>5, Zenon
<1>5. ASSUME NEW c \in CPUs, NEW l \in Locks, spinlock_unlock(c, l)
      PROVE  IInv'
  <2> USE <1>5 DEF spinlock_unlock
  <2>1. TypeOK'
    BY Zenon DEF TypeOK, Unlocking
  <2>2. MutualExclusion' /\ LockWords'
    BY DEF TypeOK, MutualExclusion, LockWords, Owns, Unlocking
  <2>3. Cardinality(held'[c]) = Cardinality(held[c]) - 1
    BY <1>h, Zenon DEF TypeOK
  <2>4. DepthCountsLocks' /\ Masked' /\ UnlockNeverPanics'
    BY <1>h, <2>3 DEF TypeOK, DepthCountsLocks, Masked, UnlockNeverPanics, Panics
  <2>5. QED
    BY <2>1, <2>2, <2>4, Zenon
<1>6. ASSUME NEW c \in CPUs, CheckUnlock(c)
      PROVE  IInv'
  <2> USE <1>6 DEF CheckUnlock, this_cpu_holding_lock
  <2>1. TypeOK'
    BY Zenon DEF TypeOK, Unlocking, Panics
  <2>2. pc'[c] # "not_holding"
    BY DEF TypeOK, LockWords, Owns
  <2>3. MutualExclusion' /\ LockWords'
    BY <2>2 DEF TypeOK, MutualExclusion, LockWords, Owns, Unlocking
  <2>4. DepthCountsLocks' /\ Masked' /\ UnlockNeverPanics'
    BY <2>2 DEF TypeOK, DepthCountsLocks, Masked, UnlockNeverPanics, Panics
  <2>5. QED
    BY <2>1, <2>3, <2>4, Zenon
<1>7. ASSUME NEW c \in CPUs, ClearOwner(c)
      PROVE  IInv'
  <2> USE <1>7 DEF ClearOwner
  <2>1. TypeOK'
    BY Zenon DEF TypeOK, Unlocking
  <2>2. Owns(c, op[c]) /\ op[c] \notin held[c]
    BY Zenon DEF Owns, LockWords, Unlocking
  <2>3. MutualExclusion' /\ LockWords'
    BY <2>2, ZenonT(30) DEF TypeOK, MutualExclusion, LockWords, Owns, Unlocking
  <2>4. DepthCountsLocks' /\ Masked' /\ UnlockNeverPanics'
    BY Zenon DEF TypeOK, DepthCountsLocks, Masked, UnlockNeverPanics, Panics
  <2>5. QED
    BY <2>1, <2>3, <2>4, Zenon
<1>8. ASSUME NEW c \in CPUs, Release(c)
      PROVE  IInv'
  <2> USE <1>8 DEF Release
  <2>1. TypeOK'
    BY Zenon DEF TypeOK, Unlocking
  <2>2. Owns(c, op[c]) /\ op[c] \notin held[c]
    BY Zenon DEF Owns, LockWords, Unlocking
  <2>3. MutualExclusion' /\ LockWords'
    BY <2>2, ZenonT(30) DEF TypeOK, MutualExclusion, LockWords, Owns, Unlocking
  <2>4. DepthCountsLocks' /\ Masked' /\ UnlockNeverPanics'
    BY Zenon DEF TypeOK, DepthCountsLocks, Masked, UnlockNeverPanics, Panics
  <2>5. QED
    BY <2>1, <2>3, <2>4, Zenon
<1>9. ASSUME NEW c \in CPUs, Restore(c)
      PROVE  IInv'
  <2> USE <1>9 DEF Restore, restore_interrupts
  <2>1. depth[c] = Cardinality(held[c]) + 1
    BY Zenon DEF DepthCountsLocks, Panics
  <2>2. TypeOK'
    BY <1>h, <2>1 DEF TypeOK
  <2>3. MutualExclusion' /\ LockWords'
    BY ZenonT(30) DEF TypeOK, MutualExclusion, LockWords, Owns, Unlocking
  <2>4. DepthCountsLocks' /\ UnlockNeverPanics'
    BY <1>h, <2>1 DEF TypeOK, DepthCountsLocks, UnlockNeverPanics, Panics
  <2>5. Masked'
    BY <1>h, <2>1 DEF TypeOK, Masked
  <2>6. QED
    BY <2>2, <2>3, <2>4, <2>5, Zenon
<1>10. ASSUME NEW c \in CPUs, Sti(c) \/ IrqEnter(c) \/ IrqReturn(c)
       PROVE  IInv'
  <2> USE <1>10 DEF Sti, IrqEnter, IrqReturn
  <2>1. TypeOK'
    BY Zenon DEF TypeOK
  <2>2. MutualExclusion' /\ LockWords'
    BY DEF MutualExclusion, LockWords, Owns
  <2>3. DepthCountsLocks' /\ UnlockNeverPanics'
    BY Zenon DEF DepthCountsLocks, UnlockNeverPanics
  <2>4. Masked'
    BY Zenon DEF TypeOK, Masked
  <2>5. QED
    BY <2>1, <2>2, <2>3, <2>4, Zenon
<1>11. CASE UNCHANGED vars
  BY <1>11, ZenonT(30) DEF vars, TypeOK, MutualExclusion, LockWords, DepthCountsLocks, Masked,
     UnlockNeverPanics, Owns
<1>12. QED
  BY <1>1, <1>2, <1>3, <1>4, <1>5, <1>6, <1>7, <1>8, <1>9, <1>10, <1>11, Zenon DEF Next

(* The inductive invariant holds in every reachable state.                  *)
THEOREM Invariance == Spec => []IInv
  BY InitEstablishes, NextPreserves, PTL DEF Spec

(* No two CPUs own a lock at the same time, in any interleaving of the      *)
(* accesses of spinlock_lock and spinlock_unlock.                           *)
THEOREM Exclusion == Spec => []MutualExclusion
<1>1. IInv => MutualExclusion
  BY Zenon DEF IInv
<1>2. QED
  BY <1>1, Invariance, PTL

(* A CPU that accepts interrupts holds no lock: the flag that               *)
(* restore_interrupts brings back is safe to bring back.                    *)
THEOREM HandlersMeetNoLock == Spec => []InterruptsMaskedWhileHolding
<1>1. IInv => InterruptsMaskedWhileHolding
  <2> SUFFICES ASSUME IInv, NEW c \in CPUs, if_flag[c]
               PROVE  depth[c] = 0 /\ \A l \in Locks : ~Owns(c, l)
    BY Zenon DEF InterruptsMaskedWhileHolding
  <2>1. pc[c] = "idle" /\ held[c] = {}
    BY Zenon DEF IInv, Masked
  <2>2. depth[c] = 0
    BY <2>1, FS_EmptySet DEF IInv, DepthCountsLocks, Panics
  <2>3. QED
    BY <2>1, <2>2, Zenon DEF Owns
<1>2. QED
  BY <1>1, Invariance, PTL

(* Unlocking a lock that the CPU holds never ends in the panic              *)
(* "cpu not holding lock".                                                  *)
THEOREM UnlockIsSafe == Spec => []UnlockNeverPanics
<1>1. IInv => UnlockNeverPanics
  BY ZenonT(30) DEF IInv
<1>2. QED
  BY <1>1, Invariance, PTL

-----------------------------------------------------------------------------
(* A lock that names a CPU other than the first is held by it, or that CPU  *)
(* has begun to unlock it and not yet cleared its id.                       *)
NamedHolds ==
  \A c \in CPUs \ {0}, l \in Locks :
    holding_cpu[l] = c =>
      \/ l \in held[c]
      \/ op[c] = l /\ pc[c] \in {"ucheck_locked", "ucheck_cpu", "disown"}

(* The two words of the lock are read one after the other, but only the CPU *)
(* itself ever writes its id or takes it away.                              *)
LEMMA NamedHoldsStep ==
  ASSUME IInv, NamedHolds, DeadlockPanicIsReal, [Next]_vars
  PROVE  NamedHolds' /\ DeadlockPanicIsReal'
<1> USE DEF IInv, TypeOK, Step, memory, cpu_local, NamedHolds, DeadlockPanicIsReal
<1>1. ASSUME NEW c \in CPUs, NEW l \in Locks, spinlock_lock(c, l) \/ spinlock_unlock(c, l)
      PROVE  NamedHolds' /\ DeadlockPanicIsReal'
  BY <1>1 DEF spinlock_lock, spinlock_unlock, save_and_disable_interrupts
<1>2. ASSUME NEW c \in CPUs, CheckLock(c)
      PROVE  NamedHolds' /\ DeadlockPanicIsReal'
  BY <1>2 DEF CheckLock, this_cpu_holding_lock
<1>3. ASSUME NEW c \in CPUs, test_and_set(c) \/ TakeOwnership(c)
      PROVE  NamedHolds' /\ DeadlockPanicIsReal'
  <2>1. pc[c] = "own" => \A d \in CPUs : op[c] \notin held[d]
    BY Zenon DEF MutualExclusion, Owns, LockWords, Unlocking
  <2>2. pc[c] = "own" => \A d \in CPUs \ {c} :
          ~(op[d] = op[c] /\ pc[d] \in {"ucheck_locked", "ucheck_cpu", "disown"})
    BY Zenon DEF MutualExclusion, Owns
  <2>3. QED
    BY <1>3, <2>1, <2>2 DEF test_and_set, TakeOwnership
<1>4. ASSUME NEW c \in CPUs, CheckUnlock(c)
      PROVE  NamedHolds' /\ DeadlockPanicIsReal'
  <2>1. pc'[c] # "not_holding"
    BY <1>4 DEF CheckUnlock, this_cpu_holding_lock, LockWords, Owns
  <2>2. QED
    BY <1>4, <2>1 DEF CheckUnlock, this_cpu_holding_lock
<1>5. ASSUME NEW c \in CPUs, ClearOwner(c) \/ Release(c) \/ Restore(c)
      PROVE  NamedHolds' /\ DeadlockPanicIsReal'
  BY <1>5 DEF ClearOwner, Release, Restore
<1>6. ASSUME NEW c \in CPUs, Sti(c) \/ IrqEnter(c) \/ IrqReturn(c)
      PROVE  NamedHolds' /\ DeadlockPanicIsReal'
  BY <1>6, ZenonT(30) DEF Sti, IrqEnter, IrqReturn
<1>7. CASE UNCHANGED vars
  BY <1>7, Zenon DEF vars
<1>8. QED
  BY <1>1, <1>2, <1>3, <1>4, <1>5, <1>6, <1>7, Zenon DEF Next

(* The panic "deadlock" of spinlock_lock is real, on all CPUs but the one   *)
(* whose id a lock without a holder has.                                    *)
THEOREM DeadlockIsReal == Spec => []DeadlockPanicIsReal
<1>1. Init => NamedHolds /\ DeadlockPanicIsReal
  BY Zenon DEF Init, NamedHolds, DeadlockPanicIsReal
<1>2. QED
  BY <1>1, Invariance, NamedHoldsStep, PTL DEF Spec

-----------------------------------------------------------------------------
(* Who runs is also who ran last, with its page table installed.            *)
RunningRanLast ==
  /\ running_process # NULL =>
       /\ state[running_process] = "RUNNING"
       /\ last_running_process = running_process
       /\ cr3 = pagetable[running_process]
  /\ \A s \in Slots : state[s] = "RUNNING" => running_process = s
  /\ mode # "kernel" => running_process # NULL

(* The registers of every process are in its save area, but for the one     *)
(* that ran last: its registers are still in the CPU.                       *)
SavedOrLoaded ==
  /\ last_running_process # NULL => Live(last_running_process) /\ fpu = own[last_running_process]
  /\ \A s \in Slots : Live(s) /\ s # last_running_process => fpu_state[s] = own[s]

(* swapgs has been executed an even number of times until the kernel leaves. *)
GsParity ==
  IF mode # "kernel"
  THEN GS_BASE = Zero /\ KERNEL_GS_BASE = CpuLocal
  ELSE /\ GS_BASE = CpuLocal
       /\ last_running_process # NULL => KERNEL_GS_BASE = Zero

(* The page tables of live processes are distinct, and one of them or the   *)
(* kernel's is installed.                                                   *)
TablesLive ==
  /\ \A s \in Slots : Live(s) => pagetable[s] \in Tables
  /\ \A s, t \in Slots : Live(s) /\ Live(t) /\ pagetable[s] = pagetable[t] => s = t
  /\ cr3 # kernel_pagetable => \E s \in Slots : Live(s) /\ pagetable[s] = cr3

LazyInv == LazyTypeOK /\ RunningRanLast /\ SavedOrLoaded /\ GsParity /\ TablesLive

-----------------------------------------------------------------------------
(* The initial state: /init is RUNNABLE in slot 1 and nothing has run.      *)
LEMMA InitHolds == LazyInit => LazyInv
<1> SUFFICES ASSUME LazyInit PROVE LazyInv
  BY Zenon
<1> USE LazyAssumption DEF LazyInit, Slots, States
<1>1. LazyTypeOK  BY Zenon DEF LazyTypeOK
<1>2. RunningRanLast  BY Zenon DEF RunningRanLast
<1>3. SavedOrLoaded  BY Zenon DEF SavedOrLoaded
<1>4. GsParity  BY Zenon DEF GsParity
<1>5. TablesLive  BY Zenon DEF TablesLive, Live
<1> QED  BY <1>1, <1>2, <1>3, <1>4, <1>5, Zenon DEF LazyInv

(* A process is picked: the registers of the last one go to its save area.  *)
LEMMA RunHolds == ASSUME NEW s \in Slots, LazyInv, SchedulerRun(s) PROVE LazyInv'
<1>i. LazyTypeOK /\ RunningRanLast /\ SavedOrLoaded /\ GsParity /\ TablesLive
  BY ZenonT(30) DEF LazyInv
<1> USE <1>i, LazyAssumption DEF SchedulerRun, load_additional_data_if_needed
<1>0. /\ state' = [state EXCEPT ![s] = "RUNNING"] /\ state[s] = "RUNNABLE"
      /\ mode = "kernel"
      /\ last_running_process # s => fpu_state[s] = own[s]
      /\ pagetable[s] \in Tables
  BY Zenon DEF LazyTypeOK, RunningRanLast, SavedOrLoaded, TablesLive, Live
<1>1. LazyTypeOK'  BY <1>0, ZenonT(30) DEF LazyTypeOK, States
<1>2. RunningRanLast'  BY <1>0, Zenon DEF LazyTypeOK, RunningRanLast, Slots
<1>3. SavedOrLoaded'
  <2>1. CASE last_running_process = s
    BY <2>1, <1>0, Zenon DEF LazyTypeOK, SavedOrLoaded, Live, Slots
  <2>2. CASE last_running_process # s
    <3>1. fpu' = own'[s] /\ Live(s)'
      BY <2>2, <1>0, Zenon DEF LazyTypeOK, Live
    <3>2. ASSUME NEW t \in Slots, Live(t)', t # s PROVE fpu_state'[t] = own'[t]
      <4>1. Live(t)  BY <3>2, <1>0, Zenon DEF LazyTypeOK, Live
      <4>2. CASE t = last_running_process
        BY <2>2, <3>2, <4>1, <4>2, Zenon DEF LazyTypeOK, SavedOrLoaded, Slots
      <4>3. CASE t # last_running_process
        BY <2>2, <3>2, <4>1, <4>3, Zenon DEF LazyTypeOK, SavedOrLoaded, Slots
      <4> QED  BY <4>2, <4>3, Zenon
    <3> QED  BY <3>1, <3>2, Zenon DEF SavedOrLoaded
  <2> QED  BY <2>1, <2>2, Zenon
<1>4. GsParity'  BY <1>0, Zenon DEF LazyTypeOK, GsParity, Slots
<1>5. TablesLive'  BY <1>0, ZenonT(30) DEF LazyTypeOK, TablesLive, Live
<1> QED  BY <1>1, <1>2, <1>3, <1>4, <1>5, ZenonT(30) DEF LazyInv

(* An exited process is reaped: its table is uninstalled before it is freed. *)
LEMMA ReapHolds == ASSUME NEW s \in Slots, LazyInv, SchedulerReap(s) PROVE LazyInv'
<1>i. LazyTypeOK /\ RunningRanLast /\ SavedOrLoaded /\ GsParity /\ TablesLive
  BY ZenonT(30) DEF LazyInv
<1> USE <1>i, LazyAssumption DEF SchedulerReap
<1>0. /\ state[s] = "EXITED" /\ mode = "kernel"
      /\ \A t \in Slots : Live(t)' <=> t # s /\ Live(t)
      /\ \A t \in Slots : t # s => pagetable'[t] = pagetable[t] /\ state'[t] = state[t]
      /\ \A t \in Slots : t # s => fpu_state'[t] = fpu_state[t]
      /\ state'[s] = "UNUSED"
  BY Zenon DEF LazyTypeOK, RunningRanLast, Live
<1>1. LazyTypeOK'  BY Zenon DEF LazyTypeOK, States
<1>2. RunningRanLast'  BY <1>0, Zenon DEF LazyTypeOK, RunningRanLast
<1>3. SavedOrLoaded'  BY <1>0, Zenon DEF LazyTypeOK, SavedOrLoaded
<1>4. GsParity'  BY <1>0, Zenon DEF GsParity
<1>5. TablesLive'
  <2>1. \A t \in Slots : Live(t)' => pagetable'[t] \in Tables  BY <1>0, Zenon DEF TablesLive
  <2>2. \A t, u \in Slots : Live(t)' /\ Live(u)' /\ pagetable'[t] = pagetable'[u] => t = u
    BY <1>0, Zenon DEF TablesLive
  <2>3. cr3' # kernel_pagetable => \E t \in Slots : Live(t)' /\ pagetable'[t] = cr3'
    BY <1>0, Zenon DEF TablesLive
  <2> QED  BY <2>1, <2>2, <2>3, Zenon DEF TablesLive
<1> QED  BY <1>1, <1>2, <1>3, <1>4, <1>5, ZenonT(30) DEF LazyInv

(* A slot is allocated: it is not the one that ran last, so its cleared     *)
(* save area is what the new program will find.                             *)
LEMMA ExecHolds ==
  ASSUME NEW s \in Slots, NEW new \in {"RUNNABLE", "UNUSED"}, LazyInv, proc_allocate(s, new)
  PROVE  LazyInv'
<1>i. LazyTypeOK /\ RunningRanLast /\ SavedOrLoaded /\ GsParity /\ TablesLive
  BY ZenonT(30) DEF LazyInv
<1> USE <1>i, LazyAssumption
<1>p. PICK f \in FreeTables : pagetable' = [pagetable EXCEPT ![s] = f]
  BY Zenon DEF proc_allocate
<1>0. /\ state[s] = "UNUSED" /\ mode = "kernel" /\ running_process # NULL
      /\ running_process # s /\ last_running_process # s
      /\ \A t \in Slots : t # s => /\ pagetable'[t] = pagetable[t] /\ state'[t] = state[t]
                                   /\ fpu_state'[t] = fpu_state[t] /\ own'[t] = own[t]
      /\ \A t \in Slots : t # s => (Live(t)' <=> Live(t))
      /\ state'[s] = new /\ fpu_state'[s] = Zero /\ own'[s] = Zero /\ pagetable'[s] = f
  BY <1>p, Zenon DEF proc_allocate, LazyTypeOK, RunningRanLast, Live
<1>1. LazyTypeOK'
  <2>1. f \in Tables  BY <1>p, Zenon DEF FreeTables
  <2> QED  BY <1>p, <2>1, Zenon DEF proc_allocate, LazyTypeOK, States, registers
<1>2. RunningRanLast'  BY <1>0, Zenon DEF proc_allocate, registers, LazyTypeOK, RunningRanLast
<1>3. SavedOrLoaded'
  <2>1. last_running_process' # NULL =>
          Live(last_running_process)' /\ fpu' = own'[last_running_process']
    BY <1>0, Zenon DEF proc_allocate, LazyTypeOK, SavedOrLoaded, registers
  <2>2. \A t \in Slots : Live(t)' /\ t # last_running_process' => fpu_state'[t] = own'[t]
    BY <1>0, ZenonT(30) DEF proc_allocate, SavedOrLoaded
  <2> QED  BY <2>1, <2>2, Zenon DEF SavedOrLoaded
<1>4. GsParity'  BY Zenon DEF proc_allocate, GsParity, registers
<1>5. TablesLive'
  <2>0. f \in Tables /\ \A t \in Slots : Live(t) => pagetable[t] # f
    BY <1>p, Zenon DEF FreeTables
  <2>1. \A t \in Slots : Live(t)' => pagetable'[t] \in Tables  BY <1>0, <2>0, Zenon DEF TablesLive
  <2>2. \A t, u \in Slots : Live(t)' /\ Live(u)' /\ pagetable'[t] = pagetable'[u] => t = u
    BY <1>0, <2>0, Zenon DEF TablesLive
  <2>3. cr3' # kernel_pagetable => \E t \in Slots : Live(t)' /\ pagetable'[t] = cr3'
    <3>1. cr3' = cr3  BY Zenon DEF proc_allocate, registers
    <3>2. SUFFICES ASSUME cr3 # kernel_pagetable
                   PROVE  \E t \in Slots : Live(t)' /\ pagetable'[t] = cr3
      BY <3>1, Zenon
    <3>3. PICK t \in Slots : Live(t) /\ pagetable[t] = cr3  BY <3>2, Zenon DEF TablesLive
    <3>4. t # s  BY <3>3, <1>0, Zenon DEF Live
    <3> QED  BY <3>3, <3>4, <1>0, Zenon
  <2> QED  BY <2>1, <2>2, <2>3, Zenon DEF TablesLive
<1> QED  BY <1>1, <1>2, <1>3, <1>4, <1>5, ZenonT(30) DEF LazyInv

(* A sleeper is woken up, or the running process sleeps, yields or exits:   *)
(* only its state changes, and it stays alive.                              *)
LEMMA StateHolds ==
  ASSUME LazyInv,
         \/ \E s \in Slots : proc_wakeup(s)
         \/ \E new \in {"RUNNABLE", "SLEEPING", "EXITED"} : scheduler_switch_back(new)
  PROVE  LazyInv'
<1>i. LazyTypeOK /\ RunningRanLast /\ SavedOrLoaded /\ GsParity /\ TablesLive
  BY ZenonT(30) DEF LazyInv
<1> USE <1>i, LazyAssumption
<1>1. CASE \E s \in Slots : proc_wakeup(s)
  <2> PICK s \in Slots : proc_wakeup(s)  BY <1>1, Zenon
  <2>0. \A t \in Slots : Live(t)' <=> Live(t)  BY Zenon DEF proc_wakeup, LazyTypeOK, Live
  <2>1. LazyTypeOK'  BY Zenon DEF proc_wakeup, LazyTypeOK, States, registers
  <2>2. RunningRanLast'  BY Zenon DEF proc_wakeup, LazyTypeOK, RunningRanLast, registers
  <2>3. SavedOrLoaded'  BY <2>0, Zenon DEF proc_wakeup, LazyTypeOK, SavedOrLoaded, registers
  <2>4. GsParity'  BY Zenon DEF proc_wakeup, GsParity, registers
  <2>5. TablesLive'  BY <2>0, Zenon DEF proc_wakeup, TablesLive, registers
  <2> QED  BY <2>1, <2>2, <2>3, <2>4, <2>5, ZenonT(30) DEF LazyInv
<1>2. CASE \E new \in {"RUNNABLE", "SLEEPING", "EXITED"} : scheduler_switch_back(new)
  <2> PICK new \in {"RUNNABLE", "SLEEPING", "EXITED"} : scheduler_switch_back(new)  BY <1>2, Zenon
  <2>r. running_process \in Slots /\ state[running_process] = "RUNNING"
    BY Zenon DEF scheduler_switch_back, LazyTypeOK, RunningRanLast
  <2>0. \A t \in Slots : Live(t)' <=> Live(t)
    BY <2>r, Zenon DEF scheduler_switch_back, LazyTypeOK, Live
  <2>1. LazyTypeOK'  BY <2>r, Zenon DEF scheduler_switch_back, LazyTypeOK, States, registers
  <2>2. RunningRanLast'  BY <2>r, Zenon DEF scheduler_switch_back, LazyTypeOK, RunningRanLast, registers
  <2>3. SavedOrLoaded'  BY <2>0, Zenon DEF scheduler_switch_back, LazyTypeOK, SavedOrLoaded, registers
  <2>4. GsParity'  BY Zenon DEF scheduler_switch_back, GsParity, registers
  <2>5. TablesLive'  BY <2>0, Zenon DEF scheduler_switch_back, TablesLive, registers
  <2> QED  BY <2>1, <2>2, <2>3, <2>4, <2>5, ZenonT(30) DEF LazyInv
<1> QED  BY <1>1, <1>2, ZenonT(30)

(* The process crosses between the kernel and its program, or computes.     *)
LEMMA UserHolds ==
  ASSUME LazyInv,
         \/ Leave \/ ToUser \/ InterruptWhileLeaving \/ ToKernel
         \/ \E v \in Values : Compute(v)
  PROVE  LazyInv'
<1>i. LazyTypeOK /\ RunningRanLast /\ SavedOrLoaded /\ GsParity /\ TablesLive
  BY ZenonT(30) DEF LazyInv
<1> USE <1>i, LazyAssumption DEF processes
<1>1. CASE Leave \/ ToKernel
  <2>0. /\ UNCHANGED <<state, pagetable, fpu_state, gs_base, own, fpu, cr3>>
        /\ UNCHANGED <<running_process, last_running_process>>
        /\ GS_BASE' = KERNEL_GS_BASE /\ KERNEL_GS_BASE' = GS_BASE
    BY <1>1, ZenonT(30) DEF Leave, ToKernel, swapgs
  <2>m. \/ mode = "kernel" /\ mode' = "leaving" /\ running_process # NULL
        \/ mode = "user" /\ mode' = "kernel"
    BY <1>1, ZenonT(30) DEF Leave, ToKernel
  <2>1. LazyTypeOK'  BY <2>0, <2>m, ZenonT(30) DEF LazyTypeOK
  <2>2. RunningRanLast'  BY <2>0, <2>m, ZenonT(30) DEF RunningRanLast
  <2>3. SavedOrLoaded'  BY <2>0, ZenonT(30) DEF SavedOrLoaded, Live
  <2>4. GsParity'  BY <2>0, <2>m, Zenon DEF GsParity, RunningRanLast
  <2>5. TablesLive'  BY <2>0, ZenonT(30) DEF TablesLive, Live
  <2> QED  BY <2>1, <2>2, <2>3, <2>4, <2>5, ZenonT(30) DEF LazyInv
<1>3. CASE ToUser \/ InterruptWhileLeaving
  <2>0. UNCHANGED <<processes, running_process, last_running_process, registers, own>>
    BY <1>3, Zenon DEF ToUser, InterruptWhileLeaving
  <2>m. mode = "leaving" /\ mode' \in {"user", "faulted"}
    BY <1>3, Zenon DEF ToUser, InterruptWhileLeaving
  <2> USE DEF registers
  <2>1. LazyTypeOK'  BY <2>0, <2>m, ZenonT(30) DEF LazyTypeOK
  <2>2. RunningRanLast'  BY <2>0, <2>m, ZenonT(30) DEF RunningRanLast
  <2>3. SavedOrLoaded'  BY <2>0, ZenonT(30) DEF SavedOrLoaded, Live
  <2>4. GsParity'  BY <2>0, <2>m, ZenonT(30) DEF GsParity
  <2>5. TablesLive'  BY <2>0, ZenonT(30) DEF TablesLive, Live
  <2> QED  BY <2>1, <2>2, <2>3, <2>4, <2>5, ZenonT(30) DEF LazyInv
<1>2. CASE \E v \in Values : Compute(v)
  <2> PICK v \in Values : Compute(v)  BY <1>2, Zenon
  <2>r. running_process \in Slots /\ last_running_process = running_process
    BY Zenon DEF Compute, LazyTypeOK, RunningRanLast
  <2>1. LazyTypeOK'  BY <2>r, Zenon DEF Compute, LazyTypeOK
  <2>2. RunningRanLast'  BY ZenonT(30) DEF Compute, RunningRanLast
  <2>3. SavedOrLoaded'  BY <2>r, ZenonT(30) DEF Compute, LazyTypeOK, SavedOrLoaded, Live
  <2>4. GsParity'  BY Zenon DEF Compute, GsParity
  <2>5. TablesLive'  BY Zenon DEF Compute, TablesLive, Live
  <2> QED  BY <2>1, <2>2, <2>3, <2>4, <2>5, ZenonT(30) DEF LazyInv
<1> QED  BY <1>1, <1>2, <1>3, ZenonT(30)

(* Every step keeps the invariant.                                          *)
LEMMA NextHolds == LazyInv /\ [LazyNext]_lazyVars => LazyInv'
<1> SUFFICES ASSUME LazyInv, [LazyNext]_lazyVars PROVE LazyInv'
  BY Zenon
<1>1. CASE \E s \in Slots : SchedulerRun(s)  BY <1>1, RunHolds, Zenon
<1>2. CASE \E s \in Slots : SchedulerReap(s)  BY <1>2, ReapHolds, Zenon
<1>3. CASE \E s \in Slots, new \in {"RUNNABLE", "UNUSED"} : proc_allocate(s, new)
  BY <1>3, ExecHolds, Zenon
<1>4. CASE \/ \E s \in Slots : proc_wakeup(s)
           \/ \E new \in {"RUNNABLE", "SLEEPING", "EXITED"} : scheduler_switch_back(new)
  BY <1>4, StateHolds, Zenon
<1>5. CASE \/ Leave \/ ToUser \/ InterruptWhileLeaving \/ ToKernel
           \/ \E v \in Values : Compute(v)
  BY <1>5, UserHolds, ZenonT(30)
<1>6. CASE UNCHANGED lazyVars
  BY <1>6, Zenon DEF lazyVars, processes, registers, LazyInv, LazyTypeOK, RunningRanLast, SavedOrLoaded,
              GsParity, TablesLive, Live
<1> QED  BY <1>1, <1>2, <1>3, <1>4, <1>5, <1>6, Zenon DEF LazyNext

(* The lazily saved registers are always the running program's own, and the *)
(* kernel has its own gs base until it leaves.                              *)
THEOREM RegistersAreOwn == LazySpec => []OwnRegisters
<1>1. LazyInv => OwnRegisters
  BY ZenonT(30) DEF LazyInv, RunningRanLast, SavedOrLoaded, GsParity, OwnRegisters
<1> QED  BY <1>1, InitHolds, NextHolds, PTL DEF LazySpec

(* The CPU never walks a freed page table.                                  *)
THEOREM InstalledTableLives == LazySpec => []InstalledTableIsLive
<1>1. LazyInv => InstalledTableIsLive
  BY Zenon DEF LazyInv, RunningRanLast, TablesLive, InstalledTableIsLive
<1> QED  BY <1>1, InitHolds, NextHolds, PTL DEF LazySpec

-----------------------------------------------------------------------------
(* Headers of sz tile the heap below brk, next to the addresses in tk.      *)
Tiles(sz, brk, tk) ==
  /\ tk \subseteq 1 .. brk - 1
  /\ \A a \in DOMAIN sz : a \in Nat /\ sz[a] \in Nat /\ a + sz[a] <= brk
                          /\ (a = base <=> sz[a] = 0)
  /\ \A a, c \in DOMAIN sz : a < c => a + sz[a] <= c
  /\ \A a \in DOMAIN sz, t \in tk : t < a \/ a + sz[a] <= t
  /\ \A t \in 1 .. brk - 1 : t \in tk \/ \E a \in DOMAIN sz : t \in a .. a + sz[a] - 1

(* The list pt is circular, in the order of the addresses.                  *)
Ordered(pt, sz) ==
  \A a \in DOMAIN pt :
    /\ pt[a] \in DOMAIN pt
    /\ pt[a] # base => a + sz[a] < pt[a]
    /\ \A c \in DOMAIN pt : a < c => pt[a] # base /\ pt[a] <= c

(* The headers of the blocks of the program.                                *)
Held == {b.addr : b \in live}

(* What is a header: base and the free blocks, the blocks of the program,   *)
(* and the one that free is to place.                                       *)
HeaderSets ==
  /\ DOMAIN size = DOMAIN ptr \union Held \union {a \in {bp} : Placing}
  /\ DOMAIN ptr \intersect Held = {}
  /\ freep = None => DOMAIN size = {} /\ loop = "idle"
  /\ freep # None => freep \in DOMAIN ptr /\ base \in DOMAIN ptr

(* The program's blocks are large enough, one at each address.              *)
HeldBlocks ==
  /\ \A b \in live : b.bytes \in Nat \ {0} /\ b.bytes <= (size[b.addr] - 1) * HeaderBytes
  /\ \A b, c \in live : b.addr = c.addr => b = c

(* Where the loops of malloc and free are on the list.                      *)
LoopInv ==
  /\ loop \in {"idle", "search", "free", "morecore"}
  /\ loop = "search" => prevp \in DOMAIN ptr /\ cursor = ptr[prevp]
  /\ Placing => cursor \in DOMAIN ptr /\ bp \notin DOMAIN ptr \union Held
  /\ loop \in {"search", "morecore"} =>
       /\ request.bytes \in Sizes
       /\ request.old = {} \/ \E b \in live : request.old = {b}

(* The inductive invariant of the heap.                                     *)
HeapInv ==
  /\ break \in Nat \ {0}
  /\ Tiles(size, break, Gone)
  /\ Ordered(ptr, size)
  /\ HeaderSets
  /\ HeldBlocks
  /\ LoopInv

(* Two headers of which the second begins where the first ends become one.  *)
LEMMA JoinTiles ==
  ASSUME NEW sz, NEW brk \in Nat, NEW tk, Tiles(sz, brk, tk),
         NEW a \in DOMAIN sz, NEW c \in DOMAIN sz, a # c, c # base, a + sz[a] = c,
         a # base,
         NEW to, DOMAIN to = DOMAIN sz \ {c},
         to[a] = sz[a] + sz[c], \A x \in DOMAIN to : x # a => to[x] = sz[x]
  PROVE  Tiles(to, brk, tk)
<1>1. \A x \in DOMAIN sz : x \in Nat /\ sz[x] \in Nat /\ x + sz[x] <= brk
                            /\ (x = base <=> sz[x] = 0)
  BY Zenon DEF Tiles
<1>2. \A x, y \in DOMAIN sz : x < y => x + sz[x] <= y
  BY Zenon DEF Tiles
<1>3. \A x \in DOMAIN sz, t \in tk : t < x \/ x + sz[x] <= t
  BY Zenon DEF Tiles
<1>4. \A t \in 1 .. brk - 1 : t \in tk \/ \E x \in DOMAIN sz : t \in x .. x + sz[x] - 1
  BY Zenon DEF Tiles
<1>. USE DEF base
<1>5. \A x \in DOMAIN to : x \in Nat /\ to[x] \in Nat /\ x + to[x] <= brk
                            /\ (x = base <=> to[x] = 0)
  BY <1>1
<1>6. \A x, y \in DOMAIN to : x < y => x + to[x] <= y
  BY <1>1, <1>2
<1>7. \A x \in DOMAIN to, t \in tk : t < x \/ x + to[x] <= t
  <2>1. SUFFICES ASSUME NEW t \in tk PROVE t < a \/ a + to[a] <= t
    BY <1>3, Zenon
  <2>4. t \in Nat
    BY DEF Tiles
  <2>2. t < a \/ a + sz[a] <= t
    BY <1>3, Zenon
  <2>3. t < c \/ c + sz[c] <= t
    BY <1>3, Zenon
  <2>. QED BY <1>1, <2>2, <2>3, <2>4
<1>8. \A t \in 1 .. brk - 1 : t \in tk \/ \E x \in DOMAIN to : t \in x .. x + to[x] - 1
  <2>1. SUFFICES ASSUME NEW t \in 1 .. brk - 1, t \notin tk
                 PROVE  \E x \in DOMAIN to : t \in x .. x + to[x] - 1
    BY Zenon
  <2>2. PICK x \in DOMAIN sz : t \in x .. x + sz[x] - 1
    BY <1>4, <2>1, Zenon
  <2>3. x \in {a, c} => t \in a .. a + to[a] - 1
    BY <1>1, <2>2
  <2>4. x \notin {a, c} => x \in DOMAIN to /\ to[x] = sz[x]
    BY Zenon
  <2>5. a \in DOMAIN to
    BY Zenon
  <2>. QED BY <2>2, <2>3, <2>4, <2>5, Zenon
<1>. QED BY <1>5, <1>6, <1>7, <1>8, Zenon DEF Tiles

(* A header and its tail of n become two.                                   *)
LEMMA SplitTiles ==
  ASSUME NEW sz, NEW brk \in Nat, NEW tk, Tiles(sz, brk, tk),
         NEW a \in DOMAIN sz, NEW n \in Nat \ {0}, n < sz[a],
         NEW tail, tail = a + sz[a] - n,
         NEW to, DOMAIN to = DOMAIN sz \union {tail},
         to[tail] = n, to[a] = sz[a] - n,
         \A x \in DOMAIN sz : x \notin {a, tail} => to[x] = sz[x]
  PROVE  Tiles(to, brk, tk) /\ tail \notin DOMAIN sz
<1>1. \A x \in DOMAIN sz : x \in Nat /\ sz[x] \in Nat /\ x + sz[x] <= brk
                            /\ (x = base <=> sz[x] = 0)
  BY Zenon DEF Tiles
<1>2. \A x, y \in DOMAIN sz : x < y => x + sz[x] <= y
  BY Zenon DEF Tiles
<1>3. \A x \in DOMAIN sz, t \in tk : t < x \/ x + sz[x] <= t
  BY Zenon DEF Tiles
<1>4. \A t \in 1 .. brk - 1 : t \in tk \/ \E x \in DOMAIN sz : t \in x .. x + sz[x] - 1
  BY Zenon DEF Tiles
<1>t. tk \subseteq 1 .. brk - 1
  BY Zenon DEF Tiles
<1>. USE DEF base
<1>5. tail \in Nat /\ a \in Nat /\ a < tail /\ a # base /\ tail # base /\ sz[a] \in Nat
  BY <1>1
<1>6. tail \notin DOMAIN sz
  BY <1>1, <1>2, <1>5
<1>o. \A x \in DOMAIN to : x \in {a, tail} \/ (x \in DOMAIN sz /\ to[x] = sz[x])
  BY Zenon
<1>7. \A x \in DOMAIN to : x \in Nat /\ to[x] \in Nat /\ x + to[x] <= brk
                            /\ (x = base <=> to[x] = 0)
  BY <1>1, <1>5, <1>o
<1>8. \A x, y \in DOMAIN to : x < y => x + to[x] <= y
  BY <1>1, <1>2, <1>5, <1>o
<1>9. \A x \in DOMAIN to, t \in tk : t < x \/ x + to[x] <= t
  <2>1. SUFFICES ASSUME NEW t \in tk
                 PROVE  (t < a \/ a + to[a] <= t) /\ (t < tail \/ tail + to[tail] <= t)
    BY <1>3, <1>o, Zenon
  <2>2. t < a \/ a + sz[a] <= t
    BY <1>3, Zenon
  <2>. QED BY <1>5, <2>2, <1>t
<1>10. \A t \in 1 .. brk - 1 : t \in tk \/ \E x \in DOMAIN to : t \in x .. x + to[x] - 1
  <2>1. SUFFICES ASSUME NEW t \in 1 .. brk - 1, t \notin tk
                 PROVE  \E x \in DOMAIN to : t \in x .. x + to[x] - 1
    BY Zenon
  <2>2. PICK x \in DOMAIN sz : t \in x .. x + sz[x] - 1
    BY <1>4, <2>1, Zenon
  <2>3. x = a => t \in a .. a + to[a] - 1 \/ t \in tail .. tail + to[tail] - 1
    BY <1>5, <2>2
  <2>4. x # a => x \in DOMAIN to /\ to[x] = sz[x]
    BY <1>6, Zenon
  <2>5. a \in DOMAIN to /\ tail \in DOMAIN to
    BY Zenon
  <2>. QED BY <2>2, <2>3, <2>4, <2>5, Zenon
<1>. QED BY <1>6, <1>7, <1>8, <1>9, <1>10, <1>t, Zenon DEF Tiles

(* A header whose block is no longer one of the heap.                       *)
LEMMA LeaveTiles ==
  ASSUME NEW sz, NEW brk \in Nat, NEW tk, Tiles(sz, brk, tk),
         NEW c \in DOMAIN sz, c # base,
         NEW to, DOMAIN to = DOMAIN sz \ {c}, \A x \in DOMAIN to : to[x] = sz[x]
  PROVE  Tiles(to, brk, tk \union (c .. c + sz[c] - 1))
<1>1. \A x \in DOMAIN sz : x \in Nat /\ sz[x] \in Nat /\ x + sz[x] <= brk
                            /\ (x = base <=> sz[x] = 0)
  BY Zenon DEF Tiles
<1>2. \A x, y \in DOMAIN sz : x < y => x + sz[x] <= y
  BY Zenon DEF Tiles
<1>3. \A x \in DOMAIN sz, t \in tk : t < x \/ x + sz[x] <= t
  BY Zenon DEF Tiles
<1>4. \A t \in 1 .. brk - 1 : t \in tk \/ \E x \in DOMAIN sz : t \in x .. x + sz[x] - 1
  BY Zenon DEF Tiles
<1>. USE DEF base
<1>5. tk \subseteq 1 .. brk - 1 /\ c .. c + sz[c] - 1 \subseteq 1 .. brk - 1
  <2>1. tk \subseteq 1 .. brk - 1
    BY Zenon DEF Tiles
  <2>2. c .. c + sz[c] - 1 \subseteq 1 .. brk - 1
    BY <1>1
  <2>. QED BY <2>1, <2>2, Zenon
<1>6. \A x \in DOMAIN to, t \in c .. c + sz[c] - 1 : t < x \/ x + to[x] <= t
  BY <1>1, <1>2
<1>. QED BY <1>1, <1>2, <1>3, <1>4, <1>5, <1>6, Zenon DEF Tiles

(* The heap grows by n for a header at its old end.                         *)
LEMMA GrowTiles ==
  ASSUME NEW sz, NEW brk \in Nat \ {0}, NEW tk, Tiles(sz, brk, tk), NEW n \in Nat \ {0},
         NEW to, DOMAIN to = DOMAIN sz \union {brk}, to[brk] = n,
         \A x \in DOMAIN sz : x # brk => to[x] = sz[x]
  PROVE  Tiles(to, brk + n, tk) /\ brk \notin DOMAIN sz
<1>. SUFFICES ASSUME NEW end, end = brk + n PROVE Tiles(to, end, tk) /\ brk \notin DOMAIN sz
  BY Zenon
<1>1. \A x \in DOMAIN sz : x \in Nat /\ sz[x] \in Nat /\ x + sz[x] <= brk
                            /\ (x = base <=> sz[x] = 0)
  BY Zenon DEF Tiles
<1>2. \A x, y \in DOMAIN sz : x < y => x + sz[x] <= y
  BY Zenon DEF Tiles
<1>3. \A x \in DOMAIN sz, t \in tk : t < x \/ x + sz[x] <= t
  BY Zenon DEF Tiles
<1>4. \A t \in 1 .. brk - 1 : t \in tk \/ \E x \in DOMAIN sz : t \in x .. x + sz[x] - 1
  BY Zenon DEF Tiles
<1>t. tk \subseteq 1 .. brk - 1
  BY Zenon DEF Tiles
<1>. USE DEF base
<1>5. brk \notin DOMAIN sz
  BY <1>1
<1>6. tk \subseteq 1 .. end - 1
  BY <1>t
<1>7. \A t \in 1 .. end - 1 : t \in 1 .. brk - 1 \/ t \in brk .. end - 1
  OBVIOUS
<1>8. Tiles(to, end, tk)
  <2>1. \A x \in DOMAIN to : x \in Nat /\ to[x] \in Nat /\ x + to[x] <= end
                              /\ (x = base <=> to[x] = 0)
    BY <1>1
  <2>2. \A x, y \in DOMAIN to : x < y => x + to[x] <= y
    BY <1>1, <1>2
  <2>3. \A x \in DOMAIN to, t \in tk : t < x \/ x + to[x] <= t
    BY <1>3, <1>5, <1>t
  <2>4. \A t \in 1 .. end - 1 : t \in tk \/ \E x \in DOMAIN to : t \in x .. x + to[x] - 1
    <3>1. SUFFICES ASSUME NEW t \in 1 .. end - 1, t \notin tk
                   PROVE  \E x \in DOMAIN to : t \in x .. x + to[x] - 1
      BY Zenon
    <3>2. t \in brk .. end - 1 => t \in brk .. brk + to[brk] - 1
      OBVIOUS
    <3>. QED BY <1>4, <1>5, <1>7, <3>1, <3>2, Zenon
  <2>. QED BY <2>1, <2>2, <2>3, <2>4, <1>6, Zenon DEF Tiles
<1>. QED BY <1>5, <1>8, Zenon

(* The heap grows for a call of sbrk by the program.                        *)
LEMMA SbrkTiles ==
  ASSUME NEW sz, NEW brk \in Nat \ {0}, NEW tk, Tiles(sz, brk, tk), NEW n \in Nat \ {0}
  PROVE  Tiles(sz, brk + n, tk \union (brk .. brk + n - 1))
<1>. SUFFICES ASSUME NEW end, end = brk + n PROVE Tiles(sz, end, tk \union (brk .. end - 1))
  OBVIOUS
<1>1. \A x \in DOMAIN sz : x \in Nat /\ sz[x] \in Nat /\ x + sz[x] <= brk
                            /\ (x = base <=> sz[x] = 0)
  BY Zenon DEF Tiles
<1>2. \A x, y \in DOMAIN sz : x < y => x + sz[x] <= y
  BY Zenon DEF Tiles
<1>3. \A x \in DOMAIN sz, t \in tk : t < x \/ x + sz[x] <= t
  BY Zenon DEF Tiles
<1>4. \A t \in 1 .. brk - 1 : t \in tk \/ \E x \in DOMAIN sz : t \in x .. x + sz[x] - 1
  BY Zenon DEF Tiles
<1>t. tk \subseteq 1 .. brk - 1
  BY Zenon DEF Tiles
<1>. USE DEF base
<1>6. tk \subseteq 1 .. end - 1 /\ (brk .. end - 1) \subseteq 1 .. end - 1
  BY <1>t
<1>7. \A t \in 1 .. end - 1 : t \in 1 .. brk - 1 \/ t \in brk .. end - 1
  OBVIOUS
<1>8. \A x \in DOMAIN sz : x \in Nat /\ sz[x] \in Nat /\ x + sz[x] <= end
  BY <1>1
<1>9. \A x \in DOMAIN sz, t \in brk .. end - 1 : t < x \/ x + sz[x] <= t
  BY <1>1
<1>. QED BY <1>1, <1>2, <1>3, <1>4, <1>6, <1>7, <1>8, <1>9, Zenon DEF Tiles

(* Headers of the same sizes tile the same heap.                            *)
LEMMA SameTiles ==
  ASSUME NEW sz, NEW brk, NEW tk, Tiles(sz, brk, tk),
         NEW to, DOMAIN to = DOMAIN sz, \A x \in DOMAIN sz : to[x] = sz[x]
  PROVE  Tiles(to, brk, tk)
BY ZenonT(30) DEF Tiles

(* malloc's units hold the bytes that are asked for, next to the header.    *)
LEMMA UnitsHoldBytes ==
  ASSUME NEW n \in Nat
  PROVE  /\ Units(n) \in Nat \ {0}
         /\ n <= (Units(n) - 1) * HeaderBytes
<1>. DEFINE q == (n + HeaderBytes - 1) \div HeaderBytes
<1>1. q \in Nat
  BY MallocAssumption
<1>2. n + HeaderBytes - 1 < (q + 1) * HeaderBytes
  BY MallocAssumption
<1>3. n <= q * HeaderBytes
  BY <1>1, <1>2, MallocAssumption
<1>4. Units(n) = q + 1
  BY Zenon DEF Units
<1>. QED BY <1>1, <1>3, <1>4

(* A finite set of numbers has a greatest one: there is an element with the *)
(* smallest set of elements above it.                                       *)
LEMMA Greatest ==
  ASSUME NEW F, F \subseteq Nat, IsFiniteSet(F), F # {}
  PROVE  \E m \in F : \A j \in F : j <= m
<1> DEFINE Above(i) == {j \in F : j > i}
           T == {Above(i) : i \in F}
<1>1. IsWellFoundedOn(StrictSubsetOrdering(F), SUBSET F)
  BY FS_StrictSubsetOrderingWellFounded, FS_FiniteSubsetsOfFinite, Zenon
<1>2. T \subseteq SUBSET F /\ T # {}
  BY Zenon
<1>3. PICK x \in T : \A y \in T : ~(<<y, x>> \in StrictSubsetOrdering(F))
  <2> HIDE DEF T
  <2> QED
    BY <1>1, <1>2, WFMin, Zenon
<1>4. PICK m \in F : x = Above(m)
  BY Zenon
<1>5. ASSUME NEW j \in F, j > m PROVE FALSE
  <2>1. Above(j) \in T /\ Above(j) \subseteq F /\ Above(m) \subseteq F
    BY Zenon
  <2>2. j \in Nat /\ m \in Nat /\ ~(j > j)
    OBVIOUS
  <2>3. j \notin Above(j) /\ j \in Above(m)
    BY <1>5, <2>2, Zenon
  <2>4. ASSUME NEW k \in F, k > j PROVE k > m
    BY <1>5, <2>2, <2>4
  <2>5. Above(j) \subseteq Above(m)
    BY <2>4, Zenon
  <2>6. <<Above(j), Above(m)>> \in StrictSubsetOrdering(F)
    <3> HIDE DEF Above
    <3> QED
      BY <2>1, <2>3, <2>5, Zenon DEF StrictSubsetOrdering
  <2> QED
    BY <1>3, <1>4, <2>1, <2>6, Zenon
<1> QED
  BY <1>5

(* Every block that is not on the list has a place on it: after the last of *)
(* those below it.                                                          *)
LEMMA PlaceExists ==
  ASSUME NEW B \in Nat, DOMAIN ptr \subseteq 0 .. B, base \in DOMAIN ptr,
         \A a \in DOMAIN ptr :
           /\ ptr[a] \in DOMAIN ptr
           /\ ptr[a] # base => a < ptr[a],
         bp \in Nat \ {0}, bp \notin DOMAIN ptr
  PROVE  \E a \in DOMAIN ptr : PlaceAfter(a)
<1>. DEFINE below == {a \in DOMAIN ptr : a < bp}
<1>1. below \in SUBSET Nat /\ below # {} /\ \A a \in below : a <= B
  BY DEF base
<1>2. IsFiniteSet(below)
  BY <1>1, FS_BoundedSetOfNaturals, Zenon
<1>3. PICK a \in below : \A c \in below : c <= a
  BY <1>1, <1>2, Greatest, Zenon
<1>7. a \in Nat /\ a < bp /\ ptr[a] \in Nat
  BY DEF base
<1>8. CASE ptr[a] = base
  BY <1>7, <1>8 DEF PlaceAfter, base
<1>9. CASE ptr[a] # base
  <2>1. a < ptr[a] /\ ptr[a] \in DOMAIN ptr
    BY <1>9, Zenon
  <2>2. ptr[a] \notin below
    BY <1>3, <1>7, <2>1
  <2>3. bp < ptr[a]
    BY <1>7, <2>1, <2>2
  <2>. QED BY <1>7, <2>3, Zenon DEF PlaceAfter
<1>. QED BY <1>8, <1>9, Zenon

(* What holds of the headers in every state.                                *)
LEMMA HeaderFacts ==
  ASSUME HeapInv
  PROVE  /\ \A a \in DOMAIN size : a \in Nat /\ size[a] \in Nat /\ a + size[a] <= break
                                    /\ (a = base <=> size[a] = 0)
         /\ DOMAIN ptr \subseteq DOMAIN size /\ Held \subseteq DOMAIN size
         /\ base \notin Held
         /\ Placing => bp \in DOMAIN size /\ bp # base
         /\ loop # "idle" => base \in DOMAIN ptr
<1>1. \A a \in DOMAIN size : a \in Nat /\ size[a] \in Nat /\ a + size[a] <= break
                             /\ (a = base <=> size[a] = 0)
  BY Zenon DEF HeapInv, Tiles
<1>2. DOMAIN ptr \subseteq DOMAIN size /\ Held \subseteq DOMAIN size
  BY Zenon DEF HeapInv, HeaderSets
<1>3. base \notin Held
  BY <1>2, Zenon DEF HeapInv, HeaderSets
<1>4. loop # "idle" => base \in DOMAIN ptr
  BY Zenon DEF HeapInv, HeaderSets
<1>5. Placing => bp \in DOMAIN size
  BY Zenon DEF HeapInv, HeaderSets
<1>6. Placing => loop # "idle"
  BY Zenon DEF Placing
<1>7. Placing => bp # base
  BY <1>4, <1>6, Zenon DEF HeapInv, LoopInv
<1>. QED BY <1>1, <1>2, <1>3, <1>4, <1>5, <1>7, Zenon

(* The heap of a program that has called nothing.                           *)
LEMMA HeapInit ==
  ASSUME MallocInit
  PROVE  HeapInv
<1>1. DOMAIN ptr = {} /\ DOMAIN size = {} /\ live = {} /\ Held = {}
  BY Zenon DEF MallocInit, Held
<1>2. break = 1 /\ Gone = {} /\ freep = None /\ loop = "idle"
  BY Zenon DEF MallocInit, Gone
<1>3. Tiles(size, break, Gone)
  BY <1>1, <1>2 DEF Tiles
<1>4. ~Placing
  BY <1>2, Zenon DEF Placing
<1>5. Ordered(ptr, size) /\ HeaderSets /\ HeldBlocks
  BY <1>1, <1>2, <1>4, Zenon DEF Ordered, HeaderSets, HeldBlocks
<1>6. LoopInv
  BY <1>2, Zenon DEF LoopInv, Placing
<1>. QED BY <1>2, <1>3, <1>5, <1>6 DEF HeapInv

(* A call of sbrk by the program.                                           *)
LEMMA SbrkPreserves ==
  ASSUME HeapInv, NEW n \in Gaps, sbrk(n)
  PROVE  HeapInv'
<1>1. ptr' = ptr /\ size' = size /\ freep' = freep /\ live' = live /\ loop' = loop
      /\ request' = request /\ cursor' = cursor /\ prevp' = prevp /\ bp' = bp
  BY Zenon DEF sbrk, list, locals
<1>2. break' = break + n /\ Gone' = Gone \union (break .. break + n - 1)
  BY Zenon DEF sbrk, Gone
<1>3. n \in Nat \ {0} /\ break \in Nat \ {0} /\ Tiles(size, break, Gone)
  BY MallocAssumption, Zenon DEF HeapInv
<1>5. Tiles(size', break', Gone')
  <2>1. Tiles(size, break + n, Gone \union (break .. break + n - 1))
    BY <1>3, SbrkTiles, Zenon
  <2>. QED BY <1>1, <1>2, <2>1, Zenon
<1>6. break' \in Nat \ {0}
  BY <1>2, <1>3
<1>7. Ordered(ptr, size)' /\ HeaderSets' /\ HeldBlocks' /\ LoopInv'
  BY <1>1, Zenon DEF HeapInv, Ordered, HeaderSets, HeldBlocks, LoopInv, Held, Placing
<1>. QED BY <1>5, <1>6, <1>7, Zenon DEF HeapInv

(* A call of malloc, up to its loop.                                        *)
LEMMA BeginPreserves ==
  ASSUME HeapInv, NEW n \in Sizes, NEW old, Begin(n, old),
         old = {} \/ \E b \in live : old = {b}
  PROVE  HeapInv'
<1>1. break' = break /\ live' = live /\ Gone' = Gone /\ bp' = bp
  BY Zenon DEF Begin, program, Gone
<1>2. loop = "idle" /\ loop' = "search" /\ prevp' = freep' /\ cursor' = ptr'[freep']
      /\ request' = [bytes |-> n, old |-> old]
  BY Zenon DEF Begin
<1>3. request'.bytes = n /\ request'.old = old
  BY <1>2, Zenon
<1>4. ~Placing /\ ~Placing' /\ loop' # "idle" /\ Held' = Held
  BY <1>1, <1>2, ZenonT(30) DEF Placing, Held
<1>5. CASE freep = None
  <2>1. DOMAIN size = {} /\ DOMAIN ptr = {} /\ Held = {} /\ live = {}
    BY <1>5, Zenon DEF HeapInv, HeaderSets, Held
  <2>2. freep' = base /\ ptr' = [a \in {base} |-> base] /\ size' = [a \in {base} |-> 0]
    BY <1>5, Zenon DEF Begin
  <2>3. /\ DOMAIN ptr' = {base} /\ ptr'[base] = base
        /\ DOMAIN size' = {base} /\ size'[base] = 0
    BY <2>2, Zenon
  <2>4. Tiles(size', break', Gone')
    <3>1. break \in Nat \ {0} /\ Gone \subseteq 1 .. break - 1
      BY Zenon DEF HeapInv, Tiles
    <3>2. \A t \in 1 .. break - 1 : t \in Gone
      BY <2>1, Zenon DEF HeapInv, Tiles
    <3>3. \A a \in DOMAIN size' : a = base /\ size'[a] = 0
      BY <2>3, Zenon
    <3>. QED BY <3>1, <3>2, <3>3, <1>1 DEF Tiles, base
  <2>5. Ordered(ptr', size')
    BY <2>3 DEF Ordered, base
  <2>6. HeaderSets'
    <3>1. base # None
      BY MallocAssumption DEF base
    <3>. QED BY <1>4, <2>1, <2>2, <2>3, <3>1, Zenon DEF HeaderSets
  <2>7. HeldBlocks'
    BY <1>1, <2>1, Zenon DEF HeldBlocks
  <2>8. LoopInv'
    BY <1>1, <1>2, <1>3, <1>4, <2>2, <2>3, Zenon DEF LoopInv
  <2>. QED BY <1>1, <2>4, <2>5, <2>6, <2>7, <2>8, Zenon DEF HeapInv
<1>6. CASE freep # None
  <2>1. freep' = freep /\ ptr' = ptr /\ size' = size
    BY <1>6, Zenon DEF Begin, list
  <2>2. Tiles(size', break', Gone') /\ Ordered(ptr', size') /\ HeldBlocks'
    BY <1>1, <2>1, Zenon DEF HeapInv, HeldBlocks
  <2>3. HeaderSets'
    BY <1>4, <1>6, <2>1, Zenon DEF HeapInv, HeaderSets
  <2>4. LoopInv'
    BY <1>1, <1>2, <1>3, <1>4, <1>6, <2>1, Zenon DEF HeapInv, HeaderSets, LoopInv
  <2>. QED BY <1>1, <2>2, <2>3, <2>4, Zenon DEF HeapInv
<1>. QED BY <1>5, <1>6, Zenon

(* malloc goes on to the next free block.                                   *)
LEMMA SearchOnPreserves ==
  ASSUME HeapInv, SearchOn
  PROVE  HeapInv'
<1>1. ptr' = ptr /\ size' = size /\ freep' = freep /\ live' = live /\ loop' = loop
      /\ request' = request /\ cursor' = ptr[cursor] /\ prevp' = cursor /\ bp' = bp
      /\ break' = break /\ Gone' = Gone /\ loop = "search"
  BY Zenon DEF SearchOn, list, program, Gone
<1>2. cursor \in DOMAIN ptr
  BY <1>1, Zenon DEF HeapInv, LoopInv, Ordered
<1>3. ~Placing /\ ~Placing' /\ Held' = Held
  BY <1>1, Zenon DEF Placing, Held
<1>4. LoopInv'
  BY <1>1, <1>2, <1>3, Zenon DEF HeapInv, LoopInv
<1>5. Tiles(size', break', Gone') /\ Ordered(ptr', size') /\ HeaderSets' /\ HeldBlocks'
  BY <1>1, <1>3, Zenon DEF HeapInv, HeaderSets, HeldBlocks
<1>. QED BY <1>1, <1>4, <1>5, Zenon DEF HeapInv

(* free goes on to the next free block.                                     *)
LEMMA PlaceOnPreserves ==
  ASSUME HeapInv, PlaceOn
  PROVE  HeapInv'
<1>1. ptr' = ptr /\ size' = size /\ freep' = freep /\ live' = live /\ loop' = loop
      /\ request' = request /\ cursor' = ptr[cursor] /\ prevp' = prevp /\ bp' = bp
      /\ break' = break /\ Gone' = Gone /\ Placing
  BY Zenon DEF PlaceOn, list, program, Gone
<1>2. ptr[cursor] \in DOMAIN ptr
  BY <1>1, Zenon DEF HeapInv, LoopInv, Ordered
<1>3. loop # "search" /\ Placing' /\ Held' = Held
  BY <1>1, Zenon DEF Placing, Held
<1>4. LoopInv'
  BY <1>1, <1>2, <1>3, Zenon DEF HeapInv, LoopInv
<1>5. Tiles(size', break', Gone') /\ Ordered(ptr', size') /\ HeaderSets' /\ HeldBlocks'
  BY <1>1, <1>3, Zenon DEF HeapInv, HeaderSets, HeldBlocks
<1>. QED BY <1>1, <1>4, <1>5, Zenon DEF HeapInv

(* A call of free, up to its loop.                                          *)
LEMMA FreePreserves ==
  ASSUME HeapInv, NEW b \in live, free(b)
  PROVE  HeapInv'
<1>1. ptr' = ptr /\ size' = size /\ freep' = freep /\ live' = live \ {b} /\ loop' = "free"
      /\ request' = request /\ cursor' = freep /\ prevp' = prevp /\ bp' = b.addr
      /\ break' = break /\ Gone' = Gone /\ loop = "idle"
  BY Zenon DEF free, list, Gone
<1>2. b.addr \in Held /\ Held' = Held \ {b.addr}
  BY <1>1, Zenon DEF Held, HeapInv, HeldBlocks
<1>3. ~Placing /\ Placing'
  BY <1>1, Zenon DEF Placing
<1>4. freep # None
  BY <1>2, HeaderFacts, Zenon DEF HeapInv, HeaderSets
<1>5. HeaderSets'
  BY <1>1, <1>2, <1>3, <1>4, Zenon DEF HeapInv, HeaderSets
<1>6. HeldBlocks'
  BY <1>1, Zenon DEF HeapInv, HeldBlocks
<1>7. LoopInv'
  <2>1. freep \in DOMAIN ptr /\ b.addr \notin DOMAIN ptr
    BY <1>2, <1>4, Zenon DEF HeapInv, HeaderSets
  <2>. QED BY <1>1, <1>2, <1>3, <2>1, Zenon DEF LoopInv
<1>. QED BY <1>1, <1>5, <1>6, <1>7, Zenon DEF HeapInv

(* morecore has a new block from sbrk.                                      *)
LEMMA MorecorePreserves ==
  ASSUME HeapInv, morecore
  PROVE  HeapInv'
<1>. DEFINE n == IF nunits < MoreUnits THEN MoreUnits ELSE nunits
<1>1. ptr' = ptr /\ freep' = freep /\ live' = live /\ Gone' = Gone /\ request' = request
      /\ cursor' = cursor /\ prevp' = prevp /\ bp' = break /\ loop = "search"
      /\ loop' = "morecore" /\ cursor = freep
  BY Zenon DEF morecore, Gone
<1>2. break' = break + n
      /\ size' = [a \in DOMAIN size \union {break} |-> IF a = break THEN n ELSE size[a]]
  BY Zenon DEF morecore
<1>3. n \in Nat \ {0}
  <2>1. request.bytes \in Nat
    BY <1>1, MallocAssumption, Zenon DEF HeapInv, LoopInv
  <2>2. nunits \in Nat \ {0}
    BY <2>1, UnitsHoldBytes, Zenon DEF nunits
  <2>. QED BY <2>2, MallocAssumption, Zenon
<1>. HIDE DEF n
<1>4. DOMAIN size' = DOMAIN size \union {break} /\ size'[break] = n
      /\ \A x \in DOMAIN size : x # break => size'[x] = size[x]
  BY <1>2, Zenon
<1>5. Tiles(size', break', Gone') /\ break \notin DOMAIN size /\ break' \in Nat \ {0}
  <2>1. break \in Nat \ {0} /\ Tiles(size, break, Gone)
    BY Zenon DEF HeapInv
  <2>2. Tiles(size', break + n, Gone) /\ break \notin DOMAIN size
    BY <1>3, <1>4, <2>1, GrowTiles, ZenonT(30)
  <2>3. break' \in Nat \ {0}
    BY <1>2, <1>3, <2>1
  <2>. QED BY <1>1, <1>2, <2>2, <2>3, Zenon
<1>6. \A x \in DOMAIN size : size'[x] = size[x]
  BY <1>4, <1>5, Zenon
<1>7. Held' = Held /\ ~Placing /\ Placing'
  BY <1>1, Zenon DEF Held, Placing
<1>8. HeaderSets'
  <2>1. freep # None
    BY <1>1, Zenon DEF HeapInv, HeaderSets
  <2>. QED BY <1>1, <1>4, <1>7, <2>1, Zenon DEF HeapInv, HeaderSets
<1>9. Ordered(ptr', size')
  BY <1>1, <1>6, HeaderFacts, Zenon DEF HeapInv, Ordered
<1>10. HeldBlocks'
  <2>1. \A b \in live : b.addr \in DOMAIN size
    BY HeaderFacts, Zenon DEF Held
  <2>. QED BY <1>1, <1>6, <2>1, Zenon DEF HeapInv, HeldBlocks
<1>11. LoopInv'
  <2>1. cursor \in DOMAIN ptr /\ break \notin DOMAIN ptr \union Held
    BY <1>1, <1>5, HeaderFacts, Zenon DEF HeapInv, LoopInv, Ordered
  <2>2. /\ request.bytes \in Sizes
        /\ request.old = {} \/ \E b \in live : request.old = {b}
    BY <1>1, Zenon DEF HeapInv, LoopInv
  <2>. QED BY <1>1, <1>7, <2>1, <2>2, Zenon DEF LoopInv
<1>. QED BY <1>5, <1>8, <1>9, <1>10, <1>11, Zenon DEF HeapInv

(* malloc returns the header at addr, which is not one of the program's.    *)
LEMMA ReturnFacts ==
  ASSUME HeapInv, loop = "search", NEW addr, Return(addr), addr \notin Held
  PROVE  /\ OldHeaders \subseteq Held
         /\ Held' = (Held \ OldHeaders) \union {addr}
         /\ \A b \in live' :
              \/ b \in live /\ b.addr \notin OldHeaders
              \/ b.addr = addr /\ b.bytes = request.bytes
         /\ \A b, c \in live' : b.addr = c.addr => b = c
         /\ loop' = "idle" /\ freep' = prevp /\ break' = break
<1>1. loop' = "idle" /\ freep' = prevp /\ break' = break
  BY Zenon DEF Return, Idle
<1>. DEFINE new == [addr |-> addr, bytes |-> request.bytes, kept |-> Kept]
<1>2. live' = (live \ request.old) \union {new}
  BY Zenon DEF Return
<1>3. new.addr = addr /\ new.bytes = request.bytes
  BY Zenon
<1>4. \A b \in live' : b \in live \ request.old \/ b = new
  BY <1>2, Zenon
<1>5. new \in live' /\ \A b \in live \ request.old : b \in live'
  BY <1>2, Zenon
<1>. HIDE DEF new
<1>6. request.old \subseteq live
  <2>1. request.old = {} \/ \E b \in live : request.old = {b}
    BY Zenon DEF HeapInv, LoopInv
  <2>. QED BY <2>1, Zenon
<1>7. OldHeaders \subseteq Held
  BY <1>6, Zenon DEF OldHeaders, Held
<1>8. \A b \in live \ request.old : b.addr \notin OldHeaders /\ b.addr \in Held
  BY <1>6, Zenon DEF OldHeaders, Held, HeapInv, HeldBlocks
<1>9. Held' = (Held \ OldHeaders) \union {addr}
  <2>1. \A x : x \in Held' <=> \E b \in live' : x = b.addr
    BY Zenon DEF Held
  <2>2. \A x : x \in Held <=> \E b \in live : x = b.addr
    BY Zenon DEF Held
  <2>3. \A x : x \in OldHeaders <=> \E b \in request.old : x = b.addr
    BY Zenon DEF OldHeaders
  <2>4. ASSUME NEW b \in live' PROVE b.addr \in (Held \ OldHeaders) \union {addr}
    BY <1>3, <1>4, <1>8, Zenon
  <2>5. (Held \ OldHeaders) \union {addr} \subseteq Held'
    BY <1>3, <1>5, <2>1, <2>2, <2>3, Zenon
  <2>. QED BY <2>1, <2>4, <2>5, Zenon
<1>10. \A b \in live' : \/ b \in live /\ b.addr \notin OldHeaders
                        \/ b.addr = addr /\ b.bytes = request.bytes
  BY <1>3, <1>4, <1>8, Zenon
<1>11. \A b, c \in live' : b.addr = c.addr => b = c
  BY <1>3, <1>4, <1>8, Zenon DEF HeapInv, HeldBlocks
<1>. QED BY <1>1, <1>7, <1>9, <1>10, <1>11, Zenon

(* The old block of realloc is no longer one of the heap.                   *)
LEMMA OldTiles ==
  ASSUME HeapInv, loop = "search", NEW sz, Tiles(sz, break, Gone),
         \A b \in live : b.addr \in DOMAIN sz /\ sz[b.addr] = size[b.addr],
         NEW to, DOMAIN to = DOMAIN sz \ OldHeaders, \A x \in DOMAIN to : to[x] = sz[x]
  PROVE  Tiles(to, break, Gone \union
                 UNION {b.addr .. b.addr + size[b.addr] - 1 : b \in request.old})
<1>. DEFINE left == UNION {b.addr .. b.addr + size[b.addr] - 1 : b \in request.old}
<1>1. CASE request.old = {}
  <2>1. OldHeaders = {} /\ Gone \union left = Gone
    BY <1>1, Zenon DEF OldHeaders
  <2>2. Tiles(to, break, Gone)
    BY <2>1, SameTiles, Zenon
  <2>. QED BY <2>1, <2>2, Zenon
<1>2. ASSUME NEW b \in live, request.old = {b} PROVE Tiles(to, break, Gone \union left)
  <2>1. OldHeaders = {b.addr} /\ left = b.addr .. b.addr + sz[b.addr] - 1
    <3>1. left = b.addr .. b.addr + size[b.addr] - 1
      BY <1>2, Zenon
    <3>2. OldHeaders = {b.addr}
      BY <1>2, Zenon DEF OldHeaders
    <3>. QED BY <3>1, <3>2, Zenon
  <2>2. b.addr # base
    BY HeaderFacts, Zenon DEF Held
  <2>3. break \in Nat
    BY Zenon DEF HeapInv
  <2>4. Tiles(to, break, Gone \union (b.addr .. b.addr + sz[b.addr] - 1))
    BY <2>1, <2>2, <2>3, LeaveTiles, Zenon
  <2>. QED BY <2>1, <2>4, Zenon
<1>. QED BY <1>1, <1>2, Zenon DEF HeapInv, LoopInv

(* What follows from the order of the list: a block other than base comes   *)
(* after one only.                                                          *)
LEMMA OneBefore ==
  ASSUME HeapInv, NEW a \in DOMAIN ptr, NEW c \in DOMAIN ptr, a # c, ptr[a] # base
  PROVE  ptr[a] # ptr[c]
<1>1. \A x \in DOMAIN ptr : x \in Nat /\ size[x] \in Nat
  BY HeaderFacts, Zenon
<1>2. \A x \in DOMAIN ptr :
        /\ ptr[x] \in DOMAIN ptr
        /\ ptr[x] # base => x + size[x] < ptr[x]
        /\ \A y \in DOMAIN ptr : x < y => ptr[x] # base /\ ptr[x] <= y
  BY Zenon DEF HeapInv, Ordered
<1>. QED BY <1>1, <1>2

(* malloc takes a free block off the list.                                  *)
LEMMA TakeBlockPreserves ==
  ASSUME HeapInv, TakeBlock
  PROVE  HeapInv'
<1>1. loop = "search" /\ size[cursor] = nunits /\ Return(cursor)
  BY Zenon DEF TakeBlock
<1>2. DOMAIN ptr' = DOMAIN ptr \ {cursor}
      /\ \A a \in DOMAIN ptr' : ptr'[a] = IF a = prevp THEN ptr[cursor] ELSE ptr[a]
  BY Zenon DEF TakeBlock
<1>3. DOMAIN size' = DOMAIN size \ OldHeaders /\ \A a \in DOMAIN size' : size'[a] = size[a]
  BY Zenon DEF TakeBlock
<1>4. prevp \in DOMAIN ptr /\ cursor = ptr[prevp] /\ cursor \in DOMAIN ptr
  BY <1>1, Zenon DEF HeapInv, LoopInv, Ordered
<1>5. request.bytes \in Nat /\ nunits \in Nat \ {0}
      /\ request.bytes <= (nunits - 1) * HeaderBytes /\ request.bytes \in Sizes
  <2>1. request.bytes \in Sizes
    BY <1>1, Zenon DEF HeapInv, LoopInv
  <2>2. request.bytes \in Nat
    BY <2>1, MallocAssumption, Zenon
  <2>. QED BY <2>1, <2>2, UnitsHoldBytes, Zenon DEF nunits
<1>6. cursor # base /\ cursor \notin Held
  <2>1. size[cursor] # 0
    BY <1>1, <1>5, Zenon
  <2>. QED BY <2>1, <1>4, HeaderFacts, Zenon DEF HeapInv, HeaderSets
<1>7. /\ OldHeaders \subseteq Held
      /\ Held' = (Held \ OldHeaders) \union {cursor}
      /\ \A b \in live' :
           \/ b \in live /\ b.addr \notin OldHeaders
           \/ b.addr = cursor /\ b.bytes = request.bytes
      /\ \A b, c \in live' : b.addr = c.addr => b = c
      /\ loop' = "idle" /\ freep' = prevp /\ break' = break
  BY <1>1, <1>6, ReturnFacts, Zenon
<1>8. \A b \in live : b.addr \in DOMAIN size
  BY HeaderFacts, Zenon DEF Held
<1>9. Tiles(size', break', Gone')
  <2>1. Tiles(size', break, Gone \union
                 UNION {b.addr .. b.addr + size[b.addr] - 1 : b \in request.old})
    BY <1>1, <1>3, <1>8, OldTiles, Zenon DEF HeapInv
  <2>2. Gone' = Gone \union UNION {b.addr .. b.addr + size[b.addr] - 1 : b \in request.old}
    BY <1>1, Zenon DEF Return, Gone
  <2>. QED BY <1>7, <2>1, <2>2, Zenon
<1>10. \A x \in DOMAIN ptr : x \in Nat /\ size[x] \in Nat
  BY HeaderFacts, Zenon
<1>11. \A x \in DOMAIN ptr :
        /\ ptr[x] \in DOMAIN ptr
        /\ ptr[x] # base => x + size[x] < ptr[x]
        /\ \A y \in DOMAIN ptr : x < y => ptr[x] # base /\ ptr[x] <= y
  BY Zenon DEF HeapInv, Ordered
<1>12. prevp < cursor /\ prevp # cursor /\ prevp + size[prevp] < cursor
  BY <1>4, <1>6, <1>10, <1>11
<1>13. \A x \in DOMAIN ptr' : x \in DOMAIN ptr /\ x # cursor /\ size'[x] = size[x]
  BY <1>2, <1>3, <1>7, HeaderFacts, Zenon DEF HeapInv, HeaderSets
<1>14. Ordered(ptr', size')
  <2>1. ptr[cursor] # cursor /\ (ptr[cursor] # base => cursor < ptr[cursor])
    BY <1>4, <1>6, <1>10, <1>11
  <2>2. ASSUME NEW x \in DOMAIN ptr', x # prevp
        PROVE  /\ ptr'[x] = ptr[x] /\ ptr'[x] \in DOMAIN ptr'
               /\ ptr'[x] # base => x + size'[x] < ptr'[x]
               /\ \A y \in DOMAIN ptr' : x < y => ptr'[x] # base /\ ptr'[x] <= y
    <3>1. ptr'[x] = ptr[x] /\ ptr[x] # cursor
      BY <1>2, <1>4, <1>6, <1>13, <2>2, OneBefore, Zenon
    <3>. QED BY <1>2, <1>11, <1>13, <3>1, Zenon
  <2>3. ptr'[prevp] = ptr[cursor] /\ prevp \in DOMAIN ptr' /\ ptr[cursor] \in DOMAIN ptr'
    BY <1>2, <1>4, <1>11, <1>12, <2>1, Zenon
  <2>4. ptr[cursor] # base => prevp + size'[prevp] < ptr[cursor]
    BY <1>4, <1>10, <1>11, <1>12, <1>13, <2>1, <2>3
  <2>5. \A y \in DOMAIN ptr' : prevp < y => ptr[cursor] # base /\ ptr[cursor] <= y
    BY <1>4, <1>10, <1>11, <1>13
  <2>. QED BY <2>2, <2>3, <2>4, <2>5, Zenon DEF Ordered
<1>15. ~Placing /\ ~Placing'
  BY <1>1, <1>7, Zenon DEF Placing
<1>16. HeaderSets'
  <2>1. freep # None /\ base \in DOMAIN ptr
    BY <1>1, Zenon DEF HeapInv, HeaderSets
  <2>2. prevp # None
    BY <1>4, <1>10, MallocAssumption, Zenon
  <2>3. prevp \in DOMAIN ptr' /\ base \in DOMAIN ptr'
    BY <1>2, <1>4, <1>6, <1>12, <2>1, Zenon
  <2>4. DOMAIN size = DOMAIN ptr \union Held /\ DOMAIN ptr \intersect Held = {}
    BY <1>15, Zenon DEF HeapInv, HeaderSets
  <2>5. DOMAIN size' = DOMAIN ptr' \union Held' /\ DOMAIN ptr' \intersect Held' = {}
    <3>1. DOMAIN size' = DOMAIN ptr' \union Held'
      BY <1>2, <1>3, <1>4, <1>7, <2>4, ZenonT(30)
    <3>2. DOMAIN ptr' \intersect Held' = {}
      BY <1>2, <1>4, <1>7, <2>4, ZenonT(30)
    <3>. QED BY <3>1, <3>2, Zenon
  <2>. QED BY <1>7, <1>15, <2>2, <2>3, <2>5, Zenon DEF HeaderSets
<1>17. HeldBlocks'
  <2>1. ASSUME NEW b \in live'
        PROVE  b.bytes \in Nat \ {0} /\ b.bytes <= (size'[b.addr] - 1) * HeaderBytes
    <3>1. CASE b \in live /\ b.addr \notin OldHeaders
      BY <3>1, <1>3, <1>8, Zenon DEF HeapInv, HeldBlocks
    <3>2. CASE b.addr = cursor /\ b.bytes = request.bytes
      <4>1. size'[cursor] = nunits
        BY <1>1, <1>3, <1>4, <1>6, <1>7, HeaderFacts, Zenon
      <4>2. request.bytes # 0
        BY <1>5, MallocAssumption, Zenon
      <4>. QED BY <3>2, <4>1, <4>2, <1>5, Zenon
    <3>. QED BY <3>1, <3>2, <1>7, Zenon
  <2>. QED BY <2>1, <1>7, Zenon DEF HeldBlocks
<1>18. LoopInv'
  BY <1>7, <1>15, Zenon DEF LoopInv
<1>. QED BY <1>7, <1>9, <1>14, <1>16, <1>17, <1>18, Zenon DEF HeapInv

(* malloc cuts the tail off a free block.                                   *)
LEMMA SplitPreserves ==
  ASSUME HeapInv, Split
  PROVE  HeapInv'
<1>. DEFINE tail == cursor + (size[cursor] - nunits)
            sz == [a \in DOMAIN size \union {tail} |->
                     IF a = tail THEN nunits
                     ELSE IF a = cursor THEN size[cursor] - nunits ELSE size[a]]
<1>1. loop = "search" /\ size[cursor] > nunits /\ Return(tail) /\ ptr' = ptr
  BY Zenon DEF Split
<1>2. size' = [a \in (DOMAIN size \ OldHeaders) \union {tail} |->
                 IF a = tail THEN nunits
                 ELSE IF a = cursor THEN size[cursor] - nunits ELSE size[a]]
  BY Zenon DEF Split
<1>3. prevp \in DOMAIN ptr /\ cursor \in DOMAIN ptr /\ cursor \in DOMAIN size
  BY <1>1, HeaderFacts, Zenon DEF HeapInv, LoopInv, Ordered
<1>4. request.bytes \in Nat /\ nunits \in Nat \ {0}
      /\ request.bytes <= (nunits - 1) * HeaderBytes /\ request.bytes \in Sizes
  <2>1. request.bytes \in Sizes
    BY <1>1, Zenon DEF HeapInv, LoopInv
  <2>2. request.bytes \in Nat
    BY <2>1, MallocAssumption, Zenon
  <2>. QED BY <2>1, <2>2, UnitsHoldBytes, Zenon DEF nunits
<1>5. cursor \in Nat /\ size[cursor] \in Nat /\ nunits < size[cursor]
      /\ tail = cursor + size[cursor] - nunits /\ cursor # tail
  BY <1>1, <1>3, <1>4, HeaderFacts
<1>6. /\ DOMAIN sz = DOMAIN size \union {tail} /\ sz[tail] = nunits
      /\ sz[cursor] = size[cursor] - nunits
      /\ \A x \in DOMAIN size : x \notin {cursor, tail} => sz[x] = size[x]
  BY <1>3, <1>5, Zenon
<1>s. /\ DOMAIN size' = (DOMAIN size \ OldHeaders) \union {tail}
      /\ \A x \in DOMAIN size' : size'[x] = sz[x]
  BY <1>2, Zenon
<1>. HIDE DEF tail, sz
<1>7. Tiles(sz, break, Gone) /\ tail \notin DOMAIN size
  <2>1. break \in Nat /\ Tiles(size, break, Gone)
    BY Zenon DEF HeapInv
  <2>. QED BY <1>3, <1>4, <1>5, <1>6, <2>1, SplitTiles
<1>8. tail \notin Held /\ tail \notin DOMAIN ptr /\ cursor \notin Held
  BY <1>3, <1>7, HeaderFacts, Zenon DEF HeapInv, HeaderSets
<1>9. /\ OldHeaders \subseteq Held
      /\ Held' = (Held \ OldHeaders) \union {tail}
      /\ \A b \in live' :
           \/ b \in live /\ b.addr \notin OldHeaders
           \/ b.addr = tail /\ b.bytes = request.bytes
      /\ \A b, c \in live' : b.addr = c.addr => b = c
      /\ loop' = "idle" /\ freep' = prevp /\ break' = break
  BY <1>1, <1>8, ReturnFacts, Zenon
<1>10. \A b \in live : b.addr \in DOMAIN size /\ b.addr \in DOMAIN sz /\ sz[b.addr] = size[b.addr]
  <2>1. \A b \in live : b.addr \in Held
    BY Zenon DEF Held
  <2>. QED BY <2>1, <1>6, <1>8, HeaderFacts, Zenon
<1>11. Tiles(size', break', Gone')
  <2>1. DOMAIN size' = DOMAIN sz \ OldHeaders
    BY <1>s, <1>6, <1>8, <1>9, Zenon
  <2>2. Tiles(size', break, Gone \union
                 UNION {b.addr .. b.addr + size[b.addr] - 1 : b \in request.old})
    BY <1>1, <1>s, <1>7, <1>10, <2>1, OldTiles, Zenon
  <2>3. Gone' = Gone \union UNION {b.addr .. b.addr + size[b.addr] - 1 : b \in request.old}
    BY <1>1, Zenon DEF Return, Gone
  <2>. QED BY <1>9, <2>2, <2>3, Zenon
<1>12. \A x \in DOMAIN ptr : /\ x \in Nat /\ size[x] \in Nat /\ size'[x] \in Nat
                             /\ size'[x] <= size[x]
  <2>1. SUFFICES ASSUME NEW x \in DOMAIN ptr
                 PROVE  x \in Nat /\ size[x] \in Nat /\ size'[x] \in Nat /\ size'[x] <= size[x]
    BY Zenon
  <2>2. x \in DOMAIN size /\ x \in Nat /\ size[x] \in Nat /\ x # tail /\ x \notin OldHeaders
    BY <1>8, <1>9, HeaderFacts, Zenon DEF HeapInv, HeaderSets
  <2>3. size'[x] = IF x = cursor THEN size[cursor] - nunits ELSE size[x]
    BY <1>s, <1>6, <2>2, Zenon
  <2>. QED BY <1>4, <1>5, <2>2, <2>3
<1>13. Ordered(ptr', size')
  <2>1. \A x \in DOMAIN ptr :
          /\ ptr[x] \in DOMAIN ptr
          /\ ptr[x] # base => x + size[x] < ptr[x]
          /\ \A y \in DOMAIN ptr : x < y => ptr[x] # base /\ ptr[x] <= y
    BY Zenon DEF HeapInv, Ordered
  <2>2. \A x \in DOMAIN ptr : ptr[x] # base => x + size'[x] < ptr[x]
    BY <1>12, <2>1
  <2>. QED BY <1>1, <2>1, <2>2, Zenon DEF Ordered
<1>14. ~Placing /\ ~Placing'
  BY <1>1, <1>9, Zenon DEF Placing
<1>15. HeaderSets'
  <2>1. freep # None /\ base \in DOMAIN ptr
    BY <1>1, Zenon DEF HeapInv, HeaderSets
  <2>2. prevp # None
    BY <1>3, <1>12, MallocAssumption, Zenon
  <2>3. DOMAIN size = DOMAIN ptr \union Held /\ DOMAIN ptr \intersect Held = {}
    BY <1>14, Zenon DEF HeapInv, HeaderSets
  <2>4. DOMAIN size' = DOMAIN ptr \union Held' /\ DOMAIN ptr \intersect Held' = {}
    BY <1>s, <1>8, <1>9, <2>3
  <2>. QED BY <1>1, <1>3, <1>9, <1>14, <2>1, <2>2, <2>4, Zenon DEF HeaderSets
<1>16. HeldBlocks'
  <2>1. ASSUME NEW b \in live'
        PROVE  b.bytes \in Nat \ {0} /\ b.bytes <= (size'[b.addr] - 1) * HeaderBytes
    <3>1. CASE b \in live /\ b.addr \notin OldHeaders
      <4>1. size'[b.addr] = size[b.addr]
        BY <3>1, <1>s, <1>10
      <4>. QED BY <3>1, <4>1, Zenon DEF HeapInv, HeldBlocks
    <3>2. CASE b.addr = tail /\ b.bytes = request.bytes
      <4>1. size'[tail] = nunits
        BY <1>s, <1>6, Zenon
      <4>2. request.bytes # 0
        BY <1>4, MallocAssumption, Zenon
      <4>. QED BY <3>2, <4>1, <4>2, <1>4, Zenon
    <3>. QED BY <3>1, <3>2, <1>9, Zenon
  <2>. QED BY <2>1, <1>9, Zenon DEF HeldBlocks
<1>17. LoopInv'
  BY <1>9, <1>14, Zenon DEF LoopInv
<1>. QED BY <1>9, <1>11, <1>13, <1>15, <1>16, <1>17, Zenon DEF HeapInv

(* A call of realloc, up to the loop of malloc.                             *)
LEMMA ReallocPreserves ==
  ASSUME HeapInv, NEW b \in live, NEW n \in Sizes, realloc(b, n)
  PROVE  HeapInv'
<1>1. CASE Begin(n, {b})
  BY <1>1, BeginPreserves, Zenon
<1>2. CASE /\ loop = "idle" /\ n = size[b.addr]
           /\ live' = (live \ {b}) \union
                {[addr |-> b.addr, bytes |-> n, kept |-> least(b.kept, n)]}
           /\ UNCHANGED <<list, break, taken, leaked, locals>>
  <2>. DEFINE new == [addr |-> b.addr, bytes |-> n, kept |-> least(b.kept, n)]
  <2>1. ptr' = ptr /\ size' = size /\ freep' = freep /\ loop' = loop
        /\ request' = request /\ cursor' = cursor /\ prevp' = prevp /\ bp' = bp
        /\ break' = break /\ Gone' = Gone
    BY <1>2, Zenon DEF list, locals, Gone
  <2>2. new.addr = b.addr /\ new.bytes = n /\ live' = (live \ {b}) \union {new}
    BY <1>2, Zenon
  <2>. HIDE DEF new
  <2>3. Held' = Held /\ ~Placing /\ ~Placing'
    <3>1. Held' = Held
      BY <2>2, Zenon DEF Held
    <3>. QED BY <1>2, <2>1, <3>1, Zenon DEF Placing
  <2>4. HeaderSets' /\ LoopInv'
    BY <1>2, <2>1, <2>3, Zenon DEF HeapInv, HeaderSets, LoopInv
  <2>5. n \in Nat \ {0} /\ n <= (size[b.addr] - 1) * HeaderBytes
    <3>1. n \in Nat \ {0}
      BY MallocAssumption, Zenon
    <3>2. b.bytes \in Nat \ {0} /\ b.bytes <= (n - 1) * HeaderBytes
      BY <1>2, Zenon DEF HeapInv, HeldBlocks
    <3>3. n # 1
      BY <3>1, <3>2, MallocAssumption
    <3>4. n <= (n - 1) * HeaderBytes
      <4>1. n - 1 \in Nat \ {0} /\ HeaderBytes \in Nat /\ HeaderBytes >= 2
        BY <3>1, <3>3, MallocAssumption
      <4>2. (n - 1) * HeaderBytes >= (n - 1) * 2
        BY <4>1
      <4>. QED BY <3>1, <4>1, <4>2
    <3>. QED BY <1>2, <3>1, <3>4, Zenon
  <2>6. HeldBlocks'
    BY <2>1, <2>2, <2>5, ZenonT(30) DEF HeapInv, HeldBlocks
  <2>. QED BY <2>1, <2>4, <2>6, Zenon DEF HeapInv
<1>. QED BY <1>1, <1>2, Zenon DEF realloc

(* Where free inserts bp: above the cursor, and below the next free block   *)
(* unless the cursor is at the last.                                        *)
LEMMA InsertPlace ==
  ASSUME HeapInv, Placing, PlaceAfter(cursor)
  PROVE  /\ cursor \in DOMAIN ptr /\ ptr[cursor] \in DOMAIN ptr
         /\ bp \in DOMAIN size /\ bp \notin DOMAIN ptr /\ bp \notin Held /\ bp # base
         /\ cursor < bp /\ cursor + size[cursor] <= bp
         /\ ptr[cursor] # base => bp < ptr[cursor] /\ bp + size[bp] <= ptr[cursor]
         /\ cursor + size[cursor] = bp => cursor # base
<1>1. cursor \in DOMAIN ptr /\ ptr[cursor] \in DOMAIN ptr
      /\ (ptr[cursor] # base => cursor + size[cursor] < ptr[cursor])
  BY Zenon DEF HeapInv, LoopInv, Ordered
<1>2. bp \in DOMAIN size /\ bp \notin DOMAIN ptr /\ bp \notin Held /\ bp # base
  BY HeaderFacts, Zenon DEF HeapInv, LoopInv
<1>3. /\ bp \in Nat /\ cursor \in Nat /\ ptr[cursor] \in Nat
      /\ size[cursor] \in Nat /\ size[bp] \in Nat /\ cursor # bp
      /\ cursor \in DOMAIN size /\ ptr[cursor] \in DOMAIN size
      /\ cursor = base <=> size[cursor] = 0
  BY <1>1, <1>2, HeaderFacts, Zenon
<1>4. cursor < bp /\ (ptr[cursor] # base => bp < ptr[cursor])
  BY <1>1, <1>2, <1>3 DEF PlaceAfter, base
<1>5. \A a, c \in DOMAIN size : a < c => a + size[a] <= c
  BY Zenon DEF HeapInv, Tiles
<1>6. cursor + size[cursor] <= bp /\ (ptr[cursor] # base => bp + size[bp] <= ptr[cursor])
  BY <1>2, <1>3, <1>4, <1>5, Zenon
<1>7. cursor + size[cursor] = bp => cursor # base
  BY <1>2, <1>3 DEF base
<1>. QED BY <1>1, <1>2, <1>4, <1>6, <1>7, Zenon

(* The definitions in the action, for the lemmas about it.                  *)
Up == bp + size[bp] = ptr[cursor]
Down == cursor + size[cursor] = bp
Sum == IF Up THEN size[bp] + size[ptr[cursor]] ELSE size[bp]
After == IF Up THEN ptr[ptr[cursor]] ELSE ptr[cursor]
Joined == {a \in {ptr[cursor]} : Up} \union {a \in {bp} : Down}

(* The headers after free has joined the block with its neighbours.         *)
LEMMA InsertSizes ==
  ASSUME HeapInv, Placing, PlaceAfter(cursor), NEW to, DOMAIN to = DOMAIN size \ Joined,
         \A a \in DOMAIN to : to[a] = IF a = cursor /\ Down THEN size[cursor] + Sum
                                      ELSE IF a = bp THEN Sum ELSE size[a]
  PROVE  Tiles(to, break, Gone)
<1>1. /\ cursor \in DOMAIN ptr /\ ptr[cursor] \in DOMAIN ptr
      /\ bp \in DOMAIN size /\ bp \notin DOMAIN ptr /\ bp \notin Held /\ bp # base
      /\ cursor < bp /\ cursor + size[cursor] <= bp
      /\ ptr[cursor] # base => bp < ptr[cursor] /\ bp + size[bp] <= ptr[cursor]
      /\ cursor + size[cursor] = bp => cursor # base
  BY InsertPlace, Zenon
<1>2. /\ bp \in Nat /\ cursor \in Nat /\ ptr[cursor] \in Nat
      /\ size[cursor] \in Nat /\ size[bp] \in Nat
      /\ cursor \in DOMAIN size /\ ptr[cursor] \in DOMAIN size /\ size[bp] # 0
  BY <1>1, HeaderFacts, Zenon
<1>3. break \in Nat /\ Tiles(size, break, Gone)
  BY Zenon DEF HeapInv
<1>4. Up => ptr[cursor] # base /\ ptr[cursor] # bp /\ ptr[cursor] # cursor
  BY <1>1, <1>2 DEF Up, base
<1>5. cursor # bp
  BY <1>1, <1>2, Zenon
<1>. DEFINE up == [a \in DOMAIN size \ {a \in {ptr[cursor]} : Up} |->
                     IF a = bp THEN Sum ELSE size[a]]
<1>6. /\ DOMAIN up = DOMAIN size \ {a \in {ptr[cursor]} : Up}
      /\ \A a \in DOMAIN up : up[a] = IF a = bp THEN Sum ELSE size[a]
  BY Zenon
<1>. HIDE DEF up
<1>7. cursor \in DOMAIN up /\ bp \in DOMAIN up /\ up[cursor] = size[cursor] /\ up[bp] = Sum
  BY <1>1, <1>2, <1>4, <1>5, <1>6, Zenon
<1>8. Tiles(up, break, Gone)
  <2>1. CASE Up
    <3>1. DOMAIN up = DOMAIN size \ {ptr[cursor]} /\ up[bp] = size[bp] + size[ptr[cursor]]
          /\ \A x \in DOMAIN up : x # bp => up[x] = size[x]
      BY <2>1, <1>6, <1>7, Zenon DEF Sum
    <3>. QED BY <2>1, <3>1, <1>1, <1>2, <1>3, <1>4, JoinTiles DEF Up
  <2>2. CASE ~Up
    <3>1. DOMAIN up = DOMAIN size /\ \A x \in DOMAIN size : up[x] = size[x]
      BY <2>2, <1>6, Zenon DEF Sum
    <3>. QED BY <3>1, <1>3, SameTiles, Zenon
  <2>. QED BY <2>1, <2>2, Zenon
<1>9. CASE Down
  <2>1. DOMAIN to = DOMAIN up \ {bp}
    BY <1>6, <1>9, Zenon DEF Joined
  <2>2. cursor \in DOMAIN to /\ to[cursor] = up[cursor] + up[bp]
    BY <1>5, <1>7, <1>9, <2>1, Zenon
  <2>3. \A x \in DOMAIN to : x # cursor => to[x] = up[x]
    BY <1>6, <2>1, Zenon
  <2>4. cursor + up[cursor] = bp /\ cursor # base
    BY <1>1, <1>7, <1>9, Zenon DEF Down
  <2>. QED BY <1>1, <1>3, <1>5, <1>7, <1>8, <2>1, <2>2, <2>3, <2>4, JoinTiles, ZenonT(30)
<1>10. CASE ~Down
  <2>1. DOMAIN to = DOMAIN up /\ \A x \in DOMAIN up : to[x] = up[x]
    BY <1>6, <1>10, Zenon DEF Joined
  <2>. QED BY <1>8, <2>1, SameTiles, Zenon
<1>. QED BY <1>9, <1>10, Zenon

(* The list after free has put the block on it.                             *)
LEMMA InsertOrder ==
  ASSUME HeapInv, Placing, PlaceAfter(cursor), NEW to, DOMAIN to = DOMAIN size \ Joined,
         \A a \in DOMAIN to : to[a] = IF a = cursor /\ Down THEN size[cursor] + Sum
                                      ELSE IF a = bp THEN Sum ELSE size[a],
         NEW pt, DOMAIN pt = (DOMAIN ptr \union {bp}) \ Joined,
         \A a \in DOMAIN pt : pt[a] = IF a = cursor THEN (IF Down THEN After ELSE bp)
                                      ELSE IF a = bp THEN After ELSE ptr[a]
  PROVE  Ordered(pt, to) /\ cursor \in DOMAIN pt /\ base \in DOMAIN pt
<1>1. /\ cursor \in DOMAIN ptr /\ ptr[cursor] \in DOMAIN ptr
      /\ bp \in DOMAIN size /\ bp \notin DOMAIN ptr /\ bp \notin Held /\ bp # base
      /\ cursor < bp /\ cursor + size[cursor] <= bp
      /\ ptr[cursor] # base => bp < ptr[cursor] /\ bp + size[bp] <= ptr[cursor]
      /\ cursor + size[cursor] = bp => cursor # base
  BY InsertPlace, Zenon
<1>2. \A x \in DOMAIN ptr : x \in Nat /\ size[x] \in Nat /\ x \in DOMAIN size
  BY HeaderFacts, Zenon
<1>3. bp \in Nat /\ size[bp] \in Nat /\ size[bp] # 0
  BY <1>1, HeaderFacts, Zenon
<1>4. \A x \in DOMAIN ptr :
        /\ ptr[x] \in DOMAIN ptr
        /\ ptr[x] # base => x + size[x] < ptr[x]
        /\ \A y \in DOMAIN ptr : x < y => ptr[x] # base /\ ptr[x] <= y
  BY Zenon DEF HeapInv, Ordered
<1>5. Up => ptr[cursor] # base /\ ptr[cursor] # bp /\ ptr[cursor] # cursor
            /\ ptr[ptr[cursor]] # ptr[cursor]
  BY <1>1, <1>2, <1>3, <1>4 DEF Up, base
<1>6. cursor # bp
  BY <1>1, <1>2, <1>3, Zenon
<1>. DEFINE rest == DOMAIN ptr \ {a \in {ptr[cursor]} : Up}
<1>7. cursor \in rest /\ base \in rest /\ After \in rest
  <2>1. base \in DOMAIN ptr
    BY HeaderFacts, Zenon DEF Placing
  <2>. QED BY <2>1, <1>1, <1>4, <1>5, Zenon DEF After
<1>8. Sum \in Nat /\ (After # base => bp + Sum < After)
  <2>1. CASE Up
    <3>1. Sum = size[bp] + size[ptr[cursor]] /\ After = ptr[ptr[cursor]]
          /\ bp + size[bp] = ptr[cursor]
      BY <2>1, Zenon DEF Sum, After, Up
    <3>2. size[ptr[cursor]] \in Nat /\ ptr[cursor] \in Nat
          /\ (After # base => ptr[cursor] + size[ptr[cursor]] < After)
      BY <1>1, <1>2, <1>4, <3>1, ZenonT(30)
    <3>. QED BY <3>1, <3>2, <1>2, <1>3, <1>4, <1>7
  <2>2. CASE ~Up
    BY <2>2, <1>1, <1>2, <1>3 DEF Sum, After, Up
  <2>. QED BY <2>1, <2>2, Zenon
<1>9. ASSUME NEW y \in rest, cursor < y PROVE After # base /\ After <= y /\ bp < y
  <2>1. ptr[cursor] # base /\ ptr[cursor] <= y /\ bp < ptr[cursor]
    BY <1>1, <1>4, <1>9, Zenon
  <2>2. bp < y
    BY <1>1, <1>2, <1>3, <2>1
  <2>3. CASE Up
    <3>1. ptr[cursor] < y
      BY <2>1, <2>3, <1>1, <1>2
    <3>. QED BY <3>1, <2>2, <2>3, <1>1, <1>4, ZenonT(30) DEF After
  <2>4. CASE ~Up
    BY <2>1, <2>2, <2>4, ZenonT(30) DEF After
  <2>. QED BY <2>3, <2>4, Zenon
<1>10. ASSUME NEW x \in rest, x # cursor
       PROVE  /\ ptr[x] \in rest
              /\ x < bp => ptr[x] # base /\ ptr[x] < bp
  <2>1. ptr[x] \in rest
    BY <1>1, <1>4, <1>5, <1>10, OneBefore, ZenonT(30)
  <2>2. x < bp => x < cursor
    BY <1>1, <1>2, <1>3, <1>9, <1>10
  <2>3. x < bp => ptr[x] # base /\ ptr[x] <= cursor
    BY <1>1, <1>4, <2>2, Zenon
  <2>. QED BY <1>1, <1>2, <1>3, <1>4, <2>1, <2>3
<1>11. CASE Down
  <2>1. DOMAIN pt = rest
    BY <1>1, <1>11, Zenon DEF Joined
  <2>2. /\ pt[cursor] = After /\ to[cursor] = size[cursor] + Sum
        /\ \A x \in rest : x # cursor => pt[x] = ptr[x] /\ to[x] = size[x]
    BY <1>1, <1>2, <1>5, <1>6, <1>7, <1>11, <2>1, ZenonT(30) DEF Joined
  <2>3. After # base => cursor + to[cursor] < After
    BY <1>1, <1>2, <1>3, <1>7, <1>8, <1>11, <2>2 DEF Down
  <2>4. ASSUME NEW x \in rest
        PROVE  /\ pt[x] \in rest
               /\ pt[x] # base => x + to[x] < pt[x]
               /\ \A y \in rest : x < y => pt[x] # base /\ pt[x] <= y
    <3>1. CASE x = cursor
      BY <3>1, <1>7, <1>9, <2>2, <2>3, Zenon
    <3>2. CASE x # cursor
      BY <3>2, <1>4, <1>10, <2>2, Zenon
    <3>. QED BY <3>1, <3>2, Zenon
  <2>. QED BY <2>1, <2>4, <1>7, Zenon DEF Ordered
<1>12. CASE ~Down
  <2>1. DOMAIN pt = rest \union {bp}
    BY <1>1, <1>5, <1>12, Zenon DEF Joined
  <2>2. /\ pt[cursor] = bp /\ to[cursor] = size[cursor]
        /\ pt[bp] = After /\ to[bp] = Sum
        /\ \A x \in rest : x # cursor => pt[x] = ptr[x] /\ to[x] = size[x]
    BY <1>1, <1>2, <1>5, <1>6, <1>7, <1>12, <2>1, ZenonT(30) DEF Joined
  <2>3. cursor + to[cursor] < bp
    BY <1>1, <1>2, <1>3, <1>12, <2>2 DEF Down
  <2>4. ASSUME NEW x \in rest \union {bp}
        PROVE  /\ pt[x] \in rest \union {bp}
               /\ pt[x] # base => x + to[x] < pt[x]
               /\ \A y \in rest \union {bp} : x < y => pt[x] # base /\ pt[x] <= y
    <3>1. CASE x = cursor
      <4>1. \A y \in rest : cursor < y => bp <= y
        BY <1>2, <1>3, <1>9
      <4>2. bp <= bp
        BY <1>3
      <4>. QED BY <3>1, <1>1, <2>2, <2>3, <4>1, <4>2, ZenonT(30)
    <3>2. CASE x = bp
      <4>1. \A y \in rest : bp < y => cursor < y
        BY <1>1, <1>2, <1>3
      <4>2. ~(bp < bp)
        BY <1>3
      <4>. QED BY <3>2, <1>7, <1>8, <1>9, <2>2, <4>1, <4>2, ZenonT(30)
    <3>3. CASE x \in rest /\ x # cursor
      <4>1. x < bp => ptr[x] # base /\ ptr[x] <= bp
        BY <3>3, <1>2, <1>3, <1>4, <1>10
      <4>. QED BY <3>3, <1>4, <1>10, <2>2, <4>1, ZenonT(30)
    <3>. QED BY <3>1, <3>2, <3>3, Zenon
  <2>. QED BY <2>1, <2>4, <1>7, Zenon DEF Ordered
<1>. QED BY <1>11, <1>12, Zenon

(* free puts its block on the list.                                         *)
LEMMA InsertPreserves ==
  ASSUME HeapInv, Insert
  PROVE  HeapInv'
<1>1. Placing /\ PlaceAfter(cursor) /\ Placed
  BY Zenon DEF Insert
<1>2. size' = [a \in DOMAIN size \ Joined |->
                 IF a = cursor /\ Down THEN size[cursor] + Sum
                 ELSE IF a = bp THEN Sum ELSE size[a]]
  BY Zenon DEF Insert, Joined, Up, Down, Sum
<1>3. ptr' = [a \in (DOMAIN ptr \union {bp}) \ Joined |->
                IF a = cursor THEN (IF Down THEN After ELSE bp)
                ELSE IF a = bp THEN After ELSE ptr[a]]
  BY Zenon DEF Insert, Joined, Up, Down, After
<1>4. /\ DOMAIN size' = DOMAIN size \ Joined
      /\ \A a \in DOMAIN size' : size'[a] = IF a = cursor /\ Down THEN size[cursor] + Sum
                                            ELSE IF a = bp THEN Sum ELSE size[a]
  BY <1>2, Zenon
<1>5. /\ DOMAIN ptr' = (DOMAIN ptr \union {bp}) \ Joined
      /\ \A a \in DOMAIN ptr' : ptr'[a] = IF a = cursor THEN (IF Down THEN After ELSE bp)
                                          ELSE IF a = bp THEN After ELSE ptr[a]
  BY <1>3, Zenon
<1>6. break' = break /\ live' = live /\ Gone' = Gone /\ freep' = cursor
  BY <1>1, Zenon DEF Placed, program, Gone
<1>7. Tiles(size', break', Gone')
  <2>1. Tiles(size', break, Gone)
    BY <1>1, <1>4, InsertSizes, Zenon
  <2>. QED BY <1>6, <2>1, Zenon
<1>8. Ordered(ptr', size') /\ cursor \in DOMAIN ptr' /\ base \in DOMAIN ptr'
  BY <1>1, <1>4, <1>5, InsertOrder, Zenon
<1>9. Joined \subseteq DOMAIN ptr \union {bp} /\ cursor \in DOMAIN ptr /\ bp \notin Held
  BY <1>1, InsertPlace, Zenon DEF Joined
<1>10. Held' = Held
  BY <1>6, Zenon DEF Held
<1>11. \/ loop = "free" /\ loop' = "idle"
       \/ /\ loop = "morecore" /\ loop' = "search" /\ prevp' = cursor
          /\ cursor' = ptr'[cursor] /\ request' = request
  BY <1>1, Zenon DEF Placed, Idle
<1>12. ~Placing' /\ loop' # "free" /\ loop' # "morecore"
  BY <1>11, Zenon DEF Placing
<1>13. DOMAIN size = DOMAIN ptr \union Held \union {bp} /\ DOMAIN ptr \intersect Held = {}
  BY <1>1, Zenon DEF HeapInv, HeaderSets
<1>14. HeaderSets'
  <2>1. DOMAIN size' = DOMAIN ptr' \union Held' /\ DOMAIN ptr' \intersect Held' = {}
    BY <1>4, <1>5, <1>9, <1>10, <1>13, ZenonT(30)
  <2>2. freep' # None
    BY <1>6, <1>9, HeaderFacts, MallocAssumption, Zenon
  <2>. QED BY <1>6, <1>8, <1>12, <2>1, <2>2, Zenon DEF HeaderSets
<1>15. HeldBlocks'
  <2>1. ASSUME NEW b \in live PROVE size'[b.addr] = size[b.addr]
    <3>1. b.addr \in Held
      BY Zenon DEF Held
    <3>2. b.addr \in DOMAIN size' /\ b.addr # cursor /\ b.addr # bp
      BY <3>1, <1>4, <1>9, <1>13, Zenon
    <3>. QED BY <3>2, <1>4, Zenon
  <2>. QED BY <1>6, <2>1, Zenon DEF HeapInv, HeldBlocks
<1>16. LoopInv'
  <2>1. CASE loop = "free" /\ loop' = "idle"
    BY <2>1, <1>12, Zenon DEF LoopInv
  <2>2. CASE /\ loop = "morecore" /\ loop' = "search" /\ prevp' = cursor
             /\ cursor' = ptr'[cursor] /\ request' = request
    <3>1. /\ request.bytes \in Sizes
          /\ request.old = {} \/ \E b \in live : request.old = {b}
      BY <2>2, Zenon DEF HeapInv, LoopInv
    <3>. QED BY <2>2, <3>1, <1>6, <1>8, <1>12, Zenon DEF LoopInv
  <2>. QED BY <2>1, <2>2, <1>11, Zenon
<1>. QED BY <1>6, <1>7, <1>8, <1>14, <1>15, <1>16, Zenon DEF HeapInv

(* Every step keeps the invariant.                                          *)
LEMMA HeapStep ==
  ASSUME HeapInv, [MallocNext]_mallocVars
  PROVE  HeapInv'
<1>1. CASE MallocNext
  <2>1. ASSUME NEW n \in Sizes, malloc(n) PROVE HeapInv'
    BY <2>1, BeginPreserves, Zenon DEF malloc
  <2>2. CASE TakeBlock \/ Split \/ SearchOn \/ morecore \/ PlaceOn \/ Insert
    BY <2>2, TakeBlockPreserves, SplitPreserves, SearchOnPreserves, MorecorePreserves,
       PlaceOnPreserves, InsertPreserves, Zenon
  <2>3. ASSUME NEW b \in live, free(b) \/ \E n \in Sizes : realloc(b, n) PROVE HeapInv'
    BY <2>3, FreePreserves, ReallocPreserves, Zenon
  <2>4. ASSUME NEW n \in Gaps, sbrk(n) PROVE HeapInv'
    BY <2>4, SbrkPreserves, Zenon
  <2>. QED BY <1>1, <2>1, <2>2, <2>3, <2>4, Zenon DEF MallocNext
<1>2. CASE UNCHANGED mallocVars
  <2>1. /\ ptr' = ptr /\ size' = size /\ freep' = freep /\ live' = live /\ loop' = loop
        /\ request' = request /\ cursor' = cursor /\ prevp' = prevp /\ bp' = bp
        /\ break' = break /\ Gone' = Gone
    BY <1>2, Zenon DEF mallocVars, list, program, locals, Gone
  <2>. QED BY <2>1, Zenon DEF HeapInv, HeaderSets, HeldBlocks, LoopInv, Held, Placing
<1>. QED BY <1>1, <1>2, ZenonT(30)

(* The invariant holds.                                                     *)
LEMMA HeapInvariant == MallocSpec => []HeapInv
<1>. QED BY HeapInit, HeapStep, PTL DEF MallocSpec

(* The blocks of the heap never overlap, free or not, at any turn of the    *)
(* loops of malloc and free, and whatever is in no block is what the        *)
(* program has from sbrk or what realloc has left behind.                   *)
THEOREM HeapIsTiled == MallocSpec => []BlocksTileTheHeap
<1>1. HeapInv => BlocksTileTheHeap
  <2>. SUFFICES ASSUME HeapInv PROVE BlocksTileTheHeap
    BY Zenon
  <2>1. Blocks = DOMAIN size \ {base}
    BY HeaderFacts, Zenon DEF Blocks, HeapInv, HeaderSets, Held
  <2>2. \A a \in Blocks : a \in Nat /\ size[a] \in Nat /\ a + size[a] <= break /\ a # base
    BY <2>1, HeaderFacts, Zenon
  <2>3. \A a, b \in Blocks : a < b => a + size[a] <= b
    BY <2>1, Zenon DEF HeapInv, Tiles
  <2>4. \A a, b \in Blocks : a # b => UnitsAt(a) \intersect UnitsAt(b) = {}
    BY <2>2, <2>3 DEF UnitsAt
  <2>5. \A a \in Blocks, t \in Gone : t < a \/ a + size[a] <= t
    BY <2>1, Zenon DEF HeapInv, Tiles
  <2>6. Gone \subseteq 1 .. break - 1 /\ break \in Nat
    BY Zenon DEF HeapInv, Tiles
  <2>7. \A a \in Blocks : UnitsAt(a) \intersect Gone = {}
    BY <2>2, <2>5, <2>6 DEF UnitsAt
  <2>8. Gone \union UNION {UnitsAt(a) : a \in Blocks} = 1 .. break - 1
    <3>1. \A a \in Blocks : UnitsAt(a) \subseteq 1 .. break - 1
      BY <2>2, <2>6 DEF UnitsAt, base
    <3>2. ASSUME NEW t \in 1 .. break - 1, t \notin Gone
          PROVE  \E a \in Blocks : t \in UnitsAt(a)
      <4>1. PICK a \in DOMAIN size : t \in a .. a + size[a] - 1
        BY <3>2, Zenon DEF HeapInv, Tiles
      <4>2. a # base
        BY <4>1, HeaderFacts DEF base
      <4>. QED BY <4>1, <4>2, <2>1, Zenon DEF UnitsAt
    <3>. HIDE DEF UnitsAt
    <3>. QED BY <3>1, <3>2, <2>6, Zenon
  <2>9. \A b \in live : b.bytes <= (size[b.addr] - 1) * HeaderBytes
    BY Zenon DEF HeapInv, HeldBlocks
  <2>. QED BY <2>4, <2>7, <2>8, <2>9, Zenon DEF BlocksTileTheHeap
<1>. QED BY <1>1, HeapInvariant, PTL

(* The list of free blocks is in the order of the addresses, without two    *)
(* that touch, and free finds a place on it for every block.                *)
THEOREM HeapListInOrder == MallocSpec => []FreeListInOrder
<1>1. HeapInv => FreeListInOrder
  <2>. SUFFICES ASSUME HeapInv PROVE FreeListInOrder
    BY Zenon
  <2>1. freep # None => freep \in DOMAIN ptr /\ base \in DOMAIN ptr
    BY Zenon DEF HeapInv, HeaderSets
  <2>2. \A a \in DOMAIN ptr :
          /\ ptr[a] \in DOMAIN ptr
          /\ ptr[a] # base => a + size[a] < ptr[a]
          /\ \A c \in DOMAIN ptr : a < c => ptr[a] # base /\ ptr[a] <= c
    BY Zenon DEF HeapInv, Ordered
  <2>3. ASSUME Placing PROVE \E a \in DOMAIN ptr : PlaceAfter(a)
    <3>1. base \in DOMAIN ptr
      BY <2>3, HeaderFacts, Zenon DEF Placing
    <3>2. \A a \in DOMAIN ptr : a \in Nat /\ size[a] \in Nat /\ a + size[a] <= break
      BY HeaderFacts, Zenon
    <3>3. break \in Nat
      BY Zenon DEF HeapInv
    <3>4. DOMAIN ptr \subseteq 0 .. break
      BY <3>2, <3>3
    <3>5. \A a \in DOMAIN ptr : ptr[a] # base => a < ptr[a]
      BY <2>2, <3>2
    <3>6. bp \in Nat \ {0} /\ bp \notin DOMAIN ptr
      BY <2>3, HeaderFacts, Zenon DEF HeapInv, LoopInv, base
    <3>. QED BY <2>2, <3>1, <3>3, <3>4, <3>5, <3>6, PlaceExists, Zenon
  <2>. QED BY <2>1, <2>2, <2>3, Zenon DEF FreeListInOrder
<1>. QED BY <1>1, HeapInvariant, PTL
=============================================================================
