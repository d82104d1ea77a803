-------------------------- MODULE KernelInvariant ---------------------------
(***************************************************************************)
(* The locks of the kernel, for any number of processes: where the CPU is  *)
(* determines which locks are taken, across every context switch and       *)
(* interrupt.  Here the invariant, and what preserves it: the steps of the *)
(* scheduler, of the interrupt and of the lock code's panics, and those of *)
(* system calls.                                                           *)
(***************************************************************************)
EXTENDS Kernel, TLAPS

NoLock == Calls \union {"user", "ret", "leave", "cv_relock"}
OwnLock == {"unlock_own", "exit_notify", "exit_switch", "cv_sleep", "cv_woken",
            "sleep_test", "yield_switch"}
CondLock == {"cv_wait", "wait_test", "read_test", "read_async_test"}
BothLocks == {"cv_unlock"}

(* The locks of a CPU that runs a process.                                  *)
ProcessLocks(p) ==
  /\ pc[p] \in NoLock => locked = {} /\ depth = 0
  /\ pc[p] \in OwnLock => locked = {p} /\ depth = 1 /\ ~if_flag
  /\ pc[p] \in CondLock => locked = {cond[p]} /\ depth = 1 /\ ~if_flag
  /\ pc[p] \in BothLocks => locked = {p, cond[p]} /\ depth = 2 /\ ~if_flag

(* The locks of a CPU that runs the scheduler.                              *)
SchedulerLocks ==
  /\ spc \in {"sti", "lock"} => locked = {} /\ depth = 0
  /\ spc \in {"inspect", "back", "unlock"} => locked = {i} /\ depth = 1 /\ ~if_flag

(* Who the CPU runs, and what the process table says about it.              *)
Current ==
  /\ cpu \in Slots =>
       /\ running_process = cpu /\ i = cpu /\ spc = "inspect"
       /\ state[cpu] = "RUNNING" /\ pc[cpu] # "no_stack"
       /\ ProcessLocks(cpu)
  /\ cpu = Sched =>
       /\ SchedulerLocks
       /\ running_process = IF spc = "back" THEN i ELSE None

(* A process that is not running is suspended where it holds, or will hold, *)
(* its own lock.                                                            *)
Suspended ==
  \A p \in Slots :
    /\ state[p] = "RUNNING" => cpu = p
    /\ state[p] = "RUNNABLE" => pc[p] \in {"unlock_own", "sleep_test", "cv_woken"}
    /\ state[p] = "SLEEPING" => pc[p] = "cv_woken"
    /\ state[p] \in {"UNUSED", "EXITED"} => pc[p] = "no_stack"

(* The condition variable a process waits on.                               *)
ConditionOf(p) ==
  /\ pc[p] \in {"cv_wait", "cv_unlock", "cv_sleep", "cv_woken", "cv_relock"} =>
       cond[p] \in Slots \union {Serial}
  /\ pc[p] \in {"cv_unlock", "cv_sleep", "cv_woken", "cv_relock"} => cond[p] # p
  /\ pc[p] = "wait_test" => cond[p] \in Slots
  /\ pc[p] \in {"read_test", "read_async_test"} => cond[p] = Serial
  /\ cond[p] = p => pc[p] \in {"wait_test", "cv_wait"} /\ target_pid[p] = pid[p]

Conditions == \A p \in Slots : ConditionOf(p)

LockInv ==
  /\ TypeOK
  /\ Current
  /\ Suspended
  /\ Conditions
  /\ OnlySelfWaitPanics

(* Taking a lock and giving it back, as the rest of the proof uses them.    *)
Locks(l) ==
  /\ locked' = locked \union {l} /\ locked' \in SUBSET (Slots \union {Serial})
  /\ depth' = depth + 1 /\ depth' \in Nat
  /\ if_flag' = FALSE /\ was_enabled' \in BOOLEAN

Unlocks(l) ==
  /\ locked' = locked \ {l} /\ locked' \in SUBSET (Slots \union {Serial})
  /\ depth' = depth - 1 /\ depth' \in Nat
  /\ if_flag' \in BOOLEAN /\ was_enabled' \in BOOLEAN
  /\ depth # 1 => if_flag' = if_flag

(* condvar_lock masks the interrupts and counts the lock.                   *)
LEMMA LockFacts ==
  ASSUME TypeOK, NEW l \in Slots \union {Serial}, condvar_lock(l)
  PROVE  Locks(l)
<1>1. was_enabled' \in BOOLEAN
  BY Zenon DEF TypeOK, condvar_lock
<1>2. QED
  BY <1>1 DEF TypeOK, condvar_lock, Locks

(* condvar_unlock gives the interrupts back only with the last lock.        *)
LEMMA UnlockFacts ==
  ASSUME TypeOK, depth \in Nat \ {0}, NEW l \in Slots \union {Serial}, condvar_unlock(l)
  PROVE  Unlocks(l)
<1>1. if_flag' \in BOOLEAN /\ was_enabled' \in BOOLEAN
  BY Zenon DEF TypeOK, condvar_unlock
<1>2. depth # 1 => if_flag' = if_flag
  BY Zenon DEF TypeOK, condvar_unlock
<1>3. QED
  BY <1>1, <1>2 DEF TypeOK, condvar_unlock, Unlocks

(* With the interrupts on no lock is taken, wherever the CPU is.            *)
LEMMA InterruptFacts == LockInv => (if_flag => locked = {} /\ depth = 0)
<1> SUFFICES ASSUME LockInv, if_flag PROVE locked = {} /\ depth = 0
  BY Zenon
<1> USE NamesAssumption DEF LockInv
<1>1. CASE cpu = Sched
  BY <1>1, Zenon DEF TypeOK, Current, SchedulerLocks
<1>2. CASE cpu \in Slots
  BY <1>2, Zenon DEF TypeOK, Current, ProcessLocks, Labels, NoLock, OwnLock, CondLock, BothLocks
<1>3. QED
  BY <1>1, <1>2, Zenon DEF TypeOK

(* A step that leaves a process where it is leaves its condition as it is.  *)
LEMMA SameCondition ==
  ASSUME NEW q \in Slots, ConditionOf(q), pc'[q] = pc[q], cond'[q] = cond[q],
         target_pid'[q] = target_pid[q], pid'[q] = pid[q]
  PROVE  ConditionOf(q)'
BY Zenon DEF ConditionOf

(* Initially /init is runnable, the scheduler is about to start, and no     *)
(* lock is taken.                                                           *)
LEMMA InitEstablishes == Init => LockInv
<1> SUFFICES ASSUME Init PROVE LockInv
  BY Zenon
<1> USE NAssumption, CapacityAssumption, NamesAssumption DEF Init
<1>0. 0 \in Slots /\ -1 \in Int
  BY DEF Slots
<1>1. TypeOK
  <2>1. /\ state \in [Slots -> Live \union {"UNUSED", "EXITED"}]
        /\ pid \in [Slots -> Nat] /\ exit_status \in [Slots -> Int]
        /\ pc \in [Slots -> Labels]
    BY <1>0 DEF Labels, Live
  <2>2. /\ waiting_channel \in [Slots -> Slots \union {Serial, None}]
        /\ cond \in [Slots -> Slots \union {Serial, None}]
        /\ target_pid \in [Slots -> Nat] /\ rax \in [Slots -> Int]
        /\ next_pid \in Nat /\ depth \in Nat /\ avail \in 0 .. Capacity
    OBVIOUS
  <2>3. /\ locked \in SUBSET (Slots \union {Serial})
        /\ if_flag \in BOOLEAN /\ was_enabled \in BOOLEAN
        /\ running_process \in Slots \union {None} /\ cpu \in Slots \union {Sched}
        /\ spc \in {"sti", "lock", "inspect", "back", "unlock"}
        /\ panic \in {"no", "gs", "lock"}
    BY Zenon
  <2>4. QED
    BY <1>0, <2>1, <2>2, <2>3, Zenon DEF TypeOK
<1>2. Current
  BY Zenon DEF Current, SchedulerLocks
<1>3. Suspended /\ Conditions /\ OnlySelfWaitPanics
  BY Zenon DEF Suspended, Conditions, ConditionOf, OnlySelfWaitPanics, Slots
<1>4. QED
  BY <1>1, <1>2, <1>3, Zenon DEF LockInv

(* A process that goes on to another place in the kernel, and perhaps wakes *)
(* others on the way, preserves the invariant if its own locks and          *)
(* condition fit the new place.                                             *)
LEMMA ProcessGoesOn ==
  ASSUME LockInv, NEW p \in Slots, Running(p), TypeOK', ProcessLocks(p)', ConditionOf(p)',
         pc'[p] # "no_stack", state'[p] = state[p],
         \A q \in Slots \ {p} : /\ pc'[q] = pc[q] /\ cond'[q] = cond[q]
                                /\ target_pid'[q] = target_pid[q]
                                /\ \/ state'[q] = state[q]
                                   \/ state[q] = "SLEEPING" /\ state'[q] = "RUNNABLE",
         UNCHANGED <<pid, running_process, cpu, spc, i, panic>>
  PROVE  LockInv'
<1>i. TypeOK /\ Current /\ Suspended /\ Conditions /\ OnlySelfWaitPanics
  BY Zenon DEF LockInv
<1> USE <1>i, NamesAssumption DEF Running
<1>1. Current'
  BY Zenon DEF Current
<1>2. Suspended'
  BY ZenonT(30) DEF Current, Suspended
<1>3. Conditions'
  BY SameCondition, Zenon DEF Conditions
<1>4. OnlySelfWaitPanics'
  BY Zenon DEF OnlySelfWaitPanics
<1>5. QED
  BY <1>1, <1>2, <1>3, <1>4, Zenon DEF LockInv

(* The scheduler turns the interrupts on where it holds no lock.            *)
LEMMA SchedulerStiPreserves ==
  ASSUME LockInv, SchedulerSti
  PROVE  LockInv'
<1>i. TypeOK /\ Current /\ Suspended /\ Conditions /\ OnlySelfWaitPanics
  BY Zenon DEF LockInv
<1> USE <1>i, NAssumption, CapacityAssumption, NamesAssumption
    DEF slotVars, stackVars, lockVars, schedVars, At, AtSched, Running, Goto,
        Labels, SchedulerSti
<1>0. 0 \in Slots
  BY DEF Slots
<1>1. TypeOK'
  BY <1>0, Zenon DEF TypeOK
<1>2. Current'
  BY Zenon DEF TypeOK, Current, Suspended, Conditions, ConditionOf, ProcessLocks,
     SchedulerLocks, NoLock, OwnLock, CondLock, BothLocks, Calls
<1>3. Suspended'
  BY Zenon DEF TypeOK, Current, Suspended, Calls
<1>4. Conditions'
  BY Zenon DEF TypeOK, Current, Suspended, Conditions, ConditionOf, Calls, FirstWithPid
<1>5. OnlySelfWaitPanics'
  BY Zenon DEF OnlySelfWaitPanics
<1>6. QED
  BY <1>1, <1>2, <1>3, <1>4, <1>5, Zenon DEF LockInv

(* The scheduler takes the lock of the slot it looks at.                    *)
LEMMA SchedulerLockPreserves ==
  ASSUME LockInv, SchedulerLock
  PROVE  LockInv'
<1>i. TypeOK /\ Current /\ Suspended /\ Conditions /\ OnlySelfWaitPanics
  BY Zenon DEF LockInv
<1> USE <1>i, NAssumption, CapacityAssumption, NamesAssumption
    DEF slotVars, stackVars, lockVars, schedVars, At, AtSched, Running, Goto,
        Labels, SchedulerLock
<1>1. Locks(i)
  BY LockFacts, Zenon DEF TypeOK, Conditions, ConditionOf
<1>2. TypeOK'
  BY <1>1, Zenon DEF TypeOK, Labels, Calls, Live, Locks
<1>3. Current'
  BY <1>1 DEF TypeOK, Current, Suspended, Conditions, ConditionOf, ProcessLocks,
     SchedulerLocks, NoLock, OwnLock, CondLock, BothLocks, Calls, Locks
<1>4. Suspended'
  BY <1>1, Zenon DEF TypeOK, Current, Suspended, Calls
<1>5. Conditions'
  BY <1>1, Zenon DEF TypeOK, Current, Suspended, Conditions, ConditionOf, Calls,
     FirstWithPid, ProcessLocks, CondLock, condvar_lock
<1>6. OnlySelfWaitPanics'
  BY Zenon DEF OnlySelfWaitPanics
<1>7. QED
  BY <1>2, <1>3, <1>4, <1>5, <1>6, Zenon DEF LockInv

(* The scheduler switches to a process, which finds its own lock taken, as  *)
(* it left it.                                                              *)
LEMMA SchedulerRunPreserves ==
  ASSUME LockInv, SchedulerRun
  PROVE  LockInv'
<1>i. TypeOK /\ Current /\ Suspended /\ Conditions /\ OnlySelfWaitPanics
  BY Zenon DEF LockInv
<1> USE <1>i, NAssumption, CapacityAssumption, NamesAssumption
    DEF slotVars, stackVars, lockVars, schedVars, At, AtSched, Running, Goto,
        Labels, SchedulerRun
<1>1. TypeOK'
  BY Zenon DEF TypeOK, Labels, Calls, Live
<1>2. locked = {i} /\ depth = 1 /\ ~if_flag /\ pc[i] \in {"unlock_own", "sleep_test", "cv_woken"}
  BY Zenon DEF TypeOK, Current, SchedulerLocks, Suspended
<1>3. ProcessLocks(i)'
  BY <1>2, Zenon DEF ProcessLocks, NoLock, OwnLock, CondLock, BothLocks, Calls
<1>4. Current'
  BY <1>2, <1>3, Zenon DEF TypeOK, Current
<1>5. Suspended'
  BY Zenon DEF TypeOK, Current, Suspended, Calls
<1>6. Conditions'
  BY Zenon DEF TypeOK, Current, Suspended, Conditions, ConditionOf, Calls, FirstWithPid
<1>7. OnlySelfWaitPanics'
  BY Zenon DEF OnlySelfWaitPanics
<1>8. QED
  BY <1>1, <1>4, <1>5, <1>6, <1>7, Zenon DEF LockInv

(* The scheduler reaps a process under its lock.                            *)
LEMMA SchedulerReapPreserves ==
  ASSUME LockInv, SchedulerReap
  PROVE  LockInv'
<1>i. TypeOK /\ Current /\ Suspended /\ Conditions /\ OnlySelfWaitPanics
  BY Zenon DEF LockInv
<1> USE <1>i, NAssumption, CapacityAssumption, NamesAssumption
    DEF slotVars, stackVars, lockVars, schedVars, At, AtSched, Running, Goto,
        Labels, SchedulerReap
<1>1. TypeOK'
  BY Zenon DEF TypeOK, Labels, Calls, Live
<1>2. Current'
  BY Zenon DEF TypeOK, Current, Suspended, Conditions, ConditionOf, ProcessLocks,
     SchedulerLocks, NoLock, OwnLock, CondLock, BothLocks, Calls
<1>3. Suspended'
  BY ZenonT(30) DEF TypeOK, Current, Suspended, Calls
<1>4. Conditions'
  BY DEF TypeOK, Current, Suspended, Conditions, ConditionOf, Calls, FirstWithPid
<1>5. OnlySelfWaitPanics'
  BY Zenon DEF OnlySelfWaitPanics
<1>6. QED
  BY <1>1, <1>2, <1>3, <1>4, <1>5, Zenon DEF LockInv

(* The scheduler passes over a slot.                                        *)
LEMMA SchedulerSkipPreserves ==
  ASSUME LockInv, SchedulerSkip
  PROVE  LockInv'
<1>i. TypeOK /\ Current /\ Suspended /\ Conditions /\ OnlySelfWaitPanics
  BY Zenon DEF LockInv
<1> USE <1>i, NAssumption, CapacityAssumption, NamesAssumption
    DEF slotVars, stackVars, lockVars, schedVars, At, AtSched, Running, Goto,
        Labels, SchedulerSkip
<1>1. TypeOK'
  BY Zenon DEF TypeOK, Labels, Calls, Live
<1>2. Current'
  BY Zenon DEF TypeOK, Current, Suspended, Conditions, ConditionOf, ProcessLocks,
     SchedulerLocks, NoLock, OwnLock, CondLock, BothLocks, Calls
<1>3. Suspended'
  BY Zenon DEF TypeOK, Current, Suspended, Calls
<1>4. Conditions'
  BY Zenon DEF TypeOK, Current, Suspended, Conditions, ConditionOf, Calls, FirstWithPid
<1>5. OnlySelfWaitPanics'
  BY Zenon DEF OnlySelfWaitPanics
<1>6. QED
  BY <1>1, <1>2, <1>3, <1>4, <1>5, Zenon DEF LockInv

(* The scheduler resumes with the lock of the process that switched back.   *)
LEMMA SchedulerBackPreserves ==
  ASSUME LockInv, SchedulerBack
  PROVE  LockInv'
<1>i. TypeOK /\ Current /\ Suspended /\ Conditions /\ OnlySelfWaitPanics
  BY Zenon DEF LockInv
<1> USE <1>i, NAssumption, CapacityAssumption, NamesAssumption
    DEF slotVars, stackVars, lockVars, schedVars, At, AtSched, Running, Goto,
        Labels, SchedulerBack
<1>1. TypeOK'
  BY Zenon DEF TypeOK, Labels, Calls, Live
<1>2. Current'
  BY Zenon DEF TypeOK, Current, Suspended, Conditions, ConditionOf, ProcessLocks,
     SchedulerLocks, NoLock, OwnLock, CondLock, BothLocks, Calls
<1>3. Suspended'
  BY Zenon DEF TypeOK, Current, Suspended, Calls
<1>4. Conditions'
  BY Zenon DEF TypeOK, Current, Suspended, Conditions, ConditionOf, Calls, FirstWithPid
<1>5. OnlySelfWaitPanics'
  BY Zenon DEF OnlySelfWaitPanics
<1>6. QED
  BY <1>1, <1>2, <1>3, <1>4, <1>5, Zenon DEF LockInv

(* The scheduler gives the lock back and goes on to the next slot.          *)
LEMMA SchedulerUnlockPreserves ==
  ASSUME LockInv, SchedulerUnlock
  PROVE  LockInv'
<1>i. TypeOK /\ Current /\ Suspended /\ Conditions /\ OnlySelfWaitPanics
  BY Zenon DEF LockInv
<1> USE <1>i, NAssumption, CapacityAssumption, NamesAssumption
    DEF slotVars, stackVars, lockVars, schedVars, At, AtSched, Running, Goto,
        Labels, SchedulerUnlock
<1>1. depth \in Nat \ {0}
  BY DEF Current, SchedulerLocks
<1>2. Unlocks(i)
  BY <1>1, UnlockFacts, Zenon DEF TypeOK, Conditions, ConditionOf
<1>3. i \in Slots /\ (i' = i \/ (i # N - 1 /\ i' = i + 1))
  BY Zenon DEF TypeOK
<1>4. i' \in Slots
  BY <1>3 DEF Slots
<1>5. TypeOK'
  BY <1>2, <1>4, Zenon DEF TypeOK, Labels, Calls, Live, Unlocks
<1>6. Current'
  BY <1>2, <1>4 DEF TypeOK, Current, Suspended, Conditions, ConditionOf, ProcessLocks,
     SchedulerLocks, NoLock, OwnLock, CondLock, BothLocks, Calls, Unlocks
<1>7. Suspended'
  BY <1>2, <1>4, Zenon DEF TypeOK, Current, Suspended, Calls
<1>8. Conditions'
  BY <1>2, <1>4, Zenon DEF TypeOK, Current, Suspended, Conditions, ConditionOf, Calls,
     FirstWithPid
<1>9. OnlySelfWaitPanics'
  BY Zenon DEF OnlySelfWaitPanics
<1>10. QED
  BY <1>5, <1>6, <1>7, <1>8, <1>9, Zenon DEF LockInv

(* A trap or system call starts without a lock, with the interrupts off.    *)
LEMMA TrapPreserves ==
  ASSUME LockInv, NEW p \in Slots, Trap(p)
  PROVE  LockInv'
<1>i. TypeOK /\ Current /\ Suspended /\ Conditions /\ OnlySelfWaitPanics
  BY Zenon DEF LockInv
<1> USE <1>i, NAssumption, CapacityAssumption, MaxPidAssumption, NamesAssumption, UserCallsAssumption
    DEF slotVars, stackVars, lockVars, schedVars, At, AtSched, Running, Goto,
        Labels, Trap
<1>1. ProcessLocks(p) /\ ConditionOf(p) /\ running_process = p
  BY Zenon DEF Current, Conditions
<1>2. PICK call \in UserCalls, n \in 0 .. MaxPid :
        Goto(p, call) /\ target_pid' = [target_pid EXCEPT ![p] = n]
  BY Zenon
<1>3. call \in Calls /\ n \in Nat
  OBVIOUS
<1>4. TypeOK'
  BY <1>2, <1>3, Zenon DEF TypeOK, Calls, Live
<1>5. ProcessLocks(p)'
  BY <1>1, <1>2, <1>3 DEF TypeOK, ConditionOf, ProcessLocks, NoLock, OwnLock, CondLock,
     BothLocks, Calls
<1>6. ConditionOf(p)' /\ pc'[p] # "no_stack"
  BY <1>1, <1>2, <1>3 DEF TypeOK, ConditionOf, Calls
<1>7. state'[p] = state[p] /\ \A q \in Slots \ {p} :
        /\ pc'[q] = pc[q] /\ cond'[q] = cond[q] /\ target_pid'[q] = target_pid[q]
        /\ state'[q] = state[q] \/ (state[q] = "SLEEPING" /\ state'[q] = "RUNNABLE")
  BY <1>2, SMTT(30), Zenon DEF TypeOK
<1>8. QED
  BY <1>4, <1>5, <1>6, <1>7, ProcessGoesOn, Zenon

(* The interrupt of the serial port takes and gives back locks nobody       *)
(* holds, and leaves sleepers where they are parked.                        *)
LEMMA SerialReceivedCharPreserves ==
  ASSUME LockInv, serial_received_char
  PROVE  LockInv'
<1>i. TypeOK /\ Current /\ Suspended /\ Conditions /\ OnlySelfWaitPanics
  BY Zenon DEF LockInv
<1> USE <1>i, NAssumption, CapacityAssumption, NamesAssumption
    DEF slotVars, stackVars, lockVars, schedVars, At, AtSched, Running, Goto,
        Labels, serial_received_char, proc_wakeup, IrqTaken, UserGs
<1>1. was_enabled' \in BOOLEAN
  BY Zenon DEF TypeOK
<1>2. state' \in [Slots -> Live \union {"UNUSED", "EXITED"}] /\ avail' \in 0 .. Capacity
  BY DEF TypeOK, Live
<1>3. TypeOK'
  BY <1>1, <1>2, Zenon DEF TypeOK, Labels, Calls, Live
<1>4. Current'
  BY <1>2, ZenonT(30) DEF TypeOK, Current, ProcessLocks, SchedulerLocks
<1>5. Suspended'
  BY <1>1, <1>2 DEF TypeOK, Current, Suspended, Calls
<1>6. Conditions'
  BY <1>1, <1>2, Zenon DEF TypeOK, Current, Suspended, Conditions, ConditionOf, Calls,
     FirstWithPid
<1>7. OnlySelfWaitPanics'
  BY Zenon DEF OnlySelfWaitPanics
<1>8. QED
  BY <1>3, <1>4, <1>5, <1>6, <1>7, Zenon DEF LockInv

(* The interrupt with the wrong gs base stops the machine.                  *)
LEMMA IrqWithUserGsPreserves ==
  ASSUME LockInv, IrqWithUserGs
  PROVE  LockInv'
<1>i. TypeOK /\ Current /\ Suspended /\ Conditions /\ OnlySelfWaitPanics
  BY Zenon DEF LockInv
<1> USE <1>i, NAssumption, CapacityAssumption, NamesAssumption
    DEF slotVars, stackVars, lockVars, schedVars, At, AtSched, Running, Goto,
        Labels, IrqWithUserGs
<1>1. TypeOK'
  BY Zenon DEF TypeOK
<1>2. Current' /\ Suspended' /\ Conditions'
  BY Zenon DEF TypeOK, Current, Suspended, Conditions, ConditionOf, ProcessLocks, SchedulerLocks
<1>3. OnlySelfWaitPanics'
  BY Zenon DEF OnlySelfWaitPanics
<1>4. QED
  BY <1>1, <1>2, <1>3, Zenon DEF LockInv

(* The lock code panics only for a process that waits for itself.           *)
LEMMA PanicPreserves ==
  ASSUME LockInv, Panic
  PROVE  LockInv'
<1>i. TypeOK /\ Current /\ Suspended /\ Conditions /\ OnlySelfWaitPanics
  BY Zenon DEF LockInv
<1> USE <1>i, NAssumption, CapacityAssumption, NamesAssumption
    DEF slotVars, stackVars, lockVars, schedVars, At, AtSched, Running, Goto,
        Labels, Panic
<1>1. TypeOK'
  BY Zenon DEF TypeOK
<1>2. Current' /\ Suspended' /\ Conditions'
  BY Zenon DEF TypeOK, Current, Suspended, Conditions, ConditionOf, ProcessLocks, SchedulerLocks
<1>3. cpu \in Slots /\ pc[cpu] = "cv_wait" /\ cond[cpu] = cpu
  <2> SUFFICES ASSUME ~(cpu \in Slots /\ pc[cpu] = "cv_wait" /\ cond[cpu] = cpu)
               PROVE  LocksInOrder
    BY Zenon
  <2>1. /\ AtSched("lock") => i \notin locked
        /\ AtSched("unlock") => i \in locked
    BY Zenon DEF Current, SchedulerLocks
  <2>2. if_flag => locked = {}
    BY InterruptFacts, Zenon
  <2>3. IrqTaken => Serial \notin locked /\ WakeupCanLock
    BY <2>2, Zenon DEF IrqTaken, WakeupCanLock
  <2>4. ASSUME NEW p \in Slots, Running(p)
        PROVE  /\ LockWanted(p) \cap locked = {}
               /\ UnlockWanted(p) \subseteq locked
               /\ Switching(p) => running_process \in locked
    <3> USE <2>4
    <3>1. ProcessLocks(p) /\ running_process = p /\ pc[p] \in Labels /\ ~(pc[p] = "cv_wait" /\ cond[p] = p)
      BY Zenon DEF Current, TypeOK
    <3>2. LockWanted(p) \cap locked = {}
      <4>1. CASE pc[p] \in NoLock
        BY <3>1, <4>1, Zenon DEF ProcessLocks
      <4>2. CASE pc[p] = "cv_wait"
        BY <3>1, <4>2, Zenon DEF ProcessLocks, CondLock, LockWanted
      <4>3. CASE pc[p] = "exit_notify"
        BY <3>1, <4>3, Zenon DEF ProcessLocks, OwnLock, LockWanted
      <4>4. QED
        BY <4>1, <4>2, <4>3, Zenon DEF NoLock, Calls, LockWanted
    <3>3. UnlockWanted(p) \subseteq locked
      BY <3>1, Zenon DEF ProcessLocks, NoLock, OwnLock, CondLock, BothLocks, UnlockWanted,
         Conditions, ConditionOf
    <3>4. Switching(p) => running_process \in locked
      BY <3>1, Zenon DEF ProcessLocks, OwnLock, Switching
    <3>5. QED
      BY <3>2, <3>3, <3>4, Zenon
  <2>5. QED
    BY <2>1, <2>3, <2>4, Zenon DEF LocksInOrder
<1>4. OnlySelfWaitPanics'
  BY <1>3, Zenon DEF OnlySelfWaitPanics, Conditions, ConditionOf
<1>5. QED
  BY <1>1, <1>2, <1>4, Zenon DEF LockInv

(* A step that changes nothing.                                             *)
LEMMA StutterPreserves ==
  ASSUME LockInv, UNCHANGED vars
  PROVE  LockInv'
<1>i. TypeOK /\ Current /\ Suspended /\ Conditions /\ OnlySelfWaitPanics
  BY Zenon DEF LockInv
<1> USE <1>i, NAssumption, CapacityAssumption, NamesAssumption
    DEF slotVars, stackVars, lockVars, schedVars, At, AtSched, Running, Goto,
        Labels, vars
<1>1. TypeOK'
  BY ZenonT(30) DEF TypeOK
<1>2. Current'
  BY Zenon DEF Current, ProcessLocks, SchedulerLocks
<1>3. Suspended'
  BY Zenon DEF Suspended
<1>4. Conditions'
  BY Zenon DEF Conditions, ConditionOf
<1>5. OnlySelfWaitPanics'
  BY Zenon DEF OnlySelfWaitPanics
<1>6. QED
  BY <1>1, <1>2, <1>3, <1>4, <1>5, Zenon DEF LockInv

-----------------------------------------------------------------------------
(* The swapgs on the way out.                                               *)
LEMMA SwapgsPreserves ==
  ASSUME LockInv, NEW p \in Slots, Swapgs(p)
  PROVE  LockInv'
<1>i. TypeOK /\ Current /\ Suspended /\ Conditions /\ OnlySelfWaitPanics
  BY Zenon DEF LockInv
<1> USE <1>i, NAssumption, CapacityAssumption, NamesAssumption
    DEF slotVars, stackVars, lockVars, schedVars, At, AtSched, Running, Goto,
        Labels, Swapgs
<1>1. ProcessLocks(p) /\ ConditionOf(p) /\ running_process = p
  BY Zenon DEF Current, Conditions
<1>2. TypeOK'
  BY Zenon DEF TypeOK, Calls, Live
<1>3. ProcessLocks(p)'
  BY <1>1, Zenon DEF TypeOK, ConditionOf, ProcessLocks, NoLock, OwnLock, CondLock,
     BothLocks, Calls
<1>4. ConditionOf(p)' /\ pc'[p] # "no_stack"
  BY <1>1, Zenon DEF TypeOK, ConditionOf, Calls
<1>5. state'[p] = state[p] /\ \A q \in Slots \ {p} :
        /\ pc'[q] = pc[q] /\ cond'[q] = cond[q] /\ target_pid'[q] = target_pid[q]
        /\ state'[q] = state[q] \/ (state[q] = "SLEEPING" /\ state'[q] = "RUNNABLE")
  BY Zenon DEF TypeOK
<1>6. QED
  BY <1>2, <1>3, <1>4, <1>5, ProcessGoesOn, Zenon

(* The return to user mode.                                                 *)
LEMMA ToUserPreserves ==
  ASSUME LockInv, NEW p \in Slots, ToUser(p)
  PROVE  LockInv'
<1>i. TypeOK /\ Current /\ Suspended /\ Conditions /\ OnlySelfWaitPanics
  BY Zenon DEF LockInv
<1> USE <1>i, NAssumption, CapacityAssumption, NamesAssumption
    DEF slotVars, stackVars, lockVars, schedVars, At, AtSched, Running, Goto,
        Labels, ToUser
<1>1. ProcessLocks(p) /\ ConditionOf(p) /\ running_process = p
  BY Zenon DEF Current, Conditions
<1>2. TypeOK'
  BY DEF TypeOK, Calls, Live
<1>3. ProcessLocks(p)'
  BY <1>1, Zenon DEF TypeOK, ConditionOf, ProcessLocks, NoLock, OwnLock, CondLock,
     BothLocks, Calls
<1>4. ConditionOf(p)' /\ pc'[p] # "no_stack"
  BY <1>1, Zenon DEF TypeOK, ConditionOf, Calls
<1>5. state'[p] = state[p] /\ \A q \in Slots \ {p} :
        /\ pc'[q] = pc[q] /\ cond'[q] = cond[q] /\ target_pid'[q] = target_pid[q]
        /\ state'[q] = state[q] \/ (state[q] = "SLEEPING" /\ state'[q] = "RUNNABLE")
  BY Zenon DEF TypeOK
<1>6. QED
  BY <1>2, <1>3, <1>4, <1>5, ProcessGoesOn, Zenon

(* An exec that fails before it has a slot gives back every lock it takes.  *)
LEMMA ExecFailsPreserves ==
  ASSUME LockInv, NEW p \in Slots, ExecFails(p)
  PROVE  LockInv'
<1>i. TypeOK /\ Current /\ Suspended /\ Conditions /\ OnlySelfWaitPanics
  BY Zenon DEF LockInv
<1> USE <1>i, NAssumption, CapacityAssumption, NamesAssumption
    DEF slotVars, stackVars, lockVars, schedVars, At, AtSched, Running, Goto,
        Labels, ExecFails, Return, LockedAndUnlocked
<1>1. ProcessLocks(p) /\ ConditionOf(p) /\ running_process = p
  BY Zenon DEF Current, Conditions
<1>2. was_enabled' \in BOOLEAN
  BY Zenon DEF TypeOK
<1>3. TypeOK'
  BY <1>2 DEF TypeOK, Calls, Live
<1>4. ProcessLocks(p)'
  BY <1>1, <1>2, Zenon DEF TypeOK, ConditionOf, ProcessLocks, NoLock, OwnLock, CondLock,
     BothLocks, Calls
<1>5. ConditionOf(p)' /\ pc'[p] # "no_stack"
  BY <1>1, <1>2, Zenon DEF TypeOK, ConditionOf, Calls
<1>6. state'[p] = state[p] /\ \A q \in Slots \ {p} :
        /\ pc'[q] = pc[q] /\ cond'[q] = cond[q] /\ target_pid'[q] = target_pid[q]
        /\ state'[q] = state[q] \/ (state[q] = "SLEEPING" /\ state'[q] = "RUNNABLE")
  BY Zenon DEF TypeOK
<1>7. QED
  BY <1>3, <1>4, <1>5, <1>6, ProcessGoesOn, Zenon

(* An exec that fails with a slot frees it again.                           *)
LEMMA ExecAbortsPreserves ==
  ASSUME LockInv, NEW p \in Slots, NEW s \in Slots, ExecAborts(p, s)
  PROVE  LockInv'
<1>i. TypeOK /\ Current /\ Suspended /\ Conditions /\ OnlySelfWaitPanics
  BY Zenon DEF LockInv
<1> USE <1>i, NAssumption, CapacityAssumption, NamesAssumption
    DEF slotVars, stackVars, lockVars, schedVars, At, AtSched, Running, Goto,
        Labels, ExecAborts, Return, LockedAndUnlocked, FirstUnused
<1>1. TypeOK'
  BY DEF TypeOK, Labels, Calls, Live
<1>2. Current'
  BY ZenonT(30) DEF TypeOK, Current, Suspended, Conditions, ConditionOf, ProcessLocks,
     SchedulerLocks, NoLock, OwnLock, CondLock, BothLocks, Calls
<1>3. Suspended'
  BY Zenon DEF TypeOK, Current, Suspended, Calls
<1>4. Conditions'
  BY DEF TypeOK, Current, Suspended, Conditions, ConditionOf, Calls, FirstWithPid
<1>5. OnlySelfWaitPanics'
  BY Zenon DEF OnlySelfWaitPanics
<1>6. QED
  BY <1>1, <1>2, <1>3, <1>4, <1>5, Zenon DEF LockInv

(* A new process is parked in front of my_process_unlock, where the         *)
(* scheduler's lock is given back.                                          *)
LEMMA ProcExecPreserves ==
  ASSUME LockInv, NEW p \in Slots, NEW s \in Slots, proc_exec(p, s)
  PROVE  LockInv'
<1>i. TypeOK /\ Current /\ Suspended /\ Conditions /\ OnlySelfWaitPanics
  BY Zenon DEF LockInv
<1> USE <1>i, NAssumption, CapacityAssumption, NamesAssumption
    DEF slotVars, stackVars, lockVars, schedVars, At, AtSched, Running, Goto,
        Labels, proc_exec, LockedAndUnlocked, FirstUnused
<1>1. TypeOK'
  BY DEF TypeOK, Labels, Calls, Live
<1>2. Current'
  BY ZenonT(30) DEF TypeOK, Current, Suspended, Conditions, ConditionOf, ProcessLocks,
     SchedulerLocks, NoLock, OwnLock, CondLock, BothLocks, Calls
<1>3. Suspended'
  BY Zenon DEF TypeOK, Current, Suspended, Calls
<1>4. Conditions'
  BY DEF TypeOK, Current, Suspended, Conditions, ConditionOf, Calls, FirstWithPid
<1>5. OnlySelfWaitPanics'
  BY Zenon DEF OnlySelfWaitPanics
<1>6. QED
  BY <1>1, <1>2, <1>3, <1>4, <1>5, Zenon DEF LockInv

(* proc_exit takes the lock of its process.                                 *)
LEMMA ExitLockPreserves ==
  ASSUME LockInv, NEW p \in Slots, ExitLock(p)
  PROVE  LockInv'
<1>i. TypeOK /\ Current /\ Suspended /\ Conditions /\ OnlySelfWaitPanics
  BY Zenon DEF LockInv
<1> USE <1>i, NAssumption, CapacityAssumption, NamesAssumption
    DEF slotVars, stackVars, lockVars, schedVars, At, AtSched, Running, Goto,
        Labels, ExitLock
<1>1. ProcessLocks(p) /\ ConditionOf(p) /\ running_process = p
  BY Zenon DEF Current, Conditions
<1>2. Locks(p)
  BY <1>1, LockFacts, Zenon DEF ConditionOf
<1>3. pid[p] \in Int
  BY DEF TypeOK
<1>4. TypeOK'
  BY <1>2, <1>3, Zenon DEF TypeOK, Calls, Live, Locks
<1>5. ProcessLocks(p)'
  BY <1>1, <1>2, <1>3 DEF TypeOK, ConditionOf, ProcessLocks, NoLock, OwnLock, CondLock,
     BothLocks, Calls, Locks
<1>6. ConditionOf(p)' /\ pc'[p] # "no_stack"
  BY <1>1, <1>2, <1>3, Zenon DEF TypeOK, ConditionOf, Calls
<1>7. state'[p] = state[p] /\ \A q \in Slots \ {p} :
        /\ pc'[q] = pc[q] /\ cond'[q] = cond[q] /\ target_pid'[q] = target_pid[q]
        /\ state'[q] = state[q] \/ (state[q] = "SLEEPING" /\ state'[q] = "RUNNABLE")
  BY Zenon DEF TypeOK
<1>8. QED
  BY <1>4, <1>5, <1>6, <1>7, ProcessGoesOn, Zenon

(* proc_exit wakes its waiters, who are parked behind their sleep.          *)
LEMMA ExitNotifyPreserves ==
  ASSUME LockInv, NEW p \in Slots, ExitNotify(p)
  PROVE  LockInv'
<1>i. TypeOK /\ Current /\ Suspended /\ Conditions /\ OnlySelfWaitPanics
  BY Zenon DEF LockInv
<1> USE <1>i, NAssumption, CapacityAssumption, NamesAssumption
    DEF slotVars, stackVars, lockVars, schedVars, At, AtSched, Running, Goto,
        Labels, ExitNotify, proc_wakeup
<1>1. ProcessLocks(p) /\ ConditionOf(p) /\ running_process = p
  BY Zenon DEF Current, Conditions
<1>2. TypeOK'
  BY Zenon DEF TypeOK, Calls, Live
<1>3. ProcessLocks(p)'
  BY <1>1, Zenon DEF TypeOK, ConditionOf, ProcessLocks, NoLock, OwnLock, CondLock,
     BothLocks, Calls
<1>4. ConditionOf(p)' /\ pc'[p] # "no_stack"
  BY <1>1, Zenon DEF TypeOK, ConditionOf, Calls
<1>5. state'[p] = state[p] /\ \A q \in Slots \ {p} :
        /\ pc'[q] = pc[q] /\ cond'[q] = cond[q] /\ target_pid'[q] = target_pid[q]
        /\ state'[q] = state[q] \/ (state[q] = "SLEEPING" /\ state'[q] = "RUNNABLE")
  BY <1>1, Zenon DEF TypeOK
<1>6. QED
  BY <1>2, <1>3, <1>4, <1>5, ProcessGoesOn, Zenon

(* proc_exit switches to the scheduler for good, with its lock.             *)
LEMMA ExitSwitchPreserves ==
  ASSUME LockInv, NEW p \in Slots, ExitSwitch(p)
  PROVE  LockInv'
<1>i. TypeOK /\ Current /\ Suspended /\ Conditions /\ OnlySelfWaitPanics
  BY Zenon DEF LockInv
<1> USE <1>i, NAssumption, CapacityAssumption, NamesAssumption
    DEF slotVars, stackVars, lockVars, schedVars, At, AtSched, Running, Goto,
        Labels, ExitSwitch, scheduler_switch_back
<1>0. locked = {p} /\ depth = 1 /\ ~if_flag /\ running_process = p /\ i = p
  BY Zenon DEF Current, ProcessLocks, OwnLock
<1>1. TypeOK'
  BY Zenon DEF TypeOK, Labels, Calls, Live
<1>2. Current'
  BY <1>0, Zenon DEF TypeOK, Current, SchedulerLocks
<1>3. Suspended'
  BY ZenonT(30) DEF TypeOK, Current, Suspended, Calls
<1>4. Conditions'
  <2>1. \A q \in Slots \ {p} : ConditionOf(q)'
    BY SameCondition, Zenon DEF TypeOK, Conditions
  <2>2. ConditionOf(p)'
    BY ZenonT(30) DEF TypeOK, Current, Suspended, Conditions, ConditionOf, Calls, FirstWithPid
  <2>3. QED
    BY <2>1, <2>2, Zenon DEF Conditions
<1>5. OnlySelfWaitPanics'
  BY Zenon DEF OnlySelfWaitPanics
<1>6. QED
  BY <1>1, <1>2, <1>3, <1>4, <1>5, Zenon DEF LockInv

(* condvar_wait takes the lock of its process, which is another than that   *)
(* of the condition.                                                        *)
LEMMA CondvarLockOwnPreserves ==
  ASSUME LockInv, NEW p \in Slots, CondvarLockOwn(p)
  PROVE  LockInv'
<1>i. TypeOK /\ Current /\ Suspended /\ Conditions /\ OnlySelfWaitPanics
  BY Zenon DEF LockInv
<1> USE <1>i, NAssumption, CapacityAssumption, NamesAssumption
    DEF slotVars, stackVars, lockVars, schedVars, At, AtSched, Running, Goto,
        Labels, CondvarLockOwn
<1>1. ProcessLocks(p) /\ ConditionOf(p) /\ running_process = p
  BY Zenon DEF Current, Conditions
<1>2. Locks(p)
  BY <1>1, LockFacts, Zenon DEF ConditionOf
<1>3. TypeOK'
  BY <1>2, Zenon DEF TypeOK, Calls, Live, Locks
<1>4. ProcessLocks(p)'
  BY <1>1, <1>2 DEF TypeOK, ConditionOf, ProcessLocks, NoLock, OwnLock, CondLock,
     BothLocks, Calls, Locks
<1>5. ConditionOf(p)' /\ pc'[p] # "no_stack"
  BY <1>1, <1>2, ZenonT(30) DEF TypeOK, ConditionOf, Calls, ProcessLocks, CondLock, condvar_lock
<1>6. state'[p] = state[p] /\ \A q \in Slots \ {p} :
        /\ pc'[q] = pc[q] /\ cond'[q] = cond[q] /\ target_pid'[q] = target_pid[q]
        /\ state'[q] = state[q] \/ (state[q] = "SLEEPING" /\ state'[q] = "RUNNABLE")
  BY Zenon DEF TypeOK
<1>7. QED
  BY <1>3, <1>4, <1>5, <1>6, ProcessGoesOn, Zenon

(* condvar_wait gives the lock of the condition back and keeps its own.     *)
LEMMA CondvarUnlockCondPreserves ==
  ASSUME LockInv, NEW p \in Slots, CondvarUnlockCond(p)
  PROVE  LockInv'
<1>i. TypeOK /\ Current /\ Suspended /\ Conditions /\ OnlySelfWaitPanics
  BY Zenon DEF LockInv
<1> USE <1>i, NAssumption, CapacityAssumption, NamesAssumption
    DEF slotVars, stackVars, lockVars, schedVars, At, AtSched, Running, Goto,
        Labels, CondvarUnlockCond
<1>1. ProcessLocks(p) /\ ConditionOf(p) /\ running_process = p
  BY Zenon DEF Current, Conditions
<1>2. depth \in Nat \ {0}
  BY <1>1 DEF ProcessLocks, OwnLock, CondLock, BothLocks
<1>3. Unlocks(cond[p])
  BY <1>1, <1>2, UnlockFacts, Zenon DEF ConditionOf
<1>4. TypeOK'
  BY <1>3, Zenon DEF TypeOK, Calls, Live, Unlocks
<1>5. ProcessLocks(p)'
  BY <1>1, <1>3 DEF TypeOK, ConditionOf, ProcessLocks, NoLock, OwnLock, CondLock,
     BothLocks, Calls, Unlocks
<1>6. ConditionOf(p)' /\ pc'[p] # "no_stack"
  BY <1>1, <1>3, Zenon DEF TypeOK, ConditionOf, Calls
<1>7. state'[p] = state[p] /\ \A q \in Slots \ {p} :
        /\ pc'[q] = pc[q] /\ cond'[q] = cond[q] /\ target_pid'[q] = target_pid[q]
        /\ state'[q] = state[q] \/ (state[q] = "SLEEPING" /\ state'[q] = "RUNNABLE")
  BY ZenonT(30) DEF TypeOK
<1>8. QED
  BY <1>4, <1>5, <1>6, <1>7, ProcessGoesOn, Zenon

(* condvar_wait switches to the scheduler with its own lock.                *)
LEMMA CondvarSleepPreserves ==
  ASSUME LockInv, NEW p \in Slots, CondvarSleep(p)
  PROVE  LockInv'
<1>i. TypeOK /\ Current /\ Suspended /\ Conditions /\ OnlySelfWaitPanics
  BY Zenon DEF LockInv
<1> USE <1>i, NAssumption, CapacityAssumption, NamesAssumption
    DEF slotVars, stackVars, lockVars, schedVars, At, AtSched, Running, Goto,
        Labels, CondvarSleep, scheduler_switch_back
<1>0. locked = {p} /\ depth = 1 /\ ~if_flag /\ running_process = p /\ i = p
  BY Zenon DEF Current, ProcessLocks, OwnLock
<1>1. TypeOK'
  BY Zenon DEF TypeOK, Labels, Calls, Live
<1>2. Current'
  BY <1>0, Zenon DEF TypeOK, Current, SchedulerLocks
<1>3. Suspended'
  BY Zenon DEF TypeOK, Current, Suspended, Calls
<1>4. Conditions'
  <2>1. \A q \in Slots \ {p} : ConditionOf(q)'
    BY SameCondition, Zenon DEF TypeOK, Conditions
  <2>2. ConditionOf(p)'
    BY ZenonT(30) DEF TypeOK, Current, Suspended, Conditions, ConditionOf, Calls, FirstWithPid
  <2>3. QED
    BY <2>1, <2>2, Zenon DEF Conditions
<1>5. OnlySelfWaitPanics'
  BY Zenon DEF OnlySelfWaitPanics
<1>6. QED
  BY <1>1, <1>2, <1>3, <1>4, <1>5, Zenon DEF LockInv

(* A process that was woken gives its own lock back.                        *)
LEMMA CondvarUnlockOwnPreserves ==
  ASSUME LockInv, NEW p \in Slots, CondvarUnlockOwn(p)
  PROVE  LockInv'
<1>i. TypeOK /\ Current /\ Suspended /\ Conditions /\ OnlySelfWaitPanics
  BY Zenon DEF LockInv
<1> USE <1>i, NAssumption, CapacityAssumption, NamesAssumption
    DEF slotVars, stackVars, lockVars, schedVars, At, AtSched, Running, Goto,
        Labels, CondvarUnlockOwn
<1>1. ProcessLocks(p) /\ ConditionOf(p) /\ running_process = p
  BY Zenon DEF Current, Conditions
<1>2. depth \in Nat \ {0}
  BY <1>1 DEF ProcessLocks, OwnLock, CondLock, BothLocks
<1>3. Unlocks(p)
  BY <1>1, <1>2, UnlockFacts, Zenon DEF ConditionOf
<1>4. TypeOK'
  BY <1>3, Zenon DEF TypeOK, Calls, Live, Unlocks
<1>5. ProcessLocks(p)'
  BY <1>1, <1>3 DEF TypeOK, ConditionOf, ProcessLocks, NoLock, OwnLock, CondLock,
     BothLocks, Calls, Unlocks
<1>6. ConditionOf(p)' /\ pc'[p] # "no_stack"
  BY <1>1, <1>3, Zenon DEF TypeOK, ConditionOf, Calls
<1>7. state'[p] = state[p] /\ \A q \in Slots \ {p} :
        /\ pc'[q] = pc[q] /\ cond'[q] = cond[q] /\ target_pid'[q] = target_pid[q]
        /\ state'[q] = state[q] \/ (state[q] = "SLEEPING" /\ state'[q] = "RUNNABLE")
  BY SMTT(30), Zenon DEF TypeOK
<1>8. QED
  BY <1>4, <1>5, <1>6, <1>7, ProcessGoesOn, Zenon

(* A process that was woken takes the lock of the condition again.          *)
LEMMA CondvarRelockPreserves ==
  ASSUME LockInv, NEW p \in Slots, CondvarRelock(p)
  PROVE  LockInv'
<1>i. TypeOK /\ Current /\ Suspended /\ Conditions /\ OnlySelfWaitPanics
  BY Zenon DEF LockInv
<1> USE <1>i, NAssumption, CapacityAssumption, NamesAssumption
    DEF slotVars, stackVars, lockVars, schedVars, At, AtSched, Running, Goto,
        Labels, CondvarRelock
<1>1. ProcessLocks(p) /\ ConditionOf(p) /\ running_process = p
  BY Zenon DEF Current, Conditions
<1>2. Locks(cond[p])
  BY <1>1, LockFacts, Zenon DEF ConditionOf
<1>3. TypeOK'
  BY <1>2, Zenon DEF TypeOK, Calls, Live, Locks
<1>4. ProcessLocks(p)'
  BY <1>1, <1>2 DEF TypeOK, ConditionOf, ProcessLocks, NoLock, OwnLock, CondLock,
     BothLocks, Calls, Locks
<1>5. ConditionOf(p)' /\ pc'[p] # "no_stack"
  BY <1>1, <1>2, Zenon DEF TypeOK, ConditionOf, Calls
<1>6. state'[p] = state[p] /\ \A q \in Slots \ {p} :
        /\ pc'[q] = pc[q] /\ cond'[q] = cond[q] /\ target_pid'[q] = target_pid[q]
        /\ state'[q] = state[q] \/ (state[q] = "SLEEPING" /\ state'[q] = "RUNNABLE")
  BY Zenon DEF TypeOK
<1>7. QED
  BY <1>3, <1>4, <1>5, <1>6, ProcessGoesOn, ZenonT(30)

(* proc_wait keeps the lock of the slot it found.                           *)
LEMMA WaitLookupPreserves ==
  ASSUME LockInv, NEW p \in Slots, WaitLookup(p)
  PROVE  LockInv'
<1>i. TypeOK /\ Current /\ Suspended /\ Conditions /\ OnlySelfWaitPanics
  BY Zenon DEF LockInv
<1> USE <1>i, NAssumption, CapacityAssumption, NamesAssumption
    DEF slotVars, stackVars, lockVars, schedVars, At, AtSched, Running, Goto,
        Labels, WaitLookup
<1>1. ProcessLocks(p) /\ ConditionOf(p) /\ running_process = p
  BY Zenon DEF Current, Conditions
<1>2. PICK s \in Slots : /\ FirstWithPid(s, target_pid[p]) /\ condvar_lock(s)
                       /\ cond' = [cond EXCEPT ![p] = s]
  BY Zenon
<1>3. Locks(s)
  BY <1>1, <1>2, LockFacts, Zenon DEF ConditionOf
<1>4. TypeOK'
  BY <1>2, <1>3, Zenon DEF TypeOK, Calls, Live, Locks
<1>5. ProcessLocks(p)'
  BY <1>1, <1>2, <1>3 DEF TypeOK, ConditionOf, ProcessLocks, NoLock, OwnLock, CondLock,
     BothLocks, Calls, Locks
<1>6. ConditionOf(p)' /\ pc'[p] # "no_stack"
  BY <1>1, <1>2, <1>3, ZenonT(30) DEF TypeOK, ConditionOf, Calls, FirstWithPid
<1>7. state'[p] = state[p] /\ \A q \in Slots \ {p} :
        /\ pc'[q] = pc[q] /\ cond'[q] = cond[q] /\ target_pid'[q] = target_pid[q]
        /\ state'[q] = state[q] \/ (state[q] = "SLEEPING" /\ state'[q] = "RUNNABLE")
  BY <1>2, Zenon DEF TypeOK
<1>8. QED
  BY <1>4, <1>5, <1>6, <1>7, ProcessGoesOn, ZenonT(30)

(* proc_wait without a target gives back every lock it takes.               *)
LEMMA WaitNoSuchPidPreserves ==
  ASSUME LockInv, NEW p \in Slots, WaitNoSuchPid(p)
  PROVE  LockInv'
<1>i. TypeOK /\ Current /\ Suspended /\ Conditions /\ OnlySelfWaitPanics
  BY Zenon DEF LockInv
<1> USE <1>i, NAssumption, CapacityAssumption, NamesAssumption
    DEF slotVars, stackVars, lockVars, schedVars, At, AtSched, Running, Goto,
        Labels, WaitNoSuchPid, Return, LockedAndUnlocked
<1>1. ProcessLocks(p) /\ ConditionOf(p) /\ running_process = p
  BY Zenon DEF Current, Conditions
<1>2. was_enabled' \in BOOLEAN
  BY Zenon DEF TypeOK
<1>3. TypeOK'
  BY <1>2 DEF TypeOK, Calls, Live
<1>4. ProcessLocks(p)'
  BY <1>1, <1>2, Zenon DEF TypeOK, ConditionOf, ProcessLocks, NoLock, OwnLock, CondLock,
     BothLocks, Calls
<1>5. ConditionOf(p)' /\ pc'[p] # "no_stack"
  BY <1>1, <1>2, Zenon DEF TypeOK, ConditionOf, Calls
<1>6. state'[p] = state[p] /\ \A q \in Slots \ {p} :
        /\ pc'[q] = pc[q] /\ cond'[q] = cond[q] /\ target_pid'[q] = target_pid[q]
        /\ state'[q] = state[q] \/ (state[q] = "SLEEPING" /\ state'[q] = "RUNNABLE")
  BY Zenon DEF TypeOK
<1>7. QED
  BY <1>3, <1>4, <1>5, <1>6, ProcessGoesOn, SMTT(30), Zenon

(* proc_wait goes to sleep on a target that has not exited.                 *)
LEMMA WaitAgainPreserves ==
  ASSUME LockInv, NEW p \in Slots, WaitAgain(p)
  PROVE  LockInv'
<1>i. TypeOK /\ Current /\ Suspended /\ Conditions /\ OnlySelfWaitPanics
  BY Zenon DEF LockInv
<1> USE <1>i, NAssumption, CapacityAssumption, NamesAssumption
    DEF slotVars, stackVars, lockVars, schedVars, At, AtSched, Running, Goto,
        Labels, WaitAgain
<1>1. ProcessLocks(p) /\ ConditionOf(p) /\ running_process = p
  BY Zenon DEF Current, Conditions
<1>2. TypeOK'
  BY Zenon DEF TypeOK, Calls, Live
<1>3. ProcessLocks(p)'
  BY <1>1, Zenon DEF TypeOK, ConditionOf, ProcessLocks, NoLock, OwnLock, CondLock,
     BothLocks, Calls
<1>4. ConditionOf(p)' /\ pc'[p] # "no_stack"
  BY <1>1, Zenon DEF TypeOK, ConditionOf, Calls
<1>5. state'[p] = state[p] /\ \A q \in Slots \ {p} :
        /\ pc'[q] = pc[q] /\ cond'[q] = cond[q] /\ target_pid'[q] = target_pid[q]
        /\ state'[q] = state[q] \/ (state[q] = "SLEEPING" /\ state'[q] = "RUNNABLE")
  BY Zenon DEF TypeOK
<1>6. QED
  BY <1>2, <1>3, <1>4, <1>5, ProcessGoesOn, Zenon

(* proc_wait gives the lock of its target back.                             *)
LEMMA WaitDonePreserves ==
  ASSUME LockInv, NEW p \in Slots, WaitDone(p)
  PROVE  LockInv'
<1>i. TypeOK /\ Current /\ Suspended /\ Conditions /\ OnlySelfWaitPanics
  BY Zenon DEF LockInv
<1> USE <1>i, NAssumption, CapacityAssumption, NamesAssumption
    DEF slotVars, stackVars, lockVars, schedVars, At, AtSched, Running, Goto,
        Labels, WaitDone, Return
<1>1. ProcessLocks(p) /\ ConditionOf(p) /\ running_process = p
  BY Zenon DEF Current, Conditions
<1>2. depth \in Nat \ {0}
  BY <1>1 DEF ProcessLocks, OwnLock, CondLock, BothLocks
<1>3. Unlocks(cond[p])
  BY <1>1, <1>2, UnlockFacts, Zenon DEF ConditionOf
<1>4. exit_status[cond[p]] \in Int
  BY <1>1, Zenon DEF TypeOK, ConditionOf
<1>5. TypeOK'
  BY <1>3, <1>4, Zenon DEF TypeOK, Calls, Live, Unlocks
<1>6. ProcessLocks(p)'
  BY <1>1, <1>3, <1>4 DEF TypeOK, ConditionOf, ProcessLocks, NoLock, OwnLock, CondLock,
     BothLocks, Calls, Unlocks
<1>7. ConditionOf(p)' /\ pc'[p] # "no_stack"
  BY <1>1, <1>3, <1>4, Zenon DEF TypeOK, ConditionOf, Calls
<1>8. state'[p] = state[p] /\ \A q \in Slots \ {p} :
        /\ pc'[q] = pc[q] /\ cond'[q] = cond[q] /\ target_pid'[q] = target_pid[q]
        /\ state'[q] = state[q] \/ (state[q] = "SLEEPING" /\ state'[q] = "RUNNABLE")
  BY ZenonT(30) DEF TypeOK
<1>9. QED
  BY <1>5, <1>6, <1>7, <1>8, ProcessGoesOn, Zenon

(* The serial read takes the lock of the ring.                              *)
LEMMA ReadLockPreserves ==
  ASSUME LockInv, NEW p \in Slots, ReadLock(p)
  PROVE  LockInv'
<1>i. TypeOK /\ Current /\ Suspended /\ Conditions /\ OnlySelfWaitPanics
  BY Zenon DEF LockInv
<1> USE <1>i, NAssumption, CapacityAssumption, NamesAssumption
    DEF slotVars, stackVars, lockVars, schedVars, At, AtSched, Running, Goto,
        Labels, ReadLock
<1>1. ProcessLocks(p) /\ ConditionOf(p) /\ running_process = p
  BY ZenonT(30) DEF Current, Conditions
<1>2. Locks(Serial)
  BY <1>1, LockFacts, Zenon DEF ConditionOf
<1>3. pc' \in [Slots -> Labels]
  BY ZenonT(30) DEF TypeOK
<1>4. TypeOK'
  BY <1>2, <1>3, Zenon DEF TypeOK, Calls, Live, Locks
<1>5. ProcessLocks(p)'
  BY <1>1, <1>2, <1>3 DEF TypeOK, ConditionOf, ProcessLocks, NoLock, OwnLock, CondLock,
     BothLocks, Calls, Locks
<1>6. ConditionOf(p)' /\ pc'[p] # "no_stack"
  BY <1>1, <1>2, <1>3, ZenonT(30) DEF TypeOK, ConditionOf, Calls
<1>7. state'[p] = state[p] /\ \A q \in Slots \ {p} :
        /\ pc'[q] = pc[q] /\ cond'[q] = cond[q] /\ target_pid'[q] = target_pid[q]
        /\ state'[q] = state[q] \/ (state[q] = "SLEEPING" /\ state'[q] = "RUNNABLE")
  BY ZenonT(30) DEF TypeOK
<1>8. QED
  BY <1>4, <1>5, <1>6, <1>7, ProcessGoesOn, Zenon

(* The serial read goes to sleep on an empty ring.                          *)
LEMMA ReadWaitPreserves ==
  ASSUME LockInv, NEW p \in Slots, ReadWait(p)
  PROVE  LockInv'
<1>i. TypeOK /\ Current /\ Suspended /\ Conditions /\ OnlySelfWaitPanics
  BY Zenon DEF LockInv
<1> USE <1>i, NAssumption, CapacityAssumption, NamesAssumption
    DEF slotVars, stackVars, lockVars, schedVars, At, AtSched, Running, Goto,
        Labels, ReadWait
<1>1. ProcessLocks(p) /\ ConditionOf(p) /\ running_process = p
  BY Zenon DEF Current, Conditions
<1>2. TypeOK'
  BY Zenon DEF TypeOK, Calls, Live
<1>3. ProcessLocks(p)'
  BY <1>1, Zenon DEF TypeOK, ConditionOf, ProcessLocks, NoLock, OwnLock, CondLock,
     BothLocks, Calls
<1>4. ConditionOf(p)' /\ pc'[p] # "no_stack"
  BY <1>1, Zenon DEF TypeOK, ConditionOf, Calls
<1>5. state'[p] = state[p] /\ \A q \in Slots \ {p} :
        /\ pc'[q] = pc[q] /\ cond'[q] = cond[q] /\ target_pid'[q] = target_pid[q]
        /\ state'[q] = state[q] \/ (state[q] = "SLEEPING" /\ state'[q] = "RUNNABLE")
  BY Zenon DEF TypeOK
<1>6. QED
  BY <1>2, <1>3, <1>4, <1>5, ProcessGoesOn, Zenon

(* The serial read gives the lock of the ring back.                         *)
LEMMA ReadDonePreserves ==
  ASSUME LockInv, NEW p \in Slots, ReadDone(p)
  PROVE  LockInv'
<1>i. TypeOK /\ Current /\ Suspended /\ Conditions /\ OnlySelfWaitPanics
  BY Zenon DEF LockInv
<1> USE <1>i, NAssumption, CapacityAssumption, NamesAssumption
    DEF slotVars, stackVars, lockVars, schedVars, At, AtSched, Running, Goto,
        Labels, ReadDone, Return
<1>1. ProcessLocks(p) /\ ConditionOf(p) /\ running_process = p
  BY Zenon DEF Current, Conditions
<1>2. depth \in Nat \ {0}
  BY <1>1 DEF ProcessLocks, OwnLock, CondLock, BothLocks
<1>3. Unlocks(Serial)
  BY <1>1, <1>2, UnlockFacts, Zenon DEF ConditionOf
<1>4. pc' \in [Slots -> Labels] /\ pc'[p] = "ret" /\ locked = {Serial} /\ depth = 1
  BY <1>1, Zenon DEF TypeOK, ConditionOf, ProcessLocks, CondLock
<1>5. TypeOK'
  BY <1>3, <1>4 DEF TypeOK, Calls, Live, Unlocks
<1>6. ProcessLocks(p)'
  BY <1>3, <1>4 DEF ProcessLocks, OwnLock, CondLock, BothLocks, Unlocks
<1>7. ConditionOf(p)' /\ pc'[p] # "no_stack"
  BY <1>1, <1>3, <1>4 DEF TypeOK, ConditionOf, Calls
<1>8. state'[p] = state[p] /\ \A q \in Slots \ {p} :
        /\ pc'[q] = pc[q] /\ cond'[q] = cond[q] /\ target_pid'[q] = target_pid[q]
        /\ state'[q] = state[q] \/ (state[q] = "SLEEPING" /\ state'[q] = "RUNNABLE")
  BY Zenon DEF TypeOK
<1>9. QED
  BY <1>5, <1>6, <1>7, <1>8, ProcessGoesOn, ZenonT(30)

(* Sleep and yield take the lock of their process.                          *)
LEMMA LockToSwitchPreserves ==
  ASSUME LockInv, NEW p \in Slots, LockToSwitch(p)
  PROVE  LockInv'
<1>i. TypeOK /\ Current /\ Suspended /\ Conditions /\ OnlySelfWaitPanics
  BY Zenon DEF LockInv
<1> USE <1>i, NAssumption, CapacityAssumption, NamesAssumption
    DEF slotVars, stackVars, lockVars, schedVars, At, AtSched, Running, Goto,
        Labels, LockToSwitch
<1>1. ProcessLocks(p) /\ ConditionOf(p) /\ running_process = p
  BY Zenon DEF Current, Conditions
<1>2. Locks(p)
  BY <1>1, LockFacts, Zenon DEF ConditionOf
<1>3. pc' \in [Slots -> Labels]
  BY ZenonT(30) DEF TypeOK
<1>4. TypeOK'
  BY <1>2, <1>3, Zenon DEF TypeOK, Calls, Live, Locks
<1>5. ProcessLocks(p)'
  BY <1>1, <1>2, <1>3 DEF TypeOK, ConditionOf, ProcessLocks, NoLock, OwnLock, CondLock,
     BothLocks, Calls, Locks
<1>6. ConditionOf(p)' /\ pc'[p] # "no_stack"
  BY <1>1, <1>2, <1>3, ZenonT(30) DEF TypeOK, ConditionOf, Calls
<1>7. state'[p] = state[p] /\ \A q \in Slots \ {p} :
        /\ pc'[q] = pc[q] /\ cond'[q] = cond[q] /\ target_pid'[q] = target_pid[q]
        /\ state'[q] = state[q] \/ (state[q] = "SLEEPING" /\ state'[q] = "RUNNABLE")
  BY Zenon DEF TypeOK
<1>8. QED
  BY <1>4, <1>5, <1>6, <1>7, ProcessGoesOn, ZenonT(30)

(* Sleep and yield switch to the scheduler with that lock.                  *)
LEMMA SwitchRunnablePreserves ==
  ASSUME LockInv, NEW p \in Slots, SwitchRunnable(p)
  PROVE  LockInv'
<1>i. TypeOK /\ Current /\ Suspended /\ Conditions /\ OnlySelfWaitPanics
  BY Zenon DEF LockInv
<1> USE <1>i, NAssumption, CapacityAssumption, NamesAssumption
    DEF slotVars, stackVars, lockVars, schedVars, At, AtSched, Running, Goto,
        Labels, SwitchRunnable, scheduler_switch_back
<1>0. locked = {p} /\ depth = 1 /\ ~if_flag /\ running_process = p /\ i = p
  BY Zenon DEF Current, ProcessLocks, OwnLock
<1>1. TypeOK'
  BY DEF TypeOK, Labels, Calls, Live
<1>2. Current'
  BY <1>0, Zenon DEF TypeOK, Current, SchedulerLocks
<1>3. Suspended'
  BY DEF TypeOK, Current, Suspended, Calls
<1>4. Conditions'
  <2>1. \A q \in Slots \ {p} : ConditionOf(q)'
    BY SameCondition, ZenonT(30) DEF TypeOK, Conditions
  <2>2. ConditionOf(p)'
    BY DEF TypeOK, Current, Suspended, Conditions, ConditionOf, Calls, FirstWithPid
  <2>3. QED
    BY <2>1, <2>2, Zenon DEF Conditions
<1>5. OnlySelfWaitPanics'
  BY Zenon DEF OnlySelfWaitPanics
<1>6. QED
  BY <1>1, <1>2, <1>3, <1>4, <1>5, Zenon DEF LockInv

(* The lock that came with the context switch is given back.                *)
LEMMA UnlockOwnPreserves ==
  ASSUME LockInv, NEW p \in Slots, UnlockOwn(p)
  PROVE  LockInv'
<1>i. TypeOK /\ Current /\ Suspended /\ Conditions /\ OnlySelfWaitPanics
  BY Zenon DEF LockInv
<1> USE <1>i, NAssumption, CapacityAssumption, NamesAssumption
    DEF slotVars, stackVars, lockVars, schedVars, At, AtSched, Running, Goto,
        Labels, UnlockOwn, Return
<1>1. ProcessLocks(p) /\ ConditionOf(p) /\ running_process = p
  BY Zenon DEF Current, Conditions
<1>2. depth \in Nat \ {0}
  BY <1>1 DEF ProcessLocks, OwnLock, CondLock, BothLocks
<1>3. Unlocks(p)
  BY <1>1, <1>2, UnlockFacts, Zenon DEF ConditionOf
<1>4. pc' \in [Slots -> Labels]
  BY Zenon DEF TypeOK
<1>5. TypeOK'
  BY <1>3, <1>4, SMTT(30), Zenon DEF TypeOK, Calls, Live, Unlocks
<1>6. ProcessLocks(p)'
  BY <1>1, <1>3, <1>4 DEF TypeOK, ConditionOf, ProcessLocks, NoLock, OwnLock, CondLock,
     BothLocks, Calls, Unlocks
<1>7. ConditionOf(p)' /\ pc'[p] # "no_stack"
  BY <1>1, <1>3, <1>4, ZenonT(30) DEF TypeOK, ConditionOf, Calls
<1>8. state'[p] = state[p] /\ \A q \in Slots \ {p} :
        /\ pc'[q] = pc[q] /\ cond'[q] = cond[q] /\ target_pid'[q] = target_pid[q]
        /\ state'[q] = state[q] \/ (state[q] = "SLEEPING" /\ state'[q] = "RUNNABLE")
  BY Zenon DEF TypeOK
<1>9. QED
  BY <1>5, <1>6, <1>7, <1>8, ProcessGoesOn, ZenonT(30)
=============================================================================
