------------------------------- MODULE Kernel -------------------------------
(***************************************************************************)
(* The non-preemptive kernel on its one running core: the scheduler and    *)
(* the process table (kernel/userspace/proc.c), the condition variables    *)
(* (kernel/common/condvar.c), the traps and system calls that block, and   *)
(* the interrupt of the serial port.  A step is what the kernel does       *)
(* between two operations on a lock; where the interrupts are off no       *)
(* finer interleaving exists.                                              *)
(***************************************************************************)
EXTENDS Integers, FiniteSets

CONSTANTS N,         \* MAX_PROCESSES
          Capacity,  \* SERIAL_BUFFER_LENGTH - 1: characters the ring can hold
          UserCalls, \* the blocking system calls and traps the programs use
          MaxPid,    \* bound on next_pid, for model checking only
          Serial,    \* the lock of serial_input_buffer_condvar
          Sched,     \* the stack of the scheduler
          None       \* NULL

Slots == 0 .. N - 1

ASSUME NAssumption == N \in Nat \ {0}
ASSUME CapacityAssumption == Capacity \in Nat
Calls == {"exec", "exit_lock", "wait_lookup", "read_lock", "read_async_lock",
          "sleep_lock", "yield_lock"}

ASSUME UserCallsAssumption == UserCalls \subseteq Calls
ASSUME MaxPidAssumption == MaxPid \in Nat
ASSUME NamesAssumption ==
  /\ Serial \notin Slots /\ Sched \notin Slots /\ None \notin Slots
  /\ None # Serial /\ None # Sched

VARIABLES
  \* struct process, per slot
  state, pid, exit_status, waiting_channel,
  \* the kernel stack of each process: where it is, the arguments of the
  \* condvar_wait and proc_wait calls on it, and the result it will return
  pc, cond, target_pid, rax,
  next_pid,
  \* the locks that are taken, and struct cpu_local_data
  locked, if_flag, depth, was_enabled, running_process,
  \* the stack the CPU is on, the scheduler's place in its loop and its index
  cpu, spc, i,
  avail,     \* number of characters in serial_input_buffer
  panic      \* "no", or the message of the panic that stopped the kernel

slotVars == <<state, pid, exit_status, waiting_channel, next_pid>>
stackVars == <<pc, cond, target_pid, rax>>
lockVars == <<locked, if_flag, depth, was_enabled>>
schedVars == <<running_process, cpu, spc, i>>
vars == <<slotVars, stackVars, lockVars, schedVars, avail, panic>>

Live == {"RUNNABLE", "RUNNING", "SLEEPING"}
Running(p) == cpu = p /\ panic = "no"
At(p, label) == Running(p) /\ pc[p] = label
AtSched(label) == cpu = Sched /\ panic = "no" /\ spc = label
Goto(p, label) == pc' = [pc EXCEPT ![p] = label]

(* kmain has run scheduler_init: /init is the first process, the            *)
(* interrupts have never been on, and the scheduler is about to start.      *)
Init ==
  /\ state = [s \in Slots |-> IF s = 0 THEN "RUNNABLE" ELSE "UNUSED"]
  /\ pid = [s \in Slots |-> IF s = 0 THEN 1 ELSE 0]
  /\ exit_status = [s \in Slots |-> IF s = 0 THEN -1 ELSE 0]
  /\ waiting_channel = [s \in Slots |-> None]
  /\ pc = [s \in Slots |-> IF s = 0 THEN "unlock_own" ELSE "no_stack"]
  /\ cond = [s \in Slots |-> None]
  /\ target_pid = [s \in Slots |-> 0]
  /\ rax = [s \in Slots |-> 0]
  /\ next_pid = 2
  /\ locked = {} /\ if_flag = FALSE /\ depth = 0 /\ was_enabled = FALSE
  /\ running_process = None
  /\ cpu = Sched /\ spc = "sti" /\ i = 0
  /\ avail = 0
  /\ panic = "no"

-----------------------------------------------------------------------------
(* spinlock.c as the one running core sees it.                              *)

condvar_lock(l) ==
  /\ l \notin locked
  /\ locked' = locked \union {l}
  /\ was_enabled' = IF depth = 0 THEN if_flag ELSE was_enabled
  /\ if_flag' = FALSE
  /\ depth' = depth + 1

unlock_and_enable(l) ==
  /\ l \in locked
  /\ locked' = locked \ {l}
  /\ depth' = depth - 1
  /\ if_flag' = (if_flag \/ was_enabled)
  /\ UNCHANGED was_enabled

condvar_unlock(l) ==
  /\ l \in locked
  /\ locked' = locked \ {l}
  /\ depth' = depth - 1
  /\ if_flag' = (if_flag \/ (depth = 1 /\ was_enabled))
  /\ UNCHANGED was_enabled

(* Locks taken and released again in one uninterruptible stretch leave only *)
(* was_enabled behind.                                                      *)
LockedAndUnlocked ==
  /\ was_enabled' = IF depth = 0 THEN if_flag ELSE was_enabled
  /\ UNCHANGED <<locked, if_flag, depth>>

(* proc_wakeup skips the running process and locks every other slot.        *)
WakeupCanLock == locked \subseteq {running_process, Serial}

notify_one(channel) ==
  state' = [s \in Slots |->
              IF /\ s # running_process /\ state[s] = "SLEEPING"
                 /\ waiting_channel[s] = channel
                 /\ \A t \in Slots : t < s => ~(state[t] = "SLEEPING" /\ waiting_channel[t] = channel)
              THEN "RUNNABLE" ELSE state[s]]

proc_wakeup(channel) ==
  state' = [s \in Slots |->
              IF /\ s # running_process /\ state[s] = "SLEEPING"
                 /\ waiting_channel[s] = channel
              THEN "RUNNABLE" ELSE state[s]]

(* The context switch to the scheduler, in the state new and to go on from  *)
(* label when the process runs again.                                       *)
scheduler_switch_back(p, new, label) ==
  /\ running_process \in locked
  /\ new # "RUNNING"
  /\ state' = [state EXCEPT ![p] = new]
  /\ Goto(p, label)
  /\ cpu' = Sched
  /\ spc' = "back"
  /\ UNCHANGED <<running_process, i>>

-----------------------------------------------------------------------------
(* The scheduler.                                                           *)

SchedulerSti ==
  /\ AtSched("sti")
  /\ if_flag' = TRUE /\ i' = 0 /\ spc' = "lock"
  /\ UNCHANGED <<slotVars, stackVars, locked, depth, was_enabled, running_process, cpu, avail, panic>>

SchedulerLock ==
  /\ AtSched("lock")
  /\ condvar_lock(i)
  /\ spc' = "inspect"
  /\ UNCHANGED <<slotVars, stackVars, running_process, cpu, i, avail, panic>>

SchedulerRun ==
  /\ AtSched("inspect") /\ state[i] = "RUNNABLE"
  /\ state' = [state EXCEPT ![i] = "RUNNING"]
  /\ running_process' = i
  /\ cpu' = i
  /\ UNCHANGED <<pid, exit_status, waiting_channel, next_pid, stackVars, lockVars, spc, i, avail, panic>>

ReapKeepingPid ==
  /\ AtSched("inspect") /\ state[i] = "EXITED"
  /\ state' = [state EXCEPT ![i] = "UNUSED"]
  /\ spc' = "unlock"
  /\ UNCHANGED <<pid, exit_status, waiting_channel, next_pid, stackVars, lockVars, running_process, cpu, i, avail, panic>>

SchedulerReap ==
  /\ AtSched("inspect") /\ state[i] = "EXITED"
  /\ state' = [state EXCEPT ![i] = "UNUSED"]
  /\ pid' = [pid EXCEPT ![i] = 0]
  /\ spc' = "unlock"
  /\ UNCHANGED <<exit_status, waiting_channel, next_pid, stackVars, lockVars, running_process, cpu, i, avail, panic>>

SchedulerSkip ==
  /\ AtSched("inspect") /\ state[i] \notin {"RUNNABLE", "EXITED"}
  /\ spc' = "unlock"
  /\ UNCHANGED <<slotVars, stackVars, lockVars, running_process, cpu, i, avail, panic>>

BackStillRunning ==
  /\ AtSched("back")
  /\ spc' = "unlock"
  /\ UNCHANGED <<slotVars, stackVars, lockVars, running_process, cpu, i, avail, panic>>

SchedulerBack ==
  /\ AtSched("back")
  /\ running_process' = None
  /\ spc' = "unlock"
  /\ UNCHANGED <<slotVars, stackVars, lockVars, cpu, i, avail, panic>>

ScanFromTheStart ==
  /\ AtSched("unlock")
  /\ condvar_unlock(i)
  /\ IF i = N - 1 THEN spc' = "sti" /\ i' = i
                  ELSE spc' = "lock" /\ i' = IF state[i] = "UNUSED" THEN i + 1 ELSE 0
  /\ UNCHANGED <<slotVars, stackVars, running_process, cpu, avail, panic>>

SchedulerUnlock ==
  /\ AtSched("unlock")
  /\ condvar_unlock(i)
  /\ IF i = N - 1 THEN spc' = "sti" /\ i' = i ELSE spc' = "lock" /\ i' = i + 1
  /\ UNCHANGED <<slotVars, stackVars, running_process, cpu, avail, panic>>

Scheduler ==
  \/ SchedulerSti \/ SchedulerLock \/ SchedulerRun \/ SchedulerReap
  \/ SchedulerSkip \/ SchedulerBack \/ SchedulerUnlock

-----------------------------------------------------------------------------
(* User mode, and the way in and out of the kernel.  The syscall and the    *)
(* interrupt gate turn the interrupts off; sysretq and iretq turn them on.  *)

Trap(p) ==
  /\ At(p, "user")
  /\ \E call \in UserCalls, n \in 0 .. MaxPid :
       /\ call # "wait_lookup" => n = 0
       /\ Goto(p, call)
       /\ target_pid' = [target_pid EXCEPT ![p] = n]
  /\ if_flag' = FALSE
  /\ UNCHANGED <<slotVars, cond, rax, locked, depth, was_enabled, schedVars, avail, panic>>

Return(p, value) ==
  /\ Goto(p, "ret")
  /\ rax' = [rax EXCEPT ![p] = value]

(* swapgs: from here to the sysretq or iretq the CPU is in kernel mode with *)
(* the gs base of the user.                                                 *)
Swapgs(p) ==
  /\ At(p, "ret")
  /\ Goto(p, "leave")
  /\ UNCHANGED <<slotVars, cond, target_pid, rax, lockVars, schedVars, avail, panic>>

ToUser(p) ==
  /\ At(p, "leave")
  /\ Goto(p, "user")
  /\ if_flag' = TRUE
  /\ target_pid' = [target_pid EXCEPT ![p] = 0]
  /\ rax' = [rax EXCEPT ![p] = 0]
  /\ UNCHANGED <<slotVars, cond, locked, depth, was_enabled, schedVars, avail, panic>>

-----------------------------------------------------------------------------
(* proc_exec.  The whole call runs with the interrupts off and waits for    *)
(* nobody.  Every attempt that finds a slot consumes a pid.                 *)

FirstUnused(s) == state[s] = "UNUSED" /\ \A t \in Slots : t < s => state[t] # "UNUSED"

ExecFails(p) ==   \* no such file, no ELF file, or no free slot
  /\ At(p, "exec")
  /\ Return(p, -1)
  /\ LockedAndUnlocked
  /\ UNCHANGED <<slotVars, cond, target_pid, schedVars, avail, panic>>

AbortKeepingPid(p, s) ==
  /\ At(p, "exec") /\ FirstUnused(s) /\ next_pid < MaxPid
  /\ next_pid' = next_pid + 1
  /\ pid' = [pid EXCEPT ![s] = next_pid]
  /\ exit_status' = [exit_status EXCEPT ![s] = -1]
  /\ LockedAndUnlocked
  /\ Return(p, -1)
  /\ UNCHANGED <<state, waiting_channel, cond, target_pid, schedVars, avail, panic>>

ExecAborts(p, s) ==   \* out of memory or a bad segment after proc_allocate
  /\ At(p, "exec") /\ FirstUnused(s) /\ next_pid < MaxPid
  /\ next_pid' = next_pid + 1
  /\ pid' = [pid EXCEPT ![s] = 0]
  /\ exit_status' = [exit_status EXCEPT ![s] = -1]
  /\ LockedAndUnlocked
  /\ Return(p, -1)
  /\ UNCHANGED <<state, waiting_channel, cond, target_pid, schedVars, avail, panic>>

proc_exec(p, s) ==
  /\ At(p, "exec") /\ FirstUnused(s) /\ next_pid < MaxPid
  /\ next_pid' = next_pid + 1
  /\ state' = [state EXCEPT ![s] = "RUNNABLE"]
  /\ pid' = [pid EXCEPT ![s] = next_pid]
  /\ exit_status' = [exit_status EXCEPT ![s] = -1]
  /\ pc' = [pc EXCEPT ![p] = "ret", ![s] = "unlock_own"]   \* jump_to_ring3
  /\ rax' = [rax EXCEPT ![p] = next_pid]
  /\ LockedAndUnlocked
  /\ UNCHANGED <<waiting_channel, cond, target_pid, schedVars, avail, panic>>

-----------------------------------------------------------------------------
(* proc_exit.  The exit code stands for itself: the model uses the pid, so  *)
(* that a code names the process that passed it to exit.                    *)

ExitLock(p) ==
  /\ At(p, "exit_lock")
  /\ condvar_lock(p)
  /\ exit_status' = [exit_status EXCEPT ![p] = pid[p]]
  /\ Goto(p, "exit_notify")
  /\ UNCHANGED <<state, pid, waiting_channel, next_pid, cond, target_pid, rax, schedVars, avail, panic>>

ExitUnnoticed(p) ==
  /\ At(p, "exit_notify")
  /\ Goto(p, "exit_switch")
  /\ UNCHANGED <<slotVars, cond, target_pid, rax, lockVars, schedVars, avail, panic>>

ExitNotify(p) ==
  /\ At(p, "exit_notify") /\ WakeupCanLock
  /\ proc_wakeup(p)
  /\ Goto(p, "exit_switch")
  /\ UNCHANGED <<pid, exit_status, waiting_channel, next_pid, cond, target_pid, rax, lockVars, schedVars, avail, panic>>

ExitSwitch(p) ==
  /\ At(p, "exit_switch")
  /\ scheduler_switch_back(p, "EXITED", "no_stack")
  /\ UNCHANGED <<pid, exit_status, waiting_channel, next_pid, cond, target_pid, rax, lockVars, avail, panic>>

-----------------------------------------------------------------------------
(* condvar_wait(cond): called with cond locked, returns with cond locked.   *)

SleepWithCondLocked(p) ==
  /\ At(p, "cv_wait")
  /\ condvar_lock(p)
  /\ Goto(p, "cv_sleep")
  /\ UNCHANGED <<slotVars, cond, target_pid, rax, schedVars, avail, panic>>

CondvarLockOwn(p) ==
  /\ At(p, "cv_wait")
  /\ condvar_lock(p)
  /\ Goto(p, "cv_unlock")
  /\ UNCHANGED <<slotVars, cond, target_pid, rax, schedVars, avail, panic>>

CondvarUnlockCond(p) ==
  /\ At(p, "cv_unlock")
  /\ condvar_unlock(cond[p])
  /\ Goto(p, "cv_sleep")
  /\ UNCHANGED <<slotVars, cond, target_pid, rax, schedVars, avail, panic>>

CondvarSleep(p) ==
  /\ At(p, "cv_sleep")
  /\ waiting_channel' = [waiting_channel EXCEPT ![p] = cond[p]]
  /\ scheduler_switch_back(p, "SLEEPING", "cv_woken")
  /\ UNCHANGED <<pid, exit_status, next_pid, cond, target_pid, rax, lockVars, avail, panic>>

CondvarUnlockOwn(p) ==
  /\ At(p, "cv_woken")
  /\ condvar_unlock(p)
  /\ Goto(p, "cv_relock")
  /\ UNCHANGED <<slotVars, cond, target_pid, rax, schedVars, avail, panic>>

CondvarRelock(p) ==
  /\ At(p, "cv_relock")
  /\ condvar_lock(cond[p])
  /\ Goto(p, IF cond[p] = Serial THEN "read_test" ELSE "wait_test")
  /\ UNCHANGED <<slotVars, cond, target_pid, rax, schedVars, avail, panic>>

-----------------------------------------------------------------------------
(* proc_wait(target_pid).                                                   *)

FirstWithPid(s, n) == pid[s] = n /\ \A t \in Slots : t < s => pid[t] # n

WaitLookup(p) ==
  /\ At(p, "wait_lookup") /\ locked = {}
  /\ \E s \in Slots :
       /\ FirstWithPid(s, target_pid[p])
       /\ condvar_lock(s)
       /\ cond' = [cond EXCEPT ![p] = s]
  /\ Goto(p, "wait_test")
  /\ UNCHANGED <<slotVars, target_pid, rax, schedVars, avail, panic>>

WaitNoSuchPid(p) ==
  /\ At(p, "wait_lookup") /\ locked = {}
  /\ \A s \in Slots : pid[s] # target_pid[p]
  /\ LockedAndUnlocked
  /\ Return(p, -1)
  /\ UNCHANGED <<slotVars, cond, target_pid, schedVars, avail, panic>>

WaitAgain(p) ==
  /\ At(p, "wait_test") /\ state[cond[p]] # "EXITED"
  /\ Goto(p, "cv_wait")
  /\ UNCHANGED <<slotVars, cond, target_pid, rax, lockVars, schedVars, avail, panic>>

WaitDone(p) ==
  /\ At(p, "wait_test") /\ state[cond[p]] = "EXITED"
  /\ condvar_unlock(cond[p])
  /\ Return(p, exit_status[cond[p]])
  /\ cond' = [cond EXCEPT ![p] = None]
  /\ UNCHANGED <<slotVars, target_pid, schedVars, avail, panic>>

-----------------------------------------------------------------------------
(* internal_serial_read, with and without async.                            *)

ReadLock(p) ==
  /\ \/ At(p, "read_lock") /\ Goto(p, "read_test")
     \/ At(p, "read_async_lock") /\ Goto(p, "read_async_test")
  /\ condvar_lock(Serial)
  /\ cond' = [cond EXCEPT ![p] = Serial]
  /\ UNCHANGED <<slotVars, target_pid, rax, schedVars, avail, panic>>

ReadWait(p) ==
  /\ At(p, "read_test") /\ avail = 0
  /\ Goto(p, "cv_wait")
  /\ UNCHANGED <<slotVars, cond, target_pid, rax, lockVars, schedVars, avail, panic>>

(* len is at least one: some, or all, of the characters are taken.          *)
ReadDone(p) ==
  /\ \/ At(p, "read_test") /\ avail' \in 0 .. avail - 1
     \/ At(p, "read_async_test") /\ avail > 0 /\ avail' \in 0 .. avail - 1
     \/ At(p, "read_async_test") /\ avail = 0 /\ avail' = 0
  /\ condvar_unlock(Serial)
  /\ Return(p, 0)
  /\ cond' = [cond EXCEPT ![p] = None]
  /\ UNCHANGED <<slotVars, target_pid, schedVars, panic>>

-----------------------------------------------------------------------------
(* sys_sleep, and the yield trap.  The clock decides how often sleep tests  *)
(* it in vain.                                                              *)

SwitchUnlocked(p) ==
  /\ \/ At(p, "sleep_lock") /\ Goto(p, "sleep_test")
     \/ At(p, "yield_lock") /\ Goto(p, "yield_switch")
  /\ UNCHANGED <<slotVars, cond, target_pid, rax, lockVars, schedVars, avail, panic>>

LockToSwitch(p) ==
  /\ \/ At(p, "sleep_lock") /\ Goto(p, "sleep_test")
     \/ At(p, "yield_lock") /\ Goto(p, "yield_switch")
  /\ condvar_lock(p)
  /\ UNCHANGED <<slotVars, cond, target_pid, rax, schedVars, avail, panic>>

SwitchRunnable(p) ==
  /\ \/ At(p, "sleep_test") /\ scheduler_switch_back(p, "RUNNABLE", "sleep_test")
     \/ At(p, "yield_switch") /\ scheduler_switch_back(p, "RUNNABLE", "unlock_own")
  /\ UNCHANGED <<pid, exit_status, waiting_channel, next_pid, cond, target_pid, rax, lockVars, avail, panic>>

(* The end of sys_sleep and of the yield trap, and my_process_unlock, with  *)
(* which jump_to_ring3 starts a new process.                                *)
UnlockOwn(p) ==
  /\ At(p, "sleep_test") \/ At(p, "unlock_own")
  /\ condvar_unlock(p)
  /\ Return(p, 0)
  /\ UNCHANGED <<slotVars, cond, target_pid, schedVars, avail, panic>>

-----------------------------------------------------------------------------
(* The interrupt of COM1, taken whenever the flag allows it.  Its gate      *)
(* clears the flag and iretq sets it again, so the handler is one step.     *)

IrqTaken == if_flag /\ panic = "no"
UserGs == cpu \in Slots /\ pc[cpu] = "leave"

serial_received_char ==
  /\ IrqTaken /\ ~UserGs
  /\ Serial \notin locked /\ WakeupCanLock
  /\ \/ avail < Capacity /\ avail' = avail + 1 /\ proc_wakeup(Serial)
     \/ avail = Capacity /\ UNCHANGED <<avail, state>>
  /\ was_enabled' = IF depth = 0 THEN FALSE ELSE was_enabled
  /\ UNCHANGED <<pid, exit_status, waiting_channel, next_pid, stackVars, locked, if_flag, depth, schedVars, panic>>

(* interrupt_handler_asm swaps the gs base only if it comes from user mode: *)
(* in kernel mode after the swapgs, cpu_local() is the user's pointer.      *)
IrqWithUserGs ==
  /\ IrqTaken /\ UserGs
  /\ panic' = "gs"
  /\ UNCHANGED <<slotVars, stackVars, lockVars, schedVars, avail>>

-----------------------------------------------------------------------------
(* The panics of spinlock_lock, spinlock_unlock and scheduler_switch_back.  *)

LockWanted(p) ==
  CASE pc[p] \in {"exit_lock", "sleep_lock", "yield_lock", "cv_wait"} -> {p}
    [] pc[p] \in {"read_lock", "read_async_lock"} -> {Serial}
    [] pc[p] = "cv_relock" -> {cond[p]}
    [] pc[p] = "exit_notify" -> Slots \ {p}
    [] pc[p] \in {"exec", "wait_lookup"} -> Slots
    [] OTHER -> {}

UnlockWanted(p) ==
  CASE pc[p] \in {"unlock_own", "cv_woken", "sleep_test"} -> {p}
    [] pc[p] \in {"cv_unlock", "wait_test"} -> {cond[p]}
    [] pc[p] \in {"read_test", "read_async_test"} -> {Serial}
    [] OTHER -> {}

Switching(p) == pc[p] \in {"exit_switch", "cv_sleep", "yield_switch"}

LocksInOrder ==
  /\ AtSched("lock") => i \notin locked
  /\ AtSched("unlock") => i \in locked
  /\ IrqTaken => Serial \notin locked /\ WakeupCanLock
  /\ \A p \in Slots :
       Running(p) => /\ LockWanted(p) \cap locked = {}
                     /\ UnlockWanted(p) \subseteq locked
                     /\ Switching(p) => running_process \in locked

Panic ==
  /\ panic = "no" /\ ~LocksInOrder
  /\ panic' = "lock"
  /\ UNCHANGED <<slotVars, stackVars, lockVars, schedVars, avail>>

Halted == panic # "no" /\ UNCHANGED vars    \* panic() loops forever

-----------------------------------------------------------------------------
KernelOf(p) ==
  \/ Swapgs(p) \/ ToUser(p)
  \/ ExecFails(p) \/ \E s \in Slots : ExecAborts(p, s) \/ proc_exec(p, s)
  \/ ExitLock(p) \/ ExitNotify(p) \/ ExitSwitch(p)
  \/ CondvarLockOwn(p) \/ CondvarUnlockCond(p) \/ CondvarSleep(p)
  \/ CondvarUnlockOwn(p) \/ CondvarRelock(p)
  \/ WaitLookup(p) \/ WaitNoSuchPid(p) \/ WaitAgain(p) \/ WaitDone(p)
  \/ ReadLock(p) \/ ReadWait(p) \/ ReadDone(p)
  \/ LockToSwitch(p) \/ SwitchRunnable(p) \/ UnlockOwn(p)

Next ==
  \/ Scheduler
  \/ \E p \in Slots : Trap(p) \/ KernelOf(p)
  \/ serial_received_char \/ IrqWithUserGs
  \/ Panic \/ Halted

Spec == Init /\ [][Next]_vars

(* The CPU keeps executing: the scheduler and the kernel code of the        *)
(* current process go on, however many interrupts arrive.                   *)
CpuStep == Scheduler \/ Panic \/ \E p \in Slots : KernelOf(p)
FairSpec == Spec /\ WF_vars(CpuStep)

-----------------------------------------------------------------------------
Labels == Calls \union
  {"no_stack", "user", "ret", "leave", "unlock_own", "exit_notify", "exit_switch",
   "cv_wait", "cv_unlock", "cv_sleep", "cv_woken", "cv_relock", "wait_test",
   "read_test", "read_async_test", "sleep_test", "yield_switch"}

(* Type correctness of the process table, the stacks, the locks and the     *)
(* scheduler; the ring holds at most Capacity characters.                   *)
TypeOK ==
  /\ state \in [Slots -> Live \union {"UNUSED", "EXITED"}]
  /\ pid \in [Slots -> Nat]
  /\ exit_status \in [Slots -> Int]
  /\ waiting_channel \in [Slots -> Slots \union {Serial, None}]
  /\ pc \in [Slots -> Labels]
  /\ cond \in [Slots -> Slots \union {Serial, None}]
  /\ target_pid \in [Slots -> Nat]
  /\ rax \in [Slots -> Int]
  /\ next_pid \in Nat
  /\ locked \in SUBSET (Slots \union {Serial})
  /\ if_flag \in BOOLEAN /\ depth \in Nat /\ was_enabled \in BOOLEAN
  /\ running_process \in Slots \union {None}
  /\ cpu \in Slots \union {Sched}
  /\ spc \in {"sti", "lock", "inspect", "back", "unlock"}
  /\ i \in Slots
  /\ avail \in 0 .. Capacity
  /\ panic \in {"no", "gs", "lock"}

(* An interrupt finds no lock taken, whatever it interrupts: user code,     *)
(* the scheduler loop, or the end of a system call that slept.              *)
InterruptsMaskedWhileLocked == if_flag => locked = {} /\ depth = 0

(* The lock a context switch hands over is the only one held across it, and *)
(* the depth of the interrupt stack agrees on both sides of the switch.     *)
HandOver ==
  /\ depth = Cardinality(locked)
  /\ cpu = Sched /\ spc \in {"inspect", "back", "unlock"} => locked = {i}
  /\ cpu = Sched /\ spc \in {"sti", "lock"} => locked = {}

(* No kernel path panics over a lock, save one: a process that waits for    *)
(* its own pid locks its own slot twice in condvar_wait.                    *)
OnlySelfWaitPanics ==
  panic = "lock" =>
    /\ cpu \in Slots /\ pc[cpu] = "cv_wait" /\ cond[cpu] = cpu /\ target_pid[cpu] = pid[cpu]

(* No lost wakeup: nobody sleeps on the serial port while it has input.     *)
NoReaderSleepsOnInput ==
  avail > 0 => \A p \in Slots : ~(state[p] = "SLEEPING" /\ waiting_channel[p] = Serial)

(* No lost wakeup: nobody sleeps in proc_wait on a process that has exited. *)
NoWaiterSleepsOnExited ==
  \A p, s \in Slots :
    state[p] = "SLEEPING" /\ waiting_channel[p] = s => state[s] # "EXITED"

Waiting(p) == cond[p] \in Slots /\ pc[p] # "no_stack"

(* From the lookup in proc_wait to its return, the slot it found keeps the  *)
(* process it was asked about: it is not reaped, let alone given to another *)
(* process, before the waiter has read the exit status.                     *)
WaitTargetStable ==
  \A p \in Slots :
    Waiting(p) /\ target_pid[p] # 0 =>
      /\ pid[cond[p]] = target_pid[p]
      /\ state[cond[p]] \in Live \union {"EXITED"}

(* wait(n) never returns the exit status of another process than n.         *)
WaitReturnsTargetsStatus ==
  \A p \in Slots :
    pc[p] = "ret" /\ target_pid[p] # 0 => rax[p] \in {-1, target_pid[p]}

(* Only the process the CPU runs is RUNNING, and with the interrupts on it  *)
(* is not asleep, so proc_wakeup loses nothing by skipping it.              *)
OneRunning ==
  /\ \A p \in Slots : state[p] = "RUNNING" => running_process = p
  /\ if_flag /\ running_process # None => state[running_process] = "RUNNING"

(* A pid names at most one process, and a free slot none.                   *)
PidsAreUnique ==
  \A p, s \in Slots :
    /\ state[p] = "UNUSED" => pid[p] = 0
    /\ state[p] # "UNUSED" => pid[p] \in 1 .. next_pid - 1
    /\ pid[p] = pid[s] /\ pid[p] # 0 => p = s

(* There is no timer interrupt: the progress of one process rests on the    *)
(* others giving up the CPU.                                                *)
Cooperative == \A q \in Slots : []<>(cpu # q)

(* Among programs that always give up the CPU in the end, every runnable    *)
(* process runs again: the round robin of the scheduler starves nobody.     *)
RunnableRuns ==
  Cooperative =>
    \A p \in Slots : (state[p] = "RUNNABLE") ~> (state[p] = "RUNNING" \/ panic # "no")

(* When the process it waits for has exited, proc_wait returns.             *)
WaiterReturns ==
  Cooperative =>
    \A p \in Slots :
      (Waiting(p) /\ target_pid[p] # 0 /\ state[cond[p]] = "EXITED")
        ~> (pc[p] = "ret" \/ panic # "no")
-----------------------------------------------------------------------------
(* What comments of the repository say and the code does not do.            *)

(* "The kernel is not preemptible" (kernel/init.c): interrupts are accepted *)
(* in user mode and in the idle loop of the scheduler, nowhere else.        *)
KernelNotInterrupted == if_flag => cpu = Sched \/ pc[cpu] = "user"

(* interrupt_handler_asm: "We shall switch the GS base register if we are   *)
(* not coming from the kernel space", so that handle_trap always has the    *)
(* gs base of the kernel.                                                   *)
HandlerHasKernelGs == panic # "gs"

(* proc_wait: "Will return -1 if the pid does not exist."  A process is     *)
(* never left waiting for a pid that no process has.                        *)
WaitForNobodyReturns ==
  \A p \in Slots :
    state[p] = "SLEEPING" /\ Waiting(p) =>
      \E s \in Slots : state[s] # "UNUSED" /\ pid[s] = target_pid[p]

=============================================================================
