---------------------------- MODULE KernelProofs ----------------------------
(***************************************************************************)
(* What the invariant of module KernelInvariant shows of the kernel, and a *)
(* second one about waiting and waking on top of it, for any number of     *)
(* processes, any ring and any programs.                                   *)
(***************************************************************************)
EXTENDS KernelInvariant, FiniteSetTheorems

(* Every step preserves the lock invariant.                                 *)
LEMMA NextPreserves == LockInv /\ [Next]_vars => LockInv'
<1> SUFFICES ASSUME LockInv, [Next]_vars PROVE LockInv'
  BY Zenon
<1>1. ASSUME Scheduler PROVE LockInv'
  BY Zenon, <1>1, SchedulerStiPreserves, SchedulerLockPreserves, SchedulerRunPreserves,
     SchedulerReapPreserves, SchedulerSkipPreserves, SchedulerBackPreserves,
     SchedulerUnlockPreserves DEF Scheduler
<1>2. ASSUME NEW p \in Slots, KernelOf(p) PROVE LockInv'
  BY ZenonT(30), <1>2, SwapgsPreserves, ToUserPreserves, ExecFailsPreserves,
     ExecAbortsPreserves, ProcExecPreserves, ExitLockPreserves, ExitNotifyPreserves,
     ExitSwitchPreserves, CondvarLockOwnPreserves, CondvarUnlockCondPreserves,
     CondvarSleepPreserves, CondvarUnlockOwnPreserves, CondvarRelockPreserves,
     WaitLookupPreserves, WaitNoSuchPidPreserves, WaitAgainPreserves,
     WaitDonePreserves, ReadLockPreserves, ReadWaitPreserves, ReadDonePreserves,
     LockToSwitchPreserves, SwitchRunnablePreserves, UnlockOwnPreserves DEF KernelOf
<1>3. ASSUME Halted PROVE LockInv'
  BY Zenon, <1>3, StutterPreserves DEF Halted
<1>4. QED
  BY Zenon, <1>1, <1>2, <1>3, TrapPreserves, SerialReceivedCharPreserves,
     IrqWithUserGsPreserves,
     PanicPreserves, StutterPreserves DEF Next

(* The theorem behind the others: the inductive invariant holds for every   *)
(* number of processes, every ring size and every set of system calls.      *)
THEOREM Invariance == Spec => []LockInv
<1>1. QED
  BY InitEstablishes, NextPreserves, PTL DEF Spec

(* Every variable keeps its type.                                           *)
THEOREM Types == Spec => []TypeOK
<1>1. LockInv => TypeOK
  BY Zenon DEF LockInv
<1>2. QED
  BY Invariance, <1>1, PTL

(* An interrupt never finds a lock taken by the code it interrupts, so      *)
(* serial_received_char cannot deadlock with it.                            *)
THEOREM HandlerMeetsNoLock == Spec => []InterruptsMaskedWhileLocked
<1>1. LockInv => InterruptsMaskedWhileLocked
  BY InterruptFacts, Zenon DEF InterruptsMaskedWhileLocked
<1>2. QED
  BY Invariance, <1>1, PTL

(* Exactly one lock crosses a context switch, that of the process switched  *)
(* to or from, and the interrupt depth always counts the locks.             *)
THEOREM LockHandOver == Spec => []HandOver
<1>1. ASSUME LockInv PROVE HandOver
  <2> USE <1>1, NamesAssumption DEF LockInv
  <2>1. cpu = Sched => SchedulerLocks
    BY Zenon DEF Current
  <2>2. CASE locked = {} /\ depth = 0
    BY <2>1, <2>2, FS_EmptySet, Zenon DEF HandOver, SchedulerLocks
  <2>3. ASSUME NEW l, locked = {l}, depth = 1 PROVE depth = Cardinality(locked)
    BY <2>3, FS_Singleton, Zenon
  <2>4. ASSUME cpu \in Slots, pc[cpu] \in BothLocks PROVE depth = Cardinality(locked)
    <3>1. cond[cpu] # cpu /\ locked = {cpu, cond[cpu]} /\ depth = 2
      BY <2>4, Zenon DEF Current, Conditions, ConditionOf, ProcessLocks, BothLocks
    <3>2. IsFiniteSet({cpu}) /\ Cardinality({cpu}) = 1
      BY FS_Singleton, Zenon
    <3>3. Cardinality({cpu} \union {cond[cpu]}) = 2
      BY <3>1, <3>2, FS_AddElement, SMTT(30)
    <3>4. {cpu} \union {cond[cpu]} = {cpu, cond[cpu]}
      BY Zenon
    <3>5. QED
      BY <3>1, <3>3, <3>4, Zenon
  <2>5. \/ locked = {} /\ depth = 0
        \/ \E l : locked = {l} /\ depth = 1
        \/ cpu \in Slots /\ pc[cpu] \in BothLocks
    BY Zenon DEF TypeOK, Current, ProcessLocks, SchedulerLocks, Labels, NoLock, OwnLock,
       CondLock, BothLocks
  <2>6. depth = Cardinality(locked)
    BY <2>2, <2>3, <2>4, <2>5, FS_EmptySet, Zenon
  <2>7. QED
    BY <2>1, <2>6, Zenon DEF HandOver, SchedulerLocks
<1>2. QED
  BY Invariance, <1>1, PTL

(* No path of the kernel panics over a lock except a process waiting for    *)
(* itself.                                                                  *)
THEOREM LockPanics == Spec => []OnlySelfWaitPanics
<1>1. LockInv => OnlySelfWaitPanics
  BY Zenon DEF LockInv
<1>2. QED
  BY Invariance, <1>1, PTL

(* At most one process is RUNNING, the one cpu_local() names, and an        *)
(* interrupt never finds it half way to sleep.                              *)
THEOREM RunningIsCurrent == Spec => []OneRunning
<1>1. ASSUME LockInv PROVE OneRunning
  <2> USE <1>1, NamesAssumption DEF LockInv
  <2>1. \A p \in Slots : state[p] = "RUNNING" => running_process = p
    BY Zenon DEF Suspended, Current
  <2>2. if_flag /\ running_process # None => state[running_process] = "RUNNING"
    BY Zenon DEF TypeOK, Current, SchedulerLocks
  <2>3. QED
    BY <2>1, <2>2, Zenon DEF OneRunning
<1>2. QED
  BY Invariance, <1>1, PTL

-----------------------------------------------------------------------------
(* Waiting and waking.  The lock invariant says where the CPU is; the       *)
(* following says what a process that waits may count on meanwhile.         *)

WaitLabels == {"wait_test", "cv_wait", "cv_unlock", "cv_sleep", "cv_woken", "cv_relock"}
ToSleep == {"cv_wait", "cv_unlock", "cv_sleep"}

(* The slot the scheduler looks at next, once it has the CPU.               *)
NextIndex ==
  IF cpu = Sched /\ spc = "sti" THEN 0
  ELSE IF cpu = Sched /\ spc \in {"lock", "inspect"} THEN i ELSE i + 1

(* In the round robin that starts at slot j, slot p comes before slot s.    *)
Precedes(j, p, s) == (j <= p /\ p < s) \/ (s < j /\ j <= p) \/ (p < s /\ s < j)

(* What is on the stack of a process: it waits for a slot only inside       *)
(* proc_wait, the slot has the pid it asked for, and proc_wait returns that *)
(* process's exit code.                                                     *)
StackOf(p) ==
  /\ cond[p] \in Slots => pc[p] \in WaitLabels
  /\ target_pid[p] # 0 => cond[p] \in Slots \/ pc[p] \in {"wait_lookup", "ret", "leave"}
  /\ cond[p] \in Slots /\ target_pid[p] # 0 => pid[cond[p]] = target_pid[p]
  /\ pc[p] = "ret" /\ target_pid[p] # 0 => rax[p] \in {-1, target_pid[p]}
  /\ state[p] = "SLEEPING" => waiting_channel[p] = cond[p]

(* What the process on the CPU has seen or done since it masked the         *)
(* interrupts: the reason to sleep still holds, an exit has woken everybody.*)
CpuOf(p) ==
  cpu = p =>
    /\ pc[p] \in ToSleep => /\ cond[p] = Serial => avail = 0
                            /\ cond[p] \in Slots => state[cond[p]] # "EXITED"
    /\ pc[p] \in {"exit_notify", "exit_switch"} => exit_status[p] = pid[p]
    /\ pc[p] = "exit_switch" =>
         \A q \in Slots : ~(state[q] = "SLEEPING" /\ waiting_channel[q] = p)

(* Whoever waits for an exited process is scheduled before that slot is     *)
(* reaped.                                                                  *)
WaiterFirst ==
  \A p \in Slots :
    cpu # p /\ cond[p] \in Slots /\ state[cond[p]] = "EXITED" => Precedes(NextIndex, p, cond[p])

ExitStatusKept == \A s \in Slots : state[s] = "EXITED" => exit_status[s] = pid[s]

WaitInv ==
  /\ \A p \in Slots : StackOf(p) /\ CpuOf(p)
  /\ PidsAreUnique /\ ExitStatusKept /\ next_pid \in Nat \ {0}
  /\ NoReaderSleepsOnInput /\ NoWaiterSleepsOnExited
  /\ WaiterFirst

(* Initially there is one process, and it waits for nothing.                *)
LEMMA WaitInvInit == Init => WaitInv
<1> SUFFICES ASSUME Init PROVE WaitInv
  BY Zenon
<1> USE NAssumption, NamesAssumption DEF Init
<1>1. \A p \in Slots : StackOf(p) /\ CpuOf(p)
  BY Zenon DEF StackOf, CpuOf
<1>2. PidsAreUnique /\ ExitStatusKept /\ next_pid \in Nat \ {0}
  BY DEF PidsAreUnique, ExitStatusKept
<1>3. NoReaderSleepsOnInput /\ NoWaiterSleepsOnExited /\ WaiterFirst
  BY Zenon DEF NoReaderSleepsOnInput, NoWaiterSleepsOnExited, WaiterFirst
<1>4. QED
  BY <1>1, <1>2, <1>3, Zenon DEF WaitInv

(* A step of the current process that leaves the process table alone has    *)
(* only its own stack to answer for.                                        *)
LEMMA OwnStackStep ==
  ASSUME LockInv, WaitInv, NEW p \in Slots, cpu = p, StackOf(p)', CpuOf(p)',
         \A q \in Slots \ {p} : /\ pc'[q] = pc[q] /\ cond'[q] = cond[q]
                                /\ target_pid'[q] = target_pid[q] /\ rax'[q] = rax[q]
                                /\ exit_status'[q] = exit_status[q],
         avail = 0 => avail' = 0,
         UNCHANGED <<state, pid, waiting_channel, next_pid, cpu, spc, i>>
  PROVE  WaitInv'
<1>1. state[p] = "RUNNING"
  BY Zenon DEF LockInv, Current
<1>2. ASSUME NEW q \in Slots PROVE StackOf(q)' /\ CpuOf(q)'
  BY <1>2 DEF WaitInv, StackOf, CpuOf
<1>3. PidsAreUnique' /\ ExitStatusKept' /\ next_pid' \in Nat \ {0}
  BY <1>1, Zenon DEF WaitInv, PidsAreUnique, ExitStatusKept
<1>4. NoReaderSleepsOnInput' /\ NoWaiterSleepsOnExited'
  <2>1. avail \in Nat /\ (avail' > 0 => avail > 0)
    BY CapacityAssumption DEF LockInv, TypeOK
  <2>2. QED
    BY <2>1, Zenon DEF WaitInv, NoReaderSleepsOnInput, NoWaiterSleepsOnExited
<1>5. NextIndex' = NextIndex
  BY Zenon DEF NextIndex
<1>6. WaiterFirst'
  BY <1>5, Zenon DEF WaitInv, WaiterFirst
<1>7. QED
  BY <1>2, <1>3, <1>4, <1>6, Zenon DEF WaitInv

(* A step that exits, reaps and creates nothing leaves pids and exit codes  *)
(* as they are.                                                             *)
LEMMA TableKept ==
  ASSUME WaitInv, UNCHANGED <<pid, next_pid, exit_status>>,
         \A q \in Slots : /\ state'[q] = "UNUSED" <=> state[q] = "UNUSED"
                          /\ state'[q] = "EXITED" => state[q] = "EXITED"
  PROVE  PidsAreUnique' /\ ExitStatusKept' /\ next_pid' \in Nat \ {0}
<1>1. PidsAreUnique /\ ExitStatusKept /\ next_pid \in Nat \ {0}
  BY ZenonT(30) DEF WaitInv
<1>2. PidsAreUnique'
  BY <1>1, Zenon DEF PidsAreUnique
<1>3. ExitStatusKept'
  BY <1>1, Zenon DEF ExitStatusKept
<1>4. QED
  BY <1>1, <1>2, <1>3, Zenon

(* The steps of system calls that leave the process table alone.  proc_wait *)
(* sleeps only if the process it found has not exited, and a read only if   *)
(* there is no input.                                                       *)
LEMMA StackSteps ==
  ASSUME LockInv, WaitInv, NEW p \in Slots,
         \/ Trap(p) \/ Swapgs(p) \/ ToUser(p) \/ ExecFails(p) \/ ExitLock(p)
         \/ CondvarLockOwn(p) \/ CondvarUnlockCond(p) \/ CondvarUnlockOwn(p) \/ CondvarRelock(p)
         \/ WaitLookup(p) \/ WaitNoSuchPid(p) \/ WaitAgain(p) \/ WaitDone(p)
         \/ ReadLock(p) \/ ReadWait(p) \/ ReadDone(p) \/ LockToSwitch(p) \/ UnlockOwn(p)
  PROVE  WaitInv'
<1> USE NamesAssumption DEF slotVars, schedVars, At, Running, Goto, Return
<1>0. StackOf(p) /\ CpuOf(p) /\ ConditionOf(p) /\ TypeOK
  BY Zenon DEF WaitInv, LockInv, Conditions
<1> DEFINE Frame == /\ cpu = p
                    /\ \A q \in Slots \ {p} : /\ pc'[q] = pc[q] /\ cond'[q] = cond[q]
                                              /\ target_pid'[q] = target_pid[q] /\ rax'[q] = rax[q]
                                              /\ exit_status'[q] = exit_status[q]
                    /\ avail = 0 => avail' = 0
                    /\ UNCHANGED <<state, pid, waiting_channel, next_pid, cpu, spc, i>>
           Mine == StackOf(p)' /\ CpuOf(p)'
<1>1. state[p] = "RUNNING"
  BY ZenonT(30), <1>0 DEF LockInv, Current, At, Running, Trap, Swapgs, ToUser, ExecFails, ExitLock,
     CondvarLockOwn, CondvarUnlockCond, CondvarUnlockOwn, CondvarRelock, WaitLookup,
     WaitNoSuchPid, WaitAgain, WaitDone, ReadLock, ReadWait, ReadDone, LockToSwitch, UnlockOwn
<1>2. CASE Trap(p)
  <2>1. PICK call \in UserCalls, n \in 0 .. MaxPid :
          /\ call # "wait_lookup" => n = 0
          /\ pc' = [pc EXCEPT ![p] = call]
          /\ target_pid' = [target_pid EXCEPT ![p] = n]
    BY ZenonT(30), <1>2 DEF Trap
  <2>2. call \in Calls
    BY UserCallsAssumption, Zenon
  <2>3. Frame
    BY <1>0, <1>2, <2>1, ZenonT(30) DEF Trap, TypeOK
  <2>4. cond[p] \notin Slots
    BY <1>0, <1>2, ZenonT(30) DEF Trap, StackOf, WaitLabels
  <2>5. Mine
    BY <1>0, <1>1, <1>2, <2>1, <2>2, <2>4, ZenonT(30) DEF Trap, TypeOK, StackOf, CpuOf, WaitLabels, ToSleep, Calls
  <2>6. QED
    BY <2>3, <2>5, OwnStackStep, ZenonT(30)
<1>3. CASE Swapgs(p)
  <2>1. Frame
    BY <1>0, <1>3, Zenon DEF Swapgs, TypeOK
  <2>2. Mine
    BY <1>0, <1>1, <1>3, ZenonT(30) DEF Swapgs, TypeOK, StackOf, CpuOf, WaitLabels, ToSleep
  <2>3. QED
    BY <2>1, <2>2, OwnStackStep, ZenonT(30)
<1>4. CASE ToUser(p)
  <2>1. Frame
    BY <1>0, <1>4, Zenon DEF ToUser, TypeOK
  <2>2. Mine
    BY <1>0, <1>1, <1>4, ZenonT(30) DEF ToUser, TypeOK, StackOf, CpuOf, WaitLabels, ToSleep
  <2>3. QED
    BY <2>1, <2>2, OwnStackStep, ZenonT(30)
<1>5. CASE ExecFails(p)
  <2>1. Frame
    BY <1>0, <1>5, ZenonT(30) DEF ExecFails, TypeOK
  <2>2. Mine
    BY <1>0, <1>1, <1>5, ZenonT(30) DEF ExecFails, TypeOK, StackOf, CpuOf, WaitLabels, ToSleep
  <2>3. QED
    BY <2>1, <2>2, OwnStackStep, ZenonT(30)
<1>6. CASE ExitLock(p)
  <2>1. Frame
    BY <1>0, <1>6, Zenon DEF ExitLock, TypeOK
  <2>2. Mine
    BY <1>0, <1>1, <1>6, ZenonT(30) DEF ExitLock, TypeOK, StackOf, CpuOf, WaitLabels, ToSleep
  <2>3. QED
    BY <2>1, <2>2, OwnStackStep, ZenonT(30)
<1>7. CASE CondvarLockOwn(p)
  <2>1. Frame
    BY <1>0, <1>7, Zenon DEF CondvarLockOwn, TypeOK
  <2>2. Mine
    BY <1>0, <1>1, <1>7, ZenonT(30) DEF CondvarLockOwn, TypeOK, StackOf, CpuOf, WaitLabels, ToSleep
  <2>3. QED
    BY <2>1, <2>2, OwnStackStep, ZenonT(30)
<1>8. CASE CondvarUnlockCond(p)
  <2>1. Frame
    BY <1>0, <1>8, Zenon DEF CondvarUnlockCond, TypeOK
  <2>2. Mine
    BY <1>0, <1>1, <1>8, ZenonT(30) DEF CondvarUnlockCond, TypeOK, StackOf, CpuOf, WaitLabels, ToSleep
  <2>3. QED
    BY <2>1, <2>2, OwnStackStep, ZenonT(30)
<1>9. CASE CondvarUnlockOwn(p)
  <2>1. Frame
    BY <1>0, <1>9, Zenon DEF CondvarUnlockOwn, TypeOK
  <2>2. Mine
    BY <1>0, <1>1, <1>9, ZenonT(30) DEF CondvarUnlockOwn, TypeOK, StackOf, CpuOf, WaitLabels, ToSleep
  <2>3. QED
    BY <2>1, <2>2, OwnStackStep, ZenonT(30)
<1>10. CASE CondvarRelock(p)
  <2>1. Frame
    BY <1>0, <1>10, ZenonT(30) DEF CondvarRelock, TypeOK
  <2>2. Mine
    BY <1>0, <1>1, <1>10, Zenon DEF CondvarRelock, TypeOK, StackOf, CpuOf, WaitLabels, ToSleep, ConditionOf
  <2>3. QED
    BY <2>1, <2>2, OwnStackStep, ZenonT(30)
<1>11. CASE WaitLookup(p)
  <2>1. PICK s \in Slots : pid[s] = target_pid[p] /\ cond' = [cond EXCEPT ![p] = s]
    BY ZenonT(30), <1>11 DEF WaitLookup, FirstWithPid
  <2>2. Frame
    BY <1>0, <1>11, <2>1, ZenonT(30) DEF WaitLookup, TypeOK
  <2>3. Mine
    BY <1>0, <1>1, <1>11, <2>1, ZenonT(30) DEF WaitLookup, TypeOK, StackOf, CpuOf, WaitLabels, ToSleep
  <2>4. QED
    BY <2>2, <2>3, OwnStackStep, ZenonT(30)
<1>12. CASE WaitNoSuchPid(p)
  <2>1. Frame
    BY <1>0, <1>12, ZenonT(30) DEF WaitNoSuchPid, TypeOK
  <2>2. Mine
    BY <1>0, <1>1, <1>12, ZenonT(30) DEF WaitNoSuchPid, TypeOK, StackOf, CpuOf, WaitLabels, ToSleep
  <2>3. QED
    BY <2>1, <2>2, OwnStackStep, ZenonT(30)
<1>13. CASE WaitAgain(p)
  <2>1. Frame
    BY <1>0, <1>13, ZenonT(30) DEF WaitAgain, TypeOK
  <2>2. Mine
    BY <1>0, <1>1, <1>13, ZenonT(30) DEF WaitAgain, TypeOK, StackOf, CpuOf, WaitLabels, ToSleep, ConditionOf
  <2>3. QED
    BY <2>1, <2>2, OwnStackStep, ZenonT(30)
<1>14. CASE WaitDone(p)
  <2>1. Frame
    BY <1>0, <1>14, ZenonT(30) DEF WaitDone, TypeOK
  <2>2. cond[p] \in Slots /\ exit_status[cond[p]] = pid[cond[p]]
    BY ZenonT(30), <1>0, <1>14 DEF WaitDone, At, Running, ConditionOf, WaitInv, ExitStatusKept
  <2>3. Mine
    BY <1>0, <1>1, <1>14, <2>2, ZenonT(30) DEF WaitDone, TypeOK, StackOf, CpuOf, WaitLabels, ToSleep
  <2>4. QED
    BY <2>1, <2>3, OwnStackStep, ZenonT(30)
<1>15. CASE ReadLock(p)
  <2>1. Frame
    BY <1>0, <1>15, ZenonT(30) DEF ReadLock, TypeOK
  <2>2. Mine
    BY <1>0, <1>1, <1>15, ZenonT(30) DEF ReadLock, TypeOK, StackOf, CpuOf, WaitLabels, ToSleep
  <2>3. QED
    BY <2>1, <2>2, OwnStackStep, ZenonT(30)
<1>16. CASE ReadWait(p)
  <2>1. Frame
    BY <1>0, <1>16, ZenonT(30) DEF ReadWait, TypeOK
  <2>2. Mine
    BY <1>0, <1>1, <1>16, ZenonT(30) DEF ReadWait, TypeOK, StackOf, CpuOf, WaitLabels, ToSleep, ConditionOf
  <2>3. QED
    BY <2>1, <2>2, OwnStackStep, ZenonT(30)
<1>17. CASE ReadDone(p)
  <2>1. avail = 0 => avail' = 0
    BY <1>17, SMTT(30) DEF ReadDone
  <2>2. Frame
    BY <1>0, <1>17, <2>1, ZenonT(30) DEF ReadDone, TypeOK
  <2>3. Mine
    BY <1>0, <1>1, <1>17, ZenonT(30) DEF ReadDone, TypeOK, StackOf, CpuOf, WaitLabels, ToSleep, ConditionOf
  <2>4. QED
    BY <2>2, <2>3, OwnStackStep, ZenonT(30)
<1>18. CASE LockToSwitch(p)
  <2>1. Frame
    BY <1>0, <1>18, Zenon DEF LockToSwitch, TypeOK
  <2>2. Mine
    BY <1>0, <1>1, <1>18, ZenonT(30) DEF LockToSwitch, TypeOK, StackOf, CpuOf, WaitLabels, ToSleep
  <2>3. QED
    BY <2>1, <2>2, OwnStackStep, ZenonT(30)
<1>19. CASE UnlockOwn(p)
  <2>1. Frame
    BY <1>0, <1>19, ZenonT(30) DEF UnlockOwn, TypeOK
  <2>2. Mine
    BY <1>0, <1>1, <1>19, Zenon DEF UnlockOwn, TypeOK, StackOf, CpuOf, WaitLabels, ToSleep
  <2>3. QED
    BY <2>1, <2>2, OwnStackStep, ZenonT(30)
<1>20. QED
  BY ZenonT(30), <1>2, <1>3, <1>4, <1>5, <1>6, <1>7, <1>8, <1>9, <1>10, <1>11, <1>12, <1>13, <1>14,
     <1>15, <1>16, <1>17, <1>18, <1>19

(* An exec that fails with a slot leaves it without a pid.                  *)
LEMMA ExecAbortsWaits ==
  ASSUME LockInv, WaitInv, NEW p \in Slots, NEW s \in Slots, ExecAborts(p, s)
  PROVE  WaitInv'
<1> USE NamesAssumption DEF ExecAborts, FirstUnused, schedVars, At, Running, Goto, Return
<1>0. /\ TypeOK /\ state[p] = "RUNNING" /\ state[s] = "UNUSED" /\ pid[s] = 0
      /\ \A q \in Slots : StackOf(q) /\ CpuOf(q)
  BY ZenonT(30) DEF WaitInv, LockInv, Current, PidsAreUnique
<1>1. pid' = pid
  BY <1>0, Zenon DEF TypeOK
<1>2. ASSUME NEW q \in Slots PROVE StackOf(q)' /\ CpuOf(q)'
  BY <1>0, <1>1, SMTT(30) DEF TypeOK, StackOf, CpuOf, WaitLabels, ToSleep
<1>3. PidsAreUnique' /\ ExitStatusKept' /\ next_pid' \in Nat \ {0}
  BY <1>0, <1>1 DEF WaitInv, TypeOK, PidsAreUnique, ExitStatusKept
<1>4. NoReaderSleepsOnInput' /\ NoWaiterSleepsOnExited'
  BY Zenon DEF WaitInv, NoReaderSleepsOnInput, NoWaiterSleepsOnExited
<1>5. WaiterFirst'
  BY Zenon DEF WaitInv, WaiterFirst, NextIndex
<1>6. QED
  BY <1>2, <1>3, <1>4, <1>5, Zenon DEF WaitInv

(* A new process gets a pid nobody has or waits for, in a slot nobody who   *)
(* asked for a process waits on.                                            *)
LEMMA ProcExecWaits ==
  ASSUME LockInv, WaitInv, NEW p \in Slots, NEW s \in Slots, proc_exec(p, s)
  PROVE  WaitInv'
<1> USE NamesAssumption DEF proc_exec, FirstUnused, schedVars, At, Running, Goto
<1>0. /\ TypeOK /\ state[p] = "RUNNING" /\ state[s] = "UNUSED" /\ pid[s] = 0
      /\ pc[s] = "no_stack" /\ p # s
      /\ \A q \in Slots : StackOf(q) /\ CpuOf(q)
  BY Zenon DEF WaitInv, LockInv, Current, Suspended, PidsAreUnique
<1>1. cond[s] \notin Slots /\ target_pid[s] = 0
  BY <1>0, Zenon DEF StackOf, WaitLabels
<1>2. \A q \in Slots : pid'[q] = IF q = s THEN next_pid ELSE pid[q]
  BY <1>0, Zenon DEF TypeOK
<1>3. ASSUME NEW q \in Slots PROVE StackOf(q)'
  <2>1. CASE q = s
    BY <1>0, <1>1, <2>1, ZenonT(30) DEF TypeOK, StackOf
  <2>2. CASE q = p
    BY <1>0, <1>2, <2>2, Zenon DEF TypeOK, StackOf, WaitLabels
  <2>3. CASE q # s /\ q # p
    BY <1>0, <1>2, <2>3, SMTT(30) DEF TypeOK, StackOf
  <2>4. QED
    BY <2>1, <2>2, <2>3, Zenon
<1>4. ASSUME NEW q \in Slots PROVE CpuOf(q)'
  BY <1>0, Zenon DEF TypeOK, CpuOf, ToSleep
<1>5. PidsAreUnique'
  BY <1>0, <1>2, SMTT(30) DEF WaitInv, TypeOK, PidsAreUnique
<1>6. ExitStatusKept' /\ next_pid' \in Nat \ {0}
  BY <1>0, <1>2, SMTT(30) DEF WaitInv, TypeOK, ExitStatusKept
<1>7. NoReaderSleepsOnInput' /\ NoWaiterSleepsOnExited'
  BY <1>0, ZenonT(30) DEF WaitInv, TypeOK, NoReaderSleepsOnInput, NoWaiterSleepsOnExited
<1>8. WaiterFirst'
  BY <1>0, Zenon DEF WaitInv, TypeOK, WaiterFirst, NextIndex
<1>9. QED
  BY <1>3, <1>4, <1>5, <1>6, <1>7, <1>8, ZenonT(30) DEF WaitInv

(* proc_exit wakes everybody who sleeps on the slot; it does not count      *)
(* itself, and it is not asleep.                                            *)
LEMMA ExitNotifyWaits ==
  ASSUME LockInv, WaitInv, NEW p \in Slots, ExitNotify(p)
  PROVE  WaitInv'
<1>1. /\ cpu = p /\ pc' = [pc EXCEPT ![p] = "exit_switch"] /\ pc[p] = "exit_notify"
      /\ UNCHANGED <<pid, exit_status, waiting_channel, next_pid, cond, target_pid, rax, cpu, spc, i, avail>>
  BY ZenonT(30) DEF ExitNotify, schedVars, At, Running, Goto
<1>2. TypeOK /\ TypeOK' /\ state[p] = "RUNNING" /\ running_process = p
  BY <1>1, ExitNotifyPreserves, ZenonT(30) DEF LockInv, Current
<1>3. \A q \in Slots : /\ state[q] # "SLEEPING" => state'[q] = state[q]
                       /\ state[q] = "SLEEPING" => state'[q] \in {"SLEEPING", "RUNNABLE"}
                       /\ state'[q] = "SLEEPING" => waiting_channel[q] # p
  BY <1>2, ZenonT(30) DEF ExitNotify, proc_wakeup
<1>4. ASSUME NEW q \in Slots PROVE StackOf(q)' /\ CpuOf(q)'
  <2>1. StackOf(q) /\ CpuOf(q)
    BY ZenonT(30) DEF WaitInv
  <2>2. QED
    BY <1>1, <1>2, <1>3, <2>1, ZenonT(30) DEF TypeOK, StackOf, CpuOf, WaitLabels, ToSleep
<1>5. PidsAreUnique' /\ ExitStatusKept' /\ next_pid' \in Nat \ {0}
  BY <1>1, <1>3, TableKept, ZenonT(30)
<1>6. NoReaderSleepsOnInput' /\ NoWaiterSleepsOnExited'
  BY <1>1, <1>3, ZenonT(30) DEF WaitInv, NoReaderSleepsOnInput, NoWaiterSleepsOnExited
<1>7. WaiterFirst'
  BY <1>1, <1>3, ZenonT(30) DEF WaitInv, WaiterFirst, NextIndex
<1>8. QED
  BY <1>4, <1>5, <1>6, <1>7, ZenonT(30) DEF WaitInv

(* When the exit shows, nobody sleeps on the slot any more, and the round   *)
(* robin comes back to it last of all.                                      *)
LEMMA ExitSwitchWaits ==
  ASSUME LockInv, WaitInv, NEW p \in Slots, ExitSwitch(p)
  PROVE  WaitInv'
<1> USE NamesAssumption DEF ExitSwitch, scheduler_switch_back, At, Running, Goto
<1>0. /\ TypeOK /\ state[p] = "RUNNING" /\ i = p /\ spc = "inspect" /\ cond[p] \notin Slots
      /\ \A q \in Slots : StackOf(q) /\ CpuOf(q)
  BY ZenonT(30) DEF WaitInv, LockInv, Current, StackOf, WaitLabels
<1>1. \A q \in Slots : state'[q] = IF q = p THEN "EXITED" ELSE state[q]
  BY <1>0, Zenon DEF TypeOK
<1>2. ASSUME NEW q \in Slots PROVE StackOf(q)' /\ CpuOf(q)'
  <2>1. StackOf(q) /\ cpu' # q
    BY <1>0, ZenonT(30)
  <2>2. CASE q = p
    <3>1. pc'[q] = "no_stack" /\ state'[q] = "EXITED" /\ target_pid[q] = 0
      BY <1>0, <1>1, <2>1, <2>2, ZenonT(30) DEF TypeOK, StackOf
    <3>2. QED
      BY <1>0, <2>1, <2>2, <3>1, ZenonT(30) DEF StackOf, CpuOf
  <2>3. CASE q # p
    <3>1. pc'[q] = pc[q] /\ state'[q] = state[q]
      BY <1>0, <1>1, <2>3, ZenonT(30) DEF TypeOK
    <3>2. QED
      BY <2>1, <3>1, ZenonT(30) DEF StackOf, CpuOf
  <2>4. QED
    BY <2>2, <2>3, ZenonT(30)
<1>3. PidsAreUnique' /\ ExitStatusKept' /\ next_pid' \in Nat \ {0}
  <2>1. /\ PidsAreUnique /\ ExitStatusKept /\ next_pid \in Nat \ {0}
        /\ exit_status[p] = pid[p]
    BY <1>0, ZenonT(30) DEF WaitInv, CpuOf
  <2>2. PidsAreUnique'
    BY <1>0, <1>1, <2>1, SMTT(30) DEF PidsAreUnique
  <2>3. ExitStatusKept'
    BY <1>0, <1>1, <2>1, Zenon DEF ExitStatusKept
  <2>4. QED
    BY <2>1, <2>2, <2>3, ZenonT(30)
<1>4. NoReaderSleepsOnInput' /\ NoWaiterSleepsOnExited'
  BY <1>0, <1>1, SMTT(30) DEF WaitInv, CpuOf, NoReaderSleepsOnInput, NoWaiterSleepsOnExited
<1>5. NextIndex = i + 1 /\ NextIndex' = i + 1
  BY <1>0, ZenonT(30) DEF NextIndex
<1>6. ASSUME NEW q \in Slots, q # p, cond[q] \in Slots, state'[cond[q]] = "EXITED"
      PROVE Precedes(i + 1, q, cond[q])
  <2>1. CASE cond[q] = p
    BY <1>0, <1>6, <2>1, SMTT(30) DEF Precedes, Slots
  <2>2. CASE cond[q] # p
    BY <1>1, <1>5, <1>6, <2>2, ZenonT(30) DEF WaitInv, WaiterFirst
  <2>3. QED
    BY <2>1, <2>2, ZenonT(30)
<1>7. WaiterFirst'
  BY <1>0, <1>5, <1>6, ZenonT(30) DEF WaiterFirst
<1>8. QED
  BY <1>2, <1>3, <1>4, <1>7, ZenonT(30) DEF WaitInv

(* A process goes to sleep only while what it waits for has not happened.   *)
LEMMA CondvarSleepWaits ==
  ASSUME LockInv, WaitInv, NEW p \in Slots, CondvarSleep(p)
  PROVE  WaitInv'
<1> USE NamesAssumption DEF CondvarSleep, scheduler_switch_back, At, Running, Goto
<1>0. /\ TypeOK /\ state[p] = "RUNNING" /\ i = p /\ spc = "inspect"
      /\ cond[p] \in Slots \union {Serial} /\ cond[p] # p
      /\ cond[p] = Serial => avail = 0
      /\ cond[p] \in Slots => state[cond[p]] # "EXITED"
  BY ZenonT(30) DEF WaitInv, LockInv, Current, Conditions, ConditionOf, CpuOf, ToSleep
<1>1. \A q \in Slots : /\ state'[q] = IF q = p THEN "SLEEPING" ELSE state[q]
                       /\ waiting_channel'[q] = IF q = p THEN cond[p] ELSE waiting_channel[q]
  BY <1>0, Zenon DEF TypeOK
<1>2. ASSUME NEW q \in Slots PROVE StackOf(q)' /\ CpuOf(q)'
  <2>1. StackOf(q)
    BY ZenonT(30) DEF WaitInv
  <2>2. QED
    BY <1>0, <1>1, <2>1, Zenon DEF TypeOK, StackOf, CpuOf, WaitLabels
<1>3. PidsAreUnique' /\ ExitStatusKept' /\ next_pid' \in Nat \ {0}
  <2>1. \A q \in Slots : /\ state'[q] = "UNUSED" <=> state[q] = "UNUSED"
                         /\ state'[q] = "EXITED" => state[q] = "EXITED"
    BY <1>0, <1>1, SMTT(30)
  <2>2. UNCHANGED <<pid, next_pid, exit_status>>
    BY <1>0, ZenonT(30)
  <2>3. QED
    BY <2>1, <2>2, TableKept, ZenonT(30)
<1>4. NoReaderSleepsOnInput' /\ NoWaiterSleepsOnExited'
  BY <1>0, <1>1, SMTT(30) DEF WaitInv, NoReaderSleepsOnInput, NoWaiterSleepsOnExited
<1>5. NextIndex = i + 1 /\ NextIndex' = i + 1
  BY <1>0, Zenon DEF NextIndex
<1>6. WaiterFirst'
  BY <1>0, <1>1, <1>5, SMTT(30) DEF WaitInv, WaiterFirst
<1>7. QED
  BY <1>2, <1>3, <1>4, <1>6, ZenonT(30) DEF WaitInv

(* A process that gives up the CPU to sleep for a time or to yield waits    *)
(* for nobody.                                                              *)
LEMMA SwitchRunnableWaits ==
  ASSUME LockInv, WaitInv, NEW p \in Slots, SwitchRunnable(p)
  PROVE  WaitInv'
<1>0. /\ TypeOK /\ cpu = p /\ pc[p] \in {"sleep_test", "yield_switch"}
      /\ state' = [state EXCEPT ![p] = "RUNNABLE"] /\ cpu' = Sched /\ spc' = "back"
      /\ pc' = [pc EXCEPT ![p] = "sleep_test"] \/ pc' = [pc EXCEPT ![p] = "unlock_own"]
      /\ UNCHANGED <<pid, exit_status, waiting_channel, next_pid, cond, target_pid, rax, i, avail>>
  BY ZenonT(30) DEF LockInv, SwitchRunnable, scheduler_switch_back, At, Running, Goto
<1>1. /\ state[p] = "RUNNING" /\ i = p /\ spc = "inspect"
      /\ cond[p] \notin Slots /\ target_pid[p] = 0
  BY <1>0, ZenonT(30) DEF WaitInv, LockInv, Current, StackOf, WaitLabels
<1>2. \A q \in Slots : /\ state'[q] = IF q = p THEN "RUNNABLE" ELSE state[q]
                       /\ q # p => pc'[q] = pc[q]
  BY <1>0, ZenonT(30) DEF TypeOK
<1>3. ASSUME NEW q \in Slots PROVE StackOf(q)' /\ CpuOf(q)'
  <2>1. StackOf(q)
    BY ZenonT(30) DEF WaitInv
  <2>2. CASE q = p
    <3>1. pc'[p] \in {"sleep_test", "unlock_own"} /\ state'[p] = "RUNNABLE" /\ cpu' # p
      BY NamesAssumption, <1>0, <1>2, ZenonT(30) DEF TypeOK
    <3>2. QED
      BY <1>0, <1>1, <2>2, <3>1, ZenonT(30) DEF StackOf, CpuOf
  <2>3. CASE q # p
    BY NamesAssumption, <1>0, <1>2, <2>1, <2>3, ZenonT(30) DEF StackOf, CpuOf
  <2>4. QED
    BY <2>2, <2>3, Zenon
<1>4. PidsAreUnique' /\ ExitStatusKept' /\ next_pid' \in Nat \ {0}
  <2>1. \A q \in Slots : /\ state'[q] = "UNUSED" <=> state[q] = "UNUSED"
                         /\ state'[q] = "EXITED" => state[q] = "EXITED"
    BY <1>1, <1>2, Zenon
  <2>2. UNCHANGED <<pid, next_pid, exit_status>>
    BY <1>0, ZenonT(30)
  <2>3. QED
    BY <2>1, <2>2, TableKept, ZenonT(30)
<1>5. NoReaderSleepsOnInput' /\ NoWaiterSleepsOnExited'
  BY <1>0, <1>1, <1>2, SMTT(30) DEF WaitInv, NoReaderSleepsOnInput, NoWaiterSleepsOnExited
<1>6. NextIndex = i + 1 /\ NextIndex' = i + 1
  BY NamesAssumption, <1>0, <1>1, Zenon DEF NextIndex
<1>7. WaiterFirst'
  BY <1>0, <1>1, <1>2, <1>6, SMTT(30) DEF WaitInv, WaiterFirst
<1>8. QED
  BY <1>3, <1>4, <1>5, <1>7, Zenon DEF WaitInv

(* The interrupt finds nobody between the test for input and the sleep,     *)
(* since the interrupts are masked there, and wakes every reader.           *)
LEMMA SerialReceivedCharWaits ==
  ASSUME LockInv, WaitInv, serial_received_char
  PROVE  WaitInv'
<1>0. /\ TypeOK /\ TypeOK' /\ if_flag
      /\ UNCHANGED <<pid, exit_status, waiting_channel, next_pid, pc, cond, target_pid, rax, cpu, spc, i>>
      /\ (avail' = avail + 1 /\ proc_wakeup(Serial)) \/ UNCHANGED <<avail, state>>
  BY SerialReceivedCharPreserves, ZenonT(30)
     DEF LockInv, serial_received_char, IrqTaken, stackVars, schedVars
<1>1. \A q \in Slots : cpu = q => /\ state[q] = "RUNNING"
                                  /\ pc[q] \notin ToSleep \union {"exit_notify", "exit_switch"}
  BY <1>0, ZenonT(30) DEF LockInv, Current, ProcessLocks, ToSleep, OwnLock, CondLock, BothLocks
<1>2. running_process \in Slots => state[running_process] # "SLEEPING"
  <2>1. CASE cpu \in Slots
    BY <2>1, ZenonT(30) DEF LockInv, Current
  <2>2. CASE cpu = Sched
    BY <1>0, <2>2, NamesAssumption, ZenonT(30) DEF LockInv, Current, SchedulerLocks
  <2>3. QED
    BY <1>0, <2>1, <2>2, Zenon DEF TypeOK
<1>3. \A q \in Slots : /\ state[q] # "SLEEPING" => state'[q] = state[q]
                       /\ state[q] = "SLEEPING" => state'[q] \in {"SLEEPING", "RUNNABLE"}
                       /\ avail' # avail => ~(state'[q] = "SLEEPING" /\ waiting_channel[q] = Serial)
  <2>1. CASE proc_wakeup(Serial)
    BY <1>0, <1>2, <2>1, Zenon DEF TypeOK, proc_wakeup
  <2>2. CASE UNCHANGED <<avail, state>>
    BY <2>2, ZenonT(30)
  <2>3. QED
    BY <1>0, <2>1, <2>2, ZenonT(30)
<1>4. ASSUME NEW q \in Slots PROVE StackOf(q)' /\ CpuOf(q)'
  <2>1. StackOf(q)
    BY ZenonT(30) DEF WaitInv
  <2>2. QED
    BY <1>0, <1>1, <1>3, <2>1, Zenon DEF StackOf, CpuOf
<1>5. PidsAreUnique' /\ ExitStatusKept' /\ next_pid' \in Nat \ {0}
  BY <1>0, <1>3, TableKept, Zenon
<1>6. NoReaderSleepsOnInput' /\ NoWaiterSleepsOnExited'
  <2>1. NoReaderSleepsOnInput /\ NoWaiterSleepsOnExited
    BY ZenonT(30) DEF WaitInv
  <2>2. NoReaderSleepsOnInput'
    BY <1>0, <1>3, <2>1, ZenonT(30) DEF NoReaderSleepsOnInput
  <2>3. NoWaiterSleepsOnExited'
    BY <1>0, <1>3, <2>1, ZenonT(30) DEF NoWaiterSleepsOnExited
  <2>4. QED
    BY <2>2, <2>3, Zenon
<1>7. WaiterFirst'
  BY <1>0, <1>3, ZenonT(30) DEF WaitInv, WaiterFirst, NextIndex
<1>8. QED
  BY <1>4, <1>5, <1>6, <1>7, ZenonT(30) DEF WaitInv

(* A process that waits for an exited one is runnable.                      *)
LEMMA WaiterRunnable ==
  ASSUME LockInv, WaitInv, NEW p \in Slots, cpu # p, cond[p] \in Slots,
         state[cond[p]] = "EXITED"
  PROVE  state[p] = "RUNNABLE"
<1>1. pc[p] # "no_stack" /\ state[p] # "SLEEPING"
  BY ZenonT(30) DEF WaitInv, StackOf, WaitLabels, NoWaiterSleepsOnExited
<1>2. QED
  BY <1>1, Zenon DEF LockInv, TypeOK, Suspended, Live

(* The scheduler between two slots changes nothing but its place.           *)
LEMMA SchedulerGoesOn ==
  ASSUME LockInv, WaitInv, cpu = Sched, cpu' = Sched,
         UNCHANGED <<slotVars, stackVars, avail>>,
         \A p, s \in Slots : state[p] = "RUNNABLE" /\ state[s] = "EXITED"
                               /\ Precedes(NextIndex, p, s) => Precedes(NextIndex', p, s)
  PROVE  WaitInv'
<1> USE NamesAssumption DEF slotVars, stackVars
<1>1. ASSUME NEW q \in Slots PROVE StackOf(q)' /\ CpuOf(q)'
  <2>1. StackOf(q) /\ CpuOf(q)
    BY ZenonT(30) DEF WaitInv
  <2>2. QED
    BY <2>1, ZenonT(30) DEF StackOf, CpuOf
<1>2. /\ PidsAreUnique' /\ ExitStatusKept' /\ next_pid' \in Nat \ {0}
      /\ NoReaderSleepsOnInput' /\ NoWaiterSleepsOnExited'
  BY ZenonT(30)
     DEF WaitInv, PidsAreUnique, ExitStatusKept, NoReaderSleepsOnInput, NoWaiterSleepsOnExited
<1>3. ASSUME NEW q \in Slots, cond[q] \in Slots, state[cond[q]] = "EXITED"
      PROVE Precedes(NextIndex', q, cond[q])
  <2>1. cpu # q
    BY ZenonT(30)
  <2>2. state[q] = "RUNNABLE" /\ Precedes(NextIndex, q, cond[q])
    BY <1>3, <2>1, WaiterRunnable, Zenon DEF WaitInv, WaiterFirst
  <2>3. QED
    BY <1>3, <2>2, Zenon
<1>4. WaiterFirst'
  BY <1>3, ZenonT(30) DEF WaiterFirst
<1>5. QED
  BY <1>1, <1>2, <1>4, ZenonT(30) DEF WaitInv

(* Passing over slot j moves neither of two other slots past the other, and *)
(* the end of the table is its beginning.                                   *)
LEMMA RoundRobin ==
  ASSUME NEW j \in Slots, NEW p \in Slots, NEW s \in Slots
  PROVE  /\ p # j /\ s # j /\ Precedes(j, p, s) => Precedes(j + 1, p, s)
         /\ Precedes(N, p, s) <=> Precedes(0, p, s)
         /\ ~Precedes(j, p, j)
BY NAssumption DEF Precedes, Slots

(* The steps of the scheduler that start, stop or reap nothing.             *)
LEMMA SchedulerMoves ==
  ASSUME LockInv, WaitInv,
         \/ SchedulerSti \/ SchedulerLock \/ SchedulerSkip \/ SchedulerBack \/ SchedulerUnlock
  PROVE  WaitInv'
<1>0. i \in Slots /\ i \in Nat /\ N \in Nat
  BY NAssumption DEF LockInv, TypeOK, Slots
<1>1. CASE SchedulerSti
  <2>1. cpu = Sched /\ cpu' = Sched /\ UNCHANGED <<slotVars, stackVars, avail>>
    BY <1>1, Zenon DEF SchedulerSti, AtSched
  <2>2. NextIndex = 0 /\ NextIndex' = 0
    BY <1>1, Zenon DEF SchedulerSti, AtSched, NextIndex
  <2>3. QED
    BY <2>1, <2>2, SchedulerGoesOn, ZenonT(30)
<1>2. CASE SchedulerLock
  <2>1. cpu = Sched /\ cpu' = Sched /\ UNCHANGED <<slotVars, stackVars, avail>>
    BY <1>2, Zenon DEF SchedulerLock, AtSched
  <2>2. NextIndex = i /\ NextIndex' = i
    BY <1>2, Zenon DEF SchedulerLock, AtSched, NextIndex
  <2>3. QED
    BY <2>1, <2>2, SchedulerGoesOn, ZenonT(30)
<1>3. CASE SchedulerSkip
  <2>1. cpu = Sched /\ cpu' = Sched /\ UNCHANGED <<slotVars, stackVars, avail>>
    BY <1>3, Zenon DEF SchedulerSkip, AtSched
  <2>2. NextIndex = i /\ NextIndex' = i + 1
    BY <1>3, Zenon DEF SchedulerSkip, AtSched, NextIndex
  <2>3. state[i] \notin {"RUNNABLE", "EXITED"}
    BY <1>3, Zenon DEF SchedulerSkip
  <2>4. ASSUME NEW p \in Slots, NEW s \in Slots, state[p] = "RUNNABLE", state[s] = "EXITED",
               Precedes(NextIndex, p, s)
        PROVE  Precedes(NextIndex', p, s)
    BY <1>0, <2>2, <2>3, <2>4, RoundRobin, ZenonT(30)
  <2>5. QED
    BY <2>1, <2>4, SchedulerGoesOn, ZenonT(30)
<1>4. CASE SchedulerBack
  <2>1. cpu = Sched /\ cpu' = Sched /\ UNCHANGED <<slotVars, stackVars, avail>>
    BY <1>4, Zenon DEF SchedulerBack, AtSched
  <2>2. NextIndex = i + 1 /\ NextIndex' = i + 1
    BY <1>4, Zenon DEF SchedulerBack, AtSched, NextIndex
  <2>3. QED
    BY <2>1, <2>2, SchedulerGoesOn, ZenonT(30)
<1>5. CASE SchedulerUnlock
  <2>1. cpu = Sched /\ cpu' = Sched /\ UNCHANGED <<slotVars, stackVars, avail>>
    BY <1>5, Zenon DEF SchedulerUnlock, AtSched
  <2>2. NextIndex = i + 1
    BY <1>5, Zenon DEF SchedulerUnlock, AtSched, NextIndex
  <2>3. NextIndex' = i + 1 \/ (i + 1 = N /\ NextIndex' = 0)
    BY <1>0, <1>5 DEF SchedulerUnlock, AtSched, NextIndex
  <2>4. ASSUME NEW p \in Slots, NEW s \in Slots, Precedes(NextIndex, p, s)
        PROVE  Precedes(NextIndex', p, s)
    <3>1. CASE NextIndex' = i + 1
      BY <2>2, <2>4, <3>1, ZenonT(30)
    <3>2. CASE i + 1 = N /\ NextIndex' = 0
      <4>1. Precedes(N, p, s)
        BY <2>2, <2>4, <3>2, ZenonT(30)
      <4>2. QED
        BY <1>0, <3>2, <4>1, RoundRobin, ZenonT(30)
    <3>3. QED
      BY <2>3, <3>1, <3>2, Zenon
  <2>5. QED
    BY <2>1, <2>4, SchedulerGoesOn, ZenonT(30)
<1>6. QED
  BY ZenonT(30), <1>1, <1>2, <1>3, <1>4, <1>5

(* The scheduler runs a slot; the others stay in their order.               *)
LEMMA SchedulerRunWaits ==
  ASSUME LockInv, WaitInv, SchedulerRun
  PROVE  WaitInv'
<1> USE NamesAssumption DEF SchedulerRun, stackVars, AtSched
<1>0. TypeOK /\ i \in Slots /\ pc[i] \in {"unlock_own", "sleep_test", "cv_woken"}
  BY Zenon DEF LockInv, TypeOK, Suspended
<1>1. \A q \in Slots : state'[q] = IF q = i THEN "RUNNING" ELSE state[q]
  BY <1>0, ZenonT(30) DEF TypeOK
<1>2. ASSUME NEW q \in Slots PROVE StackOf(q)' /\ CpuOf(q)'
  <2>1. StackOf(q)
    BY ZenonT(30) DEF WaitInv
  <2>2. QED
    BY <1>0, <1>1, <2>1, ZenonT(30) DEF TypeOK, StackOf, CpuOf, ToSleep
<1>3. PidsAreUnique' /\ ExitStatusKept' /\ next_pid' \in Nat \ {0}
  <2>1. \A q \in Slots : /\ state'[q] = "UNUSED" <=> state[q] = "UNUSED"
                         /\ state'[q] = "EXITED" => state[q] = "EXITED"
    BY <1>0, <1>1, SMTT(30)
  <2>2. UNCHANGED <<pid, next_pid, exit_status>>
    BY <1>0, ZenonT(30)
  <2>3. QED
    BY <2>1, <2>2, TableKept, ZenonT(30)
<1>4. NoReaderSleepsOnInput' /\ NoWaiterSleepsOnExited'
  BY <1>0, <1>1, SMTT(30) DEF WaitInv, NoReaderSleepsOnInput, NoWaiterSleepsOnExited
<1>5. NextIndex = i /\ NextIndex' = i + 1
  BY <1>0, ZenonT(30) DEF NextIndex
<1>6. ASSUME NEW q \in Slots, q # i, cond[q] \in Slots, state'[cond[q]] = "EXITED"
      PROVE  Precedes(i + 1, q, cond[q])
  <2>1. state[cond[q]] = "EXITED" /\ cond[q] # i /\ cpu # q
    BY <1>1, <1>6
  <2>2. Precedes(i, q, cond[q])
    BY <1>5, <1>6, <2>1, ZenonT(30) DEF WaitInv, WaiterFirst
  <2>3. QED
    BY <1>0, <1>6, <2>1, <2>2, RoundRobin, ZenonT(30)
<1>7. WaiterFirst'
  <2>1. cpu' = i /\ cond' = cond
    BY Zenon
  <2>2. QED
    BY <1>5, <1>6, <2>1, ZenonT(30) DEF WaiterFirst
<1>8. QED
  BY <1>2, <1>3, <1>4, <1>7, ZenonT(30) DEF WaitInv

(* The scheduler reaps a slot only when everybody who waited for it has     *)
(* been scheduled since the exit, and has read its exit status.             *)
LEMMA SchedulerReapWaits ==
  ASSUME LockInv, WaitInv, SchedulerReap
  PROVE  WaitInv'
<1> USE NamesAssumption DEF SchedulerReap, stackVars, AtSched
<1>0. TypeOK /\ i \in Slots /\ pc[i] = "no_stack"
  BY Zenon DEF LockInv, TypeOK, Suspended
<1>1. /\ \A q \in Slots : state'[q] = IF q = i THEN "UNUSED" ELSE state[q]
      /\ \A q \in Slots : pid'[q] = IF q = i THEN 0 ELSE pid[q]
  BY <1>0, ZenonT(30) DEF TypeOK
<1>2. NextIndex = i /\ NextIndex' = i + 1
  BY <1>0, Zenon DEF NextIndex
<1>3. \A q \in Slots : cond[q] # i
  <2>1. ASSUME NEW q \in Slots, cond[q] = i PROVE Precedes(i, q, i)
    BY <1>0, <1>2, <2>1, ZenonT(30) DEF WaitInv, WaiterFirst
  <2>2. QED
    BY <1>0, <2>1, RoundRobin, ZenonT(30)
<1>4. ASSUME NEW q \in Slots PROVE StackOf(q)' /\ CpuOf(q)'
  <2>1. StackOf(q)
    BY ZenonT(30) DEF WaitInv
  <2>2. QED
    BY <1>0, <1>1, <1>3, <2>1 DEF StackOf, CpuOf
<1>5. PidsAreUnique' /\ ExitStatusKept' /\ next_pid' \in Nat \ {0}
  <2>1. PidsAreUnique /\ ExitStatusKept /\ next_pid \in Nat \ {0}
    BY ZenonT(30) DEF WaitInv
  <2>2. PidsAreUnique'
    BY <1>0, <1>1, <2>1, SMTT(30) DEF PidsAreUnique
  <2>3. ExitStatusKept' /\ next_pid' \in Nat \ {0}
    BY <1>0, <1>1, <2>1, SMTT(30) DEF ExitStatusKept
  <2>4. QED
    BY <2>2, <2>3, Zenon
<1>6. NoReaderSleepsOnInput' /\ NoWaiterSleepsOnExited'
  <2>1. NoReaderSleepsOnInput /\ NoWaiterSleepsOnExited
    BY ZenonT(30) DEF WaitInv
  <2>2. QED
    BY <1>0, <1>1, <2>1 DEF NoReaderSleepsOnInput, NoWaiterSleepsOnExited
<1>7. ASSUME NEW q \in Slots, cond[q] \in Slots, state'[cond[q]] = "EXITED"
      PROVE  Precedes(i + 1, q, cond[q])
  <2>1. state[cond[q]] = "EXITED" /\ cond[q] # i /\ cpu # q
    BY <1>1, <1>7
  <2>2. Precedes(i, q, cond[q])
    BY <1>2, <1>7, <2>1, ZenonT(30) DEF WaitInv, WaiterFirst
  <2>3. q # i
    BY <1>7, <2>1, WaiterRunnable, Zenon
  <2>4. QED
    BY <1>0, <1>7, <2>1, <2>2, <2>3, RoundRobin, ZenonT(30)
<1>8. WaiterFirst'
  <2>1. cond' = cond
    BY Zenon
  <2>2. QED
    BY <1>2, <1>7, <2>1, ZenonT(30) DEF WaiterFirst
<1>9. QED
  BY <1>4, <1>5, <1>6, <1>8, ZenonT(30) DEF WaitInv

(* A step that changes at most the panic changes nothing for anybody.       *)
LEMMA PanicWaits ==
  ASSUME WaitInv, UNCHANGED <<slotVars, stackVars, schedVars, avail>>
  PROVE  WaitInv'
<1> USE DEF slotVars, stackVars, schedVars
<1>1. ASSUME NEW q \in Slots PROVE StackOf(q)' /\ CpuOf(q)'
  <2>1. StackOf(q) /\ CpuOf(q)
    BY ZenonT(30) DEF WaitInv
  <2>2. QED
    BY <2>1, ZenonT(30) DEF StackOf, CpuOf
<1>2. /\ PidsAreUnique' /\ ExitStatusKept' /\ next_pid' \in Nat \ {0}
      /\ NoReaderSleepsOnInput' /\ NoWaiterSleepsOnExited'
  BY ZenonT(30)
     DEF WaitInv, PidsAreUnique, ExitStatusKept, NoReaderSleepsOnInput, NoWaiterSleepsOnExited
<1>3. WaiterFirst'
  BY ZenonT(30) DEF WaitInv, WaiterFirst, NextIndex
<1>4. QED
  BY <1>1, <1>2, <1>3, ZenonT(30) DEF WaitInv

(* Every step preserves the invariant of waiting.                           *)
LEMMA NextWaits == LockInv /\ WaitInv /\ [Next]_vars => WaitInv'
<1> SUFFICES ASSUME LockInv, WaitInv, [Next]_vars PROVE WaitInv'
  BY ZenonT(30)
<1>1. ASSUME Scheduler PROVE WaitInv'
  BY ZenonT(30), <1>1, SchedulerMoves, SchedulerRunWaits, SchedulerReapWaits DEF Scheduler
<1>2. ASSUME NEW p \in Slots, Trap(p) \/ KernelOf(p) PROVE WaitInv'
  BY ZenonT(30), <1>2, StackSteps, ExecAbortsWaits, ProcExecWaits, ExitNotifyWaits,
     ExitSwitchWaits, CondvarSleepWaits, SwitchRunnableWaits DEF KernelOf
<1>3. ASSUME IrqWithUserGs \/ Panic \/ Halted \/ UNCHANGED vars PROVE WaitInv'
  <2>1. UNCHANGED <<slotVars, stackVars, schedVars, avail>>
    BY ZenonT(30), <1>3 DEF IrqWithUserGs, Panic, Halted, vars
  <2>2. QED
    BY <2>1, PanicWaits, ZenonT(30)
<1>4. QED
  BY ZenonT(30), <1>1, <1>2, <1>3, SerialReceivedCharWaits DEF Next

(* The invariant of waiting holds for any number of processes.              *)
THEOREM WaitInvariance == Spec => []WaitInv
<1>1. QED
  BY WaitInvInit, NextWaits, Invariance, NextPreserves, PTL DEF Spec

(* No lost wakeup on the serial port: with input there, no reader sleeps.   *)
THEOREM ReadersWake == Spec => []NoReaderSleepsOnInput
<1>1. WaitInv => NoReaderSleepsOnInput
  BY ZenonT(30) DEF WaitInv
<1>2. QED
  BY WaitInvariance, <1>1, PTL

(* No lost wakeup in proc_wait: once a process has exited, nobody sleeps on *)
(* its slot.                                                                *)
THEOREM WaitersWake == Spec => []NoWaiterSleepsOnExited
<1>1. WaitInv => NoWaiterSleepsOnExited
  BY ZenonT(30) DEF WaitInv
<1>2. QED
  BY WaitInvariance, <1>1, PTL

(* The slot proc_wait found is neither reaped nor reused while it waits,    *)
(* because the round robin reaches every waiter first.                      *)
THEOREM TargetStays == Spec => []WaitTargetStable
<1>1. ASSUME LockInv, WaitInv PROVE WaitTargetStable
  <2> SUFFICES ASSUME NEW p \in Slots, cond[p] \in Slots, target_pid[p] # 0
               PROVE  /\ pid[cond[p]] = target_pid[p]
                      /\ state[cond[p]] \in Live \union {"EXITED"}
    BY Zenon DEF WaitTargetStable, Waiting
  <2>1. pid[cond[p]] = target_pid[p]
    BY <1>1, Zenon DEF WaitInv, StackOf
  <2>2. state[cond[p]] # "UNUSED"
    BY <1>1, <2>1, ZenonT(30) DEF WaitInv, PidsAreUnique
  <2>3. QED
    BY <1>1, <2>1, <2>2, ZenonT(30) DEF LockInv, TypeOK
<1>2. QED
  BY Invariance, WaitInvariance, <1>1, PTL

(* wait(n) returns -1 or the exit code of process n.                        *)
THEOREM WaitIsRight == Spec => []WaitReturnsTargetsStatus
<1>1. WaitInv => WaitReturnsTargetsStatus
  BY Zenon DEF WaitInv, StackOf, WaitReturnsTargetsStatus
<1>2. QED
  BY WaitInvariance, <1>1, PTL

(* No two processes have the same pid, failed execs and reused slots        *)
(* included.                                                                *)
THEOREM PidsDiffer == Spec => []PidsAreUnique
<1>1. WaitInv => PidsAreUnique
  BY Zenon DEF WaitInv
<1>2. QED
  BY WaitInvariance, <1>1, PTL

=============================================================================
