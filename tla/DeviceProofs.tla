---------------------------- MODULE DeviceProofs ----------------------------
(***************************************************************************)
(* The devices.  For queues of every length greater than one, the NVMe     *)
(* driver and the controller stay in step, and together they are a block   *)
(* store.  The ring buffer of the serial port implements a queue, whatever *)
(* its length and the lengths of the reads.  The registers of the real time*)
(* clock are read within one second, wherever its ticks fall.              *)
(***************************************************************************)
EXTENDS Nvme, SerialRing, Rtc, Integers, SequenceTheorems, TLAPS

IoCommands == {"READ", "WRITE"}
AdminCommands == {"SETFEATURES", "CRIOCQ", "CRIOSQ", "IDENTIFY"}

(* Positions lie within their queues.                                       *)
Types ==
  /\ submission_queue = [q \in Queues |-> submission_queue[q]]
  /\ completion_queue = [q \in Queues |-> completion_queue[q]]
  /\ \A q \in Queues : DOMAIN submission_queue[q] = Slots(q)
                       /\ submission_queue[q] = [s \in Slots(q) |-> submission_queue[q][s]]
                       /\ completion_queue[q] \in [Slots(q) -> {0, 1}]
  /\ submission_queue_tail \in [Queues -> Nat] /\ completion_queue_head \in [Queues -> Nat]
  /\ sq_tail_doorbell \in [Queues -> Nat] /\ sq_head \in [Queues -> Nat]
  /\ cq_tail \in [Queues -> Nat] /\ executed \in [Queues -> BOOLEAN]
  /\ completion_queue_current_phase \in [Queues -> {0, 1}] /\ phase \in [Queues -> {0, 1}]
  /\ \A q \in Queues : submission_queue_tail[q] \in Slots(q)
  /\ pc \in {"boot", "disabling", "enabling", "ready", "poll"}
  /\ queue \in Queues /\ left_commands \in {0, 1} /\ started \in 0 .. 4
  /\ disk \in [Blocks -> Values]
  /\ cc_en \in BOOLEAN /\ csts_rdy \in BOOLEAN

(* Nothing is in flight: all positions are the same, and the controller     *)
(* would mark its next completion by the phase the driver waits for.        *)
InStep(q) ==
  /\ completion_queue_head[q] = submission_queue_tail[q]
  /\ sq_tail_doorbell[q] = submission_queue_tail[q]
  /\ sq_head[q] = submission_queue_tail[q]
  /\ cq_tail[q] = submission_queue_tail[q]
  /\ ~executed[q] /\ phase[q] = 1 - completion_queue_current_phase[q]

(* One command is in flight: not yet fetched, executed, or completed.       *)
Sent(q) ==
  /\ completion_queue_head[q] \in Slots(q)
  /\ submission_queue_tail[q] = Advance(q, completion_queue_head[q])
  /\ sq_tail_doorbell[q] = submission_queue_tail[q]

Waiting(q) ==
  /\ Sent(q) /\ sq_head[q] = completion_queue_head[q] /\ cq_tail[q] = completion_queue_head[q]
  /\ ~executed[q] /\ phase[q] = 1 - completion_queue_current_phase[q]

Executed(q) ==
  /\ Sent(q) /\ sq_head[q] = submission_queue_tail[q] /\ cq_tail[q] = completion_queue_head[q]
  /\ executed[q] /\ phase[q] = 1 - completion_queue_current_phase[q]

Completed(q) ==
  /\ Sent(q) /\ sq_head[q] = submission_queue_tail[q] /\ cq_tail[q] = submission_queue_tail[q]
  /\ ~executed[q]
  /\ phase[q] = IF submission_queue_tail[q] = 0 THEN completion_queue_current_phase[q]
                ELSE 1 - completion_queue_current_phase[q]

(* The entries before the controller's position have its phase, the others  *)
(* the one of the turn before.                                              *)
Phases(q) ==
  \A s \in Slots(q) : completion_queue[q][s] = IF s < cq_tail[q] THEN phase[q] ELSE 1 - phase[q]

(* Before the controller is enabled, and after.                             *)
Booting ==
  /\ \A q \in Queues :
       /\ submission_queue_tail[q] = 0 /\ completion_queue_head[q] = 0
       /\ completion_queue_current_phase[q] = 0 /\ ~executed[q]
       /\ \A s \in Slots(q) : completion_queue[q][s] = 0
  /\ left_commands = 0 /\ started = 0
  /\ pc \in {"boot", "disabling"} /\ ~csts_rdy => \A q \in Queues : InStep(q)
  /\ pc = "boot" => cc_en = csts_rdy
  /\ pc = "disabling" => ~cc_en
  /\ pc = "enabling" => cc_en /\ \A q \in Queues : InStep(q)
  /\ sq_tail_doorbell = sq_head

Running ==
  /\ csts_rdy /\ cc_en
  /\ \A q \in Queues : Phases(q)
  /\ \A q \in Queues : (pc = "ready" \/ q # queue \/ left_commands = 0) => InStep(q)
  /\ pc = "poll" /\ left_commands = 1 => Waiting(queue) \/ Executed(queue) \/ Completed(queue)

(* The command in flight, and what is in its buffer.                        *)
Transfer ==
  pc = "poll" =>
    /\ queue = "io" => command.opc \in IoCommands /\ command.block \in Blocks
    /\ queue = "admin" => command.opc \in AdminCommands /\ started < 4
    /\ Waiting(queue) /\ left_commands = 1 =>
         /\ submission_queue[queue][sq_head[queue]] = command
         /\ command.opc = "WRITE" => buffer \in Values
         /\ command.opc = "READ" => buffer = "junk"
    /\ command.opc = "READ" /\ ~(Waiting(queue) /\ left_commands = 1) =>
         buffer = disk[command.block] \/ (faulty /\ buffer = "junk")

(* The command in flight is the one that was asked for, and once it has     *)
(* been fetched a write is on the disk.                                     *)
Asked ==
  /\ pc # "poll" \/ queue = "admin" => request = None
  /\ pc = "poll" /\ queue = "io" /\ command.opc = "READ" =>
       request = [op |-> "read", block |-> command.block]
  /\ pc = "poll" /\ queue = "io" /\ command.opc = "WRITE" =>
       /\ request = [op |-> "write", block |-> command.block, page |-> buffer]
       /\ buffer \in Values
       /\ ~(Waiting(queue) /\ left_commands = 1) => faulty \/ disk[command.block] = buffer

IInv ==
  /\ Types
  /\ pc \in {"boot", "disabling", "enabling"} => Booting
  /\ pc \in {"ready", "poll"} => Running
  /\ Transfer /\ Asked

-----------------------------------------------------------------------------
(* What a step around a queue does, and that the driver then waits for one  *)
(* command.                                                                 *)
LEMMA AdvanceFacts ==
  ASSUME NEW q \in Queues, NEW k \in Slots(q)
  PROVE  /\ Advance(q, k) \in Slots(q) /\ Advance(q, k) # k
         /\ \/ Advance(q, k) = k + 1 /\ Advance(q, k) # 0
            \/ Advance(q, k) = 0 /\ k = queue_size(q) - 1
         /\ LeftCommands(q, k, Advance(q, k)) = 1
BY NvmeAssumption DEF Slots, queue_size, Advance, LeftCommands, Queues

(* The slots of a queue are numbered from zero.                             *)
LEMMA SlotFacts ==
  ASSUME NEW q \in Queues
  PROVE  /\ 0 \in Slots(q) /\ Slots(q) \subseteq Nat
         /\ \A s \in Slots(q) : s < queue_size(q) /\ s <= queue_size(q) - 1
BY NvmeAssumption DEF Slots, queue_size, Queues

(* Before nvme_init nothing is in flight.                                   *)
LEMMA Initially == Init => IInv
<1> SUFFICES ASSUME Init PROVE IInv
  BY Zenon
<1>1. Types
  BY SlotFacts DEF Init, Types, Cleared, Queues
<1>2. Booting
  BY SlotFacts DEF Init, Booting, Cleared, InStep
<1> QED
  BY <1>1, <1>2, Zenon DEF Init, IInv, Transfer, Asked

(* The steps of nvme_init and of the reset of the controller.               *)
LEMMA BootSteps ==
  ASSUME IInv, nvme_disable_device \/ nvme_enable_device \/ Enabled \/ Reset \/ Start
  PROVE  IInv'
<1> USE DEF driver, power, doorbells, controller
<1>0. ASSUME pc # "poll", pc' # "poll" PROVE Asked'
  <2>1. request' = request
    BY Zenon DEF nvme_disable_device, nvme_enable_device, Enabled, Reset, Start
  <2>2. request = None
    BY <1>0, Zenon DEF IInv, Asked
  <2> QED
    BY <1>0, <2>1, <2>2, Zenon DEF Asked
<1>1. CASE nvme_disable_device
  <2>1. Types' /\ pc = "boot" /\ pc' = "disabling" /\ Booting
    BY <1>1, Zenon DEF IInv, Types, nvme_disable_device
  <2>2. Booting'
    BY <1>1, <2>1, Zenon DEF Booting, InStep, nvme_disable_device
  <2> QED
    BY <1>0, <2>1, <2>2, Zenon DEF IInv, Transfer
<1>2. CASE nvme_enable_device
  <2>1. Types' /\ pc = "disabling" /\ pc' = "enabling" /\ Booting
    BY <1>2, Zenon DEF IInv, Types, nvme_enable_device
  <2>2. Booting'
    BY <1>2, <2>1, Zenon DEF Booting, InStep, nvme_enable_device
  <2> QED
    BY <1>0, <2>1, <2>2, Zenon DEF IInv, Transfer
<1>3. CASE Enabled
  <2>1. Types /\ Types' /\ pc = "enabling" /\ pc' = "ready" /\ Booting
    BY <1>3, ZenonT(30) DEF IInv, Types, Enabled
  <2>2. Running'
    BY <1>3, <2>1, SlotFacts DEF Types, Booting, Running, Phases, InStep, Enabled
  <2> QED
    BY <1>0, <2>1, <2>2, Zenon DEF IInv, Transfer
<1>4. CASE Reset
  <2>1. Types' /\ pc \in {"boot", "disabling", "enabling"} /\ pc' = pc /\ Booting
    BY <1>4, SlotFacts, Zenon DEF IInv, Types, Running, Reset, Cleared
  <2>2. pc = "disabling"
    BY <1>4, <2>1, Zenon DEF Booting, Reset
  <2>3. \A q \in Queues : InStep(q)'
    BY <1>4, <2>1 DEF Booting, InStep, Reset, Cleared
  <2>4. Booting'
    BY <1>4, <2>1, <2>2, <2>3, Zenon DEF Booting, Reset, Cleared
  <2> QED
    BY <1>0, <2>1, <2>4, Zenon DEF IInv, Transfer
<1>5. CASE Start
  <2>1. Types' /\ pc \in {"boot", "disabling", "enabling"} /\ pc' = pc /\ Booting
    BY <1>5, Zenon DEF IInv, Types, Running, Start
  <2>2. Booting'
    BY <1>5, <2>1, Zenon DEF Booting, InStep, Start
  <2> QED
    BY <1>0, <2>1, <2>2, Zenon DEF IInv, Transfer
<1> QED
  BY <1>1, <1>2, <1>3, <1>4, <1>5, Zenon

(* A command that is sent while nothing is in flight.                       *)
LEMMA SubmitStep ==
  ASSUME IInv, NEW q \in Queues, NEW cmd, Submit(q, cmd),
         q = "io" => cmd.opc \in IoCommands /\ cmd.block \in Blocks,
         q = "admin" => cmd.opc \in AdminCommands /\ started < 4,
         cmd.opc = "WRITE" => buffer' \in Values,
         cmd.opc = "READ" => buffer' = "junk",
         q = "admin" => request' = request,
         q = "io" /\ cmd.opc = "READ" => request' = [op |-> "read", block |-> cmd.block],
         q = "io" /\ cmd.opc = "WRITE" =>
           request' = [op |-> "write", block |-> cmd.block, page |-> buffer']
  PROVE  IInv'
<1> DEFINE old == submission_queue_tail[q]
<1> USE DEF power, doorbells, controller
<1>1. pc = "ready" /\ pc' = "poll" /\ queue' = q /\ command' = cmd
  BY Zenon DEF Submit
<1>2. Types /\ Running /\ \A r \in Queues : InStep(r) /\ Phases(r)
  BY <1>1, Zenon DEF IInv, Running
<1>3. old \in Slots(q)
  BY <1>2, Zenon DEF Types
<1>4. left_commands' = 1
  BY <1>2, <1>3, AdvanceFacts DEF Submit, InStep
<1>5. /\ Types'
      /\ submission_queue'[q][old] = cmd
  BY <1>1, <1>2, <1>3, <1>4, AdvanceFacts, SlotFacts, Zenon DEF Types, Submit
<1>6. Waiting(q)'
  BY <1>2, <1>3, AdvanceFacts, Zenon DEF Submit, InStep, Waiting, Sent, Types
<1>7. \A r \in Queues : Phases(r)' /\ (r # q => InStep(r)')
  BY <1>2, ZenonT(30) DEF Submit, InStep, Phases, Types
<1>8. Running'
  BY <1>1, <1>2, <1>4, <1>6, <1>7 DEF Running, Submit
<1>9. Transfer'
  <2>1. sq_head'[q] = old
    BY <1>2, Zenon DEF Submit, InStep
  <2> QED
    BY <1>1, <1>4, <1>5, <1>6, <2>1, Zenon DEF Transfer, Submit
<1>10. Asked'
  <2>1. request = None
    BY <1>1, Zenon DEF IInv, Asked
  <2> QED
    BY <1>1, <1>4, <1>6, <2>1, Zenon DEF Asked, Queues
<1> QED
  BY <1>1, <1>5, <1>8, <1>9, <1>10, Zenon DEF IInv

(* nvme_read and nvme_write submit one command each.                        *)
LEMMA CallSteps ==
  ASSUME IInv,
         \/ StartupCommand
         \/ \E b \in Blocks : nvme_read(b) \/ \E v \in Values : nvme_write(b, v)
  PROVE  IInv'
<1>1. CASE StartupCommand
  <2>1. started \in 0 .. 4 /\ started < 4
    BY <1>1, Zenon DEF IInv, Types, StartupCommand, Startup
  <2>2. Startup[started + 1] \in AdminCommands
    BY <2>1 DEF Startup, AdminCommands
  <2> DEFINE cmd == [opc |-> Startup[started + 1], block |-> None]
  <2>3. Submit("admin", cmd) /\ cmd.opc \in AdminCommands /\ request' = request
    BY <1>1, <2>2, Zenon DEF StartupCommand
  <2>4. cmd.opc # "READ" /\ cmd.opc # "WRITE"
    BY <2>2, Zenon DEF AdminCommands
  <2> HIDE DEF cmd
  <2> QED
    BY <2>1, <2>3, <2>4, SubmitStep, Zenon DEF Queues
<1>2. CASE \E b \in Blocks : nvme_read(b)
  BY <1>2, SubmitStep, Zenon DEF nvme_read, IoCommands, Queues
<1>3. CASE \E b \in Blocks : \E v \in Values : nvme_write(b, v)
  BY <1>3, SubmitStep, Zenon DEF nvme_write, IoCommands, Queues
<1> QED
  BY <1>1, <1>2, <1>3, Zenon

(* The driver sees a phase change only when the command is completed.       *)
LEMMA PollStep ==
  ASSUME IInv, Poll
  PROVE  IInv'
<1> DEFINE q == queue
           head == completion_queue_head[q]
<1> USE DEF power, doorbells, controller
<1>1. pc = "poll" /\ pc' = "poll" /\ left_commands = 1 /\ left_commands' = 0
  BY DEF Poll, IInv, Types
<1>2. Types /\ Running /\ q \in Queues /\ Phases(q)
  BY <1>1, Zenon DEF IInv, Running, Types
<1>3. Completed(q)
  <2>1. SUFFICES ASSUME Waiting(q) \/ Executed(q) PROVE FALSE
    BY <1>1, <1>2, Zenon DEF Running
  <2>2. head \in Slots(q) /\ cq_tail[q] = head /\ phase[q] = 1 - completion_queue_current_phase[q]
    BY <2>1, Zenon DEF Waiting, Executed, Sent
  <2>3. completion_queue[q][head] = 1 - phase[q]
    BY <1>2, <2>2, SlotFacts DEF Phases
  <2> QED
    BY <1>2, <2>2, <2>3, SMTT(30) DEF Poll, Types
<1>4. Types'
  BY <1>1, <1>2, <1>3, AdvanceFacts, SlotFacts DEF Types, Poll, Completed, Sent
<1>5. InStep(q)'
  BY <1>2, <1>3, AdvanceFacts, SlotFacts DEF InStep, Completed, Sent, Poll, Types
<1>6. \A r \in Queues : Phases(r)' /\ (r # q => InStep(r)')
  BY <1>2, Zenon DEF Poll, Running, InStep, Phases, Types
<1>7. Running'
  BY <1>1, <1>2, <1>5, <1>6 DEF Running, Poll
<1>8. ~Waiting(q)
  BY <1>2, <1>3, AdvanceFacts, Zenon DEF Completed, Waiting, Sent
<1>9. Transfer'
  BY <1>1, <1>8 DEF IInv, Transfer, Poll
<1>10. Asked'
  <2>1. /\ queue' = queue /\ command' = command /\ request' = request /\ buffer' = buffer
        /\ faulty' = faulty /\ disk' = disk
    BY Zenon DEF Poll
  <2>2. Asked /\ ~Waiting(queue)
    BY <1>8, Zenon DEF IInv
  <2> QED
    BY <1>1, <2>1, <2>2, Zenon DEF Asked
<1> QED
  BY <1>1, <1>4, <1>7, <1>9, <1>10, Zenon DEF IInv

(* The driver takes the completion and returns.                             *)
LEMMA FinishStep ==
  ASSUME IInv, Finish
  PROVE  IInv'
<1> USE DEF power, controller
<1>1. pc = "poll" /\ pc' = "ready" /\ left_commands = 0 /\ left_commands' = 0
  BY Zenon DEF Finish
<1>2. Types /\ Running /\ Transfer
  BY <1>1, Zenon DEF IInv
<1>3. Types'
  BY <1>1, <1>2 DEF Types, Transfer, Finish
<1>4. \A q \in Queues : InStep(q) /\ Phases(q)
  BY <1>1, <1>2, Zenon DEF Running
<1>5. \A q \in Queues : InStep(q)' /\ Phases(q)'
  BY <1>4, Zenon DEF Finish, InStep, Phases
<1>6. Running'
  BY <1>1, <1>2, <1>5, Zenon DEF Running, Finish
<1>7. Asked'
  BY <1>1, Zenon DEF Asked, Finish
<1> QED
  BY <1>1, <1>3, <1>6, <1>7, Zenon DEF IInv, Transfer

(* The controller fetches the command in flight, and no other.              *)
LEMMA FetchFacts ==
  ASSUME IInv, NEW q \in Queues, Fetch(q)
  PROVE  /\ pc = "poll" /\ q = queue /\ left_commands = 1 /\ Waiting(q)
         /\ submission_queue[q][sq_head[q]] = command
         /\ Executed(q)' /\ Running' /\ Types /\ Transfer /\ Asked
<1> USE DEF driver, power, doorbells
<1>1. Types /\ ~executed[q] /\ sq_head[q] # sq_tail_doorbell[q]
  BY Zenon DEF IInv, Fetch
<1>2. pc \in {"ready", "poll"} /\ Running
  BY <1>1, Zenon DEF IInv, Booting, Types
<1>3. pc = "poll" /\ q = queue /\ left_commands = 1
  BY <1>1, <1>2, Zenon DEF Running, InStep, Types
<1>4. Waiting(q)
  BY <1>1, <1>2, <1>3, Zenon DEF Running, Executed, Completed, Sent
<1>5. submission_queue[q][sq_head[q]] = command /\ Transfer /\ Asked
  BY <1>3, <1>4, Zenon DEF IInv, Transfer
<1>6. Executed(q)'
  BY <1>1, <1>4, Zenon DEF Fetch, Waiting, Executed, Sent, Types
<1>7. \A r \in Queues : Phases(r)' /\ (r # q => InStep(r)')
  BY <1>1, <1>2, <1>3, ZenonT(30) DEF Fetch, Running, InStep, Phases, Types
<1>8. Running'
  BY <1>2, <1>3, <1>6, <1>7 DEF Running, Fetch
<1> QED
  BY <1>1, <1>3, <1>4, <1>5, <1>6, <1>8, Zenon

(* The controller executes the command it fetched.                          *)
LEMMA ExecuteStep ==
  ASSUME IInv, NEW q \in Queues, Execute(q) \/ Fail(q)
  PROVE  IInv'
<1> USE DEF driver, power, doorbells
<1>1. Fetch(q)
  BY Zenon DEF Execute, Fail
<1>2. /\ pc = "poll" /\ q = queue /\ left_commands = 1 /\ Waiting(q)
      /\ submission_queue[q][sq_head[q]] = command
      /\ Executed(q)' /\ Running' /\ Types /\ Transfer /\ Asked
  BY <1>1, FetchFacts, Zenon
<1>3. disk' \in [Blocks -> Values]
  BY <1>2, Zenon DEF Execute, Fail, Types, Transfer, Queues, AdminCommands
<1>4. Types'
  BY <1>1, <1>2, <1>3, AdvanceFacts, SlotFacts, Zenon DEF Fetch, Types, Waiting, Sent
<1>5. /\ pc' = pc /\ queue' = queue /\ command' = command /\ started' = started
      /\ request' = request /\ faulty' = faulty
  BY <1>1, Zenon DEF Fetch
<1>6. ~Waiting(q)'
  BY <1>2, Zenon DEF Executed, Waiting
<1>7. command.opc = "READ" => buffer' = disk'[command.block] \/ (faulty /\ buffer' = "junk")
  BY <1>2, Zenon DEF Execute, Fail, Transfer
<1>8. Transfer'
  BY <1>2, <1>5, <1>6, <1>7, Zenon DEF Transfer
<1>9. ASSUME command.opc = "WRITE"
      PROVE  buffer' = buffer /\ (faulty \/ (command.block \in Blocks => disk'[command.block] = buffer))
  BY <1>2, <1>9, Zenon DEF Execute, Fail, Types
<1>10. Asked'
  BY <1>2, <1>5, <1>6, <1>9, Zenon DEF Asked, Transfer
<1> QED
  BY <1>2, <1>4, <1>5, <1>8, <1>10, Zenon DEF IInv

(* The controller writes the completion and the phase bit.                  *)
LEMMA CompleteStep ==
  ASSUME IInv, NEW q \in Queues, Complete(q)
  PROVE  IInv'
<1> DEFINE old == cq_tail[q]
<1> USE DEF driver, power, doorbells
<1>1. Types /\ executed[q]
  BY Zenon DEF IInv, Complete
<1>2. pc \in {"ready", "poll"} /\ Running
  BY <1>1, Zenon DEF IInv, Booting, Types
<1>3. pc = "poll" /\ q = queue /\ left_commands = 1 /\ Executed(q) /\ Phases(q)
  BY <1>1, <1>2, Zenon DEF Running, InStep, Types, Waiting, Completed
<1>4. old \in Slots(q) /\ old = completion_queue_head[q]
      /\ Advance(q, old) = submission_queue_tail[q]
  BY <1>3, Zenon DEF Executed, Sent
<1>5. Types'
  <2>1. /\ completion_queue' = [r \in Queues |-> completion_queue'[r]]
        /\ \A r \in Queues : completion_queue'[r] \in [Slots(r) -> {0, 1}]
    BY <1>1, <1>4, Zenon DEF Complete, Types
  <2>2. phase' \in [Queues -> {0, 1}]
    BY <1>1 DEF Complete, Types
  <2>3. cq_tail' \in [Queues -> Nat] /\ executed' \in [Queues -> BOOLEAN]
    BY <1>1, <1>4, AdvanceFacts, SlotFacts, Zenon DEF Complete, Types
  <2> QED
    BY <1>1, <2>1, <2>2, <2>3, Zenon DEF Complete, Types
<1>6. Completed(q)'
  BY <1>1, <1>3, <1>4 DEF Complete, Executed, Completed, Sent, Types
<1>7. Phases(q)'
  <2> DEFINE tail == Advance(q, old)
  <2>1. /\ completion_queue'[q] = [completion_queue[q] EXCEPT ![old] = phase[q]]
        /\ cq_tail'[q] = tail /\ phase'[q] = IF tail = 0 THEN 1 - phase[q] ELSE phase[q]
    BY <1>1, Zenon DEF Complete, Types
  <2>2. completion_queue[q] \in [Slots(q) -> {0, 1}] /\ phase[q] \in {0, 1}
    BY <1>1, Zenon DEF Types
  <2>3. \/ tail = old + 1 /\ tail # 0
        \/ tail = 0 /\ old = queue_size(q) - 1
    BY <1>4, AdvanceFacts, Zenon
  <2> HIDE DEF tail, old
  <2>4. ASSUME NEW s \in Slots(q)
        PROVE  completion_queue'[q][s] = IF s < cq_tail'[q] THEN phase'[q] ELSE 1 - phase'[q]
    <3>1. completion_queue'[q][s] = IF s = old THEN phase[q] ELSE completion_queue[q][s]
      BY <2>1, <2>2, Zenon
    <3>2. completion_queue[q][s] = IF s < old THEN phase[q] ELSE 1 - phase[q]
      BY <1>3, Zenon DEF Phases, old
    <3>3. s \in Nat /\ s <= queue_size(q) - 1 /\ old \in Nat
      BY <1>4, SlotFacts, Zenon
    <3>4. queue_size(q) \in Nat
      BY NvmeAssumption, Zenon DEF queue_size
    <3> QED
      BY <2>1, <2>2, <2>3, <3>1, <3>2, <3>3, <3>4
  <2> QED
    BY <2>4, Zenon DEF Phases
<1>8. \A r \in Queues : r # q => Phases(r)' /\ InStep(r)'
  BY <1>1, <1>2, <1>3, ZenonT(30) DEF Complete, Running, InStep, Phases, Types
<1>9. Running'
  BY <1>2, <1>3, <1>6, <1>7, <1>8 DEF Running, Complete
<1>10. ~Waiting(q) /\ ~Waiting(q)'
  BY <1>1, <1>3, <1>6, <1>4, AdvanceFacts DEF Executed, Completed, Waiting, Complete, Sent
<1>11. Transfer'
  BY <1>3, <1>10, Zenon DEF IInv, Transfer, Complete
<1>12. Asked'
  <2>1. /\ pc' = pc /\ queue' = queue /\ command' = command /\ request' = request
        /\ buffer' = buffer /\ faulty' = faulty /\ disk' = disk
    BY Zenon DEF Complete
  <2>2. Asked
    BY Zenon DEF IInv
  <2> QED
    BY <1>3, <1>10, <2>1, <2>2, Zenon DEF Asked
<1> QED
  BY <1>3, <1>5, <1>9, <1>11, <1>12, Zenon DEF IInv, Complete

(* A step that changes nothing.                                             *)
LEMMA Unmoved ==
  ASSUME IInv, UNCHANGED vars
  PROVE  IInv'
<1> USE DEF vars, driver, power, doorbells, controller
<1>1. Types' = Types
  BY ZenonT(30) DEF Types
<1>2. \A q \in Queues : InStep(q)' = InStep(q) /\ Phases(q)' = Phases(q)
  BY ZenonT(30) DEF InStep, Phases
<1>3. Booting' = Booting
  BY <1>2, ZenonT(30) DEF Booting, InStep
<1>4. /\ Waiting(queue)' = Waiting(queue) /\ Executed(queue)' = Executed(queue)
      /\ Completed(queue)' = Completed(queue)
  BY ZenonT(30) DEF Waiting, Executed, Completed, Sent
<1>5. Running' = Running
  BY <1>2, <1>4, ZenonT(30) DEF Running, InStep, Phases
<1>6. Transfer' = Transfer
  BY <1>4, ZenonT(30) DEF Transfer
<1>7. Asked' = Asked
  BY <1>4, ZenonT(30) DEF Asked
<1> QED
  BY <1>1, <1>3, <1>5, <1>6, <1>7, ZenonT(30) DEF IInv

(* The driver and the controller stay in step through every call.           *)
THEOREM InvariantHolds == Spec => []IInv
<1>1. ASSUME IInv, [Next]_vars
      PROVE  IInv'
  BY <1>1, BootSteps, CallSteps, PollStep, FinishStep, ExecuteStep, CompleteStep, Unmoved, Zenon
     DEF Next, Driver, Controller
<1> QED
  BY <1>1, Initially, PTL DEF Spec

(* Whatever their length, the queues are in step between two calls: the     *)
(* controller is through with the command and its buffer, and the driver    *)
(* waits for the phase that the next completion will have.                  *)
THEOREM NothingInFlight == Spec => []QuietBetweenCalls
<1>1. ASSUME IInv PROVE QuietBetweenCalls
  <2> SUFFICES ASSUME pc = "ready", NEW q \in Queues
               PROVE  /\ sq_head[q] = submission_queue_tail[q] /\ ~executed[q]
                      /\ cq_tail[q] = completion_queue_head[q]
                      /\ completion_queue[q][completion_queue_head[q]]
                           = completion_queue_current_phase[q]
    BY Zenon DEF QuietBetweenCalls
  <2>1. Types /\ InStep(q) /\ Phases(q)
    BY <1>1, Zenon DEF IInv, Running
  <2> QED
    BY <2>1, SlotFacts DEF Types, InStep, Phases
<1> QED
  BY <1>1, InvariantHolds, PTL

(* The driver, the queues and the controller implement a block store, in    *)
(* which every call reads or writes its own block, and only a faulty        *)
(* device's own command fails (nvme_read, nvme_write).                      *)
THEOREM DriverIsBlockStore == Spec => StorageSpec
<1>1. Init => Storage!Init
  BY Zenon DEF Init, Storage!Init
<1>2. ASSUME IInv, Next PROVE Storage!Next \/ UNCHANGED Storage!vars
  <2> USE DEF driver, controller, Storage!vars
  <2>1. CASE \E q \in Queues : Execute(q) \/ Fail(q)
    <3>1. PICK q \in Queues : Execute(q) \/ Fail(q)
      BY <2>1, Zenon
    <3>2. Fetch(q)
      BY <3>1, Zenon DEF Execute, Fail
    <3>3. /\ pc = "poll" /\ q = queue /\ left_commands = 1 /\ Waiting(q)
          /\ Transfer /\ Types /\ Asked /\ submission_queue[q][sq_head[q]] = command
      BY <1>2, <3>2, FetchFacts, Zenon
    <3>4. request' = request /\ result' = result /\ faulty' = faulty
      BY <3>2, Zenon DEF Fetch
    <3>5. CASE disk' = disk
      BY <3>4, <3>5, Zenon
    <3>6. CASE disk' # disk
      <4>1. command.opc = "WRITE" /\ disk' = [disk EXCEPT ![command.block] = buffer]
        BY <3>1, <3>3, <3>6, Zenon DEF Execute, Fail
      <4>2. command.block \in Blocks /\ buffer \in Values /\ queue = "io"
        BY <3>3, <4>1, Zenon DEF Transfer, Types, Queues, AdminCommands
      <4>3. request = [op |-> "write", block |-> command.block, page |-> buffer]
        BY <3>3, <4>1, <4>2, Zenon DEF Asked
      <4>4. /\ request # None /\ request.op = "write"
            /\ request.block = command.block /\ request.page = buffer
        BY <4>2, <4>3, NvmeAssumption, Zenon
      <4> QED
        BY <3>4, <4>1, <4>4, Zenon DEF Storage!Next, Storage!Perform, Storage!Written
    <3> QED
      BY <3>5, <3>6, Zenon
  <2>2. CASE Finish
    <3>1. /\ disk' = disk /\ faulty' = faulty /\ request' = None
          /\ pc = "poll" /\ left_commands = 0
      BY <2>2, Zenon DEF Finish
    <3>2. Transfer /\ Types /\ Asked
      BY <1>2, Zenon DEF IInv
    <3>3. CASE queue = "admin"
      <4>1. command.opc # "READ" /\ request = None
        BY <3>1, <3>2, <3>3, Zenon DEF Transfer, Asked, AdminCommands
      <4> QED
        BY <2>2, <3>1, <4>1, Zenon DEF Finish
    <3>4. CASE queue = "io" /\ command.opc = "READ"
      <4>1. result' = buffer /\ command.block \in Blocks
        BY <2>2, <3>1, <3>2, <3>4, Zenon DEF Finish, Transfer
      <4>2. buffer = disk[command.block] \/ (faulty /\ buffer = "junk")
        BY <3>1, <3>2, <3>4 DEF Transfer
      <4>3. request = [op |-> "read", block |-> command.block]
        BY <3>1, <3>2, <3>4, Zenon DEF Asked
      <4>4. request # None /\ request.op = "read" /\ request.block = command.block
        BY <4>1, <4>3, NvmeAssumption, Zenon
      <4> QED
        BY <3>1, <4>1, <4>2, <4>4, Zenon DEF Storage!Next, Storage!ReturnRead
    <3>5. CASE queue = "io" /\ command.opc = "WRITE"
      <4>1. result' = result /\ command.block \in Blocks
        BY <2>2, <3>1, <3>2, <3>5, Zenon DEF Finish, Transfer
      <4>2. ~(left_commands = 1)
        BY <3>1
      <4>3. /\ request = [op |-> "write", block |-> command.block, page |-> buffer]
            /\ buffer \in Values /\ (faulty \/ disk[command.block] = buffer)
        BY <3>1, <3>2, <3>5, <4>2, Zenon DEF Asked
      <4>4. /\ request # None /\ request.op = "write"
            /\ request.block = command.block /\ request.page = buffer
        BY <4>1, <4>3, NvmeAssumption, Zenon
      <4>5. disk[command.block] = buffer => [disk EXCEPT ![command.block] = buffer] = disk
        BY <3>2, Zenon DEF Types
      <4> QED
        BY <3>1, <4>1, <4>3, <4>4, <4>5, Zenon DEF Storage!Next, Storage!ReturnWrite, Storage!Written
    <3> QED
      BY <3>1, <3>2, <3>3, <3>4, <3>5, Zenon DEF Types, Queues, Transfer, IoCommands
  <2>3. CASE \E b \in Blocks : nvme_read(b) \/ \E v \in Values : nvme_write(b, v)
    <3>1. disk' = disk /\ result' = result /\ faulty' = faulty
      BY <2>3, Zenon DEF nvme_read, nvme_write, Submit
    <3>3. request' \in Storage!Requests
      <4>1. \/ \E b \in Blocks : request' = [op |-> "read", block |-> b]
            \/ \E b \in Blocks, v \in Values : request' = [op |-> "write", block |-> b, page |-> v]
        BY <2>3, Zenon DEF nvme_read, nvme_write
      <4> QED
        BY <4>1 DEF Storage!Requests
    <3>2. request = None
      BY <1>2, <2>3, Zenon DEF nvme_read, nvme_write, Submit, IInv, Asked
    <3> QED
      BY <3>1, <3>2, <3>3, Zenon DEF Storage!Next, Storage!Call
  <2>4. CASE \/ nvme_disable_device \/ nvme_enable_device \/ Enabled \/ StartupCommand \/ Poll
             \/ Reset \/ Start \/ \E q \in Queues : Complete(q)
    BY <2>4, Zenon DEF nvme_disable_device, nvme_enable_device, Enabled, StartupCommand, Poll,
                Submit, Reset, Start, Complete
  <2> QED
    BY <1>2, <2>1, <2>2, <2>3, <2>4, Zenon DEF Next, Driver, Controller
<1>3. UNCHANGED vars => UNCHANGED Storage!vars
  BY Zenon DEF vars, driver, controller, Storage!vars
<1> QED
  BY <1>1, <1>2, <1>3, InvariantHolds, PTL DEF Spec, StorageSpec, Storage!Spec

-----------------------------------------------------------------------------
w == serial_input_buffer_write_index
r == serial_input_buffer_read_index

(* The bytes in the ring, as a sequence.                                    *)
Contents == [i \in 1 .. available_bytes |-> Byte(i)]

Bytes == (Chars \union {NL, CR})

(* Both indices are in the ring, and its cells hold characters.             *)
RingInv == serial_input_buffer \in [Indices -> Bytes] /\ w \in Indices /\ r \in Indices

-----------------------------------------------------------------------------
(* An index is reduced by one subtraction at most.                          *)
LEMMA Wrap ==
  ASSUME NEW a \in 0 .. SERIAL_BUFFER_LENGTH + SERIAL_BUFFER_LENGTH - 1
  PROVE  /\ a % SERIAL_BUFFER_LENGTH =
              IF a < SERIAL_BUFFER_LENGTH THEN a ELSE a - SERIAL_BUFFER_LENGTH
         /\ a % SERIAL_BUFFER_LENGTH \in Indices
<1> USE SerialRingAssumption DEF Indices
<1>1. CASE a < SERIAL_BUFFER_LENGTH  BY <1>1
<1>2. CASE ~(a < SERIAL_BUFFER_LENGTH)
  <2>1. a - SERIAL_BUFFER_LENGTH \in Indices  BY <1>2
  <2>2. a % SERIAL_BUFFER_LENGTH = a - SERIAL_BUFFER_LENGTH  BY <1>2
  <2> QED  BY <1>2, <2>1, <2>2
<1> QED  BY <1>1, <1>2

(* available_bytes is the distance from the read to the write index.        *)
LEMMA Available ==
  ASSUME RingInv
  PROVE  /\ available_bytes \in 0 .. SERIAL_BUFFER_LENGTH - 1
         /\ (r + available_bytes) % SERIAL_BUFFER_LENGTH = w
         /\ \A i \in 1 .. available_bytes : (r + i - 1) % SERIAL_BUFFER_LENGTH \in Indices \ {w}
<1> USE SerialRingAssumption DEF RingInv, Indices, w, r
<1>1. available_bytes \in 0 .. SERIAL_BUFFER_LENGTH - 1  BY DEF available_bytes
<1>2. (r + available_bytes) % SERIAL_BUFFER_LENGTH = w
  <2>1. r + available_bytes = IF w < r THEN w + SERIAL_BUFFER_LENGTH ELSE w  BY DEF available_bytes
  <2>2. r + available_bytes \in 0 .. SERIAL_BUFFER_LENGTH + SERIAL_BUFFER_LENGTH - 1  BY <2>1
  <2> DEFINE a == r + available_bytes
  <2>3. a % SERIAL_BUFFER_LENGTH = IF a < SERIAL_BUFFER_LENGTH THEN a ELSE a - SERIAL_BUFFER_LENGTH
    <3>1. a \in 0 .. SERIAL_BUFFER_LENGTH + SERIAL_BUFFER_LENGTH - 1  BY <2>2
    <3> HIDE DEF a
    <3> QED  BY <3>1, Wrap, Zenon
  <2> QED  BY <2>1, <2>3
<1>3. ASSUME NEW i \in 1 .. available_bytes PROVE (r + i - 1) % SERIAL_BUFFER_LENGTH \in Indices \ {w}
  <2>1. r + i - 1 \in 0 .. SERIAL_BUFFER_LENGTH + SERIAL_BUFFER_LENGTH - 1  BY <1>1
  <2>2. (r + i - 1) % SERIAL_BUFFER_LENGTH = 
          IF r + i - 1 < SERIAL_BUFFER_LENGTH THEN r + i - 1 ELSE r + i - 1 - SERIAL_BUFFER_LENGTH
    <3> DEFINE a == r + i - 1
    <3>1. a \in 0 .. SERIAL_BUFFER_LENGTH + SERIAL_BUFFER_LENGTH - 1  BY <2>1
    <3>2. a % SERIAL_BUFFER_LENGTH = IF a < SERIAL_BUFFER_LENGTH THEN a ELSE a - SERIAL_BUFFER_LENGTH
      <4> HIDE DEF a
      <4> QED  BY <3>1, Wrap, Zenon
    <3> QED  BY <3>2
  <2> QED  BY <2>2, <1>1 DEF available_bytes
<1> QED  BY <1>1, <1>2, <1>3

(* The contents are a sequence of characters.                               *)
LEMMA ContentsType ==
  ASSUME RingInv
  PROVE  /\ Contents \in Seq(Bytes) /\ Len(Contents) = available_bytes
         /\ \A i \in 1 .. available_bytes : Contents[i] = Byte(i)
<1>1. available_bytes \in Nat  BY Available, SerialRingAssumption
<1>2. \A i \in 1 .. available_bytes : Byte(i) \in Bytes
  BY Available, Zenon DEF RingInv, Byte, r
<1>3. Contents \in [1 .. available_bytes -> Bytes]  BY <1>2 DEF Contents
<1>4. Contents \in Seq(Bytes)  BY <1>1, <1>3
<1>5. Len(Contents) = available_bytes  BY <1>1, <1>4 DEF Contents
<1> QED  BY <1>4, <1>5, Zenon DEF Contents

-----------------------------------------------------------------------------
(* The index after w, and the distance to it.                               *)
LEMMA Follows ==
  ASSUME RingInv
  PROVE  /\ Following(w) = IF w + 1 < SERIAL_BUFFER_LENGTH THEN w + 1 ELSE 0
         /\ Following(w) \in Indices
         /\ available_bytes < SERIAL_BUFFER_LENGTH - 1 <=> Following(w) # r
<1> USE SerialRingAssumption
<1> DEFINE a == w + 1
<1>1. a \in 0 .. SERIAL_BUFFER_LENGTH + SERIAL_BUFFER_LENGTH - 1  BY DEF RingInv, Indices
<1>2. /\ a % SERIAL_BUFFER_LENGTH = IF a < SERIAL_BUFFER_LENGTH THEN a ELSE a - SERIAL_BUFFER_LENGTH
      /\ a % SERIAL_BUFFER_LENGTH \in Indices
  <2> HIDE DEF a
  <2> QED  BY <1>1, Wrap
<1>3. Following(w) = a % SERIAL_BUFFER_LENGTH  BY DEF Following
<1>4. Following(w) = IF w + 1 < SERIAL_BUFFER_LENGTH THEN w + 1 ELSE 0
  BY <1>2, <1>3 DEF RingInv, Indices
<1>5. Following(w) \in Indices  BY <1>2, <1>3
<1>6. available_bytes < SERIAL_BUFFER_LENGTH - 1 <=> Following(w) # r
  BY <1>4 DEF RingInv, Indices, w, r, available_bytes
<1> QED  BY <1>4, <1>5, <1>6

(* A character that is stored extends the contents by one, and the ring is  *)
(* full exactly when SERIAL_BUFFER_LENGTH - 1 are in it.                    *)
LEMMA ReceiveStep ==
  ASSUME RingInv, NEW c \in Chars, serial_received_char(c)
  PROVE  /\ RingInv'
         /\ IF available_bytes < SERIAL_BUFFER_LENGTH - 1
            THEN Contents' = Append(Contents, NewLine(c)) /\ echo' = <<NewLine(c)>>
            ELSE UNCHANGED <<Contents, echo>>
         /\ UNCHANGED out
<1> USE SerialRingAssumption
<1>2. CASE Following(w) = r
  BY <1>2, Follows, Zenon DEF serial_received_char, RingInv, w, r, Contents, Byte, available_bytes
<1>3. CASE Following(w) # r
  <2>1. /\ serial_input_buffer' = [serial_input_buffer EXCEPT ![w] = NewLine(c)]
        /\ w' = Following(w) /\ r' = r /\ echo' = <<NewLine(c)>> /\ out' = out
    BY <1>3, Zenon DEF serial_received_char, w, r
  <2>2. NewLine(c) \in Bytes  BY DEF NewLine, Bytes
  <2>3. RingInv'  BY <2>1, <2>2, Follows DEF RingInv
  <2> DEFINE n == available_bytes
  <2>4. n \in Nat  BY Available
  <2>5. available_bytes' = n + 1
    <3>1. available_bytes = IF w < r THEN w + (SERIAL_BUFFER_LENGTH - r) ELSE w - r
      BY Zenon DEF available_bytes, w, r
    <3>2. available_bytes' = IF Following(w) < r
                             THEN Following(w) + (SERIAL_BUFFER_LENGTH - r) ELSE Following(w) - r
      BY <2>1, Zenon DEF available_bytes, w, r
    <3> QED  BY <3>1, <3>2, <1>3, Follows DEF RingInv, Indices
  <2>6. ASSUME NEW i \in 1 .. n PROVE Byte(i)' = Byte(i)
    <3>1. (r + i - 1) % SERIAL_BUFFER_LENGTH \in Indices \ {w}  BY Available
    <3> QED  BY <2>1, <3>1 DEF RingInv, Byte, r, w
  <2>7. ASSUME NEW i \in Nat, i = n + 1 PROVE Byte(i)' = NewLine(c)
    <3>1. r + i - 1 = r + n  BY <2>4, <2>7 DEF RingInv, Indices
    <3>2. Byte(i)' = serial_input_buffer'[(r + n) % SERIAL_BUFFER_LENGTH]
      BY <2>1, <3>1, Zenon DEF Byte, r
    <3>3. serial_input_buffer'[w] = NewLine(c)  BY <2>1 DEF RingInv
    <3> QED  BY <3>2, <3>3, Available
  <2>8. Contents' = Append(Contents, NewLine(c))
    <3> DEFINE t == Append(Contents, NewLine(c))
    <3>1. /\ Contents \in Seq(Bytes) /\ Len(Contents) = n
          /\ \A i \in 1 .. n : Contents[i] = Byte(i)
      BY ContentsType, Zenon
    <3>2. /\ t \in Seq(Bytes) /\ Len(t) = n + 1 /\ t[n + 1] = NewLine(c)
          /\ \A i \in 1 .. n : t[i] = Contents[i]
      BY <2>2, <3>1, AppendProperties
    <3>3. t = [i \in 1 .. n + 1 |-> t[i]]  BY <2>4, <3>2, LenProperties, Zenon
    <3>4. Contents' = [i \in 1 .. n + 1 |-> Byte(i)']  BY <2>5 DEF Contents
    <3>5. ASSUME NEW i \in 1 .. n + 1 PROVE Byte(i)' = t[i]
      <4>1. CASE i = n + 1  BY <2>4, <2>7, <3>2, <4>1
      <4>2. CASE i # n + 1
        <5>1. i \in 1 .. n  BY <2>4, <4>2
        <5> QED  BY <2>6, <3>1, <3>2, <5>1
      <4> QED  BY <4>1, <4>2, Zenon
    <3> HIDE DEF t
    <3>6. Contents' = t  BY <3>3, <3>4, <3>5
    <3> QED  BY <3>6 DEF t
  <2> QED  BY <1>3, <2>1, <2>3, <2>8, Follows
<1> QED  BY <1>2, <1>3

(* Reducing twice is reducing once.                                         *)
LEMMA WrapTwice ==
  ASSUME NEW a \in 0 .. SERIAL_BUFFER_LENGTH + SERIAL_BUFFER_LENGTH - 1, NEW k \in Nat,
         a + k < SERIAL_BUFFER_LENGTH + SERIAL_BUFFER_LENGTH
  PROVE  ((a % SERIAL_BUFFER_LENGTH) + k) % SERIAL_BUFFER_LENGTH = (a + k) % SERIAL_BUFFER_LENGTH
<1> USE SerialRingAssumption DEF Indices
<1>1. /\ a % SERIAL_BUFFER_LENGTH =
           IF a < SERIAL_BUFFER_LENGTH THEN a ELSE a - SERIAL_BUFFER_LENGTH
      /\ a % SERIAL_BUFFER_LENGTH \in Indices
  BY Wrap, Zenon
<1>2. CASE a < SERIAL_BUFFER_LENGTH
  BY <1>1, <1>2, Zenon
<1>3. CASE ~(a < SERIAL_BUFFER_LENGTH)
  <2> DEFINE b == a + k
             d == a - SERIAL_BUFFER_LENGTH + k
  <2>1. b \in 0 .. SERIAL_BUFFER_LENGTH + SERIAL_BUFFER_LENGTH - 1 /\ ~(b < SERIAL_BUFFER_LENGTH)
    BY <1>3
  <2>2. d \in 0 .. SERIAL_BUFFER_LENGTH + SERIAL_BUFFER_LENGTH - 1 /\ d < SERIAL_BUFFER_LENGTH
    BY <1>3
  <2>3. d = b - SERIAL_BUFFER_LENGTH  OBVIOUS
  <2>4. (a % SERIAL_BUFFER_LENGTH) + k = d  BY <1>1, <1>3
  <2>5. b % SERIAL_BUFFER_LENGTH = b - SERIAL_BUFFER_LENGTH
    <3> HIDE DEF b
    <3> QED  BY <2>1, Wrap
  <2>6. d % SERIAL_BUFFER_LENGTH = d
    <3> HIDE DEF d
    <3> QED  BY <2>2, Wrap
  <2>7. ((a % SERIAL_BUFFER_LENGTH) + k) % SERIAL_BUFFER_LENGTH = d  BY <2>4, <2>6
  <2> QED  BY <2>3, <2>5, <2>7
<1> QED  BY <1>2, <1>3

(* A read takes the oldest bytes and leaves the others in their order.      *)
LEMMA ReadStep ==
  ASSUME RingInv, NEW len \in Lengths, internal_serial_read(len),
         NEW n, n = IF len > available_bytes THEN available_bytes ELSE len
  PROVE  /\ RingInv'
         /\ out' = SubSeq(Contents, 1, n)
         /\ Contents' = SubSeq(Contents, n + 1, available_bytes)
         /\ UNCHANGED echo
<1> USE SerialRingAssumption
<1> DEFINE m == available_bytes
<1>1. /\ serial_input_buffer' = serial_input_buffer /\ w' = w /\ echo' = echo
      /\ r' = (r + n) % SERIAL_BUFFER_LENGTH
      /\ out' = [i \in 1 .. n |-> Byte(i)]
  BY Zenon DEF internal_serial_read, w, r
<1>2. len \in Nat /\ m \in 0 .. SERIAL_BUFFER_LENGTH - 1 /\ n \in 0 .. m
  BY Available
<1>3. r \in 0 .. SERIAL_BUFFER_LENGTH - 1 /\ w \in 0 .. SERIAL_BUFFER_LENGTH - 1
  BY Zenon DEF RingInv, Indices
<1>4. /\ r' = IF r + n < SERIAL_BUFFER_LENGTH THEN r + n ELSE r + n - SERIAL_BUFFER_LENGTH
      /\ r' \in Indices
  <2> DEFINE a == r + n
  <2>1. a \in 0 .. SERIAL_BUFFER_LENGTH + SERIAL_BUFFER_LENGTH - 1  BY <1>2, <1>3
  <2>2. /\ a % SERIAL_BUFFER_LENGTH =
             IF a < SERIAL_BUFFER_LENGTH THEN a ELSE a - SERIAL_BUFFER_LENGTH
        /\ a % SERIAL_BUFFER_LENGTH \in Indices
    <3> HIDE DEF a
    <3> QED  BY <2>1, Wrap
  <2>3. r' = a % SERIAL_BUFFER_LENGTH  BY <1>1
  <2>4. /\ r' = IF a < SERIAL_BUFFER_LENGTH THEN a ELSE a - SERIAL_BUFFER_LENGTH
        /\ r' \in Indices
    <3> HIDE DEF a
    <3> QED  BY <2>2, <2>3
  <2> QED  BY <1>2, <1>3, <2>4 DEF a
<1>5. RingInv'  BY <1>1, <1>4 DEF RingInv
<1>6. available_bytes' = m - n
  <2>1. m = IF w < r THEN w + (SERIAL_BUFFER_LENGTH - r) ELSE w - r
    BY Zenon DEF available_bytes, w, r
  <2>2. available_bytes' = IF w < r' THEN w + (SERIAL_BUFFER_LENGTH - r') ELSE w - r'
    BY <1>1, Zenon DEF available_bytes, w, r
  <2> HIDE DEF m
  <2> QED  BY <2>1, <2>2, <1>2, <1>3, <1>4
<1>7. /\ Contents \in Seq(Bytes) /\ Len(Contents) = m
      /\ \A i \in 1 .. m : Contents[i] = Byte(i) /\ Contents[i] \in Bytes
  BY ContentsType, ElementOfSeq, Zenon
<1> HIDE DEF m
<1>8. out' = SubSeq(Contents, 1, n)
  <2> DEFINE t == SubSeq(Contents, 1, n)
  <2>1. \A i \in 1 .. n : Contents[i] \in Bytes  BY <1>2, <1>7
  <2>2. t \in Seq(Bytes) /\ Len(t) = n /\ \A i \in 1 .. n : t[i] = Contents[i]
    BY <1>2, <2>1, SubSeqProperties
  <2>3. t = [i \in 1 .. n |-> t[i]]  BY <2>2, LenProperties
  <2>4. \A i \in 1 .. n : t[i] = Byte(i)  BY <1>2, <1>7, <2>2
  <2> HIDE DEF t
  <2>5. out' = t  BY <1>1, <2>3, <2>4
  <2> QED  BY <2>5 DEF t
<1>9. Contents' = SubSeq(Contents, n + 1, m)
  <2> DEFINE t == SubSeq(Contents, n + 1, m)
  <2>1. \A i \in n + 1 .. m : Contents[i] \in Bytes  BY <1>2, <1>7
  <2>2. t \in Seq(Bytes) /\ Len(t) = m - n /\ \A i \in 1 .. m - n : t[i] = Contents[n + i]
    BY <1>2, <2>1, SubSeqProperties
  <2>3. t = [i \in 1 .. m - n |-> t[i]]  BY <2>2, LenProperties, Zenon
  <2>4. ASSUME NEW i \in 1 .. m - n PROVE Byte(i)' = t[i]
    <3> DEFINE a == r + n
               k == i - 1
    <3>1. a \in 0 .. SERIAL_BUFFER_LENGTH + SERIAL_BUFFER_LENGTH - 1 /\ k \in Nat
          /\ a + k < SERIAL_BUFFER_LENGTH + SERIAL_BUFFER_LENGTH
      BY <1>2, <1>3
    <3>2. ((a % SERIAL_BUFFER_LENGTH) + k) % SERIAL_BUFFER_LENGTH = (a + k) % SERIAL_BUFFER_LENGTH
      <4> HIDE DEF a, k
      <4> QED  BY <3>1, WrapTwice, Zenon
    <3>3. Byte(i)' = serial_input_buffer[(r' + i - 1) % SERIAL_BUFFER_LENGTH]
      BY <1>1, Zenon DEF Byte, r
    <3>4. r' + i - 1 = (a % SERIAL_BUFFER_LENGTH) + k  BY <1>1, <1>4 DEF Indices
    <3>5. Byte(n + i) = serial_input_buffer[(a + k) % SERIAL_BUFFER_LENGTH]
      <4>1. r + (n + i) - 1 = a + k  BY <1>2, <1>3
      <4> QED  BY <4>1 DEF Byte, r
    <3>6. n + i \in 1 .. m  BY <1>2
    <3> QED  BY <3>2, <3>3, <3>4, <3>5, <3>6, <1>7, <2>2
  <2>5. Contents' = [i \in 1 .. m - n |-> Byte(i)']  BY <1>6 DEF Contents
  <2> HIDE DEF t
  <2>6. Contents' = t  BY <2>3, <2>4, <2>5
  <2> QED  BY <2>6 DEF t
<1> QED  BY <1>1, <1>5, <1>8, <1>9 DEF m

-----------------------------------------------------------------------------
(* The indices stay in the ring.                                            *)
LEMMA RingInvariant == RingSpec => []RingInv
<1> USE SerialRingAssumption
<1>1. RingInit => RingInv  BY DEF RingInit, RingInv, Indices, Bytes, w, r
<1>2. RingInv /\ [RingNext]_ringVars => RingInv'
  <2> SUFFICES ASSUME RingInv, [RingNext]_ringVars PROVE RingInv'
    BY Zenon
  <2>1. CASE \E c \in Chars : serial_received_char(c)  BY <2>1, ReceiveStep
  <2>2. CASE \E len \in Lengths : internal_serial_read(len)  BY <2>2, ReadStep
  <2>3. CASE UNCHANGED ringVars  BY <2>3 DEF ringVars, RingInv, w, r
  <2> QED  BY <2>1, <2>2, <2>3 DEF RingNext
<1> QED  BY <1>1, <1>2, PTL DEF RingSpec

(* The ring buffer implements the queue of InputQueue, of                   *)
(* SERIAL_BUFFER_LENGTH - 1 characters, for every length of the ring.       *)
THEOREM RingIsQueue == RingSpec => QueueSpec
<1>1. RingInit => Queue!Init
  <2> SUFFICES ASSUME RingInit PROVE Queue!Init
    BY Zenon
  <2>1. RingInv  BY SerialRingAssumption DEF RingInit, RingInv, Indices, Bytes, w, r
  <2>2. available_bytes = 0  BY DEF RingInit, available_bytes
  <2>3. Contents = <<>>  BY <2>1, <2>2, ContentsType, EmptySeq
  <2> QED  BY <2>3 DEF RingInit, Queue!Init, Contents
<1>2. RingInv /\ [RingNext]_ringVars => [Queue!Next]_<<Contents, echo, out>>
  <2> SUFFICES ASSUME RingInv, [RingNext]_ringVars PROVE [Queue!Next]_<<Contents, echo, out>>
    BY Zenon
  <2>0. Len(Contents) = available_bytes  BY ContentsType
  <2>1. ASSUME NEW c \in Chars, serial_received_char(c) PROVE Queue!Receive(c)
    BY <2>0, <2>1, ReceiveStep, Zenon DEF Queue!Receive, Contents
  <2>2. ASSUME NEW len \in Lengths, internal_serial_read(len) PROVE Queue!Read(len)
    BY <2>0, <2>2, ReadStep, Zenon DEF Queue!Read, Contents
  <2>3. CASE UNCHANGED ringVars
    BY <2>3, Zenon DEF ringVars, Contents, Byte, available_bytes
  <2> QED  BY <2>1, <2>2, <2>3 DEF RingNext, Queue!Next
<1> QED  BY <1>1, <1>2, RingInvariant, PTL DEF RingSpec, QueueSpec, Queue!Spec, Contents

-----------------------------------------------------------------------------
Names == {"seconds", "minutes", "hours", "year", "dayofmonth", "month"}
Prefix(k) == {name \in Names : Order(name) <= k}

(* The registers as they are now.                                           *)
Shown == [name \in Names |-> read_rtc_register(name)]
WholeSecond == \A name \in DOMAIN registers : registers[name] = Shown[name]

(* With k registers read in this round.  An update that began in the round  *)
(* is still as far away as the reads since leave it, so the clock did not   *)
(* tick; only behind the last read of the first round it may.  In the       *)
(* others the registers of the round before are those of now, or the clock  *)
(* ticked just before this round.                                           *)
Round(k) ==
  /\ registers = [name \in Prefix(k) |-> registers[name]]
  /\ last = <<>> => /\ updating => lead + k + 1 >= UpdateLead
                    /\ WholeSecond \/ (k = 6 /\ sinceTick = 0)
  /\ last # <<>> => /\ updating => lead + k >= UpdateLead
                    /\ WholeSecond
                    /\ last = Shown \/ sinceTick <= k + 1

RtcInv ==
  /\ lead \in Nat /\ sinceTick \in Nat /\ updating \in BOOLEAN
  /\ stage \in {"wait", "statusB", "read", "done"}
  /\ updating => sinceTick > UpdateLead
  /\ stage \in {"wait", "statusB"} => registers = <<>>
  /\ stage = "wait" => last = <<>> \/ last = Shown \/ sinceTick = 0
  /\ stage = "statusB" => last = <<>> /\ (updating => lead >= UpdateLead)
  /\ stage = "read" => \E k \in 0 .. 6 : Round(k)
  /\ stage = "done" => DOMAIN registers = Names /\ WholeSecond /\ sinceTick <= UpdateLead

-----------------------------------------------------------------------------
(* The registers are read in an order without ties.                         *)
LEMMA Orders ==
  /\ \A name \in Names : Order(name) \in 1 .. 6
  /\ \A j \in 1 .. 6 : \E name \in Names : Order(name) = j
  /\ \A m, n \in Names : Order(m) = Order(n) => m = n
<1>1. /\ Order("seconds") = 1 /\ Order("minutes") = 2 /\ Order("hours") = 3
      /\ Order("year") = 4 /\ Order("dayofmonth") = 5 /\ Order("month") = 6
  BY Zenon DEF Order
<1> QED
  BY <1>1 DEF Names

(* The next register completes the next prefix.                             *)
LEMMA NextName ==
  ASSUME NEW k \in 0 .. 6, DOMAIN registers = Prefix(k), Unread # {}
  PROVE  LET name == CHOOSE n \in Unread : \A o \in Unread : Order(n) <= Order(o)
         IN k < 6 /\ name \in Names /\ DOMAIN registers \union {name} = Prefix(k + 1)
<1> DEFINE name == CHOOSE n \in Unread : \A o \in Unread : Order(n) <= Order(o)
<1>1. Unread = {n \in Names : Order(n) > k}
  BY Orders DEF Unread, Names, Prefix
<1>2. k < 6
  BY <1>1, Orders
<1>3. PICK m \in Names : Order(m) = k + 1
  BY <1>2, Orders
<1>4. m \in Unread /\ \A o \in Unread : Order(m) <= Order(o)
  BY <1>1, <1>3, Orders
<1>5. name \in Unread /\ \A o \in Unread : Order(name) <= Order(o)
  BY <1>4, ZenonT(30)
<1> HIDE DEF name
<1>6. name \in Names /\ Order(name) = k + 1
  BY <1>1, <1>3, <1>4, <1>5, Orders
<1>7. \A n \in Names : Order(n) <= k + 1 <=> Order(n) <= k \/ n = name
  BY <1>6, Orders
<1>8. Prefix(k) \union {name} = Prefix(k + 1)
  BY <1>6, <1>7, Zenon DEF Prefix
<1> QED
  BY <1>2, <1>6, <1>8, Zenon DEF name

(* A round is complete with the sixth register.                             *)
LEMMA AllRead ==
  ASSUME NEW k \in 0 .. 6, DOMAIN registers = Prefix(k), Unread = {}
  PROVE  k = 6 /\ DOMAIN registers = Names
<1>1. \A n \in Names : Order(n) <= k
  BY Zenon DEF Unread, Names, Prefix
<1>2. k = 6
  BY <1>1, Orders
<1> QED
  BY <1>1, <1>2, Zenon DEF Prefix

(* No register read, as a function.                                         *)
LEMMA NoneRead == <<>> = [n \in {} |-> <<>>[n]]
OBVIOUS

(* read_rtc_time begins by waiting, with nothing read.                      *)
LEMMA RtcStarts == RtcInit => RtcInv
<1> SUFFICES ASSUME RtcInit PROVE RtcInv
  BY Zenon
<1>1. /\ updating = FALSE /\ lead = 0 /\ sinceTick = UpdateLead + 1
      /\ stage = "wait" /\ registers = <<>> /\ last = <<>>
  BY ZenonT(30) DEF RtcInit
<1>2. lead \in Nat /\ sinceTick \in Nat
  BY <1>1, RtcAssumption
<1> QED
  BY <1>1, <1>2, ZenonT(30) DEF RtcInv

(* The registers change only when the clock ticks.                          *)
LEMMA SameShown ==
  ASSUME clock' = clock, is_24hours' = is_24hours, is_binary' = is_binary
  PROVE  Shown' = Shown
BY ZenonT(30) DEF Shown, read_rtc_register, Encoded

(* The bit is set a full lead ahead of the tick.                            *)
LEMMA UpdateStartsKeeps == ASSUME RtcInv, UpdateStarts PROVE RtcInv'
<1>1. /\ ~updating /\ sinceTick > UpdateLead /\ updating' = TRUE /\ lead' = UpdateLead
      /\ stage # "done"
      /\ UNCHANGED <<clock, is_24hours, is_binary, sinceTick, stage, registers, last>>
  BY ZenonT(30) DEF UpdateStarts
<1>2. Shown' = Shown /\ (WholeSecond' <=> WholeSecond)
  BY <1>1, SameShown, ZenonT(30) DEF WholeSecond
<1>3. UpdateLead \in Nat /\ UpdateLead <= UpdateLead
  BY RtcAssumption
<1>4. ASSUME NEW k \in 0 .. 6, Round(k) PROVE Round(k)'
  <2>1. UpdateLead + k + 1 >= UpdateLead /\ UpdateLead + k >= UpdateLead
    BY <1>3
  <2> QED
    BY <1>1, <1>2, <1>4, <2>1, ZenonT(30) DEF Round
<1>5. stage' = "read" => \E k \in 0 .. 6 : Round(k)'
  BY <1>1, <1>4, ZenonT(30) DEF RtcInv
<1>6. UpdateLead >= UpdateLead
  BY <1>3, Zenon
<1> QED
  BY <1>1, <1>2, <1>3, <1>5, <1>6, ZenonT(30) DEF RtcInv

(* The clock ticks while the kernel waits, or behind the first round.       *)
LEMMA TickKeeps == ASSUME RtcInv, Tick PROVE RtcInv'
<1>1. /\ updating /\ lead = 0 /\ stage # "done" /\ updating' = FALSE /\ sinceTick' = 0
      /\ UNCHANGED <<lead, stage, registers, last>>
  BY ZenonT(30) DEF Tick
<1>2. UpdateLead \in Nat /\ UpdateLead >= 7
  BY RtcAssumption, Zenon
<1>3. stage # "statusB"
  BY <1>1, <1>2 DEF RtcInv
<1>4. ASSUME NEW k \in 0 .. 6, Round(k) PROVE Round(k)'
  <2>1. last = <<>> /\ k = 6
    BY <1>1, <1>2, <1>4 DEF Round
  <2> QED
    BY <1>1, <1>4, <2>1, ZenonT(30) DEF Round
<1>5. stage' = "read" => \E k \in 0 .. 6 : Round(k)'
  BY <1>1, <1>4, ZenonT(30) DEF RtcInv
<1>6. 0 \in Nat
  BY Zenon
<1> QED
  BY <1>1, <1>3, <1>5, <1>6, ZenonT(30) DEF RtcInv

(* One read brings the tick one read nearer.                                *)
LEMMA Passed ==
  ASSUME lead \in Nat, sinceTick \in Nat, TimePasses, updating => sinceTick > UpdateLead
  PROVE  /\ lead' \in Nat /\ lead' + 1 >= lead
         /\ sinceTick' \in Nat /\ sinceTick' <= sinceTick + 1
         /\ updating => sinceTick' > UpdateLead
         /\ sinceTick > UpdateLead => sinceTick' = sinceTick
BY RtcAssumption DEF TimePasses

(* The wait ends when no update is in progress.                             *)
LEMMA WaitKeeps == ASSUME RtcInv, is_rtc_updating PROVE RtcInv'
<1>1. /\ stage = "wait" /\ TimePasses
      /\ stage' = IF updating THEN "wait" ELSE IF last = <<>> THEN "statusB" ELSE "read"
      /\ UNCHANGED <<clock, updating, is_24hours, is_binary, registers, last>>
  BY ZenonT(30) DEF is_rtc_updating, clockVars
<1>2. /\ lead \in Nat /\ sinceTick \in Nat /\ updating \in BOOLEAN
      /\ updating => sinceTick > UpdateLead
      /\ registers = <<>> /\ (last = <<>> \/ last = Shown \/ sinceTick = 0)
  BY <1>1, ZenonT(30) DEF RtcInv
<1>3. /\ lead' \in Nat /\ sinceTick' \in Nat /\ sinceTick' <= sinceTick + 1
      /\ updating => sinceTick' > UpdateLead
      /\ sinceTick > UpdateLead => sinceTick' = sinceTick
  BY <1>1, <1>2, Passed, ZenonT(30)
<1>4. Shown' = Shown
  BY <1>1, SameShown, Zenon
<1>5. CASE updating
  <2>0. updating = TRUE
    BY <1>2, <1>5, Zenon
  <2>1. stage' = "wait"
    BY <1>1, <2>0, Zenon
  <2>2. last = <<>> \/ last = Shown
    BY <1>2, <1>5, RtcAssumption
  <2> QED
    BY <1>1, <1>2, <1>3, <1>4, <1>5, <2>1, <2>2, ZenonT(30) DEF RtcInv
<1>6. CASE ~updating /\ last = <<>>
  <2>1. stage' = "statusB"
    BY <1>1, <1>6, ZenonT(30)
  <2> QED
    BY <1>1, <1>2, <1>3, <1>6, <2>1, ZenonT(30) DEF RtcInv
<1>7. CASE ~updating /\ last # <<>>
  <2>1. stage' = "read"
    BY <1>1, <1>7, Zenon
  <2>2. DOMAIN registers' = {}
    BY <1>1, <1>2
  <2>3. Prefix(0)' = {}
    BY Orders DEF Prefix
  <2>4. last' = Shown' \/ sinceTick' <= 0 + 1
    BY <1>1, <1>2, <1>3, <1>4, <1>7, Zenon
  <2>7. registers' = [n \in Prefix(0)' |-> registers'[n]]
    BY <1>1, <1>2, <2>3, NoneRead, Zenon
  <2>5. Round(0)'
    BY <1>1, <1>7, <2>2, <2>7, <2>4, ZenonT(30) DEF Round, WholeSecond
  <2>6. \E k \in 0 .. 6 : Round(k)'
    BY <2>5
  <2> QED
    BY <1>1, <1>2, <1>3, <1>7, <2>1, <2>6, ZenonT(30) DEF RtcInv
<1> QED
  BY <1>5, <1>6, <1>7, Zenon

(* Status register B takes one read of the first round.                     *)
LEMMA StatusKeeps == ASSUME RtcInv, ReadStatusB PROVE RtcInv'
<1>1. /\ stage = "statusB" /\ TimePasses /\ stage' = "read"
      /\ UNCHANGED <<updating, registers, last>>
  BY ZenonT(30) DEF ReadStatusB, clockVars
<1>2. /\ lead \in Nat /\ sinceTick \in Nat /\ updating \in BOOLEAN
      /\ updating => sinceTick > UpdateLead
      /\ registers = <<>> /\ last = <<>> /\ (updating => lead >= UpdateLead)
  BY <1>1, ZenonT(30) DEF RtcInv
<1>3. /\ lead' \in Nat /\ lead' + 1 >= lead /\ sinceTick' \in Nat
      /\ updating => sinceTick' > UpdateLead
  BY <1>1, <1>2, Passed, ZenonT(30)
<1>4. updating => lead' + 0 + 1 >= UpdateLead
  <2>1. ASSUME lead >= UpdateLead PROVE lead' + 0 + 1 >= UpdateLead
    <3>1. PICK l \in Nat : l = lead'
      BY <1>3, Zenon
    <3>2. l + 1 >= lead
      BY <1>3, <3>1, Zenon
    <3>3. l + 0 + 1 >= UpdateLead
      BY <1>2, <2>1, <3>2, RtcAssumption
    <3> QED
      BY <3>1, <3>3, Zenon
  <2> QED
    BY <1>2, <2>1, ZenonT(30)
<1>5. DOMAIN registers' = {} /\ Prefix(0)' = {}
  BY <1>1, <1>2, Orders DEF Prefix
<1>8. registers' = [n \in Prefix(0)' |-> registers'[n]]
  BY <1>1, <1>2, <1>5, NoneRead, Zenon
<1>6. Round(0)'
  BY <1>1, <1>2, <1>4, <1>5, <1>8, ZenonT(30) DEF Round, WholeSecond
<1>7. \E k \in 0 .. 6 : Round(k)'
  BY <1>6
<1> QED
  BY <1>1, <1>2, <1>3, <1>7, ZenonT(30) DEF RtcInv

(* A register is read.                                                      *)
LEMMA ReadNextKeeps == ASSUME RtcInv, ReadNext PROVE RtcInv'
<1> DEFINE name == CHOOSE n \in Unread : \A o \in Unread : Order(n) <= Order(o)
<1>1. /\ stage = "read" /\ Unread # {} /\ TimePasses
      /\ registers' = [n \in DOMAIN registers \union {name} |->
                         IF n = name THEN read_rtc_register(name) ELSE registers[n]]
      /\ UNCHANGED <<clock, updating, is_24hours, is_binary, stage, last>>
  BY ZenonT(30) DEF ReadNext, clockVars
<1>2. /\ lead \in Nat /\ sinceTick \in Nat /\ updating \in BOOLEAN
      /\ updating => sinceTick > UpdateLead
  BY <1>1, ZenonT(30) DEF RtcInv
<1>3. PICK k \in 0 .. 6 : Round(k)
  BY <1>1, ZenonT(30) DEF RtcInv
<1>4. /\ lead' \in Nat /\ lead' + 1 >= lead /\ sinceTick' \in Nat /\ sinceTick' <= sinceTick + 1
      /\ updating => sinceTick' > UpdateLead
  BY <1>1, <1>2, Passed, ZenonT(30)
<1>5. Shown' = Shown
  BY <1>1, SameShown, Zenon
<1>6. DOMAIN registers = Prefix(k)
  BY <1>3, Zenon DEF Round
<1>7. k < 6 /\ name \in Names /\ DOMAIN registers \union {name} = Prefix(k + 1)
  BY <1>1, <1>6, NextName, Zenon
<1> HIDE DEF name
<1>8. registers' = [n \in Prefix(k + 1) |-> registers'[n]]
  BY <1>1, <1>7, Zenon
<1>9. WholeSecond => WholeSecond'
  <2>1. Shown[name] = read_rtc_register(name)
    BY <1>7, Zenon DEF Shown
  <2>2. \A n \in DOMAIN registers' :
          \/ n = name /\ registers'[n] = read_rtc_register(name)
          \/ n \in DOMAIN registers /\ registers'[n] = registers[n]
    BY <1>1, Zenon
  <2> QED
    BY <1>5, <2>1, <2>2, ZenonT(30) DEF WholeSecond
<1>10. k # 6 /\ k + 1 \in 0 .. 6
  BY <1>7
<1>11. /\ lead + k + 1 >= UpdateLead => lead' + (k + 1) + 1 >= UpdateLead
       /\ lead + k >= UpdateLead => lead' + (k + 1) >= UpdateLead
       /\ sinceTick <= k + 1 => sinceTick' <= (k + 1) + 1
  <2>1. PICK l \in Nat, t \in Nat : l = lead' /\ t = sinceTick'
    BY <1>4, Zenon
  <2>2. l + 1 >= lead /\ t <= sinceTick + 1
    BY <1>4, <2>1, Zenon
  <2>3. /\ lead + k + 1 >= UpdateLead => l + (k + 1) + 1 >= UpdateLead
        /\ lead + k >= UpdateLead => l + (k + 1) >= UpdateLead
        /\ sinceTick <= k + 1 => t <= (k + 1) + 1
    BY <1>2, <2>2, RtcAssumption
  <2> QED
    BY <2>1, <2>3, Zenon
<1>12. Round(k + 1)'
  BY <1>1, <1>3, <1>5, <1>8, <1>9, <1>10, <1>11, ZenonT(30) DEF Round
<1>13. \E j \in 0 .. 6 : Round(j)'
  BY <1>10, <1>12, ZenonT(30)
<1> QED
  BY <1>1, <1>2, <1>4, <1>13, ZenonT(30) DEF RtcInv

(* A complete round is compared with the one before.                        *)
LEMMA RoundEndsKeeps == ASSUME RtcInv, RoundEnds PROVE RtcInv'
<1>1. /\ stage = "read" /\ Unread = {}
      /\ IF last = <<>> \/ AllSame(last, registers)
         THEN stage' = "wait" /\ last' = registers /\ registers' = <<>>
         ELSE stage' = "done" /\ UNCHANGED <<last, registers>>
      /\ UNCHANGED <<clock, updating, is_24hours, is_binary, lead, sinceTick>>
  BY ZenonT(30) DEF RoundEnds, clockVars
<1>2. /\ lead \in Nat /\ sinceTick \in Nat /\ updating \in BOOLEAN
      /\ updating => sinceTick > UpdateLead
  BY <1>1, ZenonT(30) DEF RtcInv
<1>3. PICK k \in 0 .. 6 : Round(k)
  BY <1>1, ZenonT(30) DEF RtcInv
<1>4. Shown' = Shown
  BY <1>1, SameShown, Zenon
<1>5. DOMAIN registers = Prefix(k)
  BY <1>3, Zenon DEF Round
<1>6. k = 6 /\ DOMAIN registers = Names
  BY <1>1, <1>5, AllRead, Zenon
<1>7. WholeSecond => registers = Shown
  <2>1. registers = [n \in Names |-> registers[n]]
    BY <1>3, <1>5, <1>6, Zenon DEF Round
  <2> QED
    BY <1>6, <2>1, Zenon DEF WholeSecond, Shown
<1>8. CASE last = <<>>
  <2>1. stage' = "wait" /\ last' = registers /\ registers' = <<>>
    BY <1>1, <1>8, Zenon
  <2>2. last' = Shown' \/ sinceTick' = 0
    BY <1>1, <1>3, <1>4, <1>7, <1>8, <2>1, ZenonT(30) DEF Round
  <2> QED
    BY <1>1, <1>2, <2>1, <2>2, ZenonT(30) DEF RtcInv
<1>9. CASE last # <<>> /\ last = registers
  <2>1. stage' = "wait" /\ last' = registers /\ registers' = <<>>
    BY <1>1, <1>9, Zenon DEF AllSame
  <2>2. last' = Shown'
    BY <1>3, <1>4, <1>7, <1>9, <2>1, ZenonT(30) DEF Round
  <2> QED
    BY <1>1, <1>2, <2>1, <2>2, ZenonT(30) DEF RtcInv
<1>10. CASE last # <<>> /\ last # registers
  <2>1. stage' = "done" /\ UNCHANGED <<last, registers>>
    BY <1>1, <1>10, Zenon DEF AllSame
  <2>2. WholeSecond /\ sinceTick <= 6 + 1
    BY <1>3, <1>6, <1>7, <1>10, ZenonT(30) DEF Round
  <2>3. sinceTick <= UpdateLead
    BY <1>2, <2>2, RtcAssumption
  <2>4. WholeSecond'
    BY <1>4, <2>1, <2>2, ZenonT(30) DEF WholeSecond
  <2> QED
    BY <1>1, <1>2, <1>6, <2>1, <2>3, <2>4, ZenonT(30) DEF RtcInv
<1> QED
  BY <1>8, <1>9, <1>10, Zenon

(* Every step of the clock and of the kernel.                               *)
LEMMA RtcStep == RtcInv /\ [RtcNext]_rtcVars => RtcInv'
<1> SUFFICES ASSUME RtcInv, [RtcNext]_rtcVars PROVE RtcInv'
  BY Zenon
<1>1. CASE UNCHANGED rtcVars
  <2>1. UNCHANGED <<clock, updating, is_24hours, is_binary, lead, sinceTick, stage, registers, last>>
    BY <1>1, Zenon DEF rtcVars, clockVars
  <2>2. Shown' = Shown
    BY <2>1, SameShown, Zenon
  <2>3. WholeSecond' <=> WholeSecond
    BY <2>1, <2>2, ZenonT(30) DEF WholeSecond
  <2>4. \A k \in 0 .. 6 : Round(k) => Round(k)'
    BY <2>1, <2>2, <2>3, ZenonT(30) DEF Round
  <2>5. stage' = "read" => \E k \in 0 .. 6 : Round(k)'
    BY <2>1, <2>4, ZenonT(30) DEF RtcInv
  <2> QED
    BY <2>1, <2>2, <2>3, <2>5, ZenonT(30) DEF RtcInv
<1> QED
  BY <1>1, UpdateStartsKeeps, TickKeeps, WaitKeeps, StatusKeeps, ReadNextKeeps, RoundEndsKeeps,
     ZenonT(30) DEF RtcNext, Read

(* However the ticks fall between the reads of read_rtc_time, the registers *)
(* it uses are all of one second, and that second has just begun.           *)
THEOREM ReadsAreWhole == RtcSpec => []WholeAndFresh
<1>1. RtcInv => WholeAndFresh
  <2> SUFFICES ASSUME RtcInv, stage = "done"
               PROVE  /\ \A name \in DOMAIN registers : registers[name] = read_rtc_register(name)
                      /\ sinceTick <= UpdateLead
    BY Zenon DEF WholeAndFresh
  <2>1. DOMAIN registers = Names /\ WholeSecond /\ sinceTick <= UpdateLead
    BY ZenonT(30) DEF RtcInv
  <2> QED
    BY <2>1, Zenon DEF WholeSecond, Shown
<1> QED
  BY <1>1, RtcStarts, RtcStep, PTL DEF RtcSpec
=============================================================================
