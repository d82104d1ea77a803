-------------------------------- MODULE Nvme --------------------------------
(***************************************************************************)
(* The NVMe driver (kernel/device/nvme.c): it takes the controller from    *)
(* the firmware, starts it over the admin queue, and reads and writes over *)
(* the I/O queue, each one command that it submits and then polls for.     *)
(* The controller is external: it resets, fetches, executes and completes  *)
(* at its own pace, marks a completion by the phase bit of its entry, and  *)
(* may fail reads and writes, which the driver does not notice.            *)
(***************************************************************************)
EXTENDS Naturals, Sequences

CONSTANTS Blocks, Values,     \* the blocks of the namespace, and their contents
          AdminQueueSize, IoQueueSize,
          None

ASSUME NvmeAssumption ==
  /\ AdminQueueSize \in Nat /\ AdminQueueSize > 1
  /\ IoQueueSize \in Nat /\ IoQueueSize > 1
  /\ None \notin Values /\ "junk" \notin Values /\ "identify" \notin Values
  /\ \A b \in Blocks : /\ None # [op |-> "read", block |-> b]
                       /\ \A v \in Values : None # [op |-> "write", block |-> b, page |-> v]

VARIABLES
  \* struct nvme_queue of each queue
  submission_queue, completion_queue,
  submission_queue_tail, completion_queue_head, completion_queue_current_phase,
  \* the driver: where it is, in which queue and command it is, and how far
  \* the start of the controller has come
  pc, queue, command, left_commands, started, block_size,
  request,     \* the arguments of nvme_read or nvme_write, None outside of them
  buffer,      \* aligned_buffer or namespace_data: its contents, None if freed
  result,      \* what the last nvme_read returned
  \* the registers of the controller
  cc_en, csts_rdy, asq, sq_tail_doorbell, cq_head_doorbell,
  \* the controller: admin_queues is whose admin queues it uses
  admin_queues, sq_head, cq_tail, phase, executed, created, disk, faulty

driver == <<submission_queue, submission_queue_tail, completion_queue_head,
            completion_queue_current_phase, queue, command, left_commands, started,
            block_size, request, result>>
power == <<cc_en, csts_rdy, asq, admin_queues>>
doorbells == <<sq_tail_doorbell, cq_head_doorbell>>
controller == <<completion_queue, sq_head, cq_tail, phase, executed, created, disk, faulty>>
vars == <<driver, pc, buffer, power, doorbells, controller>>

Queues == {"admin", "io"}
queue_size(q) == IF q = "admin" THEN AdminQueueSize ELSE IoQueueSize
Slots(q) == 0 .. queue_size(q) - 1

NoCommand == [opc |-> "none", block |-> None]

(* A controller after a reset.                                              *)
Cleared(head, tail, sqtdbl, cqhdbl, ph, queues) ==
  /\ head = [q \in Queues |-> 0] /\ tail = [q \in Queues |-> 0]
  /\ sqtdbl = [q \in Queues |-> 0] /\ cqhdbl = [q \in Queues |-> 0]
  /\ ph = [q \in Queues |-> 1] /\ queues = {}

(* The commands of nvme_create_io_queue and nvme_setup_namespaces, in order. *)
Startup == <<"SETFEATURES", "CRIOCQ", "CRIOSQ", "IDENTIFY">>

(* nvme_init has allocated queues that kcalloc cleared.  The controller is   *)
(* off, or the firmware has used it.                                        *)
Init ==
  /\ submission_queue = [q \in Queues |-> [s \in Slots(q) |-> NoCommand]]
  /\ completion_queue = [q \in Queues |-> [s \in Slots(q) |-> 0]]
  /\ submission_queue_tail = [q \in Queues |-> 0]
  /\ completion_queue_head = [q \in Queues |-> 0]
  /\ completion_queue_current_phase = [q \in Queues |-> 0]
  /\ pc = "boot" /\ queue = "admin" /\ command = NoCommand
  /\ left_commands = 0 /\ started = 0 /\ block_size = None
  /\ buffer = None /\ request = None
  /\ disk \in [Blocks -> Values] /\ result \in Values /\ faulty \in BOOLEAN
  /\ csts_rdy \in BOOLEAN /\ cc_en = csts_rdy
  /\ asq = "firmware" /\ admin_queues = "firmware"
  /\ executed = [q \in Queues |-> FALSE]
  /\ IF csts_rdy
     THEN /\ sq_head \in [Queues -> 0 .. 1] /\ sq_tail_doorbell = sq_head
          /\ cq_tail = sq_head /\ cq_head_doorbell = sq_head
          /\ phase \in [Queues -> {0, 1}]
          /\ created \in {{}, {"CRIOCQ", "CRIOSQ"}}
     ELSE Cleared(sq_head, cq_tail, sq_tail_doorbell, cq_head_doorbell, phase, created)

-----------------------------------------------------------------------------
(* nvme_disable_device, then the addresses of the admin queues and          *)
(* nvme_enable_device, each with its wait for the controller.               *)

nvme_disable_device ==
  /\ pc = "boot" /\ pc' = "disabling" /\ cc_en' = FALSE
  /\ UNCHANGED <<driver, buffer, csts_rdy, asq, admin_queues, doorbells, controller>>

SetAdminQueues == asq' = "kernel"

EnableAtOnce ==
  /\ pc = "disabling" /\ SetAdminQueues
  /\ pc' = "enabling" /\ cc_en' = TRUE
  /\ UNCHANGED <<driver, buffer, csts_rdy, admin_queues, doorbells, controller>>

nvme_enable_device ==
  /\ pc = "disabling" /\ ~csts_rdy /\ SetAdminQueues
  /\ pc' = "enabling" /\ cc_en' = TRUE
  /\ UNCHANGED <<driver, buffer, csts_rdy, admin_queues, doorbells, controller>>

Enabled ==
  /\ pc = "enabling" /\ csts_rdy /\ pc' = "ready"
  /\ UNCHANGED <<driver, buffer, power, doorbells, controller>>

-----------------------------------------------------------------------------
(* nvme_do_one_cmd_synchronous                                              *)

Advance(q, k) == IF k + 1 > queue_size(q) - 1 THEN 0 ELSE k + 1

LeftCommands(q, head, tail) ==
  IF head < tail THEN tail - head ELSE (queue_size(q) - head) + tail

(* The command goes into the submission queue and the doorbell is rung.     *)
Submit(q, cmd) ==
  LET tail == Advance(q, submission_queue_tail[q])
  IN /\ pc = "ready" /\ pc' = "poll"
     /\ queue' = q /\ command' = cmd
     /\ submission_queue' = [submission_queue EXCEPT ![q][submission_queue_tail[q]] = cmd]
     /\ submission_queue_tail' = [submission_queue_tail EXCEPT ![q] = tail]
     /\ sq_tail_doorbell' = [sq_tail_doorbell EXCEPT ![q] = tail]
     /\ left_commands' = LeftCommands(q, completion_queue_head[q], tail)
     /\ UNCHANGED <<completion_queue_head, completion_queue_current_phase, started,
                    block_size, result, power, cq_head_doorbell, controller>>

(* One more entry of the completion queue is seen to have changed phase.    *)
Poll ==
  LET q == queue  head == completion_queue_head[q]
  IN /\ pc = "poll" /\ left_commands > 0
     /\ completion_queue[q][head] # completion_queue_current_phase[q]
     /\ left_commands' = left_commands - 1
     /\ completion_queue_head' = [completion_queue_head EXCEPT ![q] = Advance(q, head)]
     /\ completion_queue_current_phase' =
          [completion_queue_current_phase EXCEPT ![q] = IF Advance(q, head) = 0 THEN 1 - @ ELSE @]
     /\ UNCHANGED <<submission_queue, submission_queue_tail, queue, command, started,
                    block_size, request, result, pc, buffer, power, doorbells, controller>>

FinishWithoutDoorbell ==
  /\ pc = "poll" /\ left_commands = 0
  /\ pc' = "ready"
  /\ result' = IF command.opc = "READ" THEN buffer ELSE result
  /\ block_size' = IF command.opc = "IDENTIFY" THEN buffer ELSE block_size
  /\ started' = IF queue = "admin" THEN started + 1 ELSE started
  /\ buffer' = None /\ request' = None
  /\ UNCHANGED <<submission_queue, submission_queue_tail, completion_queue_head,
                 completion_queue_current_phase, queue, command, left_commands,
                 power, doorbells, controller>>

(* The completion queue doorbell, and what the caller does with the result; *)
(* it frees the buffer.                                                     *)
Finish ==
  /\ pc = "poll" /\ left_commands = 0
  /\ pc' = "ready"
  /\ cq_head_doorbell' = [cq_head_doorbell EXCEPT ![queue] = completion_queue_head[queue]]
  /\ result' = IF command.opc = "READ" THEN buffer ELSE result
  /\ block_size' = IF command.opc = "IDENTIFY" THEN buffer ELSE block_size
  /\ started' = IF queue = "admin" THEN started + 1 ELSE started
  /\ buffer' = None /\ request' = None
  /\ UNCHANGED <<submission_queue, submission_queue_tail, completion_queue_head,
                 completion_queue_current_phase, queue, command, left_commands,
                 power, sq_tail_doorbell, controller>>

-----------------------------------------------------------------------------
(* The next command of the start of the controller.                         *)
StartupCommand ==
  /\ started < Len(Startup)
  /\ buffer' = IF Startup[started + 1] = "IDENTIFY" THEN "junk" ELSE None
  /\ Submit("admin", [opc |-> Startup[started + 1], block |-> None])
  /\ UNCHANGED request

WriteToBlockZero(b, v) ==
  /\ started = Len(Startup)
  /\ request' = [op |-> "write", block |-> b, page |-> v]
  /\ buffer' = v
  /\ Submit("io", [opc |-> "WRITE", block |-> CHOOSE c \in Blocks : TRUE])

nvme_write(b, v) ==
  /\ started = Len(Startup)
  /\ request' = [op |-> "write", block |-> b, page |-> v]
  /\ buffer' = v
  /\ Submit("io", [opc |-> "WRITE", block |-> b])

nvme_read(b) ==
  /\ started = Len(Startup)
  /\ request' = [op |-> "read", block |-> b]
  /\ buffer' = "junk"
  /\ Submit("io", [opc |-> "READ", block |-> b])

-----------------------------------------------------------------------------
(* The controller.                                                          *)

(* Leaving enabled clears it; it takes the addresses of the admin queues    *)
(* when it is enabled again.                                                *)
Reset ==
  /\ csts_rdy /\ ~cc_en /\ csts_rdy' = FALSE
  /\ Cleared(sq_head', cq_tail', sq_tail_doorbell', cq_head_doorbell', phase', created')
  /\ executed' = [q \in Queues |-> FALSE]
  /\ UNCHANGED <<driver, pc, buffer, cc_en, asq, admin_queues, completion_queue, disk, faulty>>

Start ==
  /\ ~csts_rdy /\ cc_en /\ csts_rdy' = TRUE /\ admin_queues' = asq
  /\ UNCHANGED <<driver, pc, buffer, cc_en, asq, doorbells, controller>>

(* The next command is fetched and executed, or fails and changes nothing.  *)
Fetch(q) ==
  /\ csts_rdy /\ admin_queues = "kernel"
  /\ sq_head[q] # sq_tail_doorbell[q] /\ ~executed[q]
  /\ q = "io" => created = {"CRIOCQ", "CRIOSQ"}
  /\ executed' = [executed EXCEPT ![q] = TRUE]
  /\ sq_head' = [sq_head EXCEPT ![q] = Advance(q, @)]
  /\ UNCHANGED <<driver, pc, power, doorbells, completion_queue, cq_tail, phase, faulty>>

Execute(q) ==
  LET cmd == submission_queue[q][sq_head[q]]
  IN /\ Fetch(q)
     /\ disk' = IF cmd.opc = "WRITE" THEN [disk EXCEPT ![cmd.block] = buffer] ELSE disk
     /\ buffer' = CASE cmd.opc = "READ" -> disk[cmd.block]
                    [] cmd.opc = "IDENTIFY" -> "identify"
                    [] OTHER -> buffer
     /\ created' = IF \/ cmd.opc = "CRIOCQ"
                      \/ cmd.opc = "CRIOSQ" /\ "CRIOCQ" \in created
                   THEN created \union {cmd.opc} ELSE created

Fail(q) ==
  /\ faulty /\ submission_queue[q][sq_head[q]].opc \in {"READ", "WRITE"}
  /\ Fetch(q)
  /\ UNCHANGED <<buffer, created, disk>>

Complete(q) ==
  /\ executed[q]
  /\ Advance(q, cq_tail[q]) # cq_head_doorbell[q]
  /\ executed' = [executed EXCEPT ![q] = FALSE]
  /\ completion_queue' = [completion_queue EXCEPT ![q][cq_tail[q]] = phase[q]]
  /\ cq_tail' = [cq_tail EXCEPT ![q] = Advance(q, @)]
  /\ phase' = [phase EXCEPT ![q] = IF Advance(q, cq_tail[q]) = 0 THEN 1 - @ ELSE @]
  /\ UNCHANGED <<driver, pc, buffer, power, doorbells, sq_head, created, disk, faulty>>

Driver ==
  \/ nvme_disable_device \/ nvme_enable_device \/ Enabled \/ StartupCommand \/ Poll \/ Finish
  \/ \E b \in Blocks : nvme_read(b) \/ \E v \in Values : nvme_write(b, v)
Controller == Reset \/ Start \/ \E q \in Queues : Execute(q) \/ Fail(q) \/ Complete(q)
Next == Driver \/ Controller
Spec == Init /\ [][Next]_vars

(* The driver polls without end, and the controller completes what it was   *)
(* given.                                                                   *)
FairSpec ==
  /\ Spec /\ WF_vars(Controller)
  /\ WF_vars(nvme_disable_device \/ nvme_enable_device \/ Enabled \/ StartupCommand \/ Poll \/ Finish)

-----------------------------------------------------------------------------
(* A call returns, and gives its buffer back, only when the controller is   *)
(* through with the command: it does not touch the memory afterwards, and   *)
(* no completion is left over for the next command to be taken for its own. *)
QuietBetweenCalls ==
  pc = "ready" =>
    \A q \in Queues :
      /\ sq_head[q] = submission_queue_tail[q] /\ ~executed[q]
      /\ cq_tail[q] = completion_queue_head[q]
      /\ completion_queue[q][completion_queue_head[q]] = completion_queue_current_phase[q]

(* The driver and the controller together are a block store: a call reads   *)
(* or writes the block it was given and no other, and is over when it       *)
(* returns; a command that fails affects nothing but itself, although the   *)
(* driver never looks at the status of a completion.                        *)
Storage == INSTANCE BlockStore WITH Pages <- Values, Junk <- "junk", store <- disk
StorageSpec == Storage!Spec

(* Every command, and the start of the controller, ends: the driver never   *)
(* polls for a phase change that has already been, or will never be, made.  *)
EveryCommandEnds == (pc # "ready") ~> (pc = "ready")
=============================================================================
