----------------------------- MODULE SerialRing -----------------------------
(***************************************************************************)
(* The ring buffer of the serial port (kernel/device/serial_port.c).  The  *)
(* handler and the readers hold serial_input_buffer_condvar throughout, so *)
(* each is one step here; module Kernel has their interleavings, and the   *)
(* sleep of a reader that finds the ring empty.                            *)
(***************************************************************************)
EXTENDS Naturals, Sequences

CONSTANTS SERIAL_BUFFER_LENGTH, Chars, CR, NL,
          Lengths          \* the lengths that programs read with

ASSUME SerialRingAssumption ==
  /\ SERIAL_BUFFER_LENGTH \in Nat /\ SERIAL_BUFFER_LENGTH > 1
  /\ Lengths \subseteq Nat

VARIABLES serial_input_buffer, serial_input_buffer_write_index,
          serial_input_buffer_read_index,
          echo,            \* the last character serial_putc echoed
          out              \* what the last read returned

ringVars == <<serial_input_buffer, serial_input_buffer_write_index,
          serial_input_buffer_read_index, echo, out>>

Indices == 0 .. SERIAL_BUFFER_LENGTH - 1
Following(i) == (i + 1) % SERIAL_BUFFER_LENGTH

RingInit ==
  /\ serial_input_buffer \in [Indices -> {NL}]
  /\ serial_input_buffer_write_index = 0 /\ serial_input_buffer_read_index = 0
  /\ echo = <<>> /\ out = <<>>

(* The serial port sends \r for new lines.                                  *)
NewLine(c) == IF c = CR THEN NL ELSE c

ReceiveWithoutCheck(c) ==
  /\ serial_input_buffer' =
       [serial_input_buffer EXCEPT ![serial_input_buffer_write_index] = NewLine(c)]
  /\ serial_input_buffer_write_index' = Following(serial_input_buffer_write_index)
  /\ echo' = <<NewLine(c)>>
  /\ UNCHANGED <<serial_input_buffer_read_index, out>>

serial_received_char(c) ==
  /\ IF Following(serial_input_buffer_write_index) # serial_input_buffer_read_index
     THEN /\ serial_input_buffer' =
               [serial_input_buffer EXCEPT ![serial_input_buffer_write_index] = NewLine(c)]
          /\ serial_input_buffer_write_index' = Following(serial_input_buffer_write_index)
          /\ echo' = <<NewLine(c)>>
     ELSE UNCHANGED <<serial_input_buffer, serial_input_buffer_write_index, echo>>
  /\ UNCHANGED <<serial_input_buffer_read_index, out>>

available_bytes ==
  IF serial_input_buffer_write_index < serial_input_buffer_read_index
  THEN serial_input_buffer_write_index + (SERIAL_BUFFER_LENGTH - serial_input_buffer_read_index)
  ELSE serial_input_buffer_write_index - serial_input_buffer_read_index

Byte(i) == serial_input_buffer[(serial_input_buffer_read_index + i - 1) % SERIAL_BUFFER_LENGTH]

(* internal_serial_read, once there is input or for serial_read_async: at   *)
(* most len bytes, none if the ring is empty.                               *)
internal_serial_read(len) ==
  LET to_read_bytes == IF len > available_bytes THEN available_bytes ELSE len
  IN /\ out' = [i \in 1 .. to_read_bytes |-> Byte(i)]
     /\ serial_input_buffer_read_index' =
          (serial_input_buffer_read_index + to_read_bytes) % SERIAL_BUFFER_LENGTH
     /\ UNCHANGED <<serial_input_buffer, serial_input_buffer_write_index, echo>>

RingNext ==
  \/ \E c \in Chars : serial_received_char(c)
  \/ \E len \in Lengths : internal_serial_read(len)

RingSpec == RingInit /\ [][RingNext]_ringVars

-----------------------------------------------------------------------------
(* The ring is a queue of SERIAL_BUFFER_LENGTH - 1 characters: no character *)
(* that was echoed is overwritten, skipped or read twice, over any number   *)
(* of turns around the ring.                                                *)
Queue == INSTANCE InputQueue WITH
  Capacity <- SERIAL_BUFFER_LENGTH - 1, Normal <- NewLine,
  queue <- [i \in 1 .. available_bytes |-> Byte(i)]
QueueSpec == Queue!Spec
=============================================================================
