----------------------------- MODULE UserStack ------------------------------
(***************************************************************************)
(* The arguments of a program: proc_exec (kernel/userspace/exec.c) writes  *)
(* them to the stack of the new process, and the program reads them there. *)
(*                                                                         *)
(* The memory of the process is a function on the addresses that are       *)
(* mapped, writable and the user's: exec maps one page of stack.  A byte   *)
(* is a character, or the k-th byte <<p, k>> of the address p.             *)
(***************************************************************************)
EXTENDS Integers, Sequences, SequencesExt

CONSTANTS PAGE_SIZE, USER_STACK_TOP, MAX_ARGV,
          NUL, Garbage      \* the zero byte, and what a fresh frame holds

ASSUME UserStackAssumption ==
  /\ PAGE_SIZE \in Nat \ {0} /\ USER_STACK_TOP \in Nat /\ MAX_ARGV \in Nat \ {0}
  /\ USER_STACK_TOP % PAGE_SIZE = 0 /\ USER_STACK_TOP > PAGE_SIZE

NULL == 0
FreshStack == [a \in USER_STACK_TOP - PAGE_SIZE .. USER_STACK_TOP - 1 |-> Garbage]

(* The sizeof(uint64_t) bytes of an address.                                *)
Word(p) == [k \in 1 .. 8 |-> IF p = NULL THEN NUL ELSE <<p, k>>]

(* vmm_memcpy goes page by page and gives up at the first one that is not   *)
(* mapped; its result is not used.                                          *)
vmm_memcpy(memory, destination, source) ==
  LET Page(a) == a \div PAGE_SIZE
      mapped == {Page(a) : a \in DOMAIN memory}
      Copied(a) == /\ a - destination + 1 \in DOMAIN source
                   /\ Page(destination) .. Page(a) \subseteq mapped
  IN [a \in DOMAIN memory |->
        IF Copied(a) THEN source[a - destination + 1] ELSE memory[a]]

(* A string with its terminator, or a word, goes below what is there.       *)
Push(stack, bytes) ==
  LET rsp == stack.rsp - Len(bytes)
  IN [rsp |-> rsp, memory |-> vmm_memcpy(stack.memory, rsp, bytes)]

PushArgument(stack, argument) ==
  LET pushed == Push([rsp |-> stack.rsp, memory |-> stack.memory], argument \o <<NUL>>)
  IN pushed @@ [argument_pointers |-> Append(stack.argument_pointers, pushed.rsp)]

PushAligned(stack) ==
  LET bottom == FoldRight(LAMBDA p, s : Push(s, Word(p)), stack.argument_pointers,
                  Push([rsp |-> stack.rsp, memory |-> stack.memory], Word(NULL)))
  IN [argc |-> Len(stack.argument_pointers), argv |-> bottom.rsp, memory |-> bottom.memory,
      rsp |-> bottom.rsp - (bottom.rsp % 16)]

(* The terminator of argv, the pointers from the last to the first, and the *)
(* alignment of the stack pointer.                                          *)
PushPointers(stack) ==
  LET bottom == FoldRight(LAMBDA p, s : Push(s, Word(p)), stack.argument_pointers,
                  Push([rsp |-> stack.rsp, memory |-> stack.memory], Word(NULL)))
  IN [argc |-> Len(stack.argument_pointers), argv |-> bottom.rsp, memory |-> bottom.memory,
      rsp |-> bottom.rsp - ((bottom.rsp % 16) + 8)]

(* What the new process starts with: argc and argv, its stack pointer and   *)
(* its memory.                                                              *)
StartOf(args) ==
  PushPointers(
    FoldLeft(PushArgument, [rsp |-> USER_STACK_TOP, memory |-> FreshStack,
                            argument_pointers |-> <<>>],
             SubSeq(args, 1, IF Len(args) < MAX_ARGV THEN Len(args) ELSE MAX_ARGV)))

-----------------------------------------------------------------------------
(* The program's side: a load of an address, a string, the arguments.       *)

Load(memory, a) ==
  CASE \A k \in 1 .. 8 : memory[a + k - 1] = NUL -> NULL
    [] \A k \in 1 .. 8 : memory[a + k - 1] = <<memory[a][1], k>> -> memory[a][1]
    [] OTHER -> Garbage

strlen(memory, p) ==
  (CHOOSE n \in 0 .. USER_STACK_TOP - p :
     memory[p + n] = NUL /\ \A m \in 0 .. n - 1 : memory[p + m] # NUL)

String(memory, p) == [i \in 1 .. strlen(memory, p) |-> memory[p + i - 1]]

Argument(start, i) == String(start.memory, Load(start.memory, start.argv + 8 * i))
=============================================================================
