-------------------------------- MODULE Shell -------------------------------
(***************************************************************************)
(* The shell (user/init.c) on the console: the characters that the serial  *)
(* interrupt puts into the ring, gets (user/libc/stdio.c), the arguments   *)
(* that the shell cuts out of its line and exec copies to the stack of the *)
(* new process, and /echo (user/echo.c), which writes them.                *)
(*                                                                         *)
(* A character of the letters is Letter, and the name "cd" is two of them. *)
(***************************************************************************)
EXTENDS SerialRing, UserStack

CONSTANTS Letter, SP, DEL,
          BufferLength      \* sizeof(input_buffer)

ASSUME ShellAssumption ==
  /\ BufferLength \in Nat \ {0, 1} /\ 1 \in Lengths /\ MAX_ARGV > 2
  /\ {Letter, SP, DEL, CR} \subseteq Chars /\ NUL \notin Chars
  \* The longest line, its pointers and the alignment fit into a page.
  /\ BufferLength + 8 * MAX_ARGV + 24 <= PAGE_SIZE

VARIABLES input_buffer, i,   \* the line of the shell, and where gets is in it
          pc,                \* "gets", "run", "child", "wait" or "panic"
          line,              \* history: the line as edited with DEL
          child,             \* what exec gave the child: its argc, argv and stack
          printed            \* history: what the child wrote

shell == <<input_buffer, i, pc, line, child, printed>>
ring == <<serial_input_buffer, serial_input_buffer_write_index,
          serial_input_buffer_read_index, echo, out>>
allVars == <<ring, shell>>

NoChild == <<>>
Cd == <<Letter, Letter>>

ShellInit ==
  /\ RingInit
  /\ input_buffer = [n \in 0 .. BufferLength - 1 |-> NUL] /\ i = 0
  /\ pc = "gets" /\ line = <<>> /\ child = NoChild /\ printed = <<>>

Typed(c) == serial_received_char(c) /\ UNCHANGED shell

-----------------------------------------------------------------------------
(* gets: read returns one character.                                        *)

Edited(s, c) == IF c = DEL THEN (IF s = <<>> THEN s ELSE Front(s)) ELSE Append(s, c)

GetsKeepingTail ==
  LET c == Byte(1)
      j == IF c = DEL THEN (IF i = 0 THEN 0 ELSE i - 1) ELSE i + 1
      ends == c = NL \/ j + 1 >= BufferLength
  IN /\ pc = "gets" /\ available_bytes > 0 /\ internal_serial_read(1)
     /\ input_buffer' = IF c = DEL THEN input_buffer ELSE [input_buffer EXCEPT ![i] = c]
     /\ line' = Edited(line, c) /\ i' = j
     /\ pc' = IF ends THEN "run" ELSE "gets"
     /\ UNCHANGED <<child, printed>>

gets ==
  LET c == Byte(1)
      j == IF c = DEL THEN (IF i = 0 THEN 0 ELSE i - 1) ELSE i + 1
      ends == c = NL \/ j + 1 >= BufferLength
      buf == IF c = DEL THEN input_buffer ELSE [input_buffer EXCEPT ![i] = c]
  IN /\ pc = "gets" /\ available_bytes > 0 /\ internal_serial_read(1)
     /\ input_buffer' = IF ends THEN [buf EXCEPT ![j] = NUL] ELSE buf
     /\ line' = Edited(line, c) /\ i' = j
     /\ pc' = IF ends THEN "run" ELSE "gets"
     /\ UNCHANGED <<child, printed>>

-----------------------------------------------------------------------------
(* The line: trimmed, and cut at the first spaces.                          *)

Length(buf) == CHOOSE n \in DOMAIN buf : buf[n] = NUL /\ \A m \in 0 .. n - 1 : buf[m] # NUL

trim_string(buf) ==
  [n \in DOMAIN buf |-> IF buf[n] = NL /\ \A m \in n .. Length(buf) - 1 : buf[m] = NL
                        THEN NUL ELSE buf[n]]

(* The shell looks for MAX_ARGV - 2 spaces at most.                         *)
Breaks(buf) ==
  {n \in 0 .. Length(buf) - 1 :
     buf[n] = SP /\ Cardinality({m \in 0 .. n : buf[m] = SP}) <= MAX_ARGV - 2}

Cut(buf) == [n \in DOMAIN buf |-> IF n \in Breaks(buf) THEN NUL ELSE buf[n]]

(* The pointers of args: the start of the line and what follows each break. *)
Args(buf) == <<0>> \o SetToSortSeq({n + 1 : n \in Breaks(buf)}, <)

CString(buf, p) == LET n == CHOOSE n \in p .. BufferLength - 1 :
                              buf[n] = NUL /\ \A m \in p .. n - 1 : buf[m] # NUL
                   IN [k \in 1 .. n - p |-> buf[p + k - 1]]

Prompt == pc' = "gets" /\ i' = 0 /\ line' = <<>> /\ child' = NoChild /\ printed' = <<>>

(* handle_cd without an argument calls chdir(NULL), and the kernel reads    *)
(* the path at address 0.                                                   *)
handle_cd(args) ==
  IF Len(args) = 1
  THEN pc' = "panic" /\ UNCHANGED <<i, line, child, printed>>
  ELSE Prompt

Exec(args) ==
  \/ Prompt                 \* exec fails
  \/ /\ Len(args[1]) > 0
     /\ child' = StartOf(args) /\ pc' = "child"
     /\ UNCHANGED <<i, line, printed>>

RunLine ==
  LET trimmed == trim_string(input_buffer)
      cut == Cut(trimmed)
      pointers == Args(trimmed)
      args == [k \in DOMAIN pointers |-> CString(cut, pointers[k])]
  IN /\ pc = "run"
     /\ IF Length(trimmed) = 0
        THEN input_buffer' = trimmed /\ Prompt
        ELSE /\ input_buffer' = cut
             /\ IF args[1] = Cd THEN handle_cd(args) ELSE Exec(args)
     /\ UNCHANGED ring

-----------------------------------------------------------------------------
(* The child: /echo, or a program that reads the console.                   *)

echo_main ==
  /\ pc = "child"
  /\ printed' = FlattenSeq([k \in 1 .. child.argc - 1 |->
                  Argument(child, k) \o <<IF k + 1 < child.argc THEN SP ELSE NL>>])
  /\ pc' = "wait"
  /\ UNCHANGED <<ring, input_buffer, i, line, child>>

Reader(len) ==
  /\ pc = "child" /\ internal_serial_read(len)
  /\ UNCHANGED shell

Wait == pc = "wait" /\ Prompt /\ UNCHANGED <<ring, input_buffer>>

ShellNext ==
  \/ \E c \in Chars : Typed(c)
  \/ gets \/ RunLine \/ echo_main \/ Wait
  \/ \E len \in Lengths : Reader(len)

ShellSpec == ShellInit /\ [][ShellNext]_allVars

-----------------------------------------------------------------------------
(* The words of the line, of which the last keeps its spaces when there are *)
(* too many: what the user means by the line.                               *)
Visible == IF line # <<>> /\ Last(line) = NL THEN Front(line) ELSE line
SpaceAt == {n \in DOMAIN Visible : Visible[n] = SP}

(* /echo writes what follows the first space of the edited line, whatever   *)
(* the number of spaces and arguments, what older lines left in the buffer, *)
(* and how the characters arrived; nothing if there is no space.            *)
EchoPrintsLine ==
  pc = "wait" =>
    printed = IF SpaceAt = {} THEN <<>>
              ELSE SubSeq(Visible, Min(SpaceAt) + 1, Len(Visible)) \o <<NL>>

(* exec: argv ends with NULL; every argument lies above the stack pointer,  *)
(* where the program's own pushes do not reach it, and in the mapped page;  *)
(* "rsp must have the remainder of 8 when divided by 16" (ring3.S).         *)
ArgumentsAreSafe ==
  child # NoChild =>
    /\ Load(child.memory, child.argv + 8 * child.argc) = NULL
    /\ \A k \in 0 .. child.argc - 1 :
         LET p == Load(child.memory, child.argv + 8 * k)
         IN child.argv + 8 * child.argc < p /\ p + strlen(child.memory, p) < USER_STACK_TOP
    /\ USER_STACK_TOP - PAGE_SIZE <= child.rsp /\ child.rsp < child.argv
    /\ child.rsp % 16 = 8
=============================================================================
