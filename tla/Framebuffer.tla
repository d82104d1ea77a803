---------------------------- MODULE Framebuffer -----------------------------
(***************************************************************************)
(* The framebuffer (kernel/device/fb.c) and the program that shows a       *)
(* picture on it (user/bmp.c).                                             *)
(*                                                                         *)
(* Video memory is counted in pixels from the address of the framebuffer;  *)
(* a row of the screen is followed by padding up to the pitch, and the     *)
(* last row by other memory.  The k-th pixel of a buffer that a program    *)
(* writes is k; black is 0.  Programs are not preempted, so what bmp.c     *)
(* does is one step.                                                       *)
(***************************************************************************)
EXTENDS Integers, Sequences, FiniteSets, SequencesExt

CONSTANTS ScreenWidth, ScreenHeight,   \* of the framebuffer that Limine gives
          Pitch,                       \* in pixels
          BufferSizes,                 \* the sizes that programs write
          Images                       \* the widths and heights of bmp files

ASSUME FramebufferAssumption ==
  /\ ScreenWidth \in Nat \ {0} /\ ScreenHeight \in Nat \ {0}
  /\ Pitch \in Nat /\ ScreenWidth <= Pitch
  /\ BufferSizes \subseteq Nat
  /\ \A m \in Images : m.width \in Nat \ {0} /\ m.height \in Nat \ {0}

VARIABLES main_framebuffer,            \* whether there is one
          memory,                      \* the video memory, and what follows it
          current_width, current_height,
          op                           \* history: the last call

fbVars == <<main_framebuffer, memory, current_width, current_height, op>>

Addresses == 0 .. 2 * ScreenHeight * Pitch - 1
OnScreen(a) == a < ScreenHeight * Pitch
Torn == 3 * ScreenWidth * ScreenHeight   \* no pixel of any buffer
Boot == [a \in Addresses |-> IF OnScreen(a) THEN 0 ELSE Torn]

NoFramebuffer ==
  /\ main_framebuffer = FALSE /\ memory = Boot
  /\ current_width = 0 /\ current_height = 0 /\ op = [call |-> "none"]

fb_init ==
  /\ main_framebuffer = TRUE /\ memory = Boot
  /\ current_width = ScreenWidth /\ current_height = ScreenHeight
  /\ op = [call |-> "none"]

-----------------------------------------------------------------------------
(* memcpy of n pixels of a buffer, from the one at from, to address to.     *)
Copy(mem, to, buffer, from, n) ==
  [a \in DOMAIN mem |-> IF a \in to .. to + n - 1 THEN buffer[from + (a - to) + 1] ELSE mem[a]]

(* The rows of width pixels that the loop of fb_write copies whole: it      *)
(* stops when no more than a row is left.                                   *)
WholeRows(size, width, height) ==
  Cardinality({row \in 0 .. height - 1 : size - row * width > width})

ShownPacked(mem, buffer, width, height) ==
  LET size == Len(buffer)
      rows == WholeRows(size, width, height)
      after == FoldLeft(LAMBDA m, row : Copy(m, row * width, buffer, row * width, width),
                        mem, [k \in 1 .. rows |-> k - 1])
  IN IF rows < height /\ size # rows * width
     THEN Copy(after, rows * width, buffer, rows * width, size - rows * width)
     ELSE after

(* fb_write: whole rows, and what is left.                                  *)
Shown(mem, buffer, width, height) ==
  LET size == Len(buffer)
      rows == WholeRows(size, width, height)
      after == FoldLeft(LAMBDA m, row : Copy(m, row * Pitch, buffer, row * width, width),
                        mem, [k \in 1 .. rows |-> k - 1])
  IN IF rows < height /\ size # rows * width
     THEN Copy(after, rows * Pitch, buffer, rows * width, size - rows * width)
     ELSE after

(* FRAMEBUFFER_CTL_CLEAR sets width * height * bpp / 4 bytes, which is two  *)
(* pixels for each one of the screen.                                       *)
Cleared(mem) == [a \in DOMAIN mem |-> IF a < 2 * ScreenWidth * ScreenHeight THEN 0 ELSE mem[a]]

fb_write(size) ==
  /\ main_framebuffer
  /\ memory' = Shown(memory, [k \in 1 .. size |-> k], current_width, current_height)
  /\ op' = [call |-> "write", size |-> size]
  /\ UNCHANGED <<main_framebuffer, current_width, current_height>>

(* fb_control: the commands that change something; a width or a height      *)
(* beyond the screen is refused.                                            *)
SetWidth(width) ==
  /\ main_framebuffer /\ width <= ScreenWidth
  /\ current_width' = width /\ op' = [call |-> "control"]
  /\ UNCHANGED <<main_framebuffer, memory, current_height>>

SetHeight(height) ==
  /\ main_framebuffer /\ height <= ScreenHeight
  /\ current_height' = height /\ op' = [call |-> "control"]
  /\ UNCHANGED <<main_framebuffer, memory, current_width>>

Clear ==
  /\ main_framebuffer /\ memory' = Cleared(memory) /\ op' = [call |-> "control"]
  /\ UNCHANGED <<main_framebuffer, current_width, current_height>>

-----------------------------------------------------------------------------
(* bmp.c.  In the file a row has three bytes for each pixel, and is padded  *)
(* to a multiple of four; the rows go from the bottom up.  Byte <<k, c>> is *)
(* colour c of pixel k of the picture, <<0, 0>> is padding or no byte.      *)
Padding == <<0, 0>>
FileByte(image, offset) ==
  LET stride == ((3 * image.width + 3) \div 4) * 4
      row == offset \div stride
      column == offset % stride
  IN IF row < image.height /\ column < 3 * image.width
     THEN <<(image.height - 1 - row) * image.width + (column \div 3) + 1, column % 3>>
     ELSE Padding

UnpaddedRowSize(width) == width * 3

(* How far apart read_image expects the rows.                               *)
padded_row_size(width) == (width + (IF width % 4 # 0 THEN 1 ELSE 0)) * 3

(* Row i of the file becomes row height - 1 - i of the pixels.              *)
read_image(image) ==
  [n \in 0 .. 3 * image.width * image.height - 1 |->
     LET row == image.height - 1 - n \div (3 * image.width)
     IN FileByte(image, row * padded_row_size(image.width) + (n % (3 * image.width)))]

(* Three bytes to a pixel; one that has bytes of several is Torn.           *)
FbPixels(image) ==
  LET pixels == read_image(image)
  IN [k \in 1 .. image.width * image.height |->
        LET n == pixels[3 * (k - 1)][1]
        IN IF \A c \in 0 .. 2 : pixels[3 * (k - 1) + c] = <<n, c>> THEN n ELSE Torn]

(* main of bmp.c, when the picture is not larger than the screen.           *)
bmp(image) ==
  /\ main_framebuffer /\ image.width <= ScreenWidth /\ image.height <= ScreenHeight
  /\ memory' = Shown(Cleared(memory), FbPixels(image), image.width, image.height)
  /\ current_width' = image.width /\ current_height' = image.height
  /\ op' = [call |-> "bmp", image |-> image]
  /\ UNCHANGED main_framebuffer

FbNext ==
  \/ \E size \in BufferSizes : fb_write(size)
  \/ \E width \in 0 .. ScreenWidth : SetWidth(width)
  \/ \E height \in 0 .. ScreenHeight : SetHeight(height)
  \/ Clear
  \/ \E image \in Images : bmp(image)

-----------------------------------------------------------------------------
Row(a) == a \div Pitch
Column(a) == a % Pitch

(* fb_write "will fill the screen based on the current_width and            *)
(* current_height values": the buffer is laid out in the rectangle that     *)
(* programs have set, to its end or to the end of the rectangle, and no     *)
(* other pixel changes, whatever they have set before.                      *)
WriteFillsRectangle ==
  [][op'.call = "write" =>
       memory' = [a \in Addresses |->
                    LET k == Row(a) * current_width + Column(a) + 1
                    IN IF /\ Row(a) < current_height /\ Column(a) < current_width
                          /\ k <= op'.size
                       THEN k ELSE memory[a]]]_fbVars

(* A picture whose width has the remainder 0 or 3 by 4 is shown as it is    *)
(* stored, on a black screen.                                               *)
PictureShown ==
  (op.call = "bmp" /\ op.image.width % 4 \in {0, 3}) =>
    \A a \in {a \in Addresses : OnScreen(a)} :
      memory[a] = IF Row(a) < op.image.height /\ Column(a) < op.image.width
                  THEN Row(a) * op.image.width + Column(a) + 1 ELSE 0

(* "Each row is padded to be a multiple of 4 bytes" (bmp.c): so it is for a *)
(* picture of any width.                                                    *)
AnyPictureShown ==
  op.call = "bmp" =>
    \A a \in Addresses :
      Row(a) < op.image.height /\ Column(a) < op.image.width =>
        memory[a] = Row(a) * op.image.width + Column(a) + 1

(* "Clear the screen" (include/fb.h): and nothing behind it.                *)
ClearStaysOnScreen == \A a \in Addresses : ~OnScreen(a) => memory[a] = Boot[a]
=============================================================================
