------------------------------ MODULE Display ------------------------------
(***************************************************************************)
(* The way of pixels to the screen: kernel_main hands the boot loader's    *)
(* framebuffer to clear_screen (GUI/fb/framebuffer.c) and to the flush     *)
(* callback of LVGL (GUI/lvgl_manager/init_lvgl.c).  The boot loader gives *)
(* the length of a row, the pitch, in bytes; a pixel is a word of 4 bytes, *)
(* and a row may be longer than what is seen of it.                        *)
(*                                                                         *)
(* LVGL is external: it paints a part of its picture, and hands it to      *)
(* lvgl_flush in strips of whole rows that fit its buffer.                 *)
(***************************************************************************)
EXTENDS Integers, Sequences

CONSTANTS
  Framebuffers,      \* [width, height, pitch]: what the boot loader may set up
  Behind,            \* words of memory behind the framebuffer
  BufferPixels,      \* the length of lvgl_buf
  Colors, Dark, Old  \* colours LVGL paints, of clear_screen, of memory before

ASSUME FramebuffersAssumption ==
  /\ Framebuffers \subseteq [width : Nat, height : Nat, pitch : Nat]
  /\ BufferPixels \in Nat
  /\ \A b \in Framebuffers : /\ b.pitch % 4 = 0 /\ b.pitch >= 4 * b.width
                             /\ b.width \in 1 .. BufferPixels /\ b.height > 0
  /\ Behind \in Nat /\ {Dark, Old} \cap Colors = {} /\ Dark # Old

VARIABLES
  main_pc,           \* the next statement of kernel_main
  mbi,               \* external: the framebuffer of the boot loader
  mem,               \* its words and those behind it
  kernel_pitch,      \* fb_pitch of kernel.c
  fb_pitch,          \* fb_pitch of framebuffer.c
  ctx_pitch,         \* ctx->pitch of init_lvgl.c
  picture,           \* external: what LVGL has painted, by <<row, column>>
  dirty              \* external: the area LVGL has still to hand out, or NoArea

displayVars == <<main_pc, mbi, mem, kernel_pitch, fb_pitch, ctx_pitch, picture, dirty>>

NoArea == [x1 |-> 0, y1 |-> 0, x2 |-> -1, y2 |-> -1]

Pixels == (0 .. mbi.height - 1) \X (0 .. mbi.width - 1)

-----------------------------------------------------------------------------
(* m with the words from place on replaced by row. *)
Put(m, place, row) ==
  [i \in DOMAIN m |-> IF i - place + 1 \in DOMAIN row THEN row[i - place + 1] ELSE m[i]]

(* m with rows put from their starts on, one after another; images[n] is   *)
(* what there is after n of them.                                          *)
Images(m, start, rows) ==
  LET images[n \in 0 .. Len(rows)] ==
        IF n = 0 THEN m ELSE Put(images[n - 1], start[n], rows[n])
  IN  images

PutAll(m, start, rows) == Images(m, start, rows)[Len(rows)]

(* Mutant: the pitch stays in bytes, as framebuffer_init would have it. *)
READ_FRAMEBUFFER_in_bytes ==
  /\ main_pc = "READ_FRAMEBUFFER" /\ main_pc' = "INIT_FRAMEBUFFER"
  /\ kernel_pitch' = mbi.pitch
  /\ UNCHANGED <<mbi, mem, fb_pitch, ctx_pitch, picture, dirty>>

READ_FRAMEBUFFER ==
  /\ main_pc = "READ_FRAMEBUFFER" /\ main_pc' = "INIT_FRAMEBUFFER"
  /\ kernel_pitch' = mbi.pitch \div 4
  /\ UNCHANGED <<mbi, mem, fb_pitch, ctx_pitch, picture, dirty>>

(* framebuffer_init divides the pitch once more. *)
INIT_FRAMEBUFFER ==
  /\ main_pc = "INIT_FRAMEBUFFER" /\ main_pc' = "clear_screen"
  /\ fb_pitch' = kernel_pitch \div 4
  /\ UNCHANGED <<mbi, mem, kernel_pitch, ctx_pitch, picture, dirty>>

clear_screen ==
  /\ main_pc = "clear_screen" /\ main_pc' = "LVGL_INIT"
  /\ mem' = PutAll(mem, [n \in 1 .. mbi.height |-> (n - 1) * fb_pitch],
                    [n \in 1 .. mbi.height |-> [x \in 1 .. mbi.width |-> Dark]])
  /\ UNCHANGED <<mbi, kernel_pitch, fb_pitch, ctx_pitch, picture, dirty>>

(* LVGL's first picture is dirty as a whole. *)
LVGL_INIT ==
  /\ main_pc = "LVGL_INIT" /\ main_pc' = "loop"
  /\ ctx_pitch' = kernel_pitch
  /\ dirty' = [x1 |-> 0, y1 |-> 0, x2 |-> mbi.width - 1, y2 |-> mbi.height - 1]
  /\ UNCHANGED <<mbi, mem, kernel_pitch, fb_pitch, picture>>

(* External: LVGL paints an area in some colour. *)
paint ==
  /\ main_pc = "loop" /\ dirty = NoArea
  /\ \E x1, x2 \in 0 .. mbi.width - 1, y1, y2 \in 0 .. mbi.height - 1, c \in Colors :
       /\ x1 <= x2 /\ y1 <= y2
       /\ dirty' = [x1 |-> x1, y1 |-> y1, x2 |-> x2, y2 |-> y2]
       /\ picture' = [p \in Pixels |->
                        IF p \in (y1 .. y2) \X (x1 .. x2) THEN c ELSE picture[p]]
  /\ UNCHANGED <<main_pc, mbi, mem, kernel_pitch, fb_pitch, ctx_pitch>>

(* External: the pixels of an area one after another, and the rows of the  *)
(* dirty area that fit the buffer.                                         *)
px_map(area) ==
  LET width == area.x2 - area.x1 + 1
  IN  [n \in 1 .. width * (area.y2 - area.y1 + 1) |->
         picture[<<area.y1 + ((n - 1) \div width), area.x1 + ((n - 1) % width)>>]]

Strip ==
  LET rows == BufferPixels \div (dirty.x2 - dirty.x1 + 1)
  IN  [dirty EXCEPT !.y2 = IF @ < dirty.y1 + rows THEN @ ELSE dirty.y1 + rows - 1]

(* The two loops of lvgl_flush: src runs on from row to row. *)
Flushed(m, area, src) ==
  LET width == area.x2 - area.x1 + 1
      height == area.y2 - area.y1 + 1
  IN  PutAll(m, [n \in 1 .. height |-> (area.y1 + n - 1) * ctx_pitch + area.x1],
                [n \in 1 .. height |-> SubSeq(src, (n - 1) * width + 1, n * width)])

lvgl_flush ==
  /\ dirty # NoArea
  /\ mem' = Flushed(mem, Strip, px_map(Strip))
  /\ dirty' = IF Strip.y2 = dirty.y2 THEN NoArea
                                     ELSE [dirty EXCEPT !.y1 = Strip.y2 + 1]
  /\ UNCHANGED <<main_pc, mbi, kernel_pitch, fb_pitch, ctx_pitch, picture>>

-----------------------------------------------------------------------------
DisplayInit ==
  /\ main_pc = "READ_FRAMEBUFFER"
  /\ mbi \in Framebuffers
  /\ mem = [i \in 0 .. (mbi.pitch \div 4) * mbi.height + Behind - 1 |-> Old]
  /\ kernel_pitch = 0 /\ fb_pitch = 0 /\ ctx_pitch = 0
  /\ \E c \in Colors : picture = [p \in Pixels |-> c]
  /\ dirty = NoArea

DisplayNext ==
  \/ READ_FRAMEBUFFER \/ INIT_FRAMEBUFFER \/ clear_screen \/ LVGL_INIT
  \/ paint \/ lvgl_flush

DisplaySpec == DisplayInit /\ [][DisplayNext]_displayVars

-----------------------------------------------------------------------------
(* The variables keep their types. *)
DisplayTypeOK ==
  /\ main_pc \in {"READ_FRAMEBUFFER", "INIT_FRAMEBUFFER", "clear_screen", "LVGL_INIT", "loop"}
  /\ mbi \in Framebuffers
  /\ \A i \in DOMAIN mem : mem[i] \in Colors \cup {Dark, Old}
  /\ picture \in [Pixels -> Colors]

(* The word the screen shows at a pixel, by the boot loader's word. *)
Word(p) == p[1] * (mbi.pitch \div 4) + p[2]

Pending(p) == p[1] \in dirty.y1 .. dirty.y2 /\ p[2] \in dirty.x1 .. dirty.x2

(* init_lvgl.c:26-47: in the main loop the screen shows LVGL's picture     *)
(* wherever LVGL has nothing to hand out, whatever the areas, the strips   *)
(* and the pitch were, and what lies behind a row's end or the             *)
(* framebuffer's has none of it.                                           *)
ScreenShowsThePicture ==
  main_pc = "loop" =>
    /\ \A p \in Pixels : ~ Pending(p) => mem[Word(p)] = picture[p]
    /\ \A i \in DOMAIN mem \ { Word(p) : p \in Pixels } : mem[i] \notin Colors

(* framebuffer.c:24-30: clear_screen clears the screen. *)
ScreenIsCleared ==
  main_pc = "LVGL_INIT" => \A p \in Pixels : mem[Word(p)] = Dark
=============================================================================
