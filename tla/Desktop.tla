------------------------------ MODULE Desktop ------------------------------
(***************************************************************************)
(* The pointer from the driver's variables to the icons: IRQ12 changes     *)
(* position and button (drivers/mouse/mouse.c), LVGL polls them through    *)
(* lvgl_mouse_read (GUI/lvgl_manager/input/input.c), and its events move   *)
(* and click icons (GUI/Desktop/icons/icon.c), whose records come from the *)
(* heap.                                                                   *)
(*                                                                         *)
(* LVGL is external: a press takes the object under the pointer and keeps  *)
(* it, every read while it is held is a PRESSING event with the movement   *)
(* since the last read, and the release is a CLICKED event.  A position    *)
(* set is in force by the next read, as LVGL lays out between two reads.   *)
(***************************************************************************)
EXTENDS Integers

CONSTANTS
  Addresses,         \* where kmalloc may put an icon's record
  Objects,           \* LVGL's objects
  Places,            \* positions at which icons are created
  ICON_W, ICON_H,
  Moves,             \* movements <<dx, dy>> of one packet
  MaxPackets,        \* bound: packets of the mouse
  ClickDestroys      \* may on_single_click destroy the icon

ASSUME SizesAssumption ==
  /\ ICON_W \in Nat \ {0} /\ ICON_H \in Nat \ {0}
  /\ Places \cup Moves \subseteq Int \X Int
  /\ MaxPackets \in Nat
  /\ ClickDestroys \in BOOLEAN

VARIABLES
  mouse_x, mouse_y, left_down,   \* the driver
  packets,           \* history: packets so far
  pc,                \* where lvgl_mouse_read is
  data,              \* what it has stored for LVGL
  held,              \* history: the driver's states since it was called
  point, indev_obj,  \* LVGL: the pointer's last position, the object held
  grab,              \* history: from the pointer to the object's corner
  objs,              \* LVGL: the containers, with position and user data
  icons,             \* the icons' records, by address
  usedFreed          \* history: a record was used that kfree has taken

mouseVars == <<mouse_x, mouse_y, left_down, packets>>
readVars  == <<pc, data, held>>
lvglVars  == <<point, indev_obj, grab>>
iconVars  == <<objs, icons, usedFreed>>
vars == <<mouse_x, mouse_y, left_down, packets, pc, data, held,
          point, indev_obj, grab, objs, icons, usedFreed>>

None == "none"       \* nothing held
Screen == "screen"   \* the background is an object too

ASSUME ObjectsAssumption == None \notin Objects /\ Screen \notin Objects

-----------------------------------------------------------------------------
Plus(p, q)  == << p[1] + q[1], p[2] + q[2] >>
Minus(p, q) == << p[1] - q[1], p[2] - q[2] >>
Without(f, a) == [b \in DOMAIN f \ {a} |-> f[b]]
With(f, a, v) == [b \in DOMAIN f \cup {a} |-> IF b = a THEN v ELSE f[b]]

(* IRQ12 with a packet's last byte, a step between any two of the rest.    *)
mouse_process_byte(dx, dy, left) ==
  /\ packets < MaxPackets
  /\ packets' = packets + 1
  /\ mouse_x' = mouse_x + dx
  /\ mouse_y' = mouse_y - dy
  /\ left_down' = left
  /\ held' = held \cup { [x |-> mouse_x', y |-> mouse_y', pressed |-> left] }
  /\ UNCHANGED <<pc, data, lvglVars, iconVars>>

(* lvgl_mouse_read: three calls, one load each. *)
mouse_get_x ==
  /\ pc = "loop"
  /\ pc' = "y"
  /\ data' = [data EXCEPT !.x = mouse_x]
  /\ held' = { [x |-> mouse_x, y |-> mouse_y, pressed |-> left_down] }
  /\ UNCHANGED <<mouseVars, lvglVars, iconVars>>

mouse_get_y ==
  /\ pc = "y"
  /\ pc' = "button"
  /\ data' = [data EXCEPT !.y = mouse_y]
  /\ UNCHANGED <<mouseVars, held, lvglVars, iconVars>>

(* Mutant: the state is never set back to released. *)
mouse_left_pressed_only ==
  /\ pc = "button"
  /\ pc' = "events"
  /\ data' = [data EXCEPT !.pressed = @ \/ left_down]
  /\ UNCHANGED <<mouseVars, held, lvglVars, iconVars>>

mouse_left_pressed ==
  /\ pc = "button"
  /\ pc' = "events"
  /\ data' = [data EXCEPT !.pressed = left_down]
  /\ UNCHANGED <<mouseVars, held, lvglVars, iconVars>>

-----------------------------------------------------------------------------
(* icon_create and icon_destroy, between two runs of lv_timer_handler or   *)
(* from a callback.                                                        *)
icon_create(a, o, place) ==
  /\ pc = "loop"
  /\ a \notin DOMAIN icons /\ o \notin DOMAIN objs
  /\ icons' = With(icons, a, [container |-> o, at |-> place])
  /\ objs' = With(objs, o, [pos |-> place, user_data |-> a])
  /\ UNCHANGED <<mouseVars, readVars, lvglVars, usedFreed>>

(* Mutant: the container outlives the record. *)
icon_destroyed_keeps_container(a) ==
  /\ UNCHANGED objs
  /\ icons' = Without(icons, a)

(* LVGL forgets a deleted object, its callbacks and that it was held. *)
icon_destroyed(a) ==
  /\ objs' = Without(objs, icons[a].container)
  /\ icons' = Without(icons, a)

icon_destroy(a) ==
  /\ pc = "loop"
  /\ a \in DOMAIN icons
  /\ icon_destroyed(a)
  /\ indev_obj' = IF indev_obj = icons[a].container THEN None ELSE indev_obj
  /\ UNCHANGED <<mouseVars, readVars, point, grab, usedFreed>>

(* Mutant: the movement is added to the place the icon was created at. *)
drag_event_cb_from_start(o, vect) ==
  objs' = [objs EXCEPT ![o].pos = Plus(icons[objs[o].user_data].at, vect)]

drag_event_cb(o, vect) == objs' = [objs EXCEPT ![o].pos = Plus(@, vect)]

(* The icon's record is used again after on_single_click. *)
click_event_cb(o) ==
  LET icon == objs[o].user_data
  IN  \/ /\ ClickDestroys
         /\ icon_destroyed(icon)
         /\ usedFreed' = TRUE
      \/ UNCHANGED iconVars

-----------------------------------------------------------------------------
(* External: LVGL takes what was read and sends its events. *)
At == << data.x, data.y >>

Under == { o \in DOMAIN objs :
             LET d == Minus(At, objs[o].pos)
             IN  d[1] \in 0 .. ICON_W - 1 /\ d[2] \in 0 .. ICON_H - 1 }

Ended == /\ pc = "events" /\ pc' = "loop"
         /\ point' = At
         /\ UNCHANGED <<mouseVars, data, held>>

press ==
  /\ Ended
  /\ data.pressed /\ indev_obj = None
  /\ \/ /\ Under = {} /\ indev_obj' = Screen
        /\ UNCHANGED <<grab, iconVars>>
     \/ \E o \in Under :
          /\ indev_obj' = o
          /\ grab' = Minus(objs[o].pos, At)
          /\ drag_event_cb(o, << 0, 0 >>)
          /\ UNCHANGED <<icons, usedFreed>>

hold ==
  /\ Ended
  /\ data.pressed /\ indev_obj # None
  /\ IF indev_obj = Screen
       THEN UNCHANGED objs
       ELSE drag_event_cb(indev_obj, Minus(At, point))
  /\ UNCHANGED <<indev_obj, grab, icons, usedFreed>>

release ==
  /\ Ended
  /\ ~ data.pressed
  /\ indev_obj' = None
  /\ IF indev_obj \in {None, Screen}
       THEN UNCHANGED iconVars
       ELSE click_event_cb(indev_obj)
  /\ UNCHANGED grab

-----------------------------------------------------------------------------
Init ==
  /\ mouse_x = 200 /\ mouse_y = 200 /\ left_down = FALSE
  /\ packets = 0
  /\ pc = "loop"
  /\ data = [x |-> 0, y |-> 0, pressed |-> FALSE]
  /\ held = {}
  /\ point = << 0, 0 >> /\ indev_obj = None /\ grab = << 0, 0 >>
  /\ objs = [o \in {} |-> None] /\ icons = [a \in {} |-> None]
  /\ usedFreed = FALSE

(* lv_timer_handler calls the read callback in the main loop. *)
MainStep ==
  \/ mouse_get_x \/ mouse_get_y \/ mouse_left_pressed
  \/ press \/ hold \/ release

Next ==
  \/ \E move \in Moves, left \in BOOLEAN :
       mouse_process_byte(move[1], move[2], left)
  \/ MainStep
  \/ \E a \in Addresses, o \in Objects, place \in Places : icon_create(a, o, place)
  \/ \E a \in Addresses : icon_destroy(a)

Spec == Init /\ [][Next]_vars

(* The main loop runs on. *)
FairSpec == Spec /\ WF_vars(MainStep)

-----------------------------------------------------------------------------
(* The variables keep their types. *)
TypeOK ==
  /\ mouse_x \in Int /\ mouse_y \in Int /\ left_down \in BOOLEAN
  /\ pc \in {"loop", "y", "button", "events"}
  /\ data \in [x : Int, y : Int, pressed : BOOLEAN]
  /\ indev_obj \in DOMAIN objs \cup {None, Screen}
  /\ DOMAIN objs \subseteq Objects /\ DOMAIN icons \subseteq Addresses

(* icon.c:30-79: LVGL's callbacks get the record of an icon that is alive  *)
(* and owns the object they are called for, and no object outlives its     *)
(* icon, however creation, dragging, clicks and destruction mix and        *)
(* although kmalloc hands out the same address again.                      *)
CallbackDataIsLive ==
  /\ \A o \in DOMAIN objs :
       LET a == objs[o].user_data
       IN  a \in DOMAIN icons /\ icons[a].container = o
  /\ \A a \in DOMAIN icons : icons[a].container \in DOMAIN objs
  /\ ~ usedFreed

(* icon.c:8-18: an icon that is dragged stays where it is under the        *)
(* pointer LVGL sees, although packets come between the loads of a         *)
(* position and between two reads.                                         *)
IconFollowsPointer ==
  indev_obj \in DOMAIN objs => Minus(objs[indev_obj].pos, point) = grab

(* Once the mouse is quiet LVGL gets its position and button right, and an *)
(* object is held exactly as long as the button is.                        *)
PointerCatchesUp ==
  packets = MaxPackets ~>
    /\ point = << mouse_x, mouse_y >>
    /\ (indev_obj # None) = left_down

(* input.c:4-12: what LVGL gets is a state the driver was in.  Not so when  *)
(* a packet comes between two of the loads.                                *)
ReportsAreSnapshots == pc = "events" => data \in held
=============================================================================
