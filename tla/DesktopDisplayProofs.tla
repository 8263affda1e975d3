------------------------ MODULE DesktopDisplayProofs -----------------------
(***************************************************************************)
(* The safety of the desktop, in two proofs: of the way from the mouse to  *)
(* the icons, for every set of addresses, objects, places and movements    *)
(* and any number of packets; and of the way of LVGL's picture to the      *)
(* screen, for every framebuffer and every length of LVGL's buffer.        *)
(***************************************************************************)
EXTENDS Desktop, Display, SequenceTheorems, WellFoundedInduction, TLAPS

Points == Int \X Int

(* Types, and where LVGL's object and the grab come from. *)
Types ==
  /\ mouse_x \in Int /\ mouse_y \in Int /\ left_down \in BOOLEAN
  /\ pc \in {"loop", "y", "button", "events"}
  /\ data \in [x : Int, y : Int, pressed : BOOLEAN]
  /\ point \in Points
  /\ DOMAIN objs \subseteq Objects /\ DOMAIN icons \subseteq Addresses
  /\ objs \in [DOMAIN objs -> [pos : Points, user_data : Addresses]]
  /\ icons \in [DOMAIN icons -> [container : Objects, at : Points]]
  /\ indev_obj \in DOMAIN objs \cup {None, Screen}

(* Icons and containers point to each other. *)
Linked ==
  /\ \A o \in DOMAIN objs : objs[o].user_data \in DOMAIN icons
                            /\ icons[objs[o].user_data].container = o
  /\ \A a \in DOMAIN icons : icons[a].container \in DOMAIN objs
                             /\ objs[icons[a].container].user_data = a

-----------------------------------------------------------------------------
(* Points add and subtract by coordinates. *)
LEMMA Arithmetic ==
  ASSUME NEW p \in Points, NEW q \in Points, NEW r \in Points
  PROVE  /\ Plus(p, q) \in Points /\ Minus(p, q) \in Points
         /\ Plus(p, << 0, 0 >>) = p
         /\ Minus(Plus(p, Minus(q, r)), q) = Minus(p, r)
BY DEF Plus, Minus, Points

(* Moving one object leaves the others and every link alone. *)
LEMMA Dragging ==
  ASSUME Types, NEW o \in DOMAIN objs, NEW vect \in Points, drag_event_cb(o, vect)
  PROVE  /\ DOMAIN objs' = DOMAIN objs
         /\ objs' \in [DOMAIN objs' -> [pos : Points, user_data : Addresses]]
         /\ objs'[o].pos = Plus(objs[o].pos, vect)
         /\ \A q \in DOMAIN objs : objs'[q].user_data = objs[q].user_data
<1>1. Plus(objs[o].pos, vect) \in Points
  BY Arithmetic DEF Types
<1> QED BY <1>1 DEF Types, drag_event_cb

-----------------------------------------------------------------------------
LEMMA TypesInit == Init => Types
<1> SUFFICES ASSUME Init PROVE Types
  OBVIOUS
<1>1. /\ objs \in [DOMAIN objs -> [pos : Points, user_data : Addresses]]
      /\ DOMAIN objs = {}
  BY DEF Init
<1>2. /\ icons \in [DOMAIN icons -> [container : Objects, at : Points]]
      /\ DOMAIN icons = {}
  BY DEF Init
<1>3. mouse_x \in Int /\ mouse_y \in Int /\ pc = "loop" /\ indev_obj = None
  BY SMT DEF Init
<1>4. left_down \in BOOLEAN
  BY Zenon DEF Init
<1>5. data \in [x : Int, y : Int, pressed : BOOLEAN]
  BY DEF Init
<1>6. point \in Points
  BY DEF Init, Points
<1> QED BY <1>1, <1>2, <1>3, <1>4, <1>5, <1>6 DEF Types

LEMMA TypesStep == Types /\ [Next]_vars => Types'
<1> SUFFICES ASSUME Types, [Next]_vars PROVE Types'
  OBVIOUS
<1>1. ASSUME NEW move \in Moves, NEW left \in BOOLEAN,
             mouse_process_byte(move[1], move[2], left)
      PROVE  Types'
  <2>1. move[1] \in Int /\ move[2] \in Int
    BY SizesAssumption
  <2> QED BY <1>1, <2>1 DEF Types, mouse_process_byte, lvglVars, iconVars
<1>2. CASE mouse_get_x
  BY <1>2 DEF Types, mouse_get_x, mouseVars, lvglVars, iconVars
<1>3. CASE mouse_get_y
  BY <1>3 DEF Types, mouse_get_y, mouseVars, lvglVars, iconVars
<1>4. CASE mouse_left_pressed
  BY <1>4 DEF Types, mouse_left_pressed, mouseVars, lvglVars, iconVars
<1>5. At \in Points
  BY DEF Types, At, Points
<1>6. CASE press
  <2>1. /\ UNCHANGED <<mouse_x, mouse_y, left_down, data, icons>>
        /\ pc' = "loop" /\ point' \in Points
    BY <1>5, <1>6 DEF press, Ended, mouseVars, iconVars
  <2>2. CASE indev_obj' = Screen /\ UNCHANGED objs
    BY <2>1, <2>2 DEF Types
  <2>3. ASSUME NEW o \in DOMAIN objs, indev_obj' = o, drag_event_cb(o, << 0, 0 >>)
        PROVE  Types'
    <3>1. << 0, 0 >> \in Points
      BY DEF Points
    <3>2. DOMAIN objs' = DOMAIN objs
          /\ objs' \in [DOMAIN objs' -> [pos : Points, user_data : Addresses]]
      BY <2>3, <3>1, Dragging
    <3> QED BY <2>1, <2>3, <3>2 DEF Types
  <2> QED BY <1>6, <2>2, <2>3 DEF press, Under, iconVars
<1>7. CASE hold
  <2>1. /\ UNCHANGED <<mouse_x, mouse_y, left_down, data, icons, indev_obj>>
        /\ pc' = "loop" /\ point' \in Points
    BY <1>5, <1>7 DEF hold, Ended, mouseVars
  <2>2. CASE indev_obj = Screen
    BY <1>7, <2>1, <2>2 DEF Types, hold
  <2>3. CASE indev_obj # Screen
    <3>1. indev_obj \in DOMAIN objs /\ drag_event_cb(indev_obj, Minus(At, point))
      BY <1>7, <2>3 DEF Types, hold
    <3>2. Minus(At, point) \in Points
      BY <1>5, Arithmetic DEF Types
    <3>3. DOMAIN objs' = DOMAIN objs
          /\ objs' \in [DOMAIN objs' -> [pos : Points, user_data : Addresses]]
      BY <3>1, <3>2, Dragging
    <3> QED BY <2>1, <3>3 DEF Types
  <2> QED BY <2>2, <2>3
<1>8. CASE release
  <2>1. /\ UNCHANGED <<mouse_x, mouse_y, left_down, data>>
        /\ pc' = "loop" /\ point' \in Points /\ indev_obj' = None
    BY <1>5, <1>8 DEF release, Ended, mouseVars
  <2>2. CASE UNCHANGED iconVars
    BY <2>1, <2>2 DEF Types, iconVars
  <2>3. CASE icon_destroyed(objs[indev_obj].user_data)
    BY <2>1, <2>3 DEF Types, icon_destroyed, Without
  <2> QED BY <1>8, <2>2, <2>3 DEF release, click_event_cb
<1>9. ASSUME NEW a \in Addresses, NEW o \in Objects, NEW place \in Places,
             icon_create(a, o, place)
      PROVE  Types'
  <2>1. place \in Points
    BY SizesAssumption DEF Points
  <2> QED BY <1>9, <2>1 DEF Types, icon_create, With, mouseVars, readVars, lvglVars
<1>10. ASSUME NEW a \in Addresses, icon_destroy(a) PROVE Types'
  BY <1>10 DEF Types, icon_destroy, icon_destroyed, Without, mouseVars, readVars
<1>11. CASE UNCHANGED vars
  BY <1>11 DEF Types, vars
<1> QED
  BY <1>1, <1>2, <1>3, <1>4, <1>6, <1>7, <1>8, <1>9, <1>10, <1>11 DEF Next, MainStep

LEMMA TypesAlways == Spec => []Types
BY TypesInit, TypesStep, PTL DEF Spec
-----------------------------------------------------------------------------
(* The containers' user data and the records' containers change only where *)
(* an icon is made or destroyed, and there both go together.               *)
LEMMA LinkedStep ==
  ASSUME ~ ClickDestroys, Types, Linked, ~ usedFreed, [Next]_vars
  PROVE  Linked' /\ ~ usedFreed'
<1> DEFINE Kept == /\ DOMAIN objs' = DOMAIN objs
                   /\ \A o \in DOMAIN objs : objs'[o].user_data = objs[o].user_data
<1>1. ASSUME Kept, icons' = icons PROVE Linked'
  BY <1>1 DEF Linked
<1>2. ASSUME NEW o \in DOMAIN objs, NEW vect \in Points, drag_event_cb(o, vect) PROVE Kept
  BY <1>2, Dragging
<1>3. CASE UNCHANGED iconVars
  BY <1>1, <1>3 DEF iconVars
<1>4. CASE press
  <2>1. CASE \E o \in Under : drag_event_cb(o, << 0, 0 >>) /\ UNCHANGED <<icons, usedFreed>>
    <3>1. << 0, 0 >> \in Points
      BY DEF Points
    <3> QED BY <1>1, <1>2, <2>1, <3>1 DEF Under
  <2> QED BY <1>3, <1>4, <2>1 DEF press
<1>5. CASE hold
  <2>1. CASE indev_obj = Screen
    BY <1>3, <1>5, <2>1 DEF hold, iconVars
  <2>2. CASE indev_obj # Screen
    <3>1. indev_obj \in DOMAIN objs
      BY <1>5, <2>2 DEF hold, Types
    <3>2. Minus(At, point) \in Points
      BY Arithmetic DEF Types, At, Points
    <3> QED BY <1>1, <1>2, <1>5, <2>2, <3>1, <3>2 DEF hold
  <2> QED BY <2>1, <2>2
<1>6. CASE release
  BY <1>3, <1>6 DEF release, click_event_cb
<1>7. ASSUME NEW a \in Addresses, NEW o \in Objects, NEW place \in Places,
             icon_create(a, o, place)
      PROVE  Linked' /\ ~ usedFreed'
  BY <1>7 DEF Linked, icon_create, With
<1>8. ASSUME NEW a \in Addresses, icon_destroy(a) PROVE Linked' /\ ~ usedFreed'
  BY <1>8 DEF Linked, icon_destroy, icon_destroyed, Without
<1> QED
  BY <1>3, <1>4, <1>5, <1>6, <1>7, <1>8
  DEF Next, MainStep, vars, iconVars,
      mouse_process_byte, mouse_get_x, mouse_get_y, mouse_left_pressed

(* icon.c:30-79: for every heap and any number of icons the callbacks get  *)
(* the record of a live icon that owns their object.                       *)
THEOREM CallbacksAreSafe ==
  ASSUME ~ ClickDestroys
  PROVE  Spec => []CallbackDataIsLive
<1>1. Init => Linked /\ ~ usedFreed
  BY DEF Init, Linked
<1>2. Types /\ Linked /\ ~ usedFreed /\ [Next]_vars => Linked' /\ ~ usedFreed'
  BY LinkedStep
<1>3. Linked /\ ~ usedFreed => CallbackDataIsLive
  BY DEF Linked, CallbackDataIsLive
<1> QED BY <1>1, <1>2, <1>3, TypesAlways, PTL DEF Spec

-----------------------------------------------------------------------------
(* The object that is held moves by what the pointer moved, and nothing    *)
(* else moves it; an object made under a pointer that holds another, or    *)
(* the background, is not taken for it.                                    *)
Grabbed == IconFollowsPointer /\ grab \in Points

LEMMA GrabStep ==
  ASSUME Types, Grabbed, [Next]_vars
  PROVE  Grabbed'
<1> USE DEF Grabbed
<1> DEFINE Same == UNCHANGED <<objs, indev_obj, point, grab>>
<1>1. At \in Points
  BY DEF Types, At, Points
<1>2. CASE Same
  BY <1>2 DEF IconFollowsPointer
<1>3. CASE press
  <2>1. point' = At
    BY <1>3 DEF press, Ended
  <2>2. CASE indev_obj' = Screen /\ UNCHANGED <<grab, objs>>
    BY <2>2, ObjectsAssumption DEF Types, IconFollowsPointer
  <2>3. ASSUME NEW o \in Under, indev_obj' = o, grab' = Minus(objs[o].pos, At),
               drag_event_cb(o, << 0, 0 >>)
        PROVE  Grabbed'
    <3>1. o \in DOMAIN objs /\ objs[o].pos \in Points /\ << 0, 0 >> \in Points
      BY DEF Under, Types, Points
    <3>2. objs'[o].pos = objs[o].pos
      BY <2>3, <3>1, Dragging, Arithmetic
    <3>3. grab' \in Points
      BY <1>1, <2>3, <3>1, Arithmetic
    <3> QED BY <2>1, <2>3, <3>2, <3>3 DEF IconFollowsPointer
  <2> QED BY <1>3, <2>2, <2>3 DEF press, iconVars
<1>4. CASE hold
  <2>1. point' = At /\ UNCHANGED <<indev_obj, grab>>
    BY <1>4 DEF hold, Ended
  <2>2. CASE indev_obj = Screen
    BY <1>4, <2>1, <2>2, ObjectsAssumption DEF hold, Types, IconFollowsPointer
  <2>3. CASE indev_obj # Screen
    <3>1. indev_obj \in DOMAIN objs /\ drag_event_cb(indev_obj, Minus(At, point))
      BY <1>4, <2>3 DEF hold, Types
    <3>2. objs[indev_obj].pos \in Points /\ point \in Points
      BY <3>1 DEF Types
    <3>3. Minus(At, point) \in Points
      BY <1>1, <3>2, Arithmetic
    <3>4. objs'[indev_obj].pos = Plus(objs[indev_obj].pos, Minus(At, point))
      BY <3>1, <3>3, Dragging
    <3>5. Minus(objs'[indev_obj].pos, At) = Minus(objs[indev_obj].pos, point)
      <4>1. Minus(Plus(objs[indev_obj].pos, Minus(At, point)), At)
              = Minus(objs[indev_obj].pos, point)
        BY <1>1, <3>2, Arithmetic
      <4> QED BY <3>4, <4>1
    <3> QED BY <2>1, <3>1, <3>5 DEF IconFollowsPointer
  <2> QED BY <2>2, <2>3
<1>5. CASE release
  <2>1. indev_obj' = None /\ UNCHANGED grab
    BY <1>5 DEF release
  <2>2. DOMAIN objs' \subseteq DOMAIN objs
    BY <1>5 DEF release, click_event_cb, icon_destroyed, Without, iconVars
  <2> QED BY <2>1, <2>2, ObjectsAssumption DEF Types, IconFollowsPointer
<1>6. ASSUME NEW a \in Addresses, NEW o \in Objects, NEW place \in Places,
             icon_create(a, o, place)
      PROVE  Grabbed'
  <2>1. indev_obj # o \/ indev_obj \in DOMAIN objs
    BY ObjectsAssumption DEF Types
  <2> QED BY <1>6, <2>1 DEF icon_create, With, lvglVars, Types, IconFollowsPointer
<1>7. ASSUME NEW a \in Addresses, icon_destroy(a)
      PROVE  Grabbed'
  BY <1>7, ObjectsAssumption
  DEF icon_destroy, icon_destroyed, Without, Types, IconFollowsPointer
<1> QED
  BY <1>2, <1>3, <1>4, <1>5, <1>6, <1>7
  DEF Next, MainStep, vars, lvglVars, iconVars,
      mouse_process_byte, mouse_get_x, mouse_get_y, mouse_left_pressed

(* icon.c:8-18: for every placement of packets among the reads a dragged   *)
(* icon keeps its place under the pointer, also when clicks may destroy.   *)
THEOREM DraggedIconFollows == Spec => []IconFollowsPointer
<1>1. Init => Grabbed
  BY DEF Init, Grabbed, IconFollowsPointer, Points
<1>2. Types /\ Grabbed /\ [Next]_vars => Grabbed'
  BY GrabStep
<1>3. Grabbed => IconFollowsPointer
  BY DEF Grabbed
<1> QED BY <1>1, <1>2, <1>3, TypesAlways, PTL DEF Spec

-----------------------------------------------------------------------------
(* Induction over the naturals by a set of them. *)
LEMMA SetInduction ==
  ASSUME NEW S, 0 \in S, \A n \in Nat : n \in S => n + 1 \in S
  PROVE  Nat \subseteq S
<1> DEFINE T == Nat \ S
<1> SUFFICES ASSUME T # {} PROVE FALSE
  OBVIOUS
<1>1. \E x \in T : \A y \in T : ~ (<<y, x>> \in OpToRel(<, Nat))
  <2>1. T \subseteq Nat
    OBVIOUS
  <2> HIDE DEF T
  <2>2. \E x \in T : \A y \in T : ~ (<<y, x>> \in OpToRel(<, Nat))
    BY <2>1, NatLessThanWellFounded, WFMin, Zenon
  <2> QED BY <2>2
<1>2. PICK x \in T : \A y \in T : ~ (<<y, x>> \in OpToRel(<, Nat))
  BY <1>1, Zenon
<1>3. \A y \in T : ~ (y < x)
  <2> SUFFICES ASSUME NEW y \in T, y < x PROVE FALSE
    BY Zenon
  <2>1. <<y, x>> \in Nat \X Nat /\ <<y, x>>[1] = y /\ <<y, x>>[2] = x
    OBVIOUS
  <2>2. <<y, x>> \in OpToRel(<, Nat)
    BY <2>1, Zenon DEF OpToRel
  <2> QED BY <2>2, <1>2, Zenon
<1>4. x # 0 /\ x - 1 \in Nat
  OBVIOUS
<1>5. x - 1 \in S
  BY <1>3, <1>4
<1> QED BY <1>4, <1>5, x - 1 + 1 = x

-----------------------------------------------------------------------------
(* The images of memory PutAll goes through: images[n] after n rows. *)
Drawing(images, N, m, start, rows) ==
  /\ images[0] = m
  /\ \A n \in 1 .. N : images[n] = Put(images[n - 1], start[n], rows[n])

(* The same as one function of its own. *)
Draws(images, m, start, rows) ==
  images = [n \in 0 .. Len(rows) |->
              IF n = 0 THEN m ELSE Put(images[n - 1], start[n], rows[n])]

LEMMA PutType ==
  ASSUME NEW D, NEW V, NEW m \in [D -> V], NEW place, NEW row \in Seq(V)
  PROVE  Put(m, place, row) \in [D -> V]
<1>1. ASSUME NEW i \in D
      PROVE  (IF i - place + 1 \in DOMAIN row THEN row[i - place + 1] ELSE m[i]) \in V
  OBVIOUS
<1> QED BY <1>1 DEF Put

LEMMA DrawingExists ==
  ASSUME NEW D, NEW V, NEW m \in [D -> V], NEW start, NEW rows \in Seq(Seq(V))
  PROVE  \A N \in 0 .. Len(rows) :
           \E images \in [0 .. N -> [D -> V]] : Drawing(images, N, m, start, rows)
<1> DEFINE W == [D -> V]
           P(N) == \E images \in [0 .. N -> W] : Drawing(images, N, m, start, rows)
           S == { N \in Nat : N <= Len(rows) => P(N) }
<1>0. Len(rows) \in Nat
  OBVIOUS
<1>1. 0 \in S
  <2> DEFINE images == [n \in 0 .. 0 |-> m]
  <2>1. images \in [0 .. 0 -> W] /\ images[0] = m
    OBVIOUS
  <2> HIDE DEF images
  <2>2. Drawing(images, 0, m, start, rows)
    BY <2>1 DEF Drawing
  <2> QED BY <2>1, <2>2
<1>2. ASSUME NEW N \in Nat, N \in S PROVE N + 1 \in S
  <2> SUFFICES ASSUME N + 1 <= Len(rows) PROVE P(N + 1)
    <3> HIDE DEF P
    <3> QED OBVIOUS
  <2>0. P(N)
    <3> HIDE DEF P
    <3> QED BY <1>0, <1>2
  <2>1. PICK images \in [0 .. N -> W] : Drawing(images, N, m, start, rows)
    BY <2>0, Zenon
  <2> DEFINE next == Put(images[N], start[N + 1], rows[N + 1])
             longer == [n \in 0 .. N + 1 |-> IF n = N + 1 THEN next ELSE images[n]]
  <2>2. next \in W
    <3>1. rows[N + 1] \in Seq(V) /\ images[N] \in [D -> V]
      BY <1>0
    <3> QED BY <3>1, PutType
  <2> HIDE DEF next, W
  <2>3. longer \in [0 .. N + 1 -> W]
    BY <2>2
  <2>4. longer[N + 1] = next /\ \A n \in 0 .. N : longer[n] = images[n]
    OBVIOUS
  <2> HIDE DEF longer
  <2>5. longer[0] = m
    BY <2>1, <2>4 DEF Drawing
  <2>6. ASSUME NEW n \in 1 .. N + 1
        PROVE  longer[n] = Put(longer[n - 1], start[n], rows[n])
    <3>1. n - 1 \in 0 .. N /\ longer[n - 1] = images[n - 1]
      BY <2>4
    <3>2. CASE n = N + 1
      <4>1. n - 1 = N
        BY <3>2
      <4> QED BY <2>4, <3>1, <3>2, <4>1 DEF next
    <3>3. CASE n \in 1 .. N
      BY <2>1, <2>4, <3>1, <3>3 DEF Drawing
    <3> QED BY <3>2, <3>3
  <2>7. Drawing(longer, N + 1, m, start, rows)
    BY <2>5, <2>6 DEF Drawing
  <2> QED BY <2>3, <2>7
<1>3. Nat \subseteq S
  <2> HIDE DEF S
  <2> QED BY <1>1, <1>2, SetInduction
<1>4. \A N \in 0 .. Len(rows) : P(N)
  <2> HIDE DEF P
  <2> QED BY <1>0, <1>3
<1> QED BY <1>4, Zenon

(* Images is such a sequence. *)
LEMMA ImagesDraw ==
  ASSUME NEW D, NEW V, NEW m \in [D -> V], NEW start, NEW rows \in Seq(Seq(V))
  PROVE  /\ Drawing(Images(m, start, rows), Len(rows), m, start, rows)
         /\ \A n \in 0 .. Len(rows) : Images(m, start, rows)[n] \in [D -> V]
<1> DEFINE N == Len(rows)
<1>0. N \in Nat
  OBVIOUS
<1>1. PICK images \in [0 .. N -> [D -> V]] : Drawing(images, N, m, start, rows)
  <2>1. N \in 0 .. Len(rows)
    BY <1>0
  <2>2. \E images \in [0 .. N -> [D -> V]] : Drawing(images, N, m, start, rows)
    BY <2>1, DrawingExists, Zenon
  <2> QED BY <2>2, Zenon
<1>2. Draws(images, m, start, rows)
  <2>1. \A n \in 0 .. N :
          images[n] = IF n = 0 THEN m ELSE Put(images[n - 1], start[n], rows[n])
    BY <1>0, <1>1 DEF Drawing
  <2> QED BY <2>1 DEF Draws
<1>3. Draws(Images(m, start, rows), m, start, rows)
  BY <1>2, Zenon DEF Images, Draws
<1> DEFINE made == Images(m, start, rows)
<1> HIDE DEF made
<1>4. \A n \in 0 .. N :
        made[n] = IF n = 0 THEN m ELSE Put(made[n - 1], start[n], rows[n])
  <2>1. made = [n \in 0 .. N |->
                  IF n = 0 THEN m ELSE Put(made[n - 1], start[n], rows[n])]
    BY <1>3, Zenon DEF Draws, made
  <2> QED BY <2>1, Zenon
<1>5. Drawing(made, N, m, start, rows)
  <2>1. 0 \in 0 .. N /\ \A n \in 1 .. N : n \in 0 .. N /\ n # 0
    BY <1>0
  <2> QED BY <1>4, <2>1, Zenon DEF Drawing
<1> DEFINE S == { n \in Nat : n <= N => made[n] \in [D -> V] }
<1>6. 0 \in S
  BY <1>5 DEF Drawing
<1>7. ASSUME NEW n \in Nat, n \in S PROVE n + 1 \in S
  <2> SUFFICES ASSUME n + 1 <= N PROVE made[n + 1] \in [D -> V]
    OBVIOUS
  <2>1. made[n] \in [D -> V] /\ n + 1 \in 1 .. N
    BY <1>0, <1>7
  <2>2. rows[n + 1] \in Seq(V)
    BY <2>1
  <2>3. made[n + 1] = Put(made[n], start[n + 1], rows[n + 1])
    BY <1>5, <2>1 DEF Drawing
  <2> QED BY <2>1, <2>2, <2>3, PutType
<1>8. Nat \subseteq S
  <2> HIDE DEF S
  <2> QED BY <1>6, <1>7, SetInduction
<1> QED BY <1>0, <1>5, <1>8 DEF made

-----------------------------------------------------------------------------
Values == Colors \cup {Dark, Old}

(* The words of a row, those that are not seen included, and all places. *)
RowWords == mbi.pitch \div 4
Cells    == 0 .. RowWords * mbi.height + Behind - 1

InScreen(area) ==
  /\ area \in [x1 : Nat, y1 : Nat, x2 : Nat, y2 : Nat]
  /\ area.x1 \in Nat /\ area.x2 \in area.x1 .. mbi.width - 1
  /\ area.y1 \in Nat /\ area.y2 \in area.y1 .. mbi.height - 1

(* Types; every pitch but that of framebuffer.c is in words; no picture is *)
(* in memory before the main loop.                                         *)
DisplayTypes ==
  /\ main_pc \in {"READ_FRAMEBUFFER", "INIT_FRAMEBUFFER", "clear_screen", "LVGL_INIT", "loop"}
  /\ mbi \in Framebuffers
  /\ mem \in [Cells -> Values]
  /\ picture \in [Pixels -> Colors]
  /\ main_pc # "READ_FRAMEBUFFER" => kernel_pitch = RowWords
  /\ main_pc = "loop" => ctx_pitch = RowWords
  /\ main_pc # "loop" => dirty = NoArea /\ \A i \in Cells : mem[i] \notin Colors
  /\ dirty = NoArea \/ InScreen(dirty)

DisplayInv == DisplayTypes /\ ScreenShowsThePicture

-----------------------------------------------------------------------------
LEMMA Layout ==
  ASSUME mbi \in Framebuffers
  PROVE  /\ mbi.width \in Nat /\ mbi.width >= 1 /\ mbi.width <= BufferPixels
         /\ mbi.height \in Nat /\ mbi.height >= 1
         /\ RowWords \in Nat /\ RowWords >= mbi.width
<1>1. /\ mbi \in [width : Nat, height : Nat, pitch : Nat]
      /\ mbi.pitch >= 4 * mbi.width
      /\ mbi.width \in 1 .. BufferPixels /\ mbi.height > 0
  BY FramebuffersAssumption
<1>2. mbi.width \in Nat /\ mbi.height \in Nat /\ mbi.pitch \in Nat
  BY <1>1
<1>3. \A a, w \in Nat : a >= 4 * w => a \div 4 \in Nat /\ a \div 4 >= w
  BY Z3
<1> QED BY <1>1, <1>2, <1>3, FramebuffersAssumption DEF RowWords

(* Rows of R words that are at most W long from place x on do not meet. *)
LEMMA RowsApart ==
  ASSUME NEW R \in Nat, NEW a \in Nat, NEW b \in Nat, NEW x \in Nat, NEW y \in Nat,
         x < R, y < R
  PROVE  /\ a > b => a * R + x >= b * R + R + x
         /\ a * R + x - (b * R + y) \in 0 .. R - 1 - y => a = b
<1>1. a > b => a * R >= b * R + R
  <2> SUFFICES ASSUME a >= b + 1 PROVE a * R >= (b + 1) * R /\ (b + 1) * R = b * R + R
    BY Z3
  <2>1. \A m, n, r \in Nat : m >= n => m * r >= n * r
    BY Z3
  <2>2. a * R >= (b + 1) * R
    BY <2>1
  <2>3. (b + 1) * R = b * R + R
    BY Z3
  <2> QED BY <2>2, <2>3
<1>2. b > a => b * R >= a * R + R
  <2> SUFFICES ASSUME b >= a + 1 PROVE b * R >= (a + 1) * R /\ (a + 1) * R = a * R + R
    BY Z3
  <2>1. \A m, n, r \in Nat : m >= n => m * r >= n * r
    BY Z3
  <2>2. b * R >= (a + 1) * R
    BY <2>1
  <2>3. (a + 1) * R = a * R + R
    BY Z3
  <2> QED BY <2>2, <2>3
<1>3. a * R \in Nat /\ b * R \in Nat
  BY Z3
<1> DEFINE aR == a * R
           bR == b * R
<1>4. aR \in Nat /\ bR \in Nat /\ (a > b => aR >= bR + R) /\ (b > a => bR >= aR + R)
  BY <1>1, <1>2, <1>3
<1> HIDE DEF aR, bR
<1>5. /\ a > b => aR + x >= bR + R + x
      /\ aR + x - (bR + y) \in 0 .. R - 1 - y => a = b
  BY <1>4
<1> QED BY <1>5 DEF aR, bR

LEMMA WordInside ==
  ASSUME mbi \in Framebuffers, NEW p \in Pixels
  PROVE  Word(p) \in Cells /\ Word(p) = p[1] * RowWords + p[2]
<1>1. /\ p[1] \in 0 .. mbi.height - 1 /\ p[2] \in 0 .. mbi.width - 1
      /\ Word(p) = p[1] * RowWords + p[2]
  BY DEF Pixels, Word, RowWords
<1> DEFINE H == mbi.height
           R == RowWords
           y == p[1]
           x == p[2]
<1>2. H \in Nat /\ R \in Nat /\ y \in Nat /\ x \in Nat /\ H > y /\ R > x
  BY <1>1, Layout
<1>3. Behind \in Nat
  BY FramebuffersAssumption
<1> HIDE DEF H, R, x, y
<1>4. H * R >= y * R + R
  <2>1. \A m, n, r \in Nat : m >= n => m * r >= n * r
    BY Z3
  <2>2. H * R >= (y + 1) * R /\ (y + 1) * R = y * R + R
    <3>1. y + 1 \in Nat /\ H >= y + 1
      BY <1>2
    <3>2. H * R >= (y + 1) * R
      BY <1>2, <2>1, <3>1
    <3>3. (y + 1) * R = y * R + R
      BY <1>2, Z3
    <3> QED BY <3>2, <3>3
  <2> QED BY <1>2, <2>2
<1>5. R * H = H * R /\ y * R \in Nat /\ H * R \in Nat
  BY <1>2, Z3
<1>6. y * R + x \in 0 .. R * H + Behind - 1
  <2> DEFINE yR == y * R
             HR == H * R
  <2>1. yR \in Nat /\ HR \in Nat /\ HR >= yR + R /\ R * H = HR
    BY <1>4, <1>5
  <2> HIDE DEF yR, HR
  <2>2. yR + x \in 0 .. HR + Behind - 1
    BY <1>2, <1>3, <2>1
  <2> QED BY <2>1, <2>2 DEF yR, HR
<1> QED BY <1>1, <1>6 DEF Cells, H, R, x, y

-----------------------------------------------------------------------------
(* A strip is a part of the dirty area that starts where it starts. *)
LEMMA StripInside ==
  ASSUME mbi \in Framebuffers, InScreen(dirty)
  PROVE  /\ Strip.x1 = dirty.x1 /\ Strip.x2 = dirty.x2 /\ Strip.y1 = dirty.y1
         /\ Strip.y2 \in dirty.y1 .. dirty.y2
         /\ InScreen(Strip)
<1> DEFINE width == dirty.x2 - dirty.x1 + 1
           rows == BufferPixels \div width
           y1 == dirty.y1
           y2 == dirty.y2
<1>1. /\ dirty \in [x1 : Nat, y1 : Nat, x2 : Nat, y2 : Nat]
      /\ dirty.x1 \in Nat /\ dirty.x2 \in dirty.x1 .. mbi.width - 1
      /\ y1 \in Nat /\ y2 \in y1 .. mbi.height - 1
  BY DEF InScreen
<1>2. rows \in Nat /\ rows >= 1
  <2>1. width \in Nat /\ width >= 1 /\ width <= BufferPixels /\ BufferPixels \in Nat
    BY <1>1, Layout, FramebuffersAssumption
  <2>2. \A b, w \in Nat : w >= 1 /\ w <= b => b \div w \in Nat /\ b \div w >= 1
    BY Z3
  <2> QED BY <2>1, <2>2
<1> HIDE DEF rows
<1>3. Strip = [dirty EXCEPT !.y2 = IF @ < y1 + rows THEN @ ELSE y1 + rows - 1]
  BY Zenon DEF Strip, rows
<1> DEFINE end == IF y2 < y1 + rows THEN y2 ELSE y1 + rows - 1
<1>4. /\ Strip.x1 = dirty.x1 /\ Strip.x2 = dirty.x2 /\ Strip.y1 = y1
      /\ Strip.y2 = end
  BY <1>1, <1>3
<1>5. end \in y1 .. y2
  BY <1>1, <1>2
<1>6. Strip \in [x1 : Nat, y1 : Nat, x2 : Nat, y2 : Nat]
  <2>1. end \in Nat
    BY <1>1, <1>5
  <2> QED BY <1>1, <1>3, <2>1
<1> QED BY <1>1, <1>4, <1>5, <1>6, Layout DEF InScreen

(* What LVGL hands out: pixel k of row n of the area, row after row. *)
LEMMA HandedOut ==
  ASSUME mbi \in Framebuffers, picture \in [Pixels -> Colors],
         NEW area, InScreen(area),
         NEW n \in 1 .. area.y2 - area.y1 + 1, NEW k \in 1 .. area.x2 - area.x1 + 1
  PROVE  LET width == area.x2 - area.x1 + 1
         IN  /\ (n - 1) * width + k \in 1 .. width * (area.y2 - area.y1 + 1)
             /\ px_map(area)[(n - 1) * width + k]
                  = picture[<<area.y1 + n - 1, area.x1 + k - 1>>]
             /\ <<area.y1 + n - 1, area.x1 + k - 1>> \in Pixels
<1> DEFINE width == area.x2 - area.x1 + 1
           height == area.y2 - area.y1 + 1
           place == (n - 1) * width + k
<1>1. /\ area.x1 \in Nat /\ area.x2 \in area.x1 .. mbi.width - 1
      /\ area.y1 \in Nat /\ area.y2 \in area.y1 .. mbi.height - 1
      /\ mbi.width \in Nat /\ mbi.height \in Nat
  BY Layout DEF InScreen
<1>2. /\ width \in Nat /\ height \in Nat /\ n - 1 \in Nat /\ n <= height
      /\ k - 1 \in Nat /\ k <= width
  BY <1>1
<1>3. \A a, w, b \in Nat :
        b < w => (a * w + b) \div w = a /\ (a * w + b) % w = b
  BY Z3
<1>4. \A a, w, b, h \in Nat :
        b < w /\ a + 1 <= h => a * w + b + 1 \in 1 .. w * h
  <2> SUFFICES ASSUME NEW a \in Nat, NEW w \in Nat, NEW b \in Nat, NEW h \in Nat,
                      b < w, a + 1 <= h
               PROVE  a * w + b + 1 \in 1 .. w * h
    OBVIOUS
  <2>1. (a + 1) * w <= h * w
    BY \A i, j, v \in Nat : i <= j => i * v <= j * v, Z3
  <2>2. (a + 1) * w = a * w + w /\ h * w = w * h /\ a * w \in Nat /\ w * h \in Nat
    BY Z3
  <2> QED BY <2>1, <2>2
<1> HIDE DEF width, height
<1>5. /\ place - 1 = (n - 1) * width + (k - 1)
      /\ (place - 1) \div width = n - 1 /\ (place - 1) % width = k - 1
      /\ place \in 1 .. width * height
  <2>1. (n - 1) * width \in Nat
    BY <1>2, Z3
  <2>2. place - 1 = (n - 1) * width + (k - 1) /\ place = (n - 1) * width + (k - 1) + 1
    BY <1>2, <2>1
  <2>3. k - 1 < width
    BY <1>2
  <2>4. (n - 1) + 1 <= height
    BY <1>2
  <2> HIDE DEF place
  <2>5. /\ ((n - 1) * width + (k - 1)) \div width = n - 1
        /\ ((n - 1) * width + (k - 1)) % width = k - 1
    BY <1>2, <1>3, <2>3
  <2>6. (n - 1) * width + (k - 1) + 1 \in 1 .. width * height
    BY <1>2, <1>4, <2>3, <2>4
  <2>7. (place - 1) \div width = n - 1 /\ (place - 1) % width = k - 1
    BY <2>2, <2>5
  <2>8. place \in 1 .. width * height
    BY <2>2, <2>6
  <2> QED BY <2>2, <2>7, <2>8
<1>6. px_map(area) = [i \in 1 .. width * height |->
                        picture[<<area.y1 + ((i - 1) \div width),
                                  area.x1 + ((i - 1) % width)>>]]
  BY Zenon DEF px_map, width, height
<1> HIDE DEF place
<1>7. px_map(area)[place] = picture[<<area.y1 + (n - 1), area.x1 + (k - 1)>>]
  BY <1>5, <1>6
<1>8. area.y1 + (n - 1) = area.y1 + n - 1 /\ area.x1 + (k - 1) = area.x1 + k - 1
  BY <1>1, <1>2
<1>9. <<area.y1 + n - 1, area.x1 + k - 1>> \in Pixels
  <2>1. area.y1 + n - 1 \in 0 .. mbi.height - 1
    BY <1>1, <1>2 DEF height
  <2>2. area.x1 + k - 1 \in 0 .. mbi.width - 1
    BY <1>1, <1>2 DEF width
  <2> QED BY <2>1, <2>2 DEF Pixels
<1> QED BY <1>5, <1>7, <1>8, <1>9 DEF place, width, height

-----------------------------------------------------------------------------
Words == { Word(p) : p \in Pixels }

(* Put of a part of a row shows that part and touches nothing else. *)
LEMMA RowShows ==
  ASSUME mbi \in Framebuffers, NEW m \in [Cells -> Values],
         NEW y \in 0 .. mbi.height - 1, NEW x1 \in Nat, NEW x2 \in x1 .. mbi.width - 1,
         NEW row, DOMAIN row = 1 .. x2 - x1 + 1,
         \A k \in DOMAIN row : row[k] = picture[<<y, x1 + k - 1>>]
  PROVE  LET drawn == Put(m, y * RowWords + x1, row)
         IN  /\ \A p \in Pixels :
                  drawn[Word(p)] = IF p[1] = y /\ p[2] \in x1 .. x2 THEN picture[p]
                                                                    ELSE m[Word(p)]
             /\ \A i \in Cells \ Words : drawn[i] = m[i]
<1> DEFINE place == y * RowWords + x1
           drawn == Put(m, place, row)
<1>1. /\ mbi.width \in Nat /\ mbi.height \in Nat
      /\ RowWords \in Nat /\ RowWords >= mbi.width
  BY Layout
<1>2. y \in Nat /\ x1 < RowWords /\ x2 \in Nat /\ x2 < RowWords /\ place \in Nat
  <2>1. y \in Nat /\ x1 < RowWords /\ x2 \in Nat /\ x2 < RowWords
    BY <1>1
  <2>2. y * RowWords \in Nat
    BY <1>1, <2>1, Z3
  <2> QED BY <2>1, <2>2
<1>3. \A i \in Cells : drawn[i] = IF i - place + 1 \in DOMAIN row
                                    THEN row[i - place + 1] ELSE m[i]
  BY DEF Put
<1>4. ASSUME NEW p \in Pixels
      PROVE  drawn[Word(p)] = IF p[1] = y /\ p[2] \in x1 .. x2 THEN picture[p]
                                                              ELSE m[Word(p)]
  <2>1. /\ p[1] \in Nat /\ p[2] \in Nat /\ p[2] < RowWords /\ p = <<p[1], p[2]>>
        /\ Word(p) \in Cells /\ Word(p) = p[1] * RowWords + p[2]
    BY <1>1, WordInside DEF Pixels
  <2>0. Word(p) = p[1] * RowWords + p[2]
    BY <2>1
  <2> DEFINE pR  == p[1] * RowWords
             yR  == y * RowWords
             pW  == Word(p)
             off == pW - place
  <2>2. pR \in Nat /\ yR \in Nat /\ off = pR + p[2] - (yR + x1) /\ off \in Int
    <3>1. \A a, b \in Nat : a * b \in Nat
      BY Z3
    <3>2. pR \in Nat /\ yR \in Nat
      BY <1>1, <1>2, <2>1, <3>1
    <3>3. pW = pR + p[2] /\ place = yR + x1
      BY <2>0
    <3> HIDE DEF pR, yR, pW, place
    <3> QED BY <1>2, <2>1, <3>2, <3>3
  <2>3. off \in 0 .. RowWords - 1 - x1 => p[1] = y
    <3>1. p[1] * RowWords + p[2] - (y * RowWords + x1) \in 0 .. RowWords - 1 - x1
            => p[1] = y
      BY <1>1, <1>2, <2>1, RowsApart
    <3>2. pR + p[2] - (yR + x1) \in 0 .. RowWords - 1 - x1 => p[1] = y
      BY <3>1
    <3> HIDE DEF pR, yR, off
    <3> QED BY <2>2, <3>2
  <2>4. p[1] = y => off = p[2] - x1
    <3>1. p[1] = y => pR = yR
      OBVIOUS
    <3> HIDE DEF pR, yR, off
    <3> QED BY <2>1, <2>2, <3>1
  <2>5. off + 1 \in 1 .. x2 - x1 + 1 <=> p[1] = y /\ p[2] \in x1 .. x2
    <3> HIDE DEF off
    <3>1. ASSUME off + 1 \in 1 .. x2 - x1 + 1 PROVE p[1] = y
      <4>1. off \in 0 .. RowWords - 1 - x1
        BY <1>1, <1>2, <2>2, <3>1
      <4> QED BY <2>3, <4>1
    <3>2. p[1] = y => (off + 1 \in 1 .. x2 - x1 + 1 <=> p[2] \in x1 .. x2)
      BY <1>2, <2>1, <2>4
    <3> QED BY <3>1, <3>2
  <2>6. drawn[Word(p)] = IF off + 1 \in 1 .. x2 - x1 + 1 THEN row[off + 1] ELSE m[Word(p)]
    BY <1>3, <2>1
  <2>7. p[1] = y /\ p[2] \in x1 .. x2 => row[off + 1] = picture[p]
    <3> SUFFICES ASSUME p[1] = y, p[2] \in x1 .. x2 PROVE row[off + 1] = picture[p]
      OBVIOUS
    <3> HIDE DEF off
    <3>1. off + 1 \in DOMAIN row /\ off + 1 = p[2] - x1 + 1
      BY <2>4, <2>5
    <3>2. x1 + (off + 1) - 1 = p[2]
      BY <2>1, <2>2, <3>1
    <3> QED BY <2>1, <3>1, <3>2
  <2> HIDE DEF off
  <2> QED BY <2>5, <2>6, <2>7
<1>5. ASSUME NEW i \in Cells \ Words
      PROVE  drawn[i] = m[i]
  <2> DEFINE off == i - place
  <2>1. i \in Nat /\ drawn[i] = IF off + 1 \in 1 .. x2 - x1 + 1 THEN row[off + 1] ELSE m[i]
    BY <1>3 DEF Cells
  <2>2. SUFFICES ASSUME off + 1 \in 1 .. x2 - x1 + 1 PROVE FALSE
    BY <2>1
  <2> DEFINE p == <<y, x1 + off>>
  <2>3. off \in Nat /\ x1 + off \in x1 .. x2
    <3>1. off \in Int
      BY <1>2, <2>1
    <3> HIDE DEF off
    <3> QED BY <1>2, <2>2, <3>1
  <2>4. p \in Pixels
    BY <1>1, <1>2, <2>3 DEF Pixels
  <2>5. Word(p) = y * RowWords + (x1 + off)
    BY <2>4, WordInside
  <2>6. y * RowWords \in Nat
    BY <1>1, <1>2, Z3
  <2>7. Word(p) = i
    BY <1>2, <2>1, <2>5, <2>6
  <2> QED BY <2>4, <2>7 DEF Words
<1> QED BY <1>4, <1>5

(* A flushed area shows its part of the picture; nothing else changes. *)
LEMMA FlushedShows ==
  ASSUME DisplayTypes, main_pc = "loop", NEW area, InScreen(area)
  PROVE  LET flushed == Flushed(mem, area, px_map(area))
         IN  /\ flushed \in [Cells -> Values]
             /\ \A p \in Pixels :
                  flushed[Word(p)] =
                    IF p[1] \in area.y1 .. area.y2 /\ p[2] \in area.x1 .. area.x2
                      THEN picture[p] ELSE mem[Word(p)]
             /\ \A i \in Cells \ Words : flushed[i] = mem[i]
<1> DEFINE x1 == area.x1
           x2 == area.x2
           y1 == area.y1
           y2 == area.y2
           width == x2 - x1 + 1
           height == y2 - y1 + 1
           src == px_map(area)
           start == [n \in 1 .. height |-> (y1 + n - 1) * RowWords + x1]
           rows  == [n \in 1 .. height |-> SubSeq(src, (n - 1) * width + 1, n * width)]
           images == Images(mem, start, rows)
<1>1. /\ x1 \in Nat /\ x2 \in x1 .. mbi.width - 1
      /\ y1 \in Nat /\ y2 \in y1 .. mbi.height - 1
      /\ mbi.width \in Nat /\ mbi.height \in Nat /\ mbi \in Framebuffers
  BY Layout DEF InScreen, DisplayTypes
<1>2. width \in Nat /\ height \in Nat /\ width >= 1 /\ height >= 1
  BY <1>1
<1>3. ASSUME NEW n \in 1 .. height
      PROVE  /\ rows[n] \in Seq(Values) /\ DOMAIN rows[n] = 1 .. width
             /\ \A k \in 1 .. width : rows[n][k] = picture[<<y1 + n - 1, x1 + k - 1>>]
  <2> DEFINE from == (n - 1) * width + 1
             to   == n * width
             line == SubSeq(src, from, to)
  <2>1. from \in Int /\ to \in Int /\ to - from + 1 = width
    <3>1. \A i, w \in Nat : (i - 1) * w + 1 \in Int /\ i * w \in Int
                            /\ i * w - ((i - 1) * w + 1) + 1 = w
      BY Z3
    <3> HIDE DEF width, height
    <3> QED BY <1>2, <3>1
  <2>2. ASSUME NEW k \in 1 .. width
        PROVE  /\ from + k - 1 = (n - 1) * width + k
               /\ src[from + k - 1] = picture[<<y1 + n - 1, x1 + k - 1>>]
               /\ src[from + k - 1] \in Values
    <3>1. (n - 1) * width \in Int
      BY <2>1
    <3>2. from + k - 1 = (n - 1) * width + k
      <4> DEFINE before == (n - 1) * width
      <4>1. before \in Int /\ from = before + 1 /\ k \in Int
        BY <1>2, <3>1
      <4>2. from + k - 1 = before + k
        <5> HIDE DEF before, from
        <5> QED BY <4>1
      <4> QED BY <4>2
    <3>3. /\ src[(n - 1) * width + k] = picture[<<y1 + n - 1, x1 + k - 1>>]
          /\ <<y1 + n - 1, x1 + k - 1>> \in Pixels
      BY <1>1, HandedOut DEF DisplayTypes
    <3>4. picture[<<y1 + n - 1, x1 + k - 1>>] \in Values
      BY <3>3 DEF DisplayTypes, Values
    <3> HIDE DEF from, src
    <3> QED BY <3>2, <3>3, <3>4
  <2> HIDE DEF from, to, src, width, height, x1, y1
  <2>3. \A i \in from .. to : src[i] \in Values
    <3> SUFFICES ASSUME NEW i \in from .. to PROVE src[i] \in Values
      OBVIOUS
    <3>1. i - from + 1 \in 1 .. width /\ from + (i - from + 1) - 1 = i
      BY <2>1
    <3> QED BY <2>2, <3>1
  <2>4. /\ line \in Seq(Values) /\ Len(line) = IF from <= to THEN to - from + 1 ELSE 0
        /\ \A k \in 1 .. to - from + 1 : line[k] = src[from + k - 1]
    BY <2>1, <2>3, SubSeqProperties
  <2>5. line \in Seq(Values) /\ Len(line) = width
        /\ \A k \in 1 .. width : line[k] = src[from + k - 1]
    BY <1>2, <2>1, <2>4
  <2>6. DOMAIN line = 1 .. width
    BY <2>5
  <2>7. rows[n] = line
    BY DEF from, to
  <2> HIDE DEF line, rows
  <2> QED BY <2>2, <2>5, <2>6, <2>7
<1> HIDE DEF src
<1>4. rows \in Seq(Seq(Values)) /\ Len(rows) = height
  <2>0. rows = [n \in 1 .. height |-> rows[n]]
    OBVIOUS
  <2> HIDE DEF height, width, rows
  <2>1. rows \in [1 .. height -> Seq(Values)]
    BY <1>3, <2>0
  <2>2. rows \in Seq(Seq(Values))
    BY <1>2, <2>1
  <2>3. DOMAIN rows = 1 .. height
    BY <2>1
  <2> HIDE DEF rows
  <2> QED BY <1>2, <2>2, <2>3
<1>5. Flushed(mem, area, px_map(area)) = images[height]
  <2>1. Flushed(mem, area, px_map(area)) = PutAll(mem, start, rows)
    BY DEF Flushed, DisplayTypes, src
  <2> HIDE DEF start, rows, height
  <2> QED BY <1>4, <2>1 DEF PutAll
<1>6. mem \in [Cells -> Values]
  BY DEF DisplayTypes
<1>7. ASSUME NEW n \in 1 .. height
      PROVE  start[n] = (y1 + n - 1) * RowWords + x1
  OBVIOUS
<1> HIDE DEF start, rows
<1>8. Drawing(images, height, mem, start, rows) /\ \A n \in 0 .. height : images[n] \in [Cells -> Values]
  BY <1>4, <1>6, ImagesDraw
<1> HIDE DEF images
<1> DEFINE Shown(n) ==
      /\ \A p \in Pixels :
           images[n][Word(p)] =
             IF p[1] \in y1 .. y1 + n - 1 /\ p[2] \in x1 .. x2
               THEN picture[p] ELSE mem[Word(p)]
      /\ \A i \in Cells \ Words : images[n][i] = mem[i]
<1>9. Shown(0)
  <2>1. images[0] = mem
    BY <1>8 DEF Drawing
  <2> QED BY <1>1, <2>1
<1>10. ASSUME NEW n \in Nat, n + 1 <= height, Shown(n) PROVE Shown(n + 1)
  <2>1. n \in 0 .. height /\ n + 1 \in 1 .. height /\ (n + 1) - 1 = n
    BY <1>2, <1>10
  <2> HIDE DEF width, height
  <2>2. images[n] \in [Cells -> Values]
        /\ images[n + 1] = Put(images[n], start[n + 1], rows[n + 1])
    BY <1>8, <2>1 DEF Drawing
  <2> DEFINE y == y1 + n
  <2>3. y \in 0 .. mbi.height - 1 /\ y1 + (n + 1) - 1 = y
    BY <1>1, <1>10 DEF height
  <2>4. start[n + 1] = y * RowWords + x1
    BY <1>7, <2>1, <2>3
  <2>5. DOMAIN rows[n + 1] = 1 .. x2 - x1 + 1
        /\ \A k \in DOMAIN rows[n + 1] : rows[n + 1][k] = picture[<<y, x1 + k - 1>>]
    BY <1>3, <2>1, <2>3 DEF width
  <2> DEFINE before == images[n]
             line   == rows[n + 1]
             drawn  == Put(before, y * RowWords + x1, line)
  <2>6. /\ \A p \in Pixels :
             drawn[Word(p)] = IF p[1] = y /\ p[2] \in x1 .. x2
                                THEN picture[p] ELSE before[Word(p)]
        /\ \A i \in Cells \ Words : drawn[i] = before[i]
    <3>1. before \in [Cells -> Values] /\ DOMAIN line = 1 .. x2 - x1 + 1
      BY <2>2, <2>5
    <3>2. \A k \in DOMAIN line : line[k] = picture[<<y, x1 + k - 1>>]
      BY <2>5
    <3>3. mbi \in Framebuffers /\ x1 \in Nat /\ x2 \in x1 .. mbi.width - 1
      BY <1>1
    <3>4. y \in 0 .. mbi.height - 1
      BY <2>3
    <3> HIDE DEF before, line, x1, x2, y
    <3> QED BY <3>1, <3>2, <3>3, <3>4, RowShows
  <2>61. images[n + 1] = drawn /\ images[n] = before
    BY <2>2, <2>4
  <2> HIDE DEF y, drawn, before
  <2>7. \A j \in Int : j \in y1 .. y1 + (n + 1) - 1 <=> j = y \/ j \in y1 .. y1 + n - 1
    BY <1>1 DEF y
  <2>8. \A p \in Pixels : p[1] \in Int
    BY <1>1 DEF Pixels
  <2> QED BY <1>10, <2>6, <2>61, <2>7, <2>8
<1>11. Shown(height)
  <2> DEFINE S == { n \in Nat : n <= height => Shown(n) }
  <2> HIDE DEF Shown
  <2>1. 0 \in S
    BY <1>9
  <2>2. ASSUME NEW n \in Nat, n \in S PROVE n + 1 \in S
    <3> SUFFICES ASSUME n + 1 <= height PROVE Shown(n + 1)
      OBVIOUS
    <3>1. n <= height
      BY <1>2
    <3> HIDE DEF height
    <3>2. Shown(n)
      BY <2>2, <3>1
    <3> QED BY <1>10, <3>2
  <2>3. Nat \subseteq S
    <3> HIDE DEF S
    <3> QED BY <2>1, <2>2, SetInduction
  <2> QED BY <1>2, <2>3
<1>12. y1 + height - 1 = y2
  BY <1>1
<1>13. images[height] \in [Cells -> Values]
  <2> HIDE DEF height
  <2> QED BY <1>2, <1>8
<1> HIDE DEF height
<1> QED BY <1>5, <1>11, <1>12, <1>13

-----------------------------------------------------------------------------
(* The screen stays what it is while the framebuffer is the same. *)
LEMMA SameScreen ==
  ASSUME mbi' = mbi
  PROVE  /\ Pixels' = Pixels /\ RowWords' = RowWords /\ Cells' = Cells
         /\ \A p : Word(p)' = Word(p)
         /\ Words' = Words
<1>1. Pixels' = Pixels /\ RowWords' = RowWords
  BY DEF Pixels, RowWords
<1>2. \A p : Word(p)' = Word(p)
  BY DEF Word
<1>3. Words' = Words
  BY <1>1, <1>2 DEF Words
<1> QED BY <1>1, <1>2, <1>3 DEF Cells

LEMMA DisplayInvAtStart == DisplayInit => DisplayInv
<1> SUFFICES ASSUME DisplayInit PROVE DisplayInv
  OBVIOUS
<1>1. mem = [i \in Cells |-> Old]
  BY DEF DisplayInit, Cells, RowWords
<1>2. Old \in Values /\ Old \notin Colors
  BY FramebuffersAssumption DEF Values
<1>3. mem \in [Cells -> Values] /\ \A i \in Cells : mem[i] \notin Colors
  BY <1>1, <1>2
<1>4. main_pc = "READ_FRAMEBUFFER" /\ mbi \in Framebuffers /\ dirty = NoArea
  BY DEF DisplayInit
<1>5. picture \in [Pixels -> Colors]
  BY DEF DisplayInit
<1>6. DisplayTypes
  BY <1>3, <1>4, <1>5 DEF DisplayTypes
<1> QED BY <1>4, <1>6 DEF DisplayInv, ScreenShowsThePicture

(* clear_screen leaves no colour of LVGL's, whatever its pitch is. *)
LEMMA ClearedOf ==
  ASSUME DisplayTypes, main_pc # "loop", clear_screen
  PROVE  mem' \in [Cells -> Values] /\ \A i \in Cells : mem'[i] \notin Colors
<1> DEFINE V == {Dark, Old}
           start == [n \in 1 .. mbi.height |-> (n - 1) * fb_pitch]
           rows  == [n \in 1 .. mbi.height |-> [x \in 1 .. mbi.width |-> Dark]]
<1>1. V \subseteq Values /\ V \cap Colors = {}
  BY FramebuffersAssumption DEF Values
<1>2. mem \in [Cells -> V]
  <2>1. mem \in [Cells -> Values] /\ \A i \in Cells : mem[i] \notin Colors
    BY DEF DisplayTypes
  <2> QED BY <2>1 DEF Values
<1>3. rows \in Seq(Seq(V)) /\ Len(rows) = mbi.height
  <2>1. mbi.width \in Nat /\ mbi.height \in Nat
    BY Layout DEF DisplayTypes
  <2>2. [x \in 1 .. mbi.width |-> Dark] \in Seq(V)
    BY <2>1
  <2>3. rows \in [1 .. mbi.height -> Seq(V)]
    BY <2>2
  <2>4. DOMAIN rows = 1 .. mbi.height
    OBVIOUS
  <2> HIDE DEF rows, V
  <2> QED BY <2>1, <2>3, <2>4
<1>4. mem' = Images(mem, start, rows)[Len(rows)]
  BY Zenon DEF clear_screen, PutAll
<1> HIDE DEF V, start, rows
<1>5. Len(rows) \in 0 .. Len(rows)
  BY <1>3
<1>6. mem' \in [Cells -> V]
  BY <1>2, <1>3, <1>4, <1>5, ImagesDraw
<1> QED BY <1>1, <1>6

(* What a step of the main loop has to show. *)
LEMMA Kept ==
  ASSUME DisplayTypes, main_pc = "loop", main_pc' = "loop", mbi' = mbi,
         UNCHANGED <<kernel_pitch, ctx_pitch>>,
         mem' \in [Cells -> Values], picture' \in [Pixels -> Colors],
         (dirty = NoArea)' \/ InScreen(dirty)',
         \A p \in Pixels : ~ Pending(p)' => mem'[Word(p)] = picture'[p],
         \A i \in Cells \ Words : mem'[i] \notin Colors
  PROVE  DisplayInv'
<1>1. /\ Pixels' = Pixels /\ RowWords' = RowWords /\ Cells' = Cells
      /\ \A p : Word(p)' = Word(p)
      /\ Words' = Words
  BY SameScreen
<1>2. DisplayTypes'
  <2>1. (mem \in [Cells -> Values])'
    BY <1>1 DEF Values
  <2>2. (picture \in [Pixels -> Colors])'
    BY <1>1
  <2>3. kernel_pitch' = RowWords' /\ ctx_pitch' = RowWords' /\ mbi' \in Framebuffers
    BY <1>1 DEF DisplayTypes
  <2> QED BY <2>1, <2>2, <2>3 DEF DisplayTypes
<1>3. DOMAIN mem' = Cells
  OBVIOUS
<1>4. ScreenShowsThePicture'
  <2>1. \A p \in Pixels' : ~ Pending(p)' => mem'[Word(p)'] = picture'[p]
    BY <1>1
  <2>2. { Word(p) : p \in Pixels }' = Words
    BY <1>1 DEF Words
  <2>3. \A i \in DOMAIN mem' \ { Word(p) : p \in Pixels }' : mem'[i] \notin Colors
    BY <1>3, <2>2
  <2> QED BY <2>1, <2>3 DEF ScreenShowsThePicture
<1> QED BY <1>2, <1>4 DEF DisplayInv

(* What the invariant says of the main loop. *)
LEMMA Showing ==
  ASSUME DisplayInv, main_pc = "loop"
  PROVE  /\ \A p \in Pixels : ~ Pending(p) => mem[Word(p)] = picture[p]
         /\ \A i \in Cells \ Words : mem[i] \notin Colors
<1>1. DOMAIN mem = Cells
  BY DEF DisplayInv, DisplayTypes
<1> QED BY <1>1 DEF DisplayInv, ScreenShowsThePicture, Words

(* What a flush leaves to hand out is a part of what there was. *)
LEMMA FlushKeeps ==
  ASSUME DisplayInv, lvgl_flush
  PROVE  DisplayInv'
<1>1. main_pc = "loop" /\ InScreen(dirty) /\ mbi \in Framebuffers /\ mbi' = mbi
      /\ main_pc' = "loop" /\ picture' = picture
  BY DEF DisplayInv, DisplayTypes, lvgl_flush
<1>2. /\ Strip.x1 = dirty.x1 /\ Strip.x2 = dirty.x2 /\ Strip.y1 = dirty.y1
      /\ Strip.y2 \in dirty.y1 .. dirty.y2
      /\ InScreen(Strip)
  BY <1>1, StripInside
<1> DEFINE end == Strip.y2
<1>3. /\ mem' \in [Cells -> Values]
      /\ \A p \in Pixels :
           mem'[Word(p)] =
             IF p[1] \in dirty.y1 .. end /\ p[2] \in dirty.x1 .. dirty.x2
               THEN picture[p] ELSE mem[Word(p)]
      /\ \A i \in Cells \ Words : mem'[i] = mem[i]
  <2> DEFINE area == Strip
             flushed == Flushed(mem, area, px_map(area))
  <2>1. mem' = flushed
    BY DEF lvgl_flush
  <2>2. DisplayTypes /\ InScreen(area)
    BY <1>2 DEF DisplayInv
  <2>3. /\ area.x1 = dirty.x1 /\ area.x2 = dirty.x2 /\ area.y1 = dirty.y1
        /\ area.y2 = end
    BY <1>2
  <2> HIDE DEF area
  <2>4. /\ flushed \in [Cells -> Values]
        /\ \A p \in Pixels :
             flushed[Word(p)] =
               IF p[1] \in area.y1 .. area.y2 /\ p[2] \in area.x1 .. area.x2
                 THEN picture[p] ELSE mem[Word(p)]
        /\ \A i \in Cells \ Words : flushed[i] = mem[i]
    BY <1>1, <2>2, FlushedShows
  <2> HIDE DEF flushed, end
  <2> QED BY <2>1, <2>3, <2>4
<1>4. dirty' = IF end = dirty.y2 THEN NoArea ELSE [dirty EXCEPT !.y1 = end + 1]
  BY DEF lvgl_flush
<1>5. /\ dirty \in [x1 : Nat, y1 : Nat, x2 : Nat, y2 : Nat]
      /\ dirty.x1 \in Nat /\ dirty.x2 \in dirty.x1 .. mbi.width - 1
      /\ dirty.y1 \in Nat /\ dirty.y2 \in dirty.y1 .. mbi.height - 1
  BY <1>1 DEF InScreen
<1>6. mbi.height \in Nat /\ end \in dirty.y1 .. dirty.y2
  BY <1>1, <1>2, Layout
<1> HIDE DEF end
<1>7. DisplayTypes /\ UNCHANGED <<kernel_pitch, ctx_pitch>> /\ picture' \in [Pixels -> Colors]
  BY <1>1 DEF DisplayInv, DisplayTypes, lvgl_flush
<1>8. \A i \in Cells \ Words : mem'[i] \notin Colors
  BY <1>1, <1>3, Showing
<1>9. ASSUME NEW p \in Pixels, ~ (/\ p[1] \in dirty.y1 .. dirty.y2
                                  /\ p[2] \in dirty.x1 .. dirty.x2
                                  /\ p[1] > end)
      PROVE  mem'[Word(p)] = picture[p]
  <2>1. p[1] \in Int /\ end \in Int /\ (~ Pending(p) => mem[Word(p)] = picture[p])
    BY <1>1, <1>5, <1>6, Showing DEF Pixels
  <2>2. CASE p[1] \in dirty.y1 .. end /\ p[2] \in dirty.x1 .. dirty.x2
    BY <1>3, <2>2
  <2>3. CASE ~ (p[1] \in dirty.y1 .. end /\ p[2] \in dirty.x1 .. dirty.x2)
    <3>1. ~ Pending(p)
      BY <1>5, <1>6, <1>9, <2>1, <2>3 DEF Pending
    <3> QED BY <1>3, <2>1, <2>3, <3>1
  <2> QED BY <2>2, <2>3
<1>10. ((dirty = NoArea)' \/ InScreen(dirty)')
       /\ \A p \in Pixels : ~ Pending(p)' => mem'[Word(p)] = picture'[p]
  <2>1. CASE end = dirty.y2
    <3>1. dirty' = NoArea
      BY <1>4, <2>1
    <3>2. \A p \in Pixels : mem'[Word(p)] = picture'[p]
      <4> SUFFICES ASSUME NEW p \in Pixels PROVE mem'[Word(p)] = picture'[p]
        OBVIOUS
      <4>1. p[1] \in Int
        BY <1>1, Layout DEF Pixels
      <4>2. ~ (p[1] \in dirty.y1 .. dirty.y2 /\ p[1] > end)
        BY <1>5, <2>1, <4>1
      <4> QED BY <1>1, <1>9, <4>2
    <3> QED BY <3>1, <3>2
  <2>2. CASE end # dirty.y2
    <3>1. dirty' = [dirty EXCEPT !.y1 = end + 1]
      BY <1>4, <2>2
    <3>2. /\ dirty'.x1 = dirty.x1 /\ dirty'.x2 = dirty.x2
          /\ dirty'.y1 = end + 1 /\ dirty'.y2 = dirty.y2
      BY <1>5, <3>1
    <3>3. end + 1 \in Nat /\ dirty.y2 \in end + 1 .. mbi.height - 1
      BY <1>5, <1>6, <2>2
    <3>4. dirty' \in [x1 : Nat, y1 : Nat, x2 : Nat, y2 : Nat]
      BY <1>5, <3>1, <3>3
    <3>5. InScreen(dirty)'
      BY <1>1, <1>5, <3>2, <3>3, <3>4 DEF InScreen
    <3>6. ASSUME NEW p \in Pixels, ~ Pending(p)' PROVE mem'[Word(p)] = picture'[p]
      <4>1. p[1] \in Int
        BY <1>1, Layout DEF Pixels
      <4>2. ~ (p[1] \in end + 1 .. dirty.y2 /\ p[2] \in dirty.x1 .. dirty.x2)
        BY <3>2, <3>6 DEF Pending
      <4>3. ~ (/\ p[1] \in dirty.y1 .. dirty.y2
               /\ p[2] \in dirty.x1 .. dirty.x2
               /\ p[1] > end)
        BY <1>5, <1>6, <4>1, <4>2
      <4> QED BY <1>1, <1>9, <4>3
    <3> QED BY <3>5, <3>6
  <2> QED BY <2>1, <2>2
<1> QED BY <1>1, <1>3, <1>7, <1>8, <1>10, Kept

LEMMA PaintKeeps ==
  ASSUME DisplayInv, paint
  PROVE  DisplayInv'
<1>1. /\ main_pc = "loop" /\ dirty = NoArea /\ mbi \in Framebuffers /\ DisplayTypes
      /\ UNCHANGED <<main_pc, mbi, mem, kernel_pitch, fb_pitch, ctx_pitch>>
  BY DEF DisplayInv, DisplayTypes, paint
<1>2. PICK x1, x2 \in 0 .. mbi.width - 1, y1, y2 \in 0 .. mbi.height - 1, c \in Colors :
        /\ x1 <= x2 /\ y1 <= y2
        /\ dirty' = [x1 |-> x1, y1 |-> y1, x2 |-> x2, y2 |-> y2]
        /\ picture' = [p \in Pixels |->
                         IF p \in (y1 .. y2) \X (x1 .. x2) THEN c ELSE picture[p]]
  BY Zenon DEF paint
<1>3. mbi.width \in Nat /\ mbi.height \in Nat
  BY <1>1, Layout
<1>4. mem' \in [Cells -> Values] /\ picture \in [Pixels -> Colors]
  BY <1>1 DEF DisplayTypes
<1>5. picture' \in [Pixels -> Colors]
  BY <1>2, <1>4
<1>6. InScreen(dirty)'
  BY <1>1, <1>2, <1>3 DEF InScreen
<1>7. ASSUME NEW p \in Pixels, ~ Pending(p)' PROVE mem'[Word(p)] = picture'[p]
  <2>1. ~ Pending(p)
    BY <1>1 DEF Pending, NoArea
  <2>2. mem[Word(p)] = picture[p]
    BY <1>1, <2>1, Showing
  <2>3. ~ (p[1] \in y1 .. y2 /\ p[2] \in x1 .. x2)
    BY <1>2, <1>7 DEF Pending
  <2>4. p \notin (y1 .. y2) \X (x1 .. x2)
    BY <2>3
  <2> QED BY <1>1, <1>2, <2>2, <2>4
<1>8. \A i \in Cells \ Words : mem'[i] \notin Colors
  BY <1>1, Showing
<1> QED BY <1>1, <1>4, <1>5, <1>6, <1>7, <1>8, Kept

(* LVGL's first picture is all still to be handed out. *)
LEMMA FirstPicture ==
  ASSUME DisplayInv, LVGL_INIT
  PROVE  DisplayInv'
<1>1. /\ main_pc = "LVGL_INIT" /\ main_pc' = "loop" /\ DisplayTypes
      /\ mbi \in Framebuffers /\ mbi' = mbi /\ mem' = mem /\ picture' = picture
      /\ kernel_pitch' = RowWords /\ ctx_pitch' = RowWords
      /\ dirty' = [x1 |-> 0, y1 |-> 0, x2 |-> mbi.width - 1, y2 |-> mbi.height - 1]
  BY DEF DisplayInv, DisplayTypes, LVGL_INIT
<1>2. mbi.width \in Nat /\ mbi.width >= 1 /\ mbi.height \in Nat /\ mbi.height >= 1
  BY <1>1, Layout
<1>3. /\ Pixels' = Pixels /\ RowWords' = RowWords /\ Cells' = Cells
  BY <1>1, SameScreen
<1>4. InScreen(dirty)'
  BY <1>1, <1>2 DEF InScreen
<1>5. mem' \in [Cells -> Values] /\ picture' \in [Pixels -> Colors]
      /\ \A i \in Cells : mem'[i] \notin Colors
  BY <1>1 DEF DisplayTypes
<1>6. DisplayTypes'
  <2>1. (mem \in [Cells -> Values])' /\ (picture \in [Pixels -> Colors])'
    BY <1>3, <1>5 DEF Values
  <2> QED BY <1>1, <1>3, <1>4, <2>1 DEF DisplayTypes
<1>7. \A p \in Pixels' : Pending(p)'
  BY <1>1, <1>2, <1>3 DEF Pending, Pixels
<1>8. \A i \in DOMAIN mem' : mem'[i] \notin Colors
  BY <1>5
<1>9. ScreenShowsThePicture'
  BY <1>7, <1>8 DEF ScreenShowsThePicture
<1> QED BY <1>6, <1>9 DEF DisplayInv

LEMMA StartKeeps ==
  ASSUME DisplayInv, READ_FRAMEBUFFER \/ INIT_FRAMEBUFFER \/ clear_screen
  PROVE  DisplayInv'
<1>1. /\ main_pc # "loop" /\ mbi \in Framebuffers /\ dirty = NoArea /\ DisplayTypes
      /\ mem \in [Cells -> Values] /\ picture \in [Pixels -> Colors]
      /\ \A i \in Cells : mem[i] \notin Colors
  BY DEF DisplayInv, DisplayTypes, READ_FRAMEBUFFER, INIT_FRAMEBUFFER, clear_screen
<1>2. /\ main_pc' \in {"INIT_FRAMEBUFFER", "clear_screen", "LVGL_INIT"}
      /\ mbi' = mbi /\ dirty' = NoArea /\ picture' = picture
      /\ kernel_pitch' = RowWords
  BY <1>1 DEF DisplayTypes, READ_FRAMEBUFFER, INIT_FRAMEBUFFER, clear_screen, RowWords
<1>3. /\ Pixels' = Pixels /\ RowWords' = RowWords /\ Cells' = Cells
  BY <1>2, SameScreen
<1>4. mem' \in [Cells -> Values] /\ \A i \in Cells : mem'[i] \notin Colors
  <2>1. CASE clear_screen
    BY <1>1, <2>1, ClearedOf
  <2>2. CASE READ_FRAMEBUFFER \/ INIT_FRAMEBUFFER
    BY <1>1, <2>2 DEF READ_FRAMEBUFFER, INIT_FRAMEBUFFER
  <2> QED BY <2>1, <2>2
<1>5. (mem \in [Cells -> Values])' /\ (picture \in [Pixels -> Colors])'
      /\ (\A i \in Cells : mem[i] \notin Colors)'
  BY <1>1, <1>2, <1>3, <1>4 DEF Values
<1>6. DisplayTypes'
  BY <1>1, <1>2, <1>3, <1>5 DEF DisplayTypes, NoArea
<1> QED BY <1>2, <1>6 DEF DisplayInv, ScreenShowsThePicture

LEMMA DisplayStep == DisplayInv /\ [DisplayNext]_displayVars => DisplayInv'
<1> SUFFICES ASSUME DisplayInv, [DisplayNext]_displayVars PROVE DisplayInv'
  OBVIOUS
<1>1. CASE READ_FRAMEBUFFER \/ INIT_FRAMEBUFFER \/ clear_screen
  BY <1>1, StartKeeps
<1>2. CASE LVGL_INIT
  BY <1>2, FirstPicture
<1>3. CASE paint
  BY <1>3, PaintKeeps
<1>4. CASE lvgl_flush
  BY <1>4, FlushKeeps
<1>5. CASE UNCHANGED displayVars
  <2>1. DisplayTypes'
    BY <1>5 DEF DisplayInv, DisplayTypes, displayVars, Cells, RowWords, Pixels, InScreen
  <2>2. ScreenShowsThePicture'
    BY <1>5 DEF DisplayInv, ScreenShowsThePicture, displayVars, Pixels, Word, Pending
  <2> QED BY <2>1, <2>2 DEF DisplayInv
<1> QED BY <1>1, <1>2, <1>3, <1>4, <1>5 DEF DisplayNext

(* From the boot loader's framebuffer on, whatever its size and pitch, the *)
(* length of LVGL's buffer and what LVGL paints: in the main loop the      *)
(* screen shows the picture wherever nothing waits for lvgl_flush, and     *)
(* nothing of it is written beside the pixels.                             *)
THEOREM ScreenIsSafe == DisplaySpec => []ScreenShowsThePicture
<1>1. DisplayInv => ScreenShowsThePicture
  BY DEF DisplayInv
<1> QED BY DisplayInvAtStart, DisplayStep, <1>1, PTL DEF DisplaySpec

(* The variables keep their types. *)
THEOREM DisplayTypeSafe == DisplaySpec => []DisplayTypeOK
<1>1. DisplayInv => DisplayTypeOK
  BY DEF DisplayInv, DisplayTypes, DisplayTypeOK, Values
<1> QED BY DisplayInvAtStart, DisplayStep, <1>1, PTL DEF DisplaySpec

=============================================================================
