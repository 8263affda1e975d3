----------------------------- MODULE Keyboard -----------------------------
(***************************************************************************)
(* The keyboard path: the device, the interrupt handler and ring buffer of *)
(* drivers/keyboard/keyboard.c, and the LVGL callback of                   *)
(* GUI/lvgl_manager/input/input.c that empties the buffer.                 *)
(*                                                                         *)
(* irq1_stub runs with interrupts off, so keyboard_handler is one step.    *)
(* It comes between any two memory accesses of the main loop, hence        *)
(* kb_buf_pop is several steps.  kb_buf and kb_tail are not volatile: the  *)
(* load of the character and the store of kb_tail happen in either order.  *)
(***************************************************************************)
EXTENDS Integers, Sequences

CONSTANTS
  KB_BUF_SIZE,              \* slots of kb_buf (keyboard.c:62)
  scancode_table,           \* characters without shift, by scancode
  scancode_table_shifted,   \* characters with shift
  Chars,                    \* the characters in those tables, and BACKSPACE
  NUL, BACKSPACE, NEWLINE, TAB,
  Keys,                     \* the keys of the device that get used
  Make, Break,              \* the scancodes a key sends: pressed, released
  ShiftKeys,                \* keys whose codes hold a shift code
  Registered                \* lvgl_keyboard_input_init is called (not in main)

ASSUME RingAssumption == KB_BUF_SIZE \in Nat /\ KB_BUF_SIZE > 1

ASSUME TableAssumption ==
  /\ scancode_table \in [0 .. 127 -> Chars \cup {NUL}]
  /\ scancode_table_shifted \in [0 .. 127 -> Chars \cup {NUL}]
  /\ BACKSPACE \in Chars
  /\ NUL \notin Chars \cup {"LV_KEY_BACKSPACE", "LV_KEY_ENTER", "LV_KEY_NEXT"}

ASSUME DeviceAssumption ==
  /\ Make \in [Keys -> Seq(0 .. 255)]
  /\ Break \in [Keys -> Seq(0 .. 255)]
  /\ ShiftKeys \subseteq Keys
  /\ Registered \in BOOLEAN

(* Set 1: the shift keys send 0x2A and 0x36 down, 0xAA and 0xB6 up, and a  *)
(* key that sends the first on its own account, as Print Screen does, ends *)
(* with the second.                                                        *)
ASSUME ShiftKeysAssumption ==
  /\ \A key \in Keys \ ShiftKeys :
       /\ \A i \in DOMAIN Make[key] : Make[key][i] \notin {42, 54}
       /\ \A i \in DOMAIN Break[key] : Break[key][i] \notin {42, 54}
  /\ \A key \in ShiftKeys : \E i \in DOMAIN Break[key] :
       /\ Break[key][i] \in {170, 182}
       /\ \A j \in DOMAIN Break[key] : j > i => Break[key][j] \notin {42, 54}

VARIABLES
  kb_buf, kb_head, kb_tail,
  shift_pressed,
  pc,             \* where the main loop is
  slot,           \* kb_buf_pop: the value of kb_tail it read
  c,              \* kb_buf_pop: the character it loaded
  current_key, key_consumed,
  report,         \* what lvgl_keyboard_read last told LVGL
  held,           \* device: the keys that are down
  wire,           \* device: scancodes sent and not yet handled
  dropped         \* history: keyboard_handler has dropped a character

driverVars == <<kb_buf, kb_head, kb_tail, shift_pressed>>
inputVars  == <<current_key, key_consumed, report>>
deviceVars == <<held, wire>>
vars == <<kb_buf, kb_head, kb_tail, shift_pressed, pc, slot, c,
          current_key, key_consumed, report, held, wire, dropped>>

-----------------------------------------------------------------------------
Slots == 0 .. KB_BUF_SIZE - 1

NextSlot(i) == (i + 1) % KB_BUF_SIZE

(* Mutant: only the left shift key's release counts.                       *)
UnshiftLeft(scancode) == scancode = 170

(* The two tables, and the special cases keyboard_handler tests first.     *)
Shift(scancode)   == scancode \in {42, 54}       \* 0x2A, 0x36
Unshift(scancode) == scancode \in {170, 182}     \* 0xAA, 0xB6
Released(scancode) == scancode >= 128

(* The character a scancode stands for, NUL if none. *)
Character(scancode) ==
  IF scancode = 14 THEN BACKSPACE
  ELSE IF Released(scancode) THEN NUL
  ELSE IF shift_pressed THEN scancode_table_shifted[scancode]
  ELSE scancode_table[scancode]

(* The key code LVGL gets for a character. *)
lv_key(ch) ==
  CASE ch = BACKSPACE -> "LV_KEY_BACKSPACE"
    [] ch = NEWLINE   -> "LV_KEY_ENTER"
    [] ch = TAB       -> "LV_KEY_NEXT"
    [] OTHER          -> ch

-----------------------------------------------------------------------------
(* The device: a key goes down, repeats, or comes up. *)
PressKey(key) ==
  /\ wire = << >>
  /\ held' = held \cup {key}
  /\ wire' = Make[key]
  /\ UNCHANGED <<driverVars, pc, slot, c, inputVars, dropped>>

ReleaseKey(key) ==
  /\ wire = << >>
  /\ key \in held
  /\ held' = held \ {key}
  /\ wire' = Break[key]
  /\ UNCHANGED <<driverVars, pc, slot, c, inputVars, dropped>>

-----------------------------------------------------------------------------
(* Mutant: a full ring is not noticed. *)
kb_buf_push_unchecked(ch) ==
  /\ kb_buf' = [kb_buf EXCEPT ![kb_head] = ch]
  /\ kb_head' = NextSlot(kb_head)
  /\ UNCHANGED dropped

kb_buf_push(ch) ==
  IF NextSlot(kb_head) # kb_tail
    THEN /\ kb_buf' = [kb_buf EXCEPT ![kb_head] = ch]
         /\ kb_head' = NextSlot(kb_head)
         /\ UNCHANGED dropped
    ELSE /\ dropped' = TRUE
         /\ UNCHANGED <<kb_buf, kb_head>>

(* The interrupt handler takes one scancode from the controller. *)
keyboard_handler(scancode) ==
  /\ wire # << >>
  /\ scancode = Head(wire)
  /\ wire' = Tail(wire)
  /\ \/ /\ Shift(scancode)
        /\ shift_pressed' = TRUE
        /\ UNCHANGED <<kb_buf, kb_head, dropped>>
     \/ /\ Unshift(scancode)
        /\ shift_pressed' = FALSE
        /\ UNCHANGED <<kb_buf, kb_head, dropped>>
     \/ /\ ~ Shift(scancode)
        /\ ~ Unshift(scancode)
        /\ Character(scancode) # NUL
        /\ kb_buf_push(Character(scancode))
        /\ UNCHANGED shift_pressed
     \/ /\ ~ Shift(scancode)
        /\ ~ Unshift(scancode)
        /\ Character(scancode) = NUL
        /\ UNCHANGED <<kb_buf, kb_head, dropped, shift_pressed>>
  /\ UNCHANGED <<kb_tail, pc, slot, c, inputVars, held>>

-----------------------------------------------------------------------------
(* keyboard_init, two stores with interrupts on. *)
keyboard_init_head ==
  /\ pc = "boot"
  /\ kb_head' = 0
  /\ pc' = "init"
  /\ UNCHANGED <<kb_buf, kb_tail, shift_pressed, slot, c, inputVars,
                 deviceVars, dropped>>

keyboard_init_tail ==
  /\ pc = "init"
  /\ kb_tail' = 0
  /\ pc' = "loop"
  /\ UNCHANGED <<kb_buf, kb_head, shift_pressed, slot, c, inputVars,
                 deviceVars, dropped>>

(* lvgl_keyboard_read: the key reported last goes up. *)
read_release ==
  /\ pc = "loop" /\ Registered
  /\ ~ key_consumed
  /\ key_consumed' = TRUE
  /\ report' = [key |-> current_key, state |-> "RELEASED"]
  /\ UNCHANGED <<driverVars, pc, slot, c, current_key, deviceVars, dropped>>

(* lvgl_keyboard_read: kb_buf_pop returns 0. *)
read_nothing ==
  /\ pc = "loop" /\ Registered
  /\ key_consumed
  /\ kb_head = kb_tail
  /\ report' = [key |-> NUL, state |-> "RELEASED"]
  /\ UNCHANGED <<driverVars, pc, slot, c, current_key, key_consumed,
                 deviceVars, dropped>>

(* lvgl_keyboard_read: kb_buf_pop finds a character. *)
kb_buf_pop_begin ==
  /\ pc = "loop" /\ Registered
  /\ key_consumed
  /\ kb_head # kb_tail
  /\ slot' = kb_tail
  /\ pc' = "pop"
  /\ UNCHANGED <<driverVars, c, inputVars, deviceVars, dropped>>

(* Mutant: the load reads kb_tail again. *)
kb_buf_pop_load_reread ==
  /\ pc \in {"pop", "stored"}
  /\ c' = kb_buf[kb_tail]
  /\ pc' = IF pc = "pop" THEN "loaded" ELSE "got"
  /\ UNCHANGED <<driverVars, slot, inputVars, deviceVars, dropped>>

kb_buf_pop_load ==
  /\ pc \in {"pop", "stored"}
  /\ c' = kb_buf[slot]
  /\ pc' = IF pc = "pop" THEN "loaded" ELSE "got"
  /\ UNCHANGED <<driverVars, slot, inputVars, deviceVars, dropped>>

kb_buf_pop_store ==
  /\ pc \in {"pop", "loaded"}
  /\ kb_tail' = NextSlot(slot)
  /\ pc' = IF pc = "pop" THEN "stored" ELSE "got"
  /\ UNCHANGED <<kb_buf, kb_head, shift_pressed, slot, c, inputVars,
                 deviceVars, dropped>>

(* lvgl_keyboard_read: the character goes to LVGL, unless it is 0. *)
read_press ==
  /\ pc = "got"
  /\ IF c = NUL
       THEN /\ report' = [key |-> NUL, state |-> "RELEASED"]
            /\ UNCHANGED <<current_key, key_consumed>>
       ELSE /\ report' = [key |-> lv_key(c), state |-> "PRESSED"]
            /\ current_key' = lv_key(c)
            /\ key_consumed' = FALSE
  /\ pc' = "loop"
  /\ slot' = 0 /\ c' = NUL         \* the call's locals are gone
  /\ UNCHANGED <<driverVars, deviceVars, dropped>>

-----------------------------------------------------------------------------
Init ==
  /\ kb_buf = [i \in Slots |-> NUL]
  /\ kb_head = 0 /\ kb_tail = 0
  /\ shift_pressed = FALSE
  /\ pc = "boot"
  /\ slot = 0 /\ c = NUL
  /\ current_key = NUL /\ key_consumed = TRUE
  /\ report = [key |-> NUL, state |-> "RELEASED"]
  /\ held = {}
  /\ wire = << >>
  /\ dropped = FALSE

(* What main does of its own accord: keyboard_init, at kernel.c:164. *)
KernelStep == keyboard_init_head \/ keyboard_init_tail

(* LVGL's calls of the callback.  lvgl_keyboard_input_init registers it,   *)
(* and main (kernel.c:164-181) calls lvgl_mouse_input_init but not that:   *)
(* in this kernel Registered is FALSE and no call is made.                 *)
lvgl_keyboard_read ==
  \/ read_release
  \/ read_nothing
  \/ kb_buf_pop_begin
  \/ kb_buf_pop_load
  \/ kb_buf_pop_store
  \/ read_press

Next ==
  \/ \E key \in Keys : PressKey(key) \/ ReleaseKey(key)
  \/ \E scancode \in 0 .. 255 : keyboard_handler(scancode)
  \/ KernelStep
  \/ lvgl_keyboard_read

Spec == Init /\ [][Next]_vars

(* main runs keyboard_init and never stops calling lv_timer_handler, which *)
(* polls what is registered; nothing obliges anybody to type.              *)
FairSpec == Spec /\ WF_vars(KernelStep) /\ WF_vars(lvgl_keyboard_read)

-----------------------------------------------------------------------------
(* The keys between kb_tail and kb_head, oldest first. *)
Count == IF kb_head >= kb_tail THEN kb_head - kb_tail
                               ELSE kb_head - kb_tail + KB_BUF_SIZE

Buffered ==
  [i \in 1 .. Count |-> lv_key(kb_buf[(kb_tail + i - 1) % KB_BUF_SIZE])]

(* The character kb_buf_pop took off the ring, or lvgl_keyboard_read still *)
(* has to report as released.                                              *)
Taken ==
  CASE pc = "stored"                  -> lv_key(kb_buf[slot])
    [] pc = "got"                     -> lv_key(c)
    [] pc \notin {"stored", "got"}    -> IF key_consumed THEN NUL ELSE current_key

(* The variables hold values of their C types, and indices stay in the     *)
(* array.                                                                  *)
TypeOK ==
  /\ kb_buf \in [Slots -> Chars \cup {NUL}]
  /\ kb_head \in Slots /\ kb_tail \in Slots /\ slot \in Slots
  /\ c \in Chars \cup {NUL}
  /\ shift_pressed \in BOOLEAN
  /\ pc \in {"boot", "init", "loop", "pop", "loaded", "stored", "got"}
  /\ key_consumed \in BOOLEAN
  /\ report.state \in {"PRESSED", "RELEASED"}
  /\ held \subseteq Keys
  /\ wire \in Seq(0 .. 255)
  /\ dropped \in BOOLEAN

(* A slot the ring holds a character in. *)
Waiting(j) == IF kb_tail <= kb_head THEN kb_tail <= j /\ j < kb_head
                                    ELSE kb_tail <= j \/ j < kb_head

(* While kb_buf_pop works on a slot, the handler leaves it alone: the slot *)
(* keeps a character from the test of keyboard.c:77 to the load of         *)
(* keyboard.c:78, also when kb_tail has moved past it before the load and  *)
(* the handler has filled the ring up to it.                               *)
PopSlotIsSafe ==
  /\ pc \in {"pop", "loaded"} => slot = kb_tail /\ kb_head # kb_tail
  /\ pc = "loaded" => c = kb_buf[slot]
  /\ pc = "stored" => kb_tail = NextSlot(slot) /\ kb_buf[slot] \in Chars
  /\ pc = "got" => c \in Chars
  /\ \A j \in Slots : Waiting(j) => kb_buf[j] \in Chars

(* The ring and the callback implement the queue of keys: with the handler *)
(* cutting in anywhere in kb_buf_pop (keyboard.c:76-81), and whichever     *)
(* order the compiler picked there, no key is lost while a slot is free,   *)
(* overwritten before it was loaded, doubled or reordered.  Only the first *)
(* store of keyboard_init (keyboard.c:83-86) empties the ring, once.       *)
Queue == INSTANCE KeyQueue
           WITH Capacity <- KB_BUF_SIZE - 1,
                Keys     <- { lv_key(ch) : ch \in Chars },
                NoKey    <- NUL,
                queue    <- Buffered,
                pressed  <- Taken,
                dropped  <- dropped,
                begun    <- pc # "boot"
ImplementsKeyQueue == Queue!Spec

(* Shift does not stick (keyboard.c:93-102): once every key whose codes    *)
(* hold a shift code is up and the handler has seen the codes, letters     *)
(* come from the plain table, also when such keys overlapped.              *)
ShiftDoesNotStick ==
  held \cap ShiftKeys = {} /\ wire = << >> => ~ shift_pressed

(* LVGL sees a release of the same key after each press, before anything   *)
(* else (input.c:23-28 and 50-53), whatever is typed in between.           *)
PressThenRelease ==
  [][report.state = "PRESSED" /\ report' # report =>
       report' = [report EXCEPT !.state = "RELEASED"]]_vars

(* A key in the buffer is reported to LVGL in the end, as keyboard.h:8     *)
(* says of kb_buf_pop: "poll from LVGL input callback".  Without the call  *)
(* of lvgl_keyboard_input_init nothing takes a key off the ring.           *)
KeysReachLvgl ==
  (pc = "loop" /\ kb_head # kb_tail) ~> report.state = "PRESSED"

=============================================================================
