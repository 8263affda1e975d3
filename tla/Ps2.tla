-------------------------------- MODULE Ps2 --------------------------------
(***************************************************************************)
(* The mouse driver, drivers/mouse/mouse.c, beside the keyboard's          *)
(* interrupt on the one 8042 controller both share, with the interrupt     *)
(* set-up of kernel/idt/idt.c: idt_init has unmasked IRQ1 and IRQ12 and    *)
(* enabled interrupts before mouse_init polls the controller.              *)
(*                                                                         *)
(* The controller and the devices are external: they do what the driver    *)
(* counts on.  Bytes are numbers; pos and id of a mouse byte are history.  *)
(***************************************************************************)
EXTENDS Integers, Sequences

CONSTANTS
  BootConfig,        \* command byte of the controller at boot
  Scancodes,         \* scancodes that get typed
  Buttons,           \* first bytes of the packets the mouse sends
  Moves,             \* second and third bytes
  MaxKeys,           \* bound: keys typed
  MaxPackets,        \* bound: packets sent
  TypingDuringInit   \* may a key be typed before mouse_init is done

ASSUME BytesAssumption ==
  /\ BootConfig \in 0 .. 255
  /\ Scancodes \cup Buttons \cup Moves \subseteq 0 .. 255
  /\ MaxKeys \in Nat /\ MaxPackets \in Nat
  /\ TypingDuringInit \in BOOLEAN

VARIABLES
  init_pc,          \* where mouse_init is
  status,           \* mouse_init: the command byte it read
  mouse_cycle, mouse_packet,
  mouse_x, mouse_y, buttons_down,
  out,              \* controller: its output buffer (port 0x60)
  last,             \* controller: the byte port 0x60 had last
  input,            \* controller: its input buffer
  expects,          \* controller: what the next byte for port 0x60 is
  config,           \* controller: its command byte
  key,              \* keyboard: the scancode it waits to send
  keys,             \* history: scancodes typed so far
  streaming,        \* mouse: packet streaming is on
  aux,              \* mouse: bytes it waits to send
  packets           \* history: the packets sent

driverVars     == <<mouse_cycle, mouse_packet, mouse_x, mouse_y, buttons_down>>
initVars       == <<init_pc, status>>
controllerVars == <<out, last, input, expects, config>>
deviceVars     == <<key, keys, streaming, aux, packets>>
ps2Vars == <<init_pc, status, mouse_cycle, mouse_packet, mouse_x, mouse_y,
             buttons_down, out, last, input, expects, config,
             key, keys, streaming, aux, packets>>

-----------------------------------------------------------------------------
Bit(byte, n)    == (byte \div 2^n) % 2 = 1

(* Bit 3 of the first byte of a packet is set: mouse.c:105 counts on it.   *)
ASSUME ButtonsAssumption == \A b \in Buttons : Bit(b, 3)

(* Mutant: the byte is assigned, not or-ed. *)
SetBitOnly(byte, n) == 2^n

SetBit(byte, n) == IF Bit(byte, n) THEN byte ELSE byte + 2^n
ClearBit(byte, n) == IF Bit(byte, n) THEN byte - 2^n ELSE byte

int8(byte) == IF byte < 128 THEN byte ELSE byte - 256

KeyboardIrq == Bit(config, 0)
MouseIrq    == Bit(config, 1)
KeyboardOn  == ~ Bit(config, 4)
MouseOn     == ~ Bit(config, 5)

Empty == [from |-> "none", byte |-> 0, pos |-> 0, id |-> 0]
Reply(byte)  == [from |-> "ctl", byte |-> byte, pos |-> 0, id |-> 0]
Key(byte)    == [from |-> "kbd", byte |-> byte, pos |-> 0, id |-> 0]
Mouse(byte, pos, id) == [from |-> "aux", byte |-> byte, pos |-> pos, id |-> id]

ACK == 250

NoInput == [port |-> 0, byte |-> 0]
NoKey == 256

-----------------------------------------------------------------------------
(* External: the controller takes what the driver wrote. *)
controller_enables_mouse ==
  /\ input = [port |-> 100, byte |-> 168]            \* 0x64, 0xA8
  /\ config' = ClearBit(config, 5)
  /\ input' = NoInput
  /\ UNCHANGED <<initVars, driverVars, out, last, expects, deviceVars>>

controller_sends_config ==
  /\ input = [port |-> 100, byte |-> 32]             \* 0x64, 0x20
  /\ out = Empty
  /\ out' = Reply(config) /\ last' = config
  /\ input' = NoInput
  /\ UNCHANGED <<initVars, driverVars, expects, config, deviceVars>>

controller_takes_prefix ==
  /\ input.port = 100 /\ input.byte \in {96, 212}    \* 0x60, 0xD4
  /\ expects' = IF input.byte = 96 THEN "config" ELSE "aux"
  /\ input' = NoInput
  /\ UNCHANGED <<initVars, driverVars, out, last, config, deviceVars>>

controller_takes_config ==
  /\ input.port = 96 /\ expects = "config"
  /\ config' = input.byte
  /\ expects' = "none" /\ input' = NoInput
  /\ UNCHANGED <<initVars, driverVars, out, last, deviceVars>>

(* The mouse gets 0xF4, starts streaming and acknowledges. *)
mouse_takes_command ==
  /\ input.port = 96 /\ expects = "aux"
  /\ streaming' = TRUE
  /\ aux' = << Mouse(ACK, 0, 0) >>
  /\ expects' = "none" /\ input' = NoInput
  /\ UNCHANGED <<initVars, driverVars, out, last, config, key, keys, packets>>

controller_takes_key ==
  /\ key # NoKey /\ KeyboardOn
  /\ out = Empty
  /\ out' = Key(key) /\ last' = key
  /\ key' = NoKey
  /\ UNCHANGED <<initVars, driverVars, input, expects, config,
                 keys, streaming, aux, packets>>

controller_takes_mouse_byte ==
  /\ aux # << >> /\ MouseOn
  /\ out = Empty
  /\ out' = Head(aux) /\ last' = Head(aux).byte
  /\ aux' = Tail(aux)
  /\ UNCHANGED <<initVars, driverVars, input, expects, config,
                 key, keys, streaming, packets>>

(* External: somebody types, or moves the mouse. *)
type_key(scancode) ==
  /\ key = NoKey /\ keys < MaxKeys
  /\ TypingDuringInit \/ init_pc = "done"
  /\ key' = scancode /\ keys' = keys + 1
  /\ UNCHANGED <<initVars, driverVars, controllerVars, streaming, aux, packets>>

move_mouse(b, dx, dy) ==
  LET id == Len(packets) + 1
  IN  /\ streaming /\ aux = << >> /\ id <= MaxPackets
      /\ aux' = << Mouse(b, 0, id), Mouse(dx, 1, id), Mouse(dy, 2, id) >>
      /\ packets' = Append(packets, [buttons |-> b, dx |-> dx, dy |-> dy])
      /\ UNCHANGED <<initVars, driverVars, controllerVars, key, keys, streaming>>

-----------------------------------------------------------------------------
(* The interrupt handlers.  IRQ1 is raised for a scancode or a reply of    *)
(* the controller, IRQ12 for a byte of the mouse.                          *)
keyboard_handler ==
  /\ out.from \in {"kbd", "ctl"} /\ KeyboardIrq
  /\ out' = Empty
  /\ UNCHANGED <<initVars, driverVars, last, input, expects, config, deviceVars>>

(* Mutants: bit 3 is tested in every byte; the third byte is used before   *)
(* it is stored.                                                           *)
mouse_process_byte_strict(taken) ==
  LET bytes == [mouse_packet EXCEPT ![mouse_cycle] = taken]
  IN  IF ~ Bit(taken.byte, 3)
        THEN UNCHANGED driverVars
        ELSE /\ mouse_packet' = bytes
             /\ mouse_cycle' = (mouse_cycle + 1) % 3
             /\ UNCHANGED <<mouse_x, mouse_y, buttons_down>>

mouse_process_byte_early(taken) ==
  LET bytes == [mouse_packet EXCEPT ![mouse_cycle] = taken]
  IN  IF mouse_cycle = 0 /\ ~ Bit(taken.byte, 3)
        THEN UNCHANGED driverVars
        ELSE /\ mouse_packet' = bytes
             /\ mouse_cycle' = (mouse_cycle + 1) % 3
             /\ IF mouse_cycle < 2
                  THEN UNCHANGED <<mouse_x, mouse_y, buttons_down>>
                  ELSE /\ mouse_x' = mouse_x + int8(mouse_packet[1].byte)
                       /\ mouse_y' = mouse_y - int8(mouse_packet[2].byte)
                       /\ buttons_down' = { n \in 0 .. 2 : Bit(mouse_packet[0].byte, n) }

mouse_process_byte(taken) ==
  LET bytes == [mouse_packet EXCEPT ![mouse_cycle] = taken]
  IN  IF mouse_cycle = 0 /\ ~ Bit(taken.byte, 3)
        THEN UNCHANGED driverVars
        ELSE /\ mouse_packet' = bytes
             /\ mouse_cycle' = (mouse_cycle + 1) % 3
             /\ IF mouse_cycle < 2
                  THEN UNCHANGED <<mouse_x, mouse_y, buttons_down>>
                  ELSE /\ mouse_x' = mouse_x + int8(bytes[1].byte)
                       /\ mouse_y' = mouse_y - int8(bytes[2].byte)
                       /\ buttons_down' = { n \in 0 .. 2 : Bit(bytes[0].byte, n) }

mouse_handler ==
  /\ out.from = "aux" /\ MouseIrq
  /\ out' = Empty
  /\ mouse_process_byte(out)
  /\ UNCHANGED <<initVars, last, input, expects, config, deviceVars>>

-----------------------------------------------------------------------------
(* mouse_init.  mouse_wait(1) waits for the input buffer, which the        *)
(* controller always takes; the write that follows is one step with it.    *)
outb(at, port, byte, next) ==
  /\ init_pc = at
  /\ input = NoInput
  /\ input' = [port |-> port, byte |-> byte]
  /\ init_pc' = next
  /\ UNCHANGED <<status, driverVars, out, last, expects, config, deviceVars>>

(* Mutant: mouse_wait(0) has no timeout. *)
wait_output_forever(at, next) ==
  /\ init_pc = at
  /\ out # Empty
  /\ init_pc' = next
  /\ UNCHANGED <<status, driverVars, controllerVars, deviceVars>>

(* mouse_wait(0) ends when the output buffer is full, or after 100000      *)
(* polls: by then the controller and the mouse have sent what they had.    *)
wait_output(at, next) ==
  /\ init_pc = at
  /\ out # Empty \/ (input = NoInput /\ (aux = << >> \/ ~ MouseOn))
  /\ init_pc' = next
  /\ UNCHANGED <<status, driverVars, controllerVars, deviceVars>>

(* inb(0x60): the byte in the buffer, or the one it had last.              *)
inb(at, next) ==
  /\ init_pc = at
  /\ out' = Empty
  /\ init_pc' = next
  /\ UNCHANGED <<driverVars, last, input, expects, config, deviceVars>>

mouse_init ==
  \/ outb("enable", 100, 168, "read_command")
  \/ outb("read_command", 100, 32, "wait_status")
  \/ wait_output("wait_status", "read_status")
  \/ inb("read_status", "write_command") /\ status' = SetBit(last, 1)
  \/ outb("write_command", 100, 96, "write_status")
  \/ outb("write_status", 96, status, "mouse_prefix")
  \/ outb("mouse_prefix", 100, 212, "mouse_command")
  \/ outb("mouse_command", 96, 244, "wait_ack")
  \/ wait_output("wait_ack", "read_ack")
  \/ inb("read_ack", "done") /\ UNCHANGED status

-----------------------------------------------------------------------------
Ps2Init ==
  /\ init_pc = "enable" /\ status = 0
  /\ mouse_cycle = 0 /\ mouse_packet = [i \in 0 .. 2 |-> Empty]
  /\ mouse_x = 200 /\ mouse_y = 200 /\ buttons_down = {}
  /\ out = Empty /\ last = 0 /\ input = NoInput /\ expects = "none"
  /\ config = BootConfig
  /\ key = NoKey /\ keys = 0
  /\ streaming = FALSE /\ aux = << >> /\ packets = << >>

Controller ==
  \/ controller_enables_mouse \/ controller_sends_config
  \/ controller_takes_prefix \/ controller_takes_config
  \/ mouse_takes_command
  \/ controller_takes_key \/ controller_takes_mouse_byte

Ps2Next ==
  \/ Controller
  \/ \E scancode \in Scancodes : type_key(scancode)
  \/ \E b \in Buttons, dx, dy \in Moves : move_mouse(b, dx, dy)
  \/ keyboard_handler
  \/ mouse_handler
  \/ mouse_init

Ps2Spec == Ps2Init /\ [][Ps2Next]_ps2Vars

(* The hardware answers, a raised interrupt is served (every handler       *)
(* acknowledges it and returns), and mouse_init runs on.                   *)
Ps2FairSpec ==
  /\ Ps2Spec
  /\ WF_ps2Vars(Controller)
  /\ WF_ps2Vars(keyboard_handler) /\ WF_ps2Vars(mouse_handler)
  /\ WF_ps2Vars(mouse_init)

-----------------------------------------------------------------------------
(* The next mouse byte the driver will see, Empty if none is on its way.   *)
NextByte == IF out.from = "aux" THEN out
            ELSE IF aux # << >> THEN Head(aux) ELSE Empty

(* How far the driver's packets are from the mouse's: 0 when aligned.      *)
Offset == (NextByte.pos - mouse_cycle) % 3

(* The driver has the first bytes of the packet whose next byte comes.     *)
InStep == /\ Offset = 0
          /\ \A i \in 0 .. mouse_cycle - 1 : /\ mouse_packet[i].pos = i
                                            /\ mouse_packet[i].id = NextByte.id

(* The variables hold values of their C types. *)
Ps2TypeOK ==
  /\ mouse_cycle \in 0 .. 2
  /\ mouse_packet \in [0 .. 2 -> [from : {"none", "aux"}, byte : 0 .. 255,
                                  pos : 0 .. 2, id : 0 .. MaxPackets]]
  /\ status \in 0 .. 255 /\ config \in 0 .. 255 /\ last \in 0 .. 255
  /\ mouse_x \in Int /\ mouse_y \in Int
  /\ buttons_down \subseteq 0 .. 2
  /\ expects \in {"none", "config", "aux"}
  /\ keys \in 0 .. MaxKeys /\ Len(packets) \in 0 .. MaxPackets

(* Once mouse_init is done no mouse byte is lost: a stream in step stays   *)
(* so, and one that is not gets one byte nearer with each byte             *)
(* mouse.c:105-107 skips.                                                  *)
SkippingRealigns ==
  [][init_pc = "done" /\ Offset' # Offset =>
       Offset # 0 /\ Offset' = (Offset + 1) % 3]_ps2Vars

(* In step with the mouse the driver stays in step, and it moves the       *)
(* pointer and sets the buttons as one whole packet says                   *)
(* (mouse.c:109-160), with keys arriving on the same port in between.      *)
MovesAreReal ==
  [][init_pc = "done" /\ InStep =>
       /\ InStep'
       /\ mouse_handler /\ mouse_cycle = 2 =>
            LET sent == packets[out.id]
            IN  /\ mouse_x' - mouse_x = int8(sent.dx)
                /\ mouse_y' - mouse_y = - int8(sent.dy)
                /\ buttons_down' = { n \in 0 .. 2 : Bit(sent.buttons, n) }]_ps2Vars

(* mouse_init ends, also when a handler takes the bytes it polls for: the  *)
(* timeout of mouse_wait (mouse.c:29-37) gets it out.                      *)
InitEnds == <>(init_pc = "done")

(* Input goes on after mouse_init: a key gets to the controller, and what  *)
(* the controller holds is taken by a handler, as idt.c:135-139 enables    *)
(* the interrupts of both devices.                                         *)
InputKeepsFlowing ==
  /\ (init_pc = "done" /\ key # NoKey) ~> key = NoKey
  /\ (init_pc = "done" /\ out # Empty) ~> out = Empty

(* mouse.c:93-94 reads the mouse's ACK, so no packet is made of it.        *)
AckIsNoPacketByte == \A i \in 0 .. 2 : mouse_packet[i].byte # ACK

=============================================================================
