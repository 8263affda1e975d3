---------------------------- MODULE Interrupts ----------------------------
(***************************************************************************)
(* How interrupts reach the drivers: idt_init, the stubs of idt_load.asm   *)
(* and isr_handler, with the two 8259 PICs and the processor, which are    *)
(* external.  What a driver's handler does to its own data is the business *)
(* of other modules, which take each handler as one step; here it is one   *)
(* step between the gate and the end-of-interrupt commands.                *)
(*                                                                         *)
(* A device has at most one request outstanding, and makes no second one   *)
(* before the main loop has run: an assumption on its pace.  It fits       *)
(* handlers that end within the period, a millisecond; mouse_handler takes *)
(* longer when it prints the change of a button (mouse.c:122-159).         *)
(***************************************************************************)
EXTENDS Integers, Sequences, FiniteSets

CONSTANTS
  Exceptions,   \* processor exceptions the kernel may run into
  MaxNested     \* bound: handlers an exception may interrupt

ASSUME ExceptionsAssumption ==
  /\ Exceptions \subseteq {0, 13, 14}
  /\ MaxNested \in Nat

VARIABLES
  pc,        \* where idt_init is; "main" when kernel_main is behind it
  gates,     \* vectors whose IDT entry has a handler
  idtr,      \* processor: the IDT is loaded
  iflag,     \* processor: maskable interrupts are enabled
  at,        \* processor: where it is in a handler, or "main"
  vector,    \* processor: the vector of that handler
  stack,     \* processor: what each iret will return to
  base,      \* PIC: first vector of the master and of the slave
  imr,       \* PIC: masked lines
  irr,       \* PIC: requests that wait
  isr,       \* PIC: lines in service
  recent     \* history: devices that asked since the main loop ran

cpuVars == <<iflag, at, vector, stack>>
picVars == <<base, imr, irr, isr>>
vars == <<pc, gates, idtr, iflag, at, vector, stack, base, imr, irr, isr, recent>>

-----------------------------------------------------------------------------
Cascade == 2
Slave   == {12}                       \* lines of the slave that are used
Master  == {0, 1, Cascade}
Lines   == Master \cup Slave
Devices == {0, 1} \cup Slave          \* timer, keyboard, mouse

MasterLine(irq) == IF irq \in Slave THEN Cascade ELSE irq

(* idt_set_entry: mutant without the mouse's gate. *)
IrqGatesNoMouse == {32, 33}
IrqGates        == {32, 33, 44}
ExceptionGates  == {0, 13, 14}

(* The offsets pic_remap writes. *)
Remapped == [master |-> 32, slave |-> 40]

VectorOf(irq) == IF irq \in Slave THEN base.slave + irq - 8 ELSE base.master + irq

(* The lines a handler's service occupies. *)
LinesOf(v) == CASE v = 32 -> {0}
                [] v = 33 -> {1}
                [] v = 44 -> {Cascade, 12}
                [] OTHER  -> {}

-----------------------------------------------------------------------------
(* idt_init, in the order of its statements; the kernel is entered with    *)
(* interrupts off.                                                         *)
idt_init_clear ==
  /\ pc = "clear" /\ at = "main"
  /\ gates' = {}
  /\ pc' = "exceptions"
  /\ UNCHANGED <<idtr, cpuVars, picVars, recent>>

idt_init_exceptions ==
  /\ pc = "exceptions" /\ at = "main"
  /\ gates' = gates \cup ExceptionGates
  /\ pc' = "remap"
  /\ UNCHANGED <<idtr, cpuVars, picVars, recent>>

(* Starting the PICs anew forgets what they had latched; the masks are     *)
(* saved and written back.                                                 *)
pic_remap ==
  /\ pc = "remap" /\ at = "main"
  /\ base' = Remapped
  /\ irr' = {} /\ isr' = {}
  /\ pc' = "irqs"
  /\ UNCHANGED <<gates, idtr, cpuVars, imr, recent>>

idt_init_irqs ==
  /\ pc = "irqs" /\ at = "main"
  /\ gates' = gates \cup IrqGates
  /\ pc' = "load"
  /\ UNCHANGED <<idtr, cpuVars, picVars, recent>>

idt_load ==
  /\ pc = "load" /\ at = "main"
  /\ idtr' = TRUE
  /\ pc' = "mask"
  /\ UNCHANGED <<gates, cpuVars, picVars, recent>>

idt_init_mask ==
  /\ pc = "mask" /\ at = "main"
  /\ imr' = Lines
  /\ pc' = "unmask"
  /\ UNCHANGED <<gates, idtr, cpuVars, base, irr, isr, recent>>

Unmasked == << 0, 1, Cascade, 12 >>

irq_clear_mask(irq) ==
  /\ imr' = imr \ {irq}
  /\ UNCHANGED <<base, irr, isr>>

(* The calls of irq_clear_mask one by one, in the order of Unmasked. *)
idt_init_unmask(i) ==
  /\ pc = "unmask" /\ at = "main"
  /\ Unmasked[i] \in imr
  /\ \A j \in 1 .. i - 1 : Unmasked[j] \notin imr
  /\ irq_clear_mask(Unmasked[i])
  /\ UNCHANGED <<pc, gates, idtr, cpuVars, recent>>

idt_init_sti ==
  /\ pc = "unmask" /\ at = "main"
  /\ \A j \in DOMAIN Unmasked : Unmasked[j] \notin imr
  /\ iflag' = TRUE
  /\ pc' = "main"
  /\ UNCHANGED <<gates, idtr, at, vector, stack, picVars, recent>>

-----------------------------------------------------------------------------
(* External: a device asks for an interrupt. *)
request(irq) ==
  /\ irq \notin irr \cup recent
  /\ irr' = irr \cup {irq}
  /\ recent' = recent \cup {irq}
  /\ UNCHANGED <<pc, gates, idtr, cpuVars, base, imr, isr>>

(* External: the PICs in fully nested mode.  A line is offered when it is  *)
(* not masked and nothing of its priority or above is in service.          *)
Offered(irq) ==
  /\ irq \in irr \ imr
  /\ MasterLine(irq) \notin imr
  /\ \A s \in isr \cap Master : MasterLine(irq) < s
  /\ irq \in Slave => isr \cap Slave = {}

Chosen(irq) ==
  /\ Offered(irq)
  /\ \A other \in Devices : Offered(other) => MasterLine(irq) <= MasterLine(other)

(* The interrupt flag behind a gate: all have type 0x8E, interrupt gate;   *)
(* mutant: 0x8F, trap gate.                                                *)
IfBehindTrapGate == iflag
IfBehindGate     == FALSE

(* External: the processor goes through the gate of a vector.  Without a   *)
(* gate it faults, and as that has no gate either it resets.               *)
Enter(v) ==
  /\ vector' = v
  /\ stack' = Append(stack, [iflag |-> iflag, at |-> at, vector |-> vector])
  /\ \/ idtr /\ v \in gates /\ at' = "stub" /\ iflag' = IfBehindGate
     \/ ~ (idtr /\ v \in gates) /\ at' = "reset" /\ iflag' = FALSE

interrupt(irq) ==
  /\ iflag /\ at \notin {"reset", "spin"}
  /\ Chosen(irq)
  /\ irr' = irr \ {irq}
  /\ isr' = isr \cup {irq, MasterLine(irq)}
  /\ Enter(VectorOf(irq))
  /\ UNCHANGED <<pc, gates, idtr, base, imr, recent>>

(* External: the polling of mouse_init (mouse.c:57-60) empties the buffer  *)
(* whose interrupt the PICs have just announced.  A PIC that finds no      *)
(* request when the processor asks sends its line 7.                       *)
spurious_interrupt(irq) ==
  /\ pc = "main" /\ at = "main" /\ iflag
  /\ irq \in {1, 12} /\ Chosen(irq)
  /\ irr' = irr \ {irq}
  /\ isr' = isr \cup ({MasterLine(irq)} \ {irq})
  /\ Enter(IF irq \in Slave THEN base.slave + 7 ELSE base.master + 7)
  /\ UNCHANGED <<pc, gates, idtr, base, imr, recent>>

(* From idt_init on, and in a driver's code. *)
exception(v) ==
  /\ idtr /\ at \in {"main", "handler"}
  /\ Len(stack) < MaxNested
  /\ Enter(v)
  /\ UNCHANGED <<pc, gates, idtr, picVars, recent>>

-----------------------------------------------------------------------------
(* isr0_stub ... irq12_stub: cli, the number on the stack, isr_common. *)
stub ==
  /\ at = "stub"
  /\ iflag' = FALSE
  /\ at' = "handler"
  /\ UNCHANGED <<pc, gates, idtr, vector, stack, picVars, recent>>

(* outb(0x20, 0x20) and outb(0xA0, 0x20) end the service of the highest    *)
(* line in service of that PIC, whosever it is.                            *)
Highest(lines) == { s \in lines : \A other \in lines : s <= other }
EoiMaster == isr' = isr \ Highest(isr \cap Master)
EoiSlave  == isr' = isr \ Highest(isr \cap Slave)

(* isr_handler calls pit_handler or keyboard_handler, each of which ends   *)
(* the interrupt, or mouse_handler, which does not.  Mutant: it lets other *)
(* interrupts in from then on.                                             *)
isr_handler_device_sti ==
  /\ at = "handler" /\ vector \in {32, 33, 44}
  /\ \/ vector \in {32, 33} /\ EoiMaster /\ at' = "eoi"
     \/ vector = 44 /\ UNCHANGED isr /\ at' = "eoi_slave"
  /\ iflag' = TRUE
  /\ UNCHANGED <<pc, gates, idtr, vector, stack, base, imr, irr, recent>>

isr_handler_device ==
  /\ at = "handler" /\ vector \in {32, 33, 44}
  /\ \/ vector \in {32, 33} /\ EoiMaster /\ at' = "eoi"
     \/ vector = 44 /\ UNCHANGED isr /\ at' = "eoi_slave"
  /\ UNCHANGED <<pc, gates, idtr, iflag, vector, stack, base, imr, irr, recent>>

(* A page fault, and every number isr_handler has no branch for, loops.    *)
isr_handler_spin ==
  /\ at = "handler" /\ vector \notin {32, 33, 44}
  /\ at' = "spin"
  /\ UNCHANGED <<pc, gates, idtr, iflag, vector, stack, picVars, recent>>

(* Mutant: the mouse's branch ends the interrupt at the master only. *)
isr_handler_eoi_slave_omitted ==
  /\ at = "eoi_slave"
  /\ at' = "eoi"
  /\ UNCHANGED <<pc, gates, idtr, iflag, vector, stack, picVars, recent>>

isr_handler_eoi_slave ==
  /\ at = "eoi_slave"
  /\ EoiSlave
  /\ at' = "eoi"
  /\ UNCHANGED <<pc, gates, idtr, iflag, vector, stack, base, imr, irr, recent>>

(* In every branch; for timer and keyboard it is the second one. *)
isr_handler_eoi ==
  /\ at = "eoi"
  /\ EoiMaster
  /\ at' = "iret"
  /\ UNCHANGED <<pc, gates, idtr, iflag, vector, stack, base, imr, irr, recent>>

(* The rest of isr_common. *)
iret ==
  /\ at = "iret"
  /\ LET frame == stack[Len(stack)]
     IN  iflag' = frame.iflag /\ at' = frame.at /\ vector' = frame.vector
  /\ stack' = SubSeq(stack, 1, Len(stack) - 1)
  /\ UNCHANGED <<pc, gates, idtr, picVars, recent>>

spin == at \in {"spin", "reset"} /\ UNCHANGED vars

(* The main loop runs on with no request left that the PICs offer. *)
main_loop ==
  /\ pc = "main" /\ at = "main"
  /\ \A irq \in Devices : ~ Offered(irq)
  /\ recent' = {}
  /\ UNCHANGED <<pc, gates, idtr, cpuVars, picVars>>

-----------------------------------------------------------------------------
Init ==
  /\ pc = "clear"
  /\ gates = {}
  /\ idtr = FALSE
  /\ iflag = FALSE
  /\ at = "main" /\ vector = 0 /\ stack = << >>
  /\ base = [master |-> 8, slave |-> 112]
  /\ imr \in SUBSET Lines
  /\ irr \in SUBSET Devices
  /\ isr = {}
  /\ recent = irr

idt_init ==
  \/ idt_init_clear
  \/ idt_init_exceptions
  \/ pic_remap
  \/ idt_init_irqs
  \/ idt_load
  \/ idt_init_mask
  \/ \E i \in DOMAIN Unmasked : idt_init_unmask(i)
  \/ idt_init_sti

Handler ==
  \/ stub
  \/ isr_handler_device
  \/ isr_handler_spin
  \/ isr_handler_eoi_slave
  \/ isr_handler_eoi
  \/ iret

Next ==
  \/ idt_init
  \/ Handler
  \/ spin
  \/ main_loop
  \/ \E irq \in Devices : request(irq) \/ interrupt(irq) \/ spurious_interrupt(irq)
  \/ \E v \in Exceptions : exception(v)

Spec == Init /\ [][Next]_vars

(* The processor runs on, and takes the interrupt the PICs choose. *)
FairSpec ==
  /\ Spec
  /\ WF_vars(idt_init) /\ WF_vars(Handler) /\ WF_vars(main_loop)
  /\ \A irq \in Devices : WF_vars(interrupt(irq))

-----------------------------------------------------------------------------
(* The vectors of line 7 of each PIC. *)
Spurious == {39, 47}

(* The variables hold values of their types; vectors are ones that         *)
(* isr_handler knows, or of the PICs before pic_remap.                     *)
TypeOK ==
  /\ pc \in {"clear", "exceptions", "remap", "irqs", "load", "mask", "unmask", "main"}
  /\ gates \subseteq ExceptionGates \cup {32, 33, 44}
  /\ idtr \in BOOLEAN /\ iflag \in BOOLEAN
  /\ at \in {"main", "stub", "handler", "eoi_slave", "eoi", "iret", "spin", "reset"}
  /\ vector \in ExceptionGates \cup {32, 33, 44} \cup Spurious
  /\ imr \subseteq Lines /\ irr \subseteq Devices /\ isr \subseteq Lines
  /\ recent \subseteq Devices

(* idt_init (idt.c:105-146) puts gates, vectors and masks in place in such *)
(* an order that no interrupt, whenever a device asks, meets a vector      *)
(* without a gate, but for line 7 of the PICs, which has none.             *)
NoMissingGate == at = "reset" => vector \in Spurious

(* No interrupt resets the machine. *)
NoReset == at # "reset"

(* The interrupt handlers that run or are interrupted. *)
Running == { i \in 1 .. Len(stack) + 1 :
               LET v == IF i > Len(stack) THEN vector ELSE stack[i].vector
                   a == IF i > Len(stack) THEN at ELSE stack[i].at
               IN  a # "main" /\ v \in {32, 33, 44} }

(* Gate type, cli (idt_load.asm:37-49) and iret together make handlers     *)
(* exclude one another: each is atomic to the others, as their data needs, *)
(* which has no locks.                                                     *)
HandlersDoNotNest == Cardinality(Running) <= 1

(* Timer and keyboard interrupts get two end-of-interrupt commands         *)
(* (pit.c:26 and idt.c:170, keyboard.c:125 and idt.c:178): the second ends *)
(* no other handler's service.                                             *)
EoiEndsOwnService ==
  [][at # "main" => isr \ isr' \subseteq LinesOf(vector)]_vars

(* A request is served, unless an exception or a spurious interrupt has    *)
(* stopped the kernel: masks (idt.c:141-144), cascade and the end of       *)
(* interrupt at both PICs (idt.c:187-188) let every device through, again  *)
(* and again.                                                              *)
RequestsAreServed ==
  \A irq \in Devices : irq \in irr ~> (irq \notin irr \/ at \in {"spin", "reset"})
=============================================================================
