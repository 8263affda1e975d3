------------------------ MODULE InterruptsPs2Proofs ------------------------
(***************************************************************************)
(* Two proofs about interrupts.  Handlers exclude one another and meet no  *)
(* missing gate, for every set of exceptions and any depth of them.  And   *)
(* the mouse's handler beside the keyboard's keeps its packets together,   *)
(* for every byte of the mouse, any number of packets and keys.            *)
(***************************************************************************)
EXTENDS Interrupts, Ps2, FiniteSetTheorems, SequenceTheorems, TLAPS

Irqs  == {32, 33, 44}
Depth == Len(stack)

Places == {"main", "stub", "handler", "eoi_slave", "eoi", "iret", "spin", "reset"}
Frame  == [iflag : BOOLEAN, at : Places, vector : Int]

Types ==
  /\ stack \in Seq(Frame)
  /\ at \in Places /\ vector \in Int
  /\ iflag \in BOOLEAN
  /\ base.master \in Int /\ base.slave \in Int

(* The main thread is at the bottom of the stack and there only; only it   *)
(* runs with interrupts on, so only it is interrupted by a device.         *)
Layered ==
  /\ at = "main" <=> Depth = 0
  /\ iflag => at = "main"
  /\ vector \in Irqs => Depth <= 1
  /\ \A i \in 1 .. Depth :
       /\ stack[i].at = "main" <=> i = 1
       /\ stack[i].iflag => i = 1
       /\ stack[i].at # "reset"
       /\ stack[i].vector \in Irqs => i <= 2

StackInv == Types /\ Layered

LEMMA StackInit == Init => StackInv
<1> SUFFICES ASSUME Init PROVE StackInv
  OBVIOUS
<1>1. stack \in Seq(Frame) /\ Depth = 0
  BY DEF Init, Depth
<1>2. at \in Places /\ vector \in Int /\ at = "main" /\ vector = 0
  BY DEF Init, Places
<1>3. iflag \in BOOLEAN /\ ~ iflag
  BY Zenon DEF Init
<1>4. base.master \in Int /\ base.slave \in Int
  BY DEF Init
<1>5. Types
  BY <1>1, <1>2, <1>3, <1>4 DEF Types
<1>6. Layered
  BY <1>1, <1>2, <1>3 DEF Layered, Irqs
<1> QED BY <1>5, <1>6 DEF StackInv

(* Through a gate: what was running is put on the stack. *)
LEMMA EnterStep ==
  ASSUME StackInv, NEW v \in Int, Enter(v), at # "reset", v \in Irqs => at = "main",
         UNCHANGED base
  PROVE  StackInv'
<1> DEFINE top == [iflag |-> iflag, at |-> at, vector |-> vector]
<1>1. top \in Frame /\ stack \in Seq(Frame)
  BY DEF StackInv, Types, Frame
<1>2. stack' = Append(stack, top)
  BY DEF Enter
<1>3. /\ stack' \in Seq(Frame) /\ Len(stack') = Len(stack) + 1
      /\ stack'[Len(stack) + 1] = top
      /\ \A i \in 1 .. Len(stack) : stack'[i] = stack[i]
  BY <1>1, <1>2
<1>4. at' \in Places /\ at' # "main" /\ vector' = v
  BY DEF Enter, Places
<1>5. iflag' = FALSE
  BY DEF Enter, IfBehindGate
<1>6. Len(stack) \in Nat
  BY <1>1
<1>7. Types'
  <2>1. iflag' \in BOOLEAN
    BY Zenon, <1>5
  <2> QED BY <1>3, <1>4, <2>1 DEF StackInv, Types
<1>8. at' = "main" <=> Depth' = 0
  BY <1>3, <1>4, <1>6 DEF Depth
<1>9. vector' \in Irqs => Depth' <= 1
  BY <1>3, <1>4, <1>6 DEF StackInv, Layered, Depth
<1>10. ASSUME NEW i \in 1 .. Depth'
       PROVE  /\ stack'[i].at = "main" <=> i = 1
              /\ stack'[i].iflag => i = 1
              /\ stack'[i].at # "reset"
              /\ stack'[i].vector \in Irqs => i <= 2
  <2>1. CASE i \in 1 .. Len(stack)
    BY <1>3, <2>1 DEF StackInv, Layered, Depth
  <2>2. CASE i = Len(stack) + 1
    <3>1. stack'[i].at = at /\ stack'[i].iflag = iflag /\ stack'[i].vector = vector
      BY <1>3, <2>2
    <3> QED BY <1>6, <2>2, <3>1 DEF StackInv, Layered, Depth
  <2> QED BY <1>3, <1>6, <2>1, <2>2 DEF Depth
<1> QED BY <1>5, <1>7, <1>8, <1>9, <1>10 DEF StackInv, Layered

(* iret goes back to the frame below. *)
LEMMA IretStep ==
  ASSUME StackInv, iret
  PROVE  StackInv'
<1> DEFINE frame == stack[Len(stack)]
<1>1. stack \in Seq(Frame) /\ Len(stack) \in Nat
  BY DEF StackInv, Types
<1>2. Len(stack) >= 1
  BY <1>1 DEF iret, StackInv, Layered, Depth
<1>3. frame \in Frame
  BY <1>1, <1>2
<1>4. stack' = SubSeq(stack, 1, Len(stack) - 1)
  BY DEF iret
<1>5. /\ stack' \in Seq(Frame) /\ Len(stack') = Len(stack) - 1
      /\ \A i \in 1 .. Len(stack) - 1 : stack'[i] = stack[i]
  <2> DEFINE n == Len(stack) - 1
  <2>1. n \in Nat /\ 1 \in Int /\ \A i \in 1 .. n : stack[i] \in Frame
    BY <1>1, <1>2
  <2> HIDE DEF n
  <2>2. /\ stack' \in Seq(Frame) /\ Len(stack') = IF 1 <= n THEN n - 1 + 1 ELSE 0
        /\ \A i \in 1 .. n - 1 + 1 : stack'[i] = stack[1 + i - 1]
    BY <1>4, <2>1, SubSeqProperties DEF n
  <2>3. n - 1 + 1 = n /\ \A i \in 1 .. n : 1 + i - 1 = i
    BY <2>1
  <2>4. Len(stack') = n
    <3>1. CASE 1 <= n
      BY <2>2, <2>3, <3>1
    <3>2. CASE ~ (1 <= n)
      BY <2>1, <2>2, <3>2
    <3> QED BY <3>1, <3>2
  <2>5. \A i \in 1 .. n : stack'[i] = stack[i]
    BY <2>2, <2>3
  <2> QED BY <2>2, <2>4, <2>5 DEF n
<1>6. at' = frame.at /\ vector' = frame.vector /\ iflag' = frame.iflag /\ UNCHANGED base
  BY Zenon DEF iret, picVars
<1>7. at' \in Places /\ vector' \in Int /\ iflag' \in BOOLEAN
  BY <1>3, <1>6 DEF Frame
<1>8. Types'
  BY <1>5, <1>6, <1>7 DEF StackInv, Types
<1>9. /\ frame.at = "main" <=> Len(stack) = 1
      /\ frame.iflag => Len(stack) = 1
      /\ frame.vector \in Irqs => Len(stack) <= 2
  <2>1. Len(stack) \in 1 .. Depth
    BY <1>1, <1>2 DEF Depth
  <2> QED BY <1>1, <2>1 DEF StackInv, Layered
<1>10. /\ at' = "main" <=> Depth' = 0
       /\ iflag' => at' = "main"
       /\ vector' \in Irqs => Depth' <= 1
  BY <1>1, <1>5, <1>6, <1>9 DEF Depth
<1>11. \A i \in 1 .. Depth' :
         /\ stack'[i].at = "main" <=> i = 1
         /\ stack'[i].iflag => i = 1
         /\ stack'[i].at # "reset"
         /\ stack'[i].vector \in Irqs => i <= 2
  BY <1>1, <1>5 DEF StackInv, Layered, Depth
<1> QED BY <1>8, <1>10, <1>11 DEF StackInv, Layered

(* The handler of an interrupt or exception moves on at its level. *)
LEMMA SameLevel ==
  ASSUME StackInv, UNCHANGED <<stack, vector, base>>, iflag' \in BOOLEAN,
         at' \in Places, at' = "main" <=> at = "main", iflag' => at' = "main"
  PROVE  StackInv'
<1>1. Types'
  BY DEF StackInv, Types
<1>2. Layered'
  BY DEF StackInv, Layered, Depth
<1> QED BY <1>1, <1>2 DEF StackInv

LEMMA StackStep == StackInv /\ [Next]_vars => StackInv'
<1> SUFFICES ASSUME StackInv, [Next]_vars PROVE StackInv'
  OBVIOUS
<1>1. UNCHANGED <<cpuVars, base>> => StackInv'
  BY DEF StackInv, Types, Layered, Depth, cpuVars
<1>2. CASE idt_init
  <2>1. CASE pic_remap
    <3>1. base'.master \in Int /\ base'.slave \in Int /\ UNCHANGED cpuVars
      BY <2>1 DEF pic_remap, Remapped
    <3> QED BY <3>1 DEF StackInv, Types, Layered, Depth, cpuVars
  <2>2. CASE idt_init_sti
    <3>1. iflag' = TRUE /\ UNCHANGED <<stack, at, vector, base>> /\ at = "main"
      BY <2>2 DEF idt_init_sti, picVars
    <3>2. at' \in Places /\ iflag' \in BOOLEAN
      BY Zenon, <3>1 DEF StackInv, Types
    <3> QED BY <3>1, <3>2, SameLevel
  <2>3. ASSUME idt_init_clear \/ idt_init_exceptions \/ idt_init_irqs \/ idt_load
               \/ idt_init_mask \/ \E i \in DOMAIN Unmasked : idt_init_unmask(i)
        PROVE  UNCHANGED <<cpuVars, base>>
    BY <2>3 DEF idt_init_clear, idt_init_exceptions, idt_init_irqs, idt_load, idt_init_mask,
                idt_init_unmask, irq_clear_mask, picVars
  <2> QED BY <1>1, <1>2, <2>1, <2>2, <2>3 DEF idt_init
<1>3. CASE Handler
  <2>1. CASE iret
    BY <2>1, IretStep
  <2>2. CASE stub
    <3>1. UNCHANGED <<stack, vector, base>> /\ at = "stub" /\ at' = "handler"
      BY <2>2 DEF stub, picVars
    <3>2. iflag' = FALSE
      BY <2>2 DEF stub
    <3>3. at' \in Places /\ iflag' \in BOOLEAN
      BY Zenon, <3>1, <3>2 DEF Places
    <3> QED BY <3>1, <3>2, <3>3, SameLevel
  <2>3. CASE isr_handler_device \/ isr_handler_spin \/ isr_handler_eoi_slave \/ isr_handler_eoi
    <3>1. /\ UNCHANGED <<stack, vector, base, iflag>>
          /\ at \in {"handler", "eoi_slave", "eoi"}
          /\ at' \in {"eoi", "eoi_slave", "spin", "iret"}
      BY <2>3 DEF isr_handler_device, isr_handler_spin, isr_handler_eoi_slave, isr_handler_eoi,
                  EoiMaster, EoiSlave, picVars
    <3>2. at' \in Places /\ at' # "main" /\ at # "main"
      BY <3>1 DEF Places
    <3>3. iflag' \in BOOLEAN /\ ~ iflag'
      BY Zenon, <3>1, <3>2 DEF StackInv, Types, Layered
    <3> QED BY <3>1, <3>2, <3>3, SameLevel
  <2> QED BY <1>3, <2>1, <2>2, <2>3 DEF Handler
<1>4. ASSUME NEW irq \in Devices, interrupt(irq) \/ spurious_interrupt(irq) PROVE StackInv'
  <2>1. PICK v \in Int : Enter(v)
    BY <1>4 DEF interrupt, spurious_interrupt, VectorOf, StackInv, Types, Devices, Slave
  <2>2. at = "main" /\ UNCHANGED base
    BY <1>4 DEF interrupt, spurious_interrupt, StackInv, Layered
  <2> QED BY <2>1, <2>2, EnterStep
<1>5. ASSUME NEW v \in Exceptions, exception(v) PROVE StackInv'
  <2>1. v \in Int /\ v \notin Irqs
    BY ExceptionsAssumption DEF Irqs
  <2>2. Enter(v) /\ at # "reset" /\ UNCHANGED base
    BY <1>5 DEF exception, picVars
  <2> QED BY <2>1, <2>2, EnterStep
<1>6. ASSUME spin \/ main_loop \/ UNCHANGED vars \/ \E irq \in Devices : request(irq)
      PROVE  UNCHANGED <<cpuVars, base>>
  BY <1>6 DEF spin, main_loop, request, vars, cpuVars, picVars
<1> QED BY <1>1, <1>2, <1>3, <1>4, <1>5, <1>6 DEF Next

LEMMA StackAlways == Spec => []StackInv
BY StackInit, StackStep, PTL DEF Spec

(* idt_load.asm:37-49 and idt.c:121: for every set of exceptions and any   *)
(* depth of them at most one device's handler is under way.                *)
THEOREM HandlersExclude == Spec => []HandlersDoNotNest
<1>1. ASSUME StackInv PROVE HandlersDoNotNest
  <2>1. Running \subseteq {2}
    <3> SUFFICES ASSUME NEW i \in Running PROVE i = 2
      OBVIOUS
    <3>1. Len(stack) \in Nat /\ i \in 1 .. Len(stack) + 1
      BY <1>1 DEF StackInv, Types, Running
    <3>2. CASE i = Len(stack) + 1
      <4>1. at # "main" /\ vector \in Irqs
        BY <3>1, <3>2 DEF Running, Irqs
      <4> QED BY <1>1, <3>1, <3>2, <4>1 DEF StackInv, Layered, Depth
    <3>3. CASE i \in 1 .. Len(stack)
      <4>1. stack[i].at # "main" /\ stack[i].vector \in Irqs
        BY <3>1, <3>3 DEF Running, Irqs
      <4> QED BY <1>1, <3>1, <3>3, <4>1 DEF StackInv, Layered, Depth
    <3> QED BY <3>1, <3>2, <3>3
  <2>2. IsFiniteSet({2}) /\ Cardinality({2}) = 1
    BY FS_Singleton
  <2>3. Cardinality(Running) <= 1
    BY <2>1, <2>2, FS_Subset
  <2> QED BY <2>3 DEF HandlersDoNotNest
<1> QED BY <1>1, StackAlways, PTL
-----------------------------------------------------------------------------
Gated == {"load", "mask", "unmask", "main"}

(* How far idt_init has come, and that no interrupt is let in before.      *)
SetUp ==
  /\ pc \in {"clear", "exceptions", "remap", "irqs"} \cup Gated
  /\ pc = "exceptions" => gates = {}
  /\ pc \in {"remap", "irqs"} => gates = ExceptionGates
  /\ pc \in Gated => gates = ExceptionGates \cup IrqGates
  /\ pc \in {"irqs"} \cup Gated => base = Remapped
  /\ idtr <=> pc \in {"mask", "unmask", "main"}

(* Interrupts are on, now or after an iret, in the main thread behind      *)
(* idt_init only, and a reset comes from line 7 of a PIC.                  *)
LetIn ==
  /\ iflag => pc = "main"
  /\ \A i \in 1 .. Depth : stack[i].iflag => pc = "main"
  /\ at = "reset" => vector \in Spurious

LEMMA SetUpStep == SetUp /\ [Next]_vars => SetUp'
<1> SUFFICES ASSUME SetUp, [Next]_vars PROVE SetUp'
  OBVIOUS
<1>1. UNCHANGED <<pc, gates, idtr, base>> => SetUp'
  BY DEF SetUp
<1>2. CASE idt_init_clear
  BY <1>2 DEF idt_init_clear, SetUp, Gated, picVars
<1>3. CASE idt_init_exceptions
  BY <1>3 DEF idt_init_exceptions, SetUp, Gated, picVars
<1>4. CASE pic_remap
  BY <1>4 DEF pic_remap, SetUp, Gated
<1>5. CASE idt_init_irqs
  BY <1>5 DEF idt_init_irqs, SetUp, Gated, picVars
<1>6. CASE idt_load
  BY <1>6 DEF idt_load, SetUp, Gated, picVars
<1>7. CASE idt_init_mask
  BY <1>7 DEF idt_init_mask, SetUp, Gated
<1>8. CASE idt_init_sti
  BY <1>8 DEF idt_init_sti, SetUp, Gated, picVars
<1>9. ASSUME NEW i \in DOMAIN Unmasked, idt_init_unmask(i)
      PROVE  UNCHANGED <<pc, gates, idtr, base>>
  BY <1>9 DEF idt_init_unmask, irq_clear_mask
<1>10. Handler => UNCHANGED <<pc, gates, idtr, base>>
  BY DEF Handler, stub, isr_handler_device, isr_handler_spin, isr_handler_eoi_slave,
         isr_handler_eoi, iret, picVars
<1>11. ASSUME NEW irq \in Devices, request(irq) \/ interrupt(irq) \/ spurious_interrupt(irq)
       PROVE  UNCHANGED <<pc, gates, idtr, base>>
  BY <1>11 DEF request, interrupt, spurious_interrupt
<1>12. ASSUME NEW v \in Exceptions, exception(v) PROVE UNCHANGED <<pc, gates, idtr, base>>
  BY <1>12 DEF exception, picVars
<1>13. spin \/ main_loop \/ UNCHANGED vars => UNCHANGED <<pc, gates, idtr, base>>
  BY DEF spin, main_loop, vars, picVars
<1> QED
  BY <1>1, <1>2, <1>3, <1>4, <1>5, <1>6, <1>7, <1>8, <1>9, <1>10, <1>11, <1>12, <1>13
  DEF Next, idt_init

(* A frame pushed by Enter keeps LetIn, if the vector has a gate or is one *)
(* of the two that have none.                                              *)
LEMMA EnterLetsIn ==
  ASSUME StackInv, LetIn, NEW v \in Int, Enter(v), UNCHANGED pc,
         v \in Spurious \/ (idtr /\ v \in gates)
  PROVE  LetIn'
<1> DEFINE top == [iflag |-> iflag, at |-> at, vector |-> vector]
<1>1. top \in Frame /\ stack \in Seq(Frame) /\ Len(stack) \in Nat
  BY DEF StackInv, Types, Frame
<1>2. stack' = Append(stack, top)
  BY DEF Enter
<1>3. /\ Len(stack') = Len(stack) + 1
      /\ stack'[Len(stack) + 1] = top
      /\ \A i \in 1 .. Len(stack) : stack'[i] = stack[i]
  BY <1>1, <1>2
<1>4. ASSUME NEW i \in 1 .. Depth', stack'[i].iflag PROVE pc' = "main"
  <2>1. CASE i \in 1 .. Len(stack)
    BY <1>3, <1>4, <2>1 DEF LetIn, Depth
  <2>2. CASE i = Len(stack) + 1
    BY <1>3, <1>4, <2>2 DEF LetIn
  <2> QED BY <1>1, <1>3, <2>1, <2>2 DEF Depth
<1>5. ~ iflag'
  BY Zenon DEF Enter, IfBehindGate
<1>6. at' = "reset" => vector' \in Spurious
  BY DEF Enter
<1> QED BY <1>4, <1>5, <1>6 DEF LetIn

LEMMA LetInStep == StackInv /\ SetUp /\ LetIn /\ [Next]_vars => LetIn'
<1> SUFFICES ASSUME StackInv, SetUp, LetIn, [Next]_vars PROVE LetIn'
  OBVIOUS
<1>1. UNCHANGED <<pc, cpuVars>> => LetIn'
  BY DEF LetIn, Depth, cpuVars
<1>2. CASE idt_init
  <2>1. pc # "main" /\ at = "main" /\ UNCHANGED <<stack, at, vector>>
    BY <1>2 DEF idt_init, idt_init_clear, idt_init_exceptions, pic_remap, idt_init_irqs,
                idt_load, idt_init_mask, idt_init_unmask, idt_init_sti, cpuVars
  <2>2. iflag' => pc' = "main"
    BY <1>2, <2>1 DEF idt_init, idt_init_clear, idt_init_exceptions, pic_remap, idt_init_irqs,
                idt_load, idt_init_mask, idt_init_unmask, idt_init_sti, cpuVars, LetIn
  <2> QED BY <2>1, <2>2 DEF LetIn, Depth
<1>3. CASE iret
  <2>1. /\ Len(stack) \in 1 .. Depth
        /\ stack' = SubSeq(stack, 1, Len(stack) - 1)
    BY <1>3 DEF iret, StackInv, Types, Layered, Depth
  <2>2. iflag' = stack[Len(stack)].iflag /\ at' = stack[Len(stack)].at /\ UNCHANGED pc
    BY Zenon, <1>3 DEF iret
  <2>3. at' # "reset"
    BY <2>1, <2>2 DEF StackInv, Layered
  <2>4. ASSUME NEW i \in 1 .. Depth' PROVE stack'[i] = stack[i] /\ i \in 1 .. Depth
    BY <2>1 DEF Depth, StackInv, Types
  <2> QED BY <2>1, <2>2, <2>3, <2>4 DEF LetIn
<1>4. CASE Handler /\ ~ iret
  <2>1. UNCHANGED <<pc, stack, vector>> /\ at' # "reset" /\ (iflag' = iflag \/ ~ iflag')
    BY Zenon, <1>4
    DEF Handler, stub, isr_handler_device, isr_handler_spin, isr_handler_eoi_slave, isr_handler_eoi
  <2> QED BY <2>1 DEF LetIn, Depth
<1>5. ASSUME NEW irq \in Devices, interrupt(irq) PROVE LetIn'
  <2>1. pc = "main" /\ Enter(VectorOf(irq)) /\ UNCHANGED pc
    BY <1>5 DEF interrupt, LetIn
  <2>2. VectorOf(irq) \in IrqGates /\ VectorOf(irq) \in Int
    BY <2>1 DEF SetUp, Gated, Remapped, VectorOf, Devices, Slave, IrqGates
  <2> QED BY <2>1, <2>2, EnterLetsIn DEF SetUp, Gated
<1>6. ASSUME NEW irq \in Devices, spurious_interrupt(irq) PROVE LetIn'
  <2>1. PICK v \in Spurious : Enter(v)
    BY <1>6 DEF spurious_interrupt, SetUp, Gated, Remapped, Spurious
  <2>2. v \in Int /\ UNCHANGED pc
    BY <1>6 DEF Spurious, spurious_interrupt
  <2> QED BY <2>1, <2>2, EnterLetsIn
<1>7. ASSUME NEW v \in Exceptions, exception(v) PROVE LetIn'
  <2>1. v \in Int /\ v \in ExceptionGates
    BY ExceptionsAssumption DEF ExceptionGates
  <2>2. Enter(v) /\ idtr /\ UNCHANGED pc
    BY <1>7 DEF exception
  <2>3. v \in gates
    BY <2>1, <2>2 DEF SetUp, Gated
  <2> QED BY <2>1, <2>2, <2>3, EnterLetsIn
<1>8. ASSUME spin \/ main_loop \/ UNCHANGED vars \/ \E irq \in Devices : request(irq)
      PROVE  UNCHANGED <<pc, cpuVars>>
  BY <1>8 DEF spin, main_loop, request, vars, cpuVars
<1> QED BY <1>1, <1>2, <1>3, <1>4, <1>5, <1>6, <1>7, <1>8 DEF Next

LEMMA SetUpInit == Init => SetUp
BY DEF Init, SetUp, Gated

LEMMA LetInInit == Init => LetIn
<1> SUFFICES ASSUME Init PROVE LetIn
  OBVIOUS
<1>1. ~ iflag
  BY Zenon DEF Init
<1>2. Depth = 0 /\ at = "main"
  BY DEF Init, Depth
<1> QED BY <1>1, <1>2 DEF LetIn

(* idt.c:105-146: whenever devices ask and exceptions come, no interrupt   *)
(* but the PICs' spurious ones meets a vector without a gate.              *)
THEOREM GatesAreThere == Spec => []NoMissingGate
<1>1. LetIn => NoMissingGate
  BY DEF LetIn, NoMissingGate
<1> QED BY <1>1, SetUpInit, LetInInit, SetUpStep, LetInStep, StackAlways, PTL DEF Spec

-----------------------------------------------------------------------------
(* The lines in service are the ones of the handler that runs, less what   *)
(* it has ended already, and none when the main thread runs.               *)
OwnLines ==
  /\ at = "main" => isr = {}
  /\ at \in {"stub", "handler"} /\ vector \in Irqs => isr = LinesOf(vector)
  /\ at = "eoi_slave" => vector = 44 /\ isr = {Cascade, 12}
  /\ at = "eoi" => vector \in Irqs /\ isr = IF vector = 44 THEN {Cascade} ELSE {}
  /\ at = "iret" => vector \in Irqs /\ isr = {}

(* One command ends a service of a PIC with one line in service. *)
LEMMA OneLine ==
  /\ \A s \in Int : Highest({s}) = {s}
  /\ Highest({}) = {}
BY DEF Highest

(* The frame an interrupt's handler returns to. *)
LEMMA StackMain == ASSUME StackInv, Len(stack) = 1 PROVE stack[1].at = "main"
BY DEF StackInv, Layered, Depth

LEMMA OwnLinesStep ==
  ASSUME StackInv, SetUp, LetIn, OwnLines, [Next]_vars
  PROVE  OwnLines' /\ (at # "main" => isr \ isr' \subseteq LinesOf(vector))
<1>1. UNCHANGED <<at, vector, isr>> => OwnLines' /\ isr \ isr' = {}
  BY DEF OwnLines
<1>2. CASE idt_init
  <2>1. at = "main" /\ at' = "main" /\ (isr' = isr \/ isr' = {})
    BY <1>2 DEF idt_init, idt_init_clear, idt_init_exceptions, pic_remap, idt_init_irqs,
                idt_load, idt_init_mask, idt_init_unmask, irq_clear_mask, idt_init_sti,
                cpuVars, picVars
  <2> QED BY <2>1 DEF OwnLines
<1>3. CASE stub \/ isr_handler_spin
  BY <1>3 DEF stub, isr_handler_spin, OwnLines, picVars
<1>4. CASE isr_handler_device
  <2>1. at = "handler" /\ vector \in Irqs /\ vector' = vector
    BY <1>4 DEF isr_handler_device, Irqs
  <2>2. CASE vector \in {32, 33} /\ EoiMaster /\ at' = "eoi"
    <3>1. PICK s \in {0, 1} : LinesOf(vector) = {s} /\ isr = {s} /\ isr \cap Master = {s}
      BY <2>1, <2>2 DEF OwnLines, LinesOf, Master
    <3>2. isr' = {}
      BY <2>2, <3>1, OneLine DEF EoiMaster
    <3> QED BY <2>1, <2>2, <3>1, <3>2 DEF OwnLines
  <2>3. CASE vector = 44 /\ UNCHANGED isr /\ at' = "eoi_slave"
    BY <2>1, <2>3 DEF OwnLines, LinesOf
  <2> QED BY <1>4, <2>2, <2>3 DEF isr_handler_device
<1>5. CASE isr_handler_eoi_slave
  <2>1. /\ at = "eoi_slave" /\ at' = "eoi" /\ vector' = vector
        /\ vector = 44 /\ isr = {Cascade, 12} /\ EoiSlave
    BY <1>5 DEF isr_handler_eoi_slave, OwnLines
  <2>2. isr' = {Cascade}
    <3>1. isr \cap Slave = {12} /\ Highest({12}) = {12}
      BY <2>1, OneLine DEF Slave, Cascade
    <3> QED BY <2>1, <3>1 DEF EoiSlave, Cascade
  <2> QED BY <2>1, <2>2 DEF OwnLines, LinesOf, Irqs
<1>6. CASE isr_handler_eoi
  <2>1. /\ at = "eoi" /\ at' = "iret" /\ vector' = vector /\ EoiMaster
        /\ vector \in Irqs /\ isr = IF vector = 44 THEN {Cascade} ELSE {}
    BY <1>6 DEF isr_handler_eoi, OwnLines
  <2>2. isr' = {} /\ isr \subseteq LinesOf(vector)
    <3>1. CASE vector = 44
      <4>1. isr \cap Master = {Cascade} /\ Highest({Cascade}) = {Cascade} /\ isr = {Cascade}
        BY <2>1, <3>1, OneLine DEF Master, Cascade
      <4> QED BY <2>1, <3>1, <4>1 DEF EoiMaster, LinesOf
    <3>2. CASE vector # 44
      <4>1. isr \cap Master = {} /\ isr = {}
        BY <2>1, <3>2
      <4> QED BY <2>1, <4>1 DEF EoiMaster
    <3> QED BY <3>1, <3>2
  <2> QED BY <2>1, <2>2 DEF OwnLines
<1>7. CASE iret
  <2>1. at = "iret" /\ vector \in Irqs /\ isr = {} /\ isr' = isr
    BY <1>7 DEF iret, OwnLines, picVars
  <2>2. Len(stack) = 1
    <3> DEFINE n == Len(stack)
    <3>1. n \in Nat
      <4>1. stack \in Seq(Frame)
        BY DEF StackInv, Types
      <4> QED BY <4>1
    <3>2. n # 0 /\ n <= 1
      BY <2>1 DEF StackInv, Layered, Depth
    <3> HIDE DEF n
    <3>3. n = 1
      BY <3>1, <3>2
    <3> QED BY <3>3 DEF n
  <2>3. at' = stack[1].at /\ stack[1].at = "main"
    BY Zenon, <1>7, <2>2, StackMain DEF iret
  <2> QED BY <2>1, <2>3 DEF OwnLines
<1>8. ASSUME NEW irq \in Devices, interrupt(irq)
      PROVE  OwnLines' /\ at = "main"
  <2>1. at = "main" /\ pc = "main" /\ isr = {}
    BY <1>8 DEF interrupt, LetIn, StackInv, Layered, OwnLines
  <2>2. /\ vector' = VectorOf(irq) /\ isr' = {irq, MasterLine(irq)}
        /\ at' \in {"stub", "reset"}
    BY <1>8, <2>1 DEF interrupt, Enter
  <2>3. LinesOf(VectorOf(irq)) = {irq, MasterLine(irq)}
    BY <2>1 DEF SetUp, Gated, Remapped, VectorOf, Devices, Slave, LinesOf, MasterLine, Cascade
  <2> QED BY <2>1, <2>2, <2>3 DEF OwnLines
<1>9. ASSUME NEW irq \in Devices, spurious_interrupt(irq)
      PROVE  OwnLines' /\ at = "main"
  <2>1. /\ at = "main" /\ vector' \in Spurious /\ at' \in {"stub", "reset"}
    BY <1>9 DEF spurious_interrupt, SetUp, Gated, Remapped, Spurious, Enter
  <2>2. vector' \notin Irqs
    BY <2>1 DEF Spurious, Irqs
  <2> QED BY <2>1, <2>2 DEF OwnLines
<1>10. ASSUME NEW v \in Exceptions, exception(v)
       PROVE  OwnLines' /\ isr' = isr
  <2>1. vector' = v /\ at' \in {"stub", "reset"} /\ isr' = isr
    BY <1>10 DEF exception, Enter, picVars
  <2>2. v \notin Irqs
    BY ExceptionsAssumption DEF Irqs
  <2> QED BY <2>1, <2>2 DEF OwnLines
<1>11. ASSUME spin \/ main_loop \/ UNCHANGED vars \/ \E irq \in Devices : request(irq)
       PROVE  UNCHANGED <<at, vector, isr>>
  BY <1>11 DEF spin, main_loop, request, vars, cpuVars, picVars
<1>12. stub \/ isr_handler_spin => isr' = isr
  BY DEF stub, isr_handler_spin, picVars
<1> QED
  BY <1>1, <1>2, <1>3, <1>4, <1>5, <1>6, <1>7, <1>8, <1>9, <1>10, <1>11, <1>12
  DEF Next, Handler

(* pit.c:26, keyboard.c:125 and idt.c:170-188: no end-of-interrupt command *)
(* ends the service of a handler that is not the one that gives it, though *)
(* timer and keyboard give two each.                                       *)
THEOREM EoiEndsOwn == Spec => EoiEndsOwnService
<1>1. Init => OwnLines
  BY DEF Init, OwnLines
<1>2. Spec => [](StackInv /\ SetUp /\ LetIn)
  BY SetUpInit, LetInInit, SetUpStep, LetInStep, StackAlways, PTL DEF Spec
<1>3. StackInv /\ SetUp /\ LetIn /\ OwnLines /\ [Next]_vars
        => OwnLines' /\ [at # "main" => isr \ isr' \subseteq LinesOf(vector)]_vars
  BY OwnLinesStep
<1> QED BY <1>1, <1>2, <1>3, PTL DEF Spec, EoiEndsOwnService

-----------------------------------------------------------------------------
(* The mouse and its driver (Ps2). *)
Byte   == [from : {"none", "ctl", "kbd", "aux"}, byte : 0 .. 255, pos : 0 .. 2, id : Nat]
Packet == [buttons : Buttons, dx : Moves, dy : Moves]

(* What the mouse sends at a place of a packet. *)
Field(packet, pos) == IF pos = 0 THEN packet.buttons
                      ELSE IF pos = 1 THEN packet.dx ELSE packet.dy

(* A byte of the mouse is the ACK or the byte its place in its packet says. *)
Genuine(m, sent) ==
  /\ m.id \in 0 .. Len(sent)
  /\ m.id = 0 => m.pos = 0
  /\ m.id # 0 => m.byte = Field(sent[m.id], m.pos)

AckWaits == aux # << >> /\ aux[1].id = 0

PacketTypes ==
  /\ mouse_cycle \in 0 .. 2
  /\ mouse_packet \in [0 .. 2 -> Byte]
  /\ mouse_x \in Int /\ mouse_y \in Int
  /\ out \in Byte
  /\ aux \in Seq(Byte)
  /\ packets \in Seq(Packet)
  /\ key \in Scancodes \cup {NoKey}
  /\ status \in 0 .. 255 /\ config \in 0 .. 255 /\ last \in 0 .. 255
  /\ input.port = 96 => input.byte \in 0 .. 255

(* The byte in the buffer comes right before those that wait. *)
Continued ==
  IF Len(aux) = 0 \/ Len(aux) = 3
    THEN out.pos = 2 \/ out.id = 0
    ELSE ~ AckWaits => out.id = Len(packets) /\ out.pos = 2 - Len(aux)

(* The mouse's bytes come in the order of its packets. *)
InOrder ==
  /\ \A i \in 0 .. 2 : Genuine(mouse_packet[i], packets)
  /\ \A k \in 1 .. Len(aux) : /\ aux[k].from = "aux" /\ Genuine(aux[k], packets)
                              /\ ~ AckWaits => aux[k].id = Len(packets)
                                               /\ aux[k].pos = 2 - Len(aux) + k
  /\ AckWaits => Len(aux) = 1
  /\ Len(aux) <= 3
  /\ out.from = "aux" => Genuine(out, packets) /\ Continued

Pending(port, byte, ready) ==
  \/ input.port = port /\ input.byte = byte /\ expects = "none"
  \/ input.port = 0 /\ expects = ready

(* How far mouse_init and the controller are with each other. *)
Settled ==
  /\ init_pc # "done" => key = NoKey /\ out.from # "kbd"
  /\ out = Empty <=> out.from = "none"
  /\ init_pc \notin {"wait_ack", "read_ack", "done"} =>
       ~ streaming /\ aux = << >> /\ out.from # "aux"

Protocol ==
  \/ /\ init_pc = "enable" /\ out = Empty
     /\ input.port = 0 /\ expects = "none"
  \/ /\ init_pc = "read_command" /\ out = Empty
     /\ Pending(100, 168, "none")
  \/ /\ init_pc = "wait_status" /\ (input.port # 0 => out = Empty)
     /\ Pending(100, 32, "none")
  \/ /\ init_pc = "read_status"
     /\ input.port = 0 /\ expects = "none"
  \/ /\ init_pc = "write_command" /\ out = Empty
     /\ input.port = 0 /\ expects = "none"
  \/ /\ init_pc = "write_status" /\ out = Empty
     /\ Pending(100, 96, "config")
  \/ /\ init_pc = "mouse_prefix" /\ out = Empty
     /\ \/ input.port = 96 /\ expects = "config"
        \/ input.port = 0 /\ expects = "none"
  \/ /\ init_pc = "mouse_command" /\ out = Empty
     /\ Pending(100, 212, "aux")
  \/ /\ init_pc = "wait_ack"
     /\ \/ /\ input.port = 96 /\ expects = "aux"
           /\ ~ streaming /\ aux = << >> /\ out = Empty
        \/ input.port = 0 /\ expects = "none" /\ (AckWaits => out = Empty)
  \/ /\ init_pc = "read_ack" /\ (AckWaits => ~ MouseOn /\ out.from # "aux")
     /\ input.port = 0 /\ expects = "none"
  \/ /\ init_pc = "done" /\ (AckWaits => ~ MouseOn /\ out.from # "aux")
     /\ input.port = 0 /\ expects = "none"
     /\ out.from = "aux" => out.id # 0

PacketInv == PacketTypes /\ InOrder /\ Settled /\ Protocol

-----------------------------------------------------------------------------
LEMMA Bits ==
  ASSUME NEW byte \in 0 .. 255
  PROVE  SetBit(byte, 1) \in 0 .. 255 /\ ClearBit(byte, 5) \in 0 .. 255
BY SMT DEF SetBit, ClearBit, Bit

LEMMA MouseIsByte ==
  ASSUME NEW byte \in 0 .. 255, NEW pos \in 0 .. 2, NEW id \in Nat
  PROVE  Mouse(byte, pos, id) \in Byte
BY DEF Mouse, Byte

LEMMA ThreeBytes ==
  ASSUME NEW a \in Byte, NEW b \in Byte, NEW c \in Byte
  PROVE  << a, b, c >> \in Seq(Byte)
OBVIOUS

LEMMA PacketTypesInit == Ps2Init => PacketTypes
<1> SUFFICES ASSUME Ps2Init PROVE PacketTypes
  OBVIOUS
<1>1. Empty \in Byte
  BY DEF Empty, Byte
<1> QED BY <1>1, BytesAssumption DEF Ps2Init, PacketTypes, NoInput

LEMMA ProcessTypes ==
  ASSUME PacketTypes, NEW taken \in Byte, mouse_process_byte(taken)
  PROVE  /\ mouse_cycle' \in 0 .. 2 /\ mouse_packet' \in [0 .. 2 -> Byte]
         /\ mouse_x' \in Int /\ mouse_y' \in Int
<1> DEFINE bytes == [mouse_packet EXCEPT ![mouse_cycle] = taken]
<1>1. bytes \in [0 .. 2 -> Byte]
  BY DEF PacketTypes
<1>2. int8(bytes[1].byte) \in Int /\ int8(bytes[2].byte) \in Int
  BY <1>1 DEF int8, Byte
<1> QED BY <1>1, <1>2 DEF mouse_process_byte, PacketTypes, driverVars

LEMMA PacketTypesStep ==
  ASSUME PacketTypes, [Ps2Next]_ps2Vars
  PROVE  PacketTypes'
<1> USE DEF PacketTypes
<1>0. CASE UNCHANGED ps2Vars
  BY <1>0 DEF ps2Vars
<1>1. CASE controller_enables_mouse
  <2>1. ClearBit(config, 5) \in 0 .. 255
    BY Bits
  <2> QED BY <1>1, <2>1
          DEF controller_enables_mouse, initVars, driverVars, deviceVars, NoInput
<1>2. CASE controller_sends_config
  <2>1. Reply(config) \in Byte
    BY DEF Reply, Byte
  <2> QED BY <1>2, <2>1
          DEF controller_sends_config, initVars, driverVars, deviceVars, NoInput
<1>3. CASE controller_takes_prefix
  BY <1>3 DEF controller_takes_prefix, initVars, driverVars, deviceVars, NoInput
<1>4. CASE controller_takes_config
  BY <1>4 DEF controller_takes_config, initVars, driverVars, deviceVars, NoInput
<1>5. CASE mouse_takes_command
  <2>1. << Mouse(ACK, 0, 0) >> \in Seq(Byte)
    BY MouseIsByte DEF ACK
  <2> QED BY <1>5, <2>1 DEF mouse_takes_command, initVars, driverVars, NoInput
<1>6. CASE controller_takes_key
  <2>1. key \in 0 .. 255
    BY <1>6, BytesAssumption DEF controller_takes_key
  <2>2. Key(key) \in Byte
    BY <2>1 DEF Key, Byte
  <2> QED BY <1>6, <2>1, <2>2 DEF controller_takes_key, initVars, driverVars
<1>7. CASE controller_takes_mouse_byte
  <2>1. Head(aux) \in Byte /\ Tail(aux) \in Seq(Byte)
    BY <1>7, HeadTailProperties DEF controller_takes_mouse_byte
  <2>2. Head(aux).byte \in 0 .. 255
    BY <2>1 DEF Byte
  <2> QED BY <1>7, <2>1, <2>2 DEF controller_takes_mouse_byte, initVars, driverVars
<1>8. ASSUME NEW scancode \in Scancodes, type_key(scancode) PROVE PacketTypes'
  BY <1>8 DEF type_key, initVars, driverVars, controllerVars
<1>9. ASSUME NEW b \in Buttons, NEW dx \in Moves, NEW dy \in Moves, move_mouse(b, dx, dy)
      PROVE  PacketTypes'
  <2> DEFINE id == Len(packets) + 1
  <2>1. /\ id \in Nat
        /\ b \in 0 .. 255 /\ dx \in 0 .. 255 /\ dy \in 0 .. 255
    BY BytesAssumption
  <2>2. << Mouse(b, 0, id), Mouse(dx, 1, id), Mouse(dy, 2, id) >> \in Seq(Byte)
    <3>1. Mouse(b, 0, id) \in Byte
      BY <2>1 DEF Mouse, Byte
    <3>2. Mouse(dx, 1, id) \in Byte
      BY <2>1 DEF Mouse, Byte
    <3>3. Mouse(dy, 2, id) \in Byte
      BY <2>1 DEF Mouse, Byte
    <3> QED BY <3>1, <3>2, <3>3, ThreeBytes
  <2>3. Append(packets, [buttons |-> b, dx |-> dx, dy |-> dy]) \in Seq(Packet)
    BY DEF Packet
  <2> QED BY <1>9, <2>2, <2>3 DEF move_mouse, initVars, driverVars, controllerVars
<1>10. CASE keyboard_handler
  <2>1. Empty \in Byte
    BY DEF Empty, Byte
  <2> QED BY <1>10, <2>1 DEF keyboard_handler, initVars, driverVars, deviceVars
<1>11. CASE mouse_handler
  <2>1. Empty \in Byte
    BY DEF Empty, Byte
  <2>2. mouse_process_byte(out)
    BY <1>11 DEF mouse_handler
  <2> QED BY <1>11, <2>1, <2>2, ProcessTypes DEF mouse_handler, initVars, deviceVars
<1>12. CASE mouse_init
  <2>1. Empty \in Byte
    BY DEF Empty, Byte
  <2>2. ASSUME NEW here, NEW port, NEW byte \in 0 .. 255, NEW next, outb(here, port, byte, next)
        PROVE  PacketTypes'
    BY <2>2 DEF outb, driverVars, deviceVars
  <2>3. ASSUME NEW here, NEW next, wait_output(here, next) PROVE PacketTypes'
    BY <2>3 DEF wait_output, driverVars, controllerVars, deviceVars
  <2>4. ASSUME NEW here, NEW next, inb(here, next), status' \in 0 .. 255 PROVE PacketTypes'
    BY <2>1, <2>4 DEF inb, driverVars, deviceVars
  <2>5. SetBit(last, 1) \in 0 .. 255
    BY Bits
  <2>6. status' = status => status' \in 0 .. 255
    OBVIOUS
  <2>7. 168 \in 0 .. 255 /\ 32 \in 0 .. 255 /\ 96 \in 0 .. 255 /\ 212 \in 0 .. 255
        /\ 244 \in 0 .. 255 /\ status \in 0 .. 255
    OBVIOUS
  <2> HIDE DEF PacketTypes
  <2> QED BY <1>12, <2>2, <2>3, <2>4, <2>5, <2>6, <2>7, Zenon DEF mouse_init
<1> QED BY <1>0, <1>1, <1>2, <1>3, <1>4, <1>5, <1>6, <1>7, <1>8, <1>9, <1>10, <1>11, <1>12
        DEF Ps2Next, Controller

-----------------------------------------------------------------------------
(* What was sent stays sent, whatever the mouse sends after it. *)
LEMMA GenuineStays ==
  ASSUME NEW sent \in Seq(Packet), NEW packet \in Packet, NEW m, Genuine(m, sent)
  PROVE  Genuine(m, Append(sent, packet))
BY DEF Genuine

LEMMA InOrderInit == Ps2Init => InOrder
BY DEF Ps2Init, InOrder, Genuine, AckWaits, Empty

(* Only the mouse and its handler disturb the order. *)
LEMMA OthersKeepOrder ==
  ASSUME InOrder, UNCHANGED <<mouse_packet, aux, packets>>,
         out' = out \/ out'.from # "aux"
  PROVE  InOrder'
BY DEF InOrder, Continued, AckWaits

LEMMA AckKeepsOrder ==
  ASSUME PacketTypes, InOrder, mouse_takes_command
  PROVE  InOrder'
<1>1. /\ mouse_packet' = mouse_packet /\ packets' = packets /\ out' = out
      /\ aux' = << Mouse(ACK, 0, 0) >>
  BY DEF mouse_takes_command, driverVars
<1>2. Genuine(Mouse(ACK, 0, 0), packets) /\ Mouse(ACK, 0, 0).from = "aux"
  BY DEF Genuine, Mouse, PacketTypes
<1>3. AckWaits'
  BY <1>1 DEF AckWaits, Mouse
<1>4. Len(aux') = 1
  BY <1>1
<1>5. Continued'
  BY <1>3, <1>4 DEF Continued
<1> QED BY <1>1, <1>2, <1>3, <1>4, <1>5 DEF InOrder

(* Nothing waits behind the ACK, and no ACK behind a byte. *)
LEMMA TakingIsReal ==
  ASSUME PacketTypes, InOrder, controller_takes_mouse_byte
  PROVE  /\ Len(aux') = Len(aux) - 1 /\ out' = aux[1] /\ Len(aux) \in 1 .. 3
         /\ \A k \in 1 .. Len(aux') : aux'[k] = aux[k + 1] /\ k + 1 \in 1 .. Len(aux)
         /\ ~ AckWaits'
<1>1. /\ mouse_packet' = mouse_packet /\ packets' = packets
      /\ aux # << >> /\ out' = Head(aux) /\ aux' = Tail(aux)
  BY DEF controller_takes_mouse_byte, driverVars
<1>2. aux \in Seq(Byte) /\ packets \in Seq(Packet)
  BY DEF PacketTypes
<1>3. Len(aux') = Len(aux) - 1 /\ out' = aux[1] /\ Len(aux) \in 1 .. 3
      /\ \A k \in 1 .. Len(aux') : aux'[k] = aux[k + 1] /\ k + 1 \in 1 .. Len(aux)
  <2>1. Len(aux) <= 3
    BY DEF InOrder
  <2>2. Len(aux) \in Nat /\ Len(aux) # 0 /\ Head(aux) = aux[1]
    BY <1>1, <1>2
  <2>3. /\ Len(Tail(aux)) = Len(aux) - 1
        /\ \A k \in 1 .. Len(Tail(aux)) : Tail(aux)[k] = aux[k + 1]
    BY <1>1, <1>2, HeadTailProperties
  <2> QED BY <1>1, <2>1, <2>2, <2>3
<1>4. ~ AckWaits'
  <2>1. SUFFICES ASSUME AckWaits' PROVE FALSE
    OBVIOUS
  <2>2. Len(aux') >= 1
    BY <1>1, <1>2, <1>3, <2>1 DEF AckWaits
  <2>3. aux'[1] = aux[2] /\ 2 \in 1 .. Len(aux) /\ ~ AckWaits
    BY <1>3, <2>2 DEF InOrder
  <2>4. aux[2].pos = 4 - Len(aux) /\ Genuine(aux[2], packets)
    BY <2>3 DEF InOrder
  <2> QED BY <1>3, <2>1, <2>3, <2>4 DEF AckWaits, Genuine
<1> QED BY <1>3, <1>4

LEMMA TakingKeepsOrder ==
  ASSUME PacketTypes, InOrder, controller_takes_mouse_byte
  PROVE  InOrder'
<1>1. /\ mouse_packet' = mouse_packet /\ packets' = packets
      /\ aux # << >> /\ out' = Head(aux) /\ aux' = Tail(aux)
  BY DEF controller_takes_mouse_byte, driverVars
<1>2. aux \in Seq(Byte) /\ packets \in Seq(Packet)
  BY DEF PacketTypes
<1>3. Len(aux') = Len(aux) - 1 /\ out' = aux[1] /\ Len(aux) \in 1 .. 3
      /\ \A k \in 1 .. Len(aux') : aux'[k] = aux[k + 1] /\ k + 1 \in 1 .. Len(aux)
  BY TakingIsReal
<1>4. ~ AckWaits'
  BY TakingIsReal
<1>5. \A k \in 1 .. Len(aux') : /\ aux'[k].from = "aux" /\ Genuine(aux'[k], packets)
                                /\ aux'[k].id = Len(packets)
                                /\ aux'[k].pos = 2 - Len(aux') + k
  <2> SUFFICES ASSUME NEW k \in 1 .. Len(aux')
               PROVE  /\ aux'[k].from = "aux" /\ Genuine(aux'[k], packets)
                      /\ aux'[k].id = Len(packets)
                      /\ aux'[k].pos = 2 - Len(aux') + k
    OBVIOUS
  <2>1. ~ AckWaits /\ aux'[k] = aux[k + 1] /\ k + 1 \in 1 .. Len(aux)
    BY <1>3 DEF InOrder
  <2> QED BY <1>2, <1>3, <2>1 DEF InOrder
<1>6. Genuine(out', packets)
  BY <1>3 DEF InOrder
<1>7. CASE AckWaits
  <2>1. Len(aux) = 1 /\ aux[1].id = 0
    BY <1>7 DEF InOrder, AckWaits
  <2>2. Len(aux') = 0 /\ out'.id = 0
    BY <1>3, <2>1
  <2>3. Continued'
    BY <2>2 DEF Continued
  <2>4. \A i \in 0 .. 2 : Genuine(mouse_packet[i], packets)
    BY DEF InOrder
  <2> QED BY <1>1, <1>4, <1>5, <1>6, <2>2, <2>3, <2>4 DEF InOrder
<1>8. CASE ~ AckWaits
  <2>1. out'.id = Len(packets) /\ out'.pos = 2 - Len(aux')
    BY <1>2, <1>3, <1>8 DEF InOrder
  <2>2. Len(aux') \in 0 .. 2
    BY <1>3
  <2>3. Continued'
    <3>1. CASE Len(aux') = 0
      BY <2>1, <3>1 DEF Continued
    <3>2. CASE Len(aux') # 0
      <4>1. packets' = packets
        BY <1>1
      <4>2. Len(aux') # 3
        BY <2>2
      <4> QED BY <2>1, <3>2, <4>1, <4>2 DEF Continued
    <3> QED BY <3>1, <3>2
  <2>4. \A i \in 0 .. 2 : Genuine(mouse_packet[i], packets)
    BY DEF InOrder
  <2> QED BY <1>1, <1>4, <1>5, <2>2, <2>3, <2>4 DEF InOrder
<1> QED BY <1>7, <1>8

LEMMA SendingKeepsOrder ==
  ASSUME PacketTypes, InOrder,
         NEW b \in Buttons, NEW dx \in Moves, NEW dy \in Moves, move_mouse(b, dx, dy)
  PROVE  InOrder'
<1> DEFINE id == Len(packets) + 1
           packet == [buttons |-> b, dx |-> dx, dy |-> dy]
<1>1. /\ mouse_packet' = mouse_packet /\ out' = out
      /\ aux = << >> /\ packets' = Append(packets, packet)
      /\ aux' = << Mouse(b, 0, id), Mouse(dx, 1, id), Mouse(dy, 2, id) >>
  BY DEF move_mouse, driverVars, controllerVars
<1>2. packets \in Seq(Packet) /\ packet \in Packet
  BY DEF PacketTypes, Packet
<1>3. Len(packets') = id /\ packets'[id] = packet /\ id \in Nat \ {0}
  BY <1>1, <1>2
<1>4. \A m : Genuine(m, packets) => Genuine(m, packets')
  BY <1>1, <1>2, GenuineStays
<1>5. /\ Genuine(Mouse(b, 0, id), packets') /\ Genuine(Mouse(dx, 1, id), packets')
      /\ Genuine(Mouse(dy, 2, id), packets')
  BY <1>3 DEF Genuine, Mouse, Field
<1>6. /\ Len(aux') = 3 /\ ~ AckWaits'
      /\ \A k \in 1 .. 3 : /\ aux'[k].from = "aux" /\ Genuine(aux'[k], packets')
                           /\ aux'[k].id = id /\ aux'[k].pos = k - 1
  BY <1>1, <1>3, <1>5 DEF AckWaits, Mouse
<1>7. out.from = "aux" => out.pos = 2 \/ out.id = 0
  BY <1>1 DEF InOrder, Continued
<1>8. out'.from = "aux" => Continued'
  BY <1>1, <1>6, <1>7 DEF Continued
<1> QED BY <1>1, <1>3, <1>4, <1>6, <1>8 DEF InOrder

LEMMA ProcessBytes ==
  ASSUME PacketTypes, NEW taken, mouse_process_byte(taken)
  PROVE  \A i \in 0 .. 2 : mouse_packet'[i] \in {mouse_packet[i], taken}
BY DEF PacketTypes, mouse_process_byte, driverVars

LEMMA HandlingKeepsOrder ==
  ASSUME PacketTypes, InOrder, mouse_handler
  PROVE  InOrder'
<1>1. /\ out.from = "aux" /\ out' = Empty /\ mouse_process_byte(out)
      /\ aux' = aux /\ packets' = packets
  BY DEF mouse_handler, deviceVars
<1>2. \A i \in 0 .. 2 : mouse_packet'[i] \in {mouse_packet[i], out}
  BY <1>1, ProcessBytes
<1>3. \A i \in 0 .. 2 : Genuine(mouse_packet'[i], packets')
  BY <1>1, <1>2 DEF InOrder
<1>4. out'.from # "aux"
  BY <1>1 DEF Empty
<1> QED BY <1>1, <1>3, <1>4 DEF InOrder, AckWaits

LEMMA InOrderStep ==
  ASSUME PacketTypes, InOrder, [Ps2Next]_ps2Vars
  PROVE  InOrder'
<1> DEFINE Still == /\ UNCHANGED <<mouse_packet, aux, packets>>
                    /\ out' = out \/ out'.from # "aux"
<1>1. CASE UNCHANGED ps2Vars
  BY <1>1, OthersKeepOrder DEF ps2Vars
<1>2. CASE \/ controller_enables_mouse \/ controller_sends_config
           \/ controller_takes_prefix \/ controller_takes_config
           \/ controller_takes_key \/ keyboard_handler
  BY <1>2, OthersKeepOrder
     DEF controller_enables_mouse, controller_sends_config, controller_takes_prefix,
         controller_takes_config, controller_takes_key, keyboard_handler, driverVars,
         deviceVars, Reply, Key, Empty
<1>3. ASSUME NEW scancode, type_key(scancode) PROVE InOrder'
  BY <1>3, OthersKeepOrder DEF type_key, driverVars, controllerVars
<1>4. CASE mouse_init
  <2>1. ASSUME NEW here, NEW port, NEW byte, NEW next, outb(here, port, byte, next)
        PROVE  Still
    BY <2>1 DEF outb, driverVars, deviceVars
  <2>2. ASSUME NEW here, NEW next, wait_output(here, next) PROVE Still
    BY <2>2 DEF wait_output, driverVars, controllerVars, deviceVars
  <2>3. ASSUME NEW here, NEW next, inb(here, next) PROVE Still
    BY <2>3 DEF inb, driverVars, deviceVars, Empty
  <2>4. Still
    <3> HIDE DEF Still
    <3> QED BY <1>4, <2>1, <2>2, <2>3, Zenon DEF mouse_init
  <2> QED BY <2>4, OthersKeepOrder
<1>5. CASE mouse_takes_command
  BY <1>5, AckKeepsOrder
<1>6. CASE controller_takes_mouse_byte
  BY <1>6, TakingKeepsOrder
<1>7. ASSUME NEW b \in Buttons, NEW dx \in Moves, NEW dy \in Moves, move_mouse(b, dx, dy)
      PROVE  InOrder'
  BY <1>7, SendingKeepsOrder
<1>8. CASE mouse_handler
  BY <1>8, HandlingKeepsOrder
<1> QED BY <1>1, <1>2, <1>3, <1>4, <1>5, <1>6, <1>7, <1>8 DEF Ps2Next, Controller

-----------------------------------------------------------------------------
LEMMA ProtocolInit == Ps2Init => Settled /\ Protocol
BY DEF Ps2Init, Settled, Protocol, Empty, NoInput

(* The controller answers what mouse_init has written. *)
LEMMA ProtocolController ==
  ASSUME InOrder, Settled, Protocol, Controller, PacketTypes
  PROVE  Settled' /\ Protocol'
<1>1. CASE controller_enables_mouse
  <2>1. /\ input.port = 100 /\ input.byte = 168 /\ input'.port = 0
        /\ UNCHANGED <<init_pc, out, expects, key, streaming, aux>>
    BY <1>1 DEF controller_enables_mouse, NoInput, initVars, deviceVars
  <2>2. init_pc = "read_command"
    BY <2>1 DEF Protocol, Pending
  <2> QED BY <2>1, <2>2 DEF Settled, Protocol, Pending
<1>2. CASE controller_sends_config
  <2>1. /\ input.port = 100 /\ input.byte = 32 /\ input'.port = 0
        /\ out' = Reply(config)
        /\ UNCHANGED <<init_pc, expects, key, streaming, aux>>
    BY <1>2 DEF controller_sends_config, NoInput, initVars, deviceVars
  <2>2. init_pc = "wait_status" /\ expects = "none"
    BY <2>1 DEF Protocol, Pending
  <2>3. out' # Empty /\ out'.from = "ctl"
    BY <2>1 DEF Reply, Empty
  <2> QED BY <2>1, <2>2, <2>3 DEF Settled, Protocol, Pending
<1>3. CASE controller_takes_prefix
  <2>1. /\ input.port = 100 /\ input.byte \in {96, 212} /\ input'.port = 0
        /\ expects' = IF input.byte = 96 THEN "config" ELSE "aux"
        /\ UNCHANGED <<init_pc, out, key, streaming, aux>>
    BY <1>3 DEF controller_takes_prefix, NoInput, initVars, deviceVars
  <2>2. \/ init_pc = "write_status" /\ input.byte = 96 /\ out = Empty
        \/ init_pc = "mouse_command" /\ input.byte = 212 /\ out = Empty
    BY <2>1 DEF Protocol, Pending
  <2> QED BY <2>1, <2>2 DEF Settled, Protocol, Pending
<1>4. CASE controller_takes_config
  <2>1. /\ input.port = 96 /\ expects = "config" /\ input'.port = 0 /\ expects' = "none"
        /\ UNCHANGED <<init_pc, out, key, streaming, aux>>
    BY <1>4 DEF controller_takes_config, NoInput, initVars, deviceVars
  <2>2. init_pc = "mouse_prefix" /\ out = Empty
    BY <2>1 DEF Protocol, Pending
  <2> QED BY <2>1, <2>2 DEF Settled, Protocol, Pending
<1>5. CASE mouse_takes_command
  <2>1. /\ input.port = 96 /\ expects = "aux" /\ input'.port = 0 /\ expects' = "none"
        /\ UNCHANGED <<init_pc, out, key>>
    BY <1>5 DEF mouse_takes_command, NoInput, initVars
  <2>2. init_pc = "wait_ack" /\ out = Empty
    BY <2>1 DEF Protocol, Pending
  <2> QED BY <2>1, <2>2 DEF Settled, Protocol, Pending
<1>6. CASE controller_takes_key
  <2>1. /\ key # NoKey /\ key' = NoKey /\ out' = Key(key)
        /\ UNCHANGED <<init_pc, input, expects, config, streaming, aux>>
    BY <1>6 DEF controller_takes_key, initVars
  <2>2. init_pc = "done"
    BY <2>1 DEF Settled
  <2>3. out'.from = "kbd" /\ out' # Empty
    BY <2>1 DEF Key, Empty
  <2> QED BY <2>1, <2>2, <2>3 DEF Settled, Protocol, MouseOn, AckWaits, Pending
<1>7. CASE controller_takes_mouse_byte
  <2>1. /\ aux # << >> /\ MouseOn /\ out = Empty /\ out' = Head(aux) /\ aux' = Tail(aux)
        /\ UNCHANGED <<init_pc, input, expects, config, key, streaming>>
    BY <1>7 DEF controller_takes_mouse_byte, initVars
  <2>2. init_pc \in {"wait_ack", "read_ack", "done"}
    BY <2>1 DEF Settled
  <2>3. out'.from = "aux" /\ out' # Empty /\ out' = aux[1] /\ Len(aux) # 0
    BY <2>1 DEF InOrder, Empty, PacketTypes
  <2>4. ~ AckWaits'
    BY <1>7, TakingIsReal
  <2>5. init_pc # "wait_ack" => out'.id # 0
    BY <2>1, <2>2, <2>3 DEF Protocol, AckWaits
  <2> QED BY <2>1, <2>2, <2>3, <2>4, <2>5 DEF Settled, Protocol
<1> QED BY <1>1, <1>2, <1>3, <1>4, <1>5, <1>6, <1>7 DEF Controller

(* mouse_init takes the steps of this protocol, whatever it finds in the   *)
(* output buffer; what it waits for is there or will never come.           *)
LEMMA ProtocolDriver ==
  ASSUME PacketTypes, InOrder, Settled, Protocol, mouse_init
  PROVE  Settled' /\ Protocol'
<1>1. ASSUME NEW here, NEW port, NEW byte, NEW next, outb(here, port, byte, next)
      PROVE  /\ init_pc = here /\ init_pc' = next /\ input.port = 0
             /\ input'.port = port /\ input'.byte = byte
             /\ UNCHANGED <<out, expects, key, streaming, aux>>
  BY <1>1 DEF outb, NoInput, deviceVars
<1>2. ASSUME NEW here, NEW next, wait_output(here, next)
      PROVE  /\ init_pc = here /\ init_pc' = next
             /\ out # Empty \/ (input.port = 0 /\ (aux = << >> \/ ~ MouseOn))
             /\ UNCHANGED <<out, input, expects, config, key, streaming, aux>>
  BY <1>2 DEF wait_output, controllerVars, deviceVars, NoInput
<1>3. ASSUME NEW here, NEW next, inb(here, next)
      PROVE  /\ init_pc = here /\ init_pc' = next /\ out' = Empty /\ out'.from = "none"
             /\ UNCHANGED <<input, expects, config, key, streaming, aux>>
  BY <1>3 DEF inb, deviceVars, Empty
<1>4. CASE outb("enable", 100, 168, "read_command")
  BY <1>1, <1>4 DEF Settled, Protocol, Pending
<1>5. CASE outb("read_command", 100, 32, "wait_status")
  BY <1>1, <1>5 DEF Settled, Protocol, Pending
<1>6. CASE wait_output("wait_status", "read_status")
  BY <1>2, <1>6 DEF Settled, Protocol, Pending
<1>7. CASE inb("read_status", "write_command")
  BY <1>3, <1>7 DEF Settled, Protocol, Pending
<1>8. CASE outb("write_command", 100, 96, "write_status")
  BY <1>1, <1>8 DEF Settled, Protocol, Pending
<1>9. CASE outb("write_status", 96, status, "mouse_prefix")
  BY <1>1, <1>9 DEF Settled, Protocol, Pending
<1>10. CASE outb("mouse_prefix", 100, 212, "mouse_command")
  BY <1>1, <1>10 DEF Settled, Protocol, Pending
<1>11. CASE outb("mouse_command", 96, 244, "wait_ack")
  <2>1. ~ AckWaits /\ ~ streaming /\ aux = << >> /\ out = Empty /\ expects = "aux"
    BY <1>1, <1>11 DEF Settled, Protocol, Pending, AckWaits
  <2> QED BY <1>1, <1>11, <2>1 DEF Settled, Protocol
<1>12. CASE wait_output("wait_ack", "read_ack")
  <2>1. init_pc = "wait_ack" /\ init_pc' = "read_ack"
        /\ UNCHANGED <<out, input, expects, key, streaming, aux>>
    BY <1>2, <1>12
  <2>2. input.port = 0 /\ expects = "none" /\ (AckWaits => ~ MouseOn /\ out.from # "aux")
    BY <1>2, <1>12, <2>1 DEF Protocol, AckWaits, Empty
  <2>3. (AckWaits => ~ MouseOn /\ out.from # "aux")'
    BY <1>2, <1>12, <2>2 DEF AckWaits, MouseOn
  <2> QED BY <2>1, <2>2, <2>3 DEF Settled, Protocol
<1>13. CASE inb("read_ack", "done")
  <2>1. init_pc = "read_ack" /\ init_pc' = "done" /\ out' = Empty /\ out'.from = "none"
        /\ UNCHANGED <<input, expects, key, streaming, aux>>
    BY <1>3, <1>13
  <2>2. input.port = 0 /\ expects = "none" /\ (AckWaits => ~ MouseOn /\ out.from # "aux")
    BY <2>1 DEF Protocol
  <2>3. (AckWaits => ~ MouseOn /\ out.from # "aux")'
    BY <1>3, <1>13, <2>2 DEF AckWaits, MouseOn
  <2> QED BY <2>1, <2>2, <2>3 DEF Settled, Protocol
<1> QED BY <1>4, <1>5, <1>6, <1>7, <1>8, <1>9, <1>10, <1>11, <1>12, <1>13 DEF mouse_init

(* Whoever types or moves the mouse leaves the protocol alone while nobody *)
(* types before it is done, and so do the handlers.                        *)
LEMMA ProtocolDevices ==
  ASSUME ~ TypingDuringInit, PacketTypes, InOrder, Settled, Protocol,
         \/ \E scancode \in Scancodes : type_key(scancode)
         \/ \E b \in Buttons, dx, dy \in Moves : move_mouse(b, dx, dy)
         \/ keyboard_handler \/ mouse_handler \/ UNCHANGED ps2Vars
  PROVE  Settled' /\ Protocol'
<1>1. ASSUME NEW scancode \in Scancodes, type_key(scancode) PROVE Settled' /\ Protocol'
  <2>1. /\ init_pc = "done"
        /\ UNCHANGED <<init_pc, out, input, expects, config, streaming, aux>>
    BY <1>1 DEF type_key, initVars, controllerVars
  <2> QED BY <2>1 DEF Settled, Protocol, AckWaits, MouseOn
<1>2. ASSUME NEW b \in Buttons, NEW dx \in Moves, NEW dy \in Moves, move_mouse(b, dx, dy)
      PROVE  Settled' /\ Protocol'
  <2> DEFINE id == Len(packets) + 1
  <2>1. /\ streaming /\ aux' = << Mouse(b, 0, id), Mouse(dx, 1, id), Mouse(dy, 2, id) >>
        /\ UNCHANGED <<init_pc, out, input, expects, config, key, streaming>>
    BY <1>2 DEF move_mouse, initVars, controllerVars
  <2>2. id # 0
    BY DEF PacketTypes
  <2>3. ~ AckWaits'
    BY <2>1, <2>2 DEF AckWaits, Mouse
  <2>4. init_pc \in {"wait_ack", "read_ack", "done"}
    BY <2>1 DEF Settled, Protocol
  <2>5. UNCHANGED <<init_pc, out, input, expects, key, streaming>> /\ streaming
    BY <2>1
  <2>6. input.port = 0 /\ expects = "none"
    BY <2>4, <2>5 DEF Protocol
  <2>7. init_pc = "done" /\ out.from = "aux" => out.id # 0
    BY DEF Protocol
  <2>8. Protocol'
    BY <2>3, <2>4, <2>5, <2>6, <2>7 DEF Protocol
  <2> QED BY <2>4, <2>5, <2>8 DEF Settled
<1>3. CASE keyboard_handler \/ mouse_handler
  <2>1. /\ out # Empty /\ out' = Empty /\ out'.from = "none"
        /\ UNCHANGED <<init_pc, input, expects, config, key, streaming, aux>>
    BY <1>3 DEF keyboard_handler, mouse_handler, Empty, initVars, deviceVars
  <2> QED BY <2>1 DEF Settled, Protocol, AckWaits, MouseOn, Pending
<1>4. CASE UNCHANGED ps2Vars
  <2>1. UNCHANGED <<init_pc, out, input, expects, config, key, streaming, aux>>
    BY <1>4 DEF ps2Vars
  <2> QED BY <2>1 DEF Settled, Protocol, AckWaits, MouseOn, Pending
<1> QED BY <1>1, <1>2, <1>3, <1>4

(* The invariant: every byte on its way is the one its packet has there,   *)
(* and after mouse_init no ACK will reach the handler.                     *)
LEMMA PacketAlways ==
  ASSUME ~ TypingDuringInit
  PROVE  Ps2Spec => []PacketInv
<1>1. Ps2Init => PacketInv
  BY PacketTypesInit, InOrderInit, ProtocolInit DEF PacketInv
<1>2. PacketInv /\ [Ps2Next]_ps2Vars => PacketInv'
  <2> SUFFICES ASSUME PacketInv, [Ps2Next]_ps2Vars PROVE PacketInv'
    OBVIOUS
  <2>1. PacketTypes /\ InOrder /\ Settled /\ Protocol
    BY DEF PacketInv
  <2>2. PacketTypes' /\ InOrder'
    BY <2>1, PacketTypesStep, InOrderStep
  <2>3. Settled' /\ Protocol'
    BY <2>1, ProtocolController, ProtocolDriver, ProtocolDevices DEF Ps2Next
  <2> QED BY <2>2, <2>3 DEF PacketInv
<1> QED BY <1>1, <1>2, PTL DEF Ps2Spec

-----------------------------------------------------------------------------
(* Of the steps after mouse_init only the handler's takes a byte of the    *)
(* mouse off the way, and only the mouse puts bytes on it.                 *)
LEMMA WaysAfterInit ==
  ASSUME PacketInv, [Ps2Next]_ps2Vars, init_pc = "done"
  PROVE  \/ /\ UNCHANGED <<mouse_cycle, mouse_packet>> /\ ~ mouse_handler
            /\ NextByte' = NextByte
         \/ /\ UNCHANGED <<mouse_cycle, mouse_packet>> /\ ~ mouse_handler
            /\ NextByte = Empty /\ NextByte'.pos = 0
         \/ mouse_handler /\ NextByte = out
<1> DEFINE Keeps == UNCHANGED <<mouse_cycle, mouse_packet>> /\ NextByte' = NextByte
           Sends == /\ UNCHANGED <<mouse_cycle, mouse_packet>>
                    /\ NextByte = Empty /\ NextByte'.pos = 0
<1>1. input.port = 0
  BY DEF PacketInv, Protocol
<1>2. ASSUME mouse_handler
      PROVE  out.from = "aux" /\ out' = Empty
  BY <1>2 DEF mouse_handler
<1>3. CASE mouse_handler
  BY <1>2, <1>3 DEF NextByte
<1>4. CASE ~ mouse_handler
  <2>1. ASSUME UNCHANGED ps2Vars PROVE Keeps
    BY <2>1 DEF ps2Vars, NextByte
  <2>2. ASSUME Controller PROVE Keeps
    <3>1. ~ controller_enables_mouse /\ ~ controller_sends_config
          /\ ~ controller_takes_prefix /\ ~ controller_takes_config
          /\ ~ mouse_takes_command
      BY <1>1 DEF controller_enables_mouse, controller_sends_config,
                  controller_takes_prefix, controller_takes_config, mouse_takes_command
    <3>2. CASE controller_takes_key
      <4>1. /\ out = Empty /\ out' = Key(key)
            /\ UNCHANGED <<mouse_cycle, mouse_packet, aux>>
        BY <3>2 DEF controller_takes_key, driverVars
      <4>2. out.from # "aux" /\ out'.from # "aux"
        BY <4>1 DEF Empty, Key
      <4> QED BY <4>1, <4>2 DEF NextByte
    <3>3. CASE controller_takes_mouse_byte
      <4>1. /\ out = Empty /\ out' = Head(aux) /\ aux # << >>
            /\ UNCHANGED <<mouse_cycle, mouse_packet>>
        BY <3>3 DEF controller_takes_mouse_byte, driverVars
      <4>2. aux \in Seq(Byte) /\ Len(aux) # 0 /\ Head(aux) = aux[1]
        BY <4>1 DEF PacketInv, PacketTypes
      <4>3. out.from # "aux" /\ out'.from = "aux"
        BY <4>1, <4>2 DEF Empty, PacketInv, InOrder
      <4> QED BY <4>1, <4>3 DEF NextByte
    <3> QED BY <2>2, <3>1, <3>2, <3>3 DEF Controller
  <2>3. ASSUME NEW scancode \in Scancodes, type_key(scancode)
        PROVE  Keeps
    BY <2>3 DEF type_key, driverVars, controllerVars, NextByte
  <2>4. ASSUME NEW b \in Buttons, NEW dx \in Moves, NEW dy \in Moves,
               move_mouse(b, dx, dy)
        PROVE  Keeps \/ Sends
    <3> DEFINE id == Len(packets) + 1
    <3>1. /\ aux = << >> /\ out' = out
          /\ aux' = << Mouse(b, 0, id), Mouse(dx, 1, id), Mouse(dy, 2, id) >>
          /\ UNCHANGED <<mouse_cycle, mouse_packet>>
      BY <2>4 DEF move_mouse, driverVars, controllerVars
    <3>2. aux' # << >> /\ Head(aux').pos = 0
      BY <3>1 DEF Mouse
    <3> QED BY <3>1, <3>2 DEF NextByte
  <2>5. ASSUME keyboard_handler PROVE Keeps
    <3>1. /\ out.from # "aux" /\ out' = Empty
          /\ UNCHANGED <<mouse_cycle, mouse_packet, aux>>
      BY <2>5 DEF keyboard_handler, driverVars, deviceVars
    <3>2. out'.from # "aux"
      BY <3>1 DEF Empty
    <3> QED BY <3>1, <3>2 DEF NextByte
  <2>6. ~ mouse_init
    BY DEF mouse_init, outb, wait_output, inb
  <2>7. Keeps \/ Sends
    <3> HIDE DEF Keeps, Sends
    <3>1. CASE Ps2Next
      BY <1>4, <2>2, <2>3, <2>4, <2>5, <2>6, <3>1, Zenon DEF Ps2Next
    <3>2. CASE UNCHANGED ps2Vars
      BY <2>1, <3>2
    <3> QED BY <3>1, <3>2
  <2> QED BY <1>4, <2>7, Zenon
<1> QED BY <1>3, <1>4

(* The handler's byte and the one after it are neighbours. *)
LEMMA NextInPacket ==
  ASSUME PacketInv, init_pc = "done", mouse_handler
  PROVE  /\ out \in Byte /\ Genuine(out, packets) /\ out.id # 0
         /\ NextByte'.pos \in 0 .. 2 /\ NextByte'.pos = (out.pos + 1) % 3
         /\ out.pos # 2 => NextByte'.id = out.id
<1>1. /\ out.from = "aux" /\ out' = Empty /\ out'.from = "none" /\ aux' = aux
  BY DEF mouse_handler, deviceVars, Empty
<1>2. /\ out \in Byte /\ out.pos \in 0 .. 2 /\ aux \in Seq(Byte) /\ packets \in Seq(Packet)
  BY DEF PacketInv, PacketTypes, Byte
<1>3. Genuine(out, packets) /\ Continued
  BY <1>1 DEF PacketInv, InOrder
<1>4. out.id # 0 /\ ~ AckWaits
  BY <1>1 DEF PacketInv, Protocol
<1>5. NextByte' = IF aux # << >> THEN Head(aux) ELSE Empty
  BY <1>1 DEF NextByte
<1> DEFINE pos == NextByte'.pos
           place == out.pos
<1>6. CASE Len(aux) = 0
  <2>1. place = 2 /\ pos = 0
    BY <1>2, <1>3, <1>4, <1>5, <1>6 DEF Continued, Empty
  <2> HIDE DEF pos, place
  <2>2. pos \in 0 .. 2 /\ pos = (place + 1) % 3
    BY <2>1
  <2> QED BY <1>2, <1>3, <1>4, <2>1, <2>2, Zenon DEF pos, place
<1>7. CASE Len(aux) # 0
  <2>1. NextByte' = aux[1] /\ Len(aux) \in 1 .. 3
    <3>1. aux # << >> /\ Head(aux) = aux[1]
      BY <1>2, <1>7
    <3>2. Len(aux) <= 3
      BY Zenon DEF PacketInv, InOrder
    <3>3. Len(aux) \in Nat
      BY <1>2
    <3>4. \A n \in Nat : n # 0 /\ n <= 3 => n \in 1 .. 3
      OBVIOUS
    <3> QED BY <1>5, <1>7, <3>1, <3>2, <3>3, <3>4
  <2>2. aux[1].id = Len(packets) /\ pos = 3 - Len(aux)
    BY <1>2, <1>4, <2>1 DEF PacketInv, InOrder
  <2>3. CASE Len(aux) = 3
    <3>1. place = 2 /\ pos = 0
      BY <1>3, <1>4, <2>2, <2>3 DEF Continued
    <3> HIDE DEF pos, place
    <3>2. pos \in 0 .. 2 /\ pos = (place + 1) % 3
      BY <3>1
    <3> QED BY <1>2, <1>3, <1>4, <3>1, <3>2, Zenon DEF pos, place
  <2>4. CASE Len(aux) \in 1 .. 2
    <3>0. Len(aux) # 0 /\ Len(aux) # 3
      <4>1. \A n \in 1 .. 2 : n # 0 /\ n # 3
        OBVIOUS
      <4> QED BY <2>4, <4>1
    <3>1. out.id = Len(packets) /\ place = 2 - Len(aux)
      BY <1>3, <1>4, <3>0 DEF Continued
    <3>2. NextByte'.id = out.id
      BY <2>1, <2>2, <3>1
    <3> HIDE DEF pos, place
    <3>3. pos \in 0 .. 2 /\ pos = (place + 1) % 3
      <4> DEFINE left == Len(aux)
      <4>1. pos = 3 - left /\ place = 2 - left /\ (left = 1 \/ left = 2)
        BY <2>2, <2>4, <3>1
      <4> HIDE DEF left
      <4> QED BY <4>1
    <3> QED BY <1>2, <1>3, <1>4, <3>2, <3>3, Zenon DEF pos, place
  <2> QED BY <2>1, <2>3, <2>4
<1> QED BY <1>2, <1>6, <1>7

(* A byte with bit 3 clear is skipped between packets only, and one with   *)
(* it set is taken: a first byte has it set.                               *)
LEMMA SkippedOrTaken ==
  ASSUME PacketInv, init_pc = "done", mouse_handler
  PROVE  \/ mouse_cycle = 0 /\ out.pos # 0 /\ UNCHANGED <<mouse_cycle, mouse_packet>>
         \/ /\ mouse_cycle' = (mouse_cycle + 1) % 3
            /\ mouse_packet' = [mouse_packet EXCEPT ![mouse_cycle] = out]
<1>1. mouse_process_byte(out)
  BY DEF mouse_handler
<1>2. out.pos = 0 => Bit(out.byte, 3)
  <2>1. SUFFICES ASSUME out.pos = 0 PROVE Bit(out.byte, 3)
    OBVIOUS
  <2>2. out.byte = packets[out.id].buttons /\ out.id \in 1 .. Len(packets)
    BY <2>1, NextInPacket DEF Genuine, Field, PacketInv, PacketTypes
  <2>3. packets[out.id] \in Packet
    BY <2>2 DEF PacketInv, PacketTypes
  <2> QED BY <2>2, <2>3, ButtonsAssumption DEF Packet
<1> QED BY <1>1, <1>2 DEF mouse_process_byte, driverVars

LEMMA OffsetIsSmall ==
  ASSUME PacketInv
  PROVE  /\ mouse_cycle \in 0 .. 2 /\ NextByte.pos \in 0 .. 2
         /\ Offset = 0 <=> NextByte.pos = mouse_cycle
<1>1. mouse_cycle \in 0 .. 2
  BY DEF PacketInv, PacketTypes
<1>2. NextByte \in Byte
  <2>1. out \in Byte /\ aux \in Seq(Byte)
    BY DEF PacketInv, PacketTypes
  <2>2. Empty \in Byte
    BY DEF Empty, Byte
  <2>3. aux # << >> => Head(aux) \in Byte
    BY <2>1
  <2> QED BY <2>1, <2>2, <2>3 DEF NextByte
<1>3. NextByte.pos \in 0 .. 2
  BY <1>2 DEF Byte
<1>4. \A p, c \in 0 .. 2 : (p - c) % 3 = 0 <=> p = c
  OBVIOUS
<1> QED BY <1>1, <1>3, <1>4 DEF Offset

LEMMA Rotation ==
  /\ \A p, c \in 0 .. 2 : (((p + 1) % 3) - ((c + 1) % 3)) % 3 = (p - c) % 3
  /\ \A p \in 0 .. 2 : (((p + 1) % 3) - 0) % 3 = (((p - 0) % 3) + 1) % 3
<1>1. ASSUME NEW p \in 0 .. 2, NEW c \in 0 .. 2
      PROVE  (((p + 1) % 3) - ((c + 1) % 3)) % 3 = (p - c) % 3
  <2>1. \A m, n \in 0 .. 2 : (m - n) % 3 = IF m >= n THEN m - n ELSE 3 + m - n
    OBVIOUS
  <2>2. \A n \in 0 .. 2 : (n + 1) % 3 = IF n = 2 THEN 0 ELSE n + 1
    OBVIOUS
  <2> DEFINE m == (p + 1) % 3
             n == (c + 1) % 3
  <2>3. m = (IF p = 2 THEN 0 ELSE p + 1) /\ n = (IF c = 2 THEN 0 ELSE c + 1)
    BY <2>2
  <2> HIDE DEF m, n
  <2>4. m \in 0 .. 2 /\ n \in 0 .. 2
    BY <2>3
  <2>5. (m - n) % 3 = IF m >= n THEN m - n ELSE 3 + m - n
    BY <2>1, <2>4
  <2>6. (p - c) % 3 = IF p >= c THEN p - c ELSE 3 + p - c
    BY <2>1
  <2>7. (m - n) % 3 = (p - c) % 3
    BY <2>3, <2>5, <2>6
  <2> QED BY <2>7 DEF m, n
<1>2. ASSUME NEW p \in 0 .. 2
      PROVE  (((p + 1) % 3) - 0) % 3 = (((p - 0) % 3) + 1) % 3
  OBVIOUS
<1> QED BY <1>1, <1>2

(* SkippingRealigns: a mouse that is out of step with the driver comes one *)
(* byte nearer with each byte mouse.c:105-107 skips, and one in step stays *)
(* so, whenever nobody typed before mouse_init was done.                   *)
THEOREM SkippingIsSafe ==
  ASSUME ~ TypingDuringInit
  PROVE  Ps2Spec => SkippingRealigns
<1> DEFINE Nearer == init_pc = "done" /\ Offset' # Offset =>
                       Offset # 0 /\ Offset' = (Offset + 1) % 3
<1>1. PacketInv /\ [Ps2Next]_ps2Vars => Nearer
  <2> SUFFICES ASSUME PacketInv, [Ps2Next]_ps2Vars, init_pc = "done", Offset' # Offset
               PROVE  Offset # 0 /\ Offset' = (Offset + 1) % 3
    OBVIOUS
  <2>1. mouse_cycle \in 0 .. 2 /\ NextByte.pos \in 0 .. 2
        /\ (Offset = 0 <=> NextByte.pos = mouse_cycle)
    BY OffsetIsSmall
  <2>2. CASE UNCHANGED <<mouse_cycle>> /\ NextByte'.pos = NextByte.pos
    BY <2>2 DEF Offset
  <2>3. CASE mouse_handler /\ NextByte = out
    <3>1. NextByte'.pos = (NextByte.pos + 1) % 3
      BY <2>3, NextInPacket
    <3>2. CASE mouse_cycle' = (mouse_cycle + 1) % 3
      <4>1. Offset' = Offset
        BY <2>1, <3>1, <3>2, Rotation DEF Offset
      <4> QED BY <4>1
    <3>3. CASE mouse_cycle = 0 /\ out.pos # 0 /\ mouse_cycle' = mouse_cycle
      <4>1. Offset # 0
        BY <2>1, <2>3, <3>3
      <4>2. Offset' = (Offset + 1) % 3
        BY <2>1, <3>1, <3>3, Rotation DEF Offset
      <4> QED BY <4>1, <4>2
    <3> QED BY <2>3, <3>2, <3>3, SkippedOrTaken
  <2> QED BY <2>2, <2>3, WaysAfterInit DEF Empty
<1>2. Nearer => [Nearer]_ps2Vars
  OBVIOUS
<1> QED BY <1>1, PacketAlways, PTL DEF Ps2Spec, SkippingRealigns

(* In step, the bytes kept and the one that comes are of one packet. *)
LEMMA PacketIsWhole ==
  ASSUME PacketInv, InStep, init_pc = "done", mouse_handler, mouse_cycle = 2
  PROVE  LET sent == packets[out.id]
         IN  /\ mouse_x' - mouse_x = int8(sent.dx)
             /\ mouse_y' - mouse_y = - int8(sent.dy)
             /\ buttons_down' = { n \in 0 .. 2 : Bit(sent.buttons, n) }
<1> DEFINE sent == packets[out.id]
           bytes == [mouse_packet EXCEPT ![2] = out]
<1>1. out.from = "aux" /\ mouse_process_byte(out)
  BY DEF mouse_handler
<1>2. NextByte = out /\ out.pos = 2
  BY <1>1, OffsetIsSmall DEF NextByte, InStep
<1>3. /\ out \in Byte /\ mouse_packet \in [0 .. 2 -> Byte]
      /\ mouse_x \in Int /\ mouse_y \in Int
  BY DEF PacketInv, PacketTypes
<1>4. Genuine(out, packets) /\ out.id # 0
  BY NextInPacket
<1>5. \A i \in 0 .. 1 : /\ mouse_packet[i].pos = i /\ mouse_packet[i].id = out.id
                        /\ Genuine(mouse_packet[i], packets)
  BY <1>2 DEF InStep, PacketInv, InOrder
<1>6. /\ bytes[0] = mouse_packet[0] /\ bytes[1] = mouse_packet[1] /\ bytes[2] = out
  BY <1>3
<1>7. /\ mouse_packet[0].byte = sent.buttons /\ mouse_packet[1].byte = sent.dx
      /\ out.byte = sent.dy
  BY <1>2, <1>4, <1>5 DEF Genuine, Field
<1>8. /\ mouse_x' = mouse_x + int8(bytes[1].byte)
      /\ mouse_y' = mouse_y - int8(bytes[2].byte)
      /\ buttons_down' = { n \in 0 .. 2 : Bit(bytes[0].byte, n) }
  BY <1>1 DEF mouse_process_byte
<1>9. int8(sent.dx) \in Int /\ int8(sent.dy) \in Int
  BY <1>3, <1>7 DEF int8, Byte
<1>10. mouse_x' - mouse_x = int8(sent.dx) /\ mouse_y' - mouse_y = - int8(sent.dy)
  <2> DEFINE dx == int8(sent.dx)
             dy == int8(sent.dy)
  <2>1. mouse_x' = mouse_x + dx /\ mouse_y' = mouse_y - dy
    BY <1>6, <1>7, <1>8
  <2>2. dx \in Int /\ dy \in Int
    BY <1>9
  <2> HIDE DEF dx, dy
  <2>3. mouse_x' - mouse_x = dx /\ mouse_y' - mouse_y = - dy
    BY <1>3, <2>1, <2>2
  <2> QED BY <2>3 DEF dx, dy
<1> QED BY <1>6, <1>7, <1>8, <1>10

LEMMA InStepStays ==
  ASSUME PacketInv, PacketInv', [Ps2Next]_ps2Vars, init_pc = "done", InStep
  PROVE  InStep'
<1>1. /\ mouse_cycle \in 0 .. 2 /\ NextByte.pos = mouse_cycle
      /\ \A i \in 0 .. mouse_cycle - 1 : /\ mouse_packet[i].pos = i
                                        /\ mouse_packet[i].id = NextByte.id
  BY OffsetIsSmall DEF InStep
<1>2. SUFFICES /\ NextByte'.pos = mouse_cycle'
               /\ \A i \in 0 .. mouse_cycle' - 1 : /\ mouse_packet'[i].pos = i
                                                  /\ mouse_packet'[i].id = NextByte'.id
  <2>1. (Offset = 0 <=> NextByte.pos = mouse_cycle)'
    BY OffsetIsSmall, PTL
  <2> QED BY <2>1, <1>2 DEF InStep
<1>3. CASE UNCHANGED <<mouse_cycle, mouse_packet>> /\ NextByte' = NextByte
  BY <1>1, <1>3
<1>4. CASE UNCHANGED <<mouse_cycle, mouse_packet>> /\ NextByte = Empty /\ NextByte'.pos = 0
  BY <1>1, <1>4 DEF Empty
<1>5. CASE mouse_handler /\ NextByte = out
  <2>1. /\ NextByte'.pos = (out.pos + 1) % 3 /\ out.pos = mouse_cycle
        /\ out.pos # 2 => NextByte'.id = out.id
    BY <1>1, <1>5, NextInPacket
  <2>2. /\ mouse_cycle' = (mouse_cycle + 1) % 3
        /\ mouse_packet' = [mouse_packet EXCEPT ![mouse_cycle] = out]
    BY <1>5, <2>1, SkippedOrTaken
  <2>3. mouse_packet \in [0 .. 2 -> Byte]
    BY DEF PacketInv, PacketTypes
  <2>4. CASE mouse_cycle = 2
    BY <2>1, <2>2, <2>4
  <2>5. CASE mouse_cycle # 2
    <3>1. mouse_cycle' = mouse_cycle + 1
      BY <1>1, <2>2, <2>5
    <3>2. \A i \in 0 .. mouse_cycle' - 1 :
            i \in 0 .. 2 /\ (i = mouse_cycle \/ i \in 0 .. mouse_cycle - 1)
      BY <1>1, <3>1, <2>5
    <3>3. NextByte'.id = out.id
      BY <2>1, <2>5
    <3> QED BY <1>1, <1>5, <2>1, <2>2, <2>3, <3>2, <3>3
  <2> QED BY <2>4, <2>5
<1> QED BY <1>3, <1>4, <1>5, WaysAfterInit

(* MovesAreReal: in step the driver stays so, and moves the pointer as one *)
(* whole packet of the mouse says.                                         *)
THEOREM MovesAreSafe ==
  ASSUME ~ TypingDuringInit
  PROVE  Ps2Spec => MovesAreReal
<1> DEFINE Real ==
      init_pc = "done" /\ InStep =>
        /\ InStep'
        /\ mouse_handler /\ mouse_cycle = 2 =>
             LET sent == packets[out.id]
             IN  /\ mouse_x' - mouse_x = int8(sent.dx)
                 /\ mouse_y' - mouse_y = - int8(sent.dy)
                 /\ buttons_down' = { n \in 0 .. 2 : Bit(sent.buttons, n) }
<1>1. PacketInv /\ PacketInv' /\ [Ps2Next]_ps2Vars => Real
  BY InStepStays, PacketIsWhole
<1> QED BY <1>1, PacketAlways, PTL DEF Ps2Spec, MovesAreReal

-----------------------------------------------------------------------------
(* What Ps2TypeOK says beside PacketTypes and InOrder. *)
Ranges ==
  /\ \A i \in 0 .. 2 : mouse_packet[i].from \in {"none", "aux"}
  /\ buttons_down \subseteq 0 .. 2
  /\ expects \in {"none", "config", "aux"}
  /\ keys \in 0 .. MaxKeys /\ Len(packets) <= MaxPackets

LEMMA RangesStep ==
  ASSUME PacketTypes, Ranges, [Ps2Next]_ps2Vars
  PROVE  Ranges'
<1> DEFINE Slots == /\ \A i \in 0 .. 2 : mouse_packet[i].from \in {"none", "aux"}
                    /\ buttons_down \subseteq 0 .. 2
           Rest == UNCHANGED <<keys, packets>>
<1>1. CASE UNCHANGED ps2Vars
  BY <1>1 DEF Ranges, ps2Vars
<1>2. CASE Controller
  BY <1>2
     DEF Ranges, Controller, controller_enables_mouse, controller_sends_config,
         controller_takes_prefix, controller_takes_config, mouse_takes_command,
         controller_takes_key, controller_takes_mouse_byte, driverVars, deviceVars
<1>3. ASSUME NEW scancode, type_key(scancode) PROVE Ranges'
  BY <1>3, BytesAssumption DEF Ranges, type_key, driverVars, controllerVars
<1>4. ASSUME NEW b, NEW dx, NEW dy, move_mouse(b, dx, dy) PROVE Ranges'
  <2>1. Len(packets') = Len(packets) + 1 /\ Len(packets) + 1 <= MaxPackets
    BY <1>4 DEF move_mouse, PacketTypes
  <2> QED BY <1>4, <2>1 DEF Ranges, move_mouse, driverVars, controllerVars
<1>5. CASE keyboard_handler
  BY <1>5 DEF Ranges, keyboard_handler, driverVars, deviceVars
<1>6. CASE mouse_handler
  <2>1. out.from = "aux" /\ mouse_process_byte(out)
    BY <1>6 DEF mouse_handler
  <2>2. \A i \in 0 .. 2 : mouse_packet'[i] \in {mouse_packet[i], out}
    BY <2>1, ProcessBytes
  <2>3. buttons_down' \subseteq 0 .. 2
    BY <2>1 DEF Ranges, mouse_process_byte, driverVars
  <2> QED BY <1>6, <2>1, <2>2, <2>3 DEF Ranges, mouse_handler, deviceVars
<1>7. CASE mouse_init
  <2> DEFINE Same == UNCHANGED <<mouse_packet, buttons_down, expects, keys, packets>>
  <2>1. ASSUME NEW from, NEW port, NEW byte, NEW next, outb(from, port, byte, next)
        PROVE  Same
    BY <2>1 DEF outb, driverVars, deviceVars
  <2>2. ASSUME NEW from, NEW next, wait_output(from, next) PROVE Same
    BY <2>2 DEF wait_output, driverVars, controllerVars, deviceVars
  <2>3. ASSUME NEW from, NEW next, inb(from, next) PROVE Same
    BY <2>3 DEF inb, driverVars, deviceVars
  <2>4. Same
    <3> HIDE DEF Same
    <3> QED BY <1>7, <2>1, <2>2, <2>3, Zenon DEF mouse_init
  <2> QED BY <2>4 DEF Ranges
<1> QED BY <1>1, <1>2, <1>3, <1>4, <1>5, <1>6, <1>7 DEF Ps2Next

(* The variables of the mouse driver and its controller keep their types,  *)
(* whoever types while mouse_init runs.                                    *)
THEOREM Ps2TypeSafe == Ps2Spec => []Ps2TypeOK
<1> DEFINE I == PacketTypes /\ InOrder /\ Ranges
<1>1. Ps2Init => I
  <2>1. Ps2Init => Ranges
    BY BytesAssumption DEF Ps2Init, Ranges, Empty
  <2> QED BY <2>1, PacketTypesInit, InOrderInit
<1>2. I /\ [Ps2Next]_ps2Vars => I'
  BY PacketTypesStep, InOrderStep, RangesStep
<1>3. I => Ps2TypeOK
  <2> SUFFICES ASSUME I PROVE Ps2TypeOK
    OBVIOUS
  <2>1. Len(packets) \in 0 .. MaxPackets
    BY BytesAssumption DEF PacketTypes, Ranges
  <2>2. \A i \in 0 .. 2 :
          mouse_packet[i] \in [from : {"none", "aux"}, byte : 0 .. 255,
                               pos : 0 .. 2, id : 0 .. MaxPackets]
    <3> SUFFICES ASSUME NEW i \in 0 .. 2
                 PROVE  mouse_packet[i] \in [from : {"none", "aux"}, byte : 0 .. 255,
                                             pos : 0 .. 2, id : 0 .. MaxPackets]
      OBVIOUS
    <3>1. mouse_packet[i] \in Byte
      BY DEF PacketTypes
    <3>2. mouse_packet[i].from \in {"none", "aux"}
      BY DEF Ranges
    <3>3. mouse_packet[i].id \in 0 .. MaxPackets
      BY <2>1, BytesAssumption DEF InOrder, Genuine
    <3> QED BY <3>1, <3>2, <3>3 DEF Byte
  <2>3. mouse_packet \in [0 .. 2 -> [from : {"none", "aux"}, byte : 0 .. 255,
                                     pos : 0 .. 2, id : 0 .. MaxPackets]]
    <3>1. mouse_packet \in [0 .. 2 -> Byte]
      BY DEF PacketTypes
    <3> QED BY <2>2, <3>1
  <2> QED BY <2>1, <2>3 DEF PacketTypes, Ranges, Ps2TypeOK
<1> QED BY <1>1, <1>2, <1>3, PTL DEF Ps2Spec

=============================================================================
