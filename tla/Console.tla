------------------------------ MODULE Console ------------------------------
(***************************************************************************)
(* The console: kprintf (libk/kprintf/kprintf.c) with itoa, over the       *)
(* serial port (drivers/Serial/URAT.c).  Two contexts print on one port:   *)
(* the main thread, and the mouse's interrupt handler, which reports every *)
(* change of a button (mouse.c:122-159) and may come between any two       *)
(* instructions of the main thread.                                        *)
(*                                                                         *)
(* The UART is external: a queue of characters it sends in the order it    *)
(* took them, 16 deep with its FIFO on and one deep without.  A character  *)
(* written to a full one replaces what waits there.                        *)
(***************************************************************************)
EXTENDS Integers, SequencesExt

CONSTANTS
  Chars,             \* characters
  DIGITS,            \* hexadecimal digits of a word
  FIFO,              \* characters the FIFO holds
  Messages,          \* a sequence of [fmt, args]: what the main thread prints
  MaxPackets         \* bound: packets while the main thread prints one message

(* A 16550 has a FIFO of 16. *)
ASSUME UartAssumption ==
  /\ DIGITS \in Nat /\ DIGITS > 1
  /\ FIFO \in Nat /\ FIFO > 1
  /\ MaxPackets \in Nat

ASSUME CharsAssumption ==
  { "0", "1", "2", "3", "4", "5", "6", "7", "8", "9", "a", "b", "c", "d", "e", "f",
    "-", "x", "L", "R", "M", "u" } \subseteq Chars

Conversions == {"s", "d", "x"}

(* What an argument is that a conversion finds. *)
Typed(arg, conversion) ==
  CASE conversion = "s" -> arg \in Seq(Chars)
    [] conversion = "d" -> arg \in Int
    [] conversion = "x" -> arg \in Nat

(* before[i]: the arguments kprintf has read with the first i characters of *)
(* fmt, or -1 inside of a conversion.  One it does not know, as %u, reads   *)
(* none.                                                                    *)
Consumed(before, i, fmt, args) ==
  \/ /\ fmt[i + 1] # "%"
     /\ before[i + 1] = before[i]
  \/ /\ fmt[i + 1] = "%" /\ i + 2 <= Len(fmt) /\ before[i + 1] = -1
     /\ \/ /\ fmt[i + 2] \in Conversions
           /\ before[i] < Len(args) /\ Typed(args[before[i] + 1], fmt[i + 2])
           /\ before[i + 2] = before[i] + 1
        \/ /\ fmt[i + 2] \notin Conversions
           /\ before[i + 2] = before[i]

Consumes(before, fmt, args) ==
  /\ before[0] = 0 /\ before[Len(fmt)] >= 0
  /\ \A i \in 0 .. Len(fmt) - 1 : before[i] >= 0 => Consumed(before, i, fmt, args)

(* Each conversion that kprintf knows finds an argument of its type. *)
Passes(call) ==
  \E before \in [0 .. Len(call.fmt) -> -1 .. Len(call.args)] :
    Consumes(before, call.fmt, call.args)

(* No format ends with a %. *)
Call(call) ==
  /\ call.fmt \in Seq(Chars) /\ call.fmt # <<>> /\ Last(call.fmt) # "%"
  /\ Len(call.args) \in Nat

ASSUME MessagesAssumption ==
  \A n \in DOMAIN Messages : Call(Messages[n]) /\ Passes(Messages[n])

VARIABLES
  uart,              \* [dlab, fifo, divisor, waiting]: registers and queue length
  calls,             \* for each context, the calls of kprintf it has to make; the
                     \*   first is under way
  read,              \* for each context, how many characters of fmt (i) and how many
                     \*   arguments (arg) that call has read
  buf,               \* for each context, characters it has still to write
  tested,            \* for each context, the port was ready when it looked
  down,              \* mouse_process_byte: the buttons held down
  taken,             \* history: the call's characters, as the UART took them
  packets            \* history: packets since the main thread's last call

consoleVars == <<uart, calls, read, buf, tested, down, taken, packets>>

Contexts == {"main", "irq"}
Buttons  == {"L", "R", "M"}

Printing(w) == calls[w] # <<>>

(* Handlers run to their end before the main thread goes on. *)
Runs(w) == Printing(w) /\ (w = "main" => ~ Printing("irq"))

-----------------------------------------------------------------------------
(* External: the registers of the UART at COM1. *)
Written(u, register, value) ==
  CASE register = 0 /\ u.dlab   -> [u EXCEPT !.divisor = value]
    [] register = 0 /\ ~ u.dlab ->
         [u EXCEPT !.waiting = IF @ < (IF u.fifo THEN FIFO ELSE 1) THEN @ + 1 ELSE @]
    [] register = 2 -> [u EXCEPT !.fifo = (value % 2 = 1)]
    [] register = 3 -> [u EXCEPT !.dlab = (value \div 128 = 1)]
    [] OTHER -> u

LineStatus == [data_ready |-> FALSE, transmit_empty |-> uart.waiting = 0]

uart_sends ==
  /\ uart.waiting > 0
  /\ uart' = [uart EXCEPT !.waiting = @ - 1]
  /\ UNCHANGED <<calls, read, buf, tested, down, taken, packets>>

(* Mutant: without the FIFO. *)
serial_init_no_fifo == << <<1, 0>>, <<3, 128>>, <<0, 3>>, <<1, 0>>, <<3, 3>>, <<4, 11>> >>

(* What serial_init writes, before any device that prints is set up. *)
serial_init ==
  << <<1, 0>>, <<3, 128>>, <<0, 3>>, <<1, 0>>, <<3, 3>>, <<2, 199>>, <<4, 11>> >>

(* Mutant: the bit of the receiver is tested. *)
serial_is_transmit_empty_reads_bit_0 == LineStatus.data_ready

serial_is_transmit_empty == LineStatus.transmit_empty

(* A round of the loop in serial_write_char. *)
serial_write_char_wait(w) ==
  /\ Runs(w) /\ buf[w] # <<>> /\ ~ tested[w]
  /\ tested' = [tested EXCEPT ![w] = serial_is_transmit_empty]
  /\ UNCHANGED <<uart, calls, read, buf, down, taken, packets>>

(* Its outb.  An interrupt may have come since the test. *)
serial_write_char(w) ==
  /\ Runs(w) /\ tested[w]
  /\ uart' = Written(uart, 0, Head(buf[w]))
  /\ taken' = IF uart'.waiting > uart.waiting
                THEN [taken EXCEPT ![w] = Append(@, Head(buf[w]))] ELSE taken
  /\ buf' = [buf EXCEPT ![w] = Tail(@)]
  /\ tested' = [tested EXCEPT ![w] = FALSE]
  /\ UNCHANGED <<calls, read, down, packets>>

-----------------------------------------------------------------------------
Digit(n) == <<"0", "1", "2", "3", "4", "5", "6", "7", "8", "9",
              "a", "b", "c", "d", "e", "f">>[n + 1]

(* The digits of a number, the lowest first: the loop of itoa.             *)
LowestFirst(number) ==
  LET digits[value \in 0 .. number] ==
        IF value > 0 THEN << Digit(value % 10) >> \o digits[value \div 10] ELSE <<>>
  IN  digits

(* Not for the smallest int, whose negation overflows. *)
itoa(value) ==
  CASE value = 0 -> <<"0">>
    [] value < 0 -> Reverse(LowestFirst(-value)[-value] \o <<"-">>)
    [] OTHER     -> Reverse(LowestFirst(value)[value])

(* What is left of val when the loop of %x stores the digit at j: it runs  *)
(* down from the last place.                                               *)
Left(val) ==
  LET left[j \in 1 .. DIGITS] == IF j = DIGITS THEN val ELSE left[j + 1] \div 16
  IN  left

(* The digits lie behind the "0"; the "x" is written over the highest.     *)
hex(val) ==
  [n \in 1 .. DIGITS + 1 |-> CASE n = 1 -> "0"
                               [] n = 2 -> "x"
                               [] OTHER -> Digit(Left(val)[n - 1] % 16)]

Converted(conversion, arg) ==
  CASE conversion = "s" -> arg
    [] conversion = "d" -> itoa(arg)
    [] conversion = "x" -> hex(arg)

(* One round of kprintf's loop, up to the writing of its characters. *)
kprintf_convert(w) ==
  /\ Runs(w) /\ buf[w] = <<>>
  /\ LET fmt  == calls[w][1].fmt
         args == calls[w][1].args
         i    == read[w].i + 1
         arg  == read[w].arg + 1
     IN  /\ i <= Len(fmt)
         /\ \/ /\ fmt[i] # "%"
               /\ buf' = [buf EXCEPT ![w] = << fmt[i] >>]
               /\ read' = [read EXCEPT ![w].i = i]
            \/ /\ fmt[i] = "%" /\ fmt[i + 1] \in Conversions
               /\ buf' = [buf EXCEPT ![w] = Converted(fmt[i + 1], args[arg])]
               /\ read' = [read EXCEPT ![w] = [i |-> i + 1, arg |-> arg]]
            \/ /\ fmt[i] = "%" /\ fmt[i + 1] \notin Conversions
               /\ read' = [read EXCEPT ![w].i = i + 1]
               /\ UNCHANGED buf
  /\ UNCHANGED <<uart, calls, tested, down, taken, packets>>

Starts(w, list) ==
  /\ calls' = [calls EXCEPT ![w] = list]
  /\ read' = [read EXCEPT ![w] = [i |-> 0, arg |-> 0]]
  /\ taken' = [taken EXCEPT ![w] = <<>>]

kprintf_returns(w) ==
  /\ Runs(w) /\ buf[w] = <<>> /\ read[w].i = Len(calls[w][1].fmt)
  /\ Starts(w, Tail(calls[w]))
  /\ UNCHANGED <<uart, buf, tested, down, packets>>

(* The main thread prints a message. *)
kprintf ==
  /\ ~ Printing("main") /\ ~ Printing("irq")
  /\ \E n \in DOMAIN Messages : Starts("main", << Messages[n] >>)
  /\ packets' = 0
  /\ UNCHANGED <<uart, buf, tested, down>>

Report(button, held) ==
  [fmt |-> << button, IF held THEN "d" ELSE "u" >>, args |-> <<>>]

(* The third byte of a packet, with the buttons of its first: one report   *)
(* for each button that changed.                                           *)
mouse_process_byte ==
  /\ ~ Printing("irq") /\ packets < MaxPackets
  /\ \E held \in SUBSET Buttons :
       LET Reports(b) == IF (b \in held) # (b \in down)
                           THEN << Report(b, b \in held) >> ELSE <<>>
       IN  /\ held # down
           /\ down' = held
           /\ Starts("irq", Reports("L") \o Reports("R") \o Reports("M"))
  /\ packets' = packets + 1
  /\ UNCHANGED <<uart, buf, tested>>

-----------------------------------------------------------------------------
(* The UART after n writes of serial_init. *)
Initialized ==
  LET after[n \in 0 .. Len(serial_init)] ==
        IF n = 0 THEN [dlab |-> FALSE, fifo |-> FALSE, divisor |-> 1, waiting |-> 0]
        ELSE Written(after[n - 1], serial_init[n][1], serial_init[n][2])
  IN  after

ConsoleInit ==
  /\ uart = Initialized[Len(serial_init)]
  /\ calls = [w \in Contexts |-> <<>>]
  /\ read = [w \in Contexts |-> [i |-> 0, arg |-> 0]]
  /\ buf = [w \in Contexts |-> <<>>]
  /\ tested = [w \in Contexts |-> FALSE]
  /\ down = {} /\ packets = 0
  /\ taken = [w \in Contexts |-> <<>>]

Step(w) ==
  \/ serial_write_char_wait(w) \/ serial_write_char(w)
  \/ kprintf_convert(w) \/ kprintf_returns(w)

ConsoleNext ==
  \/ uart_sends
  \/ kprintf \/ mouse_process_byte
  \/ \E w \in Contexts : Step(w)

ConsoleSpec == ConsoleInit /\ [][ConsoleNext]_consoleVars

(* The UART sends what it holds, and the processor runs on. *)
ConsoleFairSpec ==
  /\ ConsoleSpec
  /\ WF_consoleVars(uart_sends)
  /\ \A w \in Contexts : WF_consoleVars(Step(w))

-----------------------------------------------------------------------------
(* The variables keep their types. *)
ConsoleTypeOK ==
  /\ uart.waiting \in 0 .. FIFO
  /\ \A w \in Contexts : Len(calls[w]) <= 3 /\ (tested[w] => buf[w] # <<>>)
  /\ down \subseteq Buttons /\ packets \in 0 .. MaxPackets

(* text is made of digits, and they show the number. *)
DigitOf(c) == CHOOSE d \in 0 .. 15 : Digit(d) = c

Worth(text, base) ==
  LET worth[n \in 0 .. Len(text)] ==
        IF n = 0 THEN 0 ELSE base * worth[n - 1] + DigitOf(text[n])
  IN  worth

Reads(text, base, number) ==
  /\ text # <<>>
  /\ \A n \in DOMAIN text : \E d \in 0 .. base - 1 : Digit(d) = text[n]
  /\ Worth(text, base)[Len(text)] = number

Shows(text, conversion, arg) ==
  CASE conversion = "s" -> text = arg
    [] conversion = "x" -> /\ Len(text) > 1 /\ text[1] = "0" /\ text[2] = "x"
                           /\ Reads(SubSeq(text, 3, Len(text)), 16, arg)
    [] OTHER -> \/ Reads(text, 10, arg)
                \/ /\ text # <<>> /\ text[1] = "-"
                   /\ Reads(Tail(text), 10, -arg)

(* What printf means: the format with each conversion replaced by a text   *)
(* that shows its argument.  From[i] has <<n, a>> when text behind its     *)
(* first n characters is what fmt behind its first i ones means with the   *)
(* arguments behind the first a.                                           *)
From(text, fmt, args) ==
  LET Places == (0 .. Len(text)) \X (0 .. Len(args))
      from[i \in 0 .. Len(fmt)] ==
        IF i = Len(fmt) THEN { p \in Places : p[1] = Len(text) }
        ELSE IF fmt[i + 1] # "%"
          THEN { p \in Places : /\ p[1] < Len(text) /\ text[p[1] + 1] = fmt[i + 1]
                                /\ << p[1] + 1, p[2] >> \in from[i + 1] }
          ELSE { p \in Places : /\ p[2] < Len(args)
                                /\ \E n \in p[1] .. Len(text) :
                                     /\ Shows(SubSeq(text, p[1] + 1, n),
                                              fmt[i + 2], args[p[2] + 1])
                                     /\ << n, p[2] + 1 >> \in from[i + 2] }
  IN  from

Says(text, fmt, args) == << 0, 0 >> \in From(text, fmt, args)[0]

(* arg is what the conversion takes.  With its highest digit above 0 a     *)
(* number is not what %x prints: its "x" is in that digit's place.         *)
Suits(arg, conversion) ==
  CASE conversion = "s" -> arg \in Seq(Chars)
    [] conversion = "d" -> arg \in Int
    [] conversion = "x" -> arg \in Nat /\ Left(arg)[1] = 0
    [] OTHER            -> FALSE

(* before[i]: the arguments that the first i characters of fmt read, or -1 *)
(* inside of a conversion.                                                 *)
Asks(before, fmt, args) ==
  /\ before[0] = 0 /\ before[Len(fmt)] >= 0
  /\ \A i \in 0 .. Len(fmt) - 1 : before[i] >= 0 =>
       IF fmt[i + 1] # "%" THEN before[i + 1] = before[i]
       ELSE /\ i + 2 <= Len(fmt) /\ before[i] < Len(args)
            /\ before[i + 1] = -1 /\ before[i + 2] = before[i] + 1
            /\ Suits(args[before[i] + 1], fmt[i + 2])

(* A call gives each conversion an argument it can print. *)
WellAsked(call) ==
  \E before \in [0 .. Len(call.fmt) -> -1 .. Len(call.args)] :
    Asks(before, call.fmt, call.args)

(* kprintf.c:3-55, URAT.c:31-40: when a call returns that gave each of its *)
(* conversions an argument it can print, the UART has taken exactly the    *)
(* text the call stands for, in order, although the other context prints   *)
(* between the test of the port and the write, and whatever other calls,   *)
(* with a %u or too large a number, came before or come between.           *)
LineSaysWhatWasAsked ==
  [][\A w \in Contexts :
       kprintf_returns(w) /\ WellAsked(calls[w][1]) =>
         Says(taken[w], calls[w][1].fmt, calls[w][1].args)]_consoleVars

(* The same of every call.  It fails: kprintf prints nothing for a %u      *)
(* (kernel.c:105, fat32.c:44-47), and the "x" of %x is written over the    *)
(* number's highest digit (idt.c:159).                                     *)
LineSaysWhatWasMeant ==
  [][\A w \in Contexts :
       kprintf_returns(w) =>
         Says(taken[w], calls[w][1].fmt, calls[w][1].args)]_consoleVars

(* Both contexts get to the end of what they print. *)
PrintingEnds == \A w \in Contexts : Printing(w) ~> ~ Printing(w)
=============================================================================
