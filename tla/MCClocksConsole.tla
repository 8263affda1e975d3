-------------------------- MODULE MCClocksConsole --------------------------
(* The clocks and the console share no state: a behaviour is one of the    *)
(* one or of the other, which rests meanwhile.                             *)
EXTENDS Clocks, Console

MCChars ==
  { "0", "1", "2", "3", "4", "5", "6", "7", "8", "9", "a", "b", "c", "d", "e", "f",
    "-", "x", "L", "R", "M", "u", "%", "s", "h", "i", "n", "w" }

(* Text with each conversion in it: both signs, zero, several digits, and  *)
(* hexadecimal numbers whose highest digit is 0.  The last two are those   *)
(* of kernel.c:105, and of idt.c:159 with an address that uses all digits. *)
Unsigned == [fmt |-> <<"w", "%", "u", "b">>, args |-> <<27>>]
High     == [fmt |-> <<"i", "%", "x", "n">>, args |-> <<4048>>]

MCMessages ==
  << [fmt |-> <<"a", "%", "d", "b">>, args |-> <<-105>>],
     [fmt |-> <<"%", "s", "%", "d">>, args |-> << <<"h", "i">>, 0 >>],
     [fmt |-> <<"%", "x", "%", "d">>, args |-> <<10, 47>>],
     [fmt |-> <<"%", "x", "n">>, args |-> <<255>>],
     Unsigned, High >>

UnsignedMessages == << Unsigned >>
HighMessages == << High >>

ASSUME MCMessagesAssumption ==
  \A n \in DOMAIN MCMessages :
    WellAsked(MCMessages[n]) <=> MCMessages[n] \notin { Unsigned, High }

VARIABLE part

allVars == <<part, vars, consoleVars>>

InClocks(A)  == part = "clocks" /\ A /\ UNCHANGED <<part, consoleVars>>
InConsole(A) == part = "console" /\ A /\ UNCHANGED <<part, vars>>

(* The clocks rest at the minute their label shows at first, 21:00 UTC.    *)
ClocksConsoleInit ==
  /\ part \in {"clocks", "console"} /\ Init /\ ConsoleInit
  /\ part = "console" => label = Shown(now) /\ timer_ticks = 0

ClocksConsoleSpec ==
  /\ ClocksConsoleInit
  /\ [][InClocks(Next) \/ InConsole(ConsoleNext)]_allVars
  /\ WF_allVars(InClocks(pit_handler)) /\ WF_allVars(InClocks(Sleep))
  /\ SF_allVars(InClocks(Update)) /\ WF_allVars(InClocks(update_ends))
  /\ WF_allVars(InConsole(uart_sends))
  /\ \A w \in Contexts : WF_allVars(InConsole(Step(w)))
=============================================================================
